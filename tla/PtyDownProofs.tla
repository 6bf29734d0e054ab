---------------------------- MODULE PtyDownProofs ----------------------------
(***************************************************************************)
(* What is taken down stays down, for any number of clients, sessions,     *)
(* crashes and restarts: TakenDownStaysDown of PtyManager.  In memory an   *)
(* id that is down is marked killed or stands for nothing, and nobody who  *)
(* is about to publish, save or respawn has it in hand; in the store what  *)
(* is gone has no row, and no command on its way would bring one back.     *)
(***************************************************************************)
EXTENDS PtyChildProofs

-----------------------------------------------------------------------------
(* The invariant, in memory.                                               *)

\* An id stands for one incarnation at most, and one being replaced for no failed one.
SingleOf(in, id) == /\ in.live[id] # 0 => in.dead[id].inc = 0 /\ in.failed[id].inc = 0
                    /\ in.dead[id].inc # 0 => in.failed[id].inc = 0
                    /\ in.pending[id] # 0 => in.failed[id].inc = 0

\* An id that stands for nothing, and one that no respawn can bring back.
Forgotten(in, id) == in.live[id] = 0 /\ in.dead[id].inc = 0 /\ in.failed[id].inc = 0
Stopped(in, id)   == in.live[id] = 0 /\ (id \in in.killed \/ Forgotten(in, id))

Single == \A id \in Ids : SingleOf(inner, id)

Down == /\ hist.gone \subseteq hist.down
        /\ \A id \in hist.down : Stopped(inner, id)
        /\ \A id \in hist.gone : Forgotten(inner, id)

\* Where a create has an id in hand that it is about to publish and save.
Giving == {"reserve", "spawn", "publish", "persist", "start"}

\* Nobody who is about to bring an id back, in memory or in the store, has one that is down.
Clear(a) ==
  /\ a # Sup /\ ops[a].at \in Giving => ops[a].id \notin hist.down
  /\ a = Sup /\ ops[a].at = "persist" => ops[a].cmd.id \notin hist.down
  /\ ops[a].at = "send" => \A k \in 1..Len(ops[a].cmds) :
       ops[a].cmds[k].kind \in SaveKinds => ops[a].cmds[k].id \notin hist.gone

HandsOff == \A a \in Actors : Clear(a)

\* A new process starts from what is gone, and restores none of it.
Restored == phase = "boot" =>
  /\ hist.down = hist.gone
  /\ ops[Main].at \in Until => About(ops[Main]) \notin hist.gone

\* A dispose has yet to remove what those ids still stand for.
Doom(c) == /\ ops[c].at \in Removing =>
                \A p \in ops[c].left : CurrentIncarnation(inner, p[1]) = p[2]
           /\ At(c, "disposing") => ops[c].cur \in ops[c].left

Doomed == \A c \in Clients : Doom(c)

Memory == Single /\ Down /\ HandsOff /\ Restored /\ Doomed

-----------------------------------------------------------------------------
(* Inner's methods and what is down.                                       *)

\* From in to r the id still stands for one incarnation, and what was down stays down.
RestsAt(r, in, id) == /\ SingleOf(in, id) => SingleOf(r, id)
                      /\ Stopped(in, id) => Stopped(r, id)
                      /\ Forgotten(in, id) => Forgotten(r, id)
Rests(r, in)  == \A id \in Ids : RestsAt(r, in, id)
Steady(r, in) == \A id \in Ids : CurrentIncarnation(r, id) = CurrentIncarnation(in, id)

\* Every other id rests, and stands for what it stood for.
OthersRest(r, in, id) == \A j \in Ids \ {id} :
  RestsAt(r, in, j) /\ CurrentIncarnation(r, j) = CurrentIncarnation(in, j)

\* An id that is the same, and is killed if it was or stands for nothing.
LEMMA SameRests ==
  ASSUME NEW r, NEW in, NEW id, Same(r, in, id),
         id \in in.killed => id \in r.killed \/ Forgotten(in, id)
  PROVE  RestsAt(r, in, id) /\ CurrentIncarnation(r, id) = CurrentIncarnation(in, id)
BY DEF Same, RestsAt, SingleOf, Stopped, Forgotten, CurrentIncarnation

\* A method that concerns one id.
LEMMA LocalRests ==
  ASSUME NEW r, NEW in, NEW id \in Ids, Local(r, in, id),
         r.killed \in {in.killed, in.killed \cup {id}, in.killed \ {id}}
  PROVE  /\ OthersRest(r, in, id)
         /\ RestsAt(r, in, id) => Rests(r, in)
         /\ CurrentIncarnation(r, id) = CurrentIncarnation(in, id) => Steady(r, in)
<1>1. OthersRest(r, in, id)
  BY SameRests DEF Local, OthersRest
<1> QED BY <1>1 DEF Rests, Steady, OthersRest

\* A method that leaves every id as it is.
LEMMA AllRest ==
  ASSUME NEW r, NEW in, \A j \in Ids : Same(r, in, j),
         \A j \in in.killed \ r.killed : Forgotten(in, j)
  PROVE  Rests(r, in) /\ Steady(r, in)
BY SameRests DEF Rests, Steady

\* Inner itself.
LEMMA StillRests ==
  ASSUME NEW in
  PROVE  Rests(in, in) /\ Steady(in, in)
BY DEF Rests, Steady, RestsAt

\* A kill takes the id down and leaves it its incarnation.
Kills(r, in, id) == /\ Rests(r, in) /\ OthersRest(r, in, id)
                    /\ SingleOf(in, id) => Steady(r, in)
                    /\ Stopped(r, id)

\* Killing the live incarnation, for a user or for a removal.
LEMMA KillRests ==
  ASSUME NEW n \in Nat \ {0}, NEW in \in InnerOf(n), NEW id \in Ids
  PROVE  /\ Kills(kill_internal_impl(in, id, TRUE), in, id)
         /\ Kills(kill_internal_impl(in, id, FALSE), in, id)
<1> DEFINE Killed(r) ==
      /\ Local(r, in, id)
      /\ r.live[id] = 0 /\ r.pending[id] = 0 /\ r.failed[id] = in.failed[id]
      /\ r.dead[id] = IF in.live[id] = 0 THEN in.dead[id] ELSE Tombstone(in.live[id], FALSE)
      /\ r.killed = in.killed \cup {id}
<1>1. Killed(kill_internal_impl(in, id, TRUE)) /\ Killed(kill_internal_impl(in, id, FALSE))
  BY DEF kill_internal_impl, InnerOf, Local, Same
<1>2. ASSUME NEW r, Killed(r) PROVE Kills(r, in, id)
  <2>1. in.live[id] # 0 => r.dead[id].inc = in.live[id]
    BY <1>2 DEF Tombstone
  <2>2. RestsAt(r, in, id) /\ Stopped(r, id)
    BY <1>2, <2>1 DEF RestsAt, SingleOf, Stopped, Forgotten
  <2>3. SingleOf(in, id) => CurrentIncarnation(r, id) = CurrentIncarnation(in, id)
    BY <1>2, <2>1 DEF SingleOf, CurrentIncarnation
  <2> QED BY <1>2, <2>2, <2>3, LocalRests DEF Kills
<1> HIDE DEF Killed
<1> QED BY <1>1, <1>2

\* allocate_incarnation, prune_killed_markers and a generation leave every id as it is.
LEMMA SameAllRest ==
  ASSUME NEW n \in Nat \ {0}, NEW in \in InnerOf(n)
  PROVE  /\ Rests(allocate_incarnation(in), in) /\ Steady(allocate_incarnation(in), in)
         /\ Rests(prune_killed_markers(in), in) /\ Steady(prune_killed_markers(in), in)
         /\ \A g \in Nat : Rests(AtGeneration(in, g), in) /\ Steady(AtGeneration(in, g), in)
<1>1. Rests(allocate_incarnation(in), in) /\ Steady(allocate_incarnation(in), in)
  BY AllocateFacts, AllRest
<1>2. Rests(prune_killed_markers(in), in) /\ Steady(prune_killed_markers(in), in)
  BY PruneFacts, AllRest DEF Forgotten
<1>3. ASSUME NEW g \in Nat
      PROVE  Rests(AtGeneration(in, g), in) /\ Steady(AtGeneration(in, g), in)
  BY GenerationFacts, AllRest
<1> QED BY <1>1, <1>2, <1>3

\* begin_replacement forgets a failed session, which a tombstone has none of.
LEMMA BeginRests ==
  ASSUME NEW n \in Nat \ {0}, NEW in \in InnerOf(n), NEW id \in Ids
  PROVE  LET r == begin_replacement(in, id) IN
         Rests(r, in) /\ (in.dead[id].inc # 0 => Steady(r, in))
<1> DEFINE r == begin_replacement(in, id)
<1>1. /\ Local(r, in, id)
      /\ r.live[id] = in.live[id] /\ r.dead[id] = in.dead[id] /\ r.failed[id] = NoFailed
      /\ r.killed = in.killed
  BY BeginFacts
<1> HIDE DEF r
<1>2. RestsAt(r, in, id)
  BY <1>1 DEF RestsAt, SingleOf, Stopped, Forgotten, NoFailed
<1>3. in.dead[id].inc # 0 => CurrentIncarnation(r, id) = CurrentIncarnation(in, id)
  BY <1>1 DEF CurrentIncarnation
<1> QED BY <1>1, <1>2, <1>3, LocalRests DEF r

\* An id that keeps what it stands for, and whose replacement may be over.
LEMMA KeptRests ==
  ASSUME NEW r, NEW in, NEW id \in Ids, Local(r, in, id), r.killed = in.killed,
         r.live[id] = in.live[id], r.dead[id].inc = in.dead[id].inc,
         r.failed[id] = in.failed[id], r.pending[id] \in {0, in.pending[id]}
  PROVE  Rests(r, in) /\ Steady(r, in)
<1>1. RestsAt(r, in, id) /\ CurrentIncarnation(r, id) = CurrentIncarnation(in, id)
  BY DEF RestsAt, SingleOf, Stopped, Forgotten, CurrentIncarnation
<1> QED BY <1>1, LocalRests

\* finish_replacement, consume_suppressed_exit and finish_respawn_source_failure.
LEMMA FinishRests ==
  ASSUME NEW n \in Nat \ {0}, NEW in \in InnerOf(n), NEW id \in Ids
  PROVE  /\ \A inc : /\ Rests(finish_replacement(in, id, inc), in)
                     /\ Steady(finish_replacement(in, id, inc), in)
         /\ Rests(consume_suppressed_exit(in, id), in)
         /\ Steady(consume_suppressed_exit(in, id), in)
         /\ \A source \in Given(n), lost \in BOOLEAN :
              LET r == finish_respawn_source_failure(in, id, source, lost) IN
              /\ Rests(r.inner, in) /\ Steady(r.inner, in)
              /\ r.cmds \in Seq(MarksOf(n, id))
<1>1. ASSUME NEW inc
      PROVE  LET r == finish_replacement(in, id, inc) IN Rests(r, in) /\ Steady(r, in)
  BY FinishFacts, KeptRests
<1>2. Rests(consume_suppressed_exit(in, id), in) /\ Steady(consume_suppressed_exit(in, id), in)
  BY ConsumeFacts, KeptRests DEF Same
<1>3. ASSUME NEW source \in Given(n), NEW lost \in BOOLEAN
      PROVE  LET r == finish_respawn_source_failure(in, id, source, lost) IN
             /\ Rests(r.inner, in) /\ Steady(r.inner, in) /\ r.cmds \in Seq(MarksOf(n, id))
  <2> DEFINE r == finish_respawn_source_failure(in, id, source, lost)
  <2>1. /\ Outcome(r, in, n, id)
        /\ r.inner.live[id] = in.live[id] /\ r.inner.failed[id] = in.failed[id]
        /\ r.inner.pending[id] = in.pending[id] /\ r.inner.dead[id].inc = in.dead[id].inc
    BY SourceFailureFacts, Zenon
  <2> HIDE DEF r
  <2>2. Rests(r.inner, in) /\ Steady(r.inner, in) /\ r.cmds \in Seq(MarksOf(n, id))
    BY <2>1, KeptRests DEF Outcome
  <2> QED BY <2>2 DEF r
<1> QED BY <1>1, <1>2, <1>3

\* finish_failed_replacement_locked without metadata leaves the failed sessions alone.
LEMMA RespawnKeepsFailed ==
  ASSUME NEW n \in Nat \ {0}, NEW in \in InnerOf(n), NEW id \in Ids, NEW inc, NEW keep \in BOOLEAN
  PROVE  finish_failed_replacement_locked(in, id, inc, FALSE, keep).inner.failed = in.failed
BY DEF finish_failed_replacement_locked, finish_replacement, replacement_is_current, InnerOf

\* A failed replacement leaves one id as it was, as a tombstone, or as a failed session.
LEMMA FailedRests ==
  ASSUME NEW n \in Nat \ {0}, NEW in \in InnerOf(n), NEW id \in Ids, NEW inc \in Given(n),
         NEW r, Local(r, in, id), r.killed = in.killed, FailedReplacement(r, in, id, inc)
  PROVE  /\ OthersRest(r, in, id)
         /\ SingleOf(in, id) => SingleOf(r, id)
         /\ SingleOf(in, id) /\ r.failed[id] = in.failed[id] => Rests(r, in) /\ Steady(r, in)
<1>0. inc # 0
  BY DEF Given
<1>1. SingleOf(in, id) => SingleOf(r, id)
  BY <1>0 DEF SingleOf, FailedReplacement, FailedStale, FailedLive, FailedKept, FailedSession, Same, NoTomb
<1>2. ASSUME SingleOf(in, id), r.failed[id] = in.failed[id]
      PROVE  RestsAt(r, in, id) /\ CurrentIncarnation(r, id) = CurrentIncarnation(in, id)
  <2>1. ~FailedSession(r, in, id, inc) \/ in.pending[id] # inc
    BY <1>0, <1>2 DEF SingleOf, FailedSession
  <2> QED BY <1>0, <1>2, <2>1 DEF RestsAt, SingleOf, Stopped, Forgotten, CurrentIncarnation,
             FailedReplacement, FailedStale, FailedLive, FailedKept, Same
<1> QED BY <1>1, <1>2, LocalRests

\* mark_target_unavailable keeps the incarnation the id stands for; what it saves is of an
\* id that is not forgotten.
LEMMA LostRests ==
  ASSUME NEW n \in Nat \ {0}, NEW in \in InnerOf(n), NEW id \in Ids, NEW name \in NameSet
  PROVE  LET r == mark_target_unavailable(in, id, name) IN
         /\ SingleOf(in, id) => Rests(r.inner, in)
         /\ \/ r.cmds \in Seq(MarksOf(n, id))
            \/ r.cmds \in Seq(UpsertsOf(n, id)) /\ ~Forgotten(in, id)
<1> DEFINE r == mark_target_unavailable(in, id, name)
<1>1. /\ Local(r.inner, in, id) /\ r.inner.killed = in.killed
      /\ r.inner.live[id] = in.live[id] /\ r.inner.pending[id] = in.pending[id]
      /\ \/ Same(r.inner, in, id) /\ r.cmds = <<>>
         \/ LostKept(r.inner, in, id) /\ r.cmds \in Seq(MarksOf(n, id))
         \/ LostFailed(r.inner, in, id) /\ r.cmds \in Seq(UpsertsOf(n, id))
  BY TargetLostFacts
<1> HIDE DEF r
<1>2. SingleOf(in, id) => RestsAt(r.inner, in, id)
  BY <1>1 DEF RestsAt, SingleOf, Stopped, Forgotten, Same, LostKept, LostFailed, NoFailed
<1>3. <<>> \in Seq(MarksOf(n, id))
  OBVIOUS
<1>4. LostFailed(r.inner, in, id) => ~Forgotten(in, id)
  BY DEF LostFailed, Forgotten
<1>5. SingleOf(in, id) => Rests(r.inner, in)
  BY <1>1, <1>2, LocalRests
<1> QED BY <1>1, <1>3, <1>4, <1>5 DEF r

\* The owner's exit leaves a tombstone of what was live.
LEMMA ExitRests ==
  ASSUME NEW n \in Nat \ {0}, NEW in \in InnerOf(n), NEW id \in Ids, NEW t \in TombOf(n),
         in.live[id] # 0, t.inc = in.live[id], SingleOf(in, id)
  PROVE  LET r == ToTomb(in, id, t) IN Rests(r, in) /\ Steady(r, in)
<1> DEFINE r == ToTomb(in, id, t)
<1>1. /\ Local(r, in, id) /\ r.live[id] = 0 /\ r.dead[id] = t
      /\ r.failed[id] = in.failed[id] /\ r.pending[id] = in.pending[id] /\ r.killed = in.killed
  BY ExitFacts
<1> HIDE DEF r
<1>2. RestsAt(r, in, id) /\ CurrentIncarnation(r, id) = CurrentIncarnation(in, id)
  BY <1>1 DEF RestsAt, SingleOf, Stopped, Forgotten, CurrentIncarnation
<1> QED BY <1>1, <1>2, LocalRests DEF r

\* A replacement that is still current stands alone once it is published.
LEMMA PublishRests ==
  ASSUME NEW n \in Nat \ {0}, NEW in \in InnerOf(n), NEW id \in Ids, NEW inc \in OrNone(n),
         SingleOf(in, id), in.pending[id] # 0
  PROVE  LET r == Published(in, id, inc) IN OthersRest(r, in, id) /\ SingleOf(r, id)
<1> DEFINE r == Published(in, id, inc)
<1>1. /\ Local(r, in, id) /\ r.live[id] = inc /\ r.dead[id] = NoTomb
      /\ r.failed[id] = in.failed[id] /\ r.pending[id] = in.pending[id]
      /\ r.killed = in.killed \ {id}
  BY PublishFacts
<1> HIDE DEF r
<1>2. SingleOf(r, id)
  BY <1>1 DEF SingleOf, NoTomb
<1> QED BY <1>1, <1>2, LocalRests DEF r

\* A restored session whose target is lost stands alone.
LEMMA UnavailableRests ==
  ASSUME NEW n \in Nat \ {0}, NEW in \in InnerOf(n), NEW id \in Ids, NEW inc \in OrNone(n)
  PROVE  LET r == restore_unavailable_session(in, id, inc) IN
         OthersRest(r, in, id) /\ SingleOf(r, id)
<1> DEFINE r == restore_unavailable_session(in, id, inc)
<1>1. /\ Local(r, in, id) /\ r.live[id] = 0
      /\ r.failed[id] = NoFailed /\ r.pending[id] = 0 /\ r.killed = in.killed \ {id}
  BY UnavailableFacts
<1> HIDE DEF r
<1>2. SingleOf(r, id)
  BY <1>1 DEF SingleOf, NoFailed
<1> QED BY <1>1, <1>2, LocalRests DEF r

\* remove forgets the id; a dispose what the id stands for.
LEMMA RemoveRests ==
  ASSUME NEW n \in Nat \ {0}, NEW in \in InnerOf(n), NEW id \in Ids
  PROVE  LET r == RemoveIdentity(in, id) IN Rests(r, in) /\ Forgotten(r, id)
<1> DEFINE r == RemoveIdentity(in, id)
<1>1. /\ Local(r, in, id) /\ r.live[id] = 0 /\ r.dead[id] = NoTomb
      /\ r.failed[id] = NoFailed /\ r.pending[id] = 0 /\ r.killed = in.killed \cup {id}
  BY RemoveFacts
<1> HIDE DEF r
<1>2. RestsAt(r, in, id) /\ Forgotten(r, id)
  BY <1>1 DEF RestsAt, SingleOf, Stopped, Forgotten, NoTomb, NoFailed
<1> QED BY <1>1, <1>2, LocalRests DEF r

\* Evicting what an id stands for leaves it nothing.
LEMMA EvictRests ==
  ASSUME NEW n \in Nat \ {0}, NEW in \in InnerOf(n), NEW id \in Ids, NEW inc,
         SingleOf(in, id), CurrentIncarnation(in, id) = inc, inc # 0
  PROVE  LET r == evict_identity_after_durable_removal(in, id, inc) IN
         Rests(r, in) /\ OthersRest(r, in, id) /\ Forgotten(r, id)
<1> DEFINE r == evict_identity_after_durable_removal(in, id, inc)
           found == inc \in {in.live[id], in.dead[id].inc, in.failed[id].inc}
<1>1. /\ Local(r, in, id)
      /\ r.live[id] = IF in.live[id] = inc THEN 0 ELSE in.live[id]
      /\ r.dead[id] = IF in.dead[id].inc = inc THEN NoTomb ELSE in.dead[id]
      /\ r.failed[id] = IF in.failed[id].inc = inc THEN NoFailed ELSE in.failed[id]
      /\ r.pending[id] = IF found THEN 0 ELSE in.pending[id]
      /\ r.killed = IF found THEN in.killed \cup {id} ELSE in.killed
  BY EvictFacts
<1> HIDE DEF r
<1>2. found
  BY DEF CurrentIncarnation
<1>3. RestsAt(r, in, id) /\ Forgotten(r, id)
  BY <1>1, <1>2 DEF RestsAt, SingleOf, Stopped, Forgotten, NoTomb, NoFailed, CurrentIncarnation
<1>4. r.killed = in.killed \cup {id}
  BY <1>1, <1>2
<1> QED BY <1>1, <1>3, <1>4, LocalRests DEF r

\* The end of a dispose and of a shutdown, which leave nothing; the shutdown's kill.
LEMMA DisposeRests ==
  ASSUME NEW n \in Nat \ {0}, NEW in \in InnerOf(n)
  PROVE  /\ \A id \in Ids : SingleOf(DisposeAll(in), id) /\ Forgotten(DisposeAll(in), id)
         /\ LET r == [DisposeAll(in) EXCEPT !.closing = TRUE, !.generation = @ + 1]
            IN  \A id \in Ids : SingleOf(r, id) /\ Forgotten(r, id)
         /\ Rests(stop_all_for_shutdown(in), in)
<1>1. \A id \in Ids : SingleOf(DisposeAll(in), id) /\ Forgotten(DisposeAll(in), id)
  BY DisposeFacts DEF SingleOf, Forgotten, NoTomb, NoFailed
<1>2. LET r == [DisposeAll(in) EXCEPT !.closing = TRUE, !.generation = @ + 1]
      IN  \A id \in Ids : SingleOf(r, id) /\ Forgotten(r, id)
  BY <1>1, CloseFacts DEF SingleOf, Forgotten, Same
<1>3. Rests(stop_all_for_shutdown(in), in)
  <2> DEFINE r == stop_all_for_shutdown(in)
  <2>1. /\ \A j \in Ids : /\ r.live[j] = in.live[j] /\ r.dead[j] = in.dead[j]
                            /\ r.failed[j] = NoFailed /\ r.pending[j] = 0
        /\ in.killed \subseteq r.killed
    BY StopFacts
  <2> HIDE DEF r
  <2>2. Rests(r, in)
    BY <2>1 DEF Rests, RestsAt, SingleOf, Stopped, Forgotten, NoFailed
  <2> QED BY <2>2 DEF r
<1> QED BY <1>1, <1>2, <1>3

-----------------------------------------------------------------------------
(* One actor's step, and what is down.                                     *)

\* A step that takes nothing down, and leaves every id the incarnation it stands for; the
\* start takes nothing down either.
Softly == /\ hist'.down = hist.down /\ hist'.gone = hist.gone
          /\ Steady(inner', inner) \/ phase = "boot"

\* What a step of a leaves: a step that is not soft is one under the gate.
Lays(a) == /\ Single' /\ Down'
           /\ a \in Actors => Clear(a)'
           /\ a \in Clients => Doom(a)'
           /\ gate \in {a, NoOne} \/ Softly

\* The ids that are down are ids of the instance.
LEMMA HistIds ==
  ASSUME NEW n, EnvOK(n)
  PROVE  hist.down \subseteq Ids /\ hist.gone \subseteq Ids
BY DEF EnvOK

\* A step that takes nothing down.
LEMMA RestKeeps ==
  ASSUME NEW n, EnvOK(n), Single, Down, Rests(inner', inner),
         hist'.gone \subseteq hist'.down, hist'.down \subseteq hist.down, hist'.gone \subseteq hist.gone
  PROVE  Single' /\ Down'
BY HistIds DEF Single, Down, Rests, RestsAt

\* A step that leaves Inner alone.
LEMMA SameKeeps ==
  ASSUME NEW n, EnvOK(n), Single, Down, inner' = inner,
         hist'.down = hist.down, hist'.gone = hist.gone
  PROVE  Single' /\ Down' /\ Softly
<1>1. Rests(inner', inner) /\ Steady(inner', inner)
  BY StillRests
<1> QED BY <1>1, RestKeeps DEF Softly, Down

\* A step that brings an id back that is not down.
LEMMA OthersKeep ==
  ASSUME NEW n, EnvOK(n), Single, Down, NEW id \in Ids, id \notin hist.down,
         OthersRest(inner', inner, id), SingleOf(inner', id),
         hist'.down = hist.down, hist'.gone = hist.gone
  PROVE  Single' /\ Down'
BY HistIds DEF Single, Down, OthersRest, RestsAt

\* A step that takes an id down.
LEMMA TakesDown ==
  ASSUME NEW n, EnvOK(n), Single, Down, NEW id \in Ids, Rests(inner', inner), Stopped(inner', id),
         hist'.down = hist.down \cup {id},
         hist'.gone = hist.gone \/ (hist'.gone = hist.gone \cup {id} /\ Forgotten(inner', id))
  PROVE  Single' /\ Down'
BY HistIds DEF Single, Down, Rests, RestsAt

\* An operation that gives nothing and sends nothing has no id in hand.
LEMMA ClearAt ==
  ASSUME NEW a, ops'[a].at \notin Giving, ops'[a].at # "send"
  PROVE  Clear(a)'
BY DEF Clear, Giving

\* Marks bring nothing back.
LEMMA ClearMarks ==
  ASSUME NEW a, NEW n, NEW id, NEW cmds \in Seq(MarksOf(n, id)), NEW next, NEW keep,
         ops'[a] = Sending(cmds, next, keep)
  PROVE  Clear(a)'
<1>1. Marking(ops'[a])
  BY MarksMark
<1>2. ops'[a].at = "send"
  BY DEF Sending
<1> QED BY <1>1, <1>2 DEF Clear, Marking, Giving

\* A command was sent.
LEMMA ClearTail ==
  ASSUME NEW n, NEW a, Clear(a), ops[a].at = "send", ops[a].cmds \in Seq(FailOf(n)),
         ops[a].cmds # <<>>, ops'[a].at = "send", ops'[a].cmds = Tail(ops[a].cmds),
         hist'.gone = hist.gone
  PROVE  Clear(a)'
<1>1. \A k \in 1..Len(Tail(ops[a].cmds)) : Tail(ops[a].cmds)[k] = ops[a].cmds[k + 1]
                                           /\ k + 1 \in 1..Len(ops[a].cmds)
  OBVIOUS
<1> QED BY <1>1 DEF Clear, Giving

\* An operation that is no dispose has nothing left to remove.
LEMMA DoomAt ==
  ASSUME NEW c, ops'[c].at \notin Removing
  PROVE  Doom(c)'
BY DEF Doom, Removing, At

\* Whoever else has an id in hand holds the gate, and finds it as it was.
LEMMA LaysMemory ==
  ASSUME NEW n, OpsOK(n), EnvOK(n), Exclusive, Alone, HandsOff, Doomed, NEW a,
         \A b \in Actors \ {a} : ops'[b] = ops[b], Lays(a)
  PROVE  Single' /\ Down' /\ HandsOff' /\ Doomed'
<1>0. /\ NoOne \notin Actors /\ Sup \in Actors /\ Clients \subseteq Calling
      /\ Calling \subseteq Actors \ {Sup}
  BY CallingFacts, ActorsAssumption DEF Calling, Actors
<1>1. ASSUME NEW b \in Actors, Holding(b), b # a PROVE Softly
  BY <1>0, <1>1 DEF Lays, Exclusive
<1>2. HandsOff'
  <2> SUFFICES ASSUME NEW b \in Actors PROVE Clear(b)'
    BY DEF HandsOff
  <2>1. CASE b = a
    BY <2>1 DEF Lays
  <2>2. CASE b # a /\ ~Holding(b)
    BY <2>2 DEF Clear, Holding, Gated, SupGated, Giving
  <2>3. CASE b # a /\ Holding(b)
    <3>1. Clear(b) /\ Softly
      BY <1>1, <2>3 DEF HandsOff
    <3> QED BY <2>3, <3>1 DEF Clear, Softly
  <2> QED BY <2>1, <2>2, <2>3
<1>3. Doomed'
  <2> SUFFICES ASSUME NEW c \in Clients PROVE Doom(c)'
    BY DEF Doomed
  <2>0. c \in Calling /\ c \in Actors /\ c # Sup
    BY <1>0
  <2>1. CASE c = a
    BY <2>1 DEF Lays
  <2>2. CASE c # a /\ ops[c].at \notin Removing
    BY <2>0, <2>2, DoomAt
  <2>3. CASE c # a /\ ops[c].at \in Removing
    <3>1. Holding(c)
      BY <2>0, <2>3 DEF Holding, Removing, Gated
    <3>2. Softly
      BY <1>1, <2>0, <2>3, <3>1
    <3>3. phase # "boot"
      BY <2>3 DEF Alone, At, Removing
    <3>4. Steady(inner', inner)
      BY <3>2, <3>3 DEF Softly
    <3>5. \A p \in ops[c].left : p[1] \in Ids
      BY <2>0, <2>3, CallAt DEF Removing, AtDispose, AtDisposing
    <3>6. ops'[c] = ops[c]
      BY <2>0, <2>3
    <3> QED BY <3>4, <3>5, <3>6 DEF Doomed, Doom, Steady, At
  <2> QED BY <2>1, <2>2, <2>3
<1> QED BY <1>2, <1>3 DEF Lays

\* The steps of a create.  It forgets that its id was down; restore_sessions creates none
\* that is.
LEMMA CreateLays ==
  ASSUME NEW n \in Nat \ {0}, Typed(n), Exclusive, Single, Down, HandsOff, NEW c \in Calling,
         c = Main /\ At(c, "evict") => ops[c].id \notin hist.down, CreateStep(c)
  PROVE  Lays(c) /\ (c = Main => hist' = hist)
<1>0. /\ OpsOK(n) /\ EnvOK(n) /\ inner \in InnerOf(n) /\ c \in Actors /\ c # Sup
      /\ ops = [a \in Actors |-> ops[a]] /\ Clear(c)
      /\ (ops[c].at \in Gated => gate = c)
  BY CallingFacts DEF Typed, Others, MemoryOK, HandsOff, Exclusive, Holding, OpsOK
<1>h. /\ ops[c].at \in Giving \ {"reserve"} =>
           /\ ops[c] \in AtSpawn(n)
           /\ ops[c].inc \in Given(n) /\ ops[c].id \in Ids /\ ops[c].retry \in BOOLEAN
      /\ ops[c].at = "reserve" => ops[c].id \in Ids
      /\ ops[c].at \in Giving => ops[c].id \notin hist.down
  BY <1>0, CallAt DEF Giving, AtSpawn, AtReserve, Clear
<1>s. inner' = inner /\ hist' = hist => Single' /\ Down' /\ Softly
  BY <1>0, SameKeeps
<1>1. CASE CreatePermit(c)
  <2>1. /\ inner' = inner /\ hist' = hist /\ ops[c].at = "permit"
        /\ ops' = [ops EXCEPT ![c].at = "evict"]
    BY <1>1 DEF CreatePermit, env, At
  <2>2. ops'[c].at = "evict"
    BY <1>0, <2>1, CallAt DEF AtEntry
  <2> QED BY <1>s, <2>1, <2>2, ClearAt, DoomAt DEF Lays, Giving, Removing
<1>2. CASE CreateEvict(c)
  <2> DEFINE id == ops[c].id
  <2>1. /\ ops[c].at = "evict" /\ gate = NoOne
        /\ inner' = kill_internal_impl(inner, id, TRUE)
        /\ hist' = IF c = Main THEN hist ELSE [hist EXCEPT !.down = @ \ {id}, !.gone = @ \ {id}]
        /\ ops' = [ops EXCEPT ![c] = [at |-> "reserve", id |-> id, name |-> ops[c].name,
                                      retry |-> inner.dead[id].unavail]]
    BY <1>2 DEF CreateEvict, Goto, At
  <2>2. id \in Ids
    BY <1>0, <2>1, CallAt DEF AtEntry
  <2>3. Kills(inner', inner, id)
    BY <1>0, <2>1, <2>2, KillRests
  <2>4. /\ hist'.down = IF c = Main THEN hist.down ELSE hist.down \ {id}
        /\ hist'.gone = IF c = Main THEN hist.gone ELSE hist.gone \ {id}
    BY <1>0, <2>1 DEF EnvOK
  <2>5. id \notin hist'.down
    BY <2>1, <2>4 DEF At
  <2>6. Single' /\ Down'
    BY <1>0, <2>3, <2>4, RestKeeps DEF Kills, Down
  <2>7. ops'[c].at = "reserve" /\ ops'[c].id = id
    BY <1>0, <2>1
  <2>8. Clear(c)' /\ Doom(c)'
    BY <1>0, <2>5, <2>7 DEF Clear, Doom, Removing, At
  <2> QED BY <2>1, <2>6, <2>8 DEF Lays
<1>3. CASE CreateReserve(c)
  <2>1. /\ ops[c].at = "reserve" /\ inner' = begin_replacement(inner, ops[c].id) /\ hist' = hist
        /\ ops' = [ops EXCEPT ![c] = [at |-> "spawn", id |-> ops[c].id, inc |-> inner.next,
                                      retry |-> ops[c].retry]]
    BY <1>3 DEF CreateReserve, Goto, At, env
  <2>2. Rests(inner', inner) /\ gate = c
    BY <1>0, <1>h, <2>1, BeginRests DEF Gated
  <2>3. ops'[c].at = "spawn" /\ ops'[c].id = ops[c].id
    BY <1>0, <2>1
  <2>4. Clear(c)' /\ Doom(c)'
    BY <1>0, <1>h, <2>1, <2>3 DEF Clear, Doom, Removing, At, Giving
  <2>5. Single' /\ Down'
    BY <1>0, <2>1, <2>2, RestKeeps DEF Down
  <2> QED BY <2>1, <2>2, <2>4, <2>5 DEF Lays
<1>4. CASE CreateSpawn(c)
  <2>1. /\ inner' = inner /\ hist' = hist /\ ops[c].at = "spawn"
        /\ ops' = [ops EXCEPT ![c].at = "publish"]
    BY <1>4 DEF CreateSpawn, env, At
  <2>2. ops'[c].at = "publish" /\ ops'[c].id = ops[c].id
    BY <1>0, <1>h, <2>1 DEF AtSpawn, Giving
  <2>3. Clear(c)' /\ Doom(c)'
    BY <1>0, <1>h, <2>1, <2>2 DEF Clear, Doom, Removing, At, Giving
  <2> QED BY <1>s, <2>1, <2>3 DEF Lays
<1>5. CASE CreateSpawnFails(c) \/ CreateStartFails(c)
  <2> DEFINE id == ops[c].id
             r  == ReplacementFailed(c)
  <2>1. /\ ops[c].at \in {"spawn", "start"} /\ hist' = hist
        /\ inner' \in {r.inner, kill_internal_impl(r.inner, id, TRUE)}
        /\ ops' = [ops EXCEPT ![c] = Sending(r.cmds, AfterFailure(c), KeepsGuard(c))]
    BY <1>5 DEF CreateSpawnFails, CreateStartFails, Goto, At, env
  <2>2. /\ id \in Ids /\ ops[c].inc \in Given(n) /\ ops[c].retry \in BOOLEAN /\ id \notin hist.down
        /\ gate = c
    BY <1>0, <1>h, <2>1 DEF Giving, Gated
  <2>3. Outcome(r, inner, n, id) /\ FailedReplacement(r.inner, inner, id, ops[c].inc)
    BY <1>0, <2>2, FailedReplacementFacts DEF ReplacementFailed
  <2> HIDE DEF r
  <2>4. OthersRest(r.inner, inner, id) /\ SingleOf(r.inner, id)
    BY <1>0, <2>2, <2>3, FailedRests DEF Outcome, Single
  <2>5. OthersRest(inner', inner, id) /\ SingleOf(inner', id)
    <3>1. Kills(kill_internal_impl(r.inner, id, TRUE), r.inner, id)
      BY <2>2, <2>3, KillRests DEF Outcome
    <3>2. ASSUME NEW q, Kills(q, r.inner, id)
          PROVE  OthersRest(q, inner, id) /\ SingleOf(q, id)
      BY <2>2, <2>4, <3>2 DEF Kills, OthersRest, Rests, RestsAt
    <3> QED BY <2>1, <2>4, <3>1, <3>2
  <2>6. Single' /\ Down'
    BY <1>0, <2>1, <2>2, <2>5, OthersKeep
  <2>7. ops'[c] = Sending(r.cmds, AfterFailure(c), KeepsGuard(c))
    BY <1>0, <2>1
  <2>8. Clear(c)'
    BY <2>3, <2>7, ClearMarks DEF Outcome
  <2>9. Doom(c)'
    BY <2>7 DEF Doom, Sending, Removing, At
  <2> QED BY <2>1, <2>2, <2>6, <2>8, <2>9 DEF Lays
<1>6. CASE CreateAbandon(c)
  <2>1. inner' = inner /\ hist' = hist /\ ops' = [ops EXCEPT ![c] = AfterFailure(c)]
    BY <1>6 DEF CreateAbandon, Goto, env
  <2>2. ops'[c].at \in {"recheck", "idle"}
    BY <1>0, <2>1 DEF AfterFailure, Idle
  <2> QED BY <1>s, <2>1, <2>2, ClearAt, DoomAt DEF Lays, Giving, Removing
<1>7. CASE CreatePublish(c)
  <2> DEFINE id == ops[c].id
  <2>1. /\ ops[c].at = "publish" /\ hist' = hist /\ inner.pending[id] = ops[c].inc
        /\ inner' = Published(inner, id, ops[c].inc)
        /\ ops' = [ops EXCEPT ![c].at = "persist"]
    BY <1>7 DEF CreatePublish, CreateRefused, replacement_is_current, Published, At, env
  <2>2. /\ id \in Ids /\ ops[c].inc \in OrNone(n) /\ ops[c].inc # 0 /\ id \notin hist.down
        /\ gate = c
    BY <1>0, <1>h, <2>1 DEF Giving, Gated, Given, OrNone
  <2>3. OthersRest(inner', inner, id) /\ SingleOf(inner', id)
    BY <1>0, <2>1, <2>2, PublishRests DEF Single
  <2>4. Single' /\ Down'
    BY <1>0, <2>1, <2>2, <2>3, OthersKeep
  <2>5. ops'[c].at = "persist" /\ ops'[c].id = id
    BY <1>0, <1>h, <2>1 DEF AtSpawn, Giving
  <2>6. Clear(c)' /\ Doom(c)'
    BY <1>0, <2>1, <2>2, <2>5 DEF Clear, Doom, Removing, At
  <2> QED BY <2>1, <2>2, <2>4, <2>6 DEF Lays
<1>8. CASE CreatePersist(c)
  <2>1. /\ inner' = inner /\ hist' = hist /\ ops[c].at = "persist"
        /\ ops' = [ops EXCEPT ![c].at = "start"]
    BY <1>8 DEF CreatePersist, env, At
  <2>2. ops'[c].at = "start" /\ ops'[c].id = ops[c].id
    BY <1>0, <1>h, <2>1 DEF AtSpawn, Giving
  <2>3. Clear(c)' /\ Doom(c)'
    BY <1>0, <1>h, <2>1, <2>2 DEF Clear, Doom, Removing, At, Giving
  <2> QED BY <1>s, <2>1, <2>3 DEF Lays
<1>9. CASE CreateStart(c)
  <2>1. /\ ops[c].at = "start" /\ inner' = finish_replacement(inner, ops[c].id, ops[c].inc)
        /\ hist' = hist /\ ops' = [ops EXCEPT ![c] = AfterCreate(c)]
    BY <1>9 DEF CreateStart, Goto, At, env
  <2>2. Rests(inner', inner) /\ Steady(inner', inner)
    BY <1>0, <1>h, <2>1, FinishRests DEF Giving
  <2>3. Single' /\ Down' /\ Softly
    BY <1>0, <2>1, <2>2, RestKeeps DEF Softly, Down
  <2>4. ops'[c].at \in {"restore", "idle"}
    BY <1>0, <2>1 DEF AfterCreate, Idle
  <2> QED BY <2>1, <2>3, <2>4, ClearAt, DoomAt DEF Lays, Giving, Removing
<1>10. CASE SendNext(c) \/ SendDone(c)
  <2>1. inner' = inner /\ hist' = hist /\ ops[c].at = "send" /\ ops[c] \in AtSend(n)
    BY <1>0, <1>10, CallAt DEF SendNext, SendDone, env, At
  <2>2. Clear(c)' /\ Doom(c)'
    <3>1. CASE SendNext(c)
      <4>1. ops[c].cmds # <<>> /\ ops' = [ops EXCEPT ![c].cmds = Tail(@)]
        BY <3>1 DEF SendNext
      <4>2. ops'[c].at = "send" /\ ops'[c].cmds = Tail(ops[c].cmds) /\ ops[c].cmds \in Seq(FailOf(n))
        BY <1>0, <2>1, <4>1 DEF AtSend
      <4>3. Clear(c)'
        BY <1>0, <2>1, <4>1, <4>2, ClearTail
      <4> QED BY <4>2, <4>3, DoomAt DEF Removing
    <3>2. CASE SendDone(c)
      <4>1. ops'[c] = ops[c].next
        BY <1>0, <3>2 DEF SendDone, Goto
      <4>2. ops'[c].at \notin Giving \cup Removing \cup {"send"}
        BY <2>1, <4>1 DEF AtSend, Plain, AtRecheck, Giving, Removing
      <4> QED BY <4>2, ClearAt, DoomAt
    <3> QED BY <1>10, <3>1, <3>2
  <2> QED BY <1>s, <2>1, <2>2 DEF Lays
<1> QED BY <1>1, <1>2, <1>3, <1>4, <1>5, <1>6, <1>7, <1>8, <1>9, <1>10 DEF CreateStep

\* A removal, a client's or the sweeper's: its caller has the gate when it is done.
LEMMA RemoveLays ==
  ASSUME NEW n \in Nat \ {0}, Typed(n), Exclusive, Single, Down, NEW c \in Clients, RemoveStep(c)
  PROVE  Lays(c)
<1>0. /\ OpsOK(n) /\ EnvOK(n) /\ inner \in InnerOf(n) /\ c \in Calling /\ c \in Actors /\ c # Sup
      /\ ops = [a \in Actors |-> ops[a]]
      /\ (ops[c].at \in Gated => gate = c)
  BY CallingFacts DEF Typed, Others, MemoryOK, Exclusive, Holding, OpsOK, Calling
<1>s. inner' = inner /\ hist' = hist => Single' /\ Down' /\ Softly
  BY <1>0, SameKeeps
<1>1. CASE RemoveSend(c)
  <2>1. /\ inner' = inner /\ hist' = hist /\ ops[c].at = "remove"
        /\ ops' = [ops EXCEPT ![c].at = "removing"]
    BY <1>1 DEF RemoveSend, env, At
  <2>2. ops'[c].at = "removing"
    BY <1>0, <2>1, CallAt DEF AtRemove
  <2> QED BY <1>s, <2>1, <2>2, ClearAt, DoomAt DEF Lays, Giving, Removing
<1>2. CASE RemoveDone(c)
  <2> DEFINE id == ops[c].id
  <2>1. /\ ops[c].at = "removing"
        /\ \/ inner' = inner /\ hist' = hist
           \/ /\ inner' = RemoveIdentity(inner, id)
              /\ hist' = [hist EXCEPT !.down = @ \cup {id}, !.gone = @ \cup {id}]
        /\ ops' = [ops EXCEPT ![c] = Idle]
    BY <1>2 DEF RemoveDone, Return, Goto, At
  <2>2. id \in Ids /\ gate = c
    BY <1>0, <2>1, CallAt DEF AtRemove, Gated
  <2>3. Single' /\ Down'
    <3>1. CASE inner' = RemoveIdentity(inner, id)
               /\ hist' = [hist EXCEPT !.down = @ \cup {id}, !.gone = @ \cup {id}]
      <4>1. Rests(inner', inner) /\ Forgotten(inner', id)
        BY <1>0, <2>2, <3>1, RemoveRests
      <4>2. Stopped(inner', id)
        BY <4>1 DEF Stopped, Forgotten
      <4>3. hist'.down = hist.down \cup {id} /\ hist'.gone = hist.gone \cup {id}
        BY <1>0, <3>1 DEF EnvOK
      <4> QED BY <1>0, <2>2, <4>1, <4>2, <4>3, TakesDown
    <3> QED BY <1>s, <2>1, <3>1
  <2>4. ops'[c].at = "idle"
    BY <1>0, <2>1 DEF Idle
  <2> QED BY <2>2, <2>3, <2>4, ClearAt, DoomAt DEF Lays, Giving, Removing
<1> QED BY <1>1, <1>2 DEF RemoveStep

\* A client's request; a kill takes its id down under the gate.
LEMMA RequestLays ==
  ASSUME NEW n \in Nat \ {0}, Typed(n), Exclusive, Single, Down, NEW c \in Callers, Request(c)
  PROVE  Lays(c)
<1>0. /\ OpsOK(n) /\ EnvOK(n) /\ inner \in InnerOf(n) /\ c \in Calling /\ c \in Actors /\ c # Sup
      /\ ops = [a \in Actors |-> ops[a]] /\ Clients \subseteq Actors
  BY CallingFacts DEF Typed, Others, MemoryOK, OpsOK, Calling, Actors
<1>s. inner' = inner /\ hist' = hist => Single' /\ Down' /\ Softly
  BY <1>0, SameKeeps
<1>1. ASSUME NEW id, CreateCall(c, id) \/ (\E name \in Names : RenameCall(c, id, name)) \/ DisposeCall(c)
      PROVE  Lays(c)
  <2>1. /\ inner' = inner /\ hist' = hist
        /\ ops'[c].at \in {"permit", "rename", "drain"}
    BY <1>0, <1>1 DEF CreateCall, RenameCall, DisposeCall, Goto
  <2> QED BY <1>s, <2>1, ClearAt, DoomAt DEF Lays, Giving, Removing
<1>2. ASSUME NEW id \in Ids, Kill(c, id) PROVE Lays(c)
  <2>1. /\ inner' = kill_internal_impl(inner, id, FALSE)
        /\ hist' = [hist EXCEPT !.down = @ \cup {id}] /\ gate = NoOne
        /\ ops' = ops /\ ops[c].at = "idle"
    BY <1>2 DEF Kill, Call, At
  <2>2. Kills(inner', inner, id)
    BY <1>0, <2>1, KillRests
  <2>3. hist'.down = hist.down \cup {id} /\ hist'.gone = hist.gone
    BY <1>0, <2>1 DEF EnvOK
  <2>4. Single' /\ Down'
    BY <1>0, <2>2, <2>3, TakesDown DEF Kills
  <2> QED BY <2>1, <2>4, ClearAt, DoomAt DEF Lays, Giving, Removing
<1>3. ASSUME NEW id, RemoveCall(c, id) PROVE Lays(c)
  <2>1. /\ inner' = allocate_incarnation(inner) /\ hist' = hist /\ ops'[c].at = "remove"
    BY <1>0, <1>3 DEF RemoveCall, Goto
  <2>2. Rests(inner', inner) /\ Steady(inner', inner)
    BY <1>0, <2>1, SameAllRest
  <2>3. Single' /\ Down' /\ Softly
    BY <1>0, <2>1, <2>2, RestKeeps DEF Softly, Down
  <2> QED BY <2>1, <2>3, ClearAt, DoomAt DEF Lays, Giving, Removing
<1>4. world.ids \subseteq Ids
  BY <1>0, WorldIds
<1> QED BY <1>1, <1>2, <1>3, <1>4 DEF Request

\* What a dispose is to remove is what the ids stand for.
LEMMA IdentitiesStand ==
  ASSUME NEW in, \A id \in Ids : SingleOf(in, id), NEW p \in Identities(in)
  PROVE  CurrentIncarnation(in, p[1]) = p[2]
BY DEF Identities, SingleOf, CurrentIncarnation

\* The steps of a client's call.
LEMMA CallLays ==
  ASSUME NEW n \in Nat \ {0}, Typed(n), Exclusive, Memory, NEW c \in Callers, CallStep(c)
  PROVE  Lays(c)
<1>0. /\ OpsOK(n) /\ EnvOK(n) /\ inner \in InnerOf(n) /\ c \in Calling /\ c \in Clients /\ c \in Actors
      /\ c # Sup /\ c # Main /\ ops = [a \in Actors |-> ops[a]]
      /\ (ops[c].at \in Gated => gate = c)
      /\ Single /\ Down /\ Doom(c) /\ HandsOff
  BY CallingFacts DEF Typed, Others, MemoryOK, Exclusive, Holding, OpsOK, Memory, Doomed, Callers
<1>s. inner' = inner /\ hist' = hist => Single' /\ Down' /\ Softly
  BY <1>0, SameKeeps
<1>c. ASSUME ops'[c].at \notin Giving \cup Removing \cup {"send"} PROVE Clear(c)' /\ Doom(c)'
  BY <1>c, ClearAt, DoomAt
<1>1. CASE CreateStep(c) \/ RemoveStep(c)
  BY <1>0, <1>1, CreateLays, RemoveLays
<1>2. CASE CreateRecheck(c) \/ RenameSend(c) \/ RenameDone(c)
  <2>1. inner' = inner /\ hist' = hist
    BY <1>2 DEF CreateRecheck, RenameSend, RenameDone, env
  <2>2. ops'[c].at \in {"idle", "renaming"}
    <3>1. CASE RenameSend(c)
      BY <1>0, <3>1, CallAt DEF RenameSend, AtRename, At
    <3> QED BY <1>0, <1>2, <3>1 DEF CreateRecheck, RenameDone, Return, Goto, Idle
  <2> QED BY <1>s, <1>c, <2>1, <2>2 DEF Lays, Giving, Removing
<1>3. CASE CreateTargetLost(c)
  <2> DEFINE id == ops[c].id
             r  == mark_target_unavailable(inner, id, NoName)
  <2>1. /\ ops[c].at = "recheck" /\ gate = NoOne /\ hist' = hist /\ inner' = r.inner
        /\ ops' = [ops EXCEPT ![c] = Sending(r.cmds, Idle, FALSE)]
    BY <1>3 DEF CreateTargetLost, Goto, At, env
  <2>2. id \in Ids /\ NoName \in NameSet
    BY <1>0, <2>1, CallAt DEF AtRecheck, NameSet
  <2>3. /\ Rests(r.inner, inner)
        /\ \/ r.cmds \in Seq(MarksOf(n, id))
           \/ r.cmds \in Seq(UpsertsOf(n, id)) /\ ~Forgotten(inner, id)
    BY <1>0, <2>2, LostRests DEF Single
  <2> HIDE DEF r
  <2>4. Single' /\ Down'
    BY <1>0, <2>1, <2>3, RestKeeps DEF Down
  <2>5. ops'[c] = Sending(r.cmds, Idle, FALSE)
    BY <1>0, <2>1
  <2>6. Clear(c)'
    <3>1. CASE r.cmds \in Seq(MarksOf(n, id))
      BY <2>5, <3>1, ClearMarks
    <3>2. CASE r.cmds \in Seq(UpsertsOf(n, id)) /\ ~Forgotten(inner, id)
      <4>1. id \notin hist'.gone
        BY <1>0, <2>1, <3>2 DEF Down
      <4>2. \A k \in 1..Len(r.cmds) : r.cmds[k] \in UpsertsOf(n, id)
        BY <3>2
      <4>3. \A k \in 1..Len(r.cmds) : r.cmds[k].id = id
        BY <4>2 DEF UpsertsOf
      <4> QED BY <2>5, <4>1, <4>3 DEF Clear, Sending, Giving
    <3> QED BY <2>3, <3>1, <3>2
  <2>7. Doom(c)'
    BY <2>5, DoomAt DEF Sending, Removing
  <2> QED BY <2>1, <2>4, <2>6, <2>7 DEF Lays
<1>4. CASE DisposeStart(c)
  <2>1. /\ gate = NoOne /\ hist' = hist /\ inner' = AtGeneration(inner, inner.generation + 1)
        /\ ops'[c] = [at |-> "dispose", left |-> Identities(inner), gen |-> inner.generation]
    BY <1>0, <1>4 DEF DisposeStart, Goto, AtGeneration, env
  <2>2. inner.generation + 1 \in Nat
    BY <1>0, InnerFields
  <2>3. Rests(inner', inner) /\ Steady(inner', inner)
    BY <1>0, <2>1, <2>2, SameAllRest
  <2>4. Single' /\ Down'
    BY <1>0, <2>1, <2>3, RestKeeps DEF Down
  <2>5. \A p \in Identities(inner) : p[1] \in Ids
    BY <1>0, IdentitiesType
  <2>6. \A p \in Identities(inner) : CurrentIncarnation(inner', p[1]) = p[2]
    BY <1>0, <2>3, <2>5, IdentitiesStand DEF Single, Steady
  <2>7. Clear(c)' /\ Doom(c)'
    BY <2>1, <2>6 DEF Clear, Doom, Giving, At
  <2> QED BY <2>1, <2>4, <2>7 DEF Lays
<1>5. CASE DisposeRemove(c)
  <2>1. /\ ops[c].at = "dispose" /\ hist' = hist /\ inner' = allocate_incarnation(inner)
        /\ \E p \in ops[c].left :
             ops'[c] = [at |-> "disposing", left |-> ops[c].left, gen |-> ops[c].gen, cur |-> p]
    BY <1>0, <1>5 DEF DisposeRemove, Goto, At, env
  <2>2. Rests(inner', inner) /\ Steady(inner', inner)
    BY <1>0, <2>1, SameAllRest
  <2>3. Single' /\ Down' /\ Softly
    BY <1>0, <2>1, <2>2, RestKeeps DEF Softly, Down
  <2>4. \A p \in ops[c].left : p[1] \in Ids
    BY <1>0, <2>1, CallAt DEF AtDispose
  <2>5. \A p \in ops[c].left : CurrentIncarnation(inner', p[1]) = p[2]
    BY <1>0, <2>1, <2>2, <2>4 DEF Steady, Doom, Removing
  <2>6. Clear(c)' /\ Doom(c)'
    BY <2>1, <2>5 DEF Clear, Doom, Giving, At
  <2> QED BY <2>3, <2>6 DEF Lays
<1>6. CASE DisposeEvict(c)
  <2> DEFINE p == ops[c].cur
  <2>1. /\ ops[c].at = "disposing"
        /\ inner' = evict_identity_after_durable_removal(inner, p[1], p[2])
        /\ hist' = [hist EXCEPT !.down = @ \cup {p[1]}, !.gone = @ \cup {p[1]}]
        /\ ops'[c] = [at |-> "dispose", left |-> ops[c].left \ {p}, gen |-> ops[c].gen]
    BY <1>0, <1>6 DEF DisposeEvict, Goto, At
  <2>2. /\ p \in ops[c].left /\ ops[c].left \subseteq Ids \X Given(n) /\ gate = c
        /\ \A q \in ops[c].left : CurrentIncarnation(inner, q[1]) = q[2]
    BY <1>0, <2>1, CallAt DEF AtDisposing, Gated, Doom, At, Removing
  <2>3. p[1] \in Ids /\ p[2] # 0 /\ CurrentIncarnation(inner, p[1]) = p[2]
    BY <2>2 DEF Given
  <2>4. Rests(inner', inner) /\ OthersRest(inner', inner, p[1]) /\ Forgotten(inner', p[1])
    BY <1>0, <2>1, <2>3, EvictRests DEF Single
  <2>5. hist'.down = hist.down \cup {p[1]} /\ hist'.gone = hist.gone \cup {p[1]}
    BY <1>0, <2>1 DEF EnvOK
  <2>6. Single' /\ Down'
    BY <1>0, <2>3, <2>4, <2>5, TakesDown DEF Stopped, Forgotten
  <2>7. ASSUME NEW q \in ops[c].left \ {p} PROVE CurrentIncarnation(inner', q[1]) = q[2]
    <3>1. q[1] \in Ids /\ q = <<q[1], q[2]>> /\ p = <<p[1], p[2]>>
      BY <2>2
    <3>2. q[1] # p[1]
      BY <2>2, <3>1
    <3> QED BY <2>2, <2>4, <3>1, <3>2 DEF OthersRest
  <2>8. Clear(c)' /\ Doom(c)'
    BY <2>1, <2>7 DEF Clear, Doom, Giving, At
  <2> QED BY <2>2, <2>6, <2>8 DEF Lays
<1>7. CASE DisposeError(c)
  <2>1. /\ ops[c].at = "disposing" /\ hist' = hist /\ inner' = AtGeneration(inner, ops[c].gen)
        /\ ops'[c] = Idle
    BY <1>0, <1>7 DEF DisposeError, EndDispose, Goto, AtGeneration, At, env
  <2>2. ops[c].gen \in Nat
    BY <1>0, <2>1, CallAt DEF AtDisposing
  <2>3. Rests(inner', inner) /\ Steady(inner', inner)
    BY <1>0, <2>1, <2>2, SameAllRest
  <2>4. Single' /\ Down' /\ Softly
    BY <1>0, <2>1, <2>3, RestKeeps DEF Softly, Down
  <2> QED BY <1>c, <2>1, <2>4 DEF Lays, Idle, Giving, Removing
<1>8. CASE DisposeFinish(c)
  <2>1. /\ ops[c].at = "dispose" /\ inner' = DisposeAll(inner) /\ ops'[c] = Idle
        /\ hist' = [hist EXCEPT !.down = Ids]
    BY <1>0, <1>8 DEF DisposeFinish, EndDispose, Goto, At
  <2>2. hist'.down = Ids /\ hist'.gone = hist.gone /\ hist.gone \subseteq Ids /\ gate = c
    BY <1>0, <2>1, HistIds DEF EnvOK, Gated
  <2>3. \A id \in Ids : SingleOf(inner', id) /\ Forgotten(inner', id)
    BY <1>0, <2>1, DisposeRests
  <2>4. Single' /\ Down'
    BY <2>2, <2>3 DEF Single, Down, Stopped, Forgotten
  <2> QED BY <1>c, <2>1, <2>2, <2>4 DEF Lays, Idle, Giving, Removing
<1> QED BY <1>1, <1>2, <1>3, <1>4, <1>5, <1>6, <1>7, <1>8 DEF CallStep

-----------------------------------------------------------------------------
(* The tasks beside the calls.                                             *)

\* The sweeper prunes marks nobody needs; a removal of its own waits for the gate.
LEMMA SweepLays ==
  ASSUME NEW n \in Nat \ {0}, Typed(n), Exclusive, Single, Down, SweepBegin \/ SweepStep
  PROVE  Lays(Sweeper)
<1>0. /\ OpsOK(n) /\ EnvOK(n) /\ inner \in InnerOf(n) /\ Sweeper \in Clients
      /\ Sweeper \in Calling /\ Sweeper \in Actors /\ Sweeper # Sup
      /\ ops = [a \in Actors |-> ops[a]]
  BY CallingFacts DEF Typed, Others, MemoryOK, OpsOK, Calling
<1>s. inner' = inner /\ hist' = hist => Single' /\ Down' /\ Softly
  BY <1>0, SameKeeps
<1>t. Rests(inner', inner) /\ Steady(inner', inner) /\ hist' = hist => Single' /\ Down' /\ Softly
  BY <1>0, RestKeeps DEF Softly, Down
<1>1. CASE RemoveStep(Sweeper)
  BY <1>0, <1>1, RemoveLays
<1>2. CASE SweepBegin
  <2>1. /\ inner' = prune_killed_markers(inner) /\ hist' = hist /\ ops[Sweeper].at = "idle"
        /\ ops' = ops \/ ops'[Sweeper].at = "sweep"
    BY <1>0, <1>2 DEF SweepBegin, Goto, At
  <2>2. Single' /\ Down' /\ Softly
    BY <1>0, <1>t, <2>1, SameAllRest
  <2>3. ops'[Sweeper].at \in {"idle", "sweep"}
    BY <2>1
  <2> QED BY <2>2, <2>3, ClearAt, DoomAt DEF Lays, Giving, Removing
<1>3. CASE SweepCheck
  <2>1. inner' = inner /\ hist' = hist /\ ops[Sweeper] \in AtRemove(n)
    BY <1>0, <1>3, CallAt DEF SweepCheck, env, At
  <2>2. ops'[Sweeper].at \in {"idle", "expected"}
    BY <1>0, <1>3, <2>1 DEF SweepCheck, Goto, Idle, AtRemove
  <2> QED BY <1>s, <2>1, <2>2, ClearAt, DoomAt DEF Lays, Giving, Removing
<1>4. CASE SweepRemove
  <2>1. /\ inner' = allocate_incarnation(inner) /\ hist' = hist
        /\ ops'[Sweeper].at \in {"idle", "remove"}
    BY <1>0, <1>4 DEF SweepRemove, Goto, Idle, env
  <2>2. Single' /\ Down' /\ Softly
    BY <1>0, <1>t, <2>1, SameAllRest
  <2> QED BY <2>1, <2>2, ClearAt, DoomAt DEF Lays, Giving, Removing
<1> QED BY <1>1, <1>2, <1>3, <1>4 DEF SweepStep

\* A reader leaves a tombstone of the incarnation that was live.
LEMMA ReaderLays ==
  ASSUME NEW n \in Nat \ {0}, Typed(n), Single, Down, NEW i \in Incs,
         ReaderOutput(i) \/ ReaderExit(i) \/ ReaderStep(i)
  PROVE  Lays(i) /\ hist' = hist
<1>0. /\ SessionsOK(n) /\ EnvOK(n) /\ inner \in InnerOf(n) /\ sess[i] \in SessionType
      /\ hist' = hist
  BY DEF Typed, Others, MemoryOK, SessionsOK, ReaderOutput, ReaderExit, ReaderStep, ReaderLock,
     ReaderSnapshot, ReaderExited, ReaderRespawn, ReaderEvent, env
<1>1. i \notin Actors /\ i \notin Clients
  BY ActorsAssumption DEF Actors, Incs
<1>2. Rests(inner', inner) /\ Steady(inner', inner)
  <2>1. CASE inner' = inner
    BY <2>1, StillRests
  <2>2. CASE ReaderExit(i)
    <3>1. PICK code \in {0, 1} : OwnerExit(i, code) \/ StaleExit(i) \/ RemovedExit(i)
      BY <2>2 DEF ReaderExit
    <3>2. sess[i].id \in Ids /\ i < n /\ i # 0
      BY <1>0, <2>2 DEF ReaderExit, SessionsOK, SessionOK, SessionType, Incs
    <3>3. CASE OwnerExit(i, code)
      <4>1. \E will \in BOOLEAN : inner' = ToTomb(inner, sess[i].id, Tombstone(i, will))
        BY <3>3 DEF OwnerExit, ToTomb, decide_restart
      <4>2. PICK will \in BOOLEAN : inner' = ToTomb(inner, sess[i].id, Tombstone(i, will))
        BY <4>1
      <4>3. Tombstone(i, will) \in TombOf(n) /\ Tombstone(i, will).inc = i
        BY <3>2 DEF Tombstone, TombOf, OrNone, Incs
      <4>4. inner.live[sess[i].id] = i
        BY <3>3 DEF OwnerExit
      <4> DEFINE t == Tombstone(i, will)
      <4> HIDE DEF t
      <4> QED BY <1>0, <3>2, <4>2, <4>3, <4>4, ExitRests DEF t, Single
    <3>4. CASE StaleExit(i) \/ RemovedExit(i)
      <4>1. inner' = consume_suppressed_exit(inner, sess[i].id)
        BY <3>4 DEF StaleExit, RemovedExit
      <4> QED BY <1>0, <3>2, <4>1, FinishRests
    <3> QED BY <3>1, <3>3, <3>4
  <2> QED BY <2>1, <2>2 DEF ReaderOutput, ReaderStep, ReaderLock, ReaderSnapshot, ReaderExited,
          ReaderRespawn, ReaderEvent
<1>3. Single' /\ Down' /\ Softly
  BY <1>0, <1>2, RestKeeps DEF Softly, Down
<1> QED BY <1>0, <1>1, <1>3 DEF Lays

\* The supervisor publishes only what is not stopped.
LEMMA SupLays ==
  ASSUME NEW n \in Nat \ {0}, Typed(n), Exclusive, Single, Down, HandsOff, SupStep
  PROVE  Lays(Sup) /\ hist' = hist
<1>0. /\ OpsOK(n) /\ EnvOK(n) /\ inner \in InnerOf(n) /\ n \in Nat
      /\ Sup \in Actors /\ Sup \notin Clients /\ ops = [a \in Actors |-> ops[a]] /\ Clear(Sup)
      /\ (ops[Sup].at \in SupGated => gate = Sup)
  BY CallingFacts DEF Typed, Others, MemoryOK, OpsOK, HandsOff, Exclusive, Holding
<1>h. hist' = hist
  BY DEF SupStep, SupRecv, SupCheck, SupInvalid, SupReserve, SupPermit, SupSpawn, SupSpawnFails,
     SupAbandon, SupPublish, SupPersist, SupStart, SupStartFails, SupSourceFailed, SendNext,
     SendDone, env
<1> SUFFICES Lays(Sup)
  BY <1>h
<1>i. ops[Sup].at \in SupInHand =>
        /\ ops[Sup].inc \in Given(n) /\ ops[Sup].cmd.id \in Ids /\ ops[Sup].cmd.inc \in Given(n)
        /\ ops[Sup].retry \in BOOLEAN /\ ops[Sup] \in SupTry(n)
  BY <1>0, InHandFacts, SupAt, SupCmd DEF SupInHand
<1>c. ops'[Sup].at \notin Giving \cup {"send"} => Clear(Sup)'
  BY ClearAt
<1>s. inner' = inner => Single' /\ Down' /\ Softly
  BY <1>0, <1>h, SameKeeps
<1>t. Rests(inner', inner) /\ Steady(inner', inner) => Single' /\ Down' /\ Softly
  BY <1>0, <1>h, RestKeeps DEF Softly, Down
<1>f. ops[Sup].at \in SupInHand /\ inner' = finish_replacement(inner, ops[Sup].cmd.id, ops[Sup].inc)
        => Single' /\ Down' /\ Softly
  BY <1>0, <1>i, <1>t, FinishRests
<1>g. ASSUME Single' /\ Down' /\ Softly, Clear(Sup)' PROVE Lays(Sup)
  BY <1>0, <1>g DEF Lays
<1>1. CASE SupRecv \/ SupCheck \/ SupInvalid
  <2>1. inner' = inner /\ ops'[Sup].at \in {"backoff", "idle", "reserve", "failed"}
        /\ (ops'[Sup].at = "reserve" => Clear(Sup)')
    <3>1. inner' = inner /\ ops'[Sup].at \in {"backoff", "idle", "reserve", "failed"}
      BY <1>0, <1>1 DEF SupRecv, SupCheck, SupInvalid, SupFailed, Goto, Idle
    <3> QED BY <3>1 DEF Clear
  <2> QED BY <1>s, <1>c, <1>g, <2>1 DEF Giving
<1>2. CASE SupReserve
  <2> DEFINE cmd == ops[Sup].cmd
  <2>1. CASE inner' = inner /\ ops'[Sup].at = "failed"
    BY <1>s, <1>c, <1>g, <2>1 DEF Giving
  <2>2. CASE /\ inner' = begin_replacement(inner, cmd.id) /\ ops'[Sup].at = "permit"
             /\ inner.dead[cmd.id].inc = cmd.inc
    <3>1. cmd.id \in Ids /\ cmd.inc # 0
      BY <1>0, <1>2, SupCmd DEF SupReserve, At, Given
    <3>2. Rests(inner', inner) /\ Steady(inner', inner)
      BY <1>0, <2>2, <3>1, BeginRests
    <3> QED BY <1>t, <1>c, <1>g, <2>2, <3>2 DEF Giving
  <2> QED BY <1>0, <1>2, <2>1, <2>2 DEF SupReserve, SupFailed, Goto, respawn_source_is_current
<1>3. CASE SupPermit
  <2>1. /\ ops[Sup].at = "permit"
        /\ inner' = inner \/ inner' = finish_replacement(inner, ops[Sup].cmd.id, ops[Sup].inc)
        /\ ops'[Sup].at = "idle" \/ ops'[Sup] = [ops[Sup] EXCEPT !.at = "spawn"]
    BY <1>0, <1>3 DEF SupPermit, Return, Goto, Idle, At
  <2>2. ops'[Sup].at \in {"idle", "spawn"}
    BY <1>i, <2>1 DEF SupTry, SupInHand
  <2>3. Clear(Sup)'
    BY <2>2 DEF Clear
  <2> QED BY <1>s, <1>f, <1>g, <2>1, <2>3 DEF SupInHand
<1>4. CASE SupSpawn
  <2>1. inner' = inner /\ ops[Sup].at = "spawn" /\ ops'[Sup] = [ops[Sup] EXCEPT !.at = "publish"]
    BY <1>0, <1>4 DEF SupSpawn, At
  <2>2. ops'[Sup].at = "publish"
    BY <1>i, <2>1 DEF SupTry, SupInHand
  <2>3. Clear(Sup)'
    BY <2>2 DEF Clear
  <2> QED BY <1>s, <1>g, <2>1, <2>3
<1>5. CASE SupSpawnFails \/ SupStartFails
  <2> DEFINE id == ops[Sup].cmd.id
             r  == RespawnFailed
             to == SupFailed(ops[Sup].cmd, FALSE)
  <2>1. /\ ops[Sup].at \in {"spawn", "start"} /\ inner' = r.inner
        /\ ops'[Sup] = Sending(r.cmds, to, FALSE)
    BY <1>0, <1>5 DEF SupSpawnFails, SupStartFails, Goto, At
  <2>2. /\ id \in Ids /\ ops[Sup].inc \in Given(n) /\ ops[Sup].retry \in BOOLEAN
    BY <1>i, <2>1 DEF SupInHand
  <2>3. Outcome(r, inner, n, id) /\ FailedReplacement(r.inner, inner, id, ops[Sup].inc)
    BY <1>0, <2>2, FailedReplacementFacts DEF RespawnFailed
  <2>4. r.inner.failed = inner.failed
    BY <1>0, <2>2, RespawnKeepsFailed DEF RespawnFailed
  <2> HIDE DEF r, to
  <2>5. Rests(r.inner, inner) /\ Steady(r.inner, inner)
    BY <1>0, <2>2, <2>3, <2>4, FailedRests DEF Outcome, Single
  <2>6. Clear(Sup)'
    BY <2>1, <2>3, ClearMarks DEF Outcome
  <2> QED BY <1>t, <1>g, <2>1, <2>5, <2>6
<1>6. CASE SupAbandon
  <2>1. /\ ops[Sup].at = "publish" /\ ops'[Sup].at \in {"failed", "idle"}
        /\ inner' = finish_replacement(inner, ops[Sup].cmd.id, ops[Sup].inc)
    BY <1>0, <1>6 DEF SupAbandon, SupFailed, Return, Goto, Idle, At
  <2> QED BY <1>f, <1>c, <1>g, <2>1 DEF Giving, SupInHand
<1>7. CASE SupPublish
  <2> DEFINE id  == ops[Sup].cmd.id
             inc == ops[Sup].inc
  <2>1. /\ ops[Sup].at = "publish" /\ gate = NoOne
        /\ inner' = Published(inner, id, inc)
        /\ ops'[Sup] = [ops[Sup] EXCEPT !.at = "persist"]
        /\ id \notin inner.killed /\ inner.dead[id].inc = ops[Sup].cmd.inc
        /\ inner.pending[id] = inc
    BY <1>0, <1>7 DEF SupPublish, Published, At, respawn_replacement_is_current,
       respawn_source_is_current, replacement_is_current
  <2>2. /\ id \in Ids /\ inc \in OrNone(n) /\ inc # 0 /\ ops[Sup].cmd.inc # 0
        /\ ops[Sup] \in SupTry(n)
    BY <1>i, <2>1 DEF SupInHand, Given, OrNone
  <2>3. id \notin hist.down
    BY <2>1, <2>2 DEF Down, Stopped, Forgotten
  <2>4. OthersRest(inner', inner, id) /\ SingleOf(inner', id)
    BY <1>0, <2>1, <2>2, PublishRests DEF Single
  <2>5. Single' /\ Down'
    BY <1>0, <1>h, <2>2, <2>3, <2>4, OthersKeep
  <2>6. ops'[Sup].at = "persist" /\ ops'[Sup].cmd.id = id
    BY <2>1, <2>2 DEF SupTry
  <2>7. Clear(Sup)'
    BY <1>h, <2>3, <2>6 DEF Clear
  <2> QED BY <1>0, <2>1, <2>5, <2>7 DEF Lays
<1>8. CASE SupPersist
  <2>1. inner' = inner /\ ops[Sup].at = "persist" /\ ops'[Sup] = [ops[Sup] EXCEPT !.at = "start"]
    BY <1>0, <1>8 DEF SupPersist, At
  <2>2. ops'[Sup].at = "start"
    BY <1>i, <2>1 DEF SupTry, SupInHand
  <2>3. Clear(Sup)'
    BY <2>2 DEF Clear
  <2> QED BY <1>s, <1>g, <2>1, <2>3
<1>9. CASE SupStart
  <2>1. /\ ops[Sup].at = "start" /\ ops'[Sup].at = "idle"
        /\ inner' = finish_replacement(inner, ops[Sup].cmd.id, ops[Sup].inc)
    BY <1>0, <1>9 DEF SupStart, Return, Goto, Idle, At
  <2> QED BY <1>f, <1>c, <1>g, <2>1 DEF Giving, SupInHand
<1>10. CASE SupSourceFailed
  <2> DEFINE id == ops[Sup].cmd.id
             r  == finish_respawn_source_failure(inner, id, ops[Sup].cmd.inc, ops[Sup].lost)
  <2>1. ops[Sup].at = "failed" /\ inner' = r.inner /\ ops'[Sup] = Sending(r.cmds, Idle, FALSE)
    BY <1>0, <1>10 DEF SupSourceFailed, Goto, At
  <2>2. id \in Ids /\ ops[Sup].cmd.inc \in Given(n) /\ ops[Sup].lost \in BOOLEAN
    BY <1>0, <2>1, SupCmd, SupAt DEF SupLost
  <2>3. Rests(r.inner, inner) /\ Steady(r.inner, inner) /\ r.cmds \in Seq(MarksOf(n, id))
    BY <1>0, <2>2, FinishRests
  <2> HIDE DEF r
  <2>4. Clear(Sup)'
    BY <2>1, <2>3, ClearMarks
  <2> QED BY <1>t, <1>g, <2>1, <2>3, <2>4
<1>11. CASE SendNext(Sup)
  <2>1. /\ inner' = inner /\ ops[Sup].at = "send" /\ ops[Sup] \in SupSend(n)
        /\ ops[Sup].cmds # <<>> /\ ops' = [ops EXCEPT ![Sup].cmds = Tail(@)]
    BY <1>0, <1>11, SupAt DEF SendNext, At
  <2>2. /\ ops'[Sup].at = "send" /\ ops'[Sup].cmds = Tail(ops[Sup].cmds)
        /\ ops[Sup].cmds \in Seq(FailOf(n))
    BY <1>0, <2>1 DEF SupSend
  <2>3. Clear(Sup)'
    BY <1>0, <1>h, <2>1, <2>2, ClearTail
  <2> QED BY <1>s, <1>g, <2>1, <2>3
<1>12. CASE SendDone(Sup)
  <2>1. inner' = inner /\ ops[Sup] \in SupSend(n) /\ ops'[Sup] = ops[Sup].next
    BY <1>0, <1>12, SupAt DEF SendDone, Goto, At
  <2>2. ops'[Sup].at \notin Giving \cup {"send"}
    BY <2>1 DEF SupSend, SupIdle, SupLost, Giving
  <2> QED BY <1>s, <1>c, <1>g, <2>1, <2>2
<1> QED BY <1>h, <1>1, <1>2, <1>3, <1>4, <1>5, <1>6, <1>7, <1>8, <1>9, <1>10, <1>11, <1>12 DEF SupStep

-----------------------------------------------------------------------------
(* The server's start and stop.                                            *)

\* restore_sessions brings back only what is not gone; the shutdown takes all live down.
LEMMA MainLays ==
  ASSUME NEW n \in Nat \ {0}, Typed(n), Exclusive, Booting, Memory,
         RestoreStep \/ ShutdownBegin \/ (ShutdownStep /\ ~ShutdownDone)
  PROVE  Lays(Main)
<1>0. /\ OpsOK(n) /\ EnvOK(n) /\ inner \in InnerOf(n) /\ Main \in Calling
      /\ Main \in Actors /\ Main \notin Clients /\ Main # Sup
      /\ ops = [a \in Actors |-> ops[a]]
      /\ (ops[Main].at \in Gated => gate = Main)
      /\ Single /\ Down /\ Restored /\ HandsOff
      /\ (ops[Main].at \in BootOnly => phase = "boot")
  BY CallingFacts DEF Typed, Others, MemoryOK, OpsOK, Exclusive, Holding, Memory, Booting, Visiting
<1>s. inner' = inner /\ hist'.down = hist.down /\ hist'.gone = hist.gone => Single' /\ Down' /\ Softly
  BY <1>0, SameKeeps
<1>c. ops'[Main].at \notin Giving \cup {"send"} => Clear(Main)'
  BY ClearAt
<1>g. ASSUME Single' /\ Down' /\ Softly, Clear(Main)' PROVE Lays(Main)
  BY <1>0, <1>g DEF Lays
<1>1. CASE CreateStep(Main)
  <2>1. ASSUME At(Main, "evict") PROVE ops[Main].id \notin hist.down
    BY <1>0, <2>1 DEF Restored, At, BootOnly, Until, Before, About
  <2> QED BY <1>0, <1>1, <2>1, CreateLays
<1>2. CASE \/ RestoreLoad \/ (\E id \in Ids : RestoreNext(id)) \/ RestoreDelete
           \/ RestoreDone \/ ShutdownBegin \/ SnapshotTake \/ SnapshotSend \/ ShutdownClose
           \/ ShutdownWorker
  <2>1. inner' = inner /\ hist'.down = hist.down /\ hist'.gone = hist.gone
    <3>1. hist' = hist \/ \E x : hist' = [hist EXCEPT !.atStop = x]
      BY <1>2 DEF RestoreLoad, RestoreNext, RestoreDelete, RestoreDone, ShutdownBegin, SnapshotTake,
         SnapshotSend, ShutdownClose, ShutdownWorker, env
    <3>2. inner' = inner
      BY <1>2 DEF RestoreLoad, RestoreNext, RestoreDelete, RestoreDone, ShutdownBegin, SnapshotTake,
         SnapshotSend, ShutdownClose, ShutdownWorker
    <3> QED BY <1>0, <3>1, <3>2 DEF EnvOK
  <2>2. ops'[Main].at \in {"restore", "target", "idle", "snapshot", "snapshots", "close", "worker"}
    BY <1>0, <1>2 DEF RestoreLoad, RestoreNext, RestoreDelete, RestoreDone, ShutdownBegin,
       SnapshotTake, SnapshotSend, ShutdownClose, ShutdownWorker, Return, Goto, Idle
  <2> QED BY <1>s, <1>c, <1>g, <2>1, <2>2 DEF Giving
<1>3. CASE RestoreCreate
  <2>1. inner' = inner /\ hist' = hist /\ ops[Main].at = "target"
        /\ ops'[Main] = [ops[Main] EXCEPT !.at = "permit"]
    BY <1>0, <1>3 DEF RestoreCreate, At, env
  <2>2. ops'[Main].at = "permit"
    BY <1>0, <2>1, CallAt DEF AtEntry
  <2> QED BY <1>s, <1>c, <1>g, <2>1, <2>2 DEF Giving
<1>4. CASE RestoreUnavailable
  <2> DEFINE id == ops[Main].id
  <2>1. /\ ops[Main].at \in {"target", "recheck"} /\ hist' = hist
        /\ inner' = restore_unavailable_session(inner, id, restoring.inc)
        /\ ops'[Main].at = "restore"
    BY <1>0, <1>4 DEF RestoreUnavailable, Goto, At, env
  <2>2. id \in Ids /\ restoring.inc \in OrNone(n) /\ phase = "boot"
    BY <1>0, <2>1, CallAt DEF AtEntry, AtRecheck, EnvOK, BootOnly
  <2>3. id \notin hist.down
    BY <1>0, <2>1, <2>2 DEF Restored, Until, Before, About
  <2>4. OthersRest(inner', inner, id) /\ SingleOf(inner', id)
    BY <1>0, <2>1, <2>2, UnavailableRests
  <2>5. Single' /\ Down'
    BY <1>0, <2>1, <2>2, <2>3, <2>4, OthersKeep
  <2>6. Softly
    BY <2>1, <2>2 DEF Softly
  <2> QED BY <1>c, <1>g, <2>1, <2>5, <2>6 DEF Giving
<1>5. CASE StopAll
  <2>1. /\ inner' = stop_all_for_shutdown(inner) /\ hist' = hist /\ gate = Main
        /\ ops'[Main].at = "readers"
    BY <1>0, <1>5 DEF StopAll, Return, Goto, At, Gated, env
  <2>2. Single' /\ Down'
    BY <1>0, <2>1, DisposeRests, RestKeeps DEF Down
  <2>3. Clear(Main)'
    BY <1>c, <2>1 DEF Giving
  <2> QED BY <1>0, <2>1, <2>2, <2>3 DEF Lays
<1>6. CASE ShutdownDispose
  <2>1. /\ inner' = [DisposeAll(inner) EXCEPT !.closing = TRUE, !.generation = @ + 1]
        /\ hist' = hist /\ gate = NoOne /\ ops'[Main].at = "join"
    BY <1>0, <1>6 DEF ShutdownDispose, Goto, env
  <2>2. \A id \in Ids : SingleOf(inner', id) /\ Forgotten(inner', id)
    BY <1>0, <2>1, DisposeRests
  <2>3. Single' /\ Down'
    BY <1>0, <2>1, <2>2, HistIds DEF Single, Down, Stopped, Forgotten
  <2>4. Clear(Main)'
    BY <1>c, <2>1 DEF Giving
  <2> QED BY <1>0, <2>1, <2>3, <2>4 DEF Lays
<1> QED BY <1>1, <1>2, <1>3, <1>4, <1>5, <1>6 DEF RestoreStep, ShutdownStep

\* Nothing gone is restored: what is left to restore has its row, what is gone has none.
LEMMA MainRestored ==
  ASSUME NEW n \in Nat \ {0}, Typed(n), Exclusive, Owned, Clean, Booting, Memory,
         \A id \in hist.gone : ~HasRow(db[id]),
         RestoreStep \/ ShutdownBegin \/ (ShutdownStep /\ ~ShutdownDone)
  PROVE  Restored'
<1> SUFFICES ASSUME phase' = "boot"
             PROVE  /\ hist'.down = hist'.gone
                    /\ ops'[Main].at \in Until => About(ops'[Main]) \notin hist'.gone
  BY DEF Restored
<1>0. /\ OpsOK(n) /\ EnvOK(n) /\ inner \in InnerOf(n) /\ Main \in Calling
      /\ Main \in Actors /\ Main \notin Clients /\ Main # Sup
      /\ ops = [a \in Actors |-> ops[a]]
      /\ Single /\ Down /\ Restored /\ HandsOff
      /\ (ops[Main].at \in BootOnly <=> phase = "boot")
  BY CallingFacts DEF Typed, Others, MemoryOK, OpsOK, Memory, Booting, Visiting
<1>1. CASE CreateStep(Main)
  <2>1. phase = "boot"
    BY <1>0, <1>1, CreateLeaves DEF Leaves
  <2>2. OnlyMarks /\ (ops[Main].at = "send" => ops[Main].next.at = "recheck")
    BY <2>1 DEF Clean, Booting, Visiting, At
  <2>3. Creates(About(ops[Main])) /\ ops[Main].at \in Until
    BY <1>1, <2>2, MainCreates
  <2>4. hist' = hist
    <3>1. ASSUME At(Main, "evict") PROVE ops[Main].id \notin hist.down
      BY <1>0, <2>1, <3>1 DEF Restored, At, Until, Before, About
    <3> QED BY <1>0, <1>1, <3>1, CreateLays
  <2> QED BY <1>0, <2>1, <2>3, <2>4 DEF Restored, Creates, Until, Before
<1>2. CASE RestoreLoad \/ RestoreDelete \/ RestoreUnavailable
  <2>1. hist' = hist \/ hist' = [hist EXCEPT !.atStop = {}]
    BY <1>2 DEF RestoreLoad, RestoreDelete, RestoreUnavailable, env
  <2>2. phase = "boot" /\ ops'[Main].at = "restore"
    BY <1>0, <1>2 DEF RestoreLoad, RestoreDelete, RestoreUnavailable, Goto, At, BootOnly
  <2>3. hist'.down = hist.down /\ hist'.gone = hist.gone
    BY <1>0, <2>1 DEF EnvOK
  <2> QED BY <1>0, <2>2, <2>3 DEF Restored, Until, Before
<1>3. ASSUME NEW id \in Ids, RestoreNext(id)
      PROVE  /\ hist'.down = hist'.gone
             /\ ops'[Main].at \in Until => About(ops'[Main]) \notin hist'.gone
  <2>1. /\ phase = "boot" /\ hist' = hist /\ id \in restoring.left
        /\ ops'[Main] = [at |-> "target", id |-> id, name |-> db[id].name]
    BY <1>0, <1>3 DEF RestoreNext, Goto, At, BootOnly
  <2>2. id \notin hist.gone
    BY <2>1 DEF Booting, RowsLeft
  <2> QED BY <1>0, <2>1, <2>2 DEF Restored, About
<1>4. CASE RestoreCreate
  <2>1. /\ hist' = hist /\ ops[Main].at = "target" /\ ops'[Main] = [ops[Main] EXCEPT !.at = "permit"]
    BY <1>0, <1>4 DEF RestoreCreate, At, env
  <2>2. ops'[Main].at = "permit" /\ ops'[Main].id = ops[Main].id
    BY <1>0, <2>1, CallAt DEF AtEntry
  <2> QED BY <1>0, <2>1, <2>2 DEF Restored, Until, Before, About, BootOnly
<1>5. ~RestoreDone /\ ~ShutdownBegin
  BY DEF RestoreDone, ShutdownBegin
<1>6. ~(ShutdownStep /\ ~ShutdownDone)
  <2>1. SUFFICES ASSUME ShutdownStep, ~ShutdownDone PROVE FALSE
    OBVIOUS
  <2>2. phase' = phase /\ ops[Main].at \notin BootOnly
    BY <2>1 DEF ShutdownStep, SnapshotTake, SnapshotSend, StopAll, ShutdownClose,
       ShutdownDispose, ShutdownWorker, At, BootOnly, env
  <2> QED BY <1>0, <2>2
<1> QED BY <1>1, <1>2, <1>3, <1>4, <1>5, <1>6 DEF RestoreStep

-----------------------------------------------------------------------------
(* What is gone from the store, and what is being removed from it.         *)

\* An id without a row, and without a command on its way that would bring one back.
Unsaved(id) == \A k \in 1..Len(chan) : chan[k].kind \in SaveKinds => chan[k].id # id
Erased(id)  == ~HasRow(db[id]) /\ Unsaved(id)

Gone == \A id \in hist.gone : Erased(id)

\* Everything of the id, stored or on its way to the store, is below inc.
Older(id, inc) ==
  /\ db[id].inc < inc
  /\ \A k \in 1..Len(chan) : chan[k].kind \in SaveKinds /\ chan[k].id = id => chan[k].inc < inc

\* Where a caller waits for an answer, and the id it has the store delete.
Waiting == {"removing", "disposing", "renaming"}
Asking  == {"SessionRemoved", "SessionRenamed"}
Removes(c, id) == \/ At(c, "removing") /\ ops[c].id = id
                  \/ At(c, "disposing") /\ ops[c].cur[1] = id

\* A question on its way is that of a caller who waits for its answer ...
Asks(k) == /\ reply[chan[k].from] = "none"
           /\ chan[k].kind = "SessionRenamed" => At(chan[k].from, "renaming")
           /\ chan[k].kind = "SessionRemoved" => Removes(chan[k].from, chan[k].id)

\* ... and the only one; nobody else has an answer.
Asked == /\ \A k \in 1..Len(chan) : chan[k].kind \in Asking => Asks(k)
         /\ \A j, k \in 1..Len(chan) : chan[j].kind \in Asking /\ chan[k].kind \in Asking => j = k
         /\ \A c \in Clients : reply[c] # "none" => ops[c].at \in Waiting

\* A removal is above all it is to delete, and behind it in the channel; once it is
\* acknowledged nothing is left.
Removal(k) == /\ Older(chan[k].id, chan[k].inc)
              /\ \A j \in 1..Len(chan) :
                   chan[j].kind \in SaveKinds /\ chan[j].id = chan[k].id => j < k
Removals == /\ \A c \in Clients : At(c, "remove") => Older(ops[c].id, ops[c].inc)
            /\ \A k \in 1..Len(chan) : chan[k].kind = "SessionRemoved" => Removal(k)
            /\ \A c \in Clients : reply[c] = "ok" => \A id \in Ids : Removes(c, id) => Erased(id)

Stored == Gone /\ Asked /\ Removals

\* A step of a that asks for nothing and takes no answer: it may delete rows, and save under
\* the gate what is not gone.
Mute(a) ==
  /\ \A id \in Ids : db'[id].inc \in {0, db[id].inc}
  /\ reply' = reply /\ hist'.gone \subseteq hist.gone
  /\ a \in Clients => {ops[a].at, ops'[a].at} \cap (Waiting \cup {"remove"}) = {}
  /\ \/ chan' = chan
     \/ \E cmd : /\ chan' = Append(chan, cmd) /\ cmd.kind \notin Asking
                 /\ cmd.kind \in SaveKinds => a \in Actors /\ Holding(a) /\ cmd.id \notin hist.gone

\* The ids and incarnations of the commands on their way.
LEMMA ChanIds ==
  ASSUME NEW n \in Nat \ {0}, ChanOK(n), NEW k \in 1..Len(chan)
  PROVE  /\ chan[k].kind \in SaveKinds \cup {"SessionRemoved"} =>
              chan[k].id \in Ids /\ chan[k].inc \in Given(n)
         /\ chan[k].kind \in Asking => chan[k].from \in Clients
<1>1. chan[k] \in CmdOf(n)
  BY DEF ChanOK
<1> QED BY <1>1 DEF CmdOf, SaveOf, MarkOf, SnapOf, RenOf, RemOf, Shutdown, SaveKinds, Asking

\* The ids callers have in hand.
LEMMA RemovesIds ==
  ASSUME NEW n \in Nat \ {0}, OpsOK(n), NEW c \in Clients
  PROVE  /\ \A id : Removes(c, id) => id \in Ids
         /\ At(c, "remove") => ops[c].id \in Ids /\ ops[c].inc \in Given(n)
<1>1. c \in Calling
  BY DEF Calling
<1> QED BY <1>1, CallAt DEF Removes, At, AtRemove, AtDisposing

\* What is older stays so, what is erased as well, if rows are deleted and nothing is saved.
LEMMA OlderKept ==
  ASSUME NEW n \in Nat \ {0}, NEW id \in Ids, NEW inc \in Given(n),
         db'[id].inc \in {0, db[id].inc}, chan' = chan
  PROVE  /\ Older(id, inc) => Older(id, inc)'
         /\ Erased(id) => Erased(id)'
BY DEF Older, Erased, Unsaved, HasRow, Given

\* Appending.
LEMMA AppendFacts ==
  ASSUME NEW n, ChanOK(n), NEW cmd, chan' = Append(chan, cmd)
  PROVE  /\ Len(chan') = Len(chan) + 1 /\ Len(chan) \in Nat
         /\ chan'[Len(chan) + 1] = cmd
         /\ \A k \in 1..Len(chan) : chan'[k] = chan[k] /\ k \in 1..Len(chan')
         /\ \A k \in 1..Len(chan') : k \in 1..Len(chan) \/ k = Len(chan) + 1
<1>1. chan \in Seq(CmdOf(n)) /\ Len(chan) \in Nat
  BY DEF ChanOK
<1>2. /\ Len(Append(chan, cmd)) = Len(chan) + 1 /\ Append(chan, cmd)[Len(chan) + 1] = cmd
      /\ \A k \in 1..Len(chan) : Append(chan, cmd)[k] = chan[k]
  BY <1>1
<1> QED BY <1>1, <1>2

\* While somebody else has the gate nobody removes, renames or waits for an answer.
LEMMA NobodyAsks ==
  ASSUME NEW n \in Nat \ {0}, ChanOK(n), Exclusive, Asked, NEW a \in Actors, Holding(a),
         a \in Clients => ops[a].at \notin Waiting \cup {"remove"}
  PROVE  /\ \A c \in Clients : ops[c].at \notin Waiting \cup {"remove"} /\ reply[c] = "none"
         /\ \A k \in 1..Len(chan) : chan[k].kind \notin Asking
<1>1. gate = a /\ \A c \in Clients : c \in Actors /\ c # Sup
  BY CallingFacts DEF Exclusive, Actors
<1>2. \A c \in Clients : ops[c].at \notin Waiting \cup {"remove"}
  BY <1>1 DEF Exclusive, Holding, Gated, Waiting
<1>3. \A c \in Clients : reply[c] = "none"
  BY <1>2 DEF Asked
<1>4. ASSUME NEW k \in 1..Len(chan), chan[k].kind \in Asking PROVE FALSE
  <2>1. chan[k].from \in Clients /\ Asks(k)
    BY <1>4, ChanIds DEF Asked
  <2> QED BY <1>2, <1>4, <2>1 DEF Asks, Asking, Removes, At, Waiting
<1> QED BY <1>2, <1>3, <1>4

\* A mute step keeps what is stored.
LEMMA MuteStored ==
  ASSUME NEW n \in Nat \ {0}, Typed(n), Exclusive, Stored, NEW a, Mute(a),
         \A b \in Clients \ {a} : ops'[b] = ops[b]
  PROVE  Stored'
<1>0. /\ ChanOK(n) /\ OpsOK(n) /\ EnvOK(n) /\ hist.gone \subseteq Ids /\ reply' = reply
      /\ hist'.gone \subseteq hist.gone /\ \A id \in Ids : db'[id].inc \in {0, db[id].inc}
      /\ Gone /\ Asked /\ Removals
  BY HistIds DEF Typed, Others, Stored, Mute
<1>1. \A c \in Clients : /\ ops'[c].at \in Waiting \cup {"remove"} <=> ops[c].at \in Waiting \cup {"remove"}
                         /\ ops[c].at \in Waiting \cup {"remove"} => ops'[c] = ops[c]
  BY DEF Mute
<1>2. \A id : \A c \in Clients : Removes(c, id)' <=> Removes(c, id)
  BY <1>1 DEF Removes, At, Waiting
<1>3. CASE chan' = chan
  <2>1. Gone'
    BY <1>0, <1>3 DEF Gone, Erased, Unsaved, HasRow
  <2>2. Asked'
    <3>1. \A c \in Clients : reply'[c] # "none" => ops'[c].at \in Waiting
      BY <1>0, <1>1 DEF Asked, Waiting
    <3>2. ASSUME NEW k \in 1..Len(chan), chan[k].kind \in Asking PROVE Asks(k)'
      <4>1. chan[k].from \in Clients /\ Asks(k)
        BY <1>0, <3>2, ChanIds DEF Asked
      <4> QED BY <1>0, <1>1, <1>2, <1>3, <4>1 DEF Asks, At, Waiting
    <3> QED BY <1>0, <1>3, <3>1, <3>2 DEF Asked
  <2>3. \A c \in Clients : At(c, "remove")' => Older(ops[c].id, ops[c].inc)' /\ ops'[c] = ops[c]
    <3> SUFFICES ASSUME NEW c \in Clients, ops'[c].at = "remove"
                 PROVE  Older(ops[c].id, ops[c].inc)' /\ ops'[c] = ops[c]
      BY DEF At
    <3>1. ops'[c] = ops[c] /\ ops[c].at = "remove"
      BY <1>1
    <3>2. PICK id \in Ids, inc \in Given(n) : ops[c].id = id /\ ops[c].inc = inc /\ Older(id, inc)
      BY <1>0, <3>1, RemovesIds DEF Removals, At
    <3>3. Older(id, inc)'
      BY <1>0, <1>3, <3>2, OlderKept
    <3> QED BY <3>1, <3>2, <3>3
  <2>4. ASSUME NEW k \in 1..Len(chan), chan[k].kind = "SessionRemoved" PROVE Removal(k)'
    <3>1. PICK id \in Ids, inc \in Given(n) : chan[k].id = id /\ chan[k].inc = inc
      BY <1>0, <2>4, ChanIds
    <3>2. Removal(k) /\ Older(id, inc)
      BY <1>0, <2>4, <3>1 DEF Removals, Removal
    <3>3. Older(id, inc)'
      BY <1>0, <1>3, <3>2, OlderKept
    <3> QED BY <1>3, <3>1, <3>2, <3>3 DEF Removal
  <2>5. \A c \in Clients : reply[c] = "ok" => \A id \in Ids : Removes(c, id) => Erased(id)'
    BY <1>0, <1>3 DEF Removals, Erased, Unsaved, HasRow
  <2> QED BY <1>0, <1>2, <1>3, <2>1, <2>2, <2>3, <2>4, <2>5 DEF Stored, Removals
<1>4. ASSUME NEW cmd, chan' = Append(chan, cmd), cmd.kind \notin Asking,
             cmd.kind \in SaveKinds => a \in Actors /\ Holding(a) /\ cmd.id \notin hist.gone
      PROVE  Stored'
  <2>1. /\ Len(chan') = Len(chan) + 1 /\ Len(chan) \in Nat /\ chan'[Len(chan) + 1] = cmd
        /\ \A k \in 1..Len(chan) : chan'[k] = chan[k] /\ k \in 1..Len(chan')
        /\ \A k \in 1..Len(chan') : k \in 1..Len(chan) \/ k = Len(chan) + 1
    BY <1>0, <1>4, AppendFacts
  <2>2. Gone'
    <3> SUFFICES ASSUME NEW id \in hist.gone PROVE Erased(id)'
      BY <1>0 DEF Gone
    <3>1. id \in Ids /\ Erased(id)
      BY <1>0 DEF Gone
    <3>2. \A k \in 1..Len(chan') : chan'[k].kind \in SaveKinds => chan'[k].id # id
      BY <1>4, <2>1, <3>1 DEF Erased, Unsaved
    <3> QED BY <1>0, <3>1, <3>2 DEF Erased, Unsaved, HasRow
  <2>3. \A k \in 1..Len(chan') : chan'[k].kind \in Asking => k \in 1..Len(chan) /\ chan'[k] = chan[k]
    BY <1>4, <2>1
  <2>4. Asked'
    <3>1. \A c \in Clients : reply'[c] # "none" => ops'[c].at \in Waiting
      BY <1>0, <1>1 DEF Asked, Waiting
    <3>2. ASSUME NEW k \in 1..Len(chan'), chan'[k].kind \in Asking PROVE Asks(k)'
      <4>1. k \in 1..Len(chan) /\ chan'[k] = chan[k]
        BY <2>3, <3>2
      <4>2. chan[k].from \in Clients /\ Asks(k)
        BY <1>0, <3>2, <4>1, ChanIds DEF Asked
      <4> QED BY <1>0, <1>1, <1>2, <4>1, <4>2 DEF Asks, At, Waiting
    <3>3. \A j, k \in 1..Len(chan') : chan'[j].kind \in Asking /\ chan'[k].kind \in Asking => j = k
      BY <1>0, <2>3 DEF Asked
    <3> QED BY <3>1, <3>2, <3>3 DEF Asked
  <2>5. CASE cmd.kind \in SaveKinds
    <3>1. a \in Actors /\ Holding(a)
      BY <1>4, <2>5
    <3>2. a \in Clients => ops[a].at \notin Waiting \cup {"remove"}
      BY DEF Mute
    <3>3. /\ \A c \in Clients : ops[c].at \notin Waiting \cup {"remove"} /\ reply[c] = "none"
          /\ \A k \in 1..Len(chan) : chan[k].kind \notin Asking
      BY <1>0, <3>1, <3>2, NobodyAsks
    <3>4. /\ \A c \in Clients : ops'[c].at \notin Waiting \cup {"remove"} /\ reply'[c] = "none"
          /\ \A k \in 1..Len(chan') : chan'[k].kind \notin Asking
      BY <1>0, <1>1, <2>3, <3>3
    <3>5. Removals'
      BY <3>4 DEF Removals, At, Asking
    <3> QED BY <2>2, <2>4, <3>5 DEF Stored
  <2>6. CASE cmd.kind \notin SaveKinds
    <3>1. \A k \in 1..Len(chan') : chan'[k].kind \in SaveKinds => k \in 1..Len(chan) /\ chan'[k] = chan[k]
      BY <2>1, <2>6
    <3>2. ASSUME NEW id \in Ids, NEW inc \in Given(n) PROVE Older(id, inc) => Older(id, inc)'
      BY <1>0, <3>1 DEF Older, Given
    <3>3. ASSUME NEW id \in Ids PROVE Erased(id) => Erased(id)'
      BY <1>0, <3>1 DEF Erased, Unsaved, HasRow
    <3>4. \A c \in Clients : At(c, "remove")' => Older(ops[c].id, ops[c].inc)' /\ ops'[c] = ops[c]
      <4> SUFFICES ASSUME NEW c \in Clients, ops'[c].at = "remove"
                   PROVE  Older(ops[c].id, ops[c].inc)' /\ ops'[c] = ops[c]
        BY DEF At
      <4>1. ops'[c] = ops[c] /\ ops[c].at = "remove"
        BY <1>1
      <4>2. PICK id \in Ids, inc \in Given(n) : ops[c].id = id /\ ops[c].inc = inc /\ Older(id, inc)
        BY <1>0, <4>1, RemovesIds DEF Removals, At
      <4> QED BY <3>2, <4>1, <4>2
    <3>5. ASSUME NEW k \in 1..Len(chan'), chan'[k].kind = "SessionRemoved" PROVE Removal(k)'
      <4>1. k \in 1..Len(chan) /\ chan'[k] = chan[k]
        BY <2>3, <3>5 DEF Asking
      <4>2. PICK id \in Ids, inc \in Given(n) : chan[k].id = id /\ chan[k].inc = inc
        BY <1>0, <3>5, <4>1, ChanIds
      <4>3. Removal(k) /\ Older(id, inc)
        BY <1>0, <3>5, <4>1, <4>2 DEF Removals, Removal
      <4>4. Older(id, inc)'
        BY <3>2, <4>3
      <4> QED BY <3>1, <4>1, <4>2, <4>3, <4>4 DEF Removal
    <3>6. \A c \in Clients : reply[c] = "ok" => \A id \in Ids : Removes(c, id) => Erased(id)'
      BY <1>0, <3>3 DEF Removals
    <3>7. Removals'
      BY <1>0, <1>2, <3>4, <3>5, <3>6 DEF Removals
    <3> QED BY <2>2, <2>4, <3>7 DEF Stored
  <2> QED BY <2>5, <2>6
<1> QED BY <1>3, <1>4 DEF Mute

\* c, who has the gate, has the store asked something, and waits for the answer.
AsksFor(c, cmd) ==
  /\ ops[c].at \in Gated \ Waiting /\ ops'[c].at \in Waiting
  /\ chan' = Append(chan, cmd) /\ reply' = reply /\ db' = db /\ hist'.gone = hist.gone
  /\ cmd.kind \in Asking /\ cmd.from = c
  /\ cmd.kind = "SessionRenamed" => At(c, "renaming")'
  /\ cmd.kind = "SessionRemoved" => Removes(c, cmd.id)' /\ Older(cmd.id, cmd.inc)

\* Sending a question keeps what is stored.
LEMMA AsksStored ==
  ASSUME NEW n \in Nat \ {0}, Typed(n), Exclusive, Stored, NEW c \in Clients, NEW cmd, AsksFor(c, cmd),
         \A b \in Clients \ {c} : ops'[b] = ops[b]
  PROVE  Stored'
<1>0. /\ ChanOK(n) /\ OpsOK(n) /\ EnvOK(n) /\ reply' = reply /\ db' = db /\ hist'.gone = hist.gone
      /\ Gone /\ Asked /\ Removals /\ c \in Actors /\ c # Sup
      /\ \A b \in Clients : b \in Actors /\ b # Sup
      /\ ops[c].at \in Gated \ Waiting /\ ops'[c].at \in Waiting
      /\ chan' = Append(chan, cmd) /\ cmd.kind \in Asking /\ cmd.kind \notin SaveKinds /\ cmd.from = c
  BY CallingFacts DEF Typed, Others, Stored, AsksFor, Actors, Asking, SaveKinds
<1>1. gate = c
  BY <1>0 DEF Exclusive, Holding
<1>2. \A b \in Clients : ops[b].at \notin Waiting /\ (b # c => ops[b].at # "remove")
  BY <1>0, <1>1 DEF Exclusive, Holding, Gated, Waiting
<1>3. \A b \in Clients : reply[b] = "none"
  BY <1>0, <1>2 DEF Asked
<1>4. \A k \in 1..Len(chan) : chan[k].kind \notin Asking
  <2> SUFFICES ASSUME NEW k \in 1..Len(chan), chan[k].kind \in Asking PROVE FALSE
    OBVIOUS
  <2>1. chan[k].from \in Clients /\ Asks(k)
    BY <1>0, ChanIds DEF Asked
  <2> QED BY <1>2, <2>1 DEF Asks, Asking, Removes, At, Waiting
<1>5. /\ Len(chan') = Len(chan) + 1 /\ Len(chan) \in Nat /\ chan'[Len(chan) + 1] = cmd
      /\ \A k \in 1..Len(chan) : chan'[k] = chan[k] /\ k \in 1..Len(chan')
      /\ \A k \in 1..Len(chan') : k \in 1..Len(chan) \/ k = Len(chan) + 1
  BY <1>0, AppendFacts
<1>6. \A k \in 1..Len(chan') :
        /\ chan'[k].kind \in SaveKinds => k \in 1..Len(chan) /\ chan'[k] = chan[k]
        /\ chan'[k].kind \in Asking => k = Len(chan) + 1 /\ chan'[k] = cmd
  BY <1>0, <1>4, <1>5
<1>7. Gone'
  BY <1>0, <1>6 DEF Gone, Erased, Unsaved
<1>8. Asked'
  <2>1. \A k \in 1..Len(chan') : chan'[k].kind \in Asking => Asks(k)'
    BY <1>0, <1>3, <1>6 DEF Asks, AsksFor
  <2> QED BY <1>0, <1>3, <1>6, <2>1 DEF Asked
<1>9. Removals'
  <2>1. \A b \in Clients : ~At(b, "remove")'
    BY <1>0, <1>2 DEF At, Waiting
  <2>2. ASSUME NEW k \in 1..Len(chan'), chan'[k].kind = "SessionRemoved" PROVE Removal(k)'
    <3>1. k = Len(chan) + 1 /\ chan'[k] = cmd /\ Older(cmd.id, cmd.inc)
      BY <1>6, <2>2 DEF Asking, AsksFor
    <3>2. Older(cmd.id, cmd.inc)'
      BY <1>0, <1>6, <3>1 DEF Older
    <3>3. \A j \in 1..Len(chan') : chan'[j].kind \in SaveKinds => j < k
      BY <1>5, <1>6, <3>1
    <3> QED BY <3>1, <3>2, <3>3 DEF Removal
  <2> QED BY <1>0, <1>3, <2>1, <2>2 DEF Removals
<1> QED BY <1>7, <1>8, <1>9 DEF Stored

\* c takes its answer, and is done waiting; it may put down as gone what was deleted.
Answered(c) ==
  /\ reply[c] # "none" /\ reply' = [reply EXCEPT ![c] = "none"] /\ chan' = chan /\ db' = db
  /\ ops'[c].at \notin Waiting \cup {"remove"}
  /\ \A id \in hist'.gone \ hist.gone : reply[c] = "ok" /\ Removes(c, id)

\* Taking an answer keeps what is stored.
LEMMA AnsweredStored ==
  ASSUME NEW n \in Nat \ {0}, Typed(n), Stored, NEW c \in Clients, Answered(c),
         \A b \in Clients \ {c} : ops'[b] = ops[b]
  PROVE  Stored'
<1>0. /\ ChanOK(n) /\ OpsOK(n) /\ Gone /\ Asked /\ Removals /\ reply \in [Clients -> Replies]
      /\ reply' = [reply EXCEPT ![c] = "none"] /\ chan' = chan /\ db' = db /\ reply[c] # "none"
      /\ ops'[c].at \notin Waiting \cup {"remove"}
  BY DEF Typed, Others, Stored, Answered, WorkOK
<1>1. \A b \in Clients : reply'[b] = (IF b = c THEN "none" ELSE reply[b])
  BY <1>0
<1>2. Gone'
  <2> SUFFICES ASSUME NEW id \in hist'.gone PROVE Erased(id)
    BY <1>0 DEF Gone, Erased, Unsaved
  <2>1. CASE id \in hist.gone
    BY <1>0, <2>1 DEF Gone
  <2>2. CASE id \notin hist.gone
    <3>1. reply[c] = "ok" /\ Removes(c, id)
      BY <2>2 DEF Answered
    <3>2. id \in Ids
      BY <1>0, <3>1, RemovesIds
    <3> QED BY <1>0, <3>1, <3>2 DEF Removals
  <2> QED BY <2>1, <2>2
<1>3. ASSUME NEW k \in 1..Len(chan), chan[k].kind \in Asking PROVE Asks(k)'
  <2>1. chan[k].from \in Clients /\ Asks(k)
    BY <1>0, <1>3, ChanIds DEF Asked
  <2>2. chan[k].from # c
    BY <1>0, <2>1 DEF Asks
  <2> QED BY <1>0, <1>1, <2>1, <2>2 DEF Asks, At, Removes
<1>4. \A b \in Clients : reply'[b] # "none" => ops'[b].at \in Waiting
  BY <1>0, <1>1 DEF Asked
<1>5. Asked'
  BY <1>0, <1>3, <1>4 DEF Asked
<1>6. \A b \in Clients : ops'[b].at = "remove" => b # c /\ ops'[b] = ops[b]
  BY <1>0
<1>7. \A b \in Clients : reply'[b] = "ok" => b # c /\ reply[b] = "ok" /\ ops'[b] = ops[b]
  BY <1>1
<1>8. Removals'
  <2>1. \A b \in Clients : At(b, "remove")' => Older(ops[b].id, ops[b].inc)' /\ ops'[b] = ops[b]
    BY <1>0, <1>6 DEF Removals, At, Older
  <2>2. \A k \in 1..Len(chan') : chan'[k].kind = "SessionRemoved" => Removal(k)'
    BY <1>0 DEF Removals, Removal, Older
  <2>3. \A b \in Clients : reply'[b] = "ok" => \A id \in Ids : Removes(b, id)' => Erased(id)'
    BY <1>0, <1>7 DEF Removals, Removes, At, Erased, Unsaved
  <2> QED BY <2>1, <2>2, <2>3 DEF Removals
<1> QED BY <1>2, <1>5, <1>8 DEF Stored

\* The worker takes the first command from the channel; it writes no row back but one the
\* command saves, and answers only who asked.
Takes ==
  LET cmd == Head(chan) IN
  /\ chan # <<>> /\ chan' = Tail(chan)
  /\ \A id \in Ids : \/ db'[id].inc \in {0, db[id].inc}
                     \/ cmd.kind \in SaveKinds /\ cmd.id = id /\ db'[id].inc = cmd.inc
  /\ \/ cmd.kind \notin Asking /\ reply' = reply
     \/ /\ cmd.kind \in Asking
        /\ \E x : /\ reply' = [reply EXCEPT ![cmd.from] = x]
                  /\ cmd.kind = "SessionRemoved" /\ x = "ok" => db'[cmd.id].inc = 0

\* What the worker takes from the channel keeps what is stored.
LEMMA TakesStored ==
  ASSUME NEW n \in Nat \ {0}, Typed(n), Stored, Takes, ops' = ops, hist' = hist
  PROVE  Stored'
<1> DEFINE cmd == Head(chan)
<1>0. /\ ChanOK(n) /\ OpsOK(n) /\ EnvOK(n) /\ Gone /\ Asked /\ Removals
      /\ reply \in [Clients -> Replies] /\ hist.gone \subseteq Ids
      /\ chan # <<>> /\ chan' = Tail(chan) /\ chan \in Seq(CmdOf(n))
  BY HistIds DEF Typed, Others, Stored, Takes, WorkOK, ChanOK
<1>1. /\ 1 \in 1..Len(chan) /\ cmd = chan[1] /\ Len(chan) \in Nat
      /\ \A k \in 1..Len(chan') : chan'[k] = chan[k + 1] /\ k + 1 \in 1..Len(chan)
      /\ Len(chan') \in Nat
  BY <1>0
<1>2. /\ \A id \in Ids : \/ db'[id].inc \in {0, db[id].inc}
                         \/ cmd.kind \in SaveKinds /\ cmd.id = id /\ db'[id].inc = cmd.inc
      /\ \/ cmd.kind \notin Asking /\ reply' = reply
         \/ /\ cmd.kind \in Asking
            /\ \E x : /\ reply' = [reply EXCEPT ![cmd.from] = x]
                      /\ cmd.kind = "SessionRemoved" /\ x = "ok" => db'[cmd.id].inc = 0
  BY DEF Takes
<1> HIDE DEF cmd
<1>3. ASSUME NEW id \in Ids PROVE Erased(id) => Erased(id)'
  <2>1. SUFFICES ASSUME Erased(id) PROVE Erased(id)'
    OBVIOUS
  <2>2. db[id].inc = 0 /\ ~(cmd.kind \in SaveKinds /\ cmd.id = id)
    BY <1>1, <2>1 DEF Erased, Unsaved, HasRow
  <2>3. db'[id].inc = 0
    BY <1>2, <2>2
  <2>4. \A k \in 1..Len(chan') : chan'[k].kind \in SaveKinds => chan'[k].id # id
    BY <1>1, <2>1 DEF Erased, Unsaved
  <2> QED BY <2>3, <2>4 DEF Erased, Unsaved, HasRow
<1>4. ASSUME NEW id \in Ids, NEW inc \in Given(n) PROVE Older(id, inc) => Older(id, inc)'
  <2>1. SUFFICES ASSUME Older(id, inc) PROVE Older(id, inc)'
    OBVIOUS
  <2>2. db'[id].inc < inc
    BY <1>1, <1>2, <2>1 DEF Older, Given
  <2> QED BY <1>1, <2>1, <2>2 DEF Older
<1>5. Gone'
  BY <1>0, <1>3 DEF Gone
<1>6. cmd.kind \in Asking => cmd.from \in Clients /\ Asks(1)
  BY <1>0, <1>1, ChanIds DEF Asked
<1>7. \A c \in Clients : \/ reply'[c] = reply[c]
                         \/ cmd.kind \in Asking /\ c = cmd.from
  BY <1>0, <1>2, <1>6
<1>8. Asked'
  <2>1. ASSUME NEW k \in 1..Len(chan'), chan'[k].kind \in Asking PROVE Asks(k)'
    <3>1. /\ k + 1 \in 1..Len(chan) /\ chan'[k] = chan[k + 1] /\ chan[k + 1].kind \in Asking
          /\ k + 1 # 1
      BY <1>1, <2>1
    <3>2. chan[k + 1].from \in Clients /\ Asks(k + 1)
      BY <1>0, <3>1, ChanIds DEF Asked
    <3>3. cmd.kind \notin Asking
      BY <1>0, <1>1, <3>1 DEF Asked
    <3>4. reply' = reply
      BY <1>2, <3>3
    <3> QED BY <1>0, <3>1, <3>2, <3>4 DEF Asks, At, Removes
  <2>2. \A j, k \in 1..Len(chan') : chan'[j].kind \in Asking /\ chan'[k].kind \in Asking => j = k
    <3> SUFFICES ASSUME NEW j \in 1..Len(chan'), NEW k \in 1..Len(chan'),
                        chan'[j].kind \in Asking, chan'[k].kind \in Asking
                 PROVE  j = k
      OBVIOUS
    <3>1. j + 1 = k + 1
      BY <1>0, <1>1 DEF Asked
    <3> QED BY <3>1
  <2>3. \A c \in Clients : reply'[c] # "none" => ops[c].at \in Waiting
    <3> SUFFICES ASSUME NEW c \in Clients, reply'[c] # "none" PROVE ops[c].at \in Waiting
      OBVIOUS
    <3>1. CASE reply'[c] = reply[c]
      BY <1>0, <3>1 DEF Asked
    <3>2. CASE cmd.kind \in Asking /\ c = cmd.from
      BY <1>1, <1>6, <3>2 DEF Asks, Asking, Removes, At, Waiting
    <3> QED BY <1>7, <3>1, <3>2
  <2> QED BY <2>1, <2>2, <2>3 DEF Asked
<1>9. Removals'
  <2>1. \A c \in Clients : At(c, "remove") => Older(ops[c].id, ops[c].inc)'
    <3> SUFFICES ASSUME NEW c \in Clients, At(c, "remove") PROVE Older(ops[c].id, ops[c].inc)'
      OBVIOUS
    <3>1. PICK id \in Ids, inc \in Given(n) : ops[c].id = id /\ ops[c].inc = inc /\ Older(id, inc)
      BY <1>0, RemovesIds DEF Removals
    <3>2. Older(id, inc)'
      BY <1>4, <3>1
    <3> QED BY <3>1, <3>2
  <2>2. ASSUME NEW k \in 1..Len(chan'), chan'[k].kind = "SessionRemoved" PROVE Removal(k)'
    <3>1. k + 1 \in 1..Len(chan) /\ chan'[k] = chan[k + 1]
      BY <1>1
    <3>2. PICK id \in Ids, inc \in Given(n) : chan[k + 1].id = id /\ chan[k + 1].inc = inc
      BY <1>0, <2>2, <3>1, ChanIds
    <3>3. Removal(k + 1) /\ Older(id, inc)
      BY <1>0, <2>2, <3>1, <3>2 DEF Removals, Removal
    <3>4. Older(id, inc)'
      BY <1>4, <3>3
    <3>5. \A j \in 1..Len(chan') : chan'[j].kind \in SaveKinds /\ chan'[j].id = id => j < k
      BY <1>1, <3>2, <3>3 DEF Removal
    <3> QED BY <3>1, <3>2, <3>4, <3>5 DEF Removal
  <2>3. ASSUME NEW c \in Clients, reply'[c] = "ok", NEW id \in Ids, Removes(c, id) PROVE Erased(id)'
    <3>1. CASE reply'[c] = reply[c]
      BY <1>0, <1>3, <2>3, <3>1 DEF Removals
    <3>2. CASE cmd.kind \in Asking /\ c = cmd.from
      <4>1. cmd.kind = "SessionRemoved" /\ Removes(c, cmd.id)
        BY <1>1, <1>6, <2>3, <3>2 DEF Asks, Asking, Removes, At
      <4>2. cmd.id = id
        BY <2>3, <4>1 DEF Removes, At
      <4>3. db'[id].inc = 0
        BY <1>0, <1>2, <2>3, <3>2, <4>1, <4>2 DEF Asking
      <4>4. Removal(1)
        BY <1>0, <1>1, <4>1 DEF Removals
      <4>5. \A j \in 1..Len(chan) : chan[j].kind \in SaveKinds => chan[j].id # id
        <5>1. \A j \in 1..Len(chan) : ~(j < 1)
          OBVIOUS
        <5>2. chan[1].id = id
          BY <1>1, <4>2
        <5> QED BY <4>4, <5>1, <5>2 DEF Removal
      <4>6. \A k \in 1..Len(chan') : chan'[k].kind \in SaveKinds => chan'[k].id # id
        BY <1>1, <4>5
      <4> QED BY <4>3, <4>6 DEF Erased, Unsaved, HasRow
    <3> QED BY <1>7, <3>1, <3>2
  <2> QED BY <1>0, <2>1, <2>2, <2>3 DEF Removals, At, Removes
<1> QED BY <1>5, <1>8, <1>9 DEF Stored

Restless == Waiting \cup {"remove"}

\* A step that leaves channel and store alone.
Still == reply' = reply /\ chan' = chan /\ db' = db /\ hist'.gone \subseteq hist.gone

\* A step that is still is mute.
LEMMA StillMute ==
  ASSUME NEW a, Still, a \in Clients => ops[a].at \notin Restless /\ ops'[a].at \notin Restless
  PROVE  Mute(a)
BY DEF Still, Mute, Restless

\* A step that sends one command, a save under the gate if it is one.
Sent(a) == /\ reply' = reply /\ db' = db /\ hist' = hist
           /\ a \in Clients => ops[a].at \notin Restless /\ ops'[a].at \notin Restless
           /\ \E cmd : /\ chan' = Append(chan, cmd) /\ cmd.kind \notin Asking
                       /\ cmd.kind \in SaveKinds => a \in Actors /\ Holding(a) /\ cmd.id \notin hist.gone

\* A step that only sends what it has in hand is mute.
LEMMA SentMute ==
  ASSUME NEW a, Sent(a)
  PROVE  Mute(a)
BY DEF Sent, Mute, Restless

\* The next command of a failure.
LEMMA SendNextMute ==
  ASSUME NEW n \in Nat \ {0}, Typed(n), HandsOff, NEW a \in Calling \cup {Sup}, SendNext(a)
  PROVE  Mute(a)
<1>0. /\ OpsOK(n) /\ Clear(a) /\ ops[a].at = "send" /\ ops[a].cmds # <<>> /\ a \in Actors
      /\ ops[a].cmds \in Seq(FailOf(n)) /\ ops' = [ops EXCEPT ![a].cmds = Tail(@)]
      /\ chan' = Append(chan, Head(ops[a].cmds)) /\ reply' = reply /\ db' = db /\ hist' = hist
      /\ (a # Sup => ops[a] \in AtSend(n))
  BY CallAt, SupAt, CallingFacts DEF Typed, Others, HandsOff, SendNext, At, AtSend, SupSend, Send, env
<1> DEFINE cmd == Head(ops[a].cmds)
<1>1. 1 \in 1..Len(ops[a].cmds) /\ cmd = ops[a].cmds[1] /\ cmd \in FailOf(n)
  BY <1>0
<1>2. cmd.kind \notin Asking
  BY <1>1 DEF FailOf, MarksOf, UpsertsOf, FailureKinds, Asking
<1>3. Holding(a) /\ (cmd.kind \in SaveKinds => cmd.id \notin hist.gone)
  BY <1>0, <1>1 DEF Holding, Gated, SupGated, Clear
<1>4. a \in Clients => ops'[a].at = "send"
  BY <1>0, CallingFacts DEF OpsOK, AtSend
<1> HIDE DEF cmd
<1>5. chan' = Append(chan, cmd)
  BY <1>0 DEF cmd
<1> QED BY <1>0, <1>2, <1>3, <1>4, <1>5, SentMute DEF Sent, Restless, Waiting

\* A create saves its session under the gate, and asks for nothing.
LEMMA CreateMute ==
  ASSUME NEW n \in Nat \ {0}, Typed(n), Down, HandsOff, NEW c \in Calling, CreateStep(c)
  PROVE  Mute(c)
<1>0. /\ OpsOK(n) /\ EnvOK(n) /\ Clear(c) /\ c \in Actors /\ c # Sup /\ db' = db
      /\ ops = [a \in Actors |-> ops[a]]
  BY CallingFacts, CreateLeaves DEF Typed, Others, HandsOff, OpsOK, Leaves
<1>a. AfterCreate(c).at \notin Restless /\ AfterFailure(c).at \notin Restless
  BY DEF AfterCreate, AfterFailure, Idle, Restless, Waiting
<1> USE DEF Goto, persistVars, At, Still, env
<1>1. CASE CreatePermit(c)
  <2>1. ops[c] \in AtEntry
    BY <1>0, <1>1, CallAt DEF CreatePermit
  <2> QED BY <1>0, <1>1, <2>1, StillMute DEF CreatePermit, AtEntry, Restless, Waiting
<1>2. CASE CreateEvict(c)
  <2>1. hist'.gone \subseteq hist.gone
    BY <1>0, <1>2 DEF CreateEvict, EnvOK
  <2>2. ops'[c].at = "reserve" /\ ops[c].at = "evict"
    BY <1>0, <1>2 DEF CreateEvict
  <2> QED BY <1>0, <1>2, <2>1, <2>2, StillMute DEF CreateEvict, Restless, Waiting
<1>3. CASE CreateReserve(c)
  BY <1>0, <1>3, StillMute DEF CreateReserve, Restless, Waiting
<1>4. CASE CreateSpawn(c) \/ CreatePublish(c)
  <2>1. ops[c] \in AtSpawn(n) /\ ops[c].at \in {"spawn", "publish"}
    BY <1>0, <1>4, CallAt DEF CreateSpawn, CreatePublish
  <2> QED BY <1>0, <1>4, <2>1, StillMute DEF CreateSpawn, CreatePublish, AtSpawn, Restless, Waiting
<1>5. CASE CreateSpawnFails(c) \/ CreateStartFails(c)
  <2>1. ops[c].at \in {"spawn", "start"} /\ ops'[c].at = "send"
    <3>1. /\ ops[c].at \in {"spawn", "start"}
          /\ ops' = [ops EXCEPT ![c] = Sending(ReplacementFailed(c).cmds, AfterFailure(c), KeepsGuard(c))]
      BY <1>5 DEF CreateSpawnFails, CreateStartFails
    <3>2. ops'[c] = Sending(ReplacementFailed(c).cmds, AfterFailure(c), KeepsGuard(c))
      BY <1>0, <3>1
    <3> QED BY <3>1, <3>2 DEF Sending
  <2>2. Still
    BY <1>0, <1>5 DEF CreateSpawnFails, CreateStartFails
  <2> QED BY <2>1, <2>2, StillMute DEF Restless, Waiting
<1>6. CASE CreateAbandon(c) \/ CreateStart(c)
  <2>1. ops[c].at \notin Restless /\ ops'[c].at \notin Restless
    BY <1>0, <1>a, <1>6 DEF CreateAbandon, CreateStart, Restless, Waiting
  <2> QED BY <1>0, <1>6, <2>1, StillMute DEF CreateAbandon, CreateStart
<1>7. CASE CreatePersist(c)
  <2> DEFINE cmd == SessionCreated(ops[c].id, ops[c].inc, sess[ops[c].inc].name)
  <2>1. /\ ops[c] \in AtSpawn(n) /\ ops[c].at = "persist" /\ chan' = Append(chan, cmd)
        /\ reply' = reply /\ hist' = hist /\ ops' = [ops EXCEPT ![c].at = "start"]
    BY <1>0, <1>7, CallAt DEF CreatePersist, Send
  <2>2. ops'[c].at = "start"
    BY <1>0, <2>1 DEF AtSpawn
  <2>3. cmd.kind = "SessionCreated" /\ cmd.id = ops[c].id
    BY DEF SessionCreated
  <2>4. Holding(c) /\ ops[c].id \notin hist.gone
    BY <1>0, <2>1 DEF Holding, Gated, Clear, Giving, Down
  <2> HIDE DEF cmd
  <2> QED BY <1>0, <2>1, <2>2, <2>3, <2>4, SentMute DEF Sent, Restless, Waiting, Asking
<1>8. CASE SendNext(c)
  BY <1>8, SendNextMute
<1>9. CASE SendDone(c)
  <2>1. ops[c] \in AtSend(n) /\ ops[c].at = "send" /\ ops'[c] = ops[c].next
    BY <1>0, <1>9, CallAt DEF SendDone
  <2>2. ops'[c].at \notin Restless
    BY <2>1 DEF AtSend, Plain, AtRecheck, Restless, Waiting
  <2> QED BY <1>0, <1>9, <2>1, <2>2, StillMute DEF SendDone, Restless, Waiting
<1> HIDE DEF Goto, persistVars, At, Still, env
<1> QED BY <1>1, <1>2, <1>3, <1>4, <1>5, <1>6, <1>7, <1>8, <1>9 DEF CreateStep

\* A removal, a client's or the sweeper's.
LEMMA RemoveStored ==
  ASSUME NEW n \in Nat \ {0}, Typed(n), Exclusive, Stored, NEW c \in Clients, RemoveStep(c)
  PROVE  Stored'
<1>0. /\ OpsOK(n) /\ EnvOK(n) /\ WorkOK(n) /\ c \in Calling /\ c \in Actors /\ c # Sup /\ Removals
      /\ ops = [a \in Actors |-> ops[a]] /\ \A b \in Clients \ {c} : ops'[b] = ops[b]
  BY RemoveLeaves, CallingFacts DEF Typed, Others, OpsOK, Leaves, Calling, Stored, Actors
<1>1. CASE RemoveSend(c)
  <2> PICK cmd : cmd = SessionRemoved(ops[c].id, ops[c].inc, c)
    OBVIOUS
  <2>1. /\ ops[c].at = "remove" /\ ops[c] \in AtRemove(n) /\ chan' = Append(chan, cmd) /\ reply' = reply
        /\ db' = db /\ hist' = hist /\ ops' = [ops EXCEPT ![c].at = "removing"]
    BY <1>0, <1>1, CallAt DEF RemoveSend, At, Send, env
  <2>2. ops'[c].at = "removing" /\ ops'[c].id = ops[c].id
    BY <1>0, <2>1 DEF AtRemove
  <2>3. cmd.kind = "SessionRemoved" /\ cmd.id = ops[c].id /\ cmd.inc = ops[c].inc /\ cmd.from = c
    BY DEF SessionRemoved
  <2>4. Older(cmd.id, cmd.inc)
    BY <1>0, <2>1, <2>3 DEF Removals, At
  <2>5. Removes(c, cmd.id)'
    BY <2>2, <2>3 DEF Removes, At
  <2>6. AsksFor(c, cmd)
    BY <2>1, <2>2, <2>3, <2>4, <2>5 DEF AsksFor, Gated, Waiting, Asking
  <2> QED BY <1>0, <2>6, AsksStored
<1>2. CASE RemoveDone(c)
  <2>1. /\ ops[c].at = "removing" /\ reply[c] # "none" /\ reply' = [reply EXCEPT ![c] = "none"]
        /\ chan' = chan /\ db' = db /\ ops'[c] = Idle
        /\ hist' = IF reply[c] = "ok"
                   THEN [hist EXCEPT !.down = @ \cup {ops[c].id}, !.gone = @ \cup {ops[c].id}] ELSE hist
    BY <1>0, <1>2 DEF RemoveDone, At, TakeReply, Return, Goto
  <2>2. \A id \in hist'.gone \ hist.gone : reply[c] = "ok" /\ id = ops[c].id
    BY <1>0, <2>1 DEF EnvOK
  <2>3. Answered(c)
    BY <2>1, <2>2 DEF Answered, Removes, At, Idle, Waiting
  <2> QED BY <1>0, <2>3, AnsweredStored
<1> QED BY <1>1, <1>2 DEF RemoveStep

\* Removals by the sweeper and by a client start with an incarnation above all others.
LEMMA RemovalStarts ==
  ASSUME NEW n \in Nat \ {0}, Typed(n), Exclusive, Stored, NEW c \in Clients,
         ops[c].at \notin Restless, gate \in {c, NoOne}, NEW id \in Ids,
         \A b \in Clients \ {c} : ops'[b] = ops[b], ops'[c] = [at |-> "remove", id |-> id, inc |-> n],
         db' = db, chan' = chan, reply' = reply, hist' = hist
  PROVE  Stored'
<1>0. /\ ChanOK(n) /\ DbOK(n) /\ OpsOK(n) /\ Gone /\ Asked /\ Removals /\ \A b \in Clients : b \in Actors /\ b # Sup
      /\ \A b \in Clients : b # NoOne
  BY CallingFacts, ActorsAssumption DEF Typed, Others, Stored, Actors
<1>1. \A b \in Clients : ops[b].at \notin Restless
  BY <1>0 DEF Exclusive, Holding, Gated, Waiting, Restless
<1>2. \A b \in Clients : reply[b] = "none"
  BY <1>0, <1>1 DEF Asked, Restless
<1>3. \A k \in 1..Len(chan) : chan[k].kind \notin Asking
  <2> SUFFICES ASSUME NEW k \in 1..Len(chan), chan[k].kind \in Asking PROVE FALSE
    OBVIOUS
  <2>1. chan[k].from \in Clients /\ Asks(k)
    BY <1>0, ChanIds DEF Asked
  <2> QED BY <1>1, <2>1 DEF Asks, Asking, Removes, At, Waiting, Restless
<1>4. Older(id, n)
  <2>1. db[id].inc < n
    BY <1>0 DEF DbOK, EntryOf
  <2>2. \A k \in 1..Len(chan) : chan[k].kind \in SaveKinds => chan[k].inc < n
    BY <1>0, ChanIds DEF Given
  <2> QED BY <2>1, <2>2 DEF Older
<1>5. Older(id, n)'
  BY <1>4 DEF Older
<1>6. Gone' /\ Asked'
  BY <1>0, <1>2, <1>3 DEF Gone, Erased, Unsaved, Asked
<1>7. \A b \in Clients : At(b, "remove")' => Older(ops[b].id, ops[b].inc)'
  <2> SUFFICES ASSUME NEW b \in Clients, ops'[b].at = "remove" PROVE Older(ops[b].id, ops[b].inc)'
    BY DEF At
  <2>1. ops'[b].id = id /\ ops'[b].inc = n
    BY <1>1 DEF Restless
  <2> QED BY <1>5, <2>1
<1>8. Removals'
  BY <1>2, <1>3, <1>7 DEF Removals, Asking
<1> QED BY <1>6, <1>8 DEF Stored

\* A client's request.
LEMMA RequestStored ==
  ASSUME NEW n \in Nat \ {0}, Typed(n), Exclusive, Stored, NEW c \in Callers, Request(c)
  PROVE  Stored'
<1>0. /\ OpsOK(n) /\ EnvOK(n) /\ inner.next = n /\ c \in Clients /\ c \in Actors
      /\ ops = [a \in Actors |-> ops[a]] /\ world.ids \subseteq Ids /\ db' = db
      /\ \A b \in Clients \ {c} : ops'[b] = ops[b]
  BY RequestLeaves, CallingFacts, WorldIds, InnerFields
     DEF Typed, Others, MemoryOK, OpsOK, Leaves, Callers, Actors
<1>m. ASSUME Mute(c) PROVE Stored'
  BY <1>0, <1>m, MuteStored
<1>1. ASSUME NEW id \in world.ids, CreateCall(c, id) PROVE Mute(c)
  <2>1. Still /\ ops[c].at = "idle" /\ ops'[c].at = "permit"
    BY <1>0, <1>1 DEF CreateCall, Call, At, Goto, Still, persistVars
  <2> QED BY <2>1, StillMute DEF Restless, Waiting
<1>2. ASSUME NEW id \in world.ids, Kill(c, id) PROVE Mute(c)
  <2>1. ops[c].at = "idle" /\ ops' = ops /\ hist' = [hist EXCEPT !.down = @ \cup {id}]
        /\ reply' = reply /\ chan' = chan
    BY <1>2 DEF Kill, Call, At, persistVars
  <2>2. hist'.gone = hist.gone
    BY <1>0, <2>1 DEF EnvOK
  <2> QED BY <1>0, <2>1, <2>2, StillMute DEF Restless, Waiting, Still
<1>3. ASSUME NEW id \in world.ids, RemoveCall(c, id) PROVE Stored'
  <2>1. /\ ops[c].at = "idle" /\ gate = NoOne /\ hist' = hist /\ chan' = chan /\ reply' = reply
        /\ ops'[c] = [at |-> "remove", id |-> id, inc |-> n]
    BY <1>0, <1>3 DEF RemoveCall, Call, At, Goto, persistVars
  <2>2. id \in Ids /\ ops[c].at \notin Restless
    BY <1>0, <2>1 DEF Restless, Waiting
  <2> QED BY <1>0, <2>1, <2>2, RemovalStarts
<1>4. ASSUME NEW id \in world.ids, NEW name \in Names, RenameCall(c, id, name) PROVE Mute(c)
  <2>1. Still /\ ops[c].at = "idle" /\ ops'[c].at = "rename"
    BY <1>0, <1>4 DEF RenameCall, Call, At, Goto, Still, persistVars
  <2> QED BY <2>1, StillMute DEF Restless, Waiting
<1>5. ASSUME DisposeCall(c) PROVE Mute(c)
  <2>1. Still /\ ops[c].at = "idle" /\ ops'[c].at = "drain"
    BY <1>0, <1>5 DEF DisposeCall, Call, At, Goto, Still, persistVars
  <2> QED BY <2>1, StillMute DEF Restless, Waiting
<1> QED BY <1>m, <1>1, <1>2, <1>3, <1>4, <1>5 DEF Request

\* A step of a client's call: what it has the store delete is above all it is to delete.
LEMMA CallStored ==
  ASSUME NEW n \in Nat \ {0}, Typed(n), Exclusive, Memory, Stored, NEW c \in Callers, CallStep(c)
  PROVE  Stored'
<1>0. /\ OpsOK(n) /\ EnvOK(n) /\ ChanOK(n) /\ DbOK(n) /\ inner.next = n /\ c \in Clients /\ c \in Actors
      /\ c \in Calling /\ ops = [a \in Actors |-> ops[a]] /\ db' = db /\ Down /\ HandsOff
      /\ \A b \in Clients \ {c} : ops'[b] = ops[b]
  BY CallLeaves, CallingFacts, InnerFields
     DEF Typed, Others, MemoryOK, OpsOK, Leaves, Callers, Actors, Memory
<1>m. ASSUME Mute(c) PROVE Stored'
  BY <1>0, <1>m, MuteStored
<1>1. CASE CreateStep(c)
  BY <1>0, <1>1, <1>m, CreateMute
<1>2. CASE RemoveStep(c)
  BY <1>0, <1>2, RemoveStored
<1>3. CASE CreateRecheck(c) \/ CreateTargetLost(c)
  <2>1. Still /\ ops[c].at = "recheck"
    BY <1>0, <1>3 DEF CreateRecheck, CreateTargetLost, At, Still, persistVars, env
  <2>2. ops'[c] = Idle \/ \E cmds : ops'[c] = Sending(cmds, Idle, FALSE)
    BY <1>0, <1>3 DEF CreateRecheck, CreateTargetLost, Return, Goto
  <2>3. Idle.at = "idle" /\ \A cmds : Sending(cmds, Idle, FALSE).at = "send"
    BY DEF Idle, Sending
  <2>4. ops'[c].at \in {"idle", "send"}
    BY <2>2, <2>3
  <2> QED BY <1>m, <2>1, <2>4, StillMute DEF Restless, Waiting
<1>4. CASE RenameSend(c)
  <2> PICK cmd : cmd = SessionRenamed(ops[c].id, ops[c].inc, ops[c].name, c)
    OBVIOUS
  <2>1. /\ ops[c].at = "rename" /\ ops[c] \in AtRename(n) /\ chan' = Append(chan, cmd)
        /\ reply' = reply /\ hist' = hist /\ ops' = [ops EXCEPT ![c].at = "renaming"]
    BY <1>0, <1>4, CallAt DEF RenameSend, At, Send, env
  <2>2. ops'[c].at = "renaming"
    BY <1>0, <2>1 DEF AtRename
  <2>3. cmd.kind = "SessionRenamed" /\ cmd.from = c
    BY DEF SessionRenamed
  <2>4. AsksFor(c, cmd)
    BY <1>0, <2>1, <2>2, <2>3 DEF AsksFor, Gated, Waiting, Asking, At
  <2> QED BY <1>0, <2>4, AsksStored
<1>5. CASE RenameDone(c)
  <2>1. /\ reply[c] # "none" /\ reply' = [reply EXCEPT ![c] = "none"] /\ chan' = chan
        /\ ops'[c] = Idle /\ hist' = hist
    BY <1>0, <1>5 DEF RenameDone, TakeReply, Return, Goto, env
  <2>2. Answered(c)
    BY <1>0, <2>1 DEF Answered, Idle, Waiting
  <2> QED BY <1>0, <2>2, AnsweredStored
<1>6. CASE DisposeStart(c)
  <2>1. Still /\ ops[c].at = "drain" /\ ops'[c].at = "dispose"
    BY <1>0, <1>6 DEF DisposeStart, Goto, At, Still, persistVars, env
  <2> QED BY <1>m, <2>1, StillMute DEF Restless, Waiting
<1>7. CASE DisposeRemove(c)
  <2>1. PICK p \in ops[c].left :
          /\ ops[c].at = "dispose" /\ chan' = Append(chan, SessionRemoved(p[1], n, c))
          /\ reply' = reply /\ hist' = hist
          /\ ops'[c] = [at |-> "disposing", left |-> ops[c].left, gen |-> ops[c].gen, cur |-> p]
    BY <1>0, <1>7 DEF DisposeRemove, Goto, At, Send, env
  <2> PICK cmd : cmd = SessionRemoved(p[1], n, c)
    OBVIOUS
  <2>2. cmd.kind = "SessionRemoved" /\ cmd.id = p[1] /\ cmd.inc = n /\ cmd.from = c
    BY DEF SessionRemoved
  <2>3. p[1] \in Ids
    BY <1>0, <2>1, CallAt DEF AtDispose
  <2>4. Older(p[1], n)
    <3>1. db[p[1]].inc < n
      BY <1>0, <2>3 DEF DbOK, EntryOf
    <3>2. \A k \in 1..Len(chan) : chan[k].kind \in SaveKinds => chan[k].inc < n
      BY <1>0, ChanIds DEF Given
    <3> QED BY <3>1, <3>2 DEF Older
  <2>5. Removes(c, cmd.id)'
    BY <2>1, <2>2 DEF Removes, At
  <2>6. AsksFor(c, cmd)
    BY <1>0, <2>1, <2>2, <2>4, <2>5 DEF AsksFor, Gated, Waiting, Asking
  <2> QED BY <1>0, <2>6, AsksStored
<1>8. CASE DisposeEvict(c) \/ DisposeError(c)
  <2>1. /\ reply[c] \in {"ok", "error"} /\ reply' = [reply EXCEPT ![c] = "none"] /\ chan' = chan
        /\ ops[c].at = "disposing" /\ ops'[c].at \in {"dispose", "idle"}
    BY <1>0, <1>8 DEF DisposeEvict, DisposeError, EndDispose, TakeReply, Goto, At, Idle
  <2>2. \A id \in hist'.gone \ hist.gone : reply[c] = "ok" /\ Removes(c, id)
    <3>1. CASE DisposeEvict(c)
      <4>1. /\ reply[c] = "ok"
            /\ hist' = [hist EXCEPT !.down = @ \cup {ops[c].cur[1]}, !.gone = @ \cup {ops[c].cur[1]}]
        BY <3>1 DEF DisposeEvict
      <4>2. hist'.gone = hist.gone \cup {ops[c].cur[1]}
        BY <1>0, <4>1 DEF EnvOK
      <4> QED BY <2>1, <4>1, <4>2 DEF Removes, At
    <3>2. CASE DisposeError(c)
      BY <3>2 DEF DisposeError, env
    <3> QED BY <1>8, <3>1, <3>2
  <2>3. Answered(c)
    BY <1>0, <2>1, <2>2 DEF Answered, Waiting
  <2> QED BY <1>0, <2>3, AnsweredStored
<1>9. CASE DisposeFinish(c)
  <2>1. /\ ops[c].at = "dispose" /\ ops'[c] = Idle /\ chan' = chan /\ reply' = reply
        /\ hist' = [hist EXCEPT !.down = Ids]
    BY <1>0, <1>9 DEF DisposeFinish, EndDispose, Goto, At, persistVars
  <2>2. hist'.gone = hist.gone
    BY <1>0, <2>1 DEF EnvOK
  <2>3. Still /\ ops[c].at \notin Restless /\ ops'[c].at \notin Restless
    BY <1>0, <2>1, <2>2 DEF Still, Idle, Restless, Waiting
  <2> QED BY <1>m, <2>3, StillMute
<1> QED BY <1>1, <1>2, <1>3, <1>4, <1>5, <1>6, <1>7, <1>8, <1>9 DEF CallStep

\* The sweeper.
LEMMA SweepStored ==
  ASSUME NEW n \in Nat \ {0}, Typed(n), Exclusive, Stored, SweepBegin \/ SweepStep
  PROVE  Stored'
<1>0. /\ OpsOK(n) /\ inner.next = n /\ Sweeper \in Clients /\ Sweeper \in Actors /\ Sweeper \in Calling
      /\ ops = [a \in Actors |-> ops[a]] /\ db' = db
      /\ \A b \in Clients \ {Sweeper} : ops'[b] = ops[b]
  BY SweepLeaves, CallingFacts, InnerFields
     DEF Typed, Others, MemoryOK, OpsOK, Leaves, Actors, Calling
<1>m. ASSUME Mute(Sweeper) PROVE Stored'
  BY <1>0, <1>m, MuteStored
<1>1. CASE SweepBegin
  <2>1. Still /\ ops[Sweeper].at = "idle" /\ ops'[Sweeper].at \in {"idle", "sweep"}
    BY <1>0, <1>1 DEF SweepBegin, Goto, At, Still, persistVars
  <2> QED BY <1>m, <2>1, StillMute DEF Restless, Waiting
<1>2. CASE SweepCheck
  <2>1. Still /\ ops[Sweeper].at = "sweep" /\ ops[Sweeper] \in AtRemove(n)
        /\ ops'[Sweeper] \in {Idle, [ops[Sweeper] EXCEPT !.at = "expected"]}
    BY <1>0, <1>2, CallAt DEF SweepCheck, Goto, At, Still, persistVars, env
  <2>2. ops'[Sweeper].at \in {"idle", "expected"}
    BY <2>1 DEF AtRemove, Idle
  <2> QED BY <1>m, <2>1, <2>2, StillMute DEF Restless, Waiting
<1>3. CASE SweepRemove
  <2>1. /\ ops[Sweeper].at = "expected" /\ gate = NoOne /\ ops[Sweeper] \in AtRemove(n)
        /\ reply' = reply /\ chan' = chan /\ hist' = hist
        /\ \/ ops'[Sweeper] = Idle
           \/ ops'[Sweeper] = [at |-> "remove", id |-> ops[Sweeper].id, inc |-> n]
    BY <1>0, <1>3, CallAt DEF SweepRemove, Goto, At, persistVars, env
  <2>2. ops[Sweeper].at \notin Restless
    BY <2>1 DEF Restless, Waiting
  <2>3. CASE ops'[Sweeper] = Idle
    BY <1>0, <1>m, <2>1, <2>2, <2>3, StillMute DEF Idle, Restless, Waiting, Still
  <2>4. CASE ops'[Sweeper] = [at |-> "remove", id |-> ops[Sweeper].id, inc |-> n]
    <3>1. PICK id \in Ids : id = ops[Sweeper].id
      BY <2>1 DEF AtRemove
    <3> QED BY <1>0, <2>1, <2>2, <2>4, <3>1, RemovalStarts
  <2> QED BY <2>1, <2>3, <2>4
<1>4. CASE RemoveStep(Sweeper)
  BY <1>0, <1>4, RemoveStored
<1> QED BY <1>1, <1>2, <1>3, <1>4 DEF SweepStep

-----------------------------------------------------------------------------
(* The tasks, the worker and the store.                                    *)

\* A reader sends snapshots and exits.
LEMMA ReaderMute ==
  ASSUME NEW n \in Nat \ {0}, Typed(n), NEW i \in Incs,
         ReaderOutput(i) \/ ReaderExit(i) \/ ReaderStep(i)
  PROVE  Mute(i)
<1>0. /\ i \notin Clients /\ db' = db
      /\ hist' = hist
  <2>1. i \notin Clients /\ ChanOK(n)
    BY ActorsAssumption, BoundsAssumption DEF Incs, Typed, Others
  <2>2. hist' = hist
    BY DEF ReaderOutput, ReaderExit, ReaderStep, ReaderLock, ReaderSnapshot, ReaderExited,
           ReaderRespawn, ReaderEvent, env
  <2> QED BY <2>1, <2>2, ReaderLeaves
<1>1. /\ reply' = reply
      /\ \/ chan' = chan
         \/ \E total : chan' = Append(chan, BufferUpdate(sess[i].id, i, total))
         \/ chan' = Append(chan, SessionExited(sess[i].id, i))
  <2>1. CASE ReaderOutput(i)
    BY <2>1 DEF ReaderOutput, TrySend
  <2>2. CASE ReaderExit(i)
    BY <2>2 DEF ReaderExit, persistVars
  <2>3. CASE ReaderLock(i) \/ ReaderRespawn(i) \/ ReaderEvent(i)
    BY <2>3 DEF ReaderLock, ReaderRespawn, ReaderEvent, persistVars
  <2>4. CASE ReaderSnapshot(i) \/ ReaderExited(i)
    BY <2>4 DEF ReaderSnapshot, ReaderExited, Send
  <2> QED BY <2>1, <2>2, <2>3, <2>4 DEF ReaderStep
<1>2. CASE chan' = chan
  BY <1>0, <1>1, <1>2, StillMute DEF Still
<1>3. ASSUME NEW total, chan' = Append(chan, BufferUpdate(sess[i].id, i, total)) PROVE Mute(i)
  <2>1. BufferUpdate(sess[i].id, i, total).kind = "BufferUpdate"
    BY DEF BufferUpdate
  <2> QED BY <1>0, <1>1, <1>3, <2>1, SentMute DEF Sent, Asking, SaveKinds
<1>4. CASE chan' = Append(chan, SessionExited(sess[i].id, i))
  <2>1. SessionExited(sess[i].id, i).kind = "SessionExited"
    BY DEF SessionExited
  <2> QED BY <1>0, <1>1, <1>4, <2>1, SentMute DEF Sent, Asking, SaveKinds
<1> QED BY <1>1, <1>2, <1>3, <1>4

\* The supervisor saves what it published, and marks what failed.
LEMMA SupMute ==
  ASSUME NEW n \in Nat \ {0}, Typed(n), Down, HandsOff, SupStep
  PROVE  Mute(Sup)
<1>0. /\ OpsOK(n) /\ ChanOK(n) /\ Sup \in Actors /\ Sup \notin Clients /\ Clear(Sup) /\ db' = db
  BY CallingFacts, SupLeaves DEF Typed, Others, HandsOff, Leaves
<1>1. hist' = hist
  BY DEF SupStep, SupRecv, SupCheck, SupInvalid, SupReserve, SupPermit, SupSpawn, SupSpawnFails,
         SupAbandon, SupPublish, SupPersist, SupStart, SupStartFails, SupSourceFailed, SendNext,
         SendDone, env
<1>2. CASE SendNext(Sup)
  BY <1>2, SendNextMute
<1>3. CASE SupPersist
  <2> DEFINE cmd == SessionCreated(ops[Sup].cmd.id, ops[Sup].inc, sess[ops[Sup].inc].name)
  <2>1. ops[Sup].at = "persist" /\ chan' = Append(chan, cmd) /\ reply' = reply
    BY <1>3 DEF SupPersist, At, Send
  <2>2. cmd.kind = "SessionCreated" /\ cmd.id = ops[Sup].cmd.id
    BY DEF SessionCreated
  <2>3. Holding(Sup) /\ cmd.id \notin hist.gone
    BY <1>0, <2>1, <2>2 DEF Holding, SupGated, Clear, Down
  <2> HIDE DEF cmd
  <2> QED BY <1>0, <1>1, <2>1, <2>2, <2>3, SentMute DEF Sent, Asking
<1>4. CASE ~SendNext(Sup) /\ ~SupPersist
  <2>1. chan' = chan /\ reply' = reply
    BY <1>4 DEF SupStep, SupRecv, SupCheck, SupInvalid, SupReserve, SupPermit, SupSpawn,
           SupSpawnFails, SupAbandon, SupPublish, SupStart, SupStartFails, SupSourceFailed,
           SendDone, persistVars
  <2> QED BY <1>0, <1>1, <2>1, StillMute DEF Still
<1> QED BY <1>2, <1>3, <1>4

\* A deletion or a cleanup leaves the row it finds, or none.
LEMMA RowsDropped ==
  ASSUME NEW n \in Nat \ {0}, NEW e \in EntryOf(n), NEW inc \in OrNone(n)
  PROVE  /\ delete_session(e, inc).inc \in {0, e.inc}
         /\ cleanup_dead(e).inc \in {0, e.inc} /\ cleanup_expired(e).inc = e.inc
         /\ mark_session_target_unavailable(e, inc).inc = e.inc
<1>0. e \in Entry /\ NoName \in NameSet
  BY DEF EntryOf, NameSet
<1>1. \A i \in Nat : delete_session(e, i).inc \in {0, e.inc}
  BY <1>0 DEF delete_session, EmptyEntry, Entry
<1>2. cleanup_expired(e).inc = e.inc /\ mark_session_target_unavailable(e, inc).inc = e.inc
  BY <1>0, MarksSameRow DEF SameRow
<1>3. e.inc \in Nat /\ inc \in Nat
  BY <1>0 DEF Entry, OrNone
<1> QED BY <1>1, <1>2, <1>3 DEF cleanup_dead

\* restore_sessions deletes and marks rows; the shutdown sends snapshots.
LEMMA MainMute ==
  ASSUME NEW n \in Nat \ {0}, Typed(n), Down, HandsOff,
         RestoreStep \/ ShutdownBegin \/ (ShutdownStep /\ ~ShutdownDone)
  PROVE  Mute(Main)
<1>0. /\ OpsOK(n) /\ EnvOK(n) /\ DbOK(n) /\ Main \in Actors /\ Main \notin Clients /\ Main \in Calling
      /\ db \in [Ids -> EntryOf(n)] /\ restoring.inc \in OrNone(n) /\ n \in Nat
  BY CallingFacts DEF Typed, Others, EnvOK, DbOK
<1>1. CASE CreateStep(Main)
  BY <1>0, <1>1, CreateMute
<1>d. ASSUME reply' = reply, chan' = chan, hist'.gone = hist.gone,
             \A id \in Ids : db'[id].inc \in {0, db[id].inc}
      PROVE  Mute(Main)
  BY <1>0, <1>d DEF Mute
<1>2. CASE RestoreLoad
  <2>1. /\ db' = [id \in Ids |-> cleanup_dead(db[id])] /\ reply' = reply /\ chan' = chan
        /\ hist' = [hist EXCEPT !.atStop = {}]
    BY <1>2 DEF RestoreLoad
  <2>2. hist'.gone = hist.gone
    BY <1>0, <2>1 DEF EnvOK
  <2>3. \A id \in Ids : db'[id].inc \in {0, db[id].inc}
    BY <1>0, <2>1, RowsDropped
  <2> QED BY <1>d, <2>1, <2>2, <2>3
<1>3. CASE RestoreDelete
  <2>1. /\ db' = [db EXCEPT ![ops[Main].id] = delete_session(@, restoring.inc)]
        /\ reply' = reply /\ chan' = chan /\ hist' = hist
    BY <1>3 DEF RestoreDelete, Deleted, env
  <2>2. \A id \in Ids : db'[id].inc \in {0, db[id].inc}
    BY <1>0, <2>1, RowsDropped
  <2> QED BY <1>d, <2>1, <2>2
<1>4. CASE RestoreUnavailable
  <2>1. /\ db' = [db EXCEPT ![ops[Main].id] = mark_session_target_unavailable(@, restoring.inc)]
        /\ reply' = reply /\ chan' = chan /\ hist' = hist
    BY <1>4 DEF RestoreUnavailable, env
  <2>2. \A id \in Ids : db'[id].inc \in {0, db[id].inc}
    BY <1>0, <2>1, RowsDropped
  <2> QED BY <1>d, <2>1, <2>2
<1>5. CASE RestoreDone
  <2>1. PICK old \in SUBSET Ids :
          db' = [id \in Ids |-> IF id \in old THEN cleanup_expired(db[id]) ELSE db[id]]
    BY <1>5 DEF RestoreDone
  <2>2. reply' = reply /\ chan' = chan /\ hist' = hist
    BY <1>5 DEF RestoreDone
  <2>3. \A id \in Ids : db'[id].inc \in {0, db[id].inc}
    <3> SUFFICES ASSUME NEW id \in Ids PROVE db'[id].inc \in {0, db[id].inc}
      OBVIOUS
    <3>1. db[id] \in EntryOf(n)
      BY <1>0
    <3>2. cleanup_expired(db[id]).inc = db[id].inc
      BY <1>0, <3>1, RowsDropped
    <3>3. db'[id] \in {cleanup_expired(db[id]), db[id]}
      BY <2>1
    <3> QED BY <3>2, <3>3
  <2> QED BY <1>d, <2>2, <2>3
<1>6. CASE (\E id \in Ids : RestoreNext(id)) \/ RestoreCreate \/ ShutdownBegin
  <2>1. /\ db' = db /\ reply' = reply /\ chan' = chan
        /\ hist' = hist \/ \E s : hist' = [hist EXCEPT !.atStop = s]
    BY <1>6 DEF RestoreNext, RestoreCreate, ShutdownBegin, persistVars, env
  <2>2. hist'.gone = hist.gone
    BY <1>0, <2>1 DEF EnvOK
  <2> QED BY <1>d, <2>1, <2>2
<1>7. CASE SnapshotTake \/ StopAll \/ ShutdownClose \/ ShutdownDispose
  <2>1. db' = db /\ reply' = reply /\ chan' = chan /\ hist' = hist
    BY <1>7 DEF SnapshotTake, StopAll, ShutdownClose, ShutdownDispose, persistVars, env
  <2> QED BY <1>d, <2>1
<1>8. CASE SnapshotSend \/ ShutdownWorker
  <2>1. /\ db' = db /\ reply' = reply /\ hist' = hist
        /\ \E cmd : chan' = Append(chan, cmd) /\ cmd.kind \in {"BufferUpdate", "Shutdown"}
    <3>1. CASE SnapshotSend
      <4>1. ops[Main].left \subseteq SnapOf(n)
        BY <1>0, <3>1, CallAt DEF SnapshotSend, At, AtSnapshots
      <4>2. \E cmd \in ops[Main].left : chan' = Append(chan, cmd)
        BY <3>1 DEF SnapshotSend, Send
      <4>3. \A cmd \in SnapOf(n) : cmd.kind = "BufferUpdate"
        BY DEF SnapOf
      <4>4. db' = db /\ reply' = reply /\ hist' = hist
        BY <3>1 DEF SnapshotSend, env
      <4> QED BY <4>1, <4>2, <4>3, <4>4
    <3>2. CASE ShutdownWorker
      <4>1. db' = db /\ reply' = reply /\ hist' = hist /\ chan' = Append(chan, Shutdown)
        BY <3>2 DEF ShutdownWorker, env, Send
      <4>2. Shutdown.kind = "Shutdown"
        BY DEF Shutdown
      <4> QED BY <4>1, <4>2
    <3> QED BY <1>8, <3>1, <3>2
  <2> QED BY <1>0, <2>1, SentMute DEF Sent, Asking, SaveKinds
<1> QED BY <1>1, <1>2, <1>3, <1>4, <1>5, <1>6, <1>7, <1>8 DEF RestoreStep, ShutdownStep

\* Save leaves the incarnation it saves, or the one it finds; a removal above it deletes.
LEMMA SaveRow ==
  ASSUME NEW n \in Nat \ {0}, NEW e \in EntryOf(n), NEW inc \in Given(n), NEW name \in NameSet,
         NEW un \in BOOLEAN
  PROVE  /\ save_session(e, inc, name, un).inc \in {e.inc, inc}
         /\ e.inc < inc => delete_session(e, inc).inc = 0
<1>0. e \in Entry /\ inc \in Nat
  BY DEF EntryOf, Given
<1>1. save_session(e, inc, name, un).inc \in {e.inc, inc}
  BY <1>0 DEF save_session, Entry
<1>2. e.inc < inc => delete_session(e, inc).inc = 0
  BY <1>0 DEF delete_session, MaxNat, EmptyEntry, Entry
<1> QED BY <1>1, <1>2

\* The worker saves what it is told to, and deletes before it says so.
LEMMA WorkStored ==
  ASSUME NEW n \in Nat \ {0}, Typed(n), Exclusive, Stored, Work
  PROVE  Stored'
<1> DEFINE cmd == Head(chan)
<1>0. /\ NoName \in NameSet /\ chan \in Seq(CmdOf(n)) /\ ChanOK(n) /\ WorkOK(n) /\ DbOK(n)
      /\ \A j \in Ids : db[j] \in EntryOf(n)
      /\ \A j \in Ids : SameRow(db[j], db[j], n)
      /\ WorkerStep /\ ops' = ops /\ hist' = hist /\ NoOne \notin Clients /\ Removals
      /\ db = [j \in Ids |-> db[j]]
  BY ActorsAssumption DEF NameSet, ChanOK, DbOK, SameRow, Typed, Others, Work, env, Stored
<1>m. ASSUME chan' = chan, reply' = reply, \A j \in Ids : db'[j].inc = db[j].inc
      PROVE  Stored'
  <2>1. Mute(NoOne)
    BY <1>0, <1>m DEF Mute
  <2> QED BY <1>0, <2>1, MuteStored
<1>t. ASSUME NEW kind, Receive(kind), kind \notin Asking, reply' = reply,
             \A j \in Ids : \/ db'[j].inc = db[j].inc
                            \/ kind \in SaveKinds /\ cmd.id = j /\ db'[j].inc = cmd.inc
      PROVE  Stored'
  <2>1. Takes
    BY <1>t DEF Takes, Receive
  <2> QED BY <1>0, <2>1, TakesStored
<1>1. CASE HandleSessionCreated \/ HandleSessionTargetUnavailableUpsert
  <2>1. PICK kind \in SaveKinds, un \in BOOLEAN :
          /\ Receive(kind) /\ reply' = reply
          /\ Commit(cmd.kind, cmd.id, save_session(db[cmd.id], cmd.inc, cmd.name, un))
    BY <1>1 DEF HandleSessionCreated, HandleSessionTargetUnavailableUpsert, SaveKinds
  <2>2. cmd.id \in Ids /\ cmd.inc \in Given(n) /\ cmd.name \in NameSet
    BY <1>0, <2>1, ReceiveFacts DEF SaveKinds
  <2>3. save_session(db[cmd.id], cmd.inc, cmd.name, un).inc \in {db[cmd.id].inc, cmd.inc}
    BY <1>0, <2>2, SaveRow
  <2>4. \A j \in Ids : \/ db'[j].inc = db[j].inc
                       \/ kind \in SaveKinds /\ cmd.id = j /\ db'[j].inc = cmd.inc
    BY <1>0, <2>1, <2>2, <2>3 DEF Commit
  <2> QED BY <1>t, <2>1, <2>4 DEF SaveKinds, Asking
<1>2. CASE HandleSessionDead \/ HandleSessionTargetUnavailable
  <2>1. PICK kind \in {"SessionDead", "SessionTargetUnavailable"} :
      /\ Receive(kind) /\ reply' = reply
      /\ \/ Commit(cmd.kind, cmd.id, mark_session_dead(db[cmd.id], cmd.inc))
         \/ Commit(cmd.kind, cmd.id, mark_session_target_unavailable(db[cmd.id], cmd.inc))
    BY <1>2 DEF HandleSessionDead, HandleSessionTargetUnavailable
  <2>2. cmd.id \in Ids
    BY <1>0, <2>1, ReceiveFacts
  <2>3. \A j \in Ids : db'[j].inc = db[j].inc
    <3> HIDE DEF cmd
    <3>1. /\ SameRow(db[cmd.id], mark_session_dead(db[cmd.id], cmd.inc), n)
          /\ SameRow(db[cmd.id], mark_session_target_unavailable(db[cmd.id], cmd.inc), n)
      BY <1>0, <2>2, MarksSameRow
    <3> QED BY <1>0, <2>1, <2>2, <3>1, CommitRows
  <2> QED BY <1>t, <2>1, <2>3 DEF Asking
<1>3. CASE MarkExited
  <2>1. /\ worker.id \in Ids /\ chan' = chan /\ reply' = reply
        /\ Commit("SessionExited", worker.id, mark_session_dead(db[worker.id], worker.inc))
    BY <1>0, <1>3 DEF MarkExited, WorkOK, WorkerOf
  <2>2. SameRow(db[worker.id], mark_session_dead(db[worker.id], worker.inc), n)
    BY <1>0, <2>1, MarksSameRow
  <2>3. \A j \in Ids : db'[j].inc = db[j].inc
    BY <1>0, <2>1, <2>2, CommitRows
  <2> QED BY <1>m, <2>1, <2>3
<1>b. ASSUME NEW id \in Ids, NEW b \in batch,
             Commit("BufferUpdate", id, save_buffer(db[id], b.inc, b.total))
      PROVE  \A j \in Ids : db'[j].inc = db[j].inc
  <2>1. b.inc \in Given(n) /\ b.total \in 0..Fuel
    BY <1>0 DEF WorkOK, SnapEntry
  <2>2. SameRow(db[id], save_buffer(db[id], b.inc, b.total), n)
    BY <1>0, <2>1, SaveBufferSameRow
  <2> QED BY <1>0, <1>b, <2>2, CommitRows
<1>4. CASE HandleSessionExited
  <2>1. /\ Receive("SessionExited") /\ reply' = reply
        /\ db' = db \/ \E b \in batch : Commit("BufferUpdate", cmd.id, save_buffer(db[cmd.id], b.inc, b.total))
    BY <1>4 DEF HandleSessionExited
  <2>2. cmd.id \in Ids
    BY <1>0, <2>1, ReceiveFacts
  <2>3. \A j \in Ids : db'[j].inc = db[j].inc
    <3> HIDE DEF cmd
    <3> QED BY <1>b, <2>1, <2>2
  <2> QED BY <1>t, <2>1, <2>3 DEF Asking
<1>5. CASE FlushOne
  <2>1. /\ \E b \in batch : Commit("BufferUpdate", b.id, save_buffer(db[b.id], b.inc, b.total))
        /\ chan' = chan /\ reply' = reply
    BY <1>5 DEF FlushOne
  <2>2. \A b \in batch : b.id \in Ids
    BY <1>0 DEF WorkOK, SnapEntry
  <2>3. \A j \in Ids : db'[j].inc = db[j].inc
    BY <1>b, <2>1, <2>2
  <2> QED BY <1>m, <2>1, <2>3
<1>6. CASE HandleSessionRenamed
  <2>1. /\ Receive("SessionRenamed")
        /\ db' = [db EXCEPT ![cmd.id] = rename_session(db[cmd.id], cmd.inc, cmd.name)] \/ db' = db
        /\ \E x : reply' = [reply EXCEPT ![cmd.from] = x]
    BY <1>6 DEF HandleSessionRenamed
  <2>2. cmd.id \in Ids /\ cmd.name \in NameSet /\ cmd.kind = "SessionRenamed" /\ chan # <<>> /\ chan' = Tail(chan)
    BY <1>0, <2>1, ReceiveFacts DEF Receive
  <2>3. \A j \in Ids : db'[j].inc = db[j].inc
    <3> HIDE DEF cmd
    <3>1. SameRow(db[cmd.id], rename_session(db[cmd.id], cmd.inc, cmd.name), n)
      BY <1>0, <2>2, MarksSameRow
    <3>2. DbOK(n) /\ cmd.id \in Ids
      BY <1>0, <2>2
    <3>3. CASE db' = db
      BY <3>3
    <3>4. CASE db' = [db EXCEPT ![cmd.id] = rename_session(db[cmd.id], cmd.inc, cmd.name)]
      BY <3>1, <3>2, <3>4, CommitRows
    <3> QED BY <2>1, <3>3, <3>4
  <2>4. Takes
    BY <2>1, <2>2, <2>3 DEF Takes, Asking
  <2> QED BY <1>0, <2>4, TakesStored
<1>7. CASE HandleSessionRemoved
  <2>1. /\ Receive("SessionRemoved")
        /\ \/ /\ db' = [db EXCEPT ![cmd.id] = delete_session(db[cmd.id], cmd.inc)]
              /\ reply' = [reply EXCEPT ![cmd.from] = "ok"]
           \/ /\ db' = db /\ reply' = [reply EXCEPT ![cmd.from] = "error"]
    BY <1>7 DEF HandleSessionRemoved
  <2>2. /\ cmd.id \in Ids /\ cmd.inc \in Given(n) /\ cmd.kind = "SessionRemoved" /\ chan # <<>>
        /\ chan' = Tail(chan)
    BY <1>0, <2>1, ReceiveFacts DEF Receive
  <2>3. db[cmd.id].inc < cmd.inc
    <3>1. 1 \in 1..Len(chan) /\ cmd = chan[1]
      BY <1>0, <2>2
    <3> QED BY <1>0, <2>2, <3>1 DEF Removals, Removal, Older
  <2> HIDE DEF cmd
  <2>4. delete_session(db[cmd.id], cmd.inc).inc = 0
    BY <1>0, <2>2, <2>3, SaveRow
  <2>5. \A j \in Ids : db'[j].inc \in {0, db[j].inc}
    BY <1>0, <2>1, <2>2, <2>4
  <2>6. CASE reply' = [reply EXCEPT ![cmd.from] = "ok"] /\ db'[cmd.id].inc = 0
    <3>1. Takes
      BY <2>2, <2>5, <2>6 DEF Takes, Asking, cmd
    <3> QED BY <1>0, <3>1, TakesStored
  <2>7. CASE reply' = [reply EXCEPT ![cmd.from] = "error"]
    <3>0. \E x : /\ reply' = [reply EXCEPT ![cmd.from] = x]
                 /\ cmd.kind = "SessionRemoved" /\ x = "ok" => db'[cmd.id].inc = 0
      <4>1. \A x : x = "error" => (cmd.kind = "SessionRemoved" /\ x = "ok" => db'[cmd.id].inc = 0)
        OBVIOUS
      <4> QED BY <2>7, <4>1, Zenon
    <3>1. Takes
      BY <2>2, <2>5, <3>0 DEF Takes, Asking, cmd
    <3> QED BY <1>0, <3>1, TakesStored
  <2> QED BY <1>0, <2>1, <2>2, <2>4, <2>6, <2>7
<1>8. CASE HandleBufferUpdate
  <2>1. Receive("BufferUpdate") /\ reply' = reply /\ db' = db
    BY <1>8 DEF HandleBufferUpdate
  <2> QED BY <1>t, <2>1 DEF Asking
<1>9. CASE HandleShutdown
  <2>1. Receive("Shutdown") /\ reply' = reply /\ db' = db
    BY <1>9 DEF HandleShutdown
  <2> QED BY <1>t, <2>1 DEF Asking
<1>10. CASE FlushTimer \/ FlushDone
  <2>1. chan' = chan /\ reply' = reply /\ db' = db
    BY <1>10 DEF FlushTimer, FlushDone
  <2> QED BY <1>m, <2>1
<1> QED BY <1>0, <1>1, <1>2, <1>3, <1>4, <1>5, <1>6, <1>7, <1>8, <1>9, <1>10 DEF WorkerStep

-----------------------------------------------------------------------------
(* All together.                                                           *)

\* A restarted server stands for nothing, and has only what is gone down.
LEMMA BootDown ==
  ASSUME NEW n, EnvOK(n), Gone, Boot
  PROVE  Memory' /\ Stored'
<1>0. hist \in [down : SUBSET Ids, gone : SUBSET Ids, atStop : SUBSET Ids]
  BY DEF EnvOK
<1>1. /\ hist'.down = hist.gone /\ hist'.gone = hist.gone /\ hist.gone \subseteq Ids
      /\ hist'.down \subseteq Ids
  BY <1>0 DEF Boot
<1>2. /\ \A id \in Ids : /\ inner'.live[id] = 0 /\ inner'.dead[id].inc = 0
                         /\ inner'.failed[id].inc = 0 /\ inner'.pending[id] = 0
      /\ chan' = <<>> /\ reply' = [c \in Clients |-> "none"] /\ db' = db
  BY DEF Boot, NewInner, NoTomb, NoFailed, PersistRestart
<1>3. /\ \A a \in Actors : ops'[a].at \in {"idle", "load"}
      /\ \A c \in Clients : c \in Actors /\ ops'[c].at = "idle"
      /\ ops'[Main].at = "load"
  BY CallingFacts DEF Boot, Idle, Actors
<1>4. Single' /\ Down'
  BY <1>1, <1>2 DEF Single, SingleOf, Down, Stopped, Forgotten
<1>5. HandsOff'
  BY <1>3 DEF HandsOff, Clear, Giving
<1>6. Restored'
  BY <1>1, <1>3 DEF Restored, Until, Before
<1>7. Doomed'
  BY <1>3 DEF Doomed, Doom, Removing, At
<1>8. Memory'
  BY <1>4, <1>5, <1>6, <1>7 DEF Memory
<1>9. Gone'
  BY <1>1, <1>2 DEF Gone, Erased, Unsaved, HasRow
<1>10. Asked' /\ Removals'
  BY <1>2, <1>3 DEF Asked, Removals, At
<1> QED BY <1>8, <1>9, <1>10 DEF Stored

\* At the start nothing is down, and nobody is at work.
LEMMA InitDown ==
  ASSUME Init
  PROVE  Memory /\ Stored
<1>1. /\ hist.down = {} /\ hist.gone = {} /\ phase = "serving"
      /\ \A id \in Ids : /\ inner.live[id] = 0 /\ inner.dead[id].inc = 0
                         /\ inner.failed[id].inc = 0 /\ inner.pending[id] = 0
      /\ chan = <<>> /\ reply = [c \in Clients |-> "none"]
  BY DEF Init, NewInner, NoTomb, NoFailed, PersistInit
<1>2. /\ \A a \in Actors : ops[a].at = "idle"
      /\ \A c \in Clients : c \in Actors /\ ops[c].at = "idle"
  BY CallingFacts DEF Init, Idle, Actors
<1>3. Single /\ Down /\ HandsOff /\ Restored /\ Doomed
  BY <1>1, <1>2 DEF Single, SingleOf, Down, HandsOff, Clear, Giving, Restored, Doomed, Doom,
     Removing, At
<1>4. Gone /\ Asked /\ Removals
  BY <1>1, <1>2 DEF Gone, Asked, Removals, At
<1> QED BY <1>3, <1>4 DEF Memory, Stored

\* The restored main task leaves the phase's promise alone if it and the history stay.
LEMMA RestoredStays ==
  ASSUME Restored, hist' = hist, phase' = phase, ops'[Main] = ops[Main]
  PROVE  Restored'
BY DEF Restored, About

\* Memory and store agree that what is down is down, at every step of every actor.
THEOREM PtyDown == Spec => [](Memory /\ Stored)
<1>1. Init => Memory /\ Stored
  BY InitDown
<1>2. PtyTyped /\ Booting /\ Exclusive /\ Owned /\ Clean /\ Memory /\ Stored /\ [Next]_vars
        => (Memory /\ Stored)'
  <2> SUFFICES ASSUME PtyTyped, Booting, Exclusive, Owned, Clean, Memory, Stored, [Next]_vars
               PROVE  Memory' /\ Stored'
    OBVIOUS
  <2>1. PICK n \in Nat \ {0} : Typed(n)
    BY DEF PtyTyped
  <2>2. /\ OpsOK(n) /\ ChanOK(n) /\ EnvOK(n) /\ Sweeper \in Clients
        /\ \A c \in Clients : c \in Actors /\ c # Main
        /\ Main \in Actors /\ Main # Sup /\ \A c \in Callers : c \in Clients
        /\ Main \notin Clients /\ Sup \notin Clients
    BY <2>1, CallingFacts DEF Typed, Others, Callers, Calling, Actors
  <2>3. Single /\ Down /\ HandsOff /\ Restored /\ Doomed /\ Alone /\ Gone
    BY DEF Memory, Booting, Stored
  <2>l. ASSUME NEW a, \A b \in Actors \ {a} : ops'[b] = ops[b], Lays(a)
        PROVE  Single' /\ Down' /\ HandsOff' /\ Doomed'
    BY <2>2, <2>3, <2>l, LaysMemory
  <2>c. ASSUME NEW c \in Clients, Leaves(c), Lays(c), phase = "serving" \/ ~At(c, "idle")
        PROVE  Memory'
    <3>1. phase' # "boot"
      BY <2>3, <2>c DEF Alone, Leaves
    <3>2. Restored'
      BY <3>1 DEF Restored
    <3>3. Single' /\ Down' /\ HandsOff' /\ Doomed'
      BY <2>c, <2>l DEF Leaves
    <3> QED BY <3>2, <3>3 DEF Memory
  <2>4. CASE UNCHANGED vars \/ Rest
    <3>1. UNCHANGED <<inner, ops, hist, phase, chan, db, reply>>
      BY <2>4 DEF vars, env, persistVars, Rest
    <3>2. Memory'
      BY <3>1 DEF Memory, Single, Down, HandsOff, Clear, Restored, About, Doomed, Doom, At
    <3>3. Stored'
      BY <3>1 DEF Stored, Gone, Erased, Unsaved, Asked, Asks, Removals, Removal, Removes, Older, At
    <3> QED BY <3>2, <3>3
  <2>5. CASE Work
    <3>1. UNCHANGED <<inner, ops, hist, phase>>
      BY <2>5 DEF Work, env
    <3>2. Memory'
      BY <3>1 DEF Memory, Single, Down, HandsOff, Clear, Restored, About, Doomed, Doom, At
    <3> QED BY <2>1, <2>5, <3>2, WorkStored
  <2>6. ASSUME NEW c \in Callers, Request(c) \/ CallStep(c) PROVE Memory' /\ Stored'
    <3>1. Leaves(c) /\ (phase = "serving" \/ ~At(c, "idle"))
      BY <2>2, <2>6, RequestLeaves, CallLeaves
    <3>2. Lays(c)
      BY <2>1, <2>3, <2>6, RequestLays, CallLays
    <3>3. Stored'
      BY <2>1, <2>6, RequestStored, CallStored
    <3> QED BY <2>2, <2>c, <3>1, <3>2, <3>3
  <2>7. CASE SweepBegin \/ SweepStep
    <3>1. Leaves(Sweeper) /\ (phase = "serving" \/ ~At(Sweeper, "idle"))
      BY <2>2, <2>7, SweepLeaves
    <3>2. Lays(Sweeper)
      BY <2>1, <2>3, <2>7, SweepLays
    <3>3. Stored'
      BY <2>1, <2>7, SweepStored
    <3> QED BY <2>2, <2>c, <3>1, <3>2, <3>3
  <2>8. ASSUME NEW i \in Incs, ReaderOutput(i) \/ ReaderExit(i) \/ ReaderStep(i)
        PROVE  Memory' /\ Stored'
    <3>1. ops' = ops /\ phase' = phase
      BY <2>2, <2>8, ReaderLeaves
    <3>2. Lays(i) /\ hist' = hist
      BY <2>1, <2>3, <2>8, ReaderLays
    <3>3. Memory'
      BY <2>3, <2>l, <3>1, <3>2, RestoredStays DEF Memory
    <3>4. Mute(i)
      BY <2>1, <2>8, ReaderMute
    <3> QED BY <2>1, <3>1, <3>3, <3>4, MuteStored
  <2>9. CASE SupStep
    <3>1. /\ phase' = phase /\ \A b \in Actors \ {Sup} : ops'[b] = ops[b]
      BY <2>2, <2>9, SupLeaves DEF Leaves
    <3>2. Lays(Sup) /\ hist' = hist
      BY <2>1, <2>3, <2>9, SupLays
    <3>3. Memory'
      BY <2>2, <2>3, <2>l, <3>1, <3>2, RestoredStays DEF Memory
    <3>4. Mute(Sup)
      BY <2>1, <2>3, <2>9, SupMute
    <3>5. \A b \in Clients \ {Sup} : ops'[b] = ops[b]
      BY <2>2, <3>1
    <3> QED BY <2>1, <3>3, <3>4, <3>5, MuteStored
  <2>10. CASE RestoreStep \/ ShutdownBegin \/ (ShutdownStep /\ ~ShutdownDone)
    <3>1. \A b \in Actors \ {Main} : ops'[b] = ops[b]
      BY <2>1, <2>10, MainGate
    <3>2. Lays(Main)
      BY <2>1, <2>10, MainLays
    <3>3. Restored'
      BY <2>1, <2>3, <2>10, MainRestored DEF Gone, Erased
    <3>4. Memory'
      BY <2>l, <3>1, <3>2, <3>3 DEF Memory
    <3>5. Mute(Main)
      BY <2>1, <2>3, <2>10, MainMute
    <3>6. \A b \in Clients \ {Main} : ops'[b] = ops[b]
      BY <2>2, <3>1
    <3> QED BY <2>1, <3>4, <3>5, <3>6, MuteStored
  <2>11. CASE ShutdownDone \/ Crash
    BY <2>2, <2>3, <2>11, BootDown DEF ShutdownDone, Crash
  <2> QED BY <2>4, <2>5, <2>6, <2>7, <2>8, <2>9, <2>10, <2>11 DEF Next
<1> QED BY <1>1, <1>2, PtyTypes, PtyBooting, PtyExclusive, PtyOwned, PTL DEF Spec

\* What was killed, removed or disposed of stays down until it is created again, whatever
\* respawn, sweep, restore or crash comes between, in every instance.
THEOREM PtyTakenDown == Spec => []TakenDownStaysDown
<1>1. Memory /\ Stored => TakenDownStaysDown
  BY DEF Memory, Down, Stopped, TakenDownStaysDown
<1> QED BY <1>1, PtyDown, PTL
=============================================================================
