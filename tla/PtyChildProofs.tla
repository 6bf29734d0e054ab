--------------------------- MODULE PtyChildProofs ---------------------------
(***************************************************************************)
(* No child process is left behind: a child that runs is the live session  *)
(* of its id, or in the hands of whoever just spawned it.                  *)
(* Owned says what a create and a respawn have in hand; Clean, what the    *)
(* creates of a restore find before the server serves.                     *)
(***************************************************************************)
EXTENDS PtyFenceProofs

-----------------------------------------------------------------------------
(* Who has a child in hand.                                                *)

InHand    == {"spawn", "publish", "persist", "start"}
SupInHand == {"permit", "spawn", "publish", "persist", "start"}

\* What a create or a respawn has in hand is a session of its id ...
Matched == /\ \A c \in Calling : ops[c].at \in InHand => sess[ops[c].inc].id = ops[c].id
           /\ ops[Sup].at \in SupInHand => sess[ops[Sup].inc].id = ops[Sup].cmd.id

\* ... that has no child before it is spawned ...
Fresh == /\ \A c \in Calling : At(c, "spawn") => sess[ops[c].inc].child = "none"
         /\ ops[Sup].at \in {"permit", "spawn"} => sess[ops[Sup].inc].child = "none"

\* ... and is not the one another is about to spawn.
Distinct == \A c \in Calling : At(c, "spawn") /\ ops[Sup].at \in {"permit", "spawn"}
              => ops[c].inc # ops[Sup].inc

\* While a create persists what it published nothing else goes live under its id.
Settled == \A c \in Calling : ops[c].at \in {"persist", "start"} =>
             inner.live[ops[c].id] \in {0, ops[c].inc}

Owned == NoOrphanProcess /\ Matched /\ Fresh /\ Distinct /\ Settled

\* Sessions keep their ids; a child may end but none begins.
Children == \A i \in Incs :
  /\ sess'[i].id = sess[i].id
  /\ \/ sess'[i].child = sess[i].child
     \/ sess[i].child # "none" /\ sess'[i].child \in {"killed", "gone"}

\* Nothing goes live, and what does not stay live does not run.
Lives == \A id \in Ids :
  \/ inner'.live[id] = inner.live[id]
  \/ /\ inner'.live[id] = 0
     /\ inner.live[id] \in Incs => sess'[inner.live[id]].child # "running"

Mild == Children /\ Lives

\* In a mild step a create goes on with what it has, or gives it up, its child not running.
Going(c) == /\ ops'[c].at \in InHand =>
                 /\ ops'[c].at = "start" /\ ops[c].at = "persist"
                 /\ ops'[c].inc = ops[c].inc /\ ops'[c].id = ops[c].id
            /\ At(c, "publish") => sess'[ops[c].inc].child # "running"

SupGoing == /\ ops'[Sup].at \in SupInHand =>
                 /\ \/ ops'[Sup].at = "start" /\ At(Sup, "persist")
                    \/ ops'[Sup].at = "spawn" /\ At(Sup, "permit")
                 /\ ops'[Sup].inc = ops[Sup].inc /\ ops'[Sup].cmd = ops[Sup].cmd
            /\ At(Sup, "publish") => sess'[ops[Sup].inc].child # "running"

\* What a create or a respawn has in hand is an incarnation of the instance.
LEMMA InHandFacts ==
  ASSUME NEW n \in Nat \ {0}, Typed(n)
  PROVE  /\ \A c \in Calling : ops[c].at \in InHand =>
              ops[c].inc \in Given(n) /\ ops[c].inc \in Incs /\ ops[c].id \in Ids
         /\ ops[Sup].at \in SupInHand =>
              /\ ops[Sup].inc \in Given(n) /\ ops[Sup].inc \in Incs /\ ops[Sup].cmd.id \in Ids
              /\ ops[Sup].cmd \in RespawnOf(n) /\ ops[Sup].retry \in BOOLEAN
<1>0. OpsOK(n) /\ n \in 1..(MaxInc + 1)
  BY DEF Typed, Others, MemoryOK
<1>1. Given(n) \subseteq Incs
  BY <1>0, GivenInBounds
<1>2. ASSUME NEW c \in Calling, ops[c].at \in InHand PROVE ops[c].inc \in Given(n) /\ ops[c].id \in Ids
  BY <1>0, <1>2, CallAt DEF InHand, AtSpawn
<1>3. ASSUME ops[Sup].at \in SupInHand
      PROVE  ops[Sup].inc \in Given(n) /\ ops[Sup].cmd.id \in Ids /\ ops[Sup].retry \in BOOLEAN
             /\ ops[Sup].cmd \in RespawnOf(n)
  <2>1. ops[Sup] \in SupTry(n)
    BY <1>0, <1>3, SupAt DEF SupInHand
  <2> QED BY <2>1 DEF SupTry, RespawnOf
<1> QED BY <1>1, <1>2, <1>3

\* A mild step of one actor, or of a reader.
LEMMA MildOwned ==
  ASSUME NEW n \in Nat \ {0}, Typed(n), Owned, Mild, NEW a,
         \A b \in Actors \ {a} : ops'[b] = ops[b],
         a \in Calling => Going(a), a = Sup => SupGoing
  PROVE  Owned'
<1>0. SessionsOK(n) /\ Calling \subseteq Actors \ {Sup} /\ Sup \in Actors /\ Actors = Calling \cup {Sup}
  BY CallingFacts DEF Typed, Others, Calling, Actors
<1>1. NoOrphanProcess'
  <2> SUFFICES ASSUME NEW i \in Incs, sess'[i].child = "running",
                      ~\E b \in Actors : At(b, "publish")' /\ ops'[b].inc = i
               PROVE  inner'.live[sess'[i].id] = i
    BY DEF NoOrphanProcess
  <2>1. sess[i].child = "running" /\ sess'[i].id = sess[i].id /\ sess[i].id \in Ids
    BY <1>0 DEF Mild, Children, SessionsOK, SessionType
  <2>2. ~\E b \in Actors : At(b, "publish") /\ ops[b].inc = i
    <3> SUFFICES ASSUME NEW b \in Actors, At(b, "publish"), ops[b].inc = i PROVE FALSE
      OBVIOUS
    <3>1. CASE b # a
      BY <3>1 DEF At
    <3>2. CASE b = a
      BY <1>0, <3>2 DEF Going, SupGoing
    <3> QED BY <3>1, <3>2
  <2>3. inner.live[sess[i].id] = i
    BY <2>1, <2>2 DEF Owned, NoOrphanProcess
  <2> QED BY <2>1, <2>3 DEF Mild, Lives
<1>2. \A c \in Calling : /\ c # a => ops'[c] = ops[c]
                         /\ c = a => Going(c)
  BY <1>0
<1>3. (Sup # a => ops'[Sup] = ops[Sup]) /\ (Sup = a => SupGoing)
  BY <1>0
<1>4. ASSUME NEW c \in Calling, ops'[c].at \in InHand
      PROVE  /\ ops[c].at \in InHand /\ ops'[c].inc = ops[c].inc /\ ops'[c].id = ops[c].id
             /\ At(c, "spawn")' => At(c, "spawn")
             /\ ops'[c].at \in {"persist", "start"} => ops[c].at \in {"persist", "start"}
  BY <1>2, <1>4 DEF Going, InHand, At
<1>5. ASSUME ops'[Sup].at \in SupInHand
      PROVE  /\ ops[Sup].at \in SupInHand /\ ops'[Sup].inc = ops[Sup].inc /\ ops'[Sup].cmd = ops[Sup].cmd
             /\ ops'[Sup].at \in {"permit", "spawn"} => ops[Sup].at \in {"permit", "spawn"}
  BY <1>3, <1>5 DEF SupGoing, SupInHand, At
<1>6. Matched'
  BY <1>4, <1>5, InHandFacts DEF Owned, Matched, Mild, Children
<1>7. Fresh'
  <2>1. ASSUME NEW c \in Calling, At(c, "spawn")' PROVE sess'[ops'[c].inc].child = "none"
    BY <1>4, <2>1, InHandFacts DEF Owned, Fresh, Mild, Children, InHand, At
  <2>2. ASSUME ops'[Sup].at \in {"permit", "spawn"} PROVE sess'[ops'[Sup].inc].child = "none"
    BY <1>5, <2>2, InHandFacts DEF Owned, Fresh, Mild, Children, SupInHand
  <2> QED BY <2>1, <2>2 DEF Fresh
<1>8. Distinct'
  BY <1>4, <1>5 DEF Owned, Distinct, InHand, SupInHand, At
<1>9. Settled'
  BY <1>4, InHandFacts DEF Owned, Settled, Mild, Lives, InHand
<1> QED BY <1>1, <1>6, <1>7, <1>8, <1>9 DEF Owned

-----------------------------------------------------------------------------
(* Mild steps.                                                             *)

\* A session whose child is not touched.
LEMMA ChildrenField ==
  ASSUME NEW n, SessionsOK(n), NEW i, NEW t, sess' = [sess EXCEPT ![i] = t],
         i \in Incs => t.id = sess[i].id /\ t.child = sess[i].child
  PROVE  Children
<1>1. \A j \in Incs : sess'[j] = IF j = i THEN t ELSE sess[j]
  BY DEF SessionsOK
<1> QED BY <1>1 DEF Children

\* A field of a typed session other than its child.
LEMMA ChildKept ==
  ASSUME NEW n, SessionsOK(n), NEW i \in Incs, NEW v
  PROVE  /\ [sess[i] EXCEPT !.reader = v].id = sess[i].id
         /\ [sess[i] EXCEPT !.reader = v].child = sess[i].child
         /\ [sess[i] EXCEPT !.name = v].id = sess[i].id
         /\ [sess[i] EXCEPT !.name = v].child = sess[i].child
         /\ [sess[i] EXCEPT !.out = v].id = sess[i].id
         /\ [sess[i] EXCEPT !.out = v].child = sess[i].child
<1>1. sess[i] \in SessionType
  BY DEF SessionsOK
<1> QED BY <1>1 DEF SessionType

\* A kill ends the child it is aimed at and changes no other session.
LEMMA TerminateChildren ==
  ASSUME NEW n, SessionsOK(n), NEW i
  PROVE  /\ \A j \in Incs : /\ Terminate(sess, i)[j].id = sess[j].id
                            /\ \/ Terminate(sess, i)[j].child = sess[j].child
                               \/ /\ sess[j].child # "none"
                                  /\ Terminate(sess, i)[j].child \in {"killed", "gone"}
         /\ i \in Incs => Terminate(sess, i)[i].child # "running"
<1>0. i \in Incs => i # 0
  BY DEF Incs
<1>1. CASE i \in Incs /\ sess[i].child = "running"
  <2> DEFINE t == [sess[i] EXCEPT !.child = "killed"]
  <2>1. Terminate(sess, i) = [sess EXCEPT ![i] = t]
    BY <1>0, <1>1 DEF Terminate
  <2>2. t.id = sess[i].id /\ t.child = "killed"
    BY <1>1 DEF SessionsOK, SessionType
  <2> HIDE DEF t
  <2> QED BY <1>1, <2>1, <2>2 DEF SessionsOK
<1>2. CASE ~(i \in Incs /\ sess[i].child = "running")
  <2>1. \A v, j : j \in Incs /\ i \notin Incs => [sess EXCEPT ![i] = v][j] = sess[j]
    BY DEF SessionsOK
  <2>2. Terminate(sess, i) = sess \/ (i \notin Incs /\ \E v : Terminate(sess, i) = [sess EXCEPT ![i] = v])
    BY <1>2 DEF Terminate
  <2>3. \A j \in Incs : Terminate(sess, i)[j] = sess[j]
    BY <2>1, <2>2
  <2> QED BY <1>2, <2>3
<1> QED BY <1>1, <1>2

\* One kill, or a kill of every live session.
LEMMA KillsChildren ==
  ASSUME NEW n, SessionsOK(n)
  PROVE  /\ sess' = sess => Children
         /\ \A i : sess' = Terminate(sess, i) =>
              Children /\ (i \in Incs => sess'[i].child # "running")
         /\ sess' = TerminateLive(sess) =>
              Children /\ \A id \in Ids : inner.live[id] \in Incs => sess'[inner.live[id]].child # "running"
<1>1. sess' = sess => Children
  BY DEF Children
<1>2. ASSUME NEW i, sess' = Terminate(sess, i)
      PROVE  Children /\ (i \in Incs => sess'[i].child # "running")
  BY <1>2, TerminateChildren DEF Children
<1>3. ASSUME sess' = TerminateLive(sess)
      PROVE  Children /\ \A id \in Ids : inner.live[id] \in Incs => sess'[inner.live[id]].child # "running"
  <2>1. \A i \in Incs : sess'[i] = IF \E id \in Ids : inner.live[id] = i
                                   THEN Terminate(sess, i)[i] ELSE sess[i]
    BY <1>3 DEF TerminateLive
  <2> QED BY <2>1, TerminateChildren DEF Children
<1> QED BY <1>1, <1>2, <1>3

\* What is live stays so.
LEMMA LivesSame ==
  ASSUME \A id \in Ids : inner'.live[id] = inner.live[id]
  PROVE  Lives
BY DEF Lives

\* One id loses its live session, which does not run.
LEMMA LivesLocal ==
  ASSUME NEW id, Local(inner', inner, id), inner'.live[id] \in {0, inner.live[id]},
         inner'.live[id] # inner.live[id] /\ inner.live[id] \in Incs
           => sess'[inner.live[id]].child # "running"
  PROVE  Lives
BY DEF Local, Same, Lives

\* Nothing is live any more, and every live child was killed.
LEMMA LivesNone ==
  ASSUME \A id \in Ids : inner'.live[id] = 0,
         \A id \in Ids : inner.live[id] \in Incs => sess'[inner.live[id]].child # "running"
  PROVE  Lives
BY DEF Lives

\* What is live once the replacement inc of id has failed.
Unpublished(r, n, id, inc) ==
  /\ Local(r.inner, inner, id) /\ r.inner \in InnerOf(n)
  /\ r.inner.live[id] = inner.live[id] \/ (r.inner.live[id] = 0 /\ inner.live[id] = inc)

\* A failed replacement that was live is not any more.
LEMMA FailedLives ==
  ASSUME NEW n \in Nat \ {0}, inner \in InnerOf(n), NEW id \in Ids, NEW inc \in Given(n),
         NEW meta \in BOOLEAN, NEW keep \in BOOLEAN
  PROVE  Unpublished(finish_failed_replacement_locked(inner, id, inc, meta, keep), n, id, inc)
<1> DEFINE r == finish_failed_replacement_locked(inner, id, inc, meta, keep)
<1>1. Outcome(r, inner, n, id) /\ FailedReplacement(r.inner, inner, id, inc)
  BY FailedReplacementFacts
<1> HIDE DEF r
<1>2. /\ Local(r.inner, inner, id) /\ r.inner \in InnerOf(n)
      /\ r.inner.live[id] = inner.live[id] \/ (r.inner.live[id] = 0 /\ inner.live[id] = inc)
  BY <1>1 DEF Outcome, FailedReplacement, FailedStale, FailedLive, FailedKept, FailedSession, Same
<1> QED BY <1>2 DEF r, Unpublished

\* Every step of a create but the reservation, the start and the publication of a child.
LEMMA CreateMild ==
  ASSUME NEW n \in Nat \ {0}, Typed(n), Owned, NEW c \in Calling, CreateStep(c)
  PROVE  CreateReserve(c) \/ CreateSpawn(c) \/ CreatePublish(c) \/ (Mild /\ Going(c))
<1>0. /\ OpsOK(n) /\ SessionsOK(n) /\ inner \in InnerOf(n) /\ n \in Nat /\ c \in Actors /\ c # Sup
  BY CallingFacts DEF Typed, Others, MemoryOK
<1>h. ops[c].at \in InHand =>
        ops[c].inc \in Given(n) /\ ops[c].inc \in Incs /\ ops[c].id \in Ids /\ ops[c].retry \in BOOLEAN
  <2>1. ops[c].at \in InHand => ops[c] \in AtSpawn(n)
    BY <1>0, CallAt DEF InHand
  <2> QED BY <2>1, InHandFacts DEF AtSpawn
<1>a. sess' = sess => Children
  BY <1>0, KillsChildren
<1>b. inner' = inner => Lives
  BY LivesSame
<1> USE <1>0 DEF OpsOK, Goto, At, Idle
<1>1. CASE CreatePermit(c)
  <2>1. sess' = sess /\ inner' = inner
    BY <1>1 DEF CreatePermit
  <2>2. ops[c] \in AtEntry
    BY <1>1, CallAt DEF CreatePermit
  <2> QED BY <1>1, <1>a, <1>b, <2>1, <2>2 DEF CreatePermit, Mild, Going, AtEntry, InHand
<1>2. CASE CreateEvict(c)
  <2> DEFINE id  == ops[c].id
             old == inner.live[id]
             s   == Terminate(sess, old)
  <2>1. /\ ops[c].at = "evict" /\ inner' = kill_internal_impl(inner, id, TRUE)
        /\ sess' = (IF old = 0 THEN sess ELSE [s EXCEPT ![old].replaced = TRUE])
        /\ ops'[c].at = "reserve"
    BY <1>2 DEF CreateEvict
  <2>2. id \in Ids
    BY <2>1, CallAt DEF AtEntry
  <2>3. s \in [Incs -> SessionType]
    BY TerminateType
  <2>4. /\ \A j \in Incs : /\ s[j].id = sess[j].id
                           /\ \/ s[j].child = sess[j].child
                              \/ sess[j].child # "none" /\ s[j].child \in {"killed", "gone"}
        /\ old \in Incs => s[old].child # "running"
    BY TerminateChildren
  <2>5. 0 \notin Incs
    BY DEF Incs
  <2> HIDE DEF s
  <2>6. Children /\ (old \in Incs => sess'[old].child # "running")
    BY <2>1, <2>3, <2>4, <2>5 DEF Children, SessionType
  <2>7. Killing(inner', inner, id)
    BY <2>1, <2>2, KillLocal
  <2>8. Lives
    BY <2>6, <2>7, LivesLocal DEF Killing
  <2> QED BY <2>1, <2>6, <2>8 DEF Mild, Going, InHand
<1>3. CASE CreateSpawnFails(c)
  <2> DEFINE r == ReplacementFailed(c)
  <2>1. ops[c].at = "spawn" /\ inner' = r.inner /\ sess' = sess /\ ops'[c].at = "send"
    BY <1>3 DEF CreateSpawnFails, Sending
  <2>2. sess[ops[c].inc].child = "none" /\ ops[c].at \in InHand
    BY <2>1 DEF Owned, Fresh, InHand
  <2>3. Unpublished(r, n, ops[c].id, ops[c].inc)
    BY <1>h, <2>2, FailedLives DEF ReplacementFailed
  <2> HIDE DEF r
  <2>4. Lives
    BY <2>1, <2>2, <2>3, LivesLocal DEF Unpublished
  <2> QED BY <1>a, <2>1, <2>4 DEF Mild, Going, InHand
<1>4. CASE CreateAbandon(c)
  <2>1. ops[c].at = "publish" /\ inner' = inner /\ sess' = Terminate(sess, ops[c].inc)
        /\ ops'[c].at \in {"recheck", "idle"}
    BY <1>4 DEF CreateAbandon, AfterFailure
  <2>2. Children /\ sess'[ops[c].inc].child # "running"
    BY <1>h, <2>1, KillsChildren DEF InHand
  <2> QED BY <1>b, <2>1, <2>2 DEF Mild, Going, InHand
<1>5. CASE CreatePersist(c)
  <2>1. ops[c].at = "persist" /\ inner' = inner /\ sess' = sess /\ ops'[c] = [ops[c] EXCEPT !.at = "start"]
    BY <1>5 DEF CreatePersist
  <2>2. ops[c] \in AtSpawn(n)
    BY <2>1, CallAt
  <2>3. ops'[c].at = "start" /\ ops'[c].inc = ops[c].inc /\ ops'[c].id = ops[c].id
    BY <2>1, <2>2 DEF AtSpawn
  <2> QED BY <1>a, <1>b, <2>1, <2>3 DEF Mild, Going, InHand
<1>6. CASE CreateStart(c)
  <2> DEFINE t == [sess[ops[c].inc] EXCEPT !.reader = "run"]
  <2>1. /\ ops[c].at = "start" /\ inner' = finish_replacement(inner, ops[c].id, ops[c].inc)
        /\ sess' = [sess EXCEPT ![ops[c].inc] = t] /\ ops'[c].at \in {"restore", "idle"}
    BY <1>6 DEF CreateStart, AfterCreate
  <2>2. ops[c].inc \in Incs => t.id = sess[ops[c].inc].id /\ t.child = sess[ops[c].inc].child
    BY ChildKept
  <2> HIDE DEF t
  <2>3. Children
    BY <2>1, <2>2, ChildrenField
  <2>4. \A j \in Ids : inner'.live[j] = inner.live[j]
    BY <1>h, <2>1, FinishFacts DEF Local, Same, InHand
  <2> QED BY <2>1, <2>3, <2>4, LivesSame DEF Mild, Going, InHand
<1>7. CASE CreateStartFails(c)
  <2> DEFINE r == ReplacementFailed(c)
  <2>1. /\ ops[c].at = "start" /\ inner' = kill_internal_impl(r.inner, ops[c].id, TRUE)
        /\ sess' = Terminate(sess, ops[c].inc) /\ ops'[c].at = "send"
    BY <1>7 DEF CreateStartFails, Sending
  <2>2. inner.live[ops[c].id] \in {0, ops[c].inc} /\ ops[c].at \in InHand
    BY <2>1 DEF Owned, Settled, InHand
  <2>3. Unpublished(r, n, ops[c].id, ops[c].inc)
    BY <1>h, <2>2, FailedLives DEF ReplacementFailed
  <2> HIDE DEF r
  <2>4. Killing(inner', inner, ops[c].id)
    BY <1>h, <2>1, <2>2, <2>3, KillAgain DEF Unpublished
  <2>5. Children /\ sess'[ops[c].inc].child # "running"
    BY <1>h, <2>1, <2>2, KillsChildren
  <2>6. 0 \notin Incs
    BY DEF Incs
  <2>7. Lives
    BY <2>2, <2>4, <2>5, <2>6, LivesLocal DEF Killing
  <2> QED BY <2>1, <2>5, <2>7 DEF Mild, Going, InHand
<1>8. CASE SendNext(c)
  <2>1. ops[c] \in AtSend(n)
    BY <1>8, CallAt DEF SendNext
  <2> QED BY <1>8, <1>a, <1>b, <2>1 DEF SendNext, Mild, Going, InHand, AtSend
<1>9. CASE SendDone(c)
  <2>1. ops[c] \in AtSend(n) /\ ops'[c] = ops[c].next /\ inner' = inner /\ sess' = sess
    BY <1>9, CallAt DEF SendDone
  <2>2. ops'[c].at \notin InHand
    BY <2>1 DEF AtSend, Plain, AtRecheck, InHand
  <2> QED BY <1>a, <1>b, <2>1, <2>2 DEF Mild, Going, AtSend
<1> HIDE DEF OpsOK, Goto, At
<1> QED BY <1>1, <1>2, <1>3, <1>4, <1>5, <1>6, <1>7, <1>8, <1>9 DEF CreateStep

\* A removal, a client's or the sweeper's.
LEMMA RemoveMild ==
  ASSUME NEW n \in Nat \ {0}, Typed(n), NEW c \in Clients, RemoveStep(c)
  PROVE  Mild /\ Going(c)
<1>0. /\ OpsOK(n) /\ SessionsOK(n) /\ inner \in InnerOf(n) /\ n \in Nat
      /\ c \in Calling /\ c \in Actors /\ c # Sup
  BY CallingFacts DEF Typed, Others, MemoryOK, Calling
<1>a. sess' = sess => Children
  BY <1>0, KillsChildren
<1>b. inner' = inner => Lives
  BY LivesSame
<1> USE <1>0 DEF OpsOK, Goto, Return, At, Idle
<1>1. CASE RemoveSend(c)
  <2>1. ops[c] \in AtRemove(n)
    BY <1>1, CallAt DEF RemoveSend
  <2> QED BY <1>1, <1>a, <1>b, <2>1 DEF RemoveSend, AtRemove, Mild, Going, InHand
<1>2. CASE RemoveDone(c)
  <2> DEFINE id == ops[c].id
  <2>1. /\ ops[c].at = "removing" /\ ops'[c].at = "idle"
        /\ \/ inner' = inner /\ sess' = sess
           \/ inner' = RemoveIdentity(inner, id) /\ sess' = Terminate(sess, inner.live[id])
    BY <1>2 DEF RemoveDone
  <2>2. id \in Ids
    BY <2>1, CallAt DEF AtRemove
  <2>3. CASE inner' = inner /\ sess' = sess
    BY <1>a, <1>b, <2>1, <2>3 DEF Mild, Going, InHand
  <2>4. CASE inner' = RemoveIdentity(inner, id) /\ sess' = Terminate(sess, inner.live[id])
    <3>1. Local(inner', inner, id) /\ inner'.live[id] = 0
      BY <2>2, <2>4, RemoveFacts
    <3>2. Children /\ (inner.live[id] \in Incs => sess'[inner.live[id]].child # "running")
      BY <2>4, KillsChildren
    <3> QED BY <2>1, <3>1, <3>2, LivesLocal DEF Mild, Going, InHand
  <2> QED BY <2>1, <2>3, <2>4
<1> HIDE DEF OpsOK, Goto, Return, At
<1> QED BY <1>1, <1>2 DEF RemoveStep

\* A client's request.
LEMMA RequestMild ==
  ASSUME NEW n \in Nat \ {0}, Typed(n), NEW c \in Callers, Request(c)
  PROVE  Mild /\ Going(c)
<1>0. /\ OpsOK(n) /\ SessionsOK(n) /\ inner \in InnerOf(n) /\ n \in Nat
      /\ c \in Calling /\ c \in Actors /\ c # Sup /\ world.ids \subseteq Ids
  BY CallingFacts DEF Typed, Others, MemoryOK, EnvOK, World
<1>a. sess' = sess => Children
  BY <1>0, KillsChildren
<1>b. inner' = inner => Lives
  BY LivesSame
<1> USE <1>0 DEF OpsOK, Goto, Call, At
<1>1. ASSUME NEW id \in world.ids, CreateCall(c, id) PROVE Mild /\ Going(c)
  BY <1>1, <1>a, <1>b DEF CreateCall, Mild, Going, InHand
<1>2. ASSUME NEW id \in world.ids, Kill(c, id) PROVE Mild /\ Going(c)
  <2>1. /\ inner' = kill_internal_impl(inner, id, FALSE) /\ ops' = ops /\ ops[c].at = "idle"
        /\ sess' = Terminate(sess, inner.live[id])
    BY <1>2 DEF Kill
  <2>2. Killing(inner', inner, id)
    BY <2>1, KillLocal
  <2>3. Children /\ (inner.live[id] \in Incs => sess'[inner.live[id]].child # "running")
    BY <2>1, KillsChildren
  <2>4. Lives
    BY <2>2, <2>3, LivesLocal DEF Killing
  <2> QED BY <2>1, <2>3, <2>4 DEF Mild, Going, InHand
<1>3. ASSUME NEW id \in world.ids, RemoveCall(c, id) PROVE Mild /\ Going(c)
  <2>1. \A j \in Ids : inner'.live[j] = inner.live[j]
    BY <1>3, AllocateFacts DEF RemoveCall, Same
  <2> QED BY <1>3, <1>a, <2>1, LivesSame DEF RemoveCall, Mild, Going, InHand
<1>4. ASSUME NEW id \in world.ids, NEW name \in Names, RenameCall(c, id, name) PROVE Mild /\ Going(c)
  BY <1>4, <1>a, <1>b DEF RenameCall, Mild, Going, InHand
<1>5. ASSUME DisposeCall(c) PROVE Mild /\ Going(c)
  BY <1>5, <1>a, <1>b DEF DisposeCall, Mild, Going, InHand
<1> HIDE DEF OpsOK, Goto, Call, At
<1> QED BY <1>1, <1>2, <1>3, <1>4, <1>5 DEF Request

\* A step of a client's call.
LEMMA CallMild ==
  ASSUME NEW n \in Nat \ {0}, Typed(n), Owned, NEW c \in Callers, CallStep(c)
  PROVE  CreateReserve(c) \/ CreateSpawn(c) \/ CreatePublish(c) \/ (Mild /\ Going(c))
<1>0. /\ OpsOK(n) /\ SessionsOK(n) /\ inner \in InnerOf(n) /\ n \in Nat
      /\ c \in Calling /\ c \in Clients /\ c \in Actors /\ c # Sup
  BY CallingFacts DEF Typed, Others, MemoryOK, Callers
<1>a. sess' = sess => Children
  BY <1>0, KillsChildren
<1>b. inner' = inner => Lives
  BY LivesSame
<1>1. CASE CreateStep(c) \/ RemoveStep(c)
  BY <1>0, <1>1, CreateMild, RemoveMild
<1> USE <1>0 DEF OpsOK, Goto, Return, EndDispose, At, Idle
<1>2. CASE CreateRecheck(c)
  BY <1>2, <1>a, <1>b DEF CreateRecheck, Mild, Going, InHand
<1>3. CASE CreateTargetLost(c)
  <2> DEFINE r == mark_target_unavailable(inner, ops[c].id, NoName)
  <2>1. ops[c].at = "recheck" /\ inner' = r.inner /\ sess' = sess /\ ops'[c].at = "send"
    BY <1>3 DEF CreateTargetLost, Sending
  <2>2. ops[c].id \in Ids
    BY <2>1, CallAt DEF AtRecheck
  <2>3. Local(r.inner, inner, ops[c].id) /\ r.inner.live[ops[c].id] = inner.live[ops[c].id]
    BY <2>2, TargetLostFacts DEF NameSet
  <2> HIDE DEF r
  <2>4. Lives
    BY <2>1, <2>3, LivesLocal
  <2> QED BY <1>a, <2>1, <2>4 DEF Mild, Going, InHand
<1>4. CASE RenameSend(c)
  <2>1. ops[c] \in AtRename(n)
    BY <1>4, CallAt DEF RenameSend
  <2> QED BY <1>4, <1>a, <1>b, <2>1 DEF RenameSend, AtRename, Mild, Going, InHand
<1>5. CASE RenameDone(c)
  <2> DEFINE t == [sess[ops[c].inc] EXCEPT !.name = ops[c].name]
  <2>1. /\ sess' = sess \/ sess' = [sess EXCEPT ![ops[c].inc] = t]
        /\ inner' = inner /\ ops[c].at = "renaming" /\ ops'[c].at = "idle"
    BY <1>5 DEF RenameDone
  <2>2. ops[c].inc \in Incs => t.id = sess[ops[c].inc].id /\ t.child = sess[ops[c].inc].child
    BY ChildKept
  <2> HIDE DEF t
  <2>3. Children
    BY <1>a, <2>1, <2>2, ChildrenField
  <2> QED BY <1>b, <2>1, <2>3 DEF Mild, Going, InHand
<1>6. CASE DisposeStart(c)
  <2>1. \A j \in Ids : inner'.live[j] = inner.live[j]
    BY <1>6 DEF DisposeStart, InnerOf
  <2> QED BY <1>6, <1>a, <2>1, LivesSame DEF DisposeStart, Mild, Going, InHand
<1>7. CASE DisposeRemove(c)
  <2>1. \A j \in Ids : inner'.live[j] = inner.live[j]
    BY <1>7, AllocateFacts DEF DisposeRemove, Same
  <2> QED BY <1>7, <1>a, <2>1, LivesSame DEF DisposeRemove, Mild, Going, InHand
<1>8. CASE DisposeEvict(c)
  <2> DEFINE id  == ops[c].cur[1]
             inc == ops[c].cur[2]
  <2>1. /\ ops[c].at = "disposing" /\ ops'[c].at = "dispose"
        /\ inner' = evict_identity_after_durable_removal(inner, id, inc)
        /\ sess' = (IF inner.live[id] = inc THEN Terminate(sess, inc) ELSE sess)
    BY <1>8 DEF DisposeEvict
  <2>2. id \in Ids
    <3>1. ops[c].cur \in Ids \X Given(n)
      BY <2>1, CallAt DEF AtDisposing
    <3> QED BY <3>1
  <2> HIDE DEF id, inc
  <2>3. Local(inner', inner, id) /\ inner'.live[id] \in {0, inner.live[id]}
    BY <2>1, <2>2, EvictLocal
  <2>4. inner'.live[id] # inner.live[id] => inner.live[id] = inc
    BY <2>1, <2>2 DEF evict_identity_after_durable_removal, InnerOf
  <2>5. Children /\ (inner.live[id] = inc /\ inc \in Incs => sess'[inc].child # "running")
    BY <2>1, KillsChildren
  <2>6. Lives
    BY <2>3, <2>4, <2>5, LivesLocal
  <2> QED BY <2>1, <2>5, <2>6 DEF Mild, Going, InHand
<1>9. CASE DisposeError(c)
  <2>1. \A j \in Ids : inner'.live[j] = inner.live[j]
    BY <1>9 DEF DisposeError, InnerOf
  <2> QED BY <1>9, <1>a, <2>1, LivesSame DEF DisposeError, Mild, Going, InHand
<1>10. CASE DisposeFinish(c)
  <2>1. /\ ops[c].at = "dispose" /\ ops'[c].at = "idle" /\ inner' = DisposeAll(inner)
        /\ sess' = TerminateLive(sess)
    BY <1>10 DEF DisposeFinish
  <2>2. \A j \in Ids : inner'.live[j] = 0
    BY <2>1 DEF DisposeAll, InnerOf
  <2>3. Children /\ \A j \in Ids : inner.live[j] \in Incs => sess'[inner.live[j]].child # "running"
    BY <2>1, KillsChildren
  <2>4. Lives
    BY <2>2, <2>3, LivesNone
  <2> QED BY <2>1, <2>3, <2>4 DEF Mild, Going, InHand
<1> HIDE DEF OpsOK, Goto, Return, EndDispose, At
<1> QED BY <1>1, <1>2, <1>3, <1>4, <1>5, <1>6, <1>7, <1>8, <1>9, <1>10 DEF CallStep

\* The sweeper.
LEMMA SweepMild ==
  ASSUME NEW n \in Nat \ {0}, Typed(n), SweepBegin \/ SweepStep
  PROVE  Mild /\ Going(Sweeper)
<1>0. /\ OpsOK(n) /\ SessionsOK(n) /\ inner \in InnerOf(n) /\ n \in Nat
      /\ Sweeper \in Calling /\ Sweeper \in Clients /\ Sweeper \in Actors /\ Sweeper # Sup
  BY CallingFacts DEF Typed, Others, MemoryOK, Calling
<1>a. sess' = sess => Children
  BY <1>0, KillsChildren
<1>b. inner' = inner => Lives
  BY LivesSame
<1>1. CASE RemoveStep(Sweeper)
  BY <1>0, <1>1, RemoveMild
<1> USE <1>0 DEF OpsOK, Goto, At, Idle
<1>2. CASE SweepBegin
  <2>1. \A j \in Ids : inner'.live[j] = inner.live[j]
    BY <1>2, PruneFacts DEF SweepBegin, Same
  <2> QED BY <1>2, <1>a, <2>1, LivesSame DEF SweepBegin, Mild, Going, InHand
<1>3. CASE SweepCheck
  <2>1. ops[Sweeper] \in AtRemove(n)
    BY <1>3, CallAt DEF SweepCheck
  <2> QED BY <1>3, <1>a, <1>b, <2>1 DEF SweepCheck, AtRemove, Mild, Going, InHand
<1>4. CASE SweepRemove
  <2>1. \A j \in Ids : inner'.live[j] = inner.live[j]
    BY <1>4, AllocateFacts DEF SweepRemove, Same
  <2> QED BY <1>4, <1>a, <2>1, LivesSame DEF SweepRemove, Mild, Going, InHand
<1> HIDE DEF OpsOK, Goto, At
<1> QED BY <1>1, <1>2, <1>3, <1>4 DEF SweepStep

\* The main task, but for the creates of a restore and what it keeps as unavailable.
LEMMA MainMild ==
  ASSUME NEW n \in Nat \ {0}, Typed(n), Owned, Booting,
         RestoreStep \/ ShutdownBegin \/ (ShutdownStep /\ ~ShutdownDone)
  PROVE  \/ CreateReserve(Main) \/ CreateSpawn(Main) \/ CreatePublish(Main) \/ RestoreUnavailable
         \/ Mild /\ Going(Main)
<1>0. /\ OpsOK(n) /\ SessionsOK(n) /\ inner \in InnerOf(n) /\ n \in Nat
      /\ Main \in Calling /\ Main \in Actors /\ Main # Sup
  BY CallingFacts DEF Typed, Others, MemoryOK
<1>a. sess' = sess => Children
  BY <1>0, KillsChildren
<1>b. inner' = inner => Lives
  BY LivesSame
<1>1. CASE CreateStep(Main)
  BY <1>0, <1>1, CreateMild
<1> USE <1>0 DEF OpsOK, Goto, Return, At, Idle
<1>2. CASE RestoreLoad \/ (\E id \in Ids : RestoreNext(id)) \/ RestoreDelete
  BY <1>2, <1>a, <1>b DEF RestoreLoad, RestoreNext, RestoreDelete, Mild, Going, InHand
<1>3. CASE RestoreCreate
  <2>1. ops[Main] \in AtEntry
    BY <1>3, CallAt DEF RestoreCreate
  <2> QED BY <1>3, <1>a, <1>b, <2>1 DEF RestoreCreate, AtEntry, Mild, Going, InHand
<1>4. CASE RestoreDone \/ ShutdownClose \/ ShutdownWorker
  BY <1>4, <1>a, <1>b DEF RestoreDone, ShutdownClose, ShutdownWorker, Mild, Going, InHand
<1>5. CASE ShutdownBegin
  <2>1. ops'[Main].at = "snapshot" /\ sess' = sess /\ inner' = inner /\ phase = "serving"
    BY <1>5 DEF ShutdownBegin
  <2>2. ops[Main].at # "publish"
    BY <2>1 DEF Booting, Visiting, BootOnly
  <2> QED BY <1>a, <1>b, <2>1, <2>2 DEF Mild, Going, InHand
<1>8. CASE SnapshotTake \/ SnapshotSend
  BY <1>8, <1>a, <1>b DEF SnapshotTake, SnapshotSend, Mild, Going, InHand
<1>6. CASE StopAll
  <2>1. inner' = stop_all_for_shutdown(inner) /\ sess' = TerminateLive(sess)
        /\ ops'[Main].at = "readers" /\ ops[Main].at = "snapshots"
    BY <1>6 DEF StopAll
  <2>2. \A j \in Ids : inner'.live[j] = inner.live[j]
    BY <2>1, StopFacts
  <2>3. Children
    BY <2>1, KillsChildren
  <2> QED BY <2>1, <2>2, <2>3, LivesSame DEF Mild, Going, InHand
<1>7. CASE ShutdownDispose
  <2>1. /\ inner' = [DisposeAll(inner) EXCEPT !.closing = TRUE, !.generation = @ + 1]
        /\ sess' = TerminateLive(sess) /\ ops'[Main].at = "join" /\ ops[Main].at = "close"
    BY <1>7 DEF ShutdownDispose
  <2>2. \A j \in Ids : inner'.live[j] = 0
    BY <2>1 DEF DisposeAll, InnerOf
  <2>3. Children /\ \A j \in Ids : inner.live[j] \in Incs => sess'[inner.live[j]].child # "running"
    BY <2>1, KillsChildren
  <2>4. Lives
    BY <2>2, <2>3, LivesNone
  <2> QED BY <2>1, <2>3, <2>4 DEF Mild, Going, InHand
<1> HIDE DEF OpsOK, Goto, Return, At
<1> QED BY <1>1, <1>2, <1>3, <1>4, <1>5, <1>6, <1>7, <1>8 DEF RestoreStep, ShutdownStep

\* A reader that sees the end of its child takes it out of the live ones.
LEMMA ReaderMild ==
  ASSUME NEW n \in Nat \ {0}, Typed(n), NEW i \in Incs,
         ReaderOutput(i) \/ ReaderExit(i) \/ ReaderStep(i)
  PROVE  Mild
<1>0. SessionsOK(n) /\ inner \in InnerOf(n) /\ sess \in [Incs -> SessionType]
      /\ sess[i] \in SessionType /\ n \in Nat
  BY DEF Typed, Others, MemoryOK, SessionsOK
<1>1. CASE ReaderOutput(i)
  <2>1. sess' = [sess EXCEPT ![i] = [sess[i] EXCEPT !.out = @ + 1]] /\ inner' = inner
    BY <1>1 DEF ReaderOutput
  <2> QED BY <1>0, <2>1, ChildKept, ChildrenField, LivesSame DEF Mild
<1>2. CASE ReaderExit(i)
  <2>1. PICK code \in {0, 1} : ChildGone(i, code) /\ (OwnerExit(i, code) \/ StaleExit(i) \/ RemovedExit(i))
    BY <1>2 DEF ReaderExit
  <2>2. sess[i].reader = "run" /\ sess[i].child # "none"
    BY <1>2, <2>1 DEF ReaderExit, ChildGone
  <2>3. \E t : t.id = sess[i].id /\ t.child = "gone" /\ sess' = [sess EXCEPT ![i] = t]
    <3>1. CASE OwnerExit(i, code)
      <4> DEFINE s    == sess[i]
                 will == decide_restart(Policy[s.id], code,
                                        s.id \in inner.killed \/ inner.generation # s.gen, s.count)
                 td   == IF will THEN <<"lock", "respawn", "event">> ELSE <<"lock", "event">>
                 cnt  == IF code = 0 THEN 0 ELSE s.count
                 t    == [s EXCEPT !.child = "gone", !.reader = "exit", !.count = cnt, !.todo = td]
      <4>1. sess' = [sess EXCEPT ![i] = t]
        BY <3>1 DEF OwnerExit
      <4> HIDE DEF td, cnt
      <4>2. t.id = sess[i].id /\ t.child = "gone"
        BY <1>0 DEF SessionType
      <4> HIDE DEF t
      <4> QED BY <4>1, <4>2
    <3>2. CASE StaleExit(i)
      <4> DEFINE t == [sess[i] EXCEPT !.child = "gone", !.reader = "done"]
      <4>1. sess' = [sess EXCEPT ![i] = t]
        BY <1>0, <3>2 DEF StaleExit
      <4>2. t.id = sess[i].id /\ t.child = "gone"
        BY <1>0 DEF SessionType
      <4> HIDE DEF t
      <4> QED BY <4>1, <4>2
    <3>3. CASE RemovedExit(i)
      <4> DEFINE s    == sess[i]
                 mute == inner.suppress[s.id] > 0
                 pers == ~mute /\ inner.dead[s.id].inc = i
                 rd   == IF mute THEN "done" ELSE "exit"
                 td   == IF pers THEN <<"lock", "event">> ELSE IF mute THEN <<>> ELSE <<"event">>
                 t    == [s EXCEPT !.child = "gone", !.muted = mute, !.reader = rd, !.todo = td]
      <4>1. sess' = [sess EXCEPT ![i] = t]
        BY <3>3 DEF RemovedExit
      <4> HIDE DEF td, rd, mute
      <4>2. t.id = sess[i].id /\ t.child = "gone"
        BY <1>0 DEF SessionType
      <4> HIDE DEF t
      <4> QED BY <4>1, <4>2
    <3> QED BY <2>1, <3>1, <3>2, <3>3
  <2>4. PICK t : t.id = sess[i].id /\ t.child = "gone" /\ sess' = [sess EXCEPT ![i] = t]
    BY <2>3
  <2>5. Children /\ sess'[i].child = "gone"
    BY <1>0, <2>2, <2>4 DEF Children
  <2>6. sess[i].id \in Ids
    BY <1>0 DEF SessionType
  <2>7. CASE OwnerExit(i, code)
    <3>1. \E will \in BOOLEAN : inner' = ToTomb(inner, sess[i].id, Tombstone(i, will))
      BY <2>7 DEF OwnerExit, ToTomb, decide_restart
    <3>2. PICK will \in BOOLEAN : inner' = ToTomb(inner, sess[i].id, Tombstone(i, will))
      BY <3>1
    <3>3. i < n
      BY <1>0, <2>2 DEF SessionsOK, SessionOK
    <3>4. Tombstone(i, will) \in TombOf(n)
      BY <3>3 DEF Tombstone, TombOf, OrNone, Incs
    <3>5. Local(inner', inner, sess[i].id) /\ inner'.live[sess[i].id] = 0
      BY <1>0, <2>6, <3>2, <3>4, ExitFacts
    <3>6. inner.live[sess[i].id] = i
      BY <2>7 DEF OwnerExit
    <3> QED BY <2>5, <3>5, <3>6, LivesLocal DEF Mild
  <2>8. CASE StaleExit(i) \/ RemovedExit(i)
    <3>1. inner' = consume_suppressed_exit(inner, sess[i].id)
      BY <2>8 DEF StaleExit, RemovedExit
    <3>2. \A j \in Ids : inner'.live[j] = inner.live[j]
      BY <1>0, <2>6, <3>1, ConsumeFacts DEF Same, Local
    <3> QED BY <2>5, <3>2, LivesSame DEF Mild
  <2> QED BY <2>1, <2>7, <2>8
<1>3. CASE ReaderStep(i)
  <2>3. \E t : t.id = sess[i].id /\ t.child = sess[i].child /\ sess' = [sess EXCEPT ![i] = t]
    <3>1. \A td : /\ [sess[i] EXCEPT !.todo = td,
                              !.reader = IF td = <<>> THEN "done" ELSE "exit"].id = sess[i].id
                  /\ [sess[i] EXCEPT !.todo = td,
                              !.reader = IF td = <<>> THEN "done" ELSE "exit"].child = sess[i].child
                  /\ Advance(i, td)
                       = [sess EXCEPT ![i] = [sess[i] EXCEPT !.todo = td,
                              !.reader = IF td = <<>> THEN "done" ELSE "exit"]]
      BY <1>0 DEF SessionType, Advance
    <3>2. \A td : \E t : t.id = sess[i].id /\ t.child = sess[i].child
                         /\ Advance(i, td) = [sess EXCEPT ![i] = t]
      BY <3>1
    <3>3. CASE \E td : sess' = Advance(i, td)
      BY <3>2, <3>3
    <3>4. ASSUME NEW td, NEW v, sess' = [Advance(i, td) EXCEPT ![i].dropped = v]
                                \/ sess' = [Advance(i, td) EXCEPT ![i].told = v]
          PROVE  \E t : t.id = sess[i].id /\ t.child = sess[i].child /\ sess' = [sess EXCEPT ![i] = t]
      <4> DEFINE u == [sess[i] EXCEPT !.todo = td,
                              !.reader = IF td = <<>> THEN "done" ELSE "exit"]
      <4>1. /\ [u EXCEPT !.dropped = v].id = sess[i].id /\ [u EXCEPT !.told = v].id = sess[i].id
            /\ [u EXCEPT !.dropped = v].child = sess[i].child
            /\ [u EXCEPT !.told = v].child = sess[i].child
        BY <1>0 DEF SessionType
      <4>2. Advance(i, td) = [sess EXCEPT ![i] = u]
        BY <3>1
      <4> HIDE DEF u
      <4>3. sess' = [sess EXCEPT ![i] = [u EXCEPT !.dropped = v]]
            \/ sess' = [sess EXCEPT ![i] = [u EXCEPT !.told = v]]
        BY <1>0, <3>4, <4>2
      <4> QED BY <4>1, <4>3
    <3> QED BY <1>3, <3>3, <3>4 DEF ReaderStep, ReaderLock, ReaderSnapshot, ReaderExited,
            ReaderRespawn, ReaderEvent
  <2>4. inner' = inner
    BY <1>3 DEF ReaderStep, ReaderLock, ReaderSnapshot, ReaderExited, ReaderRespawn, ReaderEvent
  <2> QED BY <1>0, <2>3, <2>4, ChildrenField, LivesSame DEF Mild
<1> QED BY <1>1, <1>2, <1>3

\* The supervisor reserves a respawn.
SupReserves == SupReserve /\ ops'[Sup].at = "permit"

\* The supervisor, but for the reservation, the start and the publication of a child.
LEMMA SupMild ==
  ASSUME NEW n \in Nat \ {0}, Typed(n), Owned, SupStep
  PROVE  SupReserves \/ SupSpawn \/ SupPublish \/ (Mild /\ SupGoing)
<1>0. /\ OpsOK(n) /\ SessionsOK(n) /\ inner \in InnerOf(n) /\ n \in Nat /\ Sup \in Actors
  BY CallingFacts DEF Typed, Others, MemoryOK
<1>h. ops[Sup].at \in SupInHand =>
        /\ ops[Sup].inc \in Given(n) /\ ops[Sup].inc \in Incs /\ ops[Sup].cmd.id \in Ids
        /\ ops[Sup].cmd \in RespawnOf(n) /\ ops[Sup].retry \in BOOLEAN
        /\ ops[Sup] \in SupTry(n)
  BY <1>0, InHandFacts, SupAt DEF SupInHand
<1>a. sess' = sess => Children
  BY <1>0, KillsChildren
<1>b. inner' = inner => Lives
  BY LivesSame
<1>c. ASSUME ops[Sup].at \in SupInHand,
             inner' = inner \/ inner' = finish_replacement(inner, ops[Sup].cmd.id, ops[Sup].inc)
      PROVE  Lives
  <2>1. \A j \in Ids : inner'.live[j] = inner.live[j]
    BY <1>0, <1>h, <1>c, FinishFacts DEF Local, Same
  <2> QED BY <2>1, LivesSame
<1> USE <1>0 DEF OpsOK, Goto, Return, At, Idle
<1>1. CASE SupRecv \/ SupCheck \/ SupInvalid
  BY <1>1, <1>a, <1>b DEF SupRecv, SupCheck, SupInvalid, SupFailed, Mild, SupGoing, SupInHand
<1>2. CASE SupReserve
  <2>1. CASE inner' = inner /\ sess' = sess /\ ops'[Sup].at = "failed"
    BY <1>2, <1>a, <1>b, <2>1 DEF SupReserve, Mild, SupGoing, SupInHand
  <2>2. CASE ops'[Sup].at = "permit"
    BY <1>2, <2>2 DEF SupReserves
  <2> QED BY <1>2, <2>1, <2>2 DEF SupReserve, SupFailed
<1>3. CASE SupPermit
  <2>1. /\ ops[Sup].at = "permit" /\ sess' = sess
        /\ inner' = inner \/ inner' = finish_replacement(inner, ops[Sup].cmd.id, ops[Sup].inc)
        /\ \/ ops'[Sup].at = "idle"
           \/ ops'[Sup] = [ops[Sup] EXCEPT !.at = "spawn"]
    BY <1>3 DEF SupPermit
  <2>2. ops[Sup] \in SupTry(n)
    BY <1>h, <2>1 DEF SupInHand
  <2>3. \/ ops'[Sup].at = "idle"
        \/ ops'[Sup].at = "spawn" /\ ops'[Sup].inc = ops[Sup].inc /\ ops'[Sup].cmd = ops[Sup].cmd
    BY <2>1, <2>2 DEF SupTry
  <2> QED BY <1>a, <1>c, <2>1, <2>3 DEF Mild, SupGoing, SupInHand
<1>4. CASE SupSpawnFails
  <2> DEFINE r == RespawnFailed
  <2>1. ops[Sup].at = "spawn" /\ inner' = r.inner /\ sess' = sess /\ ops'[Sup].at = "send"
    BY <1>4 DEF SupSpawnFails, Sending
  <2>2. sess[ops[Sup].inc].child = "none" /\ ops[Sup].at \in SupInHand
    BY <2>1 DEF Owned, Fresh, SupInHand
  <2>3. Unpublished(r, n, ops[Sup].cmd.id, ops[Sup].inc)
    BY <1>h, <2>2, FailedLives DEF RespawnFailed
  <2> HIDE DEF r
  <2>4. Lives
    BY <2>1, <2>2, <2>3, LivesLocal DEF Unpublished
  <2> QED BY <1>a, <2>1, <2>4 DEF Mild, SupGoing, SupInHand
<1>5. CASE SupAbandon
  <2>1. /\ ops[Sup].at = "publish" /\ sess' = Terminate(sess, ops[Sup].inc)
        /\ inner' = finish_replacement(inner, ops[Sup].cmd.id, ops[Sup].inc)
        /\ ops'[Sup].at \in {"failed", "idle"}
    BY <1>5 DEF SupAbandon, SupFailed
  <2>2. Children /\ sess'[ops[Sup].inc].child # "running"
    BY <1>h, <2>1, KillsChildren DEF SupInHand
  <2> QED BY <1>c, <2>1, <2>2 DEF Mild, SupGoing, SupInHand
<1>6. CASE SupPersist
  <2>1. ops[Sup].at = "persist" /\ inner' = inner /\ sess' = sess
        /\ ops'[Sup] = [ops[Sup] EXCEPT !.at = "start"]
    BY <1>6 DEF SupPersist
  <2>2. ops[Sup] \in SupTry(n)
    BY <1>h, <2>1 DEF SupInHand
  <2>3. ops'[Sup].at = "start" /\ ops'[Sup].inc = ops[Sup].inc /\ ops'[Sup].cmd = ops[Sup].cmd
    BY <2>1, <2>2 DEF SupTry
  <2> QED BY <1>a, <1>b, <2>1, <2>3 DEF Mild, SupGoing, SupInHand
<1>7. CASE SupStart
  <2> DEFINE t == [sess[ops[Sup].inc] EXCEPT !.reader = "run"]
  <2>1. /\ ops[Sup].at = "start" /\ sess' = [sess EXCEPT ![ops[Sup].inc] = t]
        /\ inner' = finish_replacement(inner, ops[Sup].cmd.id, ops[Sup].inc)
        /\ ops'[Sup].at = "idle"
    BY <1>7 DEF SupStart
  <2>2. ops[Sup].inc \in Incs => t.id = sess[ops[Sup].inc].id /\ t.child = sess[ops[Sup].inc].child
    BY ChildKept
  <2> HIDE DEF t
  <2>3. Children
    BY <2>1, <2>2, ChildrenField
  <2> QED BY <1>c, <2>1, <2>3 DEF Mild, SupGoing, SupInHand
<1>8. CASE SupStartFails
  <2> DEFINE r == RespawnFailed
  <2>1. /\ ops[Sup].at = "start" /\ inner' = r.inner /\ sess' = Terminate(sess, ops[Sup].inc)
        /\ ops'[Sup].at = "send"
    BY <1>8 DEF SupStartFails, Sending
  <2>2. Unpublished(r, n, ops[Sup].cmd.id, ops[Sup].inc)
    BY <1>h, <2>1, FailedLives DEF RespawnFailed, SupInHand
  <2> HIDE DEF r
  <2>3. Children /\ sess'[ops[Sup].inc].child # "running"
    BY <1>h, <2>1, KillsChildren DEF SupInHand
  <2>4. Lives
    BY <2>1, <2>2, <2>3, LivesLocal DEF Unpublished
  <2> QED BY <2>1, <2>3, <2>4 DEF Mild, SupGoing, SupInHand
<1>9. CASE SupSourceFailed
  <2> DEFINE r == finish_respawn_source_failure(inner, ops[Sup].cmd.id, ops[Sup].cmd.inc, ops[Sup].lost)
  <2>1. ops[Sup].at = "failed" /\ inner' = r.inner /\ sess' = sess /\ ops'[Sup].at = "send"
    BY <1>9 DEF SupSourceFailed, Sending
  <2>2. ops[Sup].cmd.id \in Ids /\ ops[Sup].cmd.inc \in Given(n) /\ ops[Sup].lost \in BOOLEAN
    BY <2>1, SupCmd, SupAt DEF SupLost
  <2>3. Local(r.inner, inner, ops[Sup].cmd.id)
        /\ r.inner.live[ops[Sup].cmd.id] = inner.live[ops[Sup].cmd.id]
    BY <2>2, SourceFailureFacts DEF Outcome
  <2> HIDE DEF r
  <2>4. Lives
    BY <2>1, <2>3, LivesLocal
  <2> QED BY <1>a, <2>1, <2>4 DEF Mild, SupGoing, SupInHand
<1>10. CASE SendNext(Sup)
  <2>1. ops[Sup] \in SupSend(n)
    BY <1>10, SupAt DEF SendNext
  <2> QED BY <1>10, <1>a, <1>b, <2>1 DEF SendNext, Mild, SupGoing, SupInHand, SupSend
<1>11. CASE SendDone(Sup)
  <2>1. ops[Sup] \in SupSend(n) /\ ops'[Sup] = ops[Sup].next /\ inner' = inner /\ sess' = sess
    BY <1>11, SupAt DEF SendDone
  <2>2. ops'[Sup].at \notin SupInHand /\ ops[Sup].at # "publish"
    BY <2>1 DEF SupSend, SupIdle, SupLost, SupInHand
  <2> QED BY <1>a, <1>b, <2>1, <2>2 DEF Mild, SupGoing
<1> HIDE DEF OpsOK, Goto, Return, At
<1> QED BY <1>1, <1>2, <1>3, <1>4, <1>5, <1>6, <1>7, <1>8, <1>9, <1>10, <1>11 DEF SupStep

-----------------------------------------------------------------------------
(* The steps that reserve, start and publish a child.                      *)

\* A reservation is a session of its own, above all that anyone has in hand.
LEMMA ReserveOwned ==
  ASSUME NEW n \in Nat \ {0}, Typed(n), Owned, n \in Incs, NEW a \in Actors,
         \A b \in Actors \ {a} : ops'[b] = ops[b], ops[a].at # "publish",
         NEW id \in Ids, NEW t, t.id = id, t.child = "none", sess' = [sess EXCEPT ![n] = t],
         \A j \in Ids : inner'.live[j] = inner.live[j],
         a \in Calling => ops'[a].at = "spawn" /\ ops'[a].inc = n /\ ops'[a].id = id,
         a = Sup => ops'[a].at = "permit" /\ ops'[a].inc = n /\ ops'[a].cmd.id = id
  PROVE  Owned'
<1>0. SessionsOK(n) /\ Calling \subseteq Actors \ {Sup} /\ Sup \in Actors /\ Actors = Calling \cup {Sup}
  BY CallingFacts DEF Typed, Others, Calling, Actors
<1>1. \A i \in Incs : sess'[i] = IF i = n THEN t ELSE sess[i]
  BY <1>0 DEF SessionsOK
<1>2. \A c \in Calling : c # a => ops'[c] = ops[c]
  BY <1>0
<1>3. Sup # a => ops'[Sup] = ops[Sup]
  BY <1>0
<1>4. /\ \A c \in Calling : ops[c].at \in InHand => ops[c].inc \in Incs /\ ops[c].inc # n
      /\ ops[Sup].at \in SupInHand => ops[Sup].inc \in Incs /\ ops[Sup].inc # n
  BY InHandFacts DEF Given
<1>5. \A i \in Incs : sess[i].id \in Ids
  BY <1>0 DEF SessionsOK, SessionType
<1>6. NoOrphanProcess'
  <2> SUFFICES ASSUME NEW i \in Incs, sess'[i].child = "running",
                      ~\E b \in Actors : At(b, "publish")' /\ ops'[b].inc = i
               PROVE  inner'.live[sess'[i].id] = i
    BY DEF NoOrphanProcess
  <2>1. i # n /\ sess'[i] = sess[i]
    BY <1>1
  <2>2. ~\E b \in Actors : At(b, "publish") /\ ops[b].inc = i
    <3> SUFFICES ASSUME NEW b \in Actors, At(b, "publish"), ops[b].inc = i PROVE FALSE
      OBVIOUS
    <3>1. b # a
      BY DEF At
    <3> QED BY <3>1 DEF At
  <2> QED BY <1>5, <2>1, <2>2 DEF Owned, NoOrphanProcess
<1>7. Matched'
  <2>1. ASSUME NEW c \in Calling, ops'[c].at \in InHand PROVE sess'[ops'[c].inc].id = ops'[c].id
    BY <1>1, <1>2, <1>4, <2>1 DEF Owned, Matched
  <2>2. ASSUME ops'[Sup].at \in SupInHand PROVE sess'[ops'[Sup].inc].id = ops'[Sup].cmd.id
    BY <1>1, <1>3, <1>4, <2>2 DEF Owned, Matched
  <2> QED BY <2>1, <2>2 DEF Matched
<1>8. Fresh'
  <2>1. ASSUME NEW c \in Calling, ops'[c].at = "spawn" PROVE sess'[ops'[c].inc].child = "none"
    BY <1>1, <1>2, <1>4, <2>1 DEF Owned, Fresh, InHand, At
  <2>2. ASSUME ops'[Sup].at \in {"permit", "spawn"} PROVE sess'[ops'[Sup].inc].child = "none"
    BY <1>1, <1>3, <1>4, <2>2 DEF Owned, Fresh, SupInHand
  <2> QED BY <2>1, <2>2 DEF Fresh, At
<1>9. Distinct'
  <2> SUFFICES ASSUME NEW c \in Calling, ops'[c].at = "spawn", ops'[Sup].at \in {"permit", "spawn"}
               PROVE  ops'[c].inc # ops'[Sup].inc
    BY DEF Distinct, At
  <2>1. c # a => ops[c].at = "spawn" /\ ops'[c].inc = ops[c].inc /\ ops[c].inc # n
    BY <1>2, <1>4 DEF InHand
  <2>2. Sup # a => /\ ops[Sup].at \in {"permit", "spawn"} /\ ops'[Sup].inc = ops[Sup].inc
                   /\ ops[Sup].inc # n
    BY <1>3, <1>4 DEF SupInHand
  <2>3. c # Sup
    BY <1>0
  <2> QED BY <2>1, <2>2, <2>3 DEF Owned, Distinct, At
<1>10. Settled'
  <2> SUFFICES ASSUME NEW c \in Calling, ops'[c].at \in {"persist", "start"}
               PROVE  inner'.live[ops'[c].id] \in {0, ops'[c].inc}
    BY DEF Settled
  <2>1. ops'[c] = ops[c] /\ ops[c].id \in Ids
    BY <1>2, InHandFacts DEF InHand
  <2> QED BY <2>1 DEF Owned, Settled
<1> QED BY <1>6, <1>7, <1>8, <1>9, <1>10 DEF Owned

\* A child starts in the hands of the one who publishes or kills it next.
LEMMA SpawnOwned ==
  ASSUME NEW n \in Nat \ {0}, Typed(n), Owned, Exclusive, NEW a \in Actors, ops[a].at = "spawn",
         \A b \in Actors \ {a} : ops'[b] = ops[b], ops'[a] = [ops[a] EXCEPT !.at = "publish"],
         sess' = [sess EXCEPT ![ops[a].inc].child = "running"], inner' = inner
  PROVE  Owned'
<1> DEFINE inc == ops[a].inc
           t   == [sess[inc] EXCEPT !.child = "running"]
<1>0. OpsOK(n) /\ SessionsOK(n) /\ Calling \subseteq Actors \ {Sup} /\ Sup \in Actors
      /\ Actors = Calling \cup {Sup}
  BY CallingFacts DEF Typed, Others, Calling, Actors
<1>1. /\ inc \in Incs /\ ops'[a].at = "publish" /\ ops'[a].inc = inc
      /\ a \in Calling => ops'[a].id = ops[a].id
      /\ a = Sup => ops'[a].cmd = ops[a].cmd
  <2>1. CASE a \in Calling
    <3>1. ops[a] \in AtSpawn(n)
      BY <1>0, <2>1, CallAt
    <3> QED BY <1>0, <2>1, <3>1, InHandFacts DEF AtSpawn, InHand
  <2>2. CASE a = Sup
    <3>1. ops[a] \in SupTry(n)
      BY <1>0, <2>2, SupAt
    <3> QED BY <1>0, <2>2, <3>1, InHandFacts DEF SupTry, SupInHand
  <2> QED BY <1>0, <2>1, <2>2
<1>2. /\ sess' = [sess EXCEPT ![inc] = t] /\ t.id = sess[inc].id
  BY <1>0, <1>1 DEF SessionsOK, SessionType
<1> HIDE DEF inc, t
<1>3. \A i \in Incs : sess'[i] = IF i = inc THEN t ELSE sess[i]
  BY <1>0, <1>2 DEF SessionsOK
<1>4. /\ \A c \in Calling : c # a => ops'[c] = ops[c]
      /\ Sup # a => ops'[Sup] = ops[Sup]
  BY <1>0
<1>5. NoOrphanProcess'
  <2> SUFFICES ASSUME NEW i \in Incs, sess'[i].child = "running",
                      ~\E b \in Actors : At(b, "publish")' /\ ops'[b].inc = i
               PROVE  inner'.live[sess'[i].id] = i
    BY DEF NoOrphanProcess
  <2>1. i # inc /\ sess'[i] = sess[i]
    BY <1>1, <1>3 DEF At
  <2>2. ~\E b \in Actors : At(b, "publish") /\ ops[b].inc = i
    <3> SUFFICES ASSUME NEW b \in Actors, At(b, "publish"), ops[b].inc = i PROVE FALSE
      OBVIOUS
    <3>1. b # a
      BY DEF At
    <3> QED BY <3>1 DEF At
  <2> QED BY <2>1, <2>2 DEF Owned, NoOrphanProcess
<1>6. Matched'
  <2>1. ASSUME NEW c \in Calling, ops'[c].at \in InHand PROVE sess'[ops'[c].inc].id = ops'[c].id
    <3>1. ops[c].at \in InHand /\ ops'[c].inc = ops[c].inc /\ ops'[c].id = ops[c].id
      BY <1>1, <1>4, <2>1 DEF InHand, inc
    <3> QED BY <1>2, <1>3, <3>1, InHandFacts DEF Owned, Matched
  <2>2. ASSUME ops'[Sup].at \in SupInHand PROVE sess'[ops'[Sup].inc].id = ops'[Sup].cmd.id
    <3>1. ops[Sup].at \in SupInHand /\ ops'[Sup].inc = ops[Sup].inc /\ ops'[Sup].cmd = ops[Sup].cmd
      BY <1>1, <1>4, <2>2 DEF SupInHand, inc
    <3> QED BY <1>2, <1>3, <3>1, InHandFacts DEF Owned, Matched
  <2> QED BY <2>1, <2>2 DEF Matched
<1>7. Fresh'
  <2>1. ASSUME NEW c \in Calling, ops'[c].at = "spawn" PROVE sess'[ops'[c].inc].child = "none"
    <3>1. c # a /\ ops'[c] = ops[c]
      BY <1>1, <1>4, <2>1
    <3>2. a = Sup
      BY <1>0, <2>1, <3>1 DEF Exclusive, Holding, Gated
    <3>3. ops[c].inc # inc
      BY <2>1, <3>1, <3>2 DEF Owned, Distinct, At, inc
    <3>4. ops[c].at = "spawn" /\ ops[c].inc \in Incs
      BY <2>1, <3>1, InHandFacts DEF InHand
    <3>5. sess[ops[c].inc].child = "none"
      BY <3>4 DEF Owned, Fresh, At
    <3> QED BY <1>3, <3>1, <3>3, <3>4, <3>5
  <2>2. ASSUME ops'[Sup].at \in {"permit", "spawn"} PROVE sess'[ops'[Sup].inc].child = "none"
    <3>1. Sup # a /\ ops'[Sup] = ops[Sup] /\ a \in Calling
      BY <1>0, <1>1, <1>4, <2>2
    <3>2. ops[Sup].inc # inc
      BY <2>2, <3>1 DEF Owned, Distinct, At, inc
    <3> QED BY <1>3, <2>2, <3>1, <3>2, InHandFacts DEF Owned, Fresh, SupInHand
  <2> QED BY <2>1, <2>2 DEF Fresh, At
<1>8. Distinct'
  BY <1>1, <1>4 DEF Owned, Distinct, At
<1>9. Settled'
  BY <1>1, <1>4 DEF Owned, Settled
<1> QED BY <1>5, <1>6, <1>7, <1>8, <1>9 DEF Owned

\* What is published becomes the live session of its id; what it displaces does not run.
LEMMA PublishOwned ==
  ASSUME NEW n \in Nat \ {0}, Typed(n), Owned, NEW a \in Actors, ops[a].at = "publish",
         \A b \in Actors \ {a} : ops'[b] = ops[b], Children,
         NEW id \in Ids, sess[ops[a].inc].id = id,
         inner'.live[id] = ops[a].inc, \A j \in Ids \ {id} : inner'.live[j] = inner.live[j],
         inner.live[id] \in Incs => sess'[inner.live[id]].child # "running",
         \A c \in Calling \ {a} : ops[c].at \notin {"persist", "start"},
         ops'[a].at = "persist", ops'[a].inc = ops[a].inc,
         a \in Calling => ops'[a].id = ops[a].id /\ ops[a].id = id,
         a = Sup => ops'[a].cmd = ops[a].cmd
  PROVE  Owned'
<1>0. SessionsOK(n) /\ Calling \subseteq Actors \ {Sup} /\ Sup \in Actors /\ Actors = Calling \cup {Sup}
  BY CallingFacts DEF Typed, Others, Calling, Actors
<1>1. /\ \A c \in Calling : c # a => ops'[c] = ops[c]
      /\ Sup # a => ops'[Sup] = ops[Sup]
  BY <1>0
<1>2. NoOrphanProcess'
  <2> SUFFICES ASSUME NEW i \in Incs, sess'[i].child = "running",
                      ~\E b \in Actors : At(b, "publish")' /\ ops'[b].inc = i
               PROVE  inner'.live[sess'[i].id] = i
    BY DEF NoOrphanProcess
  <2>1. sess[i].child = "running" /\ sess'[i].id = sess[i].id /\ sess[i].id \in Ids
    BY <1>0 DEF Children, SessionsOK, SessionType
  <2>2. CASE i = ops[a].inc
    BY <2>1, <2>2
  <2>3. CASE i # ops[a].inc
    <3>1. ~\E b \in Actors : At(b, "publish") /\ ops[b].inc = i
      <4> SUFFICES ASSUME NEW b \in Actors, At(b, "publish"), ops[b].inc = i PROVE FALSE
        OBVIOUS
      <4>1. b # a
        BY <2>3
      <4> QED BY <4>1 DEF At
    <3>2. inner.live[sess[i].id] = i
      BY <2>1, <3>1 DEF Owned, NoOrphanProcess
    <3>3. sess[i].id # id
      BY <3>2
    <3> QED BY <2>1, <3>2, <3>3
  <2> QED BY <2>2, <2>3
<1>3. Matched'
  <2>1. ASSUME NEW c \in Calling, ops'[c].at \in InHand PROVE sess'[ops'[c].inc].id = ops'[c].id
    <3>1. ops[c].at \in InHand /\ ops'[c].inc = ops[c].inc /\ ops'[c].id = ops[c].id
      BY <1>1, <2>1 DEF InHand
    <3> QED BY <3>1, InHandFacts DEF Owned, Matched, Children
  <2>2. ASSUME ops'[Sup].at \in SupInHand PROVE sess'[ops'[Sup].inc].id = ops'[Sup].cmd.id
    <3>1. ops[Sup].at \in SupInHand /\ ops'[Sup].inc = ops[Sup].inc /\ ops'[Sup].cmd = ops[Sup].cmd
      BY <1>1, <2>2 DEF SupInHand
    <3> QED BY <3>1, InHandFacts DEF Owned, Matched, Children
  <2> QED BY <2>1, <2>2 DEF Matched
<1>4. Fresh'
  <2>1. ASSUME NEW c \in Calling, ops'[c].at = "spawn" PROVE sess'[ops'[c].inc].child = "none"
    <3>1. ops'[c] = ops[c]
      BY <1>1, <2>1
    <3> QED BY <2>1, <3>1, InHandFacts DEF Owned, Fresh, Children, InHand, At
  <2>2. ASSUME ops'[Sup].at \in {"permit", "spawn"} PROVE sess'[ops'[Sup].inc].child = "none"
    <3>1. ops'[Sup] = ops[Sup]
      BY <1>1, <2>2
    <3> QED BY <2>2, <3>1, InHandFacts DEF Owned, Fresh, Children, SupInHand
  <2> QED BY <2>1, <2>2 DEF Fresh, At
<1>5. Distinct'
  BY <1>1 DEF Owned, Distinct, At
<1>6. Settled'
  BY <1>1 DEF Settled
<1> QED BY <1>2, <1>3, <1>4, <1>5, <1>6 DEF Owned

\* A create, of a client or of a restore.
LEMMA CreateOwned ==
  ASSUME NEW n \in Nat \ {0}, Typed(n), Owned, Exclusive, NEW c \in Calling, CreateStep(c)
  PROVE  Owned'
<1>0. /\ OpsOK(n) /\ SessionsOK(n) /\ EnvOK(n) /\ inner \in InnerOf(n) /\ n \in Nat /\ inner.next = n
      /\ c \in Actors /\ c # Sup /\ Sup \notin Calling /\ Calling \subseteq Actors
  BY InnerFields, CallingFacts DEF Typed, Others, MemoryOK
<1>a. \A b \in Actors \ {c} : ops'[b] = ops[b]
  BY <1>0, CreateLeaves DEF Leaves
<1>1. CASE Mild /\ Going(c)
  BY <1>0, <1>1, <1>a, MildOwned
<1>2. CASE CreateReserve(c)
  <2> DEFINE t == NewSession(ops[c].id, ops[c].name, inner.generation, 0)
  <2>1. /\ ops[c].at = "reserve" /\ n \in Incs /\ inner' = begin_replacement(inner, ops[c].id)
        /\ sess' = [sess EXCEPT ![n] = t]
        /\ ops' = [ops EXCEPT ![c] = [at |-> "spawn", id |-> ops[c].id, inc |-> n,
                                      retry |-> ops[c].retry]]
    BY <1>0, <1>2 DEF CreateReserve, InBounds, Goto, At
  <2>2. ops[c].id \in Ids /\ ops[c].name \in NameSet /\ inner.generation \in Nat
    BY <1>0, <2>1, CallAt, InnerFields DEF AtReserve
  <2>3. t.id = ops[c].id /\ t.child = "none"
    BY <1>0, <2>1, <2>2, NewSessionType
  <2> HIDE DEF t
  <2>4. \A j \in Ids : inner'.live[j] = inner.live[j]
    BY <1>0, <2>1, <2>2, BeginFacts DEF Local, Same
  <2>5. ops'[c].at = "spawn" /\ ops'[c].inc = n /\ ops'[c].id = ops[c].id
    BY <1>0, <2>1 DEF OpsOK
  <2>6. ops[c].at # "publish" /\ n \in Incs /\ sess' = [sess EXCEPT ![n] = t]
    BY <2>1
  <2> QED BY <1>0, <1>a, <2>2, <2>3, <2>4, <2>5, <2>6, ReserveOwned
<1>3. CASE CreateSpawn(c)
  <2>1. /\ ops[c].at = "spawn" /\ sess' = [sess EXCEPT ![ops[c].inc].child = "running"]
        /\ ops'[c] = [ops[c] EXCEPT !.at = "publish"] /\ inner' = inner
    BY <1>0, <1>3 DEF CreateSpawn, At, OpsOK
  <2> QED BY <1>0, <1>a, <2>1, SpawnOwned
<1>4. CASE CreatePublish(c)
  <2> DEFINE id == ops[c].id
  <2>1. /\ ops[c].at = "publish" /\ sess' = Terminate(sess, inner.live[id])
        /\ inner' = [inner EXCEPT !.dead[id] = NoTomb, !.killed = @ \ {id}, !.live[id] = ops[c].inc]
        /\ ops'[c] = [ops[c] EXCEPT !.at = "persist"]
    BY <1>0, <1>4 DEF CreatePublish, At, OpsOK
  <2>2. ops[c].inc \in Incs /\ id \in Ids /\ sess[ops[c].inc].id = id
    BY <2>1, InHandFacts DEF InHand, Owned, Matched
  <2>3. ops'[c].at = "persist" /\ ops'[c].inc = ops[c].inc /\ ops'[c].id = id
    <3>1. ops[c] \in AtSpawn(n)
      BY <1>0, <2>1, CallAt
    <3> QED BY <2>1, <3>1 DEF AtSpawn
  <2>4. Children /\ (inner.live[id] \in Incs => sess'[inner.live[id]].child # "running")
    BY <1>0, <2>1, KillsChildren
  <2>5. inner'.live[id] = ops[c].inc /\ \A j \in Ids \ {id} : inner'.live[j] = inner.live[j]
    BY <1>0, <2>1, <2>2, InnerFields DEF InnerOf
  <2>6. \A b \in Calling \ {c} : ops[b].at \notin {"persist", "start"}
    BY <1>0, <2>1 DEF Exclusive, Holding, Gated
  <2> HIDE DEF id
  <2> QED BY <1>0, <1>a, <2>1, <2>2, <2>3, <2>4, <2>5, <2>6, PublishOwned DEF id
<1> QED BY <1>1, <1>2, <1>3, <1>4, CreateMild

\* A step of the supervisor.
LEMMA SupOwned ==
  ASSUME NEW n \in Nat \ {0}, Typed(n), Owned, Exclusive, SupStep
  PROVE  Owned'
<1>0. /\ OpsOK(n) /\ SessionsOK(n) /\ EnvOK(n) /\ inner \in InnerOf(n) /\ n \in Nat /\ inner.next = n
      /\ Sup \in Actors /\ Sup \notin Calling /\ Calling \subseteq Actors
  BY InnerFields, CallingFacts DEF Typed, Others, MemoryOK
<1>a. \A b \in Actors \ {Sup} : ops'[b] = ops[b]
  BY <1>0, SupLeaves DEF Leaves, Typed, Others
<1>1. CASE Mild /\ SupGoing
  BY <1>0, <1>1, <1>a, MildOwned
<1>2. CASE SupReserves
  <2> DEFINE cmd == ops[Sup].cmd
             t   == NewSession(cmd.id, sess[cmd.inc].name, cmd.gen, cmd.count + 1)
  <2>1. ops[Sup].at = "reserve" /\ n \in Incs
    BY <1>0, <1>2 DEF SupReserves, SupReserve, InBounds, At
  <2>2. /\ inner' = begin_replacement(inner, cmd.id) /\ sess' = [sess EXCEPT ![n] = t]
        /\ ops' = [ops EXCEPT ![Sup] = [at |-> "permit", cmd |-> cmd, inc |-> n,
                                        retry |-> inner.dead[cmd.id].unavail]]
    <3>1. ops'[Sup].at # "failed"
      BY <1>2 DEF SupReserves
    <3> QED BY <1>0, <1>2, <3>1 DEF SupReserves, SupReserve, SupFailed, Goto, OpsOK
  <2>3. cmd.id \in Ids /\ cmd.inc \in Given(n) /\ cmd.gen \in Nat /\ cmd.count + 1 \in Nat
    BY <1>0, <2>1, SupCmd
  <2>4. sess[cmd.inc].name \in NameSet
    <3>1. cmd.inc \in Incs
      BY <2>3, GivenInBounds DEF Typed, MemoryOK
    <3> QED BY <1>0, <3>1 DEF SessionsOK, SessionType
  <2> HIDE DEF cmd
  <2>5. t.id = cmd.id /\ t.child = "none"
    BY <1>0, <2>1, <2>3, <2>4, NewSessionType
  <2> HIDE DEF t
  <2>6. \A j \in Ids : inner'.live[j] = inner.live[j]
    BY <1>0, <2>2, <2>3, BeginFacts DEF Local, Same
  <2>7. ops'[Sup].at = "permit" /\ ops'[Sup].inc = n /\ ops'[Sup].cmd.id = cmd.id
    BY <1>0, <2>2 DEF OpsOK
  <2> QED BY <1>0, <1>a, <2>1, <2>2, <2>3, <2>5, <2>6, <2>7, ReserveOwned
<1>3. CASE SupSpawn
  <2>1. /\ ops[Sup].at = "spawn" /\ sess' = [sess EXCEPT ![ops[Sup].inc].child = "running"]
        /\ ops'[Sup] = [ops[Sup] EXCEPT !.at = "publish"] /\ inner' = inner
    BY <1>0, <1>3 DEF SupSpawn, At, OpsOK
  <2> QED BY <1>0, <1>a, <2>1, SpawnOwned
<1>4. CASE SupPublish
  <2> DEFINE id  == ops[Sup].cmd.id
             inc == ops[Sup].inc
             t   == [sess[inc] EXCEPT !.name = sess[ops[Sup].cmd.inc].name]
  <2>1. /\ ops[Sup].at = "publish" /\ gate = NoOne /\ sess' = [sess EXCEPT ![inc] = t]
        /\ inner' = [inner EXCEPT !.killed = @ \ {id}, !.dead[id] = NoTomb, !.live[id] = inc]
        /\ ops'[Sup] = [ops[Sup] EXCEPT !.at = "persist"] /\ inner.live[id] = 0
    BY <1>0, <1>4 DEF SupPublish, At, OpsOK, respawn_replacement_is_current, respawn_source_is_current
  <2>2. inc \in Incs /\ id \in Ids /\ sess[inc].id = id
    BY <2>1, InHandFacts DEF SupInHand, Owned, Matched
  <2>3. ops'[Sup].at = "persist" /\ ops'[Sup].inc = inc /\ ops'[Sup].cmd = ops[Sup].cmd
    <3>1. ops[Sup] \in SupTry(n)
      BY <1>0, <2>1, SupAt
    <3> QED BY <2>1, <3>1 DEF SupTry
  <2>4. t.id = sess[inc].id /\ t.child = sess[inc].child
    BY <1>0, <2>2, ChildKept
  <2>5. inner'.live[id] = inc /\ \A j \in Ids \ {id} : inner'.live[j] = inner.live[j]
    BY <1>0, <2>1, <2>2, InnerFields DEF InnerOf
  <2>6. \A b \in Calling : ops[b].at \notin {"persist", "start"}
    <3>1. NoOne \notin Actors
      BY ActorsAssumption DEF Actors
    <3> QED BY <1>0, <2>1, <3>1 DEF Exclusive, Holding, Gated
  <2>7. 0 \notin Incs
    BY DEF Incs
  <2> HIDE DEF id, inc, t
  <2>8. Children
    BY <1>0, <2>1, <2>4, ChildrenField
  <2> QED BY <1>0, <1>a, <2>1, <2>2, <2>3, <2>5, <2>6, <2>7, <2>8, PublishOwned DEF inc
<1> QED BY <1>1, <1>2, <1>3, <1>4, SupMild

-----------------------------------------------------------------------------
(* The start: what restore_sessions has not brought back yet is untouched. *)

SaveKinds == {"SessionCreated", "SessionTargetUnavailableUpsert"}

\* Where the main task is before its session is live, and before its reader runs.
Before == {"target", "permit", "evict", "reserve", "spawn", "publish", "send", "recheck"}
Until  == Before \cup {"persist", "start"}

\* The session a caller's operation is about; the one the supervisor's is about, if any.
About(op) == IF op.at = "send" THEN op.next.id ELSE op.id
Concerns(op) == IF op.at = "idle" THEN {}
                ELSE IF op.at # "send" THEN {op.cmd.id}
                ELSE IF op.next.at = "failed" THEN {op.next.cmd.id} ELSE {}

\* No command of an operation brings a row back.
Marking(op) == op.at = "send" => \A k \in 1..Len(op.cmds) : op.cmds[k].kind \notin SaveKinds

\* The sessions restore_sessions has yet to visit, and the one it is at.
Unvisited == IF ops[Main].at = "load" THEN Ids ELSE restoring.left
Turn(pcs) == IF ops[Main].at \in pcs THEN {About(ops[Main])} ELSE {}
Unborn == Unvisited \cup Turn(Before)
Unread == Unvisited \cup Turn(Until)

\* Until the server serves no session that is still to be restored is live, being read,
\* about to be restarted, or saved, and a respawn's incarnation is none of theirs.
NoneLive   == \A id \in Ids : id \in Unborn => inner.live[id] = 0
NoneRead   == \A i \in Incs : sess[i].reader \in {"run", "exit"} => sess[i].id \notin Unread
NoneQueued == \A k \in 1..Len(respawnQ) : respawnQ[k].id \notin Unread
NoneSaved  == \A k \in 1..Len(chan) : chan[k].kind \in SaveKinds => chan[k].id \notin Unvisited
SupAway    == Concerns(ops[Sup]) \cap Unread = {}
SupNew     == ops[Sup].at \in SupInHand =>
                /\ ops[Sup].inc # restoring.inc
                /\ \A id \in Unvisited : ops[Sup].inc # db[id].inc
OnlyMarks  == Marking(ops[Main]) /\ Marking(ops[Sup])

Clean == phase = "boot" =>
  NoneLive /\ NoneRead /\ NoneQueued /\ NoneSaved /\ SupAway /\ SupNew /\ OnlyMarks

\* A step reads, queues and saves nothing but what was read, queued and saved, or is of ids.
Narrows      == Unvisited' \subseteq Unvisited /\ Unread' \subseteq Unread
Reads(ids)   == \A i \in Incs : sess'[i].reader \in {"run", "exit"} =>
                  \/ sess'[i].id \in ids
                  \/ sess[i].reader \in {"run", "exit"} /\ sess'[i].id = sess[i].id
Queues(ids)  == \A k \in 1..Len(respawnQ') :
                  \/ respawnQ'[k].id \in ids
                  \/ \E j \in 1..Len(respawnQ) : respawnQ'[k] = respawnQ[j]
Saves(ids)   == \A k \in 1..Len(chan') : chan'[k].kind \in SaveKinds =>
                  \/ chan'[k].id \in ids
                  \/ \E j \in 1..Len(chan) : chan'[k] = chan[j]
Keeps(ids)   == Reads(ids) /\ Queues(ids) /\ Saves(ids)

\* Then nothing unvisited is read, queued or saved if ids were visited.
LEMMA KeepsClean ==
  ASSUME NoneRead, NoneQueued, NoneSaved, Narrows, NEW ids, ids \cap Unread' = {}, Keeps(ids)
  PROVE  NoneRead' /\ NoneQueued' /\ NoneSaved'
<1>1. Unvisited' \subseteq Unread'
  BY DEF Unread
<1>2. NoneRead'
  BY DEF Keeps, Reads, NoneRead, Narrows
<1>3. NoneQueued'
  BY DEF Keeps, Queues, NoneQueued, Narrows
<1>4. NoneSaved'
  BY <1>1 DEF Keeps, Saves, NoneSaved, Narrows
<1> QED BY <1>2, <1>3, <1>4

\* What is not touched is kept, whatever ids are.
LEMMA KeepsSame ==
  ASSUME NEW ids
  PROVE  /\ sess' = sess => Reads(ids)
         /\ respawnQ' = respawnQ => Queues(ids)
         /\ chan' = chan => Saves(ids)
BY DEF Reads, Queues, Saves

\* One command goes to the channel, or the worker takes one.
LEMMA ChanSaves ==
  ASSUME NEW n, ChanOK(n), NEW ids
  PROVE  /\ \A cmd : (Send(cmd) \/ TrySend(cmd)) /\ (cmd.kind \in SaveKinds => cmd.id \in ids)
              => Saves(ids)
         /\ chan # <<>> /\ chan' = Tail(chan) => Saves(ids)
<1>0. chan \in Seq(CmdOf(n))
  BY DEF ChanOK
<1>1. ASSUME NEW cmd, Send(cmd) \/ TrySend(cmd), cmd.kind \in SaveKinds => cmd.id \in ids
      PROVE  Saves(ids)
  <2>1. chan' = chan \/ chan' = Append(chan, cmd)
    BY <1>1 DEF Send, TrySend
  <2>2. \A k \in 1..Len(Append(chan, cmd)) :
          Append(chan, cmd)[k] = cmd \/ (k \in 1..Len(chan) /\ Append(chan, cmd)[k] = chan[k])
    BY <1>0
  <2> QED BY <1>1, <2>1, <2>2 DEF Saves
<1>2. ASSUME chan # <<>>, chan' = Tail(chan) PROVE Saves(ids)
  <2>1. \A k \in 1..Len(Tail(chan)) : Tail(chan)[k] = chan[k + 1] /\ k + 1 \in 1..Len(chan)
    BY <1>0, <1>2
  <2> QED BY <1>2, <2>1 DEF Saves
<1> QED BY <1>1, <1>2

\* The same for the respawn queue.
LEMMA QueueQueues ==
  ASSUME NEW n, QueueOK(n), NEW ids
  PROVE  /\ \A cmd : respawnQ' = Append(respawnQ, cmd) /\ cmd.id \in ids => Queues(ids)
         /\ respawnQ # <<>> /\ respawnQ' = Tail(respawnQ) => Queues(ids)
<1>0. respawnQ \in Seq(RespawnOf(n))
  BY DEF QueueOK
<1>1. ASSUME NEW cmd, respawnQ' = Append(respawnQ, cmd), cmd.id \in ids PROVE Queues(ids)
  <2>1. \A k \in 1..Len(Append(respawnQ, cmd)) :
          \/ Append(respawnQ, cmd)[k] = cmd
          \/ k \in 1..Len(respawnQ) /\ Append(respawnQ, cmd)[k] = respawnQ[k]
    BY <1>0
  <2> QED BY <1>1, <2>1 DEF Queues
<1>2. ASSUME respawnQ # <<>>, respawnQ' = Tail(respawnQ) PROVE Queues(ids)
  <2>1. \A k \in 1..Len(Tail(respawnQ)) : Tail(respawnQ)[k] = respawnQ[k + 1]
                                          /\ k + 1 \in 1..Len(respawnQ)
    BY <1>0, <1>2
  <2> QED BY <1>2, <2>1 DEF Queues
<1> QED BY <1>1, <1>2

\* One session is changed, but for its id and its reader.
LEMMA ReadsField ==
  ASSUME NEW n, SessionsOK(n), NEW ids, NEW i, NEW t, sess' = [sess EXCEPT ![i] = t],
         i \in Incs => \/ t.reader \notin {"run", "exit"}
                       \/ t.id \in ids
                       \/ t.id = sess[i].id /\ sess[i].reader \in {"run", "exit"}
  PROVE  Reads(ids)
<1>1. \A j \in Incs : sess'[j] = IF j = i THEN t ELSE sess[j]
  BY DEF SessionsOK
<1> QED BY <1>1 DEF Reads

\* Children are killed, and no reader starts.
LEMMA ReadsKill ==
  ASSUME NEW n, SessionsOK(n), NEW ids, \E i : sess' = Terminate(sess, i)
  PROVE  Reads(ids)
BY TerminateType DEF Reads

\* What is left to visit are sessions of the instance.
LEMMA UnvisitedIds ==
  ASSUME NEW n, EnvOK(n)
  PROVE  Unvisited \subseteq Ids
BY DEF EnvOK, Unvisited

-----------------------------------------------------------------------------
(* Readers and the worker.                                                 *)

\* A reader reads, queues and reports its own session only.
LEMMA ReaderKeeps ==
  ASSUME NEW n \in Nat \ {0}, Typed(n), NEW i \in Incs,
         ReaderOutput(i) \/ ReaderExit(i) \/ ReaderStep(i)
  PROVE  /\ sess[i].reader \in {"run", "exit"}
         /\ Reads({sess[i].id}) /\ Queues({sess[i].id}) /\ Saves({sess[i].id})
<1>0. SessionsOK(n) /\ ChanOK(n) /\ QueueOK(n) /\ sess \in [Incs -> SessionType]
  BY DEF Typed, Others, SessionsOK
<1>1. Reads({sess[i].id})
  <2>1. Children
    BY ReaderMild DEF Mild
  <2>2. \A j \in Incs \ {i} : sess'[j] = sess[j]
    BY <1>0 DEF ReaderOutput, ReaderExit, OwnerExit, StaleExit, RemovedExit, ReaderStep, ReaderLock,
            ReaderSnapshot, ReaderExited, ReaderRespawn, ReaderEvent, Advance
  <2> QED BY <2>1, <2>2 DEF Reads, Children
<1>2. sess[i].reader \in {"run", "exit"}
  BY DEF ReaderOutput, ReaderExit, ReaderStep, ReaderLock, ReaderSnapshot, ReaderExited,
         ReaderRespawn, ReaderEvent, ReaderAt
<1>3. Queues({sess[i].id})
  <2>1. CASE respawnQ' = respawnQ
    BY <2>1, KeepsSame
  <2>2. CASE ReaderRespawn(i)
    <3> DEFINE cmd == [id |-> sess[i].id, inc |-> i, gen |-> sess[i].gen, count |-> sess[i].count]
    <3>1. respawnQ' = respawnQ \/ respawnQ' = Append(respawnQ, cmd)
      BY <2>2 DEF ReaderRespawn
    <3>2. cmd.id \in {sess[i].id}
      OBVIOUS
    <3> HIDE DEF cmd
    <3> QED BY <1>0, <3>1, <3>2, KeepsSame, QueueQueues
  <2> QED BY <2>1, <2>2 DEF ReaderOutput, ReaderExit, ReaderStep, ReaderLock, ReaderSnapshot,
                            ReaderExited, ReaderEvent
<1>4. Saves({sess[i].id})
  <2>1. CASE chan' = chan
    BY <2>1, KeepsSame
  <2>2. ASSUME NEW cmd, Send(cmd) \/ TrySend(cmd), cmd.kind \in {"BufferUpdate", "SessionExited"}
        PROVE  Saves({sess[i].id})
    BY <1>0, <2>2, ChanSaves DEF SaveKinds
  <2>3. CASE ReaderOutput(i) \/ ReaderSnapshot(i)
    BY <2>1, <2>2, <2>3 DEF ReaderOutput, ReaderSnapshot, BufferUpdate
  <2>4. CASE ReaderExited(i)
    BY <2>2, <2>4 DEF ReaderExited, SessionExited
  <2> QED BY <2>1, <2>3, <2>4 DEF ReaderExit, ReaderStep, ReaderLock, ReaderRespawn, ReaderEvent,
                                  persistVars
<1> QED BY <1>1, <1>2, <1>3, <1>4

\* So it leaves the start clean.
LEMMA ReaderClean ==
  ASSUME NEW n \in Nat \ {0}, Typed(n), Clean, NEW i \in Incs,
         ReaderOutput(i) \/ ReaderExit(i) \/ ReaderStep(i)
  PROVE  Clean'
<1> SUFFICES ASSUME phase' = "boot" PROVE Clean'
  BY DEF Clean
<1>1. ops' = ops /\ phase' = phase /\ restoring' = restoring /\ db' = db
  BY ReaderLeaves DEF Typed, Others
<1>2. NoneLive /\ NoneRead /\ NoneQueued /\ NoneSaved /\ SupAway /\ SupNew /\ OnlyMarks
  BY <1>1 DEF Clean
<1>3. Unvisited' = Unvisited /\ Unread' = Unread /\ Unborn' = Unborn
  BY <1>1 DEF Unvisited, Unread, Unborn, Turn
<1>4. NoneRead' /\ NoneQueued' /\ NoneSaved'
  <2>1. /\ sess[i].reader \in {"run", "exit"}
        /\ Reads({sess[i].id}) /\ Queues({sess[i].id}) /\ Saves({sess[i].id})
    BY ReaderKeeps
  <2>2. {sess[i].id} \cap Unread' = {}
    BY <1>2, <1>3, <2>1 DEF NoneRead
  <2>3. Narrows /\ Keeps({sess[i].id})
    BY <1>3, <2>1 DEF Narrows, Keeps
  <2> QED BY <1>2, <2>2, <2>3, KeepsClean
<1>5. NoneLive'
  <2>1. Lives
    BY ReaderMild DEF Mild
  <2> QED BY <1>2, <1>3, <2>1 DEF NoneLive, Lives
<1>6. SupAway' /\ SupNew' /\ OnlyMarks'
  BY <1>1, <1>2, <1>3 DEF SupAway, SupNew, OnlyMarks
<1> QED BY <1>4, <1>5, <1>6 DEF Clean

\* A write that keeps the incarnation of the row it is for.
LEMMA CommitRows ==
  ASSUME NEW n, DbOK(n), NEW id \in Ids, NEW e, SameRow(db[id], e, n), NEW kind,
         Commit(kind, id, e) \/ db' = [db EXCEPT ![id] = e] \/ db' = db
  PROVE  \A j \in Ids : db'[j].inc = db[j].inc
BY DEF Commit, DbOK, SameRow

\* The worker moves no row of an unvisited session to another incarnation.
LEMMA WorkRows ==
  ASSUME NEW n \in Nat \ {0}, ChanOK(n), WorkOK(n), DbOK(n), NoRemoval, NoneSaved, WorkerStep
  PROVE  \A j \in Ids : j \in Unvisited => db'[j].inc = db[j].inc
<1> DEFINE cmd == Head(chan)
<1>0. /\ NoName \in NameSet /\ chan \in Seq(CmdOf(n)) /\ \A j \in Ids : db[j] \in EntryOf(n)
      /\ \A j \in Ids : SameRow(db[j], db[j], n)
  BY DEF NameSet, ChanOK, DbOK, SameRow
<1>1. CASE db' = db
  BY <1>1
<1>2. CASE HandleSessionCreated \/ HandleSessionTargetUnavailableUpsert
  <2>1. PICK kind \in SaveKinds, un \in BOOLEAN :
          /\ Receive(kind)
          /\ Commit(cmd.kind, cmd.id, save_session(db[cmd.id], cmd.inc, cmd.name, un))
    BY <1>2 DEF HandleSessionCreated, HandleSessionTargetUnavailableUpsert, SaveKinds
  <2>2. chan # <<>> /\ cmd.kind \in SaveKinds
    BY <2>1 DEF Receive
  <2>3. cmd.id \notin Unvisited
    <3>1. 1 \in 1..Len(chan) /\ cmd = chan[1]
      BY <1>0, <2>2
    <3> QED BY <2>2, <3>1 DEF NoneSaved
  <2>4. \A j \in Ids : j # cmd.id => db'[j] = db[j]
    BY <2>1 DEF Commit, DbOK
  <2> QED BY <2>3, <2>4
<1>3. CASE HandleSessionDead \/ HandleSessionTargetUnavailable
  <2>1. PICK kind \in {"SessionDead", "SessionTargetUnavailable"} :
      /\ Receive(kind)
      /\ \/ Commit(cmd.kind, cmd.id, mark_session_dead(db[cmd.id], cmd.inc))
         \/ Commit(cmd.kind, cmd.id, mark_session_target_unavailable(db[cmd.id], cmd.inc))
    BY <1>3 DEF HandleSessionDead, HandleSessionTargetUnavailable
  <2>2. cmd.id \in Ids
    BY <2>1, ReceiveFacts
  <2> HIDE DEF cmd
  <2>3. /\ SameRow(db[cmd.id], mark_session_dead(db[cmd.id], cmd.inc), n)
        /\ SameRow(db[cmd.id], mark_session_target_unavailable(db[cmd.id], cmd.inc), n)
    BY <1>0, <2>2, MarksSameRow
  <2> QED BY <2>1, <2>2, <2>3, CommitRows
<1>4. CASE MarkExited
  <2>1. worker.id \in Ids
        /\ Commit("SessionExited", worker.id, mark_session_dead(db[worker.id], worker.inc))
    BY <1>4 DEF MarkExited, WorkOK, WorkerOf
  <2>2. SameRow(db[worker.id], mark_session_dead(db[worker.id], worker.inc), n)
    BY <1>0, <2>1, MarksSameRow
  <2> QED BY <2>1, <2>2, CommitRows
<1>5. CASE HandleSessionExited \/ FlushOne
  <2>1. CASE db' = db
    BY <2>1
  <2>2. ASSUME NEW id \in Ids, NEW b \in batch,
               Commit("BufferUpdate", id, save_buffer(db[id], b.inc, b.total))
        PROVE  \A j \in Ids : db'[j].inc = db[j].inc
    <3>1. b.inc \in Given(n) /\ b.total \in 0..Fuel
      BY DEF WorkOK, SnapEntry
    <3>2. SameRow(db[id], save_buffer(db[id], b.inc, b.total), n)
      BY <1>0, <3>1, SaveBufferSameRow
    <3> QED BY <2>2, <3>2, CommitRows
  <2>3. CASE HandleSessionExited
    <3>1. /\ Receive("SessionExited")
          /\ db' = db \/ \E b \in batch : Commit("BufferUpdate", cmd.id, save_buffer(db[cmd.id], b.inc, b.total))
      BY <2>3 DEF HandleSessionExited
    <3>2. cmd.id \in Ids
      BY <3>1, ReceiveFacts
    <3> HIDE DEF cmd
    <3> QED BY <2>1, <2>2, <3>1, <3>2
  <2>4. CASE FlushOne
    <3>1. \E b \in batch : Commit("BufferUpdate", b.id, save_buffer(db[b.id], b.inc, b.total))
      BY <2>4 DEF FlushOne
    <3>2. \A b \in batch : b.id \in Ids
      BY DEF WorkOK, SnapEntry
    <3> QED BY <2>2, <3>1, <3>2
  <2> QED BY <1>5, <2>3, <2>4
<1>6. CASE HandleSessionRenamed
  <2>1. /\ Receive("SessionRenamed")
        /\ db' = [db EXCEPT ![cmd.id] = rename_session(db[cmd.id], cmd.inc, cmd.name)] \/ db' = db
    BY <1>6 DEF HandleSessionRenamed
  <2>2. cmd.id \in Ids /\ cmd.name \in NameSet
    BY <2>1, ReceiveFacts
  <2> HIDE DEF cmd
  <2>3. SameRow(db[cmd.id], rename_session(db[cmd.id], cmd.inc, cmd.name), n)
    BY <1>0, <2>2, MarksSameRow
  <2> QED BY <2>1, <2>2, <2>3, CommitRows
<1>7. CASE HandleSessionRemoved
  <2>1. chan # <<>> /\ cmd.kind = "SessionRemoved"
    BY <1>7 DEF HandleSessionRemoved, Receive
  <2>2. 1 \in 1..Len(chan) /\ cmd = chan[1]
    BY <1>0, <2>1
  <2> QED BY <2>1, <2>2 DEF NoRemoval
<1>8. CASE HandleBufferUpdate \/ HandleShutdown \/ FlushTimer \/ FlushDone
  BY <1>1, <1>8 DEF HandleBufferUpdate, HandleShutdown, FlushTimer, FlushDone
<1> QED BY <1>1, <1>2, <1>3, <1>4, <1>5, <1>6, <1>7, <1>8 DEF WorkerStep

\* The worker takes a command and rewrites rows; no row of an unvisited session moves.
LEMMA WorkClean ==
  ASSUME NEW n \in Nat \ {0}, Typed(n), Booting, Clean, Work
  PROVE  Clean'
<1> SUFFICES ASSUME phase' = "boot" PROVE Clean'
  BY DEF Clean
<1>0. /\ WorkerStep /\ ops' = ops /\ phase' = phase /\ restoring' = restoring /\ inner' = inner
      /\ sess' = sess /\ respawnQ' = respawnQ /\ ChanOK(n) /\ WorkOK(n) /\ DbOK(n) /\ n \in Nat
  BY DEF Work, env, Typed, Others
<1>1. NoneLive /\ NoneRead /\ NoneQueued /\ NoneSaved /\ SupAway /\ SupNew /\ OnlyMarks
  BY <1>0 DEF Clean
<1>2. Unvisited' = Unvisited /\ Unread' = Unread /\ Unborn' = Unborn
  BY <1>0 DEF Unvisited, Unread, Unborn, Turn
<1>3. NoneRead' /\ NoneQueued' /\ NoneSaved'
  <2>1. chan' = chan \/ (chan # <<>> /\ chan' = Tail(chan))
    BY <1>0 DEF WorkerStep, Receive, HandleBufferUpdate, HandleSessionCreated, HandleSessionExited,
         MarkExited, HandleSessionDead, HandleSessionTargetUnavailable,
         HandleSessionTargetUnavailableUpsert, HandleSessionRenamed, HandleSessionRemoved,
         HandleShutdown, FlushTimer, FlushOne, FlushDone
  <2>2. Keeps({}) /\ Narrows
    BY <1>0, <1>2, <2>1, KeepsSame, ChanSaves DEF Keeps, Narrows
  <2> QED BY <1>1, <2>2, KeepsClean
<1>4. \A id \in Ids : id \in Unvisited => db'[id].inc = db[id].inc
  <2>1. phase = "boot"
    BY <1>0
  <2>2. NoRemoval
    BY <2>1 DEF Booting, Alone
  <2> QED BY <1>0, <1>1, <2>2, WorkRows
<1>5. SupNew'
  <2> SUFFICES ASSUME ops[Sup].at \in SupInHand, NEW id \in Unvisited PROVE ops[Sup].inc # db'[id].inc
    BY <1>0, <1>1, <1>2 DEF SupNew
  <2>1. id \in Ids
    BY UnvisitedIds DEF Typed, Others
  <2> QED BY <1>1, <1>4, <2>1 DEF SupNew
<1>6. NoneLive' /\ SupAway' /\ OnlyMarks'
  BY <1>0, <1>1, <1>2 DEF NoneLive, SupAway, OnlyMarks
<1> QED BY <1>1, <1>3, <1>5, <1>6 DEF Clean

-----------------------------------------------------------------------------
(* The supervisor.                                                         *)

\* Marks bring no row back.
LEMMA MarksMark ==
  ASSUME NEW n, NEW id, NEW cmds \in Seq(MarksOf(n, id)), NEW next, NEW keep
  PROVE  Marking(Sending(cmds, next, keep))
<1>1. \A k \in 1..Len(cmds) : cmds[k] \in MarksOf(n, id)
  OBVIOUS
<1>2. \A cmd \in MarksOf(n, id) : cmd.kind \notin SaveKinds
  BY DEF MarksOf, FailureKinds, SaveKinds
<1> QED BY <1>1, <1>2 DEF Marking, Sending

\* An operation that sends its commands one by one.
LEMMA NextMarks ==
  ASSUME NEW n, NEW op, op.cmds \in Seq(FailOf(n)), op.cmds # <<>>, op.at = "send", Marking(op)
  PROVE  /\ Head(op.cmds).kind \notin SaveKinds
         /\ \A new : new.at = "send" /\ new.cmds = Tail(op.cmds) => Marking(new)
<1>1. 1 \in 1..Len(op.cmds) /\ Head(op.cmds) = op.cmds[1]
  OBVIOUS
<1>2. \A k \in 1..Len(Tail(op.cmds)) : Tail(op.cmds)[k] = op.cmds[k + 1]
                                       /\ k + 1 \in 1..Len(op.cmds)
  OBVIOUS
<1> QED BY <1>1, <1>2 DEF Marking

\* What a step of the supervisor is about, reads, queues and saves.
SupMoved == /\ \/ Concerns(ops'[Sup]) \subseteq Concerns(ops[Sup])
               \/ respawnQ # <<>> /\ Concerns(ops'[Sup]) = {Head(respawnQ).id}
            /\ Marking(ops'[Sup])
            /\ Reads(Concerns(ops[Sup])) /\ Queues({}) /\ Saves(Concerns(ops[Sup]))

\* The supervisor takes a request from the queue, and stays with its session.
LEMMA SupMoves ==
  ASSUME NEW n \in Nat \ {0}, Typed(n), Owned, OnlyMarks, SupStep
  PROVE  SupMoved
<1> DEFINE op  == ops[Sup]
           ids == Concerns(op)
<1>0. /\ OpsOK(n) /\ SessionsOK(n) /\ ChanOK(n) /\ QueueOK(n) /\ inner \in InnerOf(n) /\ Sup \in Actors
      /\ EnvOK(n) /\ n \in Nat /\ inner.next = n
  BY InnerFields, CallingFacts DEF Typed, Others, MemoryOK
<1>a. /\ sess' = sess => Reads(ids)
      /\ respawnQ' = respawnQ => Queues({})
      /\ chan' = chan => Saves(ids)
  BY KeepsSame
<1>b. \A new : new.at \in {"idle"} \cup SupInHand \cup {"backoff", "reserve", "failed"} => Marking(new)
  BY DEF Marking, SupInHand
<1>c. op.at \in SupInHand => op \in SupTry(n)
  BY <1>0, SupAt DEF SupInHand
<1> HIDE DEF ids
<1> USE <1>0 DEF OpsOK, Goto, Return, At, Idle
<1>1. CASE SupRecv
  <2>1. /\ respawnQ # <<>> /\ ops'[Sup] = [at |-> "backoff", cmd |-> Head(respawnQ)]
        /\ respawnQ' = Tail(respawnQ) /\ sess' = sess /\ chan' = chan
    BY <1>1 DEF SupRecv, persistVars
  <2>2. Queues({})
    BY <2>1, QueueQueues
  <2> QED BY <1>a, <1>b, <2>1, <2>2 DEF SupMoved, Concerns, ids
<1>2. CASE SupCheck \/ SupInvalid
  <2>1. /\ op.at \in {"backoff", "reserve"} /\ sess' = sess /\ chan' = chan /\ respawnQ' = respawnQ
        /\ ops'[Sup].at = "idle" \/ (ops'[Sup].at \in {"reserve", "failed"} /\ ops'[Sup].cmd = op.cmd)
    BY <1>2 DEF SupCheck, SupInvalid, SupFailed, persistVars
  <2> QED BY <1>a, <1>b, <2>1 DEF SupMoved, Concerns, ids
<1>3. CASE SupReserve
  <2> DEFINE t == NewSession(op.cmd.id, sess[op.cmd.inc].name, op.cmd.gen, op.cmd.count + 1)
  <2>1. /\ op.at = "reserve" /\ chan' = chan /\ respawnQ' = respawnQ
        /\ ops'[Sup].at \in {"permit", "failed"} /\ ops'[Sup].cmd = op.cmd
        /\ sess' = sess \/ sess' = [sess EXCEPT ![inner.next] = t]
    BY <1>3 DEF SupReserve, SupFailed, persistVars
  <2>2. t.reader = "none"
    BY DEF NewSession, NoSession
  <2> HIDE DEF t
  <2>3. Reads(ids)
    BY <1>a, <2>1, <2>2, ReadsField
  <2> QED BY <1>a, <1>b, <2>1, <2>3 DEF SupMoved, Concerns, ids, SupInHand
<1>4. CASE SupPermit \/ SupSpawn \/ SupPublish
  <2>1. /\ op.at \in {"permit", "spawn", "publish"} /\ chan' = chan /\ respawnQ' = respawnQ
        /\ \/ ops'[Sup].at = "idle"
           \/ \E pc \in SupInHand : ops'[Sup] = [op EXCEPT !.at = pc]
    BY <1>4 DEF SupPermit, SupSpawn, SupPublish, persistVars, SupInHand
  <2>2. ops'[Sup].at = "idle" \/ (ops'[Sup].at \in SupInHand /\ ops'[Sup].cmd = op.cmd)
    BY <1>c, <2>1 DEF SupTry, SupInHand
  <2>3. Reads(ids)
    <3>1. CASE SupPermit
      BY <1>a, <3>1 DEF SupPermit
    <3> DEFINE t == [sess[op.inc] EXCEPT !.child = "running"]
               u == [sess[op.inc] EXCEPT !.name = sess[op.cmd.inc].name]
    <3>2. /\ SupSpawn => sess' = [sess EXCEPT ![op.inc] = t]
          /\ SupPublish => sess' = [sess EXCEPT ![op.inc] = u]
      BY DEF SupSpawn, SupPublish
    <3>3. op.inc \in Incs => /\ t.reader = sess[op.inc].reader /\ t.id = sess[op.inc].id
                             /\ u.reader = sess[op.inc].reader /\ u.id = sess[op.inc].id
      BY DEF SessionsOK, SessionType
    <3> HIDE DEF t, u
    <3>4. SupSpawn => Reads(ids)
      BY <3>2, <3>3, ReadsField
    <3>5. SupPublish => Reads(ids)
      BY <3>2, <3>3, ReadsField
    <3> QED BY <1>4, <3>1, <3>4, <3>5
  <2> QED BY <1>a, <1>b, <2>1, <2>2, <2>3 DEF SupMoved, Concerns, ids, SupInHand
<1>5. CASE SupSpawnFails \/ SupStartFails
  <2> DEFINE r == RespawnFailed
             new == Sending(r.cmds, SupFailed(op.cmd, FALSE), FALSE)
  <2>1. /\ op.at \in {"spawn", "start"} /\ chan' = chan /\ respawnQ' = respawnQ /\ ops'[Sup] = new
        /\ sess' = sess \/ sess' = Terminate(sess, op.inc)
    BY <1>5 DEF SupSpawnFails, SupStartFails, persistVars
  <2>2. op.cmd.id \in Ids /\ op.inc \in Given(n) /\ op.retry \in BOOLEAN
    BY <1>c, <2>1, SupCmd DEF SupTry, SupInHand
  <2>3. r.cmds \in Seq(MarksOf(n, op.cmd.id))
    BY <2>2, FailedReplacementFacts DEF RespawnFailed, Outcome
  <2> HIDE DEF r
  <2>4. Marking(new)
    BY <2>3, MarksMark
  <2>5. Concerns(new) = {op.cmd.id} /\ ids = {op.cmd.id}
    BY <2>1 DEF Concerns, Sending, SupFailed, ids
  <2> HIDE DEF new
  <2>6. Reads(ids)
    BY <1>a, <2>1, ReadsKill
  <2> QED BY <1>a, <2>1, <2>4, <2>5, <2>6 DEF SupMoved, ids
<1>6. CASE SupAbandon
  <2>1. /\ op.at = "publish" /\ chan' = chan /\ respawnQ' = respawnQ
        /\ ops'[Sup].at = "idle" \/ (ops'[Sup].at = "failed" /\ ops'[Sup].cmd = op.cmd)
        /\ sess' = Terminate(sess, op.inc)
    BY <1>6 DEF SupAbandon, SupFailed, persistVars
  <2>2. Reads(ids)
    BY <2>1, ReadsKill
  <2> QED BY <1>a, <1>b, <2>1, <2>2 DEF SupMoved, Concerns, ids
<1>7. CASE SupPersist
  <2>1. /\ op.at = "persist" /\ sess' = sess /\ respawnQ' = respawnQ
        /\ Send(SessionCreated(op.cmd.id, op.inc, sess[op.inc].name))
        /\ ops'[Sup] = [op EXCEPT !.at = "start"]
    BY <1>7 DEF SupPersist
  <2>2. ops'[Sup].at = "start" /\ ops'[Sup].cmd = op.cmd
    BY <1>c, <2>1 DEF SupTry, SupInHand
  <2>3. ids = {op.cmd.id} /\ SessionCreated(op.cmd.id, op.inc, sess[op.inc].name).id = op.cmd.id
    BY <2>1 DEF Concerns, ids, SessionCreated
  <2>4. Saves(ids)
    BY <2>1, <2>3, ChanSaves
  <2> QED BY <1>a, <1>b, <2>1, <2>2, <2>3, <2>4 DEF SupMoved, Concerns, SupInHand, ids
<1>8. CASE SupStart
  <2> DEFINE t == [sess[op.inc] EXCEPT !.reader = "run"]
  <2>1. /\ op.at = "start" /\ chan' = chan /\ respawnQ' = respawnQ /\ ops'[Sup].at = "idle"
        /\ sess' = [sess EXCEPT ![op.inc] = t]
    BY <1>8 DEF SupStart, persistVars
  <2>2. op.inc \in Incs /\ sess[op.inc].id = op.cmd.id
    BY <2>1, InHandFacts DEF Owned, Matched, SupInHand
  <2>3. t.id = op.cmd.id
    BY <2>2, ChildKept
  <2>4. ids = {op.cmd.id}
    BY <2>1 DEF Concerns, ids
  <2> HIDE DEF t
  <2>5. Reads(ids)
    BY <2>1, <2>3, <2>4, ReadsField
  <2> QED BY <1>a, <1>b, <2>1, <2>5 DEF SupMoved, Concerns, ids
<1>9. CASE SupSourceFailed
  <2> DEFINE r == finish_respawn_source_failure(inner, op.cmd.id, op.cmd.inc, op.lost)
             new == Sending(r.cmds, Idle, FALSE)
  <2>1. /\ op.at = "failed" /\ chan' = chan /\ respawnQ' = respawnQ /\ ops'[Sup] = new
        /\ sess' = sess
    BY <1>9 DEF SupSourceFailed, persistVars
  <2>2. op.cmd.id \in Ids /\ op.cmd.inc \in Given(n) /\ op.lost \in BOOLEAN
    BY <2>1, SupCmd, SupAt DEF SupLost
  <2>3. r.cmds \in Seq(MarksOf(n, op.cmd.id))
    BY <2>2, SourceFailureFacts DEF Outcome
  <2> HIDE DEF r
  <2>4. Marking(new)
    BY <2>3, MarksMark
  <2>5. Concerns(new) = {}
    BY <2>1 DEF Concerns, Sending
  <2> HIDE DEF new
  <2> QED BY <1>a, <2>1, <2>4, <2>5 DEF SupMoved, ids
<1>10. CASE SendNext(Sup)
  <2>1. /\ op.at = "send" /\ op.cmds # <<>> /\ Send(Head(op.cmds)) /\ sess' = sess
        /\ respawnQ' = respawnQ /\ ops'[Sup] = [op EXCEPT !.cmds = Tail(@)]
    BY <1>10 DEF SendNext
  <2>2. op \in SupSend(n)
    BY <2>1, SupAt
  <2>3. /\ ops'[Sup].at = "send" /\ ops'[Sup].next = op.next /\ ops'[Sup].cmds = Tail(op.cmds)
        /\ op.cmds \in Seq(FailOf(n))
    BY <2>1, <2>2 DEF SupSend
  <2>4. Head(op.cmds).kind \notin SaveKinds /\ Marking(ops'[Sup])
    BY <2>1, <2>3, NextMarks DEF OnlyMarks
  <2>5. Saves(ids)
    BY <2>1, <2>4, ChanSaves
  <2> QED BY <1>a, <2>1, <2>3, <2>4, <2>5 DEF SupMoved, Concerns, ids
<1>11. CASE SendDone(Sup)
  <2>1. /\ op.at = "send" /\ ops'[Sup] = op.next /\ sess' = sess /\ respawnQ' = respawnQ /\ chan' = chan
    BY <1>11 DEF SendDone, persistVars
  <2>2. op.next \in SupIdle \cup SupLost(n)
    BY <2>1, SupAt DEF SupSend
  <2> QED BY <1>a, <1>b, <2>1, <2>2 DEF SupMoved, Concerns, ids, SupIdle, SupLost
<1> HIDE DEF OpsOK, Goto, Return, At
<1> QED BY <1>1, <1>2, <1>3, <1>4, <1>5, <1>6, <1>7, <1>8, <1>9, <1>10, <1>11 DEF SupStep

\* What the supervisor has in hand is what it had, or an incarnation it just reserved.
LEMMA SupTakes ==
  ASSUME NEW n \in Nat \ {0}, Typed(n), Owned, SupStep
  PROVE  /\ \/ Lives
            \/ /\ ops[Sup].at = "publish"
               /\ \A id \in Ids \ Concerns(ops[Sup]) : inner'.live[id] = inner.live[id]
         /\ ops'[Sup].at \in SupInHand =>
              ops'[Sup].inc = n \/ (ops[Sup].at \in SupInHand /\ ops'[Sup].inc = ops[Sup].inc)
<1> DEFINE op == ops[Sup]
<1>0. /\ OpsOK(n) /\ inner \in InnerOf(n) /\ Sup \in Actors /\ n \in Nat /\ inner.next = n
  BY InnerFields, CallingFacts DEF Typed, Others, MemoryOK
<1>h. op.at \in SupInHand => op \in SupTry(n) /\ op.cmd.id \in Ids /\ op.cmd.id \in Concerns(op)
  BY <1>0, SupAt, InHandFacts DEF SupInHand, Concerns
<1>1. CASE Mild /\ SupGoing
  BY <1>1 DEF Mild, SupGoing, SupInHand, At
<1>2. CASE SupReserves
  <2>1. op.at = "reserve" /\ inner' = begin_replacement(inner, op.cmd.id)
        /\ ops'[Sup].inc = n
    <3>1. ops'[Sup].at # "failed"
      BY <1>2 DEF SupReserves
    <3> QED BY <1>0, <1>2, <3>1 DEF SupReserves, SupReserve, SupFailed, Goto, OpsOK, At
  <2>2. op.cmd.id \in Ids
    BY <1>0, <2>1, SupCmd
  <2>3. \A j \in Ids : inner'.live[j] = inner.live[j]
    BY <1>0, <2>1, <2>2, BeginFacts DEF Local, Same
  <2> QED BY <2>1, <2>3, LivesSame
<1>3. CASE SupSpawn
  <2>1. op.at = "spawn" /\ inner' = inner /\ ops'[Sup] = [op EXCEPT !.at = "publish"]
    BY <1>0, <1>3 DEF SupSpawn, At, OpsOK
  <2>2. ops'[Sup].inc = op.inc /\ op.at \in SupInHand
    BY <1>h, <2>1 DEF SupTry, SupInHand
  <2> QED BY <2>1, <2>2, LivesSame
<1>4. CASE SupPublish
  <2> DEFINE id == op.cmd.id
  <2>1. /\ op.at = "publish" /\ ops'[Sup] = [op EXCEPT !.at = "persist"]
        /\ inner' = [inner EXCEPT !.killed = @ \ {id}, !.dead[id] = NoTomb, !.live[id] = op.inc]
    BY <1>0, <1>4 DEF SupPublish, At, OpsOK
  <2>2. ops'[Sup].inc = op.inc /\ op.at \in SupInHand
    BY <1>h, <2>1 DEF SupTry, SupInHand
  <2>3. \A j \in Ids \ {id} : inner'.live[j] = inner.live[j]
    BY <1>0, <1>h, <2>1, <2>2, InnerFields DEF InnerOf
  <2> QED BY <1>h, <2>1, <2>2, <2>3
<1> QED BY <1>1, <1>2, <1>3, <1>4, SupMild

\* The supervisor stays away from what is still to be restored.
LEMMA SupClean ==
  ASSUME NEW n \in Nat \ {0}, Typed(n), Owned, Clean, SupStep
  PROVE  Clean'
<1> SUFFICES ASSUME phase' = "boot" PROVE Clean'
  BY DEF Clean
<1> DEFINE ids == Concerns(ops[Sup])
<1>0. /\ OpsOK(n) /\ ChanOK(n) /\ EnvOK(n) /\ DbOK(n) /\ QueueOK(n) /\ Main \in Actors \ {Sup}
  BY CallingFacts DEF Typed, Others
<1>1. ops'[Main] = ops[Main] /\ phase' = phase /\ restoring' = restoring /\ db' = db
  BY <1>0, SupLeaves DEF Leaves
<1>2. NoneLive /\ NoneRead /\ NoneQueued /\ NoneSaved /\ SupAway /\ SupNew /\ OnlyMarks
  BY <1>1 DEF Clean
<1>3. Unvisited' = Unvisited /\ Unread' = Unread /\ Unborn' = Unborn
  BY <1>1 DEF Unvisited, Unread, Unborn, Turn
<1>4. SupMoved
  BY <1>2, SupMoves
<1>5. NoneRead' /\ NoneQueued' /\ NoneSaved'
  <2>1. ids \cap Unread' = {}
    BY <1>2, <1>3 DEF SupAway
  <2>2. Narrows /\ Keeps(ids)
    BY <1>3, <1>4 DEF Narrows, Keeps, SupMoved, Queues
  <2> QED BY <1>2, <2>1, <2>2, KeepsClean
<1>6. SupAway'
  <2>1. respawnQ # <<>> => 1 \in 1..Len(respawnQ) /\ Head(respawnQ) = respawnQ[1]
    BY <1>0 DEF QueueOK
  <2>2. respawnQ # <<>> => Head(respawnQ).id \notin Unread
    BY <1>2, <2>1 DEF NoneQueued
  <2> QED BY <1>2, <1>3, <1>4, <2>2 DEF SupMoved, SupAway
<1>7. OnlyMarks'
  BY <1>1, <1>2, <1>4 DEF OnlyMarks, SupMoved
<1>8. Unborn \subseteq Unread /\ Unvisited \subseteq Ids
  BY <1>0, UnvisitedIds DEF Unborn, Unread, Turn, Until
<1>9. NoneLive'
  <2> SUFFICES ASSUME NEW id \in Ids, id \in Unborn PROVE inner'.live[id] = 0
    BY <1>3 DEF NoneLive
  <2>1. inner.live[id] = 0 /\ id \notin ids
    BY <1>2, <1>8 DEF NoneLive, SupAway
  <2> QED BY <2>1, SupTakes DEF Lives
<1>10. SupNew'
  <2>1. restoring.inc # n /\ \A id \in Unvisited : db[id].inc # n
    BY <1>0, <1>8 DEF EnvOK, DbOK, EntryOf, OrNone
  <2> QED BY <1>1, <1>2, <1>3, <2>1, SupTakes DEF SupNew
<1> QED BY <1>5, <1>6, <1>7, <1>9, <1>10 DEF Clean

-----------------------------------------------------------------------------
(* The main task.                                                          *)

\* What a step of the main task's create is about, reads, saves and makes live.
Creates(id) ==
  /\ ops'[Main].at = "restore" \/ (ops'[Main].at \in Until /\ About(ops'[Main]) = id)
  /\ ops'[Main].at \in Before => ops[Main].at \in Before \/ inner'.live[id] = 0
  /\ \/ Lives
     \/ ops'[Main].at = "persist" /\ \A j \in Ids \ {id} : inner'.live[j] = inner.live[j]
  /\ Marking(ops'[Main])
  /\ Reads({}) \/ (Reads({id}) /\ ops'[Main].at = "restore")
  /\ Saves({id})

\* A create of restore_sessions stays with the session it is for.
LEMMA MainCreates ==
  ASSUME NEW n \in Nat \ {0}, Typed(n), Owned, OnlyMarks, CreateStep(Main),
         ops[Main].at = "send" => ops[Main].next.at = "recheck"
  PROVE  Creates(About(ops[Main])) /\ ops[Main].at \in Until /\ respawnQ' = respawnQ
<1> DEFINE m  == ops[Main]
           id == About(m)
<1>0. /\ OpsOK(n) /\ SessionsOK(n) /\ ChanOK(n) /\ inner \in InnerOf(n) /\ Main \in Actors
      /\ Main \in Calling /\ Main # Sup /\ n \in Nat /\ inner.next = n
  BY InnerFields, CallingFacts DEF Typed, Others, MemoryOK
<1>a. /\ sess' = sess => Reads({})
      /\ chan' = chan => Saves({id})
      /\ inner' = inner => Lives
  BY KeepsSame, LivesSame
<1>b. \A new : new.at # "send" => Marking(new)
  BY DEF Marking
<1>m. \/ CreateReserve(Main) \/ CreateSpawn(Main) \/ CreatePublish(Main) \/ Lives
  BY <1>0, CreateMild DEF Mild
<1> HIDE DEF id
<1> USE <1>0 DEF OpsOK, Goto, At, Before, Until, About
<1>1. CASE CreatePermit(Main)
  <2>1. m.at = "permit" /\ sess' = sess /\ chan' = chan /\ inner' = inner /\ respawnQ' = respawnQ
        /\ ops'[Main] = [m EXCEPT !.at = "evict"]
    BY <1>1 DEF CreatePermit, persistVars
  <2>2. ops'[Main].at = "evict" /\ ops'[Main].id = m.id
    BY <2>1, CallAt DEF AtEntry
  <2> QED BY <1>a, <1>b, <2>1, <2>2 DEF Creates, id
<1>2. CASE CreateEvict(Main)
  <2> DEFINE old == inner.live[m.id]
             s   == Terminate(sess, old)
  <2>1. /\ m.at = "evict" /\ chan' = chan /\ respawnQ' = respawnQ
        /\ sess' = (IF old = 0 THEN sess ELSE [s EXCEPT ![old].replaced = TRUE])
        /\ ops'[Main].at = "reserve" /\ ops'[Main].id = m.id
    BY <1>2 DEF CreateEvict, persistVars
  <2>2. s \in [Incs -> SessionType]
        /\ \A j \in Incs : s[j].reader = sess[j].reader /\ s[j].id = sess[j].id
    BY TerminateReaders, TerminateType, TerminateChildren
  <2> HIDE DEF s
  <2>3. Reads({})
    BY <2>1, <2>2 DEF Reads, SessionType
  <2>4. Lives
    BY <1>m, <2>1 DEF CreateReserve, CreateSpawn, CreatePublish
  <2> QED BY <1>a, <1>b, <2>1, <2>3, <2>4 DEF Creates, id
<1>3. CASE CreateReserve(Main)
  <2> DEFINE t == NewSession(m.id, m.name, inner.generation, 0)
  <2>1. /\ m.at = "reserve" /\ chan' = chan /\ respawnQ' = respawnQ
        /\ inner' = begin_replacement(inner, m.id)
        /\ ops'[Main].at = "spawn" /\ ops'[Main].id = m.id
        /\ sess' = [sess EXCEPT ![inner.next] = t]
    BY <1>3 DEF CreateReserve, persistVars
  <2>2. t.reader = "none"
    BY DEF NewSession, NoSession
  <2> HIDE DEF t
  <2>3. Reads({})
    BY <2>1, <2>2, ReadsField
  <2>4. m.id \in Ids
    BY <2>1, CallAt DEF AtReserve
  <2>5. \A j \in Ids : inner'.live[j] = inner.live[j]
    BY <2>1, <2>4, BeginFacts DEF Local, Same
  <2> QED BY <1>a, <1>b, <2>1, <2>3, <2>5, LivesSame DEF Creates, id
<1>4. CASE CreateSpawn(Main)
  <2> DEFINE t == [sess[m.inc] EXCEPT !.child = "running"]
  <2>1. /\ m.at = "spawn" /\ chan' = chan /\ respawnQ' = respawnQ /\ inner' = inner
        /\ ops'[Main] = [m EXCEPT !.at = "publish"]
        /\ sess' = [sess EXCEPT ![m.inc] = t]
    BY <1>4 DEF CreateSpawn, persistVars
  <2>2. ops'[Main].at = "publish" /\ ops'[Main].id = m.id
    BY <2>1, CallAt DEF AtSpawn
  <2>3. m.inc \in Incs => t.reader = sess[m.inc].reader /\ t.id = sess[m.inc].id
    BY DEF SessionsOK, SessionType
  <2> HIDE DEF t
  <2>4. Reads({})
    BY <2>1, <2>3, ReadsField
  <2> QED BY <1>a, <1>b, <2>1, <2>2, <2>4 DEF Creates, id
<1>5. CASE CreateSpawnFails(Main) \/ CreateStartFails(Main)
  <2> DEFINE r   == ReplacementFailed(Main)
             new == Sending(r.cmds, AfterFailure(Main), KeepsGuard(Main))
  <2>1. /\ m.at \in {"spawn", "start"} /\ chan' = chan /\ respawnQ' = respawnQ /\ ops'[Main] = new
        /\ sess' = sess \/ sess' = Terminate(sess, m.inc)
        /\ m.at = "start" => inner' = kill_internal_impl(r.inner, m.id, TRUE)
    BY <1>5 DEF CreateSpawnFails, CreateStartFails, persistVars
  <2>2. m.id \in Ids /\ m.inc \in Given(n) /\ m.retry \in BOOLEAN
    BY <2>1, CallAt DEF AtSpawn
  <2>3. r.cmds \in Seq(MarksOf(n, m.id)) /\ Unpublished(r, n, m.id, m.inc)
    BY <2>2, FailedReplacementFacts, FailedLives DEF ReplacementFailed, Outcome
  <2>4. new.at = "send" /\ new.next = AfterFailure(Main) /\ AfterFailure(Main).id = m.id
    BY DEF Sending, AfterFailure
  <2>5. m.at = "start" => inner'.live[m.id] = 0
    <3>1. m.at = "start" => Killing(inner', inner, m.id)
      <4> HIDE DEF r
      <4>1. m.at = "start" => inner.live[m.id] \in {0, m.inc}
        BY DEF Owned, Settled
      <4> QED BY <2>1, <2>2, <2>3, <4>1, KillAgain DEF Unpublished
    <3> QED BY <3>1 DEF Killing
  <2> HIDE DEF r
  <2>6. Marking(new)
    BY <2>3, MarksMark
  <2> HIDE DEF new
  <2>7. Reads({})
    BY <1>a, <2>1, ReadsKill
  <2>8. Lives
    <3>1. CreateSpawn(Main) => ops'[Main].at = "publish"
      BY <2>1, CallAt DEF CreateSpawn, AtSpawn
    <3>2. ops'[Main].at = "send"
      BY <2>1, <2>4 DEF new
    <3> QED BY <1>m, <2>1, <3>1, <3>2 DEF CreateReserve, CreatePublish
  <2> QED BY <1>a, <2>1, <2>4, <2>5, <2>6, <2>7, <2>8 DEF Creates, id
<1>6. CASE CreateAbandon(Main)
  <2>1. /\ m.at = "publish" /\ chan' = chan /\ respawnQ' = respawnQ /\ inner' = inner
        /\ sess' = Terminate(sess, m.inc) /\ ops'[Main].at = "recheck" /\ ops'[Main].id = m.id
    BY <1>6 DEF CreateAbandon, AfterFailure, persistVars
  <2>2. Reads({})
    BY <2>1, ReadsKill
  <2> QED BY <1>a, <1>b, <2>1, <2>2 DEF Creates, id
<1>7. CASE CreatePublish(Main)
  <2>1. /\ m.at = "publish" /\ chan' = chan /\ respawnQ' = respawnQ
        /\ ops'[Main] = [m EXCEPT !.at = "persist"] /\ sess' = Terminate(sess, inner.live[m.id])
        /\ inner' = [inner EXCEPT !.dead[m.id] = NoTomb, !.killed = @ \ {m.id}, !.live[m.id] = m.inc]
    BY <1>7 DEF CreatePublish, persistVars
  <2>2. ops'[Main].at = "persist" /\ ops'[Main].id = m.id
    BY <2>1, CallAt DEF AtSpawn
  <2>3. Reads({})
    BY <2>1, ReadsKill
  <2>4. \A j \in Ids \ {m.id} : inner'.live[j] = inner.live[j]
    BY <2>1 DEF InnerOf
  <2> QED BY <1>a, <1>b, <2>1, <2>2, <2>3, <2>4 DEF Creates, id
<1>8. CASE CreatePersist(Main)
  <2> DEFINE cmd == SessionCreated(m.id, m.inc, sess[m.inc].name)
  <2>1. /\ m.at = "persist" /\ sess' = sess /\ respawnQ' = respawnQ /\ inner' = inner
        /\ Send(cmd) /\ ops'[Main] = [m EXCEPT !.at = "start"]
    BY <1>8 DEF CreatePersist
  <2>2. ops'[Main].at = "start" /\ ops'[Main].id = m.id
    BY <2>1, CallAt DEF AtSpawn
  <2>3. cmd.id = m.id
    BY DEF SessionCreated
  <2> HIDE DEF cmd
  <2>4. Saves({m.id})
    BY <2>1, <2>3, ChanSaves
  <2> QED BY <1>a, <1>b, <2>1, <2>2, <2>4 DEF Creates, id
<1>9. CASE CreateStart(Main)
  <2> DEFINE t == [sess[m.inc] EXCEPT !.reader = "run"]
  <2>1. /\ m.at = "start" /\ chan' = chan /\ respawnQ' = respawnQ /\ ops'[Main].at = "restore"
        /\ sess' = [sess EXCEPT ![m.inc] = t]
    BY <1>9 DEF CreateStart, AfterCreate, persistVars
  <2>2. m.inc \in Incs /\ sess[m.inc].id = m.id
    BY <2>1, InHandFacts DEF Owned, Matched, InHand
  <2>3. t.id = m.id
    BY <2>2, ChildKept
  <2> HIDE DEF t
  <2>4. Reads({m.id})
    BY <2>1, <2>3, ReadsField
  <2>5. Lives
    BY <1>m, <2>1 DEF CreateReserve, CreateSpawn, CreatePublish
  <2> QED BY <1>a, <1>b, <2>1, <2>4, <2>5 DEF Creates, id
<1>10. CASE SendNext(Main)
  <2>1. /\ m.at = "send" /\ m.cmds # <<>> /\ Send(Head(m.cmds)) /\ sess' = sess /\ inner' = inner
        /\ respawnQ' = respawnQ /\ ops'[Main] = [m EXCEPT !.cmds = Tail(@)]
    BY <1>10 DEF SendNext
  <2>2. m \in AtSend(n)
    BY <2>1, CallAt
  <2>3. /\ ops'[Main].at = "send" /\ ops'[Main].next = m.next /\ ops'[Main].cmds = Tail(m.cmds)
        /\ m.cmds \in Seq(FailOf(n))
    BY <2>1, <2>2 DEF AtSend
  <2>4. Head(m.cmds).kind \notin SaveKinds /\ Marking(ops'[Main])
    BY <2>1, <2>3, NextMarks DEF OnlyMarks
  <2>5. Saves({id})
    BY <2>1, <2>4, ChanSaves
  <2> QED BY <1>a, <2>1, <2>3, <2>4, <2>5 DEF Creates, id
<1>11. CASE SendDone(Main)
  <2>1. /\ m.at = "send" /\ ops'[Main] = m.next /\ sess' = sess /\ respawnQ' = respawnQ /\ chan' = chan
        /\ inner' = inner
    BY <1>11 DEF SendDone, persistVars
  <2>2. ops'[Main].at = "recheck" /\ ops'[Main].id = m.next.id
    BY <2>1
  <2> QED BY <1>a, <1>b, <2>1, <2>2 DEF Creates, id
<1> HIDE DEF OpsOK, Goto, At
<1> QED BY <1>1, <1>2, <1>3, <1>4, <1>5, <1>6, <1>7, <1>8, <1>9, <1>10, <1>11 DEF CreateStep, id

\* So the others stay as they were found.
LEMMA CreateClean ==
  ASSUME NEW n \in Nat \ {0}, Typed(n), Owned, Booting, Clean, CreateStep(Main)
  PROVE  Clean'
<1> SUFFICES ASSUME phase' = "boot" PROVE Clean'
  BY DEF Clean
<1> DEFINE id == About(ops[Main])
<1>0. /\ OpsOK(n) /\ EnvOK(n) /\ Sup \in Actors \ {Main}
      /\ Leaves(Main)
  BY CreateLeaves, CallingFacts DEF Typed, Others
<1>1. ops'[Sup] = ops[Sup] /\ phase' = phase /\ restoring' = restoring /\ db' = db
  BY <1>0 DEF Leaves
<1>2. NoneLive /\ NoneRead /\ NoneQueued /\ NoneSaved /\ SupAway /\ SupNew /\ OnlyMarks
  BY <1>1 DEF Clean
<1>3. /\ ops[Main].at \in BootOnly \ {"load", "restore", "target"}
      /\ id \notin restoring.left /\ (ops[Main].at = "send" => ops[Main].next.at = "recheck")
  <2>1. ops[Main].at \in {"permit", "evict", "reserve", "spawn", "publish", "persist", "start", "send"}
    BY DEF At, CreateStep, CreatePermit, CreateEvict, CreateReserve, CreateSpawn, CreateSpawnFails,
       CreateAbandon, CreatePublish, CreatePersist, CreateStart, CreateStartFails, SendNext, SendDone
  <2> QED BY <2>1 DEF Booting, Visiting, BootOnly, At, About
<1>4. Creates(id) /\ ops[Main].at \in Until /\ respawnQ' = respawnQ
  BY <1>2, <1>3, MainCreates
<1> HIDE DEF id
<1>5. /\ Unvisited = restoring.left /\ Unvisited' = restoring.left
      /\ id \notin Unvisited'
  BY <1>1, <1>3, <1>4 DEF Unvisited, Creates, Until, Before
<1>6. /\ Unread' \subseteq Unread
      /\ ops'[Main].at = "restore" => id \notin Unread'
      /\ \A j \in Unborn' : j \in Unvisited \/ (j = id /\ ops'[Main].at \in Before)
      /\ ops[Main].at \in Before => id \in Unborn
  BY <1>4, <1>5 DEF Unread, Unborn, Turn, Creates, Until, Before, id
<1>7. NoneLive'
  <2> SUFFICES ASSUME NEW j \in Ids, j \in Unborn' PROVE inner'.live[j] = 0
    BY DEF NoneLive
  <2>1. CASE j \in Unvisited
    <3>1. inner.live[j] = 0 /\ j # id
      BY <1>2, <1>5, <2>1 DEF NoneLive, Unborn
    <3> QED BY <1>4, <3>1 DEF Creates, Lives
  <2>2. CASE j = id /\ ops'[Main].at \in Before
    <3>1. ops[Main].at \in Before => inner.live[j] = 0
      BY <1>2, <1>6, <2>2 DEF NoneLive
    <3> QED BY <1>4, <2>2, <3>1 DEF Creates, Lives, Before
  <2> QED BY <1>6, <2>1, <2>2
<1>8. NoneRead' /\ NoneQueued' /\ NoneSaved'
  <2>1. NoneRead'
    BY <1>2, <1>4, <1>6 DEF NoneRead, Creates, Reads
  <2>2. NoneQueued'
    BY <1>2, <1>4, <1>6 DEF NoneQueued
  <2>3. NoneSaved'
    BY <1>2, <1>4, <1>5 DEF NoneSaved, Creates, Saves
  <2> QED BY <2>1, <2>2, <2>3
<1>9. SupAway' /\ SupNew' /\ OnlyMarks'
  BY <1>1, <1>2, <1>4, <1>5, <1>6 DEF SupAway, SupNew, OnlyMarks, Creates
<1> QED BY <1>7, <1>8, <1>9 DEF Clean

\* What a step leaves of the start, and what it does to memory and store.
Left == /\ Unvisited' \subseteq Unvisited /\ Unread' \subseteq Unread /\ Unborn' \subseteq Unborn
        /\ ops[Sup].at \in SupInHand =>
             ops[Sup].inc # restoring'.inc /\ \A id \in Unvisited' : db'[id].inc = db[id].inc
        /\ \A id \in Ids : inner.live[id] = 0 => inner'.live[id] = 0
        /\ Reads({})

\* restore_sessions takes the sessions one after the other, each from those left.
LEMMA RestoreClean ==
  ASSUME NEW n \in Nat \ {0}, Typed(n), Owned, Booting, Clean, RestoreStep
  PROVE  Clean'
<1> SUFFICES ASSUME phase' = "boot" PROVE Clean'
  BY DEF Clean
<1> DEFINE m == ops[Main]
<1>0. /\ OpsOK(n) /\ EnvOK(n) /\ DbOK(n) /\ SessionsOK(n) /\ inner \in InnerOf(n)
      /\ Main \in Actors /\ Main \in Calling /\ Sup \in Actors /\ Sup # Main
  BY CallingFacts DEF Typed, Others, MemoryOK
<1>1. CASE CreateStep(Main)
  BY <1>1, CreateClean
<1>2. CASE RestoreStep /\ ~CreateStep(Main)
  <2> USE <1>0 DEF Goto, At
  <2>1. /\ phase = "boot" /\ respawnQ' = respawnQ /\ chan' = chan /\ ops'[Sup] = ops[Sup]
        /\ ~RestoreDone /\ ops'[Main].at \in {"restore", "target", "permit"}
    <3>1. ~RestoreDone
      BY DEF RestoreDone
    <3>2. respawnQ' = respawnQ /\ chan' = chan /\ ops'[Sup] = ops[Sup]
          /\ ops'[Main].at \in {"restore", "target", "permit"}
      <4>1. RestoreCreate => ops'[Main].at = "permit"
        BY CallAt DEF RestoreCreate, AtEntry, OpsOK
      <4> QED BY <1>2, <3>1, <4>1 DEF RestoreStep, RestoreLoad, RestoreNext, RestoreDelete,
                  RestoreUnavailable, RestoreCreate, OpsOK, persistVars
    <3>3. m.at \in BootOnly
      BY <1>2, <3>1 DEF RestoreStep, RestoreLoad, RestoreNext, RestoreDelete, RestoreUnavailable,
                  RestoreCreate, BootOnly
    <3> QED BY <3>1, <3>2, <3>3 DEF Booting, Visiting
  <2>2. NoneLive /\ NoneRead /\ NoneQueued /\ NoneSaved /\ SupAway /\ SupNew /\ OnlyMarks
    BY <2>1 DEF Clean
  <2>3. OnlyMarks'
    BY <2>1, <2>2 DEF OnlyMarks, Marking
  <2>4. Unvisited \subseteq Ids
    BY UnvisitedIds
  <2>5. Left
    <3>a. sess' = sess => Reads({})
      BY KeepsSame
    <3>1. CASE RestoreLoad
      <4>1. /\ m.at = "load" /\ ops'[Main].at = "restore" /\ restoring'.left \subseteq Ids
            /\ inner' = inner /\ sess' = sess
        BY <3>1 DEF RestoreLoad, OpsOK, NotRestoring
      <4>2. Unread = Ids /\ Unborn = Ids /\ Unvisited = Ids
        BY <4>1 DEF Unvisited, Unread, Unborn, Turn, Until, Before
      <4>3. Unvisited' \subseteq Ids /\ Unread' \subseteq Ids /\ Unborn' \subseteq Ids
        BY <4>1 DEF Unvisited, Unread, Unborn, Turn, Until, Before
      <4>4. ops[Sup].at \notin SupInHand
        <5>1. ops[Sup].at \in SupInHand => ops[Sup].cmd.id \in Ids
          BY InHandFacts
        <5>2. ops[Sup].at \in SupInHand => ops[Sup].cmd.id \in Concerns(ops[Sup])
          BY DEF Concerns, SupInHand
        <5> QED BY <2>2, <4>2, <5>1, <5>2 DEF SupAway
      <4> QED BY <3>a, <4>1, <4>2, <4>3, <4>4 DEF Left
    <3>2. ASSUME NEW id \in Ids, RestoreNext(id) PROVE Left
      <4>1. /\ m.at = "restore" /\ id \in restoring.left /\ db' = db /\ inner' = inner /\ sess' = sess
            /\ restoring' = [left |-> restoring.left \ {id}, inc |-> db[id].inc, name |-> db[id].name]
            /\ ops'[Main] = [at |-> "target", id |-> id, name |-> db[id].name]
        BY <3>2 DEF RestoreNext, OpsOK, persistVars
      <4>2. Unvisited = restoring.left /\ Unread = restoring.left /\ Unborn = restoring.left
        BY <4>1 DEF Unvisited, Unread, Unborn, Turn, Until, Before
      <4>3. /\ Unvisited' \subseteq restoring.left /\ Unread' \subseteq restoring.left
            /\ Unborn' \subseteq restoring.left
        BY <4>1 DEF Unvisited, Unread, Unborn, Turn, Until, Before, About
      <4>4. ops[Sup].at \in SupInHand => ops[Sup].inc # db[id].inc
        BY <2>2, <4>1, <4>2 DEF SupNew
      <4> QED BY <3>a, <4>1, <4>2, <4>3, <4>4 DEF Left
    <3>3. CASE RestoreDelete \/ RestoreUnavailable
      <4>1. /\ m.at \in {"target", "recheck"} /\ ops'[Main].at = "restore" /\ restoring' = restoring
            /\ \E e : db' = [db EXCEPT ![m.id] = e]
        BY <3>3 DEF RestoreDelete, Deleted, RestoreUnavailable, OpsOK, env
      <4>2. m.id \notin restoring.left /\ m.id \in Ids
        BY <4>1, CallAt DEF Booting, Visiting, BootOnly, AtEntry, AtRecheck
      <4>3. Unvisited = restoring.left /\ Unvisited' = restoring.left
            /\ Unread' = restoring.left /\ Unborn' = restoring.left
        BY <4>1 DEF Unvisited, Unread, Unborn, Turn, Until, Before
      <4>4. Unvisited \subseteq Unread /\ Unvisited \subseteq Unborn
        BY DEF Unread, Unborn
      <4>5. \A id \in Unvisited' : db'[id].inc = db[id].inc
        BY <4>1, <4>2, <4>3, <2>4 DEF DbOK
      <4>6. ops[Sup].at \in SupInHand => ops[Sup].inc # restoring'.inc
        BY <2>2, <4>1 DEF SupNew
      <4>7. (\A id \in Ids : inner.live[id] = 0 => inner'.live[id] = 0) /\ Reads({})
        <5>1. CASE RestoreDelete
          BY <3>a, <5>1 DEF RestoreDelete
        <5>2. CASE RestoreUnavailable
          <6> DEFINE t == NewSession(m.id, restoring.name, 0, 0)
          <6>1. /\ inner' = restore_unavailable_session(inner, m.id, restoring.inc)
                /\ sess' = [sess EXCEPT ![restoring.inc] = t]
            BY <5>2 DEF RestoreUnavailable
          <6>2. t.reader = "none"
            BY DEF NewSession, NoSession
          <6> HIDE DEF t
          <6>3. Reads({})
            BY <6>1, <6>2, ReadsField
          <6>4. \A id \in Ids : inner.live[id] = 0 => inner'.live[id] = 0
            BY <6>1 DEF restore_unavailable_session, InnerOf
          <6> QED BY <6>3, <6>4
        <5> QED BY <3>3, <5>1, <5>2
      <4> QED BY <4>3, <4>4, <4>5, <4>6, <4>7 DEF Left
    <3>4. CASE RestoreCreate
      <4>1. /\ m.at = "target" /\ ops'[Main] = [m EXCEPT !.at = "permit"] /\ restoring' = restoring
            /\ db' = db /\ inner' = inner /\ sess' = sess
        BY <3>4 DEF RestoreCreate, OpsOK, env, persistVars
      <4>2. ops'[Main].at = "permit" /\ ops'[Main].id = m.id
        BY <4>1, CallAt DEF AtEntry
      <4>3. Unvisited' = Unvisited /\ Unread' = Unread /\ Unborn' = Unborn
        BY <4>1, <4>2 DEF Unvisited, Unread, Unborn, Turn, Until, Before, About
      <4>4. ops[Sup].at \in SupInHand => ops[Sup].inc # restoring'.inc
        BY <2>2, <4>1 DEF SupNew
      <4> QED BY <3>a, <4>1, <4>3, <4>4 DEF Left
    <3> QED BY <1>2, <2>1, <3>1, <3>2, <3>3, <3>4 DEF RestoreStep
  <2>6. NoneRead' /\ NoneQueued' /\ NoneSaved'
    <3>1. Narrows /\ Keeps({})
      BY <2>1, <2>5, KeepsSame DEF Narrows, Keeps, Left
    <3> QED BY <2>2, <3>1, KeepsClean
  <2>7. NoneLive'
    BY <2>2, <2>5 DEF NoneLive, Left
  <2>8. SupAway' /\ SupNew'
    BY <2>1, <2>2, <2>5 DEF SupAway, SupNew, Left
  <2> QED BY <2>3, <2>6, <2>7, <2>8 DEF Clean
<1> QED BY <1>1, <1>2

\* What is kept as unavailable has nobody's process under its incarnation.
LEMMA UnavailableOwned ==
  ASSUME NEW n \in Nat \ {0}, Typed(n), Owned, Booting, Clean, RestoreUnavailable
  PROVE  Owned'
<1> DEFINE m   == ops[Main]
           id  == m.id
           inc == restoring.inc
           t   == NewSession(id, restoring.name, 0, 0)
<1>0. /\ OpsOK(n) /\ EnvOK(n) /\ SessionsOK(n) /\ inner \in InnerOf(n) /\ n \in Nat
      /\ Main \in Actors /\ Main \in Calling /\ Sup \in Actors /\ Sup # Main
      /\ Calling \subseteq Actors \ {Sup} /\ Actors = Calling \cup {Sup} /\ Calling = Clients \cup {Main}
  BY CallingFacts DEF Typed, Others, MemoryOK, Calling, Actors
<1>1. /\ m.at \in {"target", "recheck"} /\ ops' = [ops EXCEPT ![Main] = [at |-> "restore"]]
      /\ inner' = restore_unavailable_session(inner, id, inc) /\ sess' = [sess EXCEPT ![inc] = t]
  BY DEF RestoreUnavailable, Goto, At
<1>2. phase = "boot" /\ inc # 0 /\ id \in Ids
  BY <1>0, <1>1, CallAt DEF Booting, Visiting, BootOnly, AtEntry, AtRecheck
<1>3. inner.live[id] = 0 /\ (ops[Sup].at \in SupInHand => ops[Sup].inc # inc)
  BY <1>1, <1>2 DEF Clean, NoneLive, SupNew, Unborn, Turn, Before, About
<1>4. \A c \in Calling : ops[c].at \notin InHand /\ ops'[c].at \notin InHand
  BY <1>0, <1>1, <1>2 DEF Booting, Alone, At, InHand, OpsOK
<1>5. ops'[Sup] = ops[Sup] /\ ops'[Main].at = "restore" /\ \A b \in Actors \ {Main} : ops'[b] = ops[b]
  BY <1>0, <1>1 DEF OpsOK
<1>6. \A j \in Ids : inner'.live[j] = inner.live[j]
  BY <1>0, <1>1, <1>2, <1>3 DEF restore_unavailable_session, InnerOf
<1>7. t.id = id /\ t.child = "none"
  BY DEF NewSession, NoSession
<1> HIDE DEF t, inc, id
<1>8. \A i \in Incs : sess'[i] = IF i = inc THEN t ELSE sess[i]
  BY <1>0, <1>1 DEF SessionsOK
<1>9. NoOrphanProcess'
  <2> SUFFICES ASSUME NEW i \in Incs, sess'[i].child = "running",
                      ~\E b \in Actors : At(b, "publish")' /\ ops'[b].inc = i
               PROVE  inner'.live[sess'[i].id] = i
    BY DEF NoOrphanProcess
  <2>1. i # inc /\ sess'[i] = sess[i] /\ sess[i].id \in Ids
    BY <1>0, <1>7, <1>8 DEF SessionsOK, SessionType
  <2>2. ~\E b \in Actors : At(b, "publish") /\ ops[b].inc = i
    <3>1. ops[Main].at # "publish"
      BY <1>1
    <3> QED BY <1>5, <3>1 DEF At
  <2> QED BY <1>6, <2>1, <2>2 DEF Owned, NoOrphanProcess
<1>10. Matched' /\ Fresh' /\ Distinct' /\ Settled'
  <2>1. ops'[Sup].at \in SupInHand => sess'[ops'[Sup].inc] = sess[ops[Sup].inc]
    BY <1>3, <1>5, <1>8, InHandFacts DEF inc
  <2>2. Matched'
    BY <1>4, <1>5, <2>1 DEF Owned, Matched
  <2>3. Fresh'
    <3>1. \A c \in Calling : ~At(c, "spawn")'
      BY <1>4 DEF At, InHand
    <3> QED BY <1>5, <2>1, <3>1 DEF Owned, Fresh, SupInHand
  <2>4. Distinct' /\ Settled'
    BY <1>4 DEF Distinct, Settled, At, InHand
  <2> QED BY <2>2, <2>3, <2>4
<1> QED BY <1>9, <1>10 DEF Owned

-----------------------------------------------------------------------------
(* No child process is left behind.                                        *)

\* Everything in memory is new.
LEMMA BootOwned ==
  ASSUME Boot
  PROVE  Owned' /\ Clean'
<1>1. /\ \A i \in Incs : sess'[i].child = "none" /\ sess'[i].reader = "none"
      /\ \A a \in Actors : ops'[a].at \in {"idle", "load"}
      /\ ops'[Sup].at = "idle" /\ \A c \in Calling : c \in Actors
      /\ \A id \in Ids : inner'.live[id] = 0
      /\ respawnQ' = <<>> /\ chan' = <<>> /\ ops'[Main].at = "load"
  BY CallingFacts DEF Boot, NoSession, Idle, NewInner, PersistRestart
<1>2. Owned'
  BY <1>1 DEF Owned, NoOrphanProcess, Matched, Fresh, Distinct, Settled, InHand, SupInHand, At
<1>3. NoneLive' /\ NoneRead' /\ NoneQueued' /\ NoneSaved'
  BY <1>1 DEF NoneLive, NoneRead, NoneQueued, NoneSaved
<1>4. SupAway' /\ SupNew' /\ OnlyMarks'
  BY <1>1 DEF SupAway, SupNew, OnlyMarks, Concerns, SupInHand, Marking
<1> QED BY <1>2, <1>3, <1>4 DEF Clean

\* A running child is the live session of its id or in the hands of whoever just spawned it;
\* the creates of a restore find nothing live, being read or asked for under the ids that
\* are still to be restored.
THEOREM PtyOwned == Spec => [](Owned /\ Clean)
<1>1. Init => Owned /\ Clean
  <2> SUFFICES ASSUME Init PROVE Owned /\ Clean
    OBVIOUS
  <2>1. /\ \A i \in Incs : sess[i].child = "none"
        /\ \A a \in Actors : ops[a].at = "idle"
        /\ ops[Sup].at = "idle" /\ (\A c \in Calling : c \in Actors) /\ phase = "serving"
    BY CallingFacts DEF Init, NoSession, Idle
  <2> QED BY <2>1 DEF Owned, NoOrphanProcess, Matched, Fresh, Distinct, Settled, InHand, SupInHand, At,
                  Clean
<1>2. PtyTyped /\ Booting /\ Exclusive /\ Owned /\ Clean /\ [Next]_vars => (Owned /\ Clean)'
  <2> SUFFICES ASSUME PtyTyped, Booting, Exclusive, Owned, Clean, [Next]_vars
               PROVE  Owned' /\ Clean'
    OBVIOUS
  <2>1. PICK n \in Nat \ {0} : Typed(n)
    BY DEF PtyTyped
  <2>2. /\ OpsOK(n) /\ ChanOK(n) /\ Main \in Actors /\ Sup \notin Calling
        /\ Main \in Calling /\ Sweeper \in Calling /\ Sweeper \in Clients
        /\ \A c \in Callers : c \in Calling /\ c \in Clients
    BY <2>1, CallingFacts DEF Typed, Others, Callers, Calling
  <2>3. CASE UNCHANGED vars \/ Rest
    <3>1. UNCHANGED <<inner, sess, ops, respawnQ, phase, restoring, chan, db>>
      BY <2>3 DEF vars, env, persistVars, Rest
    <3>2. Owned'
      BY <3>1 DEF Owned, NoOrphanProcess, Matched, Fresh, Distinct, Settled, At
    <3>3. Unvisited' = Unvisited /\ Unborn' = Unborn /\ Unread' = Unread
      BY <3>1 DEF Unvisited, Unborn, Unread, Turn
    <3>4. Clean'
      BY <3>1, <3>3 DEF Clean, NoneLive, NoneRead, NoneQueued, NoneSaved, SupAway, SupNew, OnlyMarks
    <3> QED BY <3>2, <3>4
  <2>4. CASE Work
    <3>1. UNCHANGED <<inner, sess, ops>>
      BY <2>4 DEF Work
    <3>2. Owned'
      BY <3>1 DEF Owned, NoOrphanProcess, Matched, Fresh, Distinct, Settled, At
    <3> QED BY <2>1, <2>4, <3>2, WorkClean
  <2>5. ASSUME NEW c \in Callers, Request(c) \/ CallStep(c) PROVE Owned' /\ Clean'
    <3>1. Leaves(c) /\ (phase = "serving" \/ ~At(c, "idle"))
      BY <2>2, <2>5, RequestLeaves, CallLeaves
    <3>2. phase' # "boot"
      BY <2>2, <3>1 DEF Booting, Alone, Leaves
    <3>3. \/ CreateReserve(c) \/ CreateSpawn(c) \/ CreatePublish(c)
          \/ Mild /\ Going(c)
      BY <2>1, <2>5, RequestMild, CallMild
    <3>4. Owned'
      <4>1. CASE CreateReserve(c) \/ CreateSpawn(c) \/ CreatePublish(c)
        BY <2>1, <2>2, <4>1, CreateOwned DEF CreateStep
      <4>2. CASE Mild /\ Going(c)
        BY <2>1, <2>2, <3>1, <4>2, MildOwned DEF Leaves
      <4> QED BY <3>3, <4>1, <4>2
    <3> QED BY <3>2, <3>4 DEF Clean
  <2>6. CASE SweepBegin \/ SweepStep
    <3>1. Leaves(Sweeper) /\ (phase = "serving" \/ ~At(Sweeper, "idle"))
      BY <2>2, <2>6, SweepLeaves
    <3>2. phase' # "boot"
      BY <2>2, <3>1 DEF Booting, Alone, Leaves
    <3>3. Mild /\ Going(Sweeper)
      BY <2>1, <2>6, SweepMild
    <3>4. Owned'
      BY <2>1, <2>2, <3>1, <3>3, MildOwned DEF Leaves
    <3> QED BY <3>2, <3>4 DEF Clean
  <2>7. ASSUME NEW i \in Incs, ReaderOutput(i) \/ ReaderExit(i) \/ ReaderStep(i)
        PROVE  Owned' /\ Clean'
    <3>1. ops' = ops /\ Mild
      BY <2>1, <2>2, <2>7, ReaderLeaves, ReaderMild
    <3>2. NoOne \notin Calling /\ NoOne # Sup
      BY ActorsAssumption DEF Calling
    <3>3. Owned'
      BY <2>1, <3>1, <3>2, MildOwned
    <3> QED BY <2>1, <2>7, <3>3, ReaderClean
  <2>8. CASE SupStep
    BY <2>1, <2>8, SupOwned, SupClean
  <2>9. CASE RestoreStep \/ ShutdownBegin \/ (ShutdownStep /\ ~ShutdownDone)
    <3>1. \A b \in Actors \ {Main} : ops'[b] = ops[b]
      BY <2>1, <2>9, MainGate
    <3>2. Owned'
      <4>1. CASE CreateReserve(Main) \/ CreateSpawn(Main) \/ CreatePublish(Main)
        BY <2>1, <2>2, <4>1, CreateOwned DEF CreateStep
      <4>2. CASE Mild /\ Going(Main)
        BY <2>1, <2>2, <3>1, <4>2, MildOwned
      <4>3. CASE RestoreUnavailable
        BY <2>1, <4>3, UnavailableOwned
      <4> QED BY <2>1, <2>9, <4>1, <4>2, <4>3, MainMild
    <3>3. CASE RestoreStep
      BY <2>1, <3>2, <3>3, RestoreClean
    <3>4. CASE ShutdownBegin \/ (ShutdownStep /\ ~ShutdownDone)
      <4>1. phase' # "boot"
        <5>1. CASE ShutdownBegin
          BY <5>1 DEF ShutdownBegin
        <5>2. CASE ShutdownStep /\ ~ShutdownDone
          <6>1. phase' = phase /\ ops[Main].at \notin BootOnly
            BY <5>2 DEF ShutdownStep, SnapshotTake, SnapshotSend, StopAll, ShutdownClose,
               ShutdownDispose, ShutdownWorker, At, BootOnly, env
          <6> QED BY <6>1 DEF Booting, Visiting
        <5> QED BY <3>4, <5>1, <5>2
      <4> QED BY <3>2, <4>1 DEF Clean
    <3> QED BY <2>9, <3>3, <3>4
  <2>10. CASE ShutdownDone \/ Crash
    BY <2>10, BootOwned DEF ShutdownDone, Crash
  <2> QED BY <2>3, <2>4, <2>5, <2>6, <2>7, <2>8, <2>9, <2>10 DEF Next
<1> QED BY <1>1, <1>2, PtyTypes, PtyBooting, PtyExclusive, PTL DEF Spec

\* No process is left behind, whatever is created, killed, removed, disposed of, respawned
\* or restored meanwhile, in every instance.
THEOREM PtyNoOrphan == Spec => []NoOrphanProcess
<1>1. Owned /\ Clean => NoOrphanProcess
  BY DEF Owned
<1> QED BY <1>1, PtyOwned, PTL
=============================================================================
