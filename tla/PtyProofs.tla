----------------------------- MODULE PtyProofs -----------------------------
(***************************************************************************)
(* The session manager's promises for any number of clients, ids, restarts *)
(* and events: the types of PtyManager's state, and what follows for its   *)
(* allocator and its store.  First come the lemmas on the methods of       *)
(* struct Inner (PtyInner): what each does to an Inner whose incarnations  *)
(* are all below its allocator's next one, field by field and id by id.    *)
(* The proofs about PtyManager use them in place of the methods'           *)
(* definitions.                                                            *)
(***************************************************************************)
EXTENDS PtyManager, WellFoundedInduction, TLAPS

Given(n)  == 1..(n - 1)
OrNone(n) == 0..(n - 1)
NameSet   == Names \cup {NoName}

TombOf(n)   == [inc : OrNone(n), will : BOOLEAN, unavail : BOOLEAN]
FailedOf(n) == [inc : OrNone(n), unavail : BOOLEAN]
InnerOf(n)  ==
  [live : [Ids -> OrNone(n)], dead : [Ids -> TombOf(n)], failed : [Ids -> FailedOf(n)],
   pending : [Ids -> OrNone(n)], killed : SUBSET Ids, suppress : [Ids -> Nat],
   next : {n}, generation : Nat, closing : BOOLEAN]

\* The commands a failed operation leaves to be sent, one by one, for one id.
FailureKinds == {"SessionDead", "SessionTargetUnavailable"}
MarksOf(n, id) == [kind : FailureKinds, id : {id}, inc : Given(n)]
UpsertsOf(n, id) ==
  [kind : {"SessionTargetUnavailableUpsert"}, id : {id}, inc : Given(n), name : NameSet]

EntryOf(n) == {e \in Entry : e.inc < n /\ e.removal < n}

\* An id stands for the same in both.
Same(r, in, j) == /\ r.live[j] = in.live[j] /\ r.dead[j] = in.dead[j]
                  /\ r.failed[j] = in.failed[j] /\ r.pending[j] = in.pending[j]

\* A method that concerns one id leaves the others, the generation and closing alone.
Local(r, in, id) == /\ \A j \in Ids \ {id} : Same(r, in, j)
                    /\ r.generation = in.generation /\ r.closing = in.closing

-----------------------------------------------------------------------------

\* The type of each field.
LEMMA InnerFields ==
  ASSUME NEW n \in Nat, NEW in \in InnerOf(n)
  PROVE  /\ in.live \in [Ids -> OrNone(n)] /\ in.dead \in [Ids -> TombOf(n)]
         /\ in.failed \in [Ids -> FailedOf(n)] /\ in.pending \in [Ids -> OrNone(n)]
         /\ in.killed \in SUBSET Ids /\ in.suppress \in [Ids -> Nat]
         /\ in.next = n /\ in.generation \in Nat /\ in.closing \in BOOLEAN
BY DEF InnerOf

\* And of each id's share of them.
LEMMA InnerAtId ==
  ASSUME NEW n \in Nat, NEW in \in InnerOf(n), NEW id \in Ids
  PROVE  /\ in.live[id] \in OrNone(n) /\ in.pending[id] \in OrNone(n)
         /\ in.dead[id] \in TombOf(n) /\ in.failed[id] \in FailedOf(n)
         /\ in.dead[id].inc \in OrNone(n) /\ in.failed[id].inc \in OrNone(n)
         /\ in.dead[id].will \in BOOLEAN /\ in.dead[id].unavail \in BOOLEAN
         /\ in.failed[id].unavail \in BOOLEAN /\ in.suppress[id] \in Nat
<1>1. /\ in.live[id] \in OrNone(n) /\ in.pending[id] \in OrNone(n)
      /\ in.dead[id] \in TombOf(n) /\ in.failed[id] \in FailedOf(n) /\ in.suppress[id] \in Nat
  BY InnerFields
<1> QED BY <1>1 DEF TombOf, FailedOf

\* No tombstone and no failed session are always a tombstone and a failed session.
LEMMA NoneType ==
  ASSUME NEW n \in Nat \ {0}
  PROVE  NoTomb \in TombOf(n) /\ NoFailed \in FailedOf(n) /\ 0 \in OrNone(n)
BY DEF NoTomb, NoFailed, TombOf, FailedOf, OrNone

\* Inner::new is empty.
LEMMA NewInnerFacts ==
  ASSUME NEW n \in Nat \ {0}
  PROVE  LET r == NewInner(n) IN
         /\ r \in InnerOf(n) /\ r.next = n /\ r.generation = 0 /\ r.killed = {}
         /\ \A id \in Ids : /\ r.live[id] = 0 /\ r.dead[id] = NoTomb
                            /\ r.failed[id] = NoFailed /\ r.pending[id] = 0
<1> DEFINE z == [id \in Ids |-> 0]
           d == [id \in Ids |-> NoTomb]
           f == [id \in Ids |-> NoFailed]
           r == NewInner(n)
<1>1. z \in [Ids -> OrNone(n)] /\ z \in [Ids -> Nat] /\ d \in [Ids -> TombOf(n)]
      /\ f \in [Ids -> FailedOf(n)]
  BY NoneType
<1>2. r = [live |-> z, dead |-> d, failed |-> f, pending |-> z, killed |-> {}, suppress |-> z,
           next |-> n, generation |-> 0, closing |-> FALSE]
  BY DEF NewInner
<1> HIDE DEF z, d, f, r
<1>3. r \in InnerOf(n)
  BY <1>1, <1>2 DEF InnerOf
<1>4. /\ r.live = z /\ r.dead = d /\ r.failed = f /\ r.pending = z /\ r.killed = {}
      /\ r.next = n /\ r.generation = 0
  BY <1>2
<1> QED BY <1>3, <1>4 DEF r, z, d, f

\* kill_internal_impl takes the id down, and leaves a tombstone of what was live.
LEMMA KillFacts ==
  ASSUME NEW n \in Nat \ {0}, NEW in \in InnerOf(n), NEW id \in Ids, NEW s \in BOOLEAN
  PROVE  LET r == kill_internal_impl(in, id, s) IN
         /\ r \in InnerOf(n) /\ Local(r, in, id)
         /\ r.live[id] = 0 /\ r.pending[id] = 0 /\ r.failed[id] = in.failed[id]
         /\ r.dead[id] = IF in.live[id] = 0 THEN in.dead[id] ELSE Tombstone(in.live[id], FALSE)
         /\ r.killed = in.killed \cup {id}
<1> DEFINE p == [in.pending EXCEPT ![id] = 0]
           l == [in.live EXCEPT ![id] = 0]
           d == [in.dead EXCEPT ![id] = Tombstone(in.live[id], FALSE)]
           u == [in.suppress EXCEPT ![id] = IF s THEN in.suppress[id] + 1 ELSE in.suppress[id]]
           k == in.killed \cup {id}
           r == kill_internal_impl(in, id, s)
<1>0. /\ in.live \in [Ids -> OrNone(n)] /\ in.dead \in [Ids -> TombOf(n)]
      /\ in.failed \in [Ids -> FailedOf(n)] /\ in.pending \in [Ids -> OrNone(n)]
      /\ in.killed \in SUBSET Ids /\ in.suppress \in [Ids -> Nat] /\ 0 \in OrNone(n)
  BY InnerFields, NoneType
<1> USE <1>0
<1>1. p \in [Ids -> OrNone(n)] /\ k \in SUBSET Ids /\ l \in [Ids -> OrNone(n)]
  OBVIOUS
<1>2. d \in [Ids -> TombOf(n)]
  BY DEF TombOf, Tombstone
<1>3. u \in [Ids -> Nat]
  OBVIOUS
<1>4. CASE in.live[id] = 0
  <2>1. r = [in EXCEPT !.killed = k, !.pending = p]
    BY <1>4 DEF kill_internal_impl
  <2> HIDE DEF p, k, l, d, u, r
  <2>2. /\ r \in InnerOf(n) /\ r.killed = k /\ r.pending = p /\ r.live = in.live
        /\ r.dead = in.dead /\ r.failed = in.failed /\ r.generation = in.generation
        /\ r.closing = in.closing
    BY <1>1, <2>1 DEF InnerOf
  <2>3. Local(r, in, id)
    BY <2>2 DEF Local, Same, p
  <2>4. r.live[id] = 0 /\ r.pending[id] = 0 /\ r.failed[id] = in.failed[id]
    BY <1>4, <2>2 DEF p
  <2> QED BY <1>4, <2>2, <2>3, <2>4 DEF r, k
<1>5. CASE in.live[id] # 0
  <2>1. r = [in EXCEPT !.killed = k, !.pending = p, !.live = l, !.dead = d, !.suppress = u]
    BY <1>5 DEF kill_internal_impl, InnerOf
  <2> HIDE DEF p, k, l, d, u, r
  <2>2. /\ r \in InnerOf(n) /\ r.killed = k /\ r.pending = p /\ r.live = l /\ r.dead = d
        /\ r.failed = in.failed /\ r.generation = in.generation /\ r.closing = in.closing
    BY <1>1, <1>2, <1>3, <2>1 DEF InnerOf
  <2>3. Local(r, in, id)
    BY <2>2 DEF Local, Same, p, l, d
  <2>4. r.live[id] = 0 /\ r.pending[id] = 0 /\ r.failed[id] = in.failed[id]
    BY <2>2 DEF p, l
  <2>5. r.dead[id] = Tombstone(in.live[id], FALSE)
    <3>1. in.dead \in [Ids -> TombOf(n)]
      OBVIOUS
    <3> QED BY <2>2, <3>1 DEF d
  <2> QED BY <1>5, <2>2, <2>3, <2>4, <2>5 DEF r, k
<1> QED BY <1>4, <1>5

\* What the allocator's next step is allowed to name grows.
LEMMA TypesGrow ==
  ASSUME NEW n \in Nat \ {0}
  PROVE  /\ OrNone(n) \subseteq OrNone(n + 1) /\ Given(n) \subseteq Given(n + 1)
         /\ TombOf(n) \subseteq TombOf(n + 1) /\ FailedOf(n) \subseteq FailedOf(n + 1)
         /\ n \in Given(n + 1) /\ n \in OrNone(n + 1)
<1>1. OrNone(n) \subseteq OrNone(n + 1) /\ Given(n) \subseteq Given(n + 1)
      /\ n \in Given(n + 1) /\ n \in OrNone(n + 1)
  BY DEF OrNone, Given
<1> QED BY <1>1 DEF TombOf, FailedOf

\* allocate_incarnation changes nothing but the allocator.
LEMMA AllocateFacts ==
  ASSUME NEW n \in Nat \ {0}, NEW in \in InnerOf(n)
  PROVE  LET r == allocate_incarnation(in) IN
         /\ r \in InnerOf(n + 1) /\ r.next = n + 1
         /\ \A j \in Ids : Same(r, in, j)
         /\ r.killed = in.killed /\ r.generation = in.generation /\ r.closing = in.closing
<1> DEFINE r == allocate_incarnation(in)
<1> USE InnerFields
<1>1. r = [in EXCEPT !.next = n + 1]
  BY DEF allocate_incarnation
<1> HIDE DEF r
<1>2. /\ r.live = in.live /\ r.dead = in.dead /\ r.failed = in.failed /\ r.pending = in.pending
      /\ r.killed = in.killed /\ r.generation = in.generation /\ r.closing = in.closing
      /\ r.next = n + 1
  BY <1>1 DEF InnerOf
<1>3. /\ in.live \in [Ids -> OrNone(n + 1)] /\ in.dead \in [Ids -> TombOf(n + 1)]
      /\ in.failed \in [Ids -> FailedOf(n + 1)] /\ in.pending \in [Ids -> OrNone(n + 1)]
  BY TypesGrow
<1>4. r \in InnerOf(n + 1)
  BY <1>1, <1>3 DEF InnerOf
<1> QED BY <1>2, <1>4 DEF r, Same

\* begin_replacement takes the next incarnation for the id.
LEMMA BeginFacts ==
  ASSUME NEW n \in Nat \ {0}, NEW in \in InnerOf(n), NEW id \in Ids
  PROVE  LET r == begin_replacement(in, id) IN
         /\ r \in InnerOf(n + 1) /\ r.next = n + 1 /\ Local(r, in, id)
         /\ r.live[id] = in.live[id] /\ r.dead[id] = in.dead[id]
         /\ r.failed[id] = NoFailed /\ r.pending[id] = n
         /\ r.killed = in.killed
<1> DEFINE q == allocate_incarnation(in)
           f == [q.failed EXCEPT ![id] = NoFailed]
           p == [q.pending EXCEPT ![id] = in.next]
           r == begin_replacement(in, id)
<1>1. r = [q EXCEPT !.failed = f, !.pending = p]
  BY DEF begin_replacement
<1>0. in.next = n
  BY InnerFields
<1>2. /\ q \in InnerOf(n + 1) /\ q.next = n + 1 /\ \A j \in Ids : Same(q, in, j)
      /\ q.killed = in.killed /\ q.generation = in.generation /\ q.closing = in.closing
  BY AllocateFacts
<1> HIDE DEF q
<1>3. /\ q.live \in [Ids -> OrNone(n + 1)] /\ q.dead \in [Ids -> TombOf(n + 1)]
      /\ q.failed \in [Ids -> FailedOf(n + 1)] /\ q.pending \in [Ids -> OrNone(n + 1)]
  BY <1>2, InnerFields
<1>4. NoFailed \in FailedOf(n + 1) /\ n \in OrNone(n + 1)
  BY NoneType, TypesGrow
<1>5. f \in [Ids -> FailedOf(n + 1)] /\ p \in [Ids -> OrNone(n + 1)]
  BY <1>0, <1>3, <1>4
<1> HIDE DEF f, p, r
<1>6. /\ r \in InnerOf(n + 1) /\ r.next = n + 1 /\ r.failed = f /\ r.pending = p
      /\ r.live = q.live /\ r.dead = q.dead /\ r.killed = q.killed
      /\ r.generation = q.generation /\ r.closing = q.closing
  BY <1>1, <1>2, <1>5 DEF InnerOf
<1>7. Local(r, in, id)
  BY <1>2, <1>3, <1>6 DEF Local, Same, f, p
<1>8. /\ r.live[id] = in.live[id] /\ r.dead[id] = in.dead[id]
      /\ r.failed[id] = NoFailed /\ r.pending[id] = n
  BY <1>0, <1>2, <1>3, <1>6 DEF Same, f, p
<1> QED BY <1>2, <1>6, <1>7, <1>8 DEF r

\* finish_replacement ends the replacement if it is still the current one.
LEMMA FinishFacts ==
  ASSUME NEW n \in Nat \ {0}, NEW in \in InnerOf(n), NEW id \in Ids,
         NEW inc
  PROVE  LET r == finish_replacement(in, id, inc) IN
         /\ r \in InnerOf(n) /\ Local(r, in, id)
         /\ r.live[id] = in.live[id] /\ r.dead[id] = in.dead[id] /\ r.failed[id] = in.failed[id]
         /\ r.pending[id] = IF in.pending[id] = inc THEN 0 ELSE in.pending[id]
         /\ r.killed = in.killed
<1> DEFINE p == [in.pending EXCEPT ![id] = 0]
           r == finish_replacement(in, id, inc)
<1>0. /\ in.live \in [Ids -> OrNone(n)] /\ in.dead \in [Ids -> TombOf(n)]
      /\ in.failed \in [Ids -> FailedOf(n)] /\ in.pending \in [Ids -> OrNone(n)]
      /\ in.killed \in SUBSET Ids /\ in.suppress \in [Ids -> Nat] /\ 0 \in OrNone(n)
  BY InnerFields, NoneType
<1> USE <1>0
<1>1. CASE in.pending[id] = inc
  <2>1. p \in [Ids -> OrNone(n)]
    OBVIOUS
  <2>2. r = [in EXCEPT !.pending = p]
    BY <1>1 DEF finish_replacement, replacement_is_current
  <2> HIDE DEF p, r
  <2>3. /\ r \in InnerOf(n) /\ r.live = in.live /\ r.dead = in.dead /\ r.failed = in.failed
        /\ r.pending = p /\ r.killed = in.killed /\ r.generation = in.generation
        /\ r.closing = in.closing
    BY <2>1, <2>2 DEF InnerOf
  <2>4. Local(r, in, id)
    BY <2>3 DEF Local, Same, p
  <2>5. r.pending[id] = 0
    BY <2>3 DEF p
  <2> QED BY <1>1, <2>3, <2>4, <2>5 DEF r
<1>2. CASE in.pending[id] # inc
  <2>1. r = in
    BY <1>2 DEF finish_replacement, replacement_is_current
  <2> QED BY <1>2, <2>1 DEF Local, Same
<1> QED BY <1>1, <1>2

\* prune_killed_markers only forgets ids that stand for nothing.
LEMMA PruneFacts ==
  ASSUME NEW n \in Nat \ {0}, NEW in \in InnerOf(n)
  PROVE  LET r == prune_killed_markers(in) IN
         /\ r \in InnerOf(n)
         /\ \A j \in Ids : Same(r, in, j)
         /\ r.killed \subseteq in.killed
         /\ \A j \in in.killed \ r.killed : /\ in.live[j] = 0 /\ in.dead[j].inc = 0
                                            /\ in.failed[j].inc = 0 /\ in.pending[j] = 0
         /\ r.generation = in.generation /\ r.closing = in.closing
<1> DEFINE k == {j \in in.killed : \/ in.live[j] # 0 \/ in.dead[j].inc # 0
                                  \/ in.failed[j].inc # 0 \/ in.pending[j] # 0}
           r == prune_killed_markers(in)
<1>0. /\ in.live \in [Ids -> OrNone(n)] /\ in.dead \in [Ids -> TombOf(n)]
      /\ in.failed \in [Ids -> FailedOf(n)] /\ in.pending \in [Ids -> OrNone(n)]
      /\ in.killed \in SUBSET Ids /\ in.suppress \in [Ids -> Nat] /\ in.generation \in Nat
      /\ 0 \in OrNone(n) /\ NoTomb \in TombOf(n) /\ NoFailed \in FailedOf(n)
  BY InnerFields, NoneType
<1> USE <1>0
<1>1. k \in SUBSET Ids
  OBVIOUS
<1>2. r = [in EXCEPT !.killed = k]
  BY DEF prune_killed_markers
<1> HIDE DEF k, r
<1>3. /\ r \in InnerOf(n)
      /\ r.live = in.live
      /\ r.dead = in.dead
      /\ r.failed = in.failed
      /\ r.pending = in.pending
      /\ r.killed = k
      /\ r.generation = in.generation
      /\ r.closing = in.closing
  BY <1>1, <1>2 DEF InnerOf
<1>4. \A j \in Ids : Same(r, in, j)
  BY <1>3 DEF k, Same
<1>5. r.killed \subseteq in.killed
  BY <1>3 DEF k
<1>6. \A j \in in.killed \ r.killed : /\ in.live[j] = 0 /\ in.dead[j].inc = 0
                                            /\ in.failed[j].inc = 0 /\ in.pending[j] = 0
  BY <1>3 DEF k
<1>7. r.generation = in.generation /\ r.closing = in.closing
  BY <1>3 DEF k
<1> QED BY <1>3, <1>4, <1>5, <1>6, <1>7 DEF r

\* consume_suppressed_exit changes a counter that stands for no session.
LEMMA ConsumeFacts ==
  ASSUME NEW n \in Nat \ {0}, NEW in \in InnerOf(n), NEW id \in Ids
  PROVE  LET r == consume_suppressed_exit(in, id) IN
         /\ r \in InnerOf(n) /\ Local(r, in, id)
         /\ Same(r, in, id)
         /\ r.killed = in.killed
<1> DEFINE u == [in.suppress EXCEPT ![id] = in.suppress[id] - 1]
           r == consume_suppressed_exit(in, id)
<1>0. /\ in.live \in [Ids -> OrNone(n)] /\ in.dead \in [Ids -> TombOf(n)]
      /\ in.failed \in [Ids -> FailedOf(n)] /\ in.pending \in [Ids -> OrNone(n)]
      /\ in.killed \in SUBSET Ids /\ in.suppress \in [Ids -> Nat] /\ 0 \in OrNone(n)
  BY InnerFields, NoneType
<1> USE <1>0
<1>1. CASE in.suppress[id] # 0
  <2>1. u \in [Ids -> Nat]
    BY <1>1
  <2>2. r = [in EXCEPT !.suppress = u]
    BY <1>1 DEF consume_suppressed_exit
  <2> HIDE DEF u, r
  <2>3. /\ r \in InnerOf(n) /\ r.live = in.live /\ r.dead = in.dead /\ r.failed = in.failed
        /\ r.pending = in.pending /\ r.killed = in.killed /\ r.generation = in.generation
        /\ r.closing = in.closing
    BY <2>1, <2>2 DEF InnerOf
  <2> QED BY <2>3 DEF Local, Same, r
<1>2. CASE in.suppress[id] = 0
  <2>1. r = in
    BY <1>2 DEF consume_suppressed_exit
  <2> QED BY <2>1 DEF Local, Same
<1> QED BY <1>1, <1>2

\* RemoveIdentity leaves nothing of the id but the mark that it was killed.
LEMMA RemoveFacts ==
  ASSUME NEW n \in Nat \ {0}, NEW in \in InnerOf(n), NEW id \in Ids
  PROVE  LET r == RemoveIdentity(in, id) IN
         /\ r \in InnerOf(n) /\ Local(r, in, id)
         /\ r.live[id] = 0 /\ r.dead[id] = NoTomb /\ r.failed[id] = NoFailed /\ r.pending[id] = 0
         /\ r.killed = in.killed \cup {id}
<1> DEFINE l == [in.live EXCEPT ![id] = 0]
           d == [in.dead EXCEPT ![id] = NoTomb]
           f == [in.failed EXCEPT ![id] = NoFailed]
           p == [in.pending EXCEPT ![id] = 0]
           k == in.killed \cup {id}
           r == RemoveIdentity(in, id)
<1>0. /\ in.live \in [Ids -> OrNone(n)] /\ in.dead \in [Ids -> TombOf(n)]
      /\ in.failed \in [Ids -> FailedOf(n)] /\ in.pending \in [Ids -> OrNone(n)]
      /\ in.killed \in SUBSET Ids /\ in.suppress \in [Ids -> Nat] /\ in.generation \in Nat
      /\ 0 \in OrNone(n) /\ NoTomb \in TombOf(n) /\ NoFailed \in FailedOf(n)
  BY InnerFields, NoneType
<1> USE <1>0
<1>1. l \in [Ids -> OrNone(n)]
  OBVIOUS
<1>2. d \in [Ids -> TombOf(n)]
  OBVIOUS
<1>3. f \in [Ids -> FailedOf(n)]
  OBVIOUS
<1>4. p \in [Ids -> OrNone(n)]
  OBVIOUS
<1>5. k \in SUBSET Ids
  OBVIOUS
<1>6. r = [in EXCEPT !.live = l, !.dead = d, !.failed = f, !.pending = p, !.killed = k]
  BY DEF RemoveIdentity
<1> HIDE DEF l, d, f, p, k, r
<1>7. /\ r \in InnerOf(n)
      /\ r.live = l
      /\ r.dead = d
      /\ r.failed = f
      /\ r.pending = p
      /\ r.killed = k
      /\ r.generation = in.generation
      /\ r.closing = in.closing
  BY <1>1, <1>2, <1>3, <1>4, <1>5, <1>6 DEF InnerOf
<1>8. Local(r, in, id)
  BY <1>7 DEF Local, Same, l, d, f, p
<1>9. r.live[id] = 0 /\ r.dead[id] = NoTomb /\ r.failed[id] = NoFailed /\ r.pending[id] = 0
  BY <1>7 DEF l, d, f, p, k
<1>10. r.killed = in.killed \cup {id}
  BY <1>7 DEF l, d, f, p, k
<1> QED BY <1>7, <1>8, <1>9, <1>10 DEF r

\* restore_unavailable_session leaves the id with a tombstone only.
LEMMA UnavailableFacts ==
  ASSUME NEW n \in Nat \ {0}, NEW in \in InnerOf(n), NEW id \in Ids,
         NEW inc \in OrNone(n)
  PROVE  LET r == restore_unavailable_session(in, id, inc) IN
         /\ r \in InnerOf(n) /\ Local(r, in, id)
         /\ r.live[id] = 0 /\ r.dead[id] = UnavailableTombstone(inc)
         /\ r.failed[id] = NoFailed /\ r.pending[id] = 0
         /\ r.killed = in.killed \ {id}
<1> DEFINE l == [in.live EXCEPT ![id] = 0]
           d == [in.dead EXCEPT ![id] = UnavailableTombstone(inc)]
           f == [in.failed EXCEPT ![id] = NoFailed]
           p == [in.pending EXCEPT ![id] = 0]
           k == in.killed \ {id}
           r == restore_unavailable_session(in, id, inc)
<1>0. /\ in.live \in [Ids -> OrNone(n)] /\ in.dead \in [Ids -> TombOf(n)]
      /\ in.failed \in [Ids -> FailedOf(n)] /\ in.pending \in [Ids -> OrNone(n)]
      /\ in.killed \in SUBSET Ids /\ in.suppress \in [Ids -> Nat] /\ in.generation \in Nat
      /\ 0 \in OrNone(n) /\ NoTomb \in TombOf(n) /\ NoFailed \in FailedOf(n)
  BY InnerFields, NoneType
<1> USE <1>0
<1>1. l \in [Ids -> OrNone(n)]
  OBVIOUS
<1>2. d \in [Ids -> TombOf(n)]
  BY DEF TombOf, UnavailableTombstone
<1>3. f \in [Ids -> FailedOf(n)]
  OBVIOUS
<1>4. p \in [Ids -> OrNone(n)]
  OBVIOUS
<1>5. k \in SUBSET Ids
  OBVIOUS
<1>6. r = [in EXCEPT !.live = l, !.dead = d, !.failed = f, !.pending = p, !.killed = k]
  BY DEF restore_unavailable_session
<1> HIDE DEF l, d, f, p, k, r
<1>7. /\ r \in InnerOf(n)
      /\ r.live = l
      /\ r.dead = d
      /\ r.failed = f
      /\ r.pending = p
      /\ r.killed = k
      /\ r.generation = in.generation
      /\ r.closing = in.closing
  BY <1>1, <1>2, <1>3, <1>4, <1>5, <1>6 DEF InnerOf
<1>8. Local(r, in, id)
  BY <1>7 DEF Local, Same, l, d, f, p
<1>9. r.live[id] = 0 /\ r.dead[id] = UnavailableTombstone(inc)
  BY <1>7 DEF l, d, f, p, k
<1>10. r.failed[id] = NoFailed /\ r.pending[id] = 0
  BY <1>7 DEF l, d, f, p, k
<1>11. r.killed = in.killed \ {id}
  BY <1>7 DEF l, d, f, p, k
<1> QED BY <1>7, <1>8, <1>9, <1>10, <1>11 DEF r

\* What CreatePublish and SupPublish do to Inner.
Published(in, id, inc) == [in EXCEPT !.dead[id] = NoTomb, !.killed = @ \ {id}, !.live[id] = inc]

\* A create or a respawn publishes its session.
LEMMA PublishFacts ==
  ASSUME NEW n \in Nat \ {0}, NEW in \in InnerOf(n), NEW id \in Ids,
         NEW inc \in OrNone(n)
  PROVE  LET r == Published(in, id, inc) IN
         /\ r \in InnerOf(n) /\ Local(r, in, id)
         /\ r.live[id] = inc /\ r.dead[id] = NoTomb
         /\ r.failed[id] = in.failed[id] /\ r.pending[id] = in.pending[id]
         /\ r.killed = in.killed \ {id}
<1> DEFINE l == [in.live EXCEPT ![id] = inc]
           d == [in.dead EXCEPT ![id] = NoTomb]
           k == in.killed \ {id}
           r == Published(in, id, inc)
<1>0. /\ in.live \in [Ids -> OrNone(n)] /\ in.dead \in [Ids -> TombOf(n)]
      /\ in.failed \in [Ids -> FailedOf(n)] /\ in.pending \in [Ids -> OrNone(n)]
      /\ in.killed \in SUBSET Ids /\ in.suppress \in [Ids -> Nat] /\ in.generation \in Nat
      /\ 0 \in OrNone(n) /\ NoTomb \in TombOf(n) /\ NoFailed \in FailedOf(n)
  BY InnerFields, NoneType
<1> USE <1>0
<1>1. l \in [Ids -> OrNone(n)]
  OBVIOUS
<1>2. d \in [Ids -> TombOf(n)]
  OBVIOUS
<1>3. k \in SUBSET Ids
  OBVIOUS
<1>4. r = [in EXCEPT !.live = l, !.dead = d, !.killed = k]
  BY DEF Published
<1> HIDE DEF l, d, k, r
<1>5. /\ r \in InnerOf(n)
      /\ r.live = l
      /\ r.dead = d
      /\ r.failed = in.failed
      /\ r.pending = in.pending
      /\ r.killed = k
      /\ r.generation = in.generation
      /\ r.closing = in.closing
  BY <1>1, <1>2, <1>3, <1>4 DEF InnerOf
<1>6. Local(r, in, id)
  BY <1>5 DEF Local, Same, l, d
<1>7. r.live[id] = inc /\ r.dead[id] = NoTomb
  BY <1>5 DEF l, d, k
<1>8. r.failed[id] = in.failed[id] /\ r.pending[id] = in.pending[id]
  BY <1>5 DEF l, d, k
<1>9. r.killed = in.killed \ {id}
  BY <1>5 DEF l, d, k
<1> QED BY <1>5, <1>6, <1>7, <1>8, <1>9 DEF r

\* What OwnerExit and a failed start do to Inner.
ToTomb(in, id, t) == [in EXCEPT !.live[id] = 0, !.dead[id] = t]

\* The live session of the id gives way to a tombstone.
LEMMA ExitFacts ==
  ASSUME NEW n \in Nat \ {0}, NEW in \in InnerOf(n), NEW id \in Ids,
         NEW t \in TombOf(n)
  PROVE  LET r == ToTomb(in, id, t) IN
         /\ r \in InnerOf(n) /\ Local(r, in, id)
         /\ r.live[id] = 0 /\ r.dead[id] = t
         /\ r.failed[id] = in.failed[id] /\ r.pending[id] = in.pending[id]
         /\ r.killed = in.killed
<1> DEFINE l == [in.live EXCEPT ![id] = 0]
           d == [in.dead EXCEPT ![id] = t]
           r == ToTomb(in, id, t)
<1>0. /\ in.live \in [Ids -> OrNone(n)] /\ in.dead \in [Ids -> TombOf(n)]
      /\ in.failed \in [Ids -> FailedOf(n)] /\ in.pending \in [Ids -> OrNone(n)]
      /\ in.killed \in SUBSET Ids /\ in.suppress \in [Ids -> Nat] /\ in.generation \in Nat
      /\ 0 \in OrNone(n) /\ NoTomb \in TombOf(n) /\ NoFailed \in FailedOf(n)
  BY InnerFields, NoneType
<1> USE <1>0
<1>1. l \in [Ids -> OrNone(n)]
  OBVIOUS
<1>2. d \in [Ids -> TombOf(n)]
  OBVIOUS
<1>3. r = [in EXCEPT !.live = l, !.dead = d]
  BY DEF ToTomb
<1> HIDE DEF l, d, r
<1>4. /\ r \in InnerOf(n)
      /\ r.live = l
      /\ r.dead = d
      /\ r.failed = in.failed
      /\ r.pending = in.pending
      /\ r.killed = in.killed
      /\ r.generation = in.generation
      /\ r.closing = in.closing
  BY <1>1, <1>2, <1>3 DEF InnerOf
<1>5. Local(r, in, id)
  BY <1>4 DEF Local, Same, l, d
<1>6. r.live[id] = 0 /\ r.dead[id] = t
  BY <1>4 DEF l, d
<1>7. r.failed[id] = in.failed[id] /\ r.pending[id] = in.pending[id]
  BY <1>4 DEF l, d
<1>8. r.killed = in.killed
  BY <1>4 DEF l, d
<1> QED BY <1>4, <1>5, <1>6, <1>7, <1>8 DEF r

\* What the start and the failure of a dispose do to Inner.
AtGeneration(in, g) == [in EXCEPT !.generation = g]

\* Only the generation changes.
LEMMA GenerationFacts ==
  ASSUME NEW n \in Nat \ {0}, NEW in \in InnerOf(n),
         NEW g \in Nat
  PROVE  LET r == AtGeneration(in, g) IN
         /\ r \in InnerOf(n)
         /\ \A j \in Ids : Same(r, in, j)
         /\ r.killed = in.killed /\ r.generation = g /\ r.closing = in.closing
<1> DEFINE g1 == g
           r == AtGeneration(in, g)
<1>0. /\ in.live \in [Ids -> OrNone(n)] /\ in.dead \in [Ids -> TombOf(n)]
      /\ in.failed \in [Ids -> FailedOf(n)] /\ in.pending \in [Ids -> OrNone(n)]
      /\ in.killed \in SUBSET Ids /\ in.suppress \in [Ids -> Nat] /\ in.generation \in Nat
      /\ 0 \in OrNone(n) /\ NoTomb \in TombOf(n) /\ NoFailed \in FailedOf(n)
  BY InnerFields, NoneType
<1> USE <1>0
<1>1. g1 \in Nat
  OBVIOUS
<1>2. r = [in EXCEPT !.generation = g1]
  BY DEF AtGeneration
<1> HIDE DEF g1, r
<1>3. /\ r \in InnerOf(n)
      /\ r.live = in.live
      /\ r.dead = in.dead
      /\ r.failed = in.failed
      /\ r.pending = in.pending
      /\ r.killed = in.killed
      /\ r.generation = g1
      /\ r.closing = in.closing
  BY <1>1, <1>2 DEF InnerOf
<1>4. \A j \in Ids : Same(r, in, j)
  BY <1>3 DEF g1, Same
<1>5. r.killed = in.killed /\ r.generation = g /\ r.closing = in.closing
  BY <1>3 DEF g1
<1> QED BY <1>3, <1>4, <1>5 DEF r

\* stop_all_for_shutdown keeps the live sessions and the tombstones.
LEMMA StopFacts ==
  ASSUME NEW n \in Nat \ {0}, NEW in \in InnerOf(n)
  PROVE  LET r == stop_all_for_shutdown(in) IN
         /\ r \in InnerOf(n)
         /\ \A j \in Ids : /\ r.live[j] = in.live[j] /\ r.dead[j] = in.dead[j]
                          /\ r.failed[j] = NoFailed /\ r.pending[j] = 0
         /\ in.killed \subseteq r.killed
         /\ r.generation = in.generation /\ r.closing = in.closing
<1> DEFINE f == [j \in Ids |-> NoFailed]
           p == [j \in Ids |-> 0]
           k == in.killed \cup {j \in Ids : in.live[j] # 0 \/ in.dead[j].inc # 0}
           r == stop_all_for_shutdown(in)
<1>0. /\ in.live \in [Ids -> OrNone(n)] /\ in.dead \in [Ids -> TombOf(n)]
      /\ in.failed \in [Ids -> FailedOf(n)] /\ in.pending \in [Ids -> OrNone(n)]
      /\ in.killed \in SUBSET Ids /\ in.suppress \in [Ids -> Nat] /\ in.generation \in Nat
      /\ 0 \in OrNone(n) /\ NoTomb \in TombOf(n) /\ NoFailed \in FailedOf(n)
  BY InnerFields, NoneType
<1> USE <1>0
<1>1. f \in [Ids -> FailedOf(n)]
  OBVIOUS
<1>2. p \in [Ids -> OrNone(n)]
  OBVIOUS
<1>3. k \in SUBSET Ids
  OBVIOUS
<1>4. r = [in EXCEPT !.failed = f, !.pending = p, !.killed = k]
  BY DEF stop_all_for_shutdown
<1> HIDE DEF f, p, k, r
<1>5. /\ r \in InnerOf(n)
      /\ r.live = in.live
      /\ r.dead = in.dead
      /\ r.failed = f
      /\ r.pending = p
      /\ r.killed = k
      /\ r.generation = in.generation
      /\ r.closing = in.closing
  BY <1>1, <1>2, <1>3, <1>4 DEF InnerOf
<1>6. \A j \in Ids : /\ r.live[j] = in.live[j] /\ r.dead[j] = in.dead[j]
                          /\ r.failed[j] = NoFailed /\ r.pending[j] = 0
  BY <1>5 DEF f, p, k
<1>7. in.killed \subseteq r.killed
  BY <1>5 DEF f, p, k
<1>8. r.generation = in.generation /\ r.closing = in.closing
  BY <1>5 DEF f, p, k
<1> QED BY <1>5, <1>6, <1>7, <1>8 DEF r

\* dispose_internal's last critical section empties the maps.
LEMMA DisposeFacts ==
  ASSUME NEW n \in Nat \ {0}, NEW in \in InnerOf(n)
  PROVE  LET r == DisposeAll(in) IN
         /\ r \in InnerOf(n)
         /\ \A j \in Ids : /\ r.live[j] = 0 /\ r.dead[j] = NoTomb
                          /\ r.failed[j] = NoFailed /\ r.pending[j] = 0
         /\ in.killed \subseteq r.killed
         /\ r.generation = in.generation /\ r.closing = in.closing
<1> DEFINE l == [j \in Ids |-> 0]
           d == [j \in Ids |-> NoTomb]
           f == [j \in Ids |-> NoFailed]
           p == [j \in Ids |-> 0]
           k == in.killed \cup {j \in Ids : CurrentIncarnation(in, j) # 0}
           r == DisposeAll(in)
<1>0. /\ in.live \in [Ids -> OrNone(n)] /\ in.dead \in [Ids -> TombOf(n)]
      /\ in.failed \in [Ids -> FailedOf(n)] /\ in.pending \in [Ids -> OrNone(n)]
      /\ in.killed \in SUBSET Ids /\ in.suppress \in [Ids -> Nat] /\ in.generation \in Nat
      /\ 0 \in OrNone(n) /\ NoTomb \in TombOf(n) /\ NoFailed \in FailedOf(n)
  BY InnerFields, NoneType
<1> USE <1>0
<1>1. l \in [Ids -> OrNone(n)]
  OBVIOUS
<1>2. d \in [Ids -> TombOf(n)]
  OBVIOUS
<1>3. f \in [Ids -> FailedOf(n)]
  OBVIOUS
<1>4. p \in [Ids -> OrNone(n)]
  OBVIOUS
<1>5. k \in SUBSET Ids
  OBVIOUS
<1>6. r = [in EXCEPT !.live = l, !.dead = d, !.failed = f, !.pending = p, !.killed = k]
  BY DEF DisposeAll
<1> HIDE DEF l, d, f, p, k, r
<1>7. /\ r \in InnerOf(n)
      /\ r.live = l
      /\ r.dead = d
      /\ r.failed = f
      /\ r.pending = p
      /\ r.killed = k
      /\ r.generation = in.generation
      /\ r.closing = in.closing
  BY <1>1, <1>2, <1>3, <1>4, <1>5, <1>6 DEF InnerOf
<1>8. \A j \in Ids : /\ r.live[j] = 0 /\ r.dead[j] = NoTomb
                          /\ r.failed[j] = NoFailed /\ r.pending[j] = 0
  BY <1>7 DEF l, d, f, p, k
<1>9. in.killed \subseteq r.killed
  BY <1>7 DEF l, d, f, p, k
<1>10. r.generation = in.generation /\ r.closing = in.closing
  BY <1>7 DEF l, d, f, p, k
<1> QED BY <1>7, <1>8, <1>9, <1>10 DEF r

\* What a failed worktree session does to Inner.
Marked(in, id, t, x) == [in EXCEPT !.dead[id] = t, !.failed[id] = x]

\* The id's tombstone and failed session are set.
LEMMA MarkFacts ==
  ASSUME NEW n \in Nat \ {0}, NEW in \in InnerOf(n), NEW id \in Ids,
         NEW t \in TombOf(n), NEW x \in FailedOf(n)
  PROVE  LET r == Marked(in, id, t, x) IN
         /\ r \in InnerOf(n) /\ Local(r, in, id)
         /\ r.live[id] = in.live[id] /\ r.pending[id] = in.pending[id]
         /\ r.dead[id] = t /\ r.failed[id] = x
         /\ r.killed = in.killed
<1> DEFINE d == [in.dead EXCEPT ![id] = t]
           f == [in.failed EXCEPT ![id] = x]
           r == Marked(in, id, t, x)
<1>0. /\ in.live \in [Ids -> OrNone(n)] /\ in.dead \in [Ids -> TombOf(n)]
      /\ in.failed \in [Ids -> FailedOf(n)] /\ in.pending \in [Ids -> OrNone(n)]
      /\ in.killed \in SUBSET Ids /\ in.suppress \in [Ids -> Nat] /\ 0 \in OrNone(n)
      /\ NoTomb \in TombOf(n) /\ NoFailed \in FailedOf(n)
  BY InnerFields, NoneType
<1> USE <1>0
<1>1. d \in [Ids -> TombOf(n)] /\ f \in [Ids -> FailedOf(n)]
  OBVIOUS
<1>2. r = [in EXCEPT !.dead = d, !.failed = f]
  BY DEF Marked
<1> HIDE DEF d, f, r
<1>3. /\ r \in InnerOf(n) /\ r.live = in.live /\ r.dead = d /\ r.failed = f
      /\ r.pending = in.pending /\ r.killed = in.killed /\ r.generation = in.generation
      /\ r.closing = in.closing
  BY <1>1, <1>2 DEF InnerOf
<1>4. Local(r, in, id)
  BY <1>3 DEF Local, Same, d, f
<1>5. /\ r.live[id] = in.live[id] /\ r.pending[id] = in.pending[id]
      /\ r.dead[id] = t /\ r.failed[id] = x
  BY <1>3 DEF d, f
<1> QED BY <1>3, <1>4, <1>5 DEF r

\* What a failed restart does to Inner.
WithTomb(in, id, t) == [in EXCEPT !.dead[id] = t]

\* Only the tombstone of the id is set.
LEMMA TombFacts ==
  ASSUME NEW n \in Nat \ {0}, NEW in \in InnerOf(n), NEW id \in Ids, NEW t \in TombOf(n)
  PROVE  LET r == WithTomb(in, id, t) IN
         /\ r \in InnerOf(n) /\ Local(r, in, id)
         /\ r.live[id] = in.live[id] /\ r.pending[id] = in.pending[id]
         /\ r.dead[id] = t /\ r.failed[id] = in.failed[id]
         /\ r.killed = in.killed
<1> DEFINE d == [in.dead EXCEPT ![id] = t]
           r == WithTomb(in, id, t)
<1>0. /\ in.live \in [Ids -> OrNone(n)] /\ in.dead \in [Ids -> TombOf(n)]
      /\ in.failed \in [Ids -> FailedOf(n)] /\ in.pending \in [Ids -> OrNone(n)]
      /\ in.killed \in SUBSET Ids /\ in.suppress \in [Ids -> Nat] /\ 0 \in OrNone(n)
      /\ NoTomb \in TombOf(n) /\ NoFailed \in FailedOf(n)
  BY InnerFields, NoneType
<1> USE <1>0
<1>1. d \in [Ids -> TombOf(n)]
  OBVIOUS
<1>2. r = [in EXCEPT !.dead = d]
  BY DEF WithTomb
<1> HIDE DEF d, r
<1>3. /\ r \in InnerOf(n) /\ r.live = in.live /\ r.dead = d /\ r.failed = in.failed
      /\ r.pending = in.pending /\ r.killed = in.killed /\ r.generation = in.generation
      /\ r.closing = in.closing
  BY <1>1, <1>2 DEF InnerOf
<1>4. Local(r, in, id)
  BY <1>3 DEF Local, Same, d
<1>5. /\ r.live[id] = in.live[id] /\ r.pending[id] = in.pending[id]
      /\ r.dead[id] = t /\ r.failed[id] = in.failed[id]
  BY <1>3 DEF d
<1> QED BY <1>3, <1>4, <1>5 DEF r

\* evict_identity_after_durable_removal removes the incarnation wherever it stands.
LEMMA EvictFacts ==
  ASSUME NEW n \in Nat \ {0}, NEW in \in InnerOf(n), NEW id \in Ids, NEW inc
  PROVE  LET r == evict_identity_after_durable_removal(in, id, inc)
             found == inc \in {in.live[id], in.dead[id].inc, in.failed[id].inc}
         IN
         /\ r \in InnerOf(n) /\ Local(r, in, id)
         /\ r.live[id] = IF in.live[id] = inc THEN 0 ELSE in.live[id]
         /\ r.dead[id] = IF in.dead[id].inc = inc THEN NoTomb ELSE in.dead[id]
         /\ r.failed[id] = IF in.failed[id].inc = inc THEN NoFailed ELSE in.failed[id]
         /\ r.pending[id] = IF found THEN 0 ELSE in.pending[id]
         /\ r.killed = IF found THEN in.killed \cup {id} ELSE in.killed
<1> DEFINE l == [in.live EXCEPT ![id] = IF in.live[id] = inc THEN 0 ELSE in.live[id]]
           d == [in.dead EXCEPT ![id] = IF in.dead[id].inc = inc THEN NoTomb ELSE in.dead[id]]
           f == [in.failed EXCEPT ![id] = IF in.failed[id].inc = inc THEN NoFailed
                                          ELSE in.failed[id]]
           p == [in.pending EXCEPT ![id] = 0]
           k == in.killed \cup {id}
           r == evict_identity_after_durable_removal(in, id, inc)
           found == inc \in {in.live[id], in.dead[id].inc, in.failed[id].inc}
<1>0. /\ in.live \in [Ids -> OrNone(n)] /\ in.dead \in [Ids -> TombOf(n)]
      /\ in.failed \in [Ids -> FailedOf(n)] /\ in.pending \in [Ids -> OrNone(n)]
      /\ in.killed \in SUBSET Ids /\ in.suppress \in [Ids -> Nat] /\ 0 \in OrNone(n)
      /\ NoTomb \in TombOf(n) /\ NoFailed \in FailedOf(n)
  BY InnerFields, NoneType
<1> USE <1>0
<1>1. CASE found
  <2>1. /\ l \in [Ids -> OrNone(n)] /\ d \in [Ids -> TombOf(n)] /\ f \in [Ids -> FailedOf(n)]
        /\ p \in [Ids -> OrNone(n)] /\ k \in SUBSET Ids
    OBVIOUS
  <2>2. r = [in EXCEPT !.pending = p, !.killed = k, !.live = l, !.dead = d, !.failed = f]
    BY <1>1 DEF evict_identity_after_durable_removal, InnerOf
  <2> HIDE DEF l, d, f, p, k, r
  <2>3. /\ r \in InnerOf(n) /\ r.live = l /\ r.dead = d /\ r.failed = f /\ r.pending = p
        /\ r.killed = k /\ r.generation = in.generation /\ r.closing = in.closing
    BY <2>1, <2>2 DEF InnerOf
  <2>4. Local(r, in, id)
    BY <2>3 DEF Local, Same, l, d, f, p
  <2>5. r.live[id] = IF in.live[id] = inc THEN 0 ELSE in.live[id]
    BY <2>3 DEF l
  <2>6. r.dead[id] = IF in.dead[id].inc = inc THEN NoTomb ELSE in.dead[id]
    BY <2>3 DEF d
  <2>7. r.failed[id] = IF in.failed[id].inc = inc THEN NoFailed ELSE in.failed[id]
    BY <2>3 DEF f
  <2>8. r.pending[id] = 0
    BY <2>3 DEF p
  <2> QED BY <1>1, <2>3, <2>4, <2>5, <2>6, <2>7, <2>8 DEF r, k
<1>2. CASE ~found
  <2>1. r = in
    BY <1>2 DEF evict_identity_after_durable_removal
  <2> QED BY <1>2, <2>1 DEF Local, Same
<1> QED BY <1>1, <1>2

\* The last step of a shutdown: everything is dropped, nothing may be created any more.
LEMMA CloseFacts ==
  ASSUME NEW n \in Nat \ {0}, NEW in \in InnerOf(n)
  PROVE  LET r == [DisposeAll(in) EXCEPT !.closing = TRUE, !.generation = @ + 1] IN
         /\ r \in InnerOf(n) /\ r.killed = DisposeAll(in).killed
         /\ r.generation = in.generation + 1
         /\ \A j \in Ids : Same(r, DisposeAll(in), j)
<1> DEFINE q == DisposeAll(in)
           g == q.generation + 1
           r == [q EXCEPT !.closing = TRUE, !.generation = @ + 1]
<1>1. q \in InnerOf(n) /\ q.generation = in.generation
  BY DisposeFacts
<1> HIDE DEF q
<1>2. g \in Nat
  BY <1>1, InnerFields
<1>3. r = [q EXCEPT !.closing = TRUE, !.generation = g]
  OBVIOUS
<1> HIDE DEF g, r
<1>4. /\ r.live = q.live /\ r.dead = q.dead /\ r.failed = q.failed
      /\ r.pending = q.pending /\ r.killed = q.killed /\ r.generation = g
  BY <1>1, <1>3 DEF InnerOf
<1>5. r \in InnerOf(n)
  BY <1>1, <1>2, <1>3 DEF InnerOf
<1> QED BY <1>1, <1>4, <1>5 DEF Same, q, g, r

\* The identities a dispose removes name incarnations that were handed out.
LEMMA IdentitiesType ==
  ASSUME NEW n \in Nat \ {0}, NEW in \in InnerOf(n)
  PROVE  Identities(in) \subseteq Ids \X Given(n)
<1>1. \A id \in Ids : /\ in.live[id] \in OrNone(n) /\ in.dead[id].inc \in OrNone(n)
                      /\ in.failed[id].inc \in OrNone(n)
  BY InnerAtId
<1> QED BY <1>1 DEF Identities, Given, OrNone

\* The command a failure leaves behind marks the row of that incarnation.
LEMMA FailureCmdType ==
  ASSUME NEW n \in Nat, NEW id \in Ids, NEW inc \in Given(n), NEW un
  PROVE  FailureCmd(id, inc, un) \in MarksOf(n, id)
BY DEF FailureCmd, SessionTargetUnavailable, SessionDead, MarksOf, FailureKinds

\* A SessionDead command is one of the marks of its id.
LEMMA DeadCmdType ==
  ASSUME NEW n \in Nat, NEW id \in Ids, NEW inc \in Given(n)
  PROVE  SessionDead(id, inc) \in MarksOf(n, id)
BY DEF SessionDead, MarksOf, FailureKinds

\* A failure's outcome concerns one id, and only marks are sent.
Outcome(r, in, n, id) == /\ r.inner \in InnerOf(n) /\ Local(r.inner, in, id)
                         /\ r.inner.killed = in.killed
                         /\ r.cmds \in Seq(MarksOf(n, id))

\* Unless somebody else has the id meanwhile, finish_failed_replacement_locked ends the
\* replacement inc: what it published is a tombstone (FailedLive), or the id keeps what it
\* had before (FailedKept), or a worktree session is kept as failed (FailedSession).
FailedStale(r, in, id) == Same(r, in, id)
FailedLive(r, in, id, inc) ==
  /\ in.live[id] = inc /\ r.live[id] = 0 /\ r.dead[id].inc = inc
  /\ r.failed[id] = in.failed[id] /\ r.pending[id] = 0
FailedKept(r, in, id) ==
  /\ in.live[id] = 0 /\ r.live[id] = 0 /\ r.dead[id].inc = in.dead[id].inc
  /\ r.failed[id] = in.failed[id] /\ r.pending[id] = 0
FailedSession(r, in, id, inc) ==
  /\ in.live[id] = 0 /\ r.live[id] = 0 /\ r.dead[id] = NoTomb
  /\ r.failed[id].inc = inc /\ r.pending[id] = 0

FailedReplacement(r, in, id, inc) ==
  \/ FailedStale(r, in, id) /\ ~(in.pending[id] = inc /\ in.live[id] \in {0, inc})
  \/ /\ in.pending[id] = inc
     /\ FailedLive(r, in, id, inc) \/ FailedKept(r, in, id) \/ FailedSession(r, in, id, inc)

\* finish_failed_replacement_locked touches one id, and leaves it in one of these ways.
LEMMA FailedReplacementFacts ==
  ASSUME NEW n \in Nat \ {0}, NEW in \in InnerOf(n), NEW id \in Ids, NEW inc \in Given(n),
         NEW meta \in BOOLEAN, NEW keep \in BOOLEAN
  PROVE  LET r == finish_failed_replacement_locked(in, id, inc, meta, keep) IN
         Outcome(r, in, n, id) /\ FailedReplacement(r.inner, in, id, inc)
<1> DEFINE r    == finish_failed_replacement_locked(in, id, inc, meta, keep)
           done == finish_replacement(in, id, inc)
           old  == in.dead[id]
           stale == ~replacement_is_current(in, id, inc) \/ in.live[id] \notin {0, inc}
           kept == old.inc > inc \/ (old.inc = 0 /\ ~(meta /\ id \in Targeted))
           t1 == [inc |-> inc, will |-> FALSE, unavail |-> keep]
           x1 == [inc |-> inc, unavail |-> keep]
           t2 == [old EXCEPT !.will = FALSE, !.unavail = @ \/ keep]
<1>0. /\ done \in InnerOf(n) /\ Local(done, in, id)
      /\ done.live[id] = in.live[id] /\ done.dead[id] = old /\ done.failed[id] = in.failed[id]
      /\ done.pending[id] = IF in.pending[id] = inc THEN 0 ELSE in.pending[id]
      /\ done.killed = in.killed
  BY FinishFacts
<1>1. /\ old \in TombOf(n) /\ old.inc \in OrNone(n) /\ in.live[id] \in OrNone(n)
      /\ old.unavail \in BOOLEAN
  BY InnerAtId
<1>2. t1 \in TombOf(n) /\ x1 \in FailedOf(n) /\ inc # 0 /\ NoTomb \in TombOf(n)
  BY NoneType DEF TombOf, FailedOf, Given, OrNone
<1>3. t2 \in TombOf(n) /\ t2.inc = old.inc
  BY <1>1 DEF TombOf
<1>4. \A a \in MarksOf(n, id) : <<a>> \in Seq(MarksOf(n, id))
  OBVIOUS
<1>5. <<>> \in Seq(MarksOf(n, id))
  OBVIOUS
<1>6. CASE stale
  <2>1. r = [inner |-> in, cmds |-> <<>>]
    BY <1>6 DEF finish_failed_replacement_locked
  <2>2. r.inner = in /\ r.cmds = <<>>
    BY <2>1
  <2> HIDE DEF r
  <2> QED BY <1>5, <1>6, <2>2
       DEF r, Outcome, Local, Same, FailedReplacement, FailedStale, replacement_is_current
<1>7. CASE ~stale /\ in.live[id] = inc
  <2> DEFINE q == ToTomb(done, id, t1)
             c == FailureCmd(id, inc, keep)
  <2>1. r = [inner |-> q, cmds |-> <<c>>]
    BY <1>7 DEF finish_failed_replacement_locked, ToTomb
  <2> HIDE DEF t1
  <2>2. /\ q \in InnerOf(n) /\ Local(q, done, id) /\ q.live[id] = 0 /\ q.dead[id] = t1
        /\ q.failed[id] = done.failed[id] /\ q.pending[id] = done.pending[id]
        /\ q.killed = done.killed
    BY <1>0, <1>2, ExitFacts
  <2>3. <<c>> \in Seq(MarksOf(n, id))
    BY <1>4, FailureCmdType
  <2> HIDE DEF q, c, done
  <2>4. r.inner = q /\ r.cmds = <<c>>
    BY <2>1
  <2>5. Local(q, in, id)
    BY <1>0, <2>2 DEF Local, Same
  <2>6. q.dead[id].inc = inc
    BY <2>2 DEF t1
  <2> HIDE DEF r
  <2> QED BY <1>0, <1>7, <2>2, <2>3, <2>4, <2>5, <2>6
       DEF r, Outcome, FailedReplacement, FailedLive, replacement_is_current
<1>8. CASE ~stale /\ in.live[id] # inc /\ kept
  <2>1. r = [inner |-> done, cmds |-> <<>>]
    BY <1>8 DEF finish_failed_replacement_locked
  <2> HIDE DEF done
  <2>2. r.inner = done /\ r.cmds = <<>>
    BY <2>1
  <2> HIDE DEF r
  <2> QED BY <1>0, <1>5, <1>8, <2>2
       DEF r, Outcome, FailedReplacement, FailedKept, replacement_is_current
<1>9. CASE ~stale /\ in.live[id] # inc /\ ~kept /\ meta /\ id \in Targeted
  <2> DEFINE q == Marked(done, id, NoTomb, x1)
             c == FailureCmd(id, inc, keep)
             cs == (IF old.inc = 0 THEN <<>> ELSE <<SessionDead(id, old.inc)>>) \o <<c>>
  <2>1. r = [inner |-> q, cmds |-> cs]
    BY <1>9 DEF finish_failed_replacement_locked, Marked
  <2> HIDE DEF x1
  <2>2. /\ q \in InnerOf(n) /\ Local(q, done, id) /\ q.live[id] = done.live[id]
        /\ q.dead[id] = NoTomb /\ q.failed[id] = x1 /\ q.pending[id] = done.pending[id]
        /\ q.killed = done.killed
    BY <1>0, <1>2, MarkFacts
  <2>3. cs \in Seq(MarksOf(n, id))
    <3>1. c \in MarksOf(n, id)
      BY FailureCmdType
    <3>2. old.inc # 0 => SessionDead(id, old.inc) \in MarksOf(n, id)
      <4>1. old.inc # 0 => old.inc \in Given(n)
        BY <1>1 DEF OrNone, Given
      <4> QED BY <4>1, DeadCmdType
    <3> HIDE DEF c
    <3> QED BY <3>1, <3>2
  <2> HIDE DEF q, cs, done
  <2>4. r.inner = q /\ r.cmds = cs
    BY <2>1
  <2>5. Local(q, in, id)
    BY <1>0, <2>2 DEF Local, Same
  <2>6. q.failed[id].inc = inc
    BY <2>2 DEF x1
  <2> HIDE DEF r
  <2> QED BY <1>0, <1>9, <2>2, <2>3, <2>4, <2>5, <2>6
       DEF r, Outcome, FailedReplacement, FailedSession, replacement_is_current
<1>10. CASE ~stale /\ in.live[id] # inc /\ ~kept /\ ~(meta /\ id \in Targeted)
  <2> DEFINE q == WithTomb(done, id, t2)
             c == FailureCmd(id, old.inc, old.unavail \/ keep)
  <2>1. r = [inner |-> q, cmds |-> <<c>>]
    BY <1>10 DEF finish_failed_replacement_locked, WithTomb
  <2> HIDE DEF t2
  <2>2. /\ q \in InnerOf(n) /\ Local(q, done, id) /\ q.live[id] = done.live[id]
        /\ q.dead[id] = t2 /\ q.failed[id] = done.failed[id]
        /\ q.pending[id] = done.pending[id] /\ q.killed = done.killed
    BY <1>0, <1>3, TombFacts
  <2>3. <<c>> \in Seq(MarksOf(n, id))
    <3>1. old.inc \in Given(n)
      BY <1>1, <1>10 DEF OrNone, Given
    <3> QED BY <1>4, <3>1, FailureCmdType
  <2> HIDE DEF q, c, done
  <2>4. r.inner = q /\ r.cmds = <<c>>
    BY <2>1
  <2>5. Local(q, in, id)
    BY <1>0, <2>2 DEF Local, Same
  <2> HIDE DEF r
  <2> QED BY <1>0, <1>3, <1>10, <2>2, <2>3, <2>4, <2>5
       DEF r, Outcome, FailedReplacement, FailedKept, replacement_is_current
<1> QED BY <1>6, <1>7, <1>8, <1>9, <1>10

\* finish_respawn_source_failure only takes a promise back.
LEMMA SourceFailureFacts ==
  ASSUME NEW n \in Nat \ {0}, NEW in \in InnerOf(n), NEW id \in Ids, NEW source \in Given(n),
         NEW lost \in BOOLEAN
  PROVE  LET r == finish_respawn_source_failure(in, id, source, lost) IN
         /\ Outcome(r, in, n, id)
         /\ r.inner.live[id] = in.live[id] /\ r.inner.failed[id] = in.failed[id]
         /\ r.inner.pending[id] = in.pending[id] /\ r.inner.dead[id].inc = in.dead[id].inc
<1> DEFINE r   == finish_respawn_source_failure(in, id, source, lost)
           old == in.dead[id]
           un  == old.unavail \/ lost
           t   == [old EXCEPT !.will = FALSE, !.unavail = un]
           q   == WithTomb(in, id, t)
           c   == FailureCmd(id, source, un)
<1>1. CASE in.pending[id] # 0 \/ old.inc # source
  <2>1. r = [inner |-> in, cmds |-> <<>>]
    BY <1>1 DEF finish_respawn_source_failure
  <2>2. r.inner = in /\ r.cmds = <<>>
    BY <2>1
  <2>3. <<>> \in Seq(MarksOf(n, id))
    OBVIOUS
  <2> HIDE DEF r
  <2> QED BY <2>2, <2>3 DEF r, Outcome, Local, Same
<1>2. CASE ~(in.pending[id] # 0 \/ old.inc # source)
  <2>1. r = [inner |-> q, cmds |-> <<c>>]
    BY <1>2 DEF finish_respawn_source_failure, WithTomb
  <2>2. old \in TombOf(n) /\ old.unavail \in BOOLEAN
    BY InnerAtId
  <2>3. t \in TombOf(n) /\ t.inc = old.inc
    BY <2>2 DEF TombOf
  <2> HIDE DEF t
  <2>4. /\ q \in InnerOf(n) /\ Local(q, in, id) /\ q.live[id] = in.live[id]
        /\ q.dead[id] = t /\ q.failed[id] = in.failed[id]
        /\ q.pending[id] = in.pending[id] /\ q.killed = in.killed
    BY <2>3, TombFacts
  <2>5. c \in MarksOf(n, id)
    BY FailureCmdType
  <2> HIDE DEF q, c
  <2>6. r.inner = q /\ r.cmds = <<c>>
    BY <2>1
  <2>7. <<c>> \in Seq(MarksOf(n, id))
    BY <2>5
  <2> HIDE DEF r
  <2> QED BY <2>3, <2>4, <2>6, <2>7 DEF r, Outcome
<1> QED BY <1>1, <1>2

\* mark_target_unavailable keeps the id under the incarnation it stands for: refused (Same),
\* the tombstone becomes unavailable, or the failed session becomes a tombstone.
LostKept(r, in, id) == /\ in.live[id] = 0 /\ in.pending[id] = 0 /\ in.dead[id].inc # 0
                       /\ r.dead[id].inc = in.dead[id].inc /\ r.failed[id] = in.failed[id]
LostFailed(r, in, id) == /\ in.live[id] = 0 /\ in.pending[id] = 0 /\ in.failed[id].inc # 0
                         /\ in.dead[id].inc = 0
                         /\ r.dead[id].inc = in.failed[id].inc /\ r.failed[id] = NoFailed

\* mark_target_unavailable touches one id, and neither its live nor its pending session.
LEMMA TargetLostFacts ==
  ASSUME NEW n \in Nat \ {0}, NEW in \in InnerOf(n), NEW id \in Ids, NEW name \in NameSet
  PROVE  LET r == mark_target_unavailable(in, id, name) IN
         /\ r.inner \in InnerOf(n) /\ Local(r.inner, in, id) /\ r.inner.killed = in.killed
         /\ r.inner.live[id] = in.live[id] /\ r.inner.pending[id] = in.pending[id]
         /\ \/ Same(r.inner, in, id) /\ r.cmds = <<>>
            \/ LostKept(r.inner, in, id) /\ r.cmds \in Seq(MarksOf(n, id))
            \/ LostFailed(r.inner, in, id) /\ r.cmds \in Seq(UpsertsOf(n, id))
<1> DEFINE r == mark_target_unavailable(in, id, name)
           refused == in.live[id] # 0 \/ in.pending[id] # 0 \/ CurrentIncarnation(in, id) = 0
           inc == in.failed[id].inc
<1>0. in.live[id] \in OrNone(n) /\ in.dead[id].inc \in OrNone(n) /\ inc \in OrNone(n)
      /\ NoFailed \in FailedOf(n)
  BY InnerAtId, NoneType
<1>1. CASE refused
  <2>1. r = [inner |-> in, cmds |-> <<>>]
    BY <1>1 DEF mark_target_unavailable
  <2>2. r.inner = in /\ r.cmds = <<>>
    BY <2>1
  <2> HIDE DEF r
  <2> QED BY <2>2 DEF r, Local, Same
<1>2. CASE ~refused /\ in.dead[id].inc # 0
  <2> DEFINE t == UnavailableTombstone(in.dead[id].inc)
             q == WithTomb(in, id, t)
             c == SessionTargetUnavailable(id, in.dead[id].inc)
  <2>1. r = [inner |-> q, cmds |-> <<c>>]
    BY <1>2 DEF mark_target_unavailable, WithTomb
  <2>2. t \in TombOf(n) /\ t.inc = in.dead[id].inc
    BY <1>0 DEF UnavailableTombstone, TombOf
  <2>3. c \in MarksOf(n, id)
    BY <1>0, <1>2 DEF SessionTargetUnavailable, MarksOf, FailureKinds, Given, OrNone
  <2> HIDE DEF t
  <2>4. /\ q \in InnerOf(n) /\ Local(q, in, id) /\ q.live[id] = in.live[id]
        /\ q.dead[id] = t /\ q.failed[id] = in.failed[id]
        /\ q.pending[id] = in.pending[id] /\ q.killed = in.killed
    BY <2>2, TombFacts
  <2> HIDE DEF q, c
  <2>5. r.inner = q /\ r.cmds = <<c>>
    BY <2>1
  <2>6. <<c>> \in Seq(MarksOf(n, id))
    BY <2>3
  <2> HIDE DEF r
  <2> QED BY <1>2, <2>2, <2>4, <2>5, <2>6 DEF r, LostKept
<1>3. CASE ~refused /\ in.dead[id].inc = 0
  <2> DEFINE t == UnavailableTombstone(inc)
             q == Marked(in, id, t, NoFailed)
             c == SessionTargetUnavailableUpsert(id, inc, name)
  <2>1. r = [inner |-> q, cmds |-> <<c>>]
    BY <1>3 DEF mark_target_unavailable, Marked
  <2>2. t \in TombOf(n) /\ t.inc = inc
    BY <1>0 DEF UnavailableTombstone, TombOf
  <2>3. inc # 0
    BY <1>3 DEF CurrentIncarnation
  <2>4. c \in UpsertsOf(n, id)
    BY <1>0, <2>3 DEF SessionTargetUnavailableUpsert, UpsertsOf, Given, OrNone
  <2> HIDE DEF t
  <2>5. /\ q \in InnerOf(n) /\ Local(q, in, id) /\ q.live[id] = in.live[id]
        /\ q.dead[id] = t /\ q.failed[id] = NoFailed
        /\ q.pending[id] = in.pending[id] /\ q.killed = in.killed
    BY <1>0, <2>2, MarkFacts
  <2> HIDE DEF q, c
  <2>6. r.inner = q /\ r.cmds = <<c>>
    BY <2>1
  <2>7. <<c>> \in Seq(UpsertsOf(n, id))
    BY <2>4
  <2> HIDE DEF r
  <2> QED BY <1>3, <2>2, <2>3, <2>5, <2>6, <2>7 DEF r, LostFailed
<1> QED BY <1>1, <1>2, <1>3

-----------------------------------------------------------------------------
(* The allocator of a new process.                                         *)

\* Every non-empty set of naturals has a least element.
LEMMA LeastByRelation ==
  ASSUME NEW R, IsWellFoundedOn(R, Nat), \A x, y \in Nat : y < x => <<y, x>> \in R,
         NEW T \in SUBSET Nat, T # {}
  PROVE  \E x \in T : \A y \in T : x <= y
<1>1. PICK x \in T : \A y \in T : ~ (<<y, x>> \in R)
  BY WFMin
<1>2. ASSUME NEW y \in T PROVE x <= y
  <2>1. x \in Nat /\ y \in Nat
    OBVIOUS
  <2>2. ~(y < x)
    BY <1>1, <2>1, Zenon
  <2> QED BY <2>1, <2>2
<1> QED BY <1>2

\* The same for the order of the naturals.
LEMMA LeastNatural ==
  ASSUME NEW T \in SUBSET Nat, T # {}
  PROVE  \E x \in T : \A y \in T : x <= y
<1>1. \A x, y \in Nat : y < x => <<y, x>> \in OpToRel(<, Nat)
  BY DEF OpToRel
<1> QED BY <1>1, LeastByRelation, NatLessThanWellFounded, Zenon

\* advance_past, seeded by the store alone, lands above all it holds: no more than one
\* above a bound b on it.  Ids need not be finite; their incarnations are bounded.
LEMMA AdvanceFacts ==
  ASSUME NEW b \in Nat, NEW store \in [Ids -> EntryOf(b + 1)], Ids # {}
  PROVE  /\ advance_past(store) \in 1..(b + 1)
         /\ \A id \in Ids : max_session_incarnation(store[id]) < advance_past(store)
<1> DEFINE m(id) == max_session_incarnation(store[id])
           T == {k \in Nat : \A id \in Ids : m(id) < k}
           P(next) == \A id \in Ids : m(id) < next
<1>1. \A id \in Ids : m(id) \in 0..b
  BY DEF EntryOf, Entry, max_session_incarnation, MaxNat
<1> HIDE DEF m
<1>2. PICK k \in T : \A y \in T : k <= y
  <2>1. b + 1 \in T
    BY <1>1
  <2> QED BY <2>1, LeastNatural
<1>3. k # 0
  BY <1>1, <1>2
<1>4. PICK id \in Ids : m(id) + 1 = k
  <2>1. k - 1 \notin T
    BY <1>2, <1>3
  <2> QED BY <1>1, <1>2, <1>3, <2>1
<1>5. \E next \in {m(i) + 1 : i \in Ids} : P(next)
  BY <1>2, <1>4
<1>6. /\ advance_past(store) \in {m(i) + 1 : i \in Ids}
      /\ P(advance_past(store))
  BY <1>5 DEF advance_past, m
<1> QED BY <1>1, <1>6 DEF m

-----------------------------------------------------------------------------
(* Types.  The parameter n is the allocator's next incarnation: everything *)
(* in memory, in flight or stored names an incarnation below it.           *)

\* What a reader may still have to do, in order.
Todos == {<<>>, <<"event">>, <<"respawn", "event">>, <<"lock", "event">>,
          <<"lock", "respawn", "event">>, <<"exited", "event">>,
          <<"exited", "respawn", "event">>, <<"snapshot", "exited", "event">>,
          <<"snapshot", "exited", "respawn", "event">>}

SessionType ==
  [id : Ids, name : NameSet, gen : Nat, count : Nat, out : Nat,
   child : {"none", "running", "killed", "gone"},
   reader : {"none", "run", "exit", "done"}, todo : Todos, replaced : BOOLEAN,
   muted : BOOLEAN, told : BOOLEAN, dropped : BOOLEAN]

\* An output costs an event of the environment, so that fuel bounds the totals.
SessionOK(s, i, n, fuel) ==
  /\ s.out + fuel <= Fuel
  /\ s.reader # "none" => i < n
  /\ s.reader = "exit" => s.todo # <<>>

SaveOf(n) == [kind : {"SessionCreated", "SessionTargetUnavailableUpsert"},
              id : Ids, inc : Given(n), name : NameSet]
MarkOf(n) == [kind : {"SessionExited", "SessionDead", "SessionTargetUnavailable"},
              id : Ids, inc : Given(n)]
SnapOf(n) == [kind : {"BufferUpdate"}, id : Ids, inc : Given(n), total : 0..Fuel]
RenOf(n)  == [kind : {"SessionRenamed"}, id : Ids, inc : Given(n), name : Names, from : Clients]
RemOf(n)  == [kind : {"SessionRemoved"}, id : Ids, inc : Given(n), from : Clients]
CmdOf(n)  == SaveOf(n) \cup MarkOf(n) \cup SnapOf(n) \cup RenOf(n) \cup RemOf(n) \cup {Shutdown}

\* The commands a failure leaves to be sent one by one.
FailOf(n) == UNION {MarksOf(n, id) \cup UpsertsOf(n, id) : id \in Ids}

RespawnOf(n) == [id : Ids, inc : Given(n), gen : Nat, count : Nat]

\* Where a client or the main task can be ...
Plain   == [at : {"idle", "load", "restore", "drain", "snapshot", "readers", "close", "join",
                  "worker"}]
AtEntry == [at : {"target", "permit", "evict"}, id : Ids, name : NameSet]
AtReserve == [at : {"reserve"}, id : Ids, name : NameSet, retry : BOOLEAN]
AtSpawn(n) == [at : {"spawn", "publish", "persist", "start"}, id : Ids, inc : Given(n),
               retry : BOOLEAN]
AtRecheck == [at : {"recheck"}, id : Ids]
AtRemove(n) == [at : {"remove", "removing", "sweep", "expected"}, id : Ids, inc : Given(n)]
AtRename(n) == [at : {"rename", "renaming"}, id : Ids, inc : Given(n), name : Names]
AtDispose(n) == [at : {"dispose"}, left : SUBSET (Ids \X Given(n)), gen : Nat]
AtDisposing(n) == [at : {"disposing"}, left : SUBSET (Ids \X Given(n)), gen : Nat,
                   cur : Ids \X Given(n)]
AtSnapshots(n) == [at : {"snapshots"}, left : SUBSET SnapOf(n)]
AtSend(n) == [at : {"send"}, cmds : Seq(FailOf(n)), next : Plain \cup AtRecheck, keep : BOOLEAN]
CallOp(n) == Plain \cup AtEntry \cup AtReserve \cup AtSpawn(n) \cup AtRecheck \cup AtRemove(n)
             \cup AtRename(n) \cup AtDispose(n) \cup AtDisposing(n) \cup AtSnapshots(n) \cup AtSend(n)

\* ... and where the supervisor can be.
SupIdle   == [at : {"idle"}]
SupAsk(n) == [at : {"backoff", "reserve"}, cmd : RespawnOf(n)]
SupTry(n) == [at : {"permit", "spawn", "publish", "persist", "start"}, cmd : RespawnOf(n),
              inc : Given(n), retry : BOOLEAN]
SupLost(n) == [at : {"failed"}, cmd : RespawnOf(n), lost : BOOLEAN]
SupSend(n) == [at : {"send"}, cmds : Seq(FailOf(n)), next : SupIdle \cup SupLost(n), keep : {FALSE}]
SupOp(n)   == SupIdle \cup SupAsk(n) \cup SupTry(n) \cup SupLost(n) \cup SupSend(n)

SnapEntry(n) == [id : Ids, inc : Given(n), total : 0..Fuel]
WorkerOf(n)  == [at : {"recv", "flush", "drain", "stopped"}]
                \cup [at : {"mark"}, id : Ids, inc : Given(n)]

MemoryOK(n) == /\ n \in 1..(MaxInc + 1)
               /\ inner \in InnerOf(n)
SessionsOK(n) == /\ sess \in [Incs -> SessionType]
                 /\ \A i \in Incs : SessionOK(sess[i], i, n, world.fuel)
OpsOK(n) == /\ ops = [a \in Actors |-> ops[a]]
            /\ \A a \in Actors \ {Sup} : ops[a] \in CallOp(n)
            /\ ops[Sup] \in SupOp(n)
QueueOK(n) == respawnQ \in Seq(RespawnOf(n)) /\ Len(respawnQ) <= RespawnCap
LocksOK == /\ lc \in [permits : SUBSET Actors, disposing : BOOLEAN, closing : BOOLEAN]
           /\ gate \in Actors \cup Incs \cup {NoOne}
           /\ guard \in Actors \cup {NoOne}
EnvOK(n) == /\ phase \in {"boot", "serving", "stopping"}
            /\ restoring \in [left : SUBSET Ids, inc : OrNone(n), name : NameSet]
            /\ world \in World
            /\ hist \in [down : SUBSET Ids, gone : SUBSET Ids, atStop : SUBSET Ids]
ChanOK(n) == chan \in Seq(CmdOf(n)) /\ Len(chan) <= ChannelCap
WorkOK(n) == /\ batch \subseteq SnapEntry(n)
             /\ worker \in WorkerOf(n)
             /\ reply \in [Clients -> Replies]
DbOK(n) == /\ db \in [Ids -> EntryOf(n)]
           /\ removed \in [Ids -> OrNone(n)]

\* removed never passes what seeds the allocator of the next run.
Watermarked == \A id \in Ids : removed[id] <= max_session_incarnation(db[id])

Others(n) == /\ SessionsOK(n) /\ OpsOK(n) /\ QueueOK(n) /\ LocksOK /\ EnvOK(n)
           /\ ChanOK(n) /\ WorkOK(n) /\ DbOK(n) /\ Watermarked

Typed(n) == MemoryOK(n) /\ Others(n)

PtyTyped == \E n \in Nat \ {0} : Typed(n)

-----------------------------------------------------------------------------
(* The store's transactions, for incarnations below n.                     *)

\* A transaction keeps the entry's type and the mark that seeds the allocator.
Kept(e, f, n) == /\ f \in EntryOf(n)
                 /\ max_session_incarnation(f) >= max_session_incarnation(e)

\* save_session moves no high-water mark back, and keeps a row that is there.
LEMMA SaveKept ==
  ASSUME NEW n \in Nat, NEW e \in EntryOf(n), NEW inc \in Given(n), NEW name \in NameSet,
         NEW un \in BOOLEAN
  PROVE  /\ Kept(e, save_session(e, inc, name, un), n)
         /\ HasRow(e) => HasRow(save_session(e, inc, name, un))
<1> DEFINE f == save_session(e, inc, name, un)
<1>0. e \in Entry /\ e.inc < n /\ e.removal < n
  BY DEF EntryOf
<1>1. CASE inc <= e.removal
  <2>1. f = e
    BY <1>1 DEF save_session
  <2> QED BY <1>0, <2>1 DEF Kept, max_session_incarnation, MaxNat, Entry
<1>2. CASE ~(inc <= e.removal) /\ inc >= e.inc
  <2> DEFINE u == un \/ (e.inc = inc /\ e.unavail)
  <2>1. f = [e EXCEPT !.inc = inc, !.alive = TRUE, !.name = name, !.unavail = u, !.removal = 0]
    BY <1>2 DEF save_session
  <2>2. u \in BOOLEAN /\ inc \in Nat /\ name \in Names \cup {NoName}
    BY DEF NameSet, Given
  <2> HIDE DEF f, u
  <2>3. f \in Entry /\ f.inc = inc /\ f.removal = 0
    BY <1>0, <2>1, <2>2 DEF Entry
  <2> QED BY <1>0, <1>2, <2>3
       DEF f, Kept, max_session_incarnation, MaxNat, Entry, EntryOf, Given, HasRow
<1>3. CASE ~(inc <= e.removal) /\ ~(inc >= e.inc)
  <2>1. f = [e EXCEPT !.removal = 0]
    BY <1>3 DEF save_session
  <2> HIDE DEF f
  <2>2. f \in Entry /\ f.inc = e.inc /\ f.removal = 0
    BY <1>0, <2>1 DEF Entry
  <2> QED BY <1>0, <1>3, <2>2
       DEF f, Kept, max_session_incarnation, MaxNat, Entry, EntryOf, Given, HasRow
<1> QED BY <1>1, <1>2, <1>3

\* Marks, renames, snapshots and expiry change neither row nor watermark.
SameRow(e, f, n) == f \in EntryOf(n) /\ f.inc = e.inc /\ f.removal = e.removal

\* Nor does any write that keeps the row.
LEMMA SameRowKept ==
  ASSUME NEW n \in Nat, NEW e \in EntryOf(n), NEW f, SameRow(e, f, n)
  PROVE  Kept(e, f, n) /\ (HasRow(e) => HasRow(f))
BY DEF SameRow, Kept, max_session_incarnation, MaxNat, Entry, EntryOf, HasRow

\* The marks, a rename and the end of a buffer keep the row.
LEMMA MarksSameRow ==
  ASSUME NEW n \in Nat, NEW e \in EntryOf(n), NEW inc, NEW name \in NameSet
  PROVE  /\ SameRow(e, e, n)
         /\ SameRow(e, mark_session_dead(e, inc), n)
         /\ SameRow(e, mark_session_target_unavailable(e, inc), n)
         /\ SameRow(e, rename_session(e, inc, name), n)
         /\ SameRow(e, cleanup_expired(e), n)
<1>0. e \in Entry /\ e.inc < n /\ e.removal < n
  BY DEF EntryOf
<1>1. SameRow(e, e, n)
  BY DEF SameRow
<1>2. SameRow(e, mark_session_dead(e, inc), n)
  BY <1>0, <1>1 DEF SameRow, EntryOf, Entry, mark_session_dead
<1>3. SameRow(e, mark_session_target_unavailable(e, inc), n)
  BY <1>0, <1>1 DEF SameRow, EntryOf, Entry, mark_session_target_unavailable
<1>4. SameRow(e, rename_session(e, inc, name), n)
  BY <1>0, <1>1 DEF SameRow, EntryOf, Entry, rename_session, NameSet
<1>5. SameRow(e, cleanup_expired(e), n)
  BY <1>0 DEF SameRow, EntryOf, Entry, cleanup_expired, NoBuffer
<1> QED BY <1>1, <1>2, <1>3, <1>4, <1>5

\* So does a snapshot.
LEMMA SaveBufferSameRow ==
  ASSUME NEW n \in Nat, NEW e \in EntryOf(n), NEW inc \in Given(n), NEW total \in 0..Fuel
  PROVE  SameRow(e, save_buffer(e, inc, total), n)
<1>0. e \in Entry /\ e.inc < n /\ e.removal < n
  BY DEF EntryOf
<1>1. total \in Nat /\ inc \in Nat
  BY BoundsAssumption DEF Given
<1> QED BY <1>0, <1>1 DEF SameRow, EntryOf, Entry, save_buffer

\* delete_session moves no high-water mark back and passes the incarnation it deletes.
LEMMA DeleteKept ==
  ASSUME NEW n \in Nat, NEW e \in EntryOf(n), NEW inc \in OrNone(n)
  PROVE  /\ Kept(e, delete_session(e, inc), n)
         /\ inc <= max_session_incarnation(delete_session(e, inc))
<1> DEFINE mark  == MaxNat(e.removal, inc)
           ports == [p \in Ports |-> IF e.ports[p] <= mark THEN 0 ELSE e.ports[p]]
           f     == delete_session(e, inc)
<1>0. e \in Entry /\ e.inc < n /\ e.removal < n /\ e.removal \in Nat /\ e.inc \in Nat
  BY DEF EntryOf, Entry
<1>1. /\ mark \in Nat /\ mark >= e.removal /\ mark >= inc /\ mark < n
  BY <1>0 DEF MaxNat, OrNone
<1>2. ports \in [Ports -> Nat]
  BY <1>0 DEF Entry
<1>3. CASE HasRow(e) /\ e.inc > mark
  <2>1. f = [e EXCEPT !.removal = mark, !.ports = ports]
    BY <1>3 DEF delete_session
  <2> HIDE DEF f, ports, mark
  <2>2. f \in Entry /\ f.inc = e.inc /\ f.removal = mark
    BY <1>0, <1>1, <1>2, <2>1 DEF Entry
  <2> QED BY <1>0, <1>1, <1>3, <2>2 DEF f, Kept, EntryOf, max_session_incarnation, MaxNat, OrNone
<1>4. CASE ~(HasRow(e) /\ e.inc > mark)
  <2>1. f = [EmptyEntry EXCEPT !.removal = mark, !.ports = ports]
    BY <1>4 DEF delete_session
  <2> HIDE DEF f, ports, mark
  <2>2. f \in Entry /\ f.inc = 0 /\ f.removal = mark
    BY <1>1, <1>2, <2>1 DEF Entry, EmptyEntry, NoBuffer
  <2> QED BY <1>0, <1>1, <1>4, <2>2
       DEF f, Kept, EntryOf, max_session_incarnation, MaxNat, OrNone, HasRow
<1> QED BY <1>3, <1>4

-----------------------------------------------------------------------------
(* What the program counter says of an operation.                          *)

\* The step an operation is at says which of its records it is.
LEMMA CallShape ==
  ASSUME NEW n, NEW op \in CallOp(n)
  PROVE  /\ op.at \in {"target", "permit", "evict"} => op \in AtEntry
         /\ op.at = "reserve" => op \in AtReserve
         /\ op.at \in {"spawn", "publish", "persist", "start"} => op \in AtSpawn(n)
         /\ op.at = "recheck" => op \in AtRecheck
         /\ op.at \in {"remove", "removing", "sweep", "expected"} => op \in AtRemove(n)
         /\ op.at \in {"rename", "renaming"} => op \in AtRename(n)
         /\ op.at = "dispose" => op \in AtDispose(n)
         /\ op.at = "disposing" => op \in AtDisposing(n)
         /\ op.at = "snapshots" => op \in AtSnapshots(n)
         /\ op.at = "send" => op \in AtSend(n)
BY DEF CallOp, Plain, AtEntry, AtReserve, AtSpawn, AtRecheck, AtRemove, AtRename, AtDispose,
       AtDisposing, AtSnapshots, AtSend

\* The same for the supervisor.
LEMMA SupShape ==
  ASSUME NEW n, NEW op \in SupOp(n)
  PROVE  /\ op.at \in {"backoff", "reserve"} => op \in SupAsk(n)
         /\ op.at \in {"permit", "spawn", "publish", "persist", "start"} => op \in SupTry(n)
         /\ op.at = "failed" => op \in SupLost(n)
         /\ op.at = "send" => op \in SupSend(n)
BY DEF SupOp, SupIdle, SupAsk, SupTry, SupLost, SupSend

-----------------------------------------------------------------------------
(* Frames: what a step leaves alone keeps its type.                        *)

\* A step that leaves Inner alone keeps its type.
LEMMA MemoryFrame ==
  ASSUME NEW n, MemoryOK(n), inner' = inner
  PROVE  MemoryOK(n)'
BY DEF MemoryOK

\* A step that leaves a variable alone keeps its type.
LEMMA Frame ==
  ASSUME NEW n, Others(n)
  PROVE  /\ sess' = sess /\ world' = world => SessionsOK(n)'
         /\ ops' = ops => OpsOK(n)'
         /\ respawnQ' = respawnQ => QueueOK(n)'
         /\ lc' = lc /\ gate' = gate /\ guard' = guard => LocksOK'
         /\ phase' = phase /\ restoring' = restoring /\ world' = world /\ hist' = hist => EnvOK(n)'
         /\ chan' = chan => ChanOK(n)'
         /\ batch' = batch /\ worker' = worker /\ reply' = reply => WorkOK(n)'
         /\ db' = db /\ removed' = removed => DbOK(n)' /\ Watermarked'
<1>1. sess' = sess /\ world' = world => SessionsOK(n)'
  BY DEF Others, SessionsOK
<1>2. ops' = ops => OpsOK(n)'
  BY DEF Others, OpsOK
<1>3. respawnQ' = respawnQ => QueueOK(n)'
  BY DEF Others, QueueOK
<1>4. lc' = lc /\ gate' = gate /\ guard' = guard => LocksOK'
  BY DEF Others, LocksOK
<1>5. phase' = phase /\ restoring' = restoring /\ world' = world /\ hist' = hist => EnvOK(n)'
  BY DEF Others, EnvOK
<1>6. chan' = chan => ChanOK(n)'
  BY DEF Others, ChanOK
<1>7. batch' = batch /\ worker' = worker /\ reply' = reply => WorkOK(n)'
  BY DEF Others, WorkOK
<1>8. db' = db /\ removed' = removed => DbOK(n)' /\ Watermarked'
  BY DEF Others, DbOK, Watermarked
<1> QED BY <1>1, <1>2, <1>3, <1>4, <1>5, <1>6, <1>7, <1>8

\* An allocation leaves everything that was below next below it.
LEMMA CommandsGrow ==
  ASSUME NEW n \in Nat \ {0}
  PROVE  /\ CmdOf(n) \subseteq CmdOf(n + 1) /\ SnapOf(n) \subseteq SnapOf(n + 1)
         /\ RespawnOf(n) \subseteq RespawnOf(n + 1) /\ FailOf(n) \subseteq FailOf(n + 1)
         /\ SnapEntry(n) \subseteq SnapEntry(n + 1) /\ WorkerOf(n) \subseteq WorkerOf(n + 1)
         /\ EntryOf(n) \subseteq EntryOf(n + 1)
<1>0. Given(n) \subseteq Given(n + 1)
  BY TypesGrow
<1>1. CmdOf(n) \subseteq CmdOf(n + 1)
  <2>1. SaveOf(n) \subseteq SaveOf(n + 1)
    BY <1>0 DEF SaveOf
  <2>2. MarkOf(n) \subseteq MarkOf(n + 1)
    BY <1>0 DEF MarkOf
  <2>3. SnapOf(n) \subseteq SnapOf(n + 1)
    BY <1>0 DEF SnapOf
  <2>4. RenOf(n) \subseteq RenOf(n + 1)
    BY <1>0 DEF RenOf
  <2>5. RemOf(n) \subseteq RemOf(n + 1)
    BY <1>0 DEF RemOf
  <2> QED BY <2>1, <2>2, <2>3, <2>4, <2>5 DEF CmdOf
<1>2. SnapOf(n) \subseteq SnapOf(n + 1) /\ SnapEntry(n) \subseteq SnapEntry(n + 1)
  BY <1>0 DEF SnapOf, SnapEntry
<1>3. RespawnOf(n) \subseteq RespawnOf(n + 1)
  BY <1>0 DEF RespawnOf
<1>4. FailOf(n) \subseteq FailOf(n + 1)
  <2>1. \A id \in Ids : MarksOf(n, id) \subseteq MarksOf(n + 1, id)
    BY <1>0 DEF MarksOf
  <2>2. \A id \in Ids : UpsertsOf(n, id) \subseteq UpsertsOf(n + 1, id)
    BY <1>0 DEF UpsertsOf
  <2> QED BY <2>1, <2>2 DEF FailOf
<1>5. WorkerOf(n) \subseteq WorkerOf(n + 1)
  BY <1>0 DEF WorkerOf
<1>6. EntryOf(n) \subseteq EntryOf(n + 1)
  BY DEF EntryOf, Entry
<1> QED BY <1>1, <1>2, <1>3, <1>4, <1>5, <1>6

\* Handing out an incarnation keeps every operation typed.
LEMMA OpsGrow ==
  ASSUME NEW n \in Nat \ {0}
  PROVE  CallOp(n) \subseteq CallOp(n + 1) /\ SupOp(n) \subseteq SupOp(n + 1)
<1>0. /\ Given(n) \subseteq Given(n + 1) /\ FailOf(n) \subseteq FailOf(n + 1)
      /\ SnapOf(n) \subseteq SnapOf(n + 1) /\ RespawnOf(n) \subseteq RespawnOf(n + 1)
  BY TypesGrow, CommandsGrow
<1>00. Seq(FailOf(n)) \subseteq Seq(FailOf(n + 1))
  BY <1>0
<1>1. AtSpawn(n) \subseteq AtSpawn(n + 1)
  BY <1>0 DEF AtSpawn
<1>2. AtRemove(n) \subseteq AtRemove(n + 1)
  BY <1>0 DEF AtRemove
<1>3. AtRename(n) \subseteq AtRename(n + 1)
  BY <1>0 DEF AtRename
<1>4. SUBSET (Ids \X Given(n)) \subseteq SUBSET (Ids \X Given(n + 1))
      /\ (Ids \X Given(n)) \subseteq (Ids \X Given(n + 1))
  BY <1>0
<1>5. AtDispose(n) \subseteq AtDispose(n + 1)
  BY <1>4 DEF AtDispose
<1>6. AtDisposing(n) \subseteq AtDisposing(n + 1)
  BY <1>4 DEF AtDisposing
<1>7. AtSnapshots(n) \subseteq AtSnapshots(n + 1)
  <2>1. SUBSET SnapOf(n) \subseteq SUBSET SnapOf(n + 1)
    BY <1>0
  <2> QED BY <2>1 DEF AtSnapshots
<1>8. AtSend(n) \subseteq AtSend(n + 1)
  BY <1>00 DEF AtSend
<1>9. SupAsk(n) \subseteq SupAsk(n + 1)
  BY <1>0 DEF SupAsk
<1>10. SupTry(n) \subseteq SupTry(n + 1)
  BY <1>0 DEF SupTry
<1>11. SupLost(n) \subseteq SupLost(n + 1)
  BY <1>0 DEF SupLost
<1>12. SupSend(n) \subseteq SupSend(n + 1)
  <2>1. SupIdle \cup SupLost(n) \subseteq SupIdle \cup SupLost(n + 1)
    BY <1>11
  <2> QED BY <1>00, <2>1 DEF SupSend
<1> QED BY <1>1, <1>2, <1>3, <1>5, <1>6, <1>7, <1>8, <1>9, <1>10, <1>11, <1>12 DEF CallOp, SupOp

\* And everything else.
LEMMA OthersGrow ==
  ASSUME NEW n \in Nat \ {0}, Others(n)
  PROVE  Others(n + 1)
<1>0. OrNone(n) \subseteq OrNone(n + 1)
  BY TypesGrow
<1>1. SessionsOK(n + 1)
  BY DEF Others, SessionsOK, SessionOK, Incs
<1>2. OpsOK(n + 1)
  BY OpsGrow DEF Others, OpsOK
<1>3. QueueOK(n + 1)
  BY CommandsGrow DEF Others, QueueOK
<1>4. EnvOK(n + 1)
  BY <1>0 DEF Others, EnvOK
<1>5. ChanOK(n + 1)
  BY CommandsGrow DEF Others, ChanOK
<1>6. WorkOK(n + 1)
  BY CommandsGrow DEF Others, WorkOK
<1>7. DbOK(n + 1)
  BY <1>0, CommandsGrow DEF Others, DbOK
<1> QED BY <1>1, <1>2, <1>3, <1>4, <1>5, <1>6, <1>7 DEF Others

-----------------------------------------------------------------------------
(* Pieces of steps: control, locks, sends.                                 *)

Calling == Clients \cup {Main}

\* Who the actors are.
LEMMA CallingFacts == /\ Calling \subseteq Actors \ {Sup} /\ Sup \in Actors
                      /\ \A c \in Clients : c # Main /\ c # Sup
                      /\ Main \in Calling /\ Sweeper \in Clients /\ Callers \subseteq Calling
BY ActorsAssumption DEF Calling, Actors, Callers

\* A caller moves to a typed operation.
LEMMA GotoCall ==
  ASSUME NEW n, OpsOK(n), NEW a \in Calling, NEW op \in CallOp(n), ops' = [ops EXCEPT ![a] = op]
  PROVE  OpsOK(n)' /\ ops'[a] = op /\ \A b \in Actors \ {a} : ops'[b] = ops[b]
<1>1. a \in Actors /\ a # Sup /\ Sup \in Actors
  BY CallingFacts
<1> QED BY <1>1 DEF OpsOK

\* The supervisor moves to a typed operation.
LEMMA GotoSup ==
  ASSUME NEW n, OpsOK(n), NEW op \in SupOp(n), ops' = [ops EXCEPT ![Sup] = op]
  PROVE  OpsOK(n)' /\ ops'[Sup] = op /\ \A b \in Actors \ {Sup} : ops'[b] = ops[b]
<1>1. Sup \in Actors
  BY CallingFacts
<1> QED BY <1>1 DEF OpsOK

\* Where an operation is says which fields it has.
LEMMA CallAt ==
  ASSUME NEW n, OpsOK(n), NEW a \in Calling
  PROVE  /\ ops[a] \in CallOp(n)
         /\ ops[a].at \in {"target", "permit", "evict"} => ops[a] \in AtEntry
         /\ ops[a].at = "reserve" => ops[a] \in AtReserve
         /\ ops[a].at \in {"spawn", "publish", "persist", "start"} => ops[a] \in AtSpawn(n)
         /\ ops[a].at = "recheck" => ops[a] \in AtRecheck
         /\ ops[a].at \in {"remove", "removing", "sweep", "expected"} => ops[a] \in AtRemove(n)
         /\ ops[a].at \in {"rename", "renaming"} => ops[a] \in AtRename(n)
         /\ ops[a].at = "dispose" => ops[a] \in AtDispose(n)
         /\ ops[a].at = "disposing" => ops[a] \in AtDisposing(n)
         /\ ops[a].at = "snapshots" => ops[a] \in AtSnapshots(n)
         /\ ops[a].at = "send" => ops[a] \in AtSend(n)
<1>1. ops[a] \in CallOp(n)
  BY CallingFacts DEF OpsOK
<1> QED BY <1>1, CallShape

\* The same for the supervisor.
LEMMA SupAt ==
  ASSUME NEW n, OpsOK(n)
  PROVE  /\ ops[Sup].at \in {"backoff", "reserve"} => ops[Sup] \in SupAsk(n)
         /\ ops[Sup].at \in {"permit", "spawn", "publish", "persist", "start"}
              => ops[Sup] \in SupTry(n)
         /\ ops[Sup].at = "failed" => ops[Sup] \in SupLost(n)
         /\ ops[Sup].at = "send" => ops[Sup] \in SupSend(n)
<1>1. ops[Sup] \in SupOp(n)
  BY DEF OpsOK
<1> QED BY <1>1, SupShape

\* Idle, and the other places without fields.
LEMMA PlainType ==
  ASSUME NEW n
  PROVE  /\ Idle \in CallOp(n) /\ Idle \in Plain /\ Idle \in SupOp(n) /\ Idle \in SupIdle
         /\ \A x \in {"idle", "load", "restore", "drain", "snapshot", "readers", "close", "join",
                      "worker"} : [at |-> x] \in Plain /\ [at |-> x] \in CallOp(n)
BY DEF Idle, Plain, CallOp, SupIdle, SupOp

\* The guards of a returning call are dropped.
LEMMA DropOK ==
  ASSUME LocksOK, NEW a, DropGates(a), guard' \in {guard, NoOne}
  PROVE  LocksOK'
BY DEF LocksOK, DropGates, Unlock

\* Only the gate changes hands.
LEMMA GateOK ==
  ASSUME LocksOK, lc' = lc, guard' = guard, gate' \in Actors \cup Incs \cup {NoOne}
  PROVE  LocksOK'
BY DEF LocksOK

\* A command is sent only while the channel has room.
LEMMA SendOK ==
  ASSUME NEW n, ChanOK(n), NEW cmd \in CmdOf(n), Send(cmd)
  PROVE  ChanOK(n)'
BY ChannelCapAssumption DEF ChanOK, Send

\* The commands the operations build are commands of the channel.
LEMMA CmdTypes ==
  ASSUME NEW n, NEW id \in Ids, NEW inc \in Given(n)
  PROVE  /\ \A name \in NameSet : SessionCreated(id, inc, name) \in CmdOf(n)
         /\ \A total \in 0..Fuel : BufferUpdate(id, inc, total) \in SnapOf(n)
         /\ SnapOf(n) \subseteq CmdOf(n)
         /\ SessionExited(id, inc) \in CmdOf(n)
         /\ \A c \in Clients : SessionRemoved(id, inc, c) \in CmdOf(n)
         /\ \A name \in Names, c \in Clients : SessionRenamed(id, inc, name, c) \in CmdOf(n)
<1>1. \A name \in NameSet : SessionCreated(id, inc, name) \in SaveOf(n)
  BY DEF SessionCreated, SaveOf
<1>2. \A total \in 0..Fuel : BufferUpdate(id, inc, total) \in SnapOf(n)
  BY DEF BufferUpdate, SnapOf
<1>3. SessionExited(id, inc) \in MarkOf(n)
  BY DEF SessionExited, MarkOf
<1>4. \A c \in Clients : SessionRemoved(id, inc, c) \in RemOf(n)
  BY DEF SessionRemoved, RemOf
<1>5. \A name \in Names, c \in Clients : SessionRenamed(id, inc, name, c) \in RenOf(n)
  BY DEF SessionRenamed, RenOf
<1> QED BY <1>1, <1>2, <1>3, <1>4, <1>5 DEF CmdOf

\* What a failure sends are commands of the channel.
LEMMA FailuresAreCommands ==
  ASSUME NEW n
  PROVE  FailOf(n) \subseteq CmdOf(n)
<1>1. \A id \in Ids : MarksOf(n, id) \subseteq MarkOf(n)
  BY DEF MarksOf, MarkOf, FailureKinds
<1>2. \A id \in Ids : UpsertsOf(n, id) \subseteq SaveOf(n)
  BY DEF UpsertsOf, SaveOf
<1> QED BY <1>1, <1>2 DEF FailOf, CmdOf

\* What a failure sends is sent by a caller, or by the supervisor.
LEMMA SendingType ==
  ASSUME NEW n, NEW id \in Ids, NEW cmds, cmds \in Seq(MarksOf(n, id)) \cup Seq(UpsertsOf(n, id))
  PROVE  /\ \A op \in Plain \cup AtRecheck, keep \in BOOLEAN : Sending(cmds, op, keep) \in CallOp(n)
         /\ \A op \in SupIdle \cup SupLost(n) : Sending(cmds, op, FALSE) \in SupOp(n)
<1>1. MarksOf(n, id) \subseteq FailOf(n) /\ UpsertsOf(n, id) \subseteq FailOf(n)
  BY DEF FailOf
<1>2. cmds \in Seq(FailOf(n))
  BY <1>1
<1>3. \A op \in Plain \cup AtRecheck, keep \in BOOLEAN : Sending(cmds, op, keep) \in AtSend(n)
  BY <1>2 DEF Sending, AtSend
<1>4. \A op \in SupIdle \cup SupLost(n) : Sending(cmds, op, FALSE) \in SupSend(n)
  BY <1>2 DEF Sending, SupSend
<1> QED BY <1>3, <1>4 DEF CallOp, SupOp

\* A session is as it was, but for its child or its history.
LEMMA TerminateType ==
  ASSUME NEW n, SessionsOK(n), NEW i
  PROVE  /\ Terminate(sess, i) \in [Incs -> SessionType]
         /\ \A j \in Incs : SessionOK(Terminate(sess, i)[j], j, n, world.fuel)
         /\ \A j \in Incs : /\ Terminate(sess, i)[j].id = sess[j].id
                            /\ Terminate(sess, i)[j].gen = sess[j].gen
                            /\ Terminate(sess, i)[j].reader = sess[j].reader
<1>0. sess \in [Incs -> SessionType] /\ \A j \in Incs : SessionOK(sess[j], j, n, world.fuel)
  BY DEF SessionsOK
<1>1. CASE i \in Incs /\ i # 0 /\ sess[i].child = "running"
  <2> DEFINE t == [sess[i] EXCEPT !.child = "killed"]
  <2>1. Terminate(sess, i) = [sess EXCEPT ![i] = t]
    BY <1>1 DEF Terminate
  <2>2. t \in SessionType /\ t.id = sess[i].id /\ t.gen = sess[i].gen
        /\ t.reader = sess[i].reader /\ t.out = sess[i].out /\ t.todo = sess[i].todo
    BY <1>0, <1>1 DEF SessionType
  <2>3. SessionOK(t, i, n, world.fuel)
    BY <1>0, <1>1, <2>2 DEF SessionOK
  <2> HIDE DEF t
  <2> QED BY <1>0, <1>1, <2>1, <2>2, <2>3
<1>2. CASE ~(i # 0 /\ sess[i].child = "running")
  <2>1. Terminate(sess, i) = sess
    BY <1>2 DEF Terminate
  <2> QED BY <1>0, <2>1
<1>3. CASE i \notin Incs /\ i # 0 /\ sess[i].child = "running"
  <2>1. Terminate(sess, i) = [sess EXCEPT ![i].child = "killed"]
    BY <1>3 DEF Terminate
  <2>2. Terminate(sess, i) = sess
    BY <1>0, <1>3, <2>1
  <2> QED BY <1>0, <2>2
<1> QED BY <1>1, <1>2, <1>3

\* The session of one incarnation is replaced by another.
LEMMA SetSession ==
  ASSUME NEW n, SessionsOK(n), NEW i \in Incs, NEW t \in SessionType,
         SessionOK(t, i, n, world.fuel), sess' = [sess EXCEPT ![i] = t], world' = world
  PROVE  SessionsOK(n)'
BY DEF SessionsOK

\* A session as it is reserved.
LEMMA NewSessionType ==
  ASSUME NEW n \in Nat, NEW i \in Incs, EnvOK(n), NEW id \in Ids, NEW name \in NameSet,
         NEW gen \in Nat, NEW count \in Nat
  PROVE  /\ NewSession(id, name, gen, count) \in SessionType
         /\ SessionOK(NewSession(id, name, gen, count), i, n, world.fuel)
         /\ NoSession \in SessionType /\ SessionOK(NoSession, i, n, world.fuel)
         /\ NewSession(id, name, gen, count).gen = gen
         /\ NewSession(id, name, gen, count).id = id
         /\ NewSession(id, name, gen, count).child = "none"
<1> DEFINE s == NewSession(id, name, gen, count)
<1>1. (CHOOSE x \in Ids : TRUE) \in Ids
  BY BoundsAssumption
<1>2. NoSession \in SessionType /\ NoSession.out = 0 /\ NoSession.reader = "none"
      /\ NoSession.child = "none"
  BY <1>1 DEF NoSession, SessionType, NameSet, Todos
<1>3. s = [NoSession EXCEPT !.id = id, !.name = name, !.gen = gen, !.count = count]
  BY DEF NewSession
<1> HIDE DEF s
<1>4. s \in SessionType /\ s.out = 0 /\ s.reader = "none" /\ s.gen = gen /\ s.id = id
      /\ s.child = "none"
  BY <1>2, <1>3 DEF SessionType
<1>5. world.fuel \in 0..Fuel
  BY DEF EnvOK, World
<1> QED BY <1>2, <1>4, <1>5, BoundsAssumption DEF SessionOK, s

\* An event of the environment costs fuel.
LEMMA HappensOK ==
  ASSUME NEW n, EnvOK(n), NEW kind, Happens(kind)
  PROVE  /\ world' \in World /\ world.fuel \in Nat \ {0} /\ world'.fuel = world.fuel - 1
         /\ world'.ids = world.ids /\ world'.callers = world.callers
         /\ SessionsOK(n) /\ sess' = sess => SessionsOK(n)'
<1>0. world \in World /\ world.fuel \in 0..Fuel /\ world.fuel > 0
  BY DEF EnvOK, World, Happens
<1>1. world.fuel \in Nat \ {0} /\ world.fuel - 1 \in 0..Fuel
  BY <1>0, BoundsAssumption
<1> DEFINE f == world.fuel - 1
<1>2. world' = [world EXCEPT !.fuel = f]
  BY DEF Happens
<1> HIDE DEF f
<1>3. world' \in World /\ world'.fuel = f /\ world'.ids = world.ids
      /\ world'.callers = world.callers
  BY <1>0, <1>1, <1>2 DEF World, f
<1>4. SessionsOK(n) /\ sess' = sess => SessionsOK(n)'
  BY <1>1, <1>3, BoundsAssumption DEF SessionsOK, SessionOK, SessionType, f
<1> QED BY <1>1, <1>3, <1>4 DEF f

\* A request of a client changes no history but its own.
LEMMA CallOK ==
  ASSUME NEW n, EnvOK(n), NEW c, NEW kind, Call(c, kind),
         hist' \in [down : SUBSET Ids, gone : SUBSET Ids, atStop : SUBSET Ids]
  PROVE  /\ EnvOK(n)' /\ c \in world.callers /\ world.ids \subseteq Ids
         /\ SessionsOK(n) /\ sess' = sess => SessionsOK(n)'
<1>1. Happens(kind) /\ phase' = phase /\ restoring' = restoring /\ c \in world.callers
  BY DEF Call
<1>2. world' \in World
  BY <1>1, HappensOK
<1>3. SessionsOK(n) /\ sess' = sess => SessionsOK(n)'
  BY <1>1, HappensOK
<1>4. world.ids \subseteq Ids
  BY DEF EnvOK, World
<1> QED BY <1>1, <1>2, <1>3, <1>4 DEF EnvOK

\* The ids and callers of an instance.
LEMMA WorldIds ==
  ASSUME NEW n, EnvOK(n)
  PROVE  world.ids \subseteq Ids /\ world.callers \subseteq Callers
BY DEF EnvOK, World, Callers

-----------------------------------------------------------------------------
(* create_with_buffer                                                      *)

\* create is called.
LEMMA CreateCallTyped ==
  ASSUME NEW n \in Nat \ {0}, Typed(n), NEW c \in Callers, NEW id \in world.ids, CreateCall(c, id)
  PROVE  Typed(n)'
<1> USE DEF Typed
<1> DEFINE op == [at |-> "permit", id |-> id, name |-> NoName]
<1>1. /\ Call(c, "create") /\ Goto(c, op) /\ guard' = c
      /\ UNCHANGED <<inner, sess, respawnQ, lc, gate, hist, persistVars>>
  BY DEF CreateCall
<1>2. c \in Calling /\ c \in Actors
  BY CallingFacts
<1>3. OpsOK(n) /\ EnvOK(n) /\ LocksOK /\ SessionsOK(n)
  BY DEF Others
<1>4. id \in Ids
  BY <1>3, WorldIds
<1>5. op \in CallOp(n)
  BY <1>4 DEF CallOp, AtEntry, NameSet
<1> HIDE DEF op
<1>6. OpsOK(n)'
  BY <1>1, <1>2, <1>3, <1>5, GotoCall DEF Goto
<1>7. EnvOK(n)' /\ SessionsOK(n)'
  BY <1>1, <1>3, CallOK DEF EnvOK
<1>8. LocksOK'
  BY <1>1, <1>2, <1>3 DEF LocksOK
<1> QED BY <1>1, <1>6, <1>7, <1>8, MemoryFrame, Frame DEF Others, persistVars

\* create takes its lifecycle permit.
LEMMA CreatePermitTyped ==
  ASSUME NEW n \in Nat \ {0}, Typed(n), NEW c \in Calling, CreatePermit(c)
  PROVE  Typed(n)'
<1> USE DEF Typed
<1> DEFINE op == [ops[c] EXCEPT !.at = "evict"]
<1>1. /\ At(c, "permit") /\ Goto(c, op) /\ lc' = [lc EXCEPT !.permits = @ \cup {c}]
      /\ UNCHANGED <<inner, sess, respawnQ, gate, guard, env, persistVars>>
  BY DEF CreatePermit, Goto
<1>2. c \in Actors
  BY CallingFacts
<1>3. OpsOK(n) /\ LocksOK
  BY DEF Others
<1>4. ops[c] \in AtEntry
  BY <1>1, <1>3, CallAt DEF At
<1>5. op \in AtEntry
  BY <1>4 DEF AtEntry
<1>6. op \in CallOp(n)
  BY <1>5 DEF CallOp
<1> HIDE DEF op
<1>7. OpsOK(n)'
  BY <1>1, <1>3, <1>6, GotoCall DEF Goto
<1>8. LocksOK'
  BY <1>1, <1>2, <1>3 DEF LocksOK
<1> QED BY <1>1, <1>7, <1>8, MemoryFrame, Frame DEF Others, persistVars, env

\* create takes the gate and kills what is live under its id.
LEMMA CreateEvictTyped ==
  ASSUME NEW n \in Nat \ {0}, Typed(n), NEW c \in Calling, CreateEvict(c)
  PROVE  Typed(n)'
<1> USE DEF Typed
<1> DEFINE id  == ops[c].id
           old == inner.live[id]
           op  == [at |-> "reserve", id |-> id, name |-> ops[c].name,
                   retry |-> inner.dead[id].unavail]
           s   == Terminate(sess, old)
<1>1. /\ At(c, "evict") /\ gate' = c /\ inner' = kill_internal_impl(inner, id, TRUE)
      /\ sess' = IF old = 0 THEN sess ELSE [s EXCEPT ![old].replaced = TRUE]
      /\ Goto(c, op)
      /\ hist' = IF c = Main THEN hist
                 ELSE [hist EXCEPT !.down = @ \ {id}, !.gone = @ \ {id}]
      /\ UNCHANGED <<respawnQ, lc, guard, phase, restoring, world, persistVars>>
  BY DEF CreateEvict
<1>2. c \in Actors
  BY CallingFacts
<1>3. OpsOK(n) /\ LocksOK /\ SessionsOK(n) /\ EnvOK(n) /\ inner \in InnerOf(n)
      /\ n \in 1..(MaxInc + 1)
  BY DEF Others, MemoryOK
<1>4. ops[c] \in AtEntry
  BY <1>1, <1>3, CallAt DEF At
<1>5. id \in Ids /\ ops[c].name \in NameSet
  BY <1>4 DEF AtEntry
<1>6. inner.dead[id].unavail \in BOOLEAN /\ old \in OrNone(n)
  BY <1>3, <1>5, InnerAtId
<1>7. op \in CallOp(n)
  BY <1>5, <1>6 DEF CallOp, AtReserve
<1>8. inner' \in InnerOf(n)
  BY <1>1, <1>3, <1>5, KillFacts
<1>9. MemoryOK(n)'
  BY <1>3, <1>8 DEF MemoryOK
<1> HIDE DEF op
<1>10. OpsOK(n)'
  BY <1>1, <1>3, <1>7, GotoCall DEF Goto
<1>11. SessionsOK(n)'
  <2>1. /\ s \in [Incs -> SessionType] /\ \A j \in Incs : SessionOK(s[j], j, n, world.fuel)
    BY <1>3, TerminateType
  <2> HIDE DEF s
  <2>2. CASE old = 0
    BY <1>1, <1>3, <2>2 DEF SessionsOK
  <2>3. CASE old # 0
    <3> DEFINE t == [s[old] EXCEPT !.replaced = TRUE]
    <3>1. old \in Incs
      BY <1>3, <1>6, <2>3, BoundsAssumption DEF OrNone, Incs
    <3>0. s[old] \in SessionType
      BY <2>1, <3>1
    <3>2. t \in SessionType /\ t.out = s[old].out /\ t.reader = s[old].reader /\ t.todo = s[old].todo
      BY <3>0 DEF SessionType
    <3>3. SessionOK(t, old, n, world.fuel)
      BY <2>1, <3>1, <3>2 DEF SessionOK
    <3>4. sess' = [s EXCEPT ![old] = t] /\ world' = world
      BY <1>1, <2>3
    <3> HIDE DEF t
    <3> QED BY <2>1, <3>1, <3>2, <3>3, <3>4 DEF SessionsOK
  <2> QED BY <2>2, <2>3
<1>12. EnvOK(n)'
  BY <1>1, <1>3 DEF EnvOK
<1>13. LocksOK'
  BY <1>1, <1>2, <1>3 DEF LocksOK
<1> QED BY <1>1, <1>9, <1>10, <1>11, <1>12, <1>13, Frame DEF Others, persistVars

\* create hands out the next incarnation; this is where n advances.
LEMMA CreateReserveTyped ==
  ASSUME NEW n \in Nat \ {0}, Typed(n), NEW c \in Calling, CreateReserve(c)
  PROVE  Typed(n + 1)' /\ inner'.next = n + 1
<1> USE DEF Typed
<1> DEFINE id == ops[c].id
           op == [at |-> "spawn", id |-> id, inc |-> inner.next, retry |-> ops[c].retry]
           t  == NewSession(id, ops[c].name, inner.generation, 0)
<1>1. /\ At(c, "reserve") /\ inner.next \in Incs /\ inner' = begin_replacement(inner, id)
      /\ sess' = [sess EXCEPT ![inner.next] = t]
      /\ Goto(c, op)
      /\ UNCHANGED <<respawnQ, locks, env, persistVars>>
  BY DEF CreateReserve, InBounds
<1>2. OpsOK(n) /\ inner \in InnerOf(n)
  BY DEF Others, MemoryOK
<1>3. Others(n + 1) /\ n + 1 \in Nat \ {0}
  BY OthersGrow
<1>4. SessionsOK(n + 1) /\ OpsOK(n + 1) /\ EnvOK(n + 1)
  BY <1>3 DEF Others
<1>5. ops[c] \in AtReserve
  BY <1>1, <1>2, CallAt DEF At
<1>6. id \in Ids /\ ops[c].name \in NameSet /\ ops[c].retry \in BOOLEAN
  BY <1>5 DEF AtReserve
<1>7. inner.next = n /\ inner.generation \in Nat
  BY <1>2, InnerFields
<1>8. n \in Given(n + 1)
  BY TypesGrow
<1>9. op \in CallOp(n + 1)
  BY <1>6, <1>7, <1>8 DEF CallOp, AtSpawn
<1>10. MemoryOK(n + 1)' /\ inner'.next = n + 1
  <2>1. inner' \in InnerOf(n + 1) /\ inner'.next = n + 1
    BY <1>1, <1>2, <1>6, BeginFacts
  <2> QED BY <1>1, <1>7, <2>1, BoundsAssumption DEF MemoryOK, Incs
<1>11. SessionsOK(n + 1)'
  <2>1. t \in SessionType /\ SessionOK(t, inner.next, n + 1, world.fuel)
    BY <1>1, <1>3, <1>4, <1>6, <1>7, NewSessionType
  <2> HIDE DEF t
  <2> QED BY <1>1, <1>4, <2>1, SetSession DEF env
<1> HIDE DEF op
<1>12. OpsOK(n + 1)'
  BY <1>1, <1>4, <1>9, GotoCall DEF Goto
<1> QED BY <1>1, <1>3, <1>10, <1>11, <1>12, Frame DEF Others, persistVars, locks, env

\* create spawns the child.
LEMMA CreateSpawnTyped ==
  ASSUME NEW n \in Nat \ {0}, Typed(n), NEW c \in Calling, CreateSpawn(c)
  PROVE  Typed(n)'
<1> USE DEF Typed
<1> DEFINE inc == ops[c].inc
           op == [ops[c] EXCEPT !.at = "publish"]
           t  == [sess[inc] EXCEPT !.child = "running"]
<1>1. /\ At(c, "spawn") /\ sess' = [sess EXCEPT ![inc] = t] /\ Goto(c, op)
      /\ UNCHANGED <<inner, respawnQ, locks, env, persistVars>>
  BY DEF CreateSpawn, Goto
<1>2. OpsOK(n) /\ SessionsOK(n) /\ n \in 1..(MaxInc + 1)
  BY DEF Others, MemoryOK
<1>3. ops[c] \in AtSpawn(n)
  BY <1>1, <1>2, CallAt DEF At
<1>4. op \in AtSpawn(n) /\ inc \in Given(n)
  BY <1>3 DEF AtSpawn
<1>5. op \in CallOp(n)
  BY <1>4 DEF CallOp
<1>6. SessionsOK(n)'
  <2>1. inc \in Incs
    BY <1>2, <1>4, BoundsAssumption DEF Given, Incs
  <2>2. sess[inc] \in SessionType /\ SessionOK(sess[inc], inc, n, world.fuel)
    BY <1>2, <2>1 DEF SessionsOK
  <2>3. t \in SessionType /\ SessionOK(t, inc, n, world.fuel)
    BY <2>2 DEF SessionType, SessionOK
  <2> HIDE DEF t
  <2> QED BY <1>1, <1>2, <2>1, <2>3, SetSession DEF env
<1> HIDE DEF op
<1>7. OpsOK(n)'
  BY <1>1, <1>2, <1>5, GotoCall DEF Goto
<1> QED BY <1>1, <1>6, <1>7, MemoryFrame, Frame DEF Others, persistVars, locks, env

\* Where a create goes after a failure.
LEMMA AfterFailureType ==
  ASSUME NEW c, ops[c].id \in Ids
  PROVE  AfterFailure(c) \in Plain \cup AtRecheck
BY DEF AfterFailure, AtRecheck, Idle, Plain

\* The spawn fails: what finish_failed_replacement_locked leaves is typed.
LEMMA CreateSpawnFailsTyped ==
  ASSUME NEW n \in Nat \ {0}, Typed(n), NEW c \in Calling, CreateSpawnFails(c)
  PROVE  Typed(n)'
<1> USE DEF Typed
<1> DEFINE r  == ReplacementFailed(c)
           op == Sending(r.cmds, AfterFailure(c), KeepsGuard(c))
<1>1. /\ At(c, "spawn") /\ inner' = r.inner /\ Goto(c, op)
      /\ UNCHANGED <<sess, respawnQ, locks, env, persistVars>>
  BY DEF CreateSpawnFails
<1>2. OpsOK(n) /\ inner \in InnerOf(n) /\ n \in 1..(MaxInc + 1)
  BY DEF Others, MemoryOK
<1>3. ops[c] \in AtSpawn(n)
  BY <1>1, <1>2, CallAt DEF At
<1>4. ops[c].id \in Ids /\ ops[c].inc \in Given(n) /\ ops[c].retry \in BOOLEAN
  BY <1>3 DEF AtSpawn
<1>5. Outcome(r, inner, n, ops[c].id)
  BY <1>2, <1>4, FailedReplacementFacts DEF ReplacementFailed
<1> HIDE DEF r
<1>6. op \in CallOp(n)
  <2>1. AfterFailure(c) \in Plain \cup AtRecheck /\ KeepsGuard(c) \in BOOLEAN
    BY <1>4, AfterFailureType DEF KeepsGuard
  <2>2. r.cmds \in Seq(MarksOf(n, ops[c].id))
    BY <1>5 DEF Outcome
  <2> QED BY <1>4, <2>1, <2>2, SendingType
<1>7. MemoryOK(n)'
  BY <1>1, <1>2, <1>5 DEF MemoryOK, Outcome
<1> HIDE DEF op
<1>8. OpsOK(n)'
  BY <1>1, <1>2, <1>6, GotoCall DEF Goto
<1> QED BY <1>1, <1>7, <1>8, Frame DEF Others, persistVars, locks, env

\* create was superseded and kills its child.
LEMMA CreateAbandonTyped ==
  ASSUME NEW n \in Nat \ {0}, Typed(n), NEW c \in Calling, CreateAbandon(c)
  PROVE  Typed(n)'
<1> USE DEF Typed
<1> DEFINE op == AfterFailure(c)
<1>1. /\ At(c, "publish") /\ sess' = Terminate(sess, ops[c].inc) /\ Goto(c, op)
      /\ DropGates(c) /\ guard' \in {guard, NoOne}
      /\ UNCHANGED <<inner, respawnQ, env, persistVars>>
  BY DEF CreateAbandon, ReleaseGuard, Unlock
<1>2. OpsOK(n) /\ SessionsOK(n) /\ LocksOK
  BY DEF Others
<1>3. ops[c] \in AtSpawn(n)
  BY <1>1, <1>2, CallAt DEF At
<1>4. ops[c].id \in Ids
  BY <1>3 DEF AtSpawn
<1>5. op \in CallOp(n)
  BY <1>4, AfterFailureType DEF CallOp
<1> HIDE DEF op
<1>6. OpsOK(n)'
  BY <1>1, <1>2, <1>5, GotoCall DEF Goto
<1>7. SessionsOK(n)'
  <2> DEFINE s == Terminate(sess, ops[c].inc)
  <2>1. s \in [Incs -> SessionType] /\ \A j \in Incs : SessionOK(s[j], j, n, world.fuel)
    BY <1>2, TerminateType
  <2>2. sess' = s /\ world' = world
    BY <1>1 DEF env
  <2> HIDE DEF s
  <2> QED BY <2>1, <2>2 DEF SessionsOK
<1>8. LocksOK'
  BY <1>1, <1>2, DropOK
<1> QED BY <1>1, <1>6, <1>7, <1>8, MemoryFrame, Frame DEF Others, persistVars, env

\* create publishes its session as the live one.
LEMMA CreatePublishTyped ==
  ASSUME NEW n \in Nat \ {0}, Typed(n), NEW c \in Calling, CreatePublish(c)
  PROVE  Typed(n)'
<1> USE DEF Typed
<1> DEFINE id == ops[c].id
           op == [ops[c] EXCEPT !.at = "persist"]
           s  == Terminate(sess, inner.live[id])
<1>1. /\ At(c, "publish") /\ sess' = s /\ inner' = Published(inner, id, ops[c].inc)
      /\ Goto(c, op)
      /\ UNCHANGED <<respawnQ, locks, env, persistVars>>
  BY DEF CreatePublish, Goto, Published
<1>2. OpsOK(n) /\ SessionsOK(n) /\ inner \in InnerOf(n) /\ n \in 1..(MaxInc + 1)
  BY DEF Others, MemoryOK
<1>3. ops[c] \in AtSpawn(n)
  BY <1>1, <1>2, CallAt DEF At
<1>4. op \in AtSpawn(n) /\ id \in Ids /\ ops[c].inc \in Given(n)
  BY <1>3 DEF AtSpawn
<1>5. op \in CallOp(n) /\ ops[c].inc \in OrNone(n)
  BY <1>4 DEF CallOp, Given, OrNone
<1>6. inner' \in InnerOf(n)
  BY <1>1, <1>2, <1>4, <1>5, PublishFacts
<1>7. MemoryOK(n)'
  BY <1>2, <1>6 DEF MemoryOK
<1> HIDE DEF op
<1>8. OpsOK(n)'
  BY <1>1, <1>2, <1>5, GotoCall DEF Goto
<1>9. SessionsOK(n)'
  <2>1. s \in [Incs -> SessionType] /\ \A j \in Incs : SessionOK(s[j], j, n, world.fuel)
    BY <1>2, TerminateType
  <2>2. sess' = s /\ world' = world
    BY <1>1 DEF env
  <2> HIDE DEF s
  <2> QED BY <2>1, <2>2 DEF SessionsOK
<1> QED BY <1>1, <1>7, <1>8, <1>9, Frame DEF Others, persistVars, env, locks

\* Children are killed, and an event may have cost fuel.
LEMMA TerminatedOK ==
  ASSUME NEW n, SessionsOK(n), NEW i, sess' = Terminate(sess, i),
         world'.fuel \in Int, world.fuel \in Int, world'.fuel <= world.fuel
  PROVE  SessionsOK(n)'
<1> DEFINE s == Terminate(sess, i)
<1>1. s \in [Incs -> SessionType] /\ \A j \in Incs : SessionOK(s[j], j, n, world.fuel)
  BY TerminateType
<1>2. sess' = s
  OBVIOUS
<1> HIDE DEF s
<1>3. \A j \in Incs : s[j].out \in Nat
  BY <1>1 DEF SessionType
<1> QED BY <1>1, <1>2, <1>3, BoundsAssumption DEF SessionsOK, SessionOK

\* The events that are left are a number.
LEMMA FuelType ==
  ASSUME NEW n, EnvOK(n)
  PROVE  world.fuel \in Int
BY BoundsAssumption DEF EnvOK, World

\* create sends SessionCreated.
LEMMA CreatePersistTyped ==
  ASSUME NEW n \in Nat \ {0}, Typed(n), NEW c \in Calling, CreatePersist(c)
  PROVE  Typed(n)'
<1> USE DEF Typed
<1> DEFINE op  == [ops[c] EXCEPT !.at = "start"]
           cmd == SessionCreated(ops[c].id, ops[c].inc, sess[ops[c].inc].name)
<1>1. /\ At(c, "persist") /\ Send(cmd) /\ Goto(c, op)
      /\ UNCHANGED <<inner, sess, respawnQ, locks, env, batch, worker, reply, db, removed>>
  BY DEF CreatePersist, Goto
<1>2. OpsOK(n) /\ SessionsOK(n) /\ ChanOK(n) /\ n \in 1..(MaxInc + 1)
  BY DEF Others, MemoryOK
<1>3. ops[c] \in AtSpawn(n)
  BY <1>1, <1>2, CallAt DEF At
<1>4. op \in AtSpawn(n) /\ ops[c].id \in Ids /\ ops[c].inc \in Given(n)
  BY <1>3 DEF AtSpawn
<1>5. op \in CallOp(n)
  BY <1>4 DEF CallOp
<1>6. sess[ops[c].inc].name \in NameSet
  BY <1>2, <1>4, BoundsAssumption DEF SessionsOK, SessionType, Given, Incs
<1>7. cmd \in CmdOf(n)
  BY <1>4, <1>6, CmdTypes
<1> HIDE DEF op, cmd
<1>8. OpsOK(n)' /\ ChanOK(n)'
  BY <1>1, <1>2, <1>5, <1>7, GotoCall, SendOK DEF Goto
<1> QED BY <1>1, <1>8, MemoryFrame, Frame DEF Others, locks, env

\* create starts the reader thread and returns.
LEMMA CreateStartTyped ==
  ASSUME NEW n \in Nat \ {0}, Typed(n), NEW c \in Calling, CreateStart(c)
  PROVE  Typed(n)'
<1> USE DEF Typed
<1> DEFINE id  == ops[c].id
           inc == ops[c].inc
           op  == AfterCreate(c)
           t   == [sess[inc] EXCEPT !.reader = "run"]
<1>1. /\ At(c, "start") /\ sess' = [sess EXCEPT ![inc] = t]
      /\ inner' = finish_replacement(inner, id, inc)
      /\ Goto(c, op) /\ DropGates(c) /\ guard' \in {guard, NoOne}
      /\ UNCHANGED <<respawnQ, env, persistVars>>
  BY DEF CreateStart, ReleaseGuard, Unlock
<1>2. OpsOK(n) /\ SessionsOK(n) /\ LocksOK /\ inner \in InnerOf(n) /\ n \in 1..(MaxInc + 1)
  BY DEF Others, MemoryOK
<1>3. ops[c] \in AtSpawn(n)
  BY <1>1, <1>2, CallAt DEF At
<1>4. id \in Ids /\ inc \in Given(n)
  BY <1>3 DEF AtSpawn
<1>5. op \in CallOp(n)
  BY PlainType DEF AfterCreate
<1>6. SessionsOK(n)'
  <2>1. inc \in Incs /\ inc < n
    BY <1>2, <1>4, BoundsAssumption DEF Given, Incs
  <2>2. sess[inc] \in SessionType /\ SessionOK(sess[inc], inc, n, world.fuel)
    BY <1>2, <2>1 DEF SessionsOK
  <2>3. t \in SessionType /\ SessionOK(t, inc, n, world.fuel)
    BY <2>1, <2>2 DEF SessionType, SessionOK
  <2> HIDE DEF t
  <2> QED BY <1>1, <1>2, <2>1, <2>3, SetSession DEF env
<1>7. MemoryOK(n)'
  <2>1. inner' \in InnerOf(n)
    BY <1>1, <1>2, <1>4, FinishFacts
  <2> QED BY <1>2, <2>1 DEF MemoryOK
<1> HIDE DEF op
<1>8. OpsOK(n)'
  BY <1>1, <1>2, <1>5, GotoCall DEF Goto
<1>9. LocksOK'
  BY <1>1, <1>2, DropOK
<1> QED BY <1>1, <1>6, <1>7, <1>8, <1>9, Frame DEF Others, persistVars, env

\* The reader thread does not start.
LEMMA CreateStartFailsTyped ==
  ASSUME NEW n \in Nat \ {0}, Typed(n), NEW c \in Calling, CreateStartFails(c)
  PROVE  Typed(n)'
<1> USE DEF Typed
<1> DEFINE id == ops[c].id
           r  == ReplacementFailed(c)
           op == Sending(r.cmds, AfterFailure(c), KeepsGuard(c))
<1>1. /\ At(c, "start") /\ inner' = kill_internal_impl(r.inner, id, TRUE) /\ Goto(c, op)
      /\ sess' = Terminate(sess, ops[c].inc)
      /\ UNCHANGED <<respawnQ, locks, env, persistVars>>
  BY DEF CreateStartFails
<1>2. OpsOK(n) /\ SessionsOK(n) /\ EnvOK(n) /\ inner \in InnerOf(n) /\ n \in 1..(MaxInc + 1)
  BY DEF Others, MemoryOK
<1>3. ops[c] \in AtSpawn(n)
  BY <1>1, <1>2, CallAt DEF At
<1>4. id \in Ids /\ ops[c].inc \in Given(n) /\ ops[c].retry \in BOOLEAN
  BY <1>3 DEF AtSpawn
<1>5. Outcome(r, inner, n, id)
  BY <1>2, <1>4, FailedReplacementFacts DEF ReplacementFailed
<1> HIDE DEF r
<1>6. op \in CallOp(n)
  <2>1. AfterFailure(c) \in Plain \cup AtRecheck /\ KeepsGuard(c) \in BOOLEAN
    BY <1>4, AfterFailureType DEF KeepsGuard
  <2>2. r.cmds \in Seq(MarksOf(n, id))
    BY <1>5 DEF Outcome
  <2> QED BY <1>4, <2>1, <2>2, SendingType
<1>7. MemoryOK(n)'
  <2>1. inner' \in InnerOf(n)
    BY <1>1, <1>4, <1>5, KillFacts DEF Outcome
  <2> QED BY <1>2, <2>1 DEF MemoryOK
<1> HIDE DEF op
<1>8. OpsOK(n)'
  BY <1>1, <1>2, <1>6, GotoCall DEF Goto
<1>9. SessionsOK(n)'
  BY <1>1, <1>2, FuelType, TerminatedOK DEF env
<1> QED BY <1>1, <1>7, <1>8, <1>9, Frame DEF Others, persistVars, locks, env

\* The next command of a failure is sent.
LEMMA SendNextTyped ==
  ASSUME NEW n \in Nat \ {0}, Typed(n), NEW a \in Calling \cup {Sup}, SendNext(a)
  PROVE  Typed(n)'
<1> USE DEF Typed
<1> DEFINE cs == ops[a].cmds
           op == [ops[a] EXCEPT !.cmds = Tail(cs)]
<1>1. /\ At(a, "send") /\ cs # <<>> /\ Send(Head(cs)) /\ ops' = [ops EXCEPT ![a] = op]
      /\ UNCHANGED <<inner, sess, respawnQ, locks, env, batch, worker, reply, db, removed>>
  BY DEF SendNext
<1>2. OpsOK(n) /\ ChanOK(n)
  BY DEF Others
<1>3. ops[a] \in AtSend(n) \cup SupSend(n)
  BY <1>1, <1>2, CallAt, SupAt DEF At
<1>4. cs \in Seq(FailOf(n))
  BY <1>3 DEF AtSend, SupSend
<1>5. Head(cs) \in FailOf(n) /\ Tail(cs) \in Seq(FailOf(n))
  BY <1>1, <1>4
<1>6. Head(cs) \in CmdOf(n)
  BY <1>5, FailuresAreCommands
<1>7. CASE a \in Calling
  <2>1. ops[a] \in AtSend(n)
    BY <1>1, <1>2, <1>7, CallAt DEF At
  <2>2. op \in AtSend(n)
    BY <1>5, <2>1 DEF AtSend
  <2>3. op \in CallOp(n)
    BY <2>2 DEF CallOp
  <2> HIDE DEF op
  <2>4. OpsOK(n)'
    BY <1>1, <1>2, <1>7, <2>3, GotoCall
  <2>5. ChanOK(n)'
    BY <1>1, <1>2, <1>6, SendOK
  <2> QED BY <1>1, <2>4, <2>5, MemoryFrame, Frame DEF Others, locks, env
<1>8. CASE a = Sup
  <2>1. ops[a] \in SupSend(n)
    BY <1>1, <1>2, <1>8, SupAt DEF At
  <2>2. op \in SupSend(n)
    BY <1>5, <2>1 DEF SupSend
  <2>3. op \in SupOp(n)
    BY <2>2 DEF SupOp
  <2> HIDE DEF op
  <2>4. OpsOK(n)'
    BY <1>1, <1>2, <1>8, <2>3, GotoSup
  <2>5. ChanOK(n)'
    BY <1>1, <1>2, <1>6, SendOK
  <2> QED BY <1>1, <2>4, <2>5, MemoryFrame, Frame DEF Others, locks, env
<1> QED BY <1>7, <1>8

\* The commands of a failure are sent, its locks dropped.
LEMMA SendDoneTyped ==
  ASSUME NEW n \in Nat \ {0}, Typed(n), NEW a \in Calling \cup {Sup}, SendDone(a)
  PROVE  Typed(n)'
<1> USE DEF Typed
<1> DEFINE op == ops[a].next
<1>1. /\ At(a, "send") /\ ops' = [ops EXCEPT ![a] = op]
      /\ DropGates(a) /\ guard' \in {guard, NoOne}
      /\ UNCHANGED <<inner, sess, respawnQ, env, persistVars>>
  BY DEF SendDone, Goto, Unlock
<1>2. OpsOK(n) /\ LocksOK
  BY DEF Others
<1>3. LocksOK'
  BY <1>1, <1>2, DropOK
<1>4. OpsOK(n)'
  <2>1. CASE a \in Calling
    <3>1. op \in Plain \cup AtRecheck
      BY <1>1, <1>2, <2>1, CallAt DEF At, AtSend
    <3>2. op \in CallOp(n)
      BY <3>1 DEF CallOp
    <3> QED BY <1>1, <1>2, <2>1, <3>2, GotoCall
  <2>2. CASE a = Sup
    <3>1. op \in SupIdle \cup SupLost(n)
      BY <1>1, <1>2, <2>2, SupAt DEF At, SupSend
    <3>2. op \in SupOp(n)
      BY <3>1 DEF SupOp
    <3> QED BY <1>1, <1>2, <2>2, <3>2, GotoSup
  <2> QED BY <2>1, <2>2
<1> QED BY <1>1, <1>3, <1>4, MemoryFrame, Frame DEF Others, persistVars, env

\* After a failed create the target is still there.
LEMMA CreateRecheckTyped ==
  ASSUME NEW n \in Nat \ {0}, Typed(n), NEW c \in Calling, CreateRecheck(c)
  PROVE  Typed(n)'
<1> USE DEF Typed
<1>1. /\ ops' = [ops EXCEPT ![c] = Idle] /\ DropGates(c) /\ guard' \in {guard, NoOne}
      /\ UNCHANGED <<inner, sess, respawnQ, env, persistVars>>
  BY DEF CreateRecheck, Return, Goto, Unlock
<1>2. OpsOK(n) /\ LocksOK
  BY DEF Others
<1>3. OpsOK(n)' /\ LocksOK'
  BY <1>1, <1>2, PlainType, GotoCall, DropOK
<1> QED BY <1>1, <1>3, MemoryFrame, Frame DEF Others, persistVars, env

\* After a failed create the target is lost.
LEMMA CreateTargetLostTyped ==
  ASSUME NEW n \in Nat \ {0}, Typed(n), NEW c \in Calling, CreateTargetLost(c)
  PROVE  Typed(n)'
<1> USE DEF Typed
<1> DEFINE id == ops[c].id
           r  == mark_target_unavailable(inner, id, NoName)
           op == Sending(r.cmds, Idle, FALSE)
<1>1. /\ At(c, "recheck") /\ gate' = c /\ inner' = r.inner /\ ops' = [ops EXCEPT ![c] = op]
      /\ UNCHANGED <<sess, respawnQ, lc, guard, env, persistVars>>
  BY DEF CreateTargetLost, Goto
<1>2. OpsOK(n) /\ LocksOK /\ inner \in InnerOf(n) /\ n \in 1..(MaxInc + 1)
  BY DEF Others, MemoryOK
<1>3. id \in Ids
  BY <1>1, <1>2, CallAt DEF At, AtRecheck
<1>4. /\ r.inner \in InnerOf(n)
      /\ r.cmds = <<>> \/ r.cmds \in Seq(MarksOf(n, id)) \/ r.cmds \in Seq(UpsertsOf(n, id))
  BY <1>2, <1>3, TargetLostFacts DEF NameSet
<1> HIDE DEF r
<1>5. r.cmds \in Seq(MarksOf(n, id)) \cup Seq(UpsertsOf(n, id))
  <2>1. <<>> \in Seq(MarksOf(n, id))
    OBVIOUS
  <2> QED BY <1>4, <2>1
<1>6. op \in CallOp(n)
  BY <1>3, <1>5, PlainType, SendingType
<1> HIDE DEF op
<1>7. OpsOK(n)'
  BY <1>1, <1>2, <1>6, GotoCall
<1>8. LocksOK'
  BY <1>1, <1>2, CallingFacts, GateOK
<1>9. MemoryOK(n)'
  BY <1>1, <1>2, <1>4 DEF MemoryOK
<1> QED BY <1>1, <1>7, <1>8, <1>9, Frame DEF Others, persistVars, env

-----------------------------------------------------------------------------
(* kill, remove, rename                                                    *)

\* kill is one critical section.
LEMMA KillTyped ==
  ASSUME NEW n \in Nat \ {0}, Typed(n), NEW c \in Callers, NEW id \in world.ids, Kill(c, id)
  PROVE  Typed(n)'
<1> USE DEF Typed
<1>1. /\ Call(c, "kill") /\ inner' = kill_internal_impl(inner, id, FALSE)
      /\ sess' = Terminate(sess, inner.live[id])
      /\ hist' = [hist EXCEPT !.down = @ \cup {id}]
      /\ UNCHANGED <<ops, respawnQ, locks, persistVars>>
  BY DEF Kill
<1>2. EnvOK(n) /\ SessionsOK(n) /\ inner \in InnerOf(n) /\ n \in 1..(MaxInc + 1)
  BY DEF Others, MemoryOK
<1>3. id \in Ids
  BY <1>2, WorldIds
<1>4. hist' \in [down : SUBSET Ids, gone : SUBSET Ids, atStop : SUBSET Ids]
  BY <1>1, <1>2, <1>3 DEF EnvOK
<1>5. EnvOK(n)'
  BY <1>1, <1>2, <1>4, CallOK
<1>6. MemoryOK(n)'
  BY <1>1, <1>2, <1>3, KillFacts DEF MemoryOK
<1>7. SessionsOK(n)'
  <2>1. world.fuel \in Nat \ {0} /\ world'.fuel = world.fuel - 1
    BY <1>1, <1>2, HappensOK DEF Call
  <2> QED BY <1>1, <1>2, <2>1, TerminatedOK
<1> QED BY <1>1, <1>5, <1>6, <1>7, Frame DEF Others, persistVars, locks

\* remove takes the next incarnation for the removal.
LEMMA RemoveCallTyped ==
  ASSUME NEW n \in Nat \ {0}, Typed(n), NEW c \in Callers, NEW id \in world.ids, RemoveCall(c, id)
  PROVE  Typed(n + 1)' /\ inner'.next = n + 1
<1> USE DEF Typed
<1> DEFINE op == [at |-> "remove", id |-> id, inc |-> inner.next]
<1>1. /\ Call(c, "remove") /\ inner.next \in Incs /\ gate' = c
      /\ inner' = allocate_incarnation(inner) /\ ops' = [ops EXCEPT ![c] = op]
      /\ UNCHANGED <<sess, respawnQ, lc, guard, hist, persistVars>>
  BY DEF RemoveCall, InBounds, Goto
<1>2. EnvOK(n) /\ inner \in InnerOf(n) /\ c \in Calling /\ c \in Actors
  BY CallingFacts DEF Others, MemoryOK
<1>3. Others(n + 1) /\ n + 1 \in Nat \ {0}
  BY OthersGrow
<1>4. OpsOK(n + 1) /\ EnvOK(n + 1) /\ LocksOK /\ SessionsOK(n + 1)
  BY <1>3 DEF Others
<1>5. id \in Ids /\ inner.next = n /\ n \in Given(n + 1)
  BY <1>2, WorldIds, InnerFields, TypesGrow
<1>6. op \in CallOp(n + 1)
  BY <1>5 DEF CallOp, AtRemove
<1>7. MemoryOK(n + 1)' /\ inner'.next = n + 1
  BY <1>1, <1>2, <1>5, AllocateFacts, BoundsAssumption DEF MemoryOK, Incs
<1>8. EnvOK(n + 1)' /\ SessionsOK(n + 1)'
  BY <1>1, <1>4, CallOK DEF EnvOK
<1> HIDE DEF op
<1>9. OpsOK(n + 1)' /\ LocksOK'
  BY <1>1, <1>2, <1>4, <1>6, GotoCall, GateOK
<1> QED BY <1>1, <1>3, <1>7, <1>8, <1>9, Frame DEF Others, persistVars

\* remove sends SessionRemoved.
LEMMA RemoveSendTyped ==
  ASSUME NEW n \in Nat \ {0}, Typed(n), NEW c \in Clients, RemoveSend(c)
  PROVE  Typed(n)'
<1> USE DEF Typed
<1> DEFINE op  == [ops[c] EXCEPT !.at = "removing"]
           cmd == SessionRemoved(ops[c].id, ops[c].inc, c)
<1>1. /\ At(c, "remove") /\ Send(cmd) /\ ops' = [ops EXCEPT ![c] = op]
      /\ UNCHANGED <<inner, sess, respawnQ, locks, env, batch, worker, reply, db, removed>>
  BY DEF RemoveSend
<1>2. OpsOK(n) /\ ChanOK(n) /\ c \in Calling
  BY DEF Others, Calling
<1>3. ops[c] \in AtRemove(n)
  BY <1>1, <1>2, CallAt DEF At
<1>4. op \in AtRemove(n) /\ ops[c].id \in Ids /\ ops[c].inc \in Given(n)
  BY <1>3 DEF AtRemove
<1>5. op \in CallOp(n) /\ cmd \in CmdOf(n)
  BY <1>4, CmdTypes DEF CallOp
<1> HIDE DEF op, cmd
<1>6. OpsOK(n)' /\ ChanOK(n)'
  BY <1>1, <1>2, <1>5, GotoCall, SendOK
<1> QED BY <1>1, <1>6, MemoryFrame, Frame DEF Others, locks, env

\* A reply is taken.
LEMMA TakeReplyOK ==
  ASSUME NEW n, WorkOK(n), NEW c, TakeReply(c), batch' = batch, worker' = worker
  PROVE  WorkOK(n)'
BY DEF WorkOK, TakeReply, Replies

\* remove has its answer, and forgets the id if the store did.
LEMMA RemoveDoneTyped ==
  ASSUME NEW n \in Nat \ {0}, Typed(n), NEW c \in Clients, RemoveDone(c)
  PROVE  Typed(n)'
<1> USE DEF Typed
<1> DEFINE id == ops[c].id
           ok == reply[c] = "ok"
<1>1. /\ At(c, "removing")
      /\ inner' = IF ok THEN RemoveIdentity(inner, id) ELSE inner
      /\ sess' = IF ok THEN Terminate(sess, inner.live[id]) ELSE sess
      /\ hist' = IF ok THEN [hist EXCEPT !.down = @ \cup {id}, !.gone = @ \cup {id}] ELSE hist
      /\ TakeReply(c) /\ ops' = [ops EXCEPT ![c] = Idle] /\ DropGates(c)
      /\ guard' \in {guard, NoOne}
      /\ UNCHANGED <<respawnQ, phase, restoring, world, chan, batch, worker, db, removed>>
  BY DEF RemoveDone, Return, Goto, Unlock
<1>2. /\ OpsOK(n) /\ SessionsOK(n) /\ LocksOK /\ EnvOK(n) /\ WorkOK(n) /\ c \in Calling
      /\ inner \in InnerOf(n) /\ n \in 1..(MaxInc + 1)
  BY DEF Others, MemoryOK, Calling
<1>3. ops[c] \in AtRemove(n)
  BY <1>1, <1>2, CallAt DEF At
<1>4. id \in Ids
  BY <1>3 DEF AtRemove
<1>5. MemoryOK(n)'
  BY <1>1, <1>2, <1>4, RemoveFacts DEF MemoryOK
<1>6. OpsOK(n)' /\ LocksOK' /\ WorkOK(n)'
  BY <1>1, <1>2, PlainType, GotoCall, DropOK, TakeReplyOK
<1>7. SessionsOK(n)'
  <2>1. CASE ok
    BY <1>1, <1>2, <2>1, FuelType, TerminatedOK
  <2>2. CASE ~ok
    BY <1>1, <1>2, <2>2 DEF SessionsOK
  <2> QED BY <2>1, <2>2
<1>8. EnvOK(n)'
  <2>1. CASE ok
    BY <1>1, <1>2, <1>4, <2>1 DEF EnvOK
  <2>2. CASE ~ok
    BY <1>1, <1>2, <2>2 DEF EnvOK
  <2> QED BY <2>1, <2>2
<1> QED BY <1>1, <1>5, <1>6, <1>7, <1>8, Frame DEF Others

\* What RenameCall needs of an id that has a session.
LEMMA CurrentType ==
  ASSUME NEW n \in Nat \ {0}, NEW in \in InnerOf(n), NEW id \in Ids
  PROVE  /\ CurrentIncarnation(in, id) \in OrNone(n)
         /\ in.live[id] # 0 \/ in.dead[id].inc # 0 => CurrentIncarnation(in, id) \in Given(n)
<1>1. in.live[id] \in OrNone(n) /\ in.dead[id].inc \in OrNone(n) /\ in.failed[id].inc \in OrNone(n)
  BY InnerAtId
<1> QED BY <1>1 DEF CurrentIncarnation, OrNone, Given

\* rename finds its session.
LEMMA RenameCallTyped ==
  ASSUME NEW n \in Nat \ {0}, Typed(n), NEW c \in Callers, NEW id \in world.ids,
         NEW name \in Names, RenameCall(c, id, name)
  PROVE  Typed(n)'
<1> USE DEF Typed
<1> DEFINE op == [at |-> "rename", id |-> id, inc |-> CurrentIncarnation(inner, id), name |-> name]
<1>1. /\ Call(c, "rename") /\ gate' = c /\ ops' = [ops EXCEPT ![c] = op]
      /\ inner.live[id] # 0 \/ inner.dead[id].inc # 0
      /\ UNCHANGED <<inner, sess, respawnQ, lc, guard, hist, persistVars>>
  BY DEF RenameCall, Goto
<1>2. /\ EnvOK(n) /\ OpsOK(n) /\ LocksOK /\ SessionsOK(n) /\ inner \in InnerOf(n)
      /\ c \in Calling /\ c \in Actors
  BY CallingFacts DEF Others, MemoryOK
<1>3. id \in Ids
  BY <1>2, WorldIds
<1>4. op \in CallOp(n)
  BY <1>1, <1>2, <1>3, CurrentType DEF CallOp, AtRename
<1>5. EnvOK(n)' /\ SessionsOK(n)'
  BY <1>1, <1>2, CallOK DEF EnvOK
<1> HIDE DEF op
<1>6. OpsOK(n)' /\ LocksOK'
  BY <1>1, <1>2, <1>4, GotoCall, GateOK
<1> QED BY <1>1, <1>5, <1>6, MemoryFrame, Frame DEF Others, persistVars

\* rename sends SessionRenamed.
LEMMA RenameSendTyped ==
  ASSUME NEW n \in Nat \ {0}, Typed(n), NEW c \in Callers, RenameSend(c)
  PROVE  Typed(n)'
<1> USE DEF Typed
<1> DEFINE op  == [ops[c] EXCEPT !.at = "renaming"]
           cmd == SessionRenamed(ops[c].id, ops[c].inc, ops[c].name, c)
<1>1. /\ At(c, "rename") /\ Send(cmd) /\ ops' = [ops EXCEPT ![c] = op]
      /\ UNCHANGED <<inner, sess, respawnQ, locks, env, batch, worker, reply, db, removed>>
  BY DEF RenameSend
<1>2. OpsOK(n) /\ ChanOK(n) /\ c \in Calling /\ c \in Clients
  BY DEF Others, Calling, Callers
<1>3. ops[c] \in AtRename(n)
  BY <1>1, <1>2, CallAt DEF At
<1>4. op \in AtRename(n) /\ ops[c].id \in Ids /\ ops[c].inc \in Given(n) /\ ops[c].name \in Names
  BY <1>3 DEF AtRename
<1>5. op \in CallOp(n) /\ cmd \in CmdOf(n)
  BY <1>2, <1>4, CmdTypes DEF CallOp
<1> HIDE DEF op, cmd
<1>6. OpsOK(n)' /\ ChanOK(n)'
  BY <1>1, <1>2, <1>5, GotoCall, SendOK
<1> QED BY <1>1, <1>6, MemoryFrame, Frame DEF Others, locks, env

\* rename has its answer, and sets the name if the id is still the same session.
LEMMA RenameDoneTyped ==
  ASSUME NEW n \in Nat \ {0}, Typed(n), NEW c \in Callers, RenameDone(c)
  PROVE  Typed(n)'
<1> USE DEF Typed
<1> DEFINE inc == ops[c].inc
           t   == [sess[inc] EXCEPT !.name = ops[c].name]
<1>1. /\ At(c, "renaming") /\ sess' \in {[sess EXCEPT ![inc] = t], sess}
      /\ TakeReply(c) /\ ops' = [ops EXCEPT ![c] = Idle] /\ DropGates(c)
      /\ guard' \in {guard, NoOne}
      /\ UNCHANGED <<inner, respawnQ, env, chan, batch, worker, db, removed>>
  BY DEF RenameDone, Return, Goto, Unlock
<1>2. /\ OpsOK(n) /\ SessionsOK(n) /\ LocksOK /\ WorkOK(n) /\ c \in Calling
      /\ n \in 1..(MaxInc + 1)
  BY CallingFacts DEF Others, MemoryOK
<1>3. ops[c] \in AtRename(n)
  BY <1>1, <1>2, CallAt DEF At
<1>4. inc \in Given(n) /\ ops[c].name \in NameSet
  BY <1>3 DEF AtRename, NameSet
<1>5. OpsOK(n)' /\ LocksOK' /\ WorkOK(n)'
  BY <1>1, <1>2, PlainType, GotoCall, DropOK, TakeReplyOK
<1>6. SessionsOK(n)'
  <2>1. inc \in Incs
    BY <1>2, <1>4, BoundsAssumption DEF Given, Incs
  <2>2. sess[inc] \in SessionType /\ SessionOK(sess[inc], inc, n, world.fuel)
    BY <1>2, <2>1 DEF SessionsOK
  <2>3. t \in SessionType /\ SessionOK(t, inc, n, world.fuel)
    BY <1>4, <2>2 DEF SessionType, SessionOK
  <2> HIDE DEF t
  <2>4. CASE sess' = [sess EXCEPT ![inc] = t]
    BY <1>1, <1>2, <2>1, <2>3, <2>4, SetSession DEF env
  <2>5. CASE sess' = sess
    BY <1>1, <1>2, <2>5 DEF SessionsOK, env
  <2> QED BY <1>1, <2>4, <2>5
<1> QED BY <1>1, <1>5, <1>6, MemoryFrame, Frame DEF Others, env

-----------------------------------------------------------------------------
(* dispose                                                                 *)

\* The children of every live session are killed.
LEMMA TerminateLiveOK ==
  ASSUME NEW n, SessionsOK(n), sess' = TerminateLive(sess), world' = world
  PROVE  SessionsOK(n)'
<1> DEFINE s == TerminateLive(sess)
<1>1. \A i \in Incs : /\ Terminate(sess, i)[i] \in SessionType
                      /\ SessionOK(Terminate(sess, i)[i], i, n, world.fuel)
                      /\ sess[i] \in SessionType /\ SessionOK(sess[i], i, n, world.fuel)
  BY TerminateType DEF SessionsOK
<1>2. s = [i \in Incs |-> s[i]]
  BY DEF TerminateLive
<1>3. \A i \in Incs : s[i] = Terminate(sess, i)[i] \/ s[i] = sess[i]
  BY DEF TerminateLive
<1> HIDE DEF s
<1>4. \A i \in Incs : s[i] \in SessionType /\ SessionOK(s[i], i, n, world.fuel)
  BY <1>1, <1>3
<1>5. s \in [Incs -> SessionType]
  BY <1>2, <1>4
<1>6. sess' = s
  BY DEF s
<1> QED BY <1>4, <1>5, <1>6 DEF SessionsOK

\* dispose closes the lifecycle gate.
LEMMA DisposeCallTyped ==
  ASSUME NEW n \in Nat \ {0}, Typed(n), NEW c \in Callers, DisposeCall(c)
  PROVE  Typed(n)'
<1> USE DEF Typed
<1> DEFINE op == [at |-> "drain"]
<1>1. /\ Call(c, "dispose") /\ lc' = [lc EXCEPT !.disposing = TRUE]
      /\ ops' = [ops EXCEPT ![c] = op]
      /\ UNCHANGED <<inner, sess, respawnQ, gate, guard, hist, persistVars>>
  BY DEF DisposeCall, Goto
<1>2. EnvOK(n) /\ OpsOK(n) /\ LocksOK /\ SessionsOK(n) /\ c \in Calling
  BY CallingFacts DEF Others
<1>3. op \in CallOp(n)
  BY PlainType
<1>4. EnvOK(n)' /\ SessionsOK(n)'
  BY <1>1, <1>2, CallOK DEF EnvOK
<1> HIDE DEF op
<1>5. OpsOK(n)'
  BY <1>1, <1>2, <1>3, GotoCall
<1>6. LocksOK'
  BY <1>1, <1>2 DEF LocksOK
<1> QED BY <1>1, <1>4, <1>5, <1>6, MemoryFrame, Frame DEF Others, persistVars

\* dispose raises the generation and lists what it has to remove.
LEMMA DisposeStartTyped ==
  ASSUME NEW n \in Nat \ {0}, Typed(n), NEW c \in Callers, DisposeStart(c)
  PROVE  Typed(n)'
<1> USE DEF Typed
<1> DEFINE op == [at |-> "dispose", left |-> Identities(inner), gen |-> inner.generation]
<1>1. /\ gate' = c /\ inner' = AtGeneration(inner, inner.generation + 1)
      /\ ops' = [ops EXCEPT ![c] = op]
      /\ UNCHANGED <<sess, respawnQ, lc, guard, env, persistVars>>
  BY DEF DisposeStart, Goto, AtGeneration
<1>2. /\ OpsOK(n) /\ LocksOK /\ inner \in InnerOf(n) /\ n \in 1..(MaxInc + 1)
      /\ c \in Calling /\ c \in Actors
  BY CallingFacts DEF Others, MemoryOK
<1>3. inner.generation \in Nat /\ Identities(inner) \subseteq Ids \X Given(n)
  BY <1>2, InnerFields, IdentitiesType
<1>4. op \in AtDispose(n)
  BY <1>3 DEF AtDispose
<1>5. op \in CallOp(n)
  BY <1>4 DEF CallOp
<1>6. MemoryOK(n)'
  BY <1>1, <1>2, <1>3, GenerationFacts DEF MemoryOK
<1> HIDE DEF op
<1>7. OpsOK(n)' /\ LocksOK'
  BY <1>1, <1>2, <1>5, GotoCall, GateOK
<1> QED BY <1>1, <1>6, <1>7, Frame DEF Others, persistVars, env

\* dispose hands out a removal incarnation and sends SessionRemoved.
LEMMA DisposeRemoveTyped ==
  ASSUME NEW n \in Nat \ {0}, Typed(n), NEW c \in Callers, DisposeRemove(c)
  PROVE  Typed(n + 1)' /\ inner'.next = n + 1
<1> USE DEF Typed
<1>0. PICK p \in ops[c].left :
        /\ Send(SessionRemoved(p[1], inner.next, c))
        /\ Goto(c, [at |-> "disposing", left |-> ops[c].left, gen |-> ops[c].gen, cur |-> p])
  BY DEF DisposeRemove
<1> DEFINE op  == [at |-> "disposing", left |-> ops[c].left, gen |-> ops[c].gen, cur |-> p]
           cmd == SessionRemoved(p[1], inner.next, c)
<1>1. /\ At(c, "dispose") /\ inner.next \in Incs /\ Send(cmd) /\ ops' = [ops EXCEPT ![c] = op]
      /\ inner' = allocate_incarnation(inner)
      /\ UNCHANGED <<sess, respawnQ, locks, env, batch, worker, reply, db, removed>>
  BY <1>0 DEF DisposeRemove, InBounds, Goto
<1>2. inner \in InnerOf(n) /\ c \in Calling /\ c \in Clients
  BY CallingFacts DEF MemoryOK, Callers
<1>3. Others(n + 1) /\ n + 1 \in Nat \ {0}
  BY OthersGrow
<1>4. OpsOK(n + 1) /\ ChanOK(n + 1)
  BY <1>3 DEF Others
<1>5. ops[c] \in AtDispose(n + 1)
  BY <1>1, <1>2, <1>4, CallAt DEF At
<1>6. /\ ops[c].left \in SUBSET (Ids \X Given(n + 1)) /\ ops[c].gen \in Nat
      /\ p \in Ids \X Given(n + 1) /\ p[1] \in Ids
  BY <1>0, <1>5 DEF AtDispose
<1>7. inner.next = n /\ n \in Given(n + 1)
  BY <1>2, InnerFields, TypesGrow
<1>8. op \in AtDisposing(n + 1)
  BY <1>6 DEF AtDisposing
<1>9. op \in CallOp(n + 1) /\ cmd \in CmdOf(n + 1)
  BY <1>2, <1>6, <1>7, <1>8, CmdTypes DEF CallOp
<1>10. MemoryOK(n + 1)' /\ inner'.next = n + 1
  BY <1>1, <1>2, <1>7, AllocateFacts, BoundsAssumption DEF MemoryOK, Incs
<1> HIDE DEF op, cmd
<1>11. OpsOK(n + 1)' /\ ChanOK(n + 1)'
  BY <1>1, <1>2, <1>4, <1>9, GotoCall, SendOK
<1> QED BY <1>1, <1>3, <1>10, <1>11, Frame DEF Others, locks, env

\* dispose evicts one identity that was removed durably.
LEMMA DisposeEvictTyped ==
  ASSUME NEW n \in Nat \ {0}, Typed(n), NEW c \in Callers, DisposeEvict(c)
  PROVE  Typed(n)'
<1> USE DEF Typed
<1> DEFINE p  == ops[c].cur
           op == [at |-> "dispose", left |-> ops[c].left \ {p}, gen |-> ops[c].gen]
<1>1. /\ At(c, "disposing")
      /\ inner' = evict_identity_after_durable_removal(inner, p[1], p[2])
      /\ sess' = IF inner.live[p[1]] = p[2] THEN Terminate(sess, p[2]) ELSE sess
      /\ ops' = [ops EXCEPT ![c] = op]
      /\ hist' = [hist EXCEPT !.down = @ \cup {p[1]}, !.gone = @ \cup {p[1]}]
      /\ TakeReply(c)
      /\ UNCHANGED <<respawnQ, locks, phase, restoring, world, chan, batch, worker, db, removed>>
  BY DEF DisposeEvict, Goto
<1>2. /\ OpsOK(n) /\ SessionsOK(n) /\ EnvOK(n) /\ WorkOK(n) /\ c \in Calling
      /\ inner \in InnerOf(n) /\ n \in 1..(MaxInc + 1)
  BY CallingFacts DEF Others, MemoryOK
<1>3. ops[c] \in AtDisposing(n)
  BY <1>1, <1>2, CallAt DEF At
<1>4. /\ p \in Ids \X Given(n) /\ p[1] \in Ids /\ ops[c].gen \in Nat
      /\ ops[c].left \in SUBSET (Ids \X Given(n))
  BY <1>3 DEF AtDisposing
<1>5. op \in AtDispose(n)
  BY <1>4 DEF AtDispose
<1>6. op \in CallOp(n)
  BY <1>5 DEF CallOp
<1>7. MemoryOK(n)'
  <2>1. \A id \in Ids : \A inc : evict_identity_after_durable_removal(inner, id, inc) \in InnerOf(n)
    BY <1>2, EvictFacts
  <2>2. inner' \in InnerOf(n)
    BY <1>1, <1>4, <2>1
  <2> QED BY <1>2, <2>2 DEF MemoryOK
<1> HIDE DEF op
<1>8. OpsOK(n)' /\ WorkOK(n)'
  BY <1>1, <1>2, <1>6, GotoCall, TakeReplyOK
<1>9. SessionsOK(n)'
  <2>1. CASE sess' = Terminate(sess, p[2])
    BY <1>1, <1>2, <2>1, FuelType, TerminatedOK
  <2>2. CASE sess' = sess
    BY <1>1, <1>2, <2>2 DEF SessionsOK
  <2> QED BY <1>1, <2>1, <2>2
<1>10. EnvOK(n)'
  BY <1>1, <1>2, <1>4 DEF EnvOK
<1> QED BY <1>1, <1>7, <1>8, <1>9, <1>10, Frame DEF Others, locks

\* The end of a dispose releases the gate and lets creates in again.
LEMMA EndDisposeOK ==
  ASSUME NEW n, OpsOK(n), LocksOK, NEW c \in Calling, EndDispose(c), guard' = guard
  PROVE  OpsOK(n)' /\ LocksOK'
<1>1. ops' = [ops EXCEPT ![c] = Idle] /\ gate' = NoOne /\ lc' = [lc EXCEPT !.disposing = FALSE]
  BY DEF EndDispose, Goto
<1>2. OpsOK(n)'
  BY <1>1, PlainType, GotoCall
<1> QED BY <1>1, <1>2 DEF LocksOK

\* A removal of dispose failed: the generation goes back.
LEMMA DisposeErrorTyped ==
  ASSUME NEW n \in Nat \ {0}, Typed(n), NEW c \in Callers, DisposeError(c)
  PROVE  Typed(n)'
<1> USE DEF Typed
<1>1. /\ At(c, "disposing") /\ inner' = AtGeneration(inner, ops[c].gen)
      /\ EndDispose(c) /\ TakeReply(c)
      /\ UNCHANGED <<sess, respawnQ, guard, env, chan, batch, worker, db, removed>>
  BY DEF DisposeError, AtGeneration
<1>2. /\ OpsOK(n) /\ LocksOK /\ WorkOK(n) /\ c \in Calling
      /\ inner \in InnerOf(n) /\ n \in 1..(MaxInc + 1)
  BY CallingFacts DEF Others, MemoryOK
<1>3. ops[c] \in AtDisposing(n)
  BY <1>1, <1>2, CallAt DEF At
<1>4. ops[c].gen \in Nat
  BY <1>3 DEF AtDisposing
<1>5. MemoryOK(n)'
  BY <1>1, <1>2, <1>4, GenerationFacts DEF MemoryOK
<1>6. OpsOK(n)' /\ LocksOK' /\ WorkOK(n)'
  BY <1>1, <1>2, EndDisposeOK, TakeReplyOK
<1> QED BY <1>1, <1>5, <1>6, Frame DEF Others, env

\* dispose drops everything that is left.
LEMMA DisposeFinishTyped ==
  ASSUME NEW n \in Nat \ {0}, Typed(n), NEW c \in Callers, DisposeFinish(c)
  PROVE  Typed(n)'
<1> USE DEF Typed
<1>1. /\ inner' = DisposeAll(inner) /\ sess' = TerminateLive(sess) /\ EndDispose(c)
      /\ hist' = [hist EXCEPT !.down = Ids]
      /\ UNCHANGED <<respawnQ, guard, phase, restoring, world, persistVars>>
  BY DEF DisposeFinish
<1>2. /\ OpsOK(n) /\ LocksOK /\ SessionsOK(n) /\ EnvOK(n) /\ c \in Calling
      /\ inner \in InnerOf(n) /\ n \in 1..(MaxInc + 1)
  BY CallingFacts DEF Others, MemoryOK
<1>3. MemoryOK(n)'
  BY <1>1, <1>2, DisposeFacts DEF MemoryOK
<1>4. OpsOK(n)' /\ LocksOK'
  BY <1>1, <1>2, EndDisposeOK
<1>5. SessionsOK(n)'
  BY <1>1, <1>2, TerminateLiveOK
<1>6. EnvOK(n)'
  BY <1>1, <1>2 DEF EnvOK
<1> QED BY <1>1, <1>3, <1>4, <1>5, <1>6, Frame DEF Others, persistVars

-----------------------------------------------------------------------------
(* reader_thread                                                           *)

\* The session of one incarnation is replaced by another, and an event cost fuel.
LEMMA SetSessionFuel ==
  ASSUME NEW n, SessionsOK(n), NEW i \in Incs, NEW t \in SessionType,
         world.fuel \in Int, world'.fuel \in Int, world'.fuel <= world.fuel,
         SessionOK(t, i, n, world'.fuel), sess' = [sess EXCEPT ![i] = t]
  PROVE  SessionsOK(n)'
<1>1. \A j \in Incs : sess[j].out \in Nat
  BY DEF SessionsOK, SessionType
<1>2. \A j \in Incs : SessionOK(sess[j], j, n, world'.fuel)
  BY <1>1, BoundsAssumption DEF SessionsOK, SessionOK
<1> QED BY <1>2 DEF SessionsOK

\* A full channel drops what is only offered.
LEMMA TrySendOK ==
  ASSUME NEW n, ChanOK(n), NEW cmd \in CmdOf(n), TrySend(cmd)
  PROVE  ChanOK(n)'
BY ChannelCapAssumption DEF ChanOK, TrySend

\* A reader forwards a chunk, and offers a snapshot.
LEMMA ReaderOutputTyped ==
  ASSUME NEW n \in Nat \ {0}, Typed(n), NEW i \in Incs, ReaderOutput(i)
  PROVE  Typed(n)'
<1> USE DEF Typed
<1> DEFINE o   == sess[i].out + 1
           t   == [sess[i] EXCEPT !.out = o]
           cmd == BufferUpdate(sess[i].id, i, o)
<1>1. /\ sess[i].reader = "run" /\ Happens("output")
      /\ chan' = chan \/ TrySend(cmd)
      /\ sess' = [sess EXCEPT ![i] = t]
      /\ UNCHANGED <<inner, ops, respawnQ, locks, phase, restoring, hist, batch, worker, reply,
                     db, removed>>
  BY DEF ReaderOutput
<1>2. SessionsOK(n) /\ EnvOK(n) /\ ChanOK(n)
  BY DEF Others
<1>3. world' \in World /\ world.fuel \in Nat \ {0} /\ world'.fuel = world.fuel - 1
  BY <1>1, <1>2, HappensOK
<1>4. sess[i] \in SessionType /\ SessionOK(sess[i], i, n, world.fuel)
  BY <1>2 DEF SessionsOK
<1>5. sess[i].id \in Ids /\ sess[i].out \in Nat /\ i \in Given(n) /\ o \in 0..Fuel
  BY <1>1, <1>3, <1>4, BoundsAssumption DEF SessionType, SessionOK, Given, Incs
<1>6. t \in SessionType /\ t.out = o /\ t.reader = sess[i].reader /\ t.todo = sess[i].todo
  BY <1>4, <1>5 DEF SessionType
<1>7. SessionOK(t, i, n, world'.fuel) /\ world'.fuel \in Int /\ world'.fuel <= world.fuel
  <2>1. world'.fuel \in Int /\ world'.fuel <= world.fuel
    BY <1>3
  <2>2. sess[i].out + world.fuel <= Fuel
    BY <1>4 DEF SessionOK
  <2>3. t.out + world'.fuel <= Fuel
    BY <1>3, <1>5, <1>6, <2>2, BoundsAssumption
  <2> QED BY <1>4, <1>6, <2>1, <2>3 DEF SessionOK
<1>8. cmd \in CmdOf(n)
  BY <1>5, CmdTypes
<1> HIDE DEF t, cmd, o
<1>9. SessionsOK(n)'
  <2>1. world.fuel \in Int
    BY <1>3
  <2> QED BY <1>1, <1>2, <1>6, <1>7, <2>1, SetSessionFuel
<1>10. ChanOK(n)'
  BY <1>1, <1>2, <1>8, TrySendOK, Frame
<1>11. EnvOK(n)'
  BY <1>1, <1>2, <1>3 DEF EnvOK
<1> QED BY <1>1, <1>9, <1>10, <1>11, MemoryFrame, Frame DEF Others, locks

\* Nothing but the fuel of the world changes when a child is gone.
LEMMA ChildGoneOK ==
  ASSUME NEW n, EnvOK(n), NEW i, NEW code, ChildGone(i, code), phase' = phase,
         restoring' = restoring, hist' = hist
  PROVE  /\ EnvOK(n)' /\ world.fuel \in Int /\ world'.fuel \in Int
         /\ world'.fuel <= world.fuel
<1>0. world.fuel \in Int
  BY FuelType
<1>1. CASE world' = world
  BY <1>0, <1>1 DEF EnvOK
<1>2. CASE Happens("exit")
  <2>1. world' \in World /\ world.fuel \in Nat \ {0} /\ world'.fuel = world.fuel - 1
    BY <1>2, HappensOK
  <2> QED BY <2>1 DEF EnvOK
<1> QED BY <1>1, <1>2 DEF ChildGone

\* A reader's exit path, seen from its session: new child, reader, count, todo and muted.
Ended(s, t) == /\ t \in SessionType
               /\ t.out = s.out /\ t.id = s.id /\ t.gen = s.gen
               /\ t.reader \in {"exit", "done"} /\ (t.reader = "exit" => t.todo # <<>>)

\* A session whose reader has seen its end.
LEMMA EndedOK ==
  ASSUME NEW n, SessionsOK(n), NEW i \in Incs, sess[i].reader = "run", NEW t, Ended(sess[i], t),
         world.fuel \in Int, world'.fuel \in Int, world'.fuel <= world.fuel,
         sess' = [sess EXCEPT ![i] = t]
  PROVE  SessionsOK(n)'
<1>1. sess[i] \in SessionType /\ SessionOK(sess[i], i, n, world.fuel)
  BY DEF SessionsOK
<1>2. sess[i].out \in Nat
  BY <1>1 DEF SessionType
<1>3. t \in SessionType /\ SessionOK(t, i, n, world'.fuel)
  BY <1>1, <1>2, BoundsAssumption DEF Ended, SessionOK
<1> QED BY <1>3, SetSessionFuel

\* The exit of the live session leaves a tombstone and ends its reader's loop.
LEMMA OwnerExitFacts ==
  ASSUME NEW n \in Nat \ {0}, SessionsOK(n), inner \in InnerOf(n), NEW i \in Incs,
         sess[i].reader = "run", NEW code, OwnerExit(i, code)
  PROVE  /\ inner' \in InnerOf(n)
         /\ \E t : Ended(sess[i], t) /\ sess' = [sess EXCEPT ![i] = t]
<1> DEFINE s    == sess[i]
           will == decide_restart(Policy[s.id], code,
                                  s.id \in inner.killed \/ inner.generation # s.gen, s.count)
           td   == IF will THEN <<"lock", "respawn", "event">> ELSE <<"lock", "event">>
           cnt  == IF code = 0 THEN 0 ELSE s.count
           t    == [s EXCEPT !.child = "gone", !.reader = "exit", !.count = cnt, !.todo = td]
           tomb == Tombstone(i, will)
<1>1. /\ inner.live[s.id] = i /\ inner' = ToTomb(inner, s.id, tomb)
      /\ sess' = [sess EXCEPT ![i] = t]
  BY DEF OwnerExit, ToTomb
<1>2. s \in SessionType /\ SessionOK(s, i, n, world.fuel)
  BY DEF SessionsOK
<1>3. s.id \in Ids /\ s.count \in Nat /\ i < n
  BY <1>2 DEF SessionType, SessionOK
<1>4. will \in BOOLEAN
  BY DEF decide_restart
<1>5. td \in Todos /\ td # <<>> /\ cnt \in Nat
  BY <1>3 DEF Todos
<1> HIDE DEF will, td, cnt
<1>6. tomb \in TombOf(n)
  BY <1>3, <1>4 DEF Tombstone, TombOf, OrNone, Incs
<1>7. t \in SessionType /\ t.out = s.out /\ t.id = s.id /\ t.gen = s.gen /\ t.reader = "exit"
      /\ t.todo = td
  BY <1>2, <1>5 DEF SessionType
<1> HIDE DEF t, tomb
<1>8. inner' \in InnerOf(n)
  BY <1>1, <1>3, <1>6, ExitFacts
<1> QED BY <1>1, <1>5, <1>7, <1>8 DEF Ended

\* The exit of a session another one replaced.
LEMMA StaleExitFacts ==
  ASSUME NEW n \in Nat \ {0}, SessionsOK(n), inner \in InnerOf(n), NEW i \in Incs,
         sess[i].reader = "run", StaleExit(i)
  PROVE  /\ inner' \in InnerOf(n)
         /\ \E t : Ended(sess[i], t) /\ sess' = [sess EXCEPT ![i] = t]
<1> DEFINE t == [sess[i] EXCEPT !.child = "gone", !.reader = "done"]
<1>1. sess[i] \in SessionType
  BY DEF SessionsOK
<1>2. inner' = consume_suppressed_exit(inner, sess[i].id) /\ sess' = [sess EXCEPT ![i] = t]
  BY <1>1 DEF StaleExit, SessionsOK
<1>3. sess[i].id \in Ids
  BY <1>1 DEF SessionType
<1>4. inner' \in InnerOf(n)
  BY <1>2, <1>3, ConsumeFacts
<1>5. Ended(sess[i], t)
  BY <1>1 DEF Ended, SessionType
<1> QED BY <1>2, <1>4, <1>5

\* The exit of a session that is not live any more.
LEMMA RemovedExitFacts ==
  ASSUME NEW n \in Nat \ {0}, SessionsOK(n), inner \in InnerOf(n), NEW i \in Incs,
         sess[i].reader = "run", RemovedExit(i)
  PROVE  /\ inner' \in InnerOf(n)
         /\ \E t : Ended(sess[i], t) /\ sess' = [sess EXCEPT ![i] = t]
<1> DEFINE s    == sess[i]
           mute == inner.suppress[s.id] > 0
           pers == ~mute /\ inner.dead[s.id].inc = i
           rd   == IF mute THEN "done" ELSE "exit"
           td   == IF pers THEN <<"lock", "event">> ELSE IF mute THEN <<>> ELSE <<"event">>
           t    == [s EXCEPT !.child = "gone", !.muted = mute, !.reader = rd, !.todo = td]
<1>1. /\ inner' = consume_suppressed_exit(inner, s.id) /\ sess' = [sess EXCEPT ![i] = t]
  BY DEF RemovedExit
<1>2. s \in SessionType
  BY DEF SessionsOK
<1>3. s.id \in Ids
  BY <1>2 DEF SessionType
<1>4. inner.suppress[s.id] \in Nat
  BY <1>3, InnerAtId
<1>5. mute \in BOOLEAN /\ td \in Todos /\ rd \in {"exit", "done"} /\ (rd = "exit" => td # <<>>)
  BY <1>4 DEF Todos
<1> HIDE DEF mute, td, rd
<1>6. t \in SessionType /\ t.out = s.out /\ t.id = s.id /\ t.gen = s.gen /\ t.reader = rd
      /\ t.todo = td
  BY <1>2, <1>5 DEF SessionType
<1> HIDE DEF t
<1>7. inner' \in InnerOf(n)
  BY <1>1, <1>3, ConsumeFacts
<1> QED BY <1>1, <1>5, <1>6, <1>7 DEF Ended

\* A reader sees the end of its child, whichever of the three exits it takes.
LEMMA ReaderExitTyped ==
  ASSUME NEW n \in Nat \ {0}, Typed(n), NEW i \in Incs, ReaderExit(i)
  PROVE  Typed(n)'
<1> USE DEF Typed
<1>1. PICK code \in {0, 1} : ChildGone(i, code) /\ (OwnerExit(i, code) \/ StaleExit(i) \/ RemovedExit(i))
  BY DEF ReaderExit
<1>2. /\ sess[i].reader = "run"
      /\ UNCHANGED <<ops, respawnQ, locks, phase, restoring, hist, persistVars>>
  BY DEF ReaderExit
<1>3. SessionsOK(n) /\ EnvOK(n) /\ inner \in InnerOf(n) /\ n \in 1..(MaxInc + 1)
  BY DEF Others, MemoryOK
<1>4. /\ inner' \in InnerOf(n)
      /\ \E t : Ended(sess[i], t) /\ sess' = [sess EXCEPT ![i] = t]
  BY <1>1, <1>2, <1>3, OwnerExitFacts, StaleExitFacts, RemovedExitFacts
<1>5. /\ EnvOK(n)' /\ world.fuel \in Int /\ world'.fuel \in Int /\ world'.fuel <= world.fuel
  BY <1>1, <1>2, <1>3, ChildGoneOK
<1>6. SessionsOK(n)'
  BY <1>2, <1>3, <1>4, <1>5, EndedOK
<1>7. MemoryOK(n)'
  BY <1>3, <1>4 DEF MemoryOK
<1> QED BY <1>2, <1>5, <1>6, <1>7, Frame DEF Others, persistVars, locks

\* Two steps in front of one or of two.
LEMMA ConcatSteps ==
  ASSUME NEW S, NEW p \in S, NEW q \in S, NEW u \in S, NEW v \in S
  PROVE  <<p, q>> \o <<u>> = <<p, q, u>> /\ <<p, q>> \o <<u, v>> = <<p, q, u, v>>
<1> DEFINE x == <<p, q>> \o <<u>>
           y == <<p, q>> \o <<u, v>>
<1>1. x \in Seq(S) /\ Len(x) = 3 /\ x[1] = p /\ x[2] = q /\ x[3] = u
  OBVIOUS
<1>2. y \in Seq(S) /\ Len(y) = 4 /\ y[1] = p /\ y[2] = q /\ y[3] = u /\ y[4] = v
  OBVIOUS
<1> HIDE DEF x, y
<1>3. x = <<p, q, u>>
  BY <1>1
<1>4. y = <<p, q, u, v>>
  BY <1>2
<1> QED BY <1>3, <1>4 DEF x, y

\* The exit path of a reader that reports, in full.
LEMMA ConcatEvent ==
  /\ <<"snapshot", "exited">> \o <<"event">> = <<"snapshot", "exited", "event">>
  /\ <<"snapshot", "exited">> \o <<"respawn", "event">>
       = <<"snapshot", "exited", "respawn", "event">>
<1> DEFINE S == {"snapshot", "exited", "event", "respawn"}
<1>1. "snapshot" \in S /\ "exited" \in S /\ "event" \in S /\ "respawn" \in S
  OBVIOUS
<1> HIDE DEF S
<1> QED BY <1>1, ConcatSteps, Zenon

\* What is left of an exit path, once its next step is done.
LEMMA TodoFacts ==
  ASSUME NEW t \in Todos, t # <<>>
  PROVE  /\ Tail(t) \in Todos
         /\ Head(t) = "lock" => /\ <<"snapshot", "exited">> \o Tail(t) \in Todos
                                /\ <<"snapshot", "exited">> \o Tail(t) # <<>>
<1>1. CASE t = <<"event">>
  BY <1>1 DEF Todos
<1>2. CASE t = <<"respawn", "event">>
  BY <1>2 DEF Todos
<1>3. CASE t = <<"lock", "event">>
  <2>1. Tail(t) = <<"event">>
    BY <1>3
  <2>2. <<"snapshot", "exited">> \o <<"event">> = <<"snapshot", "exited", "event">>
    BY ConcatEvent
  <2> QED BY <1>3, <2>1, <2>2 DEF Todos
<1>4. CASE t = <<"lock", "respawn", "event">>
  <2>1. Tail(t) = <<"respawn", "event">>
    BY <1>4
  <2>2. <<"snapshot", "exited">> \o <<"respawn", "event">>
          = <<"snapshot", "exited", "respawn", "event">>
    BY ConcatEvent
  <2> QED BY <1>4, <2>1, <2>2 DEF Todos
<1>5. CASE t = <<"exited", "event">>
  BY <1>5 DEF Todos
<1>6. CASE t = <<"exited", "respawn", "event">>
  BY <1>6 DEF Todos
<1>7. CASE t = <<"snapshot", "exited", "event">>
  BY <1>7 DEF Todos
<1>8. CASE t = <<"snapshot", "exited", "respawn", "event">>
  BY <1>8 DEF Todos
<1> QED BY <1>1, <1>2, <1>3, <1>4, <1>5, <1>6, <1>7, <1>8 DEF Todos

\* A step of the exit path, which may leave a mark in the session.
Advanced(s, td) == [s EXCEPT !.todo = td, !.reader = IF td = <<>> THEN "done" ELSE "exit"]

\* A reader one step further on its exit path.
LEMMA AdvancedOK ==
  ASSUME NEW n, SessionsOK(n), NEW i \in Incs, sess[i].reader = "exit", NEW td \in Todos
  PROVE  LET t == Advanced(sess[i], td) IN
         /\ t \in SessionType /\ SessionOK(t, i, n, world.fuel) /\ t.out = sess[i].out
         /\ t.reader = (IF td = <<>> THEN "done" ELSE "exit") /\ t.todo = td
         /\ Advance(i, td) = [sess EXCEPT ![i] = t]
<1> DEFINE rd == IF td = <<>> THEN "done" ELSE "exit"
           t  == [sess[i] EXCEPT !.todo = td, !.reader = rd]
<1>1. sess[i] \in SessionType /\ SessionOK(sess[i], i, n, world.fuel) /\ sess \in [Incs -> SessionType]
  BY DEF SessionsOK
<1>2. rd \in {"exit", "done"} /\ (rd = "exit" => td # <<>>)
  OBVIOUS
<1>3. Advanced(sess[i], td) = t
  BY DEF Advanced
<1>4. Advance(i, td) = [sess EXCEPT ![i] = t]
  BY <1>1 DEF Advance
<1> HIDE DEF rd
<1>5. t \in SessionType /\ t.out = sess[i].out /\ t.reader = rd /\ t.todo = td
  BY <1>1, <1>2 DEF SessionType
<1>6. SessionOK(t, i, n, world.fuel)
  BY <1>1, <1>2, <1>5 DEF SessionOK
<1> HIDE DEF t
<1> QED BY <1>3, <1>4, <1>5, <1>6 DEF rd

\* The reader at a step of its exit path.
LEMMA ReaderAtFacts ==
  ASSUME NEW n \in Nat, SessionsOK(n), NEW i \in Incs, NEW step, ReaderAt(i, step)
  PROVE  /\ sess[i] \in SessionType /\ sess[i].reader = "exit" /\ sess[i].todo \in Todos
         /\ sess[i].todo # <<>> /\ sess[i].id \in Ids /\ i \in Given(n) /\ i \in Nat
         /\ sess[i].gen \in Nat /\ sess[i].count \in Nat
         /\ world.fuel \in 0..Fuel => sess[i].out \in 0..Fuel
<1>1. sess[i] \in SessionType /\ SessionOK(sess[i], i, n, world.fuel) /\ sess[i].reader = "exit"
  BY DEF SessionsOK, ReaderAt
<1>2. i < n /\ sess[i].todo # <<>> /\ sess[i].out + world.fuel <= Fuel
  BY <1>1 DEF SessionOK
<1>3. i \in Nat \ {0}
  BY DEF Incs
<1>4. sess[i].out \in Nat
  BY <1>1 DEF SessionType
<1>5. world.fuel \in 0..Fuel => sess[i].out \in 0..Fuel
  BY <1>2, <1>4, BoundsAssumption
<1>6. i \in Given(n)
  BY <1>2, <1>3 DEF Given
<1> QED BY <1>1, <1>2, <1>3, <1>5, <1>6 DEF SessionType

\* A reader takes the gate for its tombstone.
LEMMA ReaderLockTyped ==
  ASSUME NEW n \in Nat \ {0}, Typed(n), NEW i \in Incs, ReaderLock(i)
  PROVE  Typed(n)'
<1> USE DEF Typed
<1> DEFINE rest == Tail(sess[i].todo)
           full == <<"snapshot", "exited">> \o rest
<1>1. /\ ReaderAt(i, "lock")
      /\ \/ gate' = i /\ sess' = Advance(i, full)
         \/ gate' = gate /\ sess' = Advance(i, rest)
      /\ UNCHANGED <<inner, ops, respawnQ, lc, guard, env, persistVars>>
  BY DEF ReaderLock
<1>2. SessionsOK(n) /\ LocksOK
  BY DEF Others
<1>3. sess[i].todo \in Todos /\ sess[i].todo # <<>> /\ sess[i].reader = "exit"
  BY <1>1, <1>2, ReaderAtFacts
<1>4. rest \in Todos /\ full \in Todos
  BY <1>1, <1>3, TodoFacts DEF ReaderAt
<1> HIDE DEF rest, full
<1>5. SessionsOK(n)'
  <2>1. PICK td \in {rest, full} : sess' = Advance(i, td)
    BY <1>1
  <2> DEFINE t == Advanced(sess[i], td)
  <2>2. t \in SessionType /\ SessionOK(t, i, n, world.fuel) /\ sess' = [sess EXCEPT ![i] = t]
    BY <1>2, <1>3, <1>4, <2>1, AdvancedOK
  <2> HIDE DEF t
  <2> QED BY <1>1, <1>2, <2>2, SetSession DEF env
<1>6. LocksOK'
  BY <1>1, <1>2, GateOK DEF LocksOK
<1> QED BY <1>1, <1>5, <1>6, MemoryFrame, Frame DEF Others, persistVars, env

\* A step of the exit path that only advances.
LEMMA AdvanceOK ==
  ASSUME NEW n \in Nat, SessionsOK(n), NEW i \in Incs, NEW step, ReaderAt(i, step),
         sess' = Advance(i, Tail(sess[i].todo)), world' = world
  PROVE  SessionsOK(n)'
<1> DEFINE td == Tail(sess[i].todo)
           t  == Advanced(sess[i], td)
<1>1. sess[i].todo \in Todos /\ sess[i].todo # <<>> /\ sess[i].reader = "exit"
  BY ReaderAtFacts
<1>2. td \in Todos
  BY <1>1, TodoFacts
<1>3. sess' = Advance(i, td)
  OBVIOUS
<1> HIDE DEF td
<1>4. t \in SessionType /\ SessionOK(t, i, n, world.fuel) /\ sess' = [sess EXCEPT ![i] = t]
  BY <1>1, <1>2, <1>3, AdvancedOK
<1> HIDE DEF t
<1> QED BY <1>4, SetSession

\* A reader sends the last snapshot.
LEMMA ReaderSnapshotTyped ==
  ASSUME NEW n \in Nat \ {0}, Typed(n), NEW i \in Incs, ReaderSnapshot(i)
  PROVE  Typed(n)'
<1> USE DEF Typed
<1> DEFINE cmd == BufferUpdate(sess[i].id, i, sess[i].out)
<1>1. /\ ReaderAt(i, "snapshot") /\ Send(cmd) /\ sess' = Advance(i, Tail(sess[i].todo))
      /\ UNCHANGED <<inner, ops, respawnQ, locks, env, batch, worker, reply, db, removed>>
  BY DEF ReaderSnapshot
<1>2. SessionsOK(n) /\ ChanOK(n) /\ world.fuel \in 0..Fuel
  BY DEF Others, EnvOK, World
<1>3. sess[i].id \in Ids /\ i \in Given(n) /\ sess[i].out \in 0..Fuel
  BY <1>1, <1>2, ReaderAtFacts
<1>4. cmd \in CmdOf(n)
  BY <1>3, CmdTypes
<1> HIDE DEF cmd
<1>5. SessionsOK(n)' /\ ChanOK(n)'
  BY <1>1, <1>2, <1>4, AdvanceOK, SendOK DEF env
<1> QED BY <1>1, <1>5, MemoryFrame, Frame DEF Others, locks, env

\* A reader sends SessionExited.
LEMMA ReaderExitedTyped ==
  ASSUME NEW n \in Nat \ {0}, Typed(n), NEW i \in Incs, ReaderExited(i)
  PROVE  Typed(n)'
<1> USE DEF Typed
<1> DEFINE cmd == SessionExited(sess[i].id, i)
<1>1. /\ ReaderAt(i, "exited") /\ Send(cmd) /\ sess' = Advance(i, Tail(sess[i].todo))
      /\ gate' = NoOne
      /\ UNCHANGED <<inner, ops, respawnQ, lc, guard, env, batch, worker, reply, db, removed>>
  BY DEF ReaderExited
<1>2. SessionsOK(n) /\ ChanOK(n) /\ LocksOK
  BY DEF Others
<1>3. sess[i].id \in Ids /\ i \in Given(n)
  BY <1>1, <1>2, ReaderAtFacts
<1>4. cmd \in CmdOf(n)
  BY <1>3, CmdTypes
<1> HIDE DEF cmd
<1>5. SessionsOK(n)' /\ ChanOK(n)' /\ LocksOK'
  BY <1>1, <1>2, <1>4, AdvanceOK, SendOK, GateOK DEF env
<1> QED BY <1>1, <1>5, MemoryFrame, Frame DEF Others, env

\* A reader asks for a respawn, or finds the queue full.
LEMMA ReaderRespawnTyped ==
  ASSUME NEW n \in Nat \ {0}, Typed(n), NEW i \in Incs, ReaderRespawn(i)
  PROVE  Typed(n)'
<1> USE DEF Typed
<1> DEFINE cmd  == [id |-> sess[i].id, inc |-> i, gen |-> sess[i].gen, count |-> sess[i].count]
           full == Len(respawnQ) = RespawnCap
           td   == Tail(sess[i].todo)
           u    == Advanced(sess[i], td)
           t    == [u EXCEPT !.dropped = full]
<1>1. /\ ReaderAt(i, "respawn")
      /\ respawnQ' = IF full THEN respawnQ ELSE Append(respawnQ, cmd)
      /\ sess' = [Advance(i, td) EXCEPT ![i].dropped = full]
      /\ UNCHANGED <<inner, ops, locks, env, persistVars>>
  BY DEF ReaderRespawn
<1>2. SessionsOK(n) /\ QueueOK(n)
  BY DEF Others
<1>3. /\ sess[i].todo \in Todos /\ sess[i].todo # <<>> /\ sess[i].reader = "exit"
      /\ sess[i].id \in Ids /\ i \in Given(n) /\ sess[i].gen \in Nat /\ sess[i].count \in Nat
  BY <1>1, <1>2, ReaderAtFacts
<1>4. cmd \in RespawnOf(n)
  BY <1>3 DEF RespawnOf
<1> HIDE DEF cmd
<1>5. QueueOK(n)'
  <2>1. CASE full
    BY <1>1, <1>2, <2>1 DEF QueueOK
  <2>2. CASE ~full
    BY <1>1, <1>2, <1>4, <2>2, BoundsAssumption DEF QueueOK
  <2> QED BY <2>1, <2>2
<1>6. td \in Todos /\ full \in BOOLEAN
  BY <1>3, TodoFacts
<1> HIDE DEF td, full
<1>7. u \in SessionType /\ SessionOK(u, i, n, world.fuel) /\ Advance(i, td) = [sess EXCEPT ![i] = u]
  BY <1>2, <1>3, <1>6, AdvancedOK
<1> HIDE DEF u
<1>8. t \in SessionType /\ SessionOK(t, i, n, world.fuel)
  BY <1>6, <1>7 DEF SessionType, SessionOK
<1>9. sess' = [sess EXCEPT ![i] = t]
  BY <1>1, <1>2, <1>7 DEF SessionsOK
<1> HIDE DEF t
<1>10. SessionsOK(n)'
  BY <1>1, <1>2, <1>8, <1>9, SetSession DEF env
<1> QED BY <1>1, <1>5, <1>10, MemoryFrame, Frame DEF Others, persistVars, env, locks

\* A reader emits its exit event.
LEMMA ReaderEventTyped ==
  ASSUME NEW n \in Nat \ {0}, Typed(n), NEW i \in Incs, ReaderEvent(i)
  PROVE  Typed(n)'
<1> USE DEF Typed
<1> DEFINE td   == Tail(sess[i].todo)
           told == with_current(inner, sess[i].id, i)
           u    == Advanced(sess[i], td)
           t    == [u EXCEPT !.told = told]
<1>1. /\ ReaderAt(i, "event")
      /\ sess' = [Advance(i, td) EXCEPT ![i].told = told]
      /\ UNCHANGED <<inner, ops, respawnQ, locks, env, persistVars>>
  BY DEF ReaderEvent
<1>2. SessionsOK(n)
  BY DEF Others
<1>3. sess[i].todo \in Todos /\ sess[i].todo # <<>> /\ sess[i].reader = "exit"
  BY <1>1, <1>2, ReaderAtFacts
<1>6. td \in Todos /\ told \in BOOLEAN
  BY <1>3, TodoFacts DEF with_current
<1> HIDE DEF td, told
<1>7. u \in SessionType /\ SessionOK(u, i, n, world.fuel) /\ Advance(i, td) = [sess EXCEPT ![i] = u]
  BY <1>2, <1>3, <1>6, AdvancedOK
<1> HIDE DEF u
<1>8. t \in SessionType /\ SessionOK(t, i, n, world.fuel)
  BY <1>6, <1>7 DEF SessionType, SessionOK
<1>9. sess' = [sess EXCEPT ![i] = t]
  BY <1>1, <1>2, <1>7 DEF SessionsOK
<1> HIDE DEF t
<1>10. SessionsOK(n)'
  BY <1>1, <1>2, <1>8, <1>9, SetSession DEF env
<1> QED BY <1>1, <1>10, MemoryFrame, Frame DEF Others, persistVars, env, locks

-----------------------------------------------------------------------------
(* supervisor_loop                                                         *)

\* The supervisor takes a request.
LEMMA SupRecvTyped ==
  ASSUME NEW n \in Nat \ {0}, Typed(n), SupRecv
  PROVE  Typed(n)'
<1> USE DEF Typed
<1> DEFINE op == [at |-> "backoff", cmd |-> Head(respawnQ)]
<1>1. /\ respawnQ # <<>> /\ ops' = [ops EXCEPT ![Sup] = op] /\ respawnQ' = Tail(respawnQ)
      /\ UNCHANGED <<inner, sess, locks, env, persistVars>>
  BY DEF SupRecv, Goto
<1>2. OpsOK(n) /\ QueueOK(n)
  BY DEF Others
<1>3. Head(respawnQ) \in RespawnOf(n)
  BY <1>1, <1>2 DEF QueueOK
<1>4. op \in SupOp(n)
  BY <1>3 DEF SupOp, SupAsk
<1> HIDE DEF op
<1>5. OpsOK(n)'
  BY <1>1, <1>2, <1>4, GotoSup
<1>6. QueueOK(n)'
  BY <1>1, <1>2, BoundsAssumption DEF QueueOK
<1> QED BY <1>1, <1>5, <1>6, MemoryFrame, Frame DEF Others, persistVars, env, locks

\* The request the supervisor is at.
LEMMA SupCmd ==
  ASSUME NEW n, OpsOK(n)
  PROVE  /\ ops[Sup].at \in {"backoff", "reserve", "permit", "spawn", "publish", "persist", "start",
                             "failed"}
              => /\ ops[Sup].cmd \in RespawnOf(n) /\ ops[Sup].cmd.id \in Ids
                 /\ ops[Sup].cmd.inc \in Given(n) /\ ops[Sup].cmd.gen \in Nat
                 /\ ops[Sup].cmd.count \in Nat
         /\ ops[Sup].at \in {"permit", "spawn", "publish", "persist", "start"}
              => ops[Sup].inc \in Given(n) /\ ops[Sup].retry \in BOOLEAN
         /\ \A cmd \in RespawnOf(n), lost \in BOOLEAN :
              SupFailed(cmd, lost) \in SupOp(n) /\ SupFailed(cmd, lost) \in SupLost(n)
<1>1. ops[Sup].at \in {"backoff", "reserve", "permit", "spawn", "publish", "persist", "start",
                       "failed"} => ops[Sup].cmd \in RespawnOf(n)
  BY SupAt DEF SupAsk, SupTry, SupLost
<1>2. ops[Sup].at \in {"permit", "spawn", "publish", "persist", "start"}
        => ops[Sup].inc \in Given(n) /\ ops[Sup].retry \in BOOLEAN
  BY SupAt DEF SupTry
<1>3. \A cmd \in RespawnOf(n), lost \in BOOLEAN : SupFailed(cmd, lost) \in SupLost(n)
  BY DEF SupFailed, SupLost
<1> QED BY <1>1, <1>2, <1>3 DEF RespawnOf, SupOp

\* The supervisor looks at it again after the backoff.
LEMMA SupCheckTyped ==
  ASSUME NEW n \in Nat \ {0}, Typed(n), SupCheck
  PROVE  Typed(n)'
<1> USE DEF Typed
<1> DEFINE cmd == ops[Sup].cmd
           new == [at |-> "reserve", cmd |-> cmd]
<1>1. /\ At(Sup, "backoff")
      /\ \E op \in {Idle, new} : ops' = [ops EXCEPT ![Sup] = op]
      /\ UNCHANGED <<inner, sess, respawnQ, locks, env, persistVars>>
  BY DEF SupCheck, Goto
<1>2. OpsOK(n)
  BY DEF Others
<1>3. cmd \in RespawnOf(n)
  BY <1>1, <1>2, SupCmd DEF At
<1>4. new \in SupOp(n) /\ Idle \in SupOp(n)
  BY <1>3, PlainType DEF SupOp, SupAsk
<1> HIDE DEF new
<1>5. OpsOK(n)'
  BY <1>1, <1>2, <1>4, GotoSup
<1> QED BY <1>1, <1>5, MemoryFrame, Frame DEF Others, persistVars, env, locks

\* The worktree of a respawn does not validate.
LEMMA SupInvalidTyped ==
  ASSUME NEW n \in Nat \ {0}, Typed(n), SupInvalid
  PROVE  Typed(n)'
<1> USE DEF Typed
<1>1. /\ At(Sup, "reserve")
      /\ \E lost \in BOOLEAN : ops' = [ops EXCEPT ![Sup] = SupFailed(ops[Sup].cmd, lost)]
      /\ UNCHANGED <<inner, sess, respawnQ, locks, env, persistVars>>
  BY DEF SupInvalid, Goto
<1>2. OpsOK(n)
  BY DEF Others
<1>3. ops[Sup].cmd \in RespawnOf(n)
  BY <1>1, <1>2, SupCmd DEF At
<1>4. OpsOK(n)'
  <2>1. PICK lost \in BOOLEAN : ops' = [ops EXCEPT ![Sup] = SupFailed(ops[Sup].cmd, lost)]
    BY <1>1
  <2>2. SupFailed(ops[Sup].cmd, lost) \in SupOp(n)
    BY <1>2, <1>3, SupCmd
  <2> QED BY <1>2, <2>1, <2>2, GotoSup
<1> QED BY <1>1, <1>4, MemoryFrame, Frame DEF Others, persistVars, env, locks

\* The supervisor hands out the next incarnation to the replacement.
LEMMA SupReserveTyped ==
  ASSUME NEW n \in Nat \ {0}, Typed(n), SupReserve
  PROVE  Typed(n)' \/ (Typed(n + 1)' /\ inner'.next = n + 1)
<1> USE DEF Typed
<1> DEFINE cmd == ops[Sup].cmd
           op  == [at |-> "permit", cmd |-> cmd, inc |-> inner.next,
                   retry |-> inner.dead[cmd.id].unavail]
           t   == NewSession(cmd.id, sess[cmd.inc].name, cmd.gen, cmd.count + 1)
           new == SupFailed(cmd, FALSE)
<1>1. /\ At(Sup, "reserve") /\ inner.next \in Incs
      /\ \/ /\ guard' = Sup /\ inner' = begin_replacement(inner, cmd.id)
            /\ sess' = [sess EXCEPT ![inner.next] = t] /\ ops' = [ops EXCEPT ![Sup] = op]
         \/ ops' = [ops EXCEPT ![Sup] = new] /\ UNCHANGED <<inner, sess, guard>>
      /\ UNCHANGED <<respawnQ, lc, gate, env, persistVars>>
  BY DEF SupReserve, Goto, InBounds
<1>2. OpsOK(n) /\ SessionsOK(n) /\ LocksOK /\ inner \in InnerOf(n) /\ n \in 1..(MaxInc + 1)
  BY DEF Others, MemoryOK
<1>3. cmd \in RespawnOf(n) /\ cmd.id \in Ids /\ cmd.inc \in Given(n) /\ cmd.gen \in Nat /\ cmd.count \in Nat
  BY <1>1, <1>2, SupCmd DEF At
<1>4. inner.next = n /\ n \in Given(n + 1) /\ inner.dead[cmd.id].unavail \in BOOLEAN
  BY <1>2, <1>3, InnerFields, InnerAtId, TypesGrow
<1>5. CASE ops' = [ops EXCEPT ![Sup] = new] /\ UNCHANGED <<inner, sess, guard>>
  <2>1. new \in SupOp(n)
    BY <1>2, <1>3, SupCmd
  <2> HIDE DEF new
  <2>2. OpsOK(n)'
    BY <1>2, <1>5, <2>1, GotoSup
  <2> QED BY <1>1, <1>5, <2>2, MemoryFrame, Frame DEF Others, persistVars, env
<1>6. CASE /\ guard' = Sup /\ inner' = begin_replacement(inner, cmd.id)
           /\ sess' = [sess EXCEPT ![inner.next] = t] /\ ops' = [ops EXCEPT ![Sup] = op]
  <2>1. Others(n + 1) /\ n + 1 \in Nat \ {0} /\ cmd.count + 1 \in Nat
    BY <1>3, OthersGrow
  <2>2. OpsOK(n + 1) /\ EnvOK(n + 1) /\ SessionsOK(n + 1)
    BY <2>1 DEF Others
  <2>3. cmd \in RespawnOf(n + 1)
    BY <1>3, CommandsGrow
  <2>4. op \in SupTry(n + 1)
    BY <1>4, <2>3 DEF SupTry
  <2>5. op \in SupOp(n + 1)
    BY <2>4 DEF SupOp
  <2> HIDE DEF op
  <2>6. OpsOK(n + 1)'
    BY <1>6, <2>2, <2>5, GotoSup
  <2>7. inner' \in InnerOf(n + 1) /\ inner'.next = n + 1
    BY <1>2, <1>3, <1>6, BeginFacts
  <2>8. MemoryOK(n + 1)'
    BY <1>1, <1>4, <2>7, BoundsAssumption DEF MemoryOK, Incs
  <2>9. cmd.inc \in Incs
    BY <1>2, <1>3, BoundsAssumption DEF Given, Incs
  <2>10. sess[cmd.inc].name \in NameSet
    BY <1>2, <2>9 DEF SessionsOK, SessionType
  <2>11. t \in SessionType /\ SessionOK(t, inner.next, n + 1, world.fuel)
    BY <1>1, <1>3, <2>1, <2>2, <2>10, NewSessionType
  <2> HIDE DEF t
  <2>12. SessionsOK(n + 1)'
    BY <1>1, <1>6, <2>2, <2>11, SetSession DEF env
  <2>13. LocksOK'
    BY <1>1, <1>2, <1>6, CallingFacts DEF LocksOK
  <2> QED BY <1>1, <2>1, <2>6, <2>7, <2>8, <2>12, <2>13, Frame DEF Others, persistVars, env
<1> QED BY <1>1, <1>5, <1>6

\* The supervisor takes its lifecycle permit, or gives up.
LEMMA SupPermitTyped ==
  ASSUME NEW n \in Nat \ {0}, Typed(n), SupPermit
  PROVE  Typed(n)'
<1> USE DEF Typed
<1> DEFINE new == [ops[Sup] EXCEPT !.at = "spawn"]
<1>1. /\ At(Sup, "permit")
      /\ \/ inner' = finish_replacement(inner, ops[Sup].cmd.id, ops[Sup].inc) /\ Return(Sup, Idle)
         \/ /\ lc' = [lc EXCEPT !.permits = @ \cup {Sup}] /\ ops' = [ops EXCEPT ![Sup] = new]
            /\ UNCHANGED <<inner, gate, guard>>
      /\ UNCHANGED <<sess, respawnQ, env, persistVars>>
  BY DEF SupPermit
<1>2. OpsOK(n) /\ LocksOK /\ inner \in InnerOf(n) /\ n \in 1..(MaxInc + 1)
  BY DEF Others, MemoryOK
<1>3. ops[Sup] \in SupTry(n) /\ ops[Sup].cmd.id \in Ids
  BY <1>1, <1>2, SupAt, SupCmd DEF At
<1>4. CASE inner' = finish_replacement(inner, ops[Sup].cmd.id, ops[Sup].inc) /\ Return(Sup, Idle)
  <2>1. ops' = [ops EXCEPT ![Sup] = Idle] /\ DropGates(Sup) /\ guard' \in {guard, NoOne}
    BY <1>4 DEF Return, Goto, Unlock
  <2>2. OpsOK(n)' /\ LocksOK'
    BY <1>2, <2>1, PlainType, GotoSup, DropOK
  <2>3. MemoryOK(n)'
    BY <1>2, <1>3, <1>4, FinishFacts DEF MemoryOK
  <2> QED BY <1>1, <2>2, <2>3, Frame DEF Others, persistVars, env
<1>5. CASE /\ lc' = [lc EXCEPT !.permits = @ \cup {Sup}] /\ ops' = [ops EXCEPT ![Sup] = new]
           /\ UNCHANGED <<inner, gate, guard>>
  <2>1. new \in SupTry(n)
    BY <1>3 DEF SupTry
  <2>2. new \in SupOp(n)
    BY <2>1 DEF SupOp
  <2> HIDE DEF new
  <2>3. OpsOK(n)'
    BY <1>2, <1>5, <2>2, GotoSup
  <2>4. LocksOK'
    BY <1>2, <1>5, CallingFacts DEF LocksOK
  <2> QED BY <1>1, <1>5, <2>3, <2>4, MemoryFrame, Frame DEF Others, persistVars, env
<1> QED BY <1>1, <1>4, <1>5

\* The supervisor spawns the child.
LEMMA SupSpawnTyped ==
  ASSUME NEW n \in Nat \ {0}, Typed(n), SupSpawn
  PROVE  Typed(n)'
<1> USE DEF Typed
<1> DEFINE inc == ops[Sup].inc
           op == [ops[Sup] EXCEPT !.at = "publish"]
           t  == [sess[inc] EXCEPT !.child = "running"]
<1>1. /\ At(Sup, "spawn") /\ sess' = [sess EXCEPT ![inc] = t] /\ ops' = [ops EXCEPT ![Sup] = op]
      /\ UNCHANGED <<inner, respawnQ, locks, env, persistVars>>
  BY DEF SupSpawn
<1>2. OpsOK(n) /\ SessionsOK(n) /\ n \in 1..(MaxInc + 1)
  BY DEF Others, MemoryOK
<1>3. ops[Sup] \in SupTry(n) /\ inc \in Given(n)
  BY <1>1, <1>2, SupAt, SupCmd DEF At
<1>4. op \in SupTry(n)
  BY <1>3 DEF SupTry
<1>5. op \in SupOp(n)
  BY <1>4 DEF SupOp
<1>6. SessionsOK(n)'
  <2>1. inc \in Incs
    BY <1>2, <1>3, BoundsAssumption DEF Given, Incs
  <2>2. sess[inc] \in SessionType /\ SessionOK(sess[inc], inc, n, world.fuel)
    BY <1>2, <2>1 DEF SessionsOK
  <2>3. t \in SessionType /\ SessionOK(t, inc, n, world.fuel)
    BY <2>2 DEF SessionType, SessionOK
  <2> HIDE DEF t
  <2> QED BY <1>1, <1>2, <2>1, <2>3, SetSession DEF env
<1> HIDE DEF op
<1>7. OpsOK(n)'
  BY <1>1, <1>2, <1>5, GotoSup
<1> QED BY <1>1, <1>6, <1>7, MemoryFrame, Frame DEF Others, persistVars, locks, env

\* A failed respawn goes on to withdraw the promise.
LEMMA RespawnFailedType ==
  ASSUME NEW n \in Nat \ {0}, OpsOK(n), inner \in InnerOf(n), ops[Sup].at \in {"spawn", "start"}
  PROVE  /\ RespawnFailed.inner \in InnerOf(n)
         /\ Sending(RespawnFailed.cmds, SupFailed(ops[Sup].cmd, FALSE), FALSE) \in SupOp(n)
<1> DEFINE r == RespawnFailed
<1>1. /\ ops[Sup].cmd \in RespawnOf(n) /\ ops[Sup].cmd.id \in Ids
      /\ ops[Sup].inc \in Given(n) /\ ops[Sup].retry \in BOOLEAN
  BY SupCmd
<1>2. Outcome(r, inner, n, ops[Sup].cmd.id)
  BY <1>1, FailedReplacementFacts DEF RespawnFailed
<1> HIDE DEF r
<1>3. r.inner \in InnerOf(n) /\ r.cmds \in Seq(MarksOf(n, ops[Sup].cmd.id))
  BY <1>2 DEF Outcome
<1>4. SupFailed(ops[Sup].cmd, FALSE) \in SupLost(n)
  BY <1>1, SupCmd
<1>5. Sending(r.cmds, SupFailed(ops[Sup].cmd, FALSE), FALSE) \in SupOp(n)
  BY <1>1, <1>3, <1>4, SendingType
<1> QED BY <1>3, <1>5 DEF r

\* The spawn of a respawn fails.
LEMMA SupSpawnFailsTyped ==
  ASSUME NEW n \in Nat \ {0}, Typed(n), SupSpawnFails
  PROVE  Typed(n)'
<1> USE DEF Typed
<1> DEFINE op == Sending(RespawnFailed.cmds, SupFailed(ops[Sup].cmd, FALSE), FALSE)
<1>1. /\ At(Sup, "spawn") /\ gate' = Sup /\ inner' = RespawnFailed.inner
      /\ ops' = [ops EXCEPT ![Sup] = op]
      /\ UNCHANGED <<sess, respawnQ, lc, guard, env, persistVars>>
  BY DEF SupSpawnFails, Goto
<1>2. OpsOK(n) /\ LocksOK /\ inner \in InnerOf(n) /\ n \in 1..(MaxInc + 1)
  BY DEF Others, MemoryOK
<1>3. inner' \in InnerOf(n) /\ op \in SupOp(n)
  BY <1>1, <1>2, RespawnFailedType DEF At
<1> HIDE DEF op
<1>4. OpsOK(n)' /\ LocksOK'
  BY <1>1, <1>2, <1>3, GotoSup, GateOK, CallingFacts
<1>5. MemoryOK(n)'
  BY <1>2, <1>3 DEF MemoryOK
<1> QED BY <1>1, <1>4, <1>5, Frame DEF Others, persistVars, env

\* The respawn was superseded; its child is killed.
LEMMA SupAbandonTyped ==
  ASSUME NEW n \in Nat \ {0}, Typed(n), SupAbandon
  PROVE  Typed(n)'
<1> USE DEF Typed
<1> DEFINE new == SupFailed(ops[Sup].cmd, FALSE)
<1>1. /\ At(Sup, "publish")
      /\ inner' = finish_replacement(inner, ops[Sup].cmd.id, ops[Sup].inc)
      /\ sess' = Terminate(sess, ops[Sup].inc)
      /\ \E op \in {new, Idle} : ops' = [ops EXCEPT ![Sup] = op]
      /\ DropGates(Sup) /\ guard' \in {guard, NoOne}
      /\ UNCHANGED <<respawnQ, env, persistVars>>
  BY DEF SupAbandon, Return, Goto, Unlock
<1>2. OpsOK(n) /\ LocksOK /\ SessionsOK(n) /\ EnvOK(n) /\ inner \in InnerOf(n) /\ n \in 1..(MaxInc + 1)
  BY DEF Others, MemoryOK
<1>3. ops[Sup].cmd \in RespawnOf(n) /\ ops[Sup].cmd.id \in Ids
  BY <1>1, <1>2, SupCmd DEF At
<1>4. new \in SupOp(n) /\ Idle \in SupOp(n)
  BY <1>2, <1>3, SupCmd, PlainType
<1> HIDE DEF new
<1>5. OpsOK(n)' /\ LocksOK'
  BY <1>1, <1>2, <1>4, GotoSup, DropOK
<1>6. MemoryOK(n)'
  BY <1>1, <1>2, <1>3, FinishFacts DEF MemoryOK
<1>7. SessionsOK(n)'
  BY <1>1, <1>2, FuelType, TerminatedOK DEF env
<1> QED BY <1>1, <1>5, <1>6, <1>7, Frame DEF Others, persistVars, env

\* The supervisor publishes its session as the live one.
LEMMA SupPublishTyped ==
  ASSUME NEW n \in Nat \ {0}, Typed(n), SupPublish
  PROVE  Typed(n)'
<1> USE DEF Typed
<1> DEFINE inc == ops[Sup].inc
           id  == ops[Sup].cmd.id
           src == ops[Sup].cmd.inc
           op  == [ops[Sup] EXCEPT !.at = "persist"]
           t   == [sess[inc] EXCEPT !.name = sess[src].name]
<1>1. /\ At(Sup, "publish") /\ sess' = [sess EXCEPT ![inc] = t]
      /\ inner' = Published(inner, id, inc)
      /\ gate' = Sup /\ ops' = [ops EXCEPT ![Sup] = op]
      /\ UNCHANGED <<respawnQ, lc, guard, env, persistVars>>
  BY DEF SupPublish, Published
<1>2. OpsOK(n) /\ LocksOK /\ SessionsOK(n) /\ inner \in InnerOf(n) /\ n \in 1..(MaxInc + 1)
  BY DEF Others, MemoryOK
<1>3. ops[Sup] \in SupTry(n) /\ inc \in Given(n) /\ id \in Ids /\ src \in Given(n)
  BY <1>1, <1>2, SupAt, SupCmd DEF At
<1>4. op \in SupTry(n)
  BY <1>3 DEF SupTry
<1>5. op \in SupOp(n) /\ inc \in OrNone(n)
  BY <1>3, <1>4 DEF SupOp, Given, OrNone
<1>6. SessionsOK(n)'
  <2>1. inc \in Incs /\ src \in Incs
    BY <1>2, <1>3, BoundsAssumption DEF Given, Incs
  <2>2. sess[inc] \in SessionType /\ SessionOK(sess[inc], inc, n, world.fuel) /\ sess[src] \in SessionType
    BY <1>2, <2>1 DEF SessionsOK
  <2>3. sess[src].name \in NameSet
    BY <2>2 DEF SessionType
  <2>4. t \in SessionType /\ SessionOK(t, inc, n, world.fuel)
    BY <2>2, <2>3 DEF SessionType, SessionOK
  <2> HIDE DEF t
  <2> QED BY <1>1, <1>2, <2>1, <2>4, SetSession DEF env
<1>7. MemoryOK(n)'
  <2>1. inner' \in InnerOf(n)
    BY <1>1, <1>2, <1>3, <1>5, PublishFacts
  <2> QED BY <1>2, <2>1 DEF MemoryOK
<1> HIDE DEF op
<1>8. OpsOK(n)' /\ LocksOK'
  BY <1>1, <1>2, <1>5, GotoSup, GateOK, CallingFacts
<1> QED BY <1>1, <1>6, <1>7, <1>8, Frame DEF Others, persistVars, env

\* The supervisor sends SessionCreated.
LEMMA SupPersistTyped ==
  ASSUME NEW n \in Nat \ {0}, Typed(n), SupPersist
  PROVE  Typed(n)'
<1> USE DEF Typed
<1> DEFINE inc == ops[Sup].inc
           op  == [ops[Sup] EXCEPT !.at = "start"]
           cmd == SessionCreated(ops[Sup].cmd.id, inc, sess[inc].name)
<1>1. /\ At(Sup, "persist") /\ Send(cmd) /\ ops' = [ops EXCEPT ![Sup] = op]
      /\ UNCHANGED <<inner, sess, respawnQ, locks, env, batch, worker, reply, db, removed>>
  BY DEF SupPersist
<1>2. OpsOK(n) /\ SessionsOK(n) /\ ChanOK(n) /\ n \in 1..(MaxInc + 1)
  BY DEF Others, MemoryOK
<1>3. ops[Sup] \in SupTry(n) /\ inc \in Given(n) /\ ops[Sup].cmd.id \in Ids
  BY <1>1, <1>2, SupAt, SupCmd DEF At
<1>4. op \in SupTry(n)
  BY <1>3 DEF SupTry
<1>5. op \in SupOp(n)
  BY <1>4 DEF SupOp
<1>6. sess[inc].name \in NameSet
  BY <1>2, <1>3, BoundsAssumption DEF SessionsOK, SessionType, Given, Incs
<1>7. cmd \in CmdOf(n)
  BY <1>3, <1>6, CmdTypes
<1> HIDE DEF op, cmd
<1>8. OpsOK(n)' /\ ChanOK(n)'
  BY <1>1, <1>2, <1>5, <1>7, GotoSup, SendOK
<1> QED BY <1>1, <1>8, MemoryFrame, Frame DEF Others, locks, env

\* The supervisor starts the reader thread.
LEMMA SupStartTyped ==
  ASSUME NEW n \in Nat \ {0}, Typed(n), SupStart
  PROVE  Typed(n)'
<1> USE DEF Typed
<1> DEFINE inc == ops[Sup].inc
           t   == [sess[inc] EXCEPT !.reader = "run"]
<1>1. /\ At(Sup, "start") /\ sess' = [sess EXCEPT ![inc] = t]
      /\ inner' = finish_replacement(inner, ops[Sup].cmd.id, inc)
      /\ ops' = [ops EXCEPT ![Sup] = Idle] /\ DropGates(Sup) /\ guard' \in {guard, NoOne}
      /\ UNCHANGED <<respawnQ, env, persistVars>>
  BY DEF SupStart, Return, Goto, Unlock
<1>2. OpsOK(n) /\ SessionsOK(n) /\ LocksOK /\ inner \in InnerOf(n) /\ n \in 1..(MaxInc + 1)
  BY DEF Others, MemoryOK
<1>3. inc \in Given(n) /\ ops[Sup].cmd.id \in Ids
  BY <1>1, <1>2, SupCmd DEF At
<1>4. SessionsOK(n)'
  <2>1. inc \in Incs /\ inc < n
    BY <1>2, <1>3, BoundsAssumption DEF Given, Incs
  <2>2. sess[inc] \in SessionType /\ SessionOK(sess[inc], inc, n, world.fuel)
    BY <1>2, <2>1 DEF SessionsOK
  <2>3. t \in SessionType /\ SessionOK(t, inc, n, world.fuel)
    BY <2>1, <2>2 DEF SessionType, SessionOK
  <2> HIDE DEF t
  <2> QED BY <1>1, <1>2, <2>1, <2>3, SetSession DEF env
<1>5. MemoryOK(n)'
  BY <1>1, <1>2, <1>3, FinishFacts DEF MemoryOK
<1>6. OpsOK(n)' /\ LocksOK'
  BY <1>1, <1>2, PlainType, GotoSup, DropOK
<1> QED BY <1>1, <1>4, <1>5, <1>6, Frame DEF Others, persistVars, env

\* The reader thread of a respawn does not start.
LEMMA SupStartFailsTyped ==
  ASSUME NEW n \in Nat \ {0}, Typed(n), SupStartFails
  PROVE  Typed(n)'
<1> USE DEF Typed
<1> DEFINE op == Sending(RespawnFailed.cmds, SupFailed(ops[Sup].cmd, FALSE), FALSE)
<1>1. /\ At(Sup, "start") /\ inner' = RespawnFailed.inner
      /\ sess' = Terminate(sess, ops[Sup].inc) /\ ops' = [ops EXCEPT ![Sup] = op]
      /\ UNCHANGED <<respawnQ, locks, env, persistVars>>
  BY DEF SupStartFails, Goto
<1>2. OpsOK(n) /\ SessionsOK(n) /\ EnvOK(n) /\ inner \in InnerOf(n) /\ n \in 1..(MaxInc + 1)
  BY DEF Others, MemoryOK
<1>3. inner' \in InnerOf(n) /\ op \in SupOp(n)
  BY <1>1, <1>2, RespawnFailedType DEF At
<1> HIDE DEF op
<1>4. OpsOK(n)'
  BY <1>1, <1>2, <1>3, GotoSup
<1>5. MemoryOK(n)'
  BY <1>2, <1>3 DEF MemoryOK
<1>6. SessionsOK(n)'
  BY <1>1, <1>2, FuelType, TerminatedOK DEF env
<1> QED BY <1>1, <1>4, <1>5, <1>6, Frame DEF Others, persistVars, env, locks

\* The respawn failed: the tombstone stops promising it.
LEMMA SupSourceFailedTyped ==
  ASSUME NEW n \in Nat \ {0}, Typed(n), SupSourceFailed
  PROVE  Typed(n)'
<1> USE DEF Typed
<1> DEFINE cmd == ops[Sup].cmd
           r   == finish_respawn_source_failure(inner, cmd.id, cmd.inc, ops[Sup].lost)
           op  == Sending(r.cmds, Idle, FALSE)
<1>1. /\ At(Sup, "failed") /\ gate' = Sup /\ inner' = r.inner /\ ops' = [ops EXCEPT ![Sup] = op]
      /\ UNCHANGED <<sess, respawnQ, lc, guard, env, persistVars>>
  BY DEF SupSourceFailed, Goto
<1>2. OpsOK(n) /\ LocksOK /\ inner \in InnerOf(n) /\ n \in 1..(MaxInc + 1)
  BY DEF Others, MemoryOK
<1>3. cmd.id \in Ids /\ cmd.inc \in Given(n)
  BY <1>1, <1>2, SupCmd DEF At
<1>4. ops[Sup].lost \in BOOLEAN
  BY <1>1, <1>2, SupAt DEF At, SupLost
<1>5. Outcome(r, inner, n, cmd.id)
  BY <1>2, <1>3, <1>4, SourceFailureFacts
<1> HIDE DEF r
<1>6. r.inner \in InnerOf(n) /\ r.cmds \in Seq(MarksOf(n, cmd.id))
  BY <1>5 DEF Outcome
<1>7. op \in SupOp(n)
  BY <1>3, <1>6, PlainType, SendingType
<1> HIDE DEF op
<1>8. OpsOK(n)' /\ LocksOK'
  BY <1>1, <1>2, <1>7, GotoSup, GateOK, CallingFacts
<1>9. MemoryOK(n)'
  BY <1>1, <1>2, <1>6 DEF MemoryOK
<1> QED BY <1>1, <1>8, <1>9, Frame DEF Others, persistVars, env

-----------------------------------------------------------------------------
(* spawn_cleanup_task                                                      *)

\* The sweeper finds a tombstone past its time.
LEMMA SweepBeginTyped ==
  ASSUME NEW n \in Nat \ {0}, Typed(n), SweepBegin
  PROVE  Typed(n)'
<1> USE DEF Typed
<1>1. /\ Happens("sweep") /\ inner' = prune_killed_markers(inner)
      /\ \/ ops' = ops
         \/ \E id \in Ids : \E inc \in Expirable(inner, id) :
              ops' = [ops EXCEPT ![Sweeper] = [at |-> "sweep", id |-> id, inc |-> inc]]
      /\ UNCHANGED <<sess, respawnQ, locks, phase, restoring, hist, persistVars>>
  BY DEF SweepBegin, Goto
<1>2. OpsOK(n) /\ SessionsOK(n) /\ EnvOK(n) /\ inner \in InnerOf(n) /\ n \in 1..(MaxInc + 1)
  BY DEF Others, MemoryOK
<1>3. MemoryOK(n)'
  BY <1>1, <1>2, PruneFacts DEF MemoryOK
<1>4. world' \in World /\ SessionsOK(n)'
  BY <1>1, <1>2, HappensOK
<1>5. EnvOK(n)'
  BY <1>1, <1>2, <1>4 DEF EnvOK
<1>6. OpsOK(n)'
  <2>1. CASE ops' = ops
    BY <1>2, <2>1 DEF OpsOK
  <2>2. CASE \E id \in Ids : \E inc \in Expirable(inner, id) :
               ops' = [ops EXCEPT ![Sweeper] = [at |-> "sweep", id |-> id, inc |-> inc]]
    <3>0. PICK id \in Ids : \E inc \in Expirable(inner, id) :
                 ops' = [ops EXCEPT ![Sweeper] = [at |-> "sweep", id |-> id, inc |-> inc]]
      BY <2>2
    <3>1. PICK inc \in Expirable(inner, id) :
                 ops' = [ops EXCEPT ![Sweeper] = [at |-> "sweep", id |-> id, inc |-> inc]]
      BY <3>0
    <3> DEFINE op == [at |-> "sweep", id |-> id, inc |-> inc]
    <3>2. inner.dead[id].inc \in OrNone(n) /\ inner.failed[id].inc \in OrNone(n)
      BY <1>2, InnerAtId
    <3>3. inc \in Given(n)
      BY <3>2 DEF Expirable, OrNone, Given
    <3>4. op \in CallOp(n)
      BY <3>3 DEF CallOp, AtRemove
    <3>5. Sweeper \in Calling
      BY CallingFacts DEF Calling
    <3>6. ops' = [ops EXCEPT ![Sweeper] = op]
      BY <3>1
    <3> HIDE DEF op
    <3> QED BY <1>2, <3>4, <3>5, <3>6, GotoCall
  <2> QED BY <1>1, <2>1, <2>2
<1> QED BY <1>1, <1>3, <1>4, <1>5, <1>6, Frame DEF Others, persistVars, locks

\* The sweeper looks at it again.
LEMMA SweepCheckTyped ==
  ASSUME NEW n \in Nat \ {0}, Typed(n), SweepCheck
  PROVE  Typed(n)'
<1> USE DEF Typed
<1> DEFINE new == [ops[Sweeper] EXCEPT !.at = "expected"]
<1>1. /\ At(Sweeper, "sweep") /\ \E op \in {new, Idle} : ops' = [ops EXCEPT ![Sweeper] = op]
      /\ UNCHANGED <<inner, sess, respawnQ, locks, env, persistVars>>
  BY DEF SweepCheck, Goto
<1>2. OpsOK(n) /\ Sweeper \in Calling
  BY CallingFacts DEF Others, Calling
<1>3. ops[Sweeper] \in AtRemove(n)
  BY <1>1, <1>2, CallAt DEF At
<1>4. new \in AtRemove(n)
  BY <1>3 DEF AtRemove
<1>5. new \in CallOp(n) /\ Idle \in CallOp(n)
  BY <1>4, PlainType DEF CallOp
<1> HIDE DEF new
<1>6. OpsOK(n)'
  BY <1>1, <1>2, <1>5, GotoCall
<1> QED BY <1>1, <1>6, MemoryFrame, Frame DEF Others, persistVars, env, locks

\* The sweeper hands out a removal incarnation.
LEMMA SweepRemoveTyped ==
  ASSUME NEW n \in Nat \ {0}, Typed(n), SweepRemove
  PROVE  Typed(n + 1)' /\ inner'.next = n + 1
<1> USE DEF Typed
<1> DEFINE new == [at |-> "remove", id |-> ops[Sweeper].id, inc |-> inner.next]
<1>1. /\ At(Sweeper, "expected") /\ inner.next \in Incs /\ inner' = allocate_incarnation(inner)
      /\ gate' \in {Sweeper, gate}
      /\ \E op \in {new, Idle} : ops' = [ops EXCEPT ![Sweeper] = op]
      /\ UNCHANGED <<sess, respawnQ, lc, guard, env, persistVars>>
  BY DEF SweepRemove, Goto, InBounds
<1>2. inner \in InnerOf(n) /\ Sweeper \in Calling /\ Sweeper \in Actors
  BY CallingFacts DEF MemoryOK, Calling
<1>3. Others(n + 1) /\ n + 1 \in Nat \ {0}
  BY OthersGrow
<1>4. OpsOK(n + 1) /\ LocksOK
  BY <1>3 DEF Others
<1>5. ops[Sweeper] \in AtRemove(n + 1)
  BY <1>1, <1>2, <1>4, CallAt DEF At
<1>6. ops[Sweeper].id \in Ids /\ inner.next = n /\ n \in Given(n + 1)
  BY <1>2, <1>5, InnerFields, TypesGrow DEF AtRemove
<1>7. new \in CallOp(n + 1) /\ Idle \in CallOp(n + 1)
  BY <1>6, PlainType DEF CallOp, AtRemove
<1>8. MemoryOK(n + 1)' /\ inner'.next = n + 1
  BY <1>1, <1>2, <1>6, AllocateFacts, BoundsAssumption DEF MemoryOK, Incs
<1> HIDE DEF new
<1>9. OpsOK(n + 1)'
  BY <1>1, <1>2, <1>4, <1>7, GotoCall
<1>10. LocksOK'
  BY <1>1, <1>2, <1>4 DEF LocksOK
<1> QED BY <1>1, <1>3, <1>8, <1>9, <1>10, Frame DEF Others, persistVars, env

-----------------------------------------------------------------------------
(* restore_sessions_inner                                                  *)

\* The entry of one id is replaced by one the store's marks allow.
LEMMA SetEntry ==
  ASSUME NEW n, DbOK(n), Watermarked, NEW id \in Ids, NEW e, Kept(db[id], e, n),
         db' = [db EXCEPT ![id] = e], removed' = removed
  PROVE  DbOK(n)' /\ Watermarked'
<1>1. e \in EntryOf(n) /\ max_session_incarnation(e) >= max_session_incarnation(db[id])
  BY DEF Kept
<1>2. DbOK(n)'
  BY <1>1 DEF DbOK
<1>3. removed[id] \in OrNone(n) /\ removed[id] <= max_session_incarnation(db[id])
      /\ db[id] \in EntryOf(n)
  BY DEF DbOK, Watermarked
<1>4. removed[id] <= max_session_incarnation(e)
  BY <1>1, <1>3 DEF OrNone, max_session_incarnation, MaxNat, EntryOf, Entry
<1> QED BY <1>2, <1>4 DEF Watermarked, DbOK

\* A deletion raises both the mark and its history.
LEMMA DeleteEntry ==
  ASSUME NEW n \in Nat, DbOK(n), Watermarked, NEW id \in Ids, NEW inc \in OrNone(n),
         db' = [db EXCEPT ![id] = delete_session(db[id], inc)],
         removed' = [removed EXCEPT ![id] = MaxNat(removed[id], inc)]
  PROVE  DbOK(n)' /\ Watermarked'
<1> DEFINE e == delete_session(db[id], inc)
           m == MaxNat(removed[id], inc)
<1>1. db[id] \in EntryOf(n) /\ removed[id] \in OrNone(n)
      /\ removed[id] <= max_session_incarnation(db[id])
  BY DEF DbOK, Watermarked
<1>2. /\ e \in EntryOf(n) /\ max_session_incarnation(e) >= max_session_incarnation(db[id])
      /\ inc <= max_session_incarnation(e)
  BY <1>1, DeleteKept DEF Kept
<1>3. m \in OrNone(n)
  BY <1>1 DEF OrNone, MaxNat
<1> HIDE DEF e
<1>4. m <= max_session_incarnation(e)
  <2>1. max_session_incarnation(e) \in Nat /\ max_session_incarnation(db[id]) \in Nat
    BY <1>1, <1>2 DEF EntryOf, Entry, max_session_incarnation, MaxNat
  <2> QED BY <1>1, <1>2, <2>1 DEF OrNone, MaxNat
<1>5. db' = [db EXCEPT ![id] = e] /\ removed' = [removed EXCEPT ![id] = m]
  BY DEF e
<1> HIDE DEF m
<1>6. DbOK(n)'
  BY <1>2, <1>3, <1>5 DEF DbOK
<1> QED BY <1>4, <1>5, <1>6 DEF Watermarked, DbOK

\* restore_sessions reads the store.
LEMMA RestoreLoadTyped ==
  ASSUME NEW n \in Nat \ {0}, Typed(n), RestoreLoad
  PROVE  Typed(n)'
<1> USE DEF Typed
<1> DEFINE cleaned == [id \in Ids |-> cleanup_dead(db[id])]
           left    == {id \in Ids : Loadable(cleaned[id])}
           op      == [at |-> "restore"]
<1>1. /\ guard' = Main /\ db' = cleaned
      /\ removed' = [id \in Ids |-> IF cleaned[id] = db[id] THEN removed[id]
                                    ELSE MaxNat(removed[id], db[id].inc)]
      /\ restoring' = [NotRestoring EXCEPT !.left = left]
      /\ hist' = [hist EXCEPT !.atStop = {}]
      /\ ops' = [ops EXCEPT ![Main] = op]
      /\ UNCHANGED <<inner, sess, respawnQ, lc, gate, phase, world, chan, batch, worker, reply>>
  BY DEF RestoreLoad, Goto
<1>2. OpsOK(n) /\ LocksOK /\ EnvOK(n) /\ DbOK(n) /\ Watermarked /\ Main \in Calling /\ Main \in Actors
  BY CallingFacts DEF Others
<1>3. op \in CallOp(n)
  BY PlainType
<1> HIDE DEF op
<1>4. OpsOK(n)'
  BY <1>1, <1>2, <1>3, GotoCall
<1>5. LocksOK'
  BY <1>1, <1>2 DEF LocksOK
<1>6. EnvOK(n)'
  <2>1. left \in SUBSET Ids
    OBVIOUS
  <2> HIDE DEF left, cleaned
  <2>2. restoring' \in [left : SUBSET Ids, inc : OrNone(n), name : NameSet]
    BY <1>1, <2>1 DEF NotRestoring, OrNone, NameSet
  <2> QED BY <1>1, <1>2, <2>2 DEF EnvOK
<1>7. \A id \in Ids :
        /\ db'[id] \in EntryOf(n) /\ removed'[id] \in OrNone(n)
        /\ removed'[id] <= max_session_incarnation(db'[id])
  <2> TAKE id \in Ids
  <2>1. db[id] \in EntryOf(n) /\ removed[id] \in OrNone(n)
        /\ removed[id] <= max_session_incarnation(db[id])
    BY <1>2 DEF DbOK, Watermarked
  <2>2. db[id].inc \in OrNone(n)
    BY <2>1 DEF EntryOf, Entry, OrNone
  <2> DEFINE e == delete_session(db[id], db[id].inc)
  <2>3. /\ e \in EntryOf(n) /\ max_session_incarnation(e) >= max_session_incarnation(db[id])
        /\ db[id].inc <= max_session_incarnation(e)
    BY <2>1, <2>2, DeleteKept DEF Kept
  <2>4. db'[id] = IF HasRow(db[id]) /\ ~db[id].alive THEN e ELSE db[id]
    BY <1>1 DEF cleanup_dead
  <2> HIDE DEF e
  <2>5. removed'[id] = IF db'[id] = db[id] THEN removed[id] ELSE MaxNat(removed[id], db[id].inc)
    BY <1>1
  <2>6. CASE db'[id] = db[id]
    BY <2>1, <2>5, <2>6
  <2>7. CASE db'[id] = e /\ db'[id] # db[id]
    <3>1. max_session_incarnation(e) \in Nat /\ max_session_incarnation(db[id]) \in Nat
      BY <2>1, <2>3 DEF EntryOf, Entry, max_session_incarnation, MaxNat
    <3> QED BY <2>1, <2>2, <2>3, <2>5, <2>7, <3>1 DEF MaxNat, OrNone
  <2> QED BY <2>4, <2>6, <2>7
<1>8. DbOK(n)' /\ Watermarked'
  <2>1. db' = [id \in Ids |-> db'[id]] /\ removed' = [id \in Ids |-> removed'[id]]
    BY <1>1
  <2> HIDE DEF cleaned
  <2> QED BY <1>7, <2>1 DEF DbOK, Watermarked
<1> HIDE DEF cleaned, left
<1> QED BY <1>1, <1>4, <1>5, <1>6, <1>8, MemoryFrame, Frame DEF Others

\* restore_sessions takes the next session.
LEMMA RestoreNextTyped ==
  ASSUME NEW n \in Nat \ {0}, Typed(n), NEW id \in Ids, RestoreNext(id)
  PROVE  Typed(n)'
<1> USE DEF Typed
<1> DEFINE op == [at |-> "target", id |-> id, name |-> db[id].name]
           r  == [left |-> restoring.left \ {id}, inc |-> db[id].inc, name |-> db[id].name]
<1>1. /\ restoring' = r /\ ops' = [ops EXCEPT ![Main] = op]
      /\ UNCHANGED <<inner, sess, respawnQ, locks, phase, world, hist, persistVars>>
  BY DEF RestoreNext, Goto
<1>2. OpsOK(n) /\ EnvOK(n) /\ DbOK(n) /\ Main \in Calling
  BY CallingFacts DEF Others
<1>3. db[id].inc \in OrNone(n) /\ db[id].name \in NameSet
  BY <1>2 DEF DbOK, EntryOf, Entry, OrNone, NameSet
<1>4. op \in CallOp(n)
  BY <1>3 DEF CallOp, AtEntry
<1>5. r \in [left : SUBSET Ids, inc : OrNone(n), name : NameSet]
  BY <1>2, <1>3 DEF EnvOK
<1> HIDE DEF op, r
<1>6. OpsOK(n)'
  BY <1>1, <1>2, <1>4, GotoCall
<1>7. EnvOK(n)'
  BY <1>1, <1>2, <1>5 DEF EnvOK
<1> QED BY <1>1, <1>6, <1>7, MemoryFrame, Frame DEF Others, persistVars, locks

\* restore_sessions deletes a session it cannot bring back.
LEMMA RestoreDeleteTyped ==
  ASSUME NEW n \in Nat \ {0}, Typed(n), RestoreDelete
  PROVE  Typed(n)'
<1> USE DEF Typed
<1> DEFINE op == [at |-> "restore"]
           id == ops[Main].id
<1>1. /\ At(Main, "target") \/ At(Main, "recheck")
      /\ db' = [db EXCEPT ![id] = delete_session(db[id], restoring.inc)]
      /\ removed' = [removed EXCEPT ![id] = MaxNat(removed[id], restoring.inc)]
      /\ ops' = [ops EXCEPT ![Main] = op]
      /\ UNCHANGED <<inner, sess, respawnQ, locks, env, chan, batch, worker, reply>>
  BY DEF RestoreDelete, Deleted, Goto
<1>2. OpsOK(n) /\ EnvOK(n) /\ DbOK(n) /\ Watermarked /\ Main \in Calling
  BY CallingFacts DEF Others
<1>3. id \in Ids /\ restoring.inc \in OrNone(n)
  BY <1>1, <1>2, CallAt DEF At, AtEntry, AtRecheck, EnvOK
<1>4. op \in CallOp(n)
  BY PlainType
<1> HIDE DEF op
<1>5. OpsOK(n)'
  BY <1>1, <1>2, <1>4, GotoCall
<1>6. DbOK(n)' /\ Watermarked'
  BY <1>1, <1>2, <1>3, DeleteEntry
<1> QED BY <1>1, <1>5, <1>6, MemoryFrame, Frame DEF Others, env, locks

\* restore_sessions keeps a session whose worktree is lost, under its persisted incarnation.
LEMMA RestoreUnavailableTyped ==
  ASSUME NEW n \in Nat \ {0}, Typed(n), RestoreUnavailable
  PROVE  Typed(n)'
<1> USE DEF Typed
<1> DEFINE op  == [at |-> "restore"]
           id  == ops[Main].id
           inc == restoring.inc
           e   == mark_session_target_unavailable(db[id], inc)
           t   == NewSession(id, restoring.name, 0, 0)
<1>1. /\ At(Main, "target") \/ At(Main, "recheck")
      /\ db' = [db EXCEPT ![id] = e]
      /\ inner' = restore_unavailable_session(inner, id, inc)
      /\ sess' = [sess EXCEPT ![inc] = t]
      /\ ops' = [ops EXCEPT ![Main] = op]
      /\ UNCHANGED <<respawnQ, locks, env, chan, batch, worker, reply, removed>>
  BY DEF RestoreUnavailable, Goto
<1>2. /\ OpsOK(n) /\ EnvOK(n) /\ DbOK(n) /\ Watermarked /\ SessionsOK(n) /\ Main \in Calling
      /\ inner \in InnerOf(n) /\ n \in 1..(MaxInc + 1)
  BY CallingFacts DEF Others, MemoryOK
<1>3. id \in Ids /\ inc \in OrNone(n) /\ restoring.name \in NameSet
  BY <1>1, <1>2, CallAt DEF At, AtEntry, AtRecheck, EnvOK
<1>4. op \in CallOp(n)
  BY PlainType
<1> HIDE DEF op
<1>5. OpsOK(n)'
  BY <1>1, <1>2, <1>4, GotoCall
<1>6. DbOK(n)' /\ Watermarked'
  <2>1. db[id] \in EntryOf(n)
    BY <1>2, <1>3 DEF DbOK
  <2>2. Kept(db[id], e, n)
    BY <1>3, <2>1, MarksSameRow, SameRowKept
  <2> HIDE DEF e
  <2> QED BY <1>1, <1>2, <1>3, <2>2, SetEntry
<1>7. MemoryOK(n)'
  <2>1. inner' \in InnerOf(n)
    BY <1>1, <1>2, <1>3, UnavailableFacts
  <2> QED BY <1>2, <2>1 DEF MemoryOK
<1>8. SessionsOK(n)'
  <2>1. CASE inc = 0
    <3>1. inc \notin Incs
      BY <2>1 DEF Incs
    <3>2. sess' = sess
      BY <1>1, <1>2, <3>1 DEF SessionsOK
    <3> QED BY <1>1, <1>2, <3>2 DEF SessionsOK, env
  <2>2. CASE inc # 0
    <3>1. inc \in Incs
      BY <1>2, <1>3, <2>2, BoundsAssumption DEF Incs, OrNone
    <3>2. t \in SessionType /\ SessionOK(t, inc, n, world.fuel)
      BY <1>2, <1>3, <3>1, NewSessionType
    <3> HIDE DEF t
    <3> QED BY <1>1, <1>2, <3>1, <3>2, SetSession DEF env
  <2> QED BY <2>1, <2>2
<1> QED BY <1>1, <1>5, <1>6, <1>7, <1>8, Frame DEF Others, env, locks

\* restore_sessions creates a session anew.
LEMMA RestoreCreateTyped ==
  ASSUME NEW n \in Nat \ {0}, Typed(n), RestoreCreate
  PROVE  Typed(n)'
<1> USE DEF Typed
<1> DEFINE op == [ops[Main] EXCEPT !.at = "permit"]
<1>1. /\ At(Main, "target") /\ ops' = [ops EXCEPT ![Main] = op]
      /\ UNCHANGED <<inner, sess, respawnQ, locks, env, persistVars>>
  BY DEF RestoreCreate
<1>2. OpsOK(n) /\ Main \in Calling
  BY CallingFacts DEF Others
<1>3. ops[Main] \in AtEntry
  BY <1>1, <1>2, CallAt DEF At
<1>4. op \in AtEntry
  BY <1>3 DEF AtEntry
<1>5. op \in CallOp(n)
  BY <1>4 DEF CallOp
<1> HIDE DEF op
<1>6. OpsOK(n)'
  BY <1>1, <1>2, <1>5, GotoCall
<1> QED BY <1>1, <1>6, MemoryFrame, Frame DEF Others, persistVars, env, locks

\* restore_sessions is done and the server serves.
LEMMA RestoreDoneTyped ==
  ASSUME NEW n \in Nat \ {0}, Typed(n), RestoreDone
  PROVE  Typed(n)'
<1> USE DEF Typed
<1>0. PICK old \in SUBSET {id \in Ids : Aged(id)} :
        db' = [id \in Ids |-> IF id \in old THEN cleanup_expired(db[id]) ELSE db[id]]
  BY DEF RestoreDone
<1>1. /\ ops' = [ops EXCEPT ![Main] = Idle] /\ DropGates(Main) /\ guard' \in {guard, NoOne}
      /\ phase' = "serving"
      /\ UNCHANGED <<inner, sess, respawnQ, restoring, world, hist, chan, batch, worker, reply, removed>>
  BY DEF RestoreDone, Return, Goto, Unlock
<1>2. OpsOK(n) /\ LocksOK /\ EnvOK(n) /\ DbOK(n) /\ Watermarked /\ Main \in Calling
  BY CallingFacts DEF Others
<1>3. OpsOK(n)' /\ LocksOK'
  BY <1>1, <1>2, PlainType, GotoCall, DropOK
<1>4. EnvOK(n)'
  BY <1>1, <1>2 DEF EnvOK
<1>5. \A id \in Ids : SameRow(db[id], db'[id], n)
  <2> TAKE id \in Ids
  <2>1. db[id] \in EntryOf(n)
    BY <1>2 DEF DbOK
  <2>2. SameRow(db[id], db[id], n) /\ SameRow(db[id], cleanup_expired(db[id]), n)
    BY <2>1, MarksSameRow DEF NameSet
  <2> QED BY <1>0, <2>2
<1>6. DbOK(n)' /\ Watermarked'
  <2>1. db' = [id \in Ids |-> db'[id]]
    BY <1>0
  <2> QED BY <1>1, <1>2, <1>5, <2>1 DEF DbOK, Watermarked, SameRow, max_session_incarnation
<1> QED BY <1>1, <1>3, <1>4, <1>6, MemoryFrame, Frame DEF Others

-----------------------------------------------------------------------------
(* Server stop, and a new process                                          *)

\* The server is told to stop.
LEMMA ShutdownBeginTyped ==
  ASSUME NEW n \in Nat \ {0}, Typed(n), ShutdownBegin
  PROVE  Typed(n)'
<1> USE DEF Typed
<1> DEFINE op == [at |-> "snapshot"]
<1>1. /\ Happens("shutdown") /\ phase' = "stopping"
      /\ hist' = [hist EXCEPT !.atStop = {id \in Ids : inner.live[id] # 0}]
      /\ ops' = [ops EXCEPT ![Main] = op]
      /\ UNCHANGED <<inner, sess, respawnQ, locks, restoring, persistVars>>
  BY DEF ShutdownBegin, Goto
<1>2. OpsOK(n) /\ EnvOK(n) /\ SessionsOK(n) /\ Main \in Calling
  BY CallingFacts DEF Others
<1>3. op \in CallOp(n)
  BY PlainType
<1> HIDE DEF op
<1>4. OpsOK(n)'
  BY <1>1, <1>2, <1>3, GotoCall
<1>5. world' \in World /\ SessionsOK(n)'
  BY <1>1, <1>2, HappensOK
<1>6. EnvOK(n)'
  BY <1>1, <1>2, <1>5 DEF EnvOK
<1> QED BY <1>1, <1>4, <1>5, <1>6, MemoryFrame, Frame DEF Others, persistVars, locks

\* The shutdown reads every live buffer.
LEMMA SnapshotTakeTyped ==
  ASSUME NEW n \in Nat \ {0}, Typed(n), SnapshotTake
  PROVE  Typed(n)'
<1> USE DEF Typed
<1> DEFINE left == {BufferUpdate(id, inner.live[id], sess[inner.live[id]].out) :
                      id \in {j \in Ids : inner.live[j] # 0}}
           op   == [at |-> "snapshots", left |-> left]
<1>1. /\ gate' = Main /\ ops' = [ops EXCEPT ![Main] = op]
      /\ UNCHANGED <<inner, sess, respawnQ, lc, guard, env, persistVars>>
  BY DEF SnapshotTake, Goto
<1>2. /\ OpsOK(n) /\ LocksOK /\ SessionsOK(n) /\ Main \in Calling /\ Main \in Actors
      /\ world.fuel \in 0..Fuel /\ inner \in InnerOf(n) /\ n \in 1..(MaxInc + 1)
  BY CallingFacts DEF Others, EnvOK, World, MemoryOK
<1>3. \A id \in Ids : inner.live[id] # 0 =>
        BufferUpdate(id, inner.live[id], sess[inner.live[id]].out) \in SnapOf(n)
  <2> SUFFICES ASSUME NEW id \in Ids, inner.live[id] # 0
               PROVE  BufferUpdate(id, inner.live[id], sess[inner.live[id]].out) \in SnapOf(n)
    OBVIOUS
  <2> DEFINE i == inner.live[id]
  <2>1. i \in Given(n)
    BY <1>2, InnerAtId DEF OrNone, Given
  <2>2. i \in Incs
    BY <1>2, <2>1, BoundsAssumption DEF Given, Incs
  <2>3. sess[i] \in SessionType /\ SessionOK(sess[i], i, n, world.fuel)
    BY <1>2, <2>2 DEF SessionsOK
  <2>4. sess[i].out \in 0..Fuel
    BY <1>2, <2>3, BoundsAssumption DEF SessionType, SessionOK
  <2> HIDE DEF i
  <2>5. BufferUpdate(id, i, sess[i].out) \in SnapOf(n)
    BY <2>1, <2>4, CmdTypes
  <2> QED BY <2>5 DEF i
<1>4. left \in SUBSET SnapOf(n)
  BY <1>3
<1> HIDE DEF left
<1>5. op \in AtSnapshots(n)
  BY <1>4 DEF AtSnapshots
<1>6. op \in CallOp(n)
  BY <1>5 DEF CallOp
<1> HIDE DEF op
<1>7. OpsOK(n)' /\ LocksOK'
  BY <1>1, <1>2, <1>6, GotoCall, GateOK
<1> QED BY <1>1, <1>7, MemoryFrame, Frame DEF Others, persistVars, env

\* The shutdown sends a snapshot.
LEMMA SnapshotSendTyped ==
  ASSUME NEW n \in Nat \ {0}, Typed(n), SnapshotSend
  PROVE  Typed(n)'
<1> USE DEF Typed
<1>0. PICK cmd \in ops[Main].left :
        Send(cmd) /\ Goto(Main, [at |-> "snapshots", left |-> ops[Main].left \ {cmd}])
  BY DEF SnapshotSend
<1> DEFINE op == [at |-> "snapshots", left |-> ops[Main].left \ {cmd}]
<1>1. /\ At(Main, "snapshots") /\ Send(cmd) /\ ops' = [ops EXCEPT ![Main] = op]
      /\ UNCHANGED <<inner, sess, respawnQ, locks, env, batch, worker, reply, db, removed>>
  BY <1>0 DEF SnapshotSend, Goto
<1>2. OpsOK(n) /\ ChanOK(n) /\ Main \in Calling
  BY CallingFacts DEF Others
<1>3. ops[Main] \in AtSnapshots(n)
  BY <1>1, <1>2, CallAt DEF At
<1>4. ops[Main].left \in SUBSET SnapOf(n) /\ cmd \in SnapOf(n)
  BY <1>0, <1>3 DEF AtSnapshots
<1>5. op \in AtSnapshots(n)
  BY <1>4 DEF AtSnapshots
<1>6. op \in CallOp(n) /\ cmd \in CmdOf(n)
  BY <1>4, <1>5 DEF CallOp, CmdOf
<1> HIDE DEF op
<1>7. OpsOK(n)' /\ ChanOK(n)'
  BY <1>1, <1>2, <1>6, GotoCall, SendOK
<1> QED BY <1>1, <1>7, MemoryFrame, Frame DEF Others, locks, env

\* The shutdown kills every live child.
LEMMA StopAllTyped ==
  ASSUME NEW n \in Nat \ {0}, Typed(n), StopAll
  PROVE  Typed(n)'
<1> USE DEF Typed
<1> DEFINE op == [at |-> "readers"]
<1>1. /\ inner' = stop_all_for_shutdown(inner) /\ sess' = TerminateLive(sess)
      /\ ops' = [ops EXCEPT ![Main] = op] /\ DropGates(Main) /\ guard' \in {guard, NoOne}
      /\ UNCHANGED <<respawnQ, env, persistVars>>
  BY DEF StopAll, Return, Goto, Unlock
<1>2. /\ OpsOK(n) /\ LocksOK /\ SessionsOK(n) /\ Main \in Calling
      /\ inner \in InnerOf(n) /\ n \in 1..(MaxInc + 1)
  BY CallingFacts DEF Others, MemoryOK
<1>3. op \in CallOp(n)
  BY PlainType
<1> HIDE DEF op
<1>4. OpsOK(n)' /\ LocksOK'
  BY <1>1, <1>2, <1>3, GotoCall, DropOK
<1>5. SessionsOK(n)'
  BY <1>1, <1>2, TerminateLiveOK DEF env
<1>6. MemoryOK(n)'
  BY <1>1, <1>2, StopFacts DEF MemoryOK
<1> QED BY <1>1, <1>4, <1>5, <1>6, Frame DEF Others, persistVars, env

\* The shutdown closes the lifecycle gate.
LEMMA ShutdownCloseTyped ==
  ASSUME NEW n \in Nat \ {0}, Typed(n), ShutdownClose
  PROVE  Typed(n)'
<1> USE DEF Typed
<1> DEFINE op == [at |-> "close"]
<1>1. /\ lc' = [lc EXCEPT !.disposing = TRUE, !.closing = TRUE] /\ ops' = [ops EXCEPT ![Main] = op]
      /\ UNCHANGED <<inner, sess, respawnQ, gate, guard, env, persistVars>>
  BY DEF ShutdownClose, Goto
<1>2. OpsOK(n) /\ LocksOK /\ Main \in Calling
  BY CallingFacts DEF Others
<1>3. op \in CallOp(n)
  BY PlainType
<1> HIDE DEF op
<1>4. OpsOK(n)'
  BY <1>1, <1>2, <1>3, GotoCall
<1>5. LocksOK'
  BY <1>1, <1>2 DEF LocksOK
<1> QED BY <1>1, <1>4, <1>5, MemoryFrame, Frame DEF Others, persistVars, env

\* The shutdown drops everything in memory.
LEMMA ShutdownDisposeTyped ==
  ASSUME NEW n \in Nat \ {0}, Typed(n), ShutdownDispose
  PROVE  Typed(n)'
<1> USE DEF Typed
<1> DEFINE op == [at |-> "join"]
<1>1. /\ inner' = [DisposeAll(inner) EXCEPT !.closing = TRUE, !.generation = @ + 1]
      /\ sess' = TerminateLive(sess) /\ lc' = [lc EXCEPT !.disposing = FALSE]
      /\ ops' = [ops EXCEPT ![Main] = op]
      /\ UNCHANGED <<respawnQ, gate, guard, env, persistVars>>
  BY DEF ShutdownDispose, Goto
<1>2. /\ OpsOK(n) /\ LocksOK /\ SessionsOK(n) /\ Main \in Calling
      /\ inner \in InnerOf(n) /\ n \in 1..(MaxInc + 1)
  BY CallingFacts DEF Others, MemoryOK
<1>3. op \in CallOp(n)
  BY PlainType
<1> HIDE DEF op
<1>4. OpsOK(n)'
  BY <1>1, <1>2, <1>3, GotoCall
<1>5. SessionsOK(n)'
  BY <1>1, <1>2, TerminateLiveOK DEF env
<1>6. MemoryOK(n)'
  BY <1>1, <1>2, CloseFacts DEF MemoryOK
<1>7. LocksOK'
  BY <1>1, <1>2 DEF LocksOK
<1> QED BY <1>1, <1>4, <1>5, <1>6, <1>7, Frame DEF Others, persistVars, env

\* The shutdown tells the worker to stop.
LEMMA ShutdownWorkerTyped ==
  ASSUME NEW n \in Nat \ {0}, Typed(n), ShutdownWorker
  PROVE  Typed(n)'
<1> USE DEF Typed
<1> DEFINE op == [at |-> "worker"]
<1>1. /\ Send(Shutdown) /\ ops' = [ops EXCEPT ![Main] = op]
      /\ UNCHANGED <<inner, sess, respawnQ, locks, env, batch, worker, reply, db, removed>>
  BY DEF ShutdownWorker, Goto
<1>2. OpsOK(n) /\ ChanOK(n) /\ Main \in Calling /\ Shutdown \in CmdOf(n)
  BY CallingFacts DEF Others, CmdOf
<1>3. op \in CallOp(n)
  BY PlainType
<1> HIDE DEF op
<1>4. OpsOK(n)' /\ ChanOK(n)'
  BY <1>1, <1>2, <1>3, GotoCall, SendOK
<1> QED BY <1>1, <1>4, MemoryFrame, Frame DEF Others, locks, env

\* A new process starts with an allocator above everything stored or ever deleted, even if
\* the last one had handed out more.
LEMMA BootTyped ==
  ASSUME NEW n \in Nat \ {0}, Typed(n), Boot, world' \in World
  PROVE  \E m \in Nat \ {0} : Typed(m)'
<1> USE DEF Typed
<1>0. PICK m : m = advance_past(db)
  OBVIOUS
<1>1. /\ inner' = NewInner(m)
      /\ sess' = [i \in Incs |-> NoSession]
      /\ ops' = [[a \in Actors |-> Idle] EXCEPT ![Main] = [at |-> "load"]]
      /\ respawnQ' = <<>>
      /\ lc' = [permits |-> {}, disposing |-> FALSE, closing |-> FALSE]
      /\ gate' = NoOne /\ guard' = NoOne
      /\ phase' = "boot" /\ restoring' = NotRestoring
      /\ hist' = [hist EXCEPT !.down = hist.gone]
      /\ chan' = <<>> /\ batch' = {} /\ worker' = [at |-> "recv"]
      /\ reply' = [c \in Clients |-> "none"]
      /\ UNCHANGED <<db, removed>>
  BY <1>0 DEF Boot, PersistRestart
<1>2. EnvOK(n) /\ DbOK(n) /\ Watermarked /\ n \in 1..(MaxInc + 1)
  BY DEF Others, MemoryOK
<1>3. m \in 1..n /\ \A id \in Ids : max_session_incarnation(db[id]) < m
  <2>1. n - 1 \in Nat /\ (n - 1) + 1 = n
    OBVIOUS
  <2>2. db \in [Ids -> EntryOf((n - 1) + 1)]
    BY <1>2, <2>1 DEF DbOK
  <2> QED BY <1>0, <2>1, <2>2, AdvanceFacts, BoundsAssumption
<1>4. m \in Nat \ {0} /\ m \in 1..(MaxInc + 1)
  BY <1>2, <1>3, BoundsAssumption
<1>5. MemoryOK(m)'
  BY <1>1, <1>4, NewInnerFacts DEF MemoryOK
<1>6. DbOK(m)' /\ Watermarked'
  <2>1. \A id \in Ids : db[id] \in EntryOf(m) /\ removed[id] \in OrNone(m)
    <3> TAKE id \in Ids
    <3>1. db[id] \in EntryOf(n) /\ removed[id] \in OrNone(n)
          /\ removed[id] <= max_session_incarnation(db[id]) /\ max_session_incarnation(db[id]) < m
      BY <1>2, <1>3 DEF DbOK, Watermarked
    <3> QED BY <1>4, <3>1 DEF EntryOf, Entry, OrNone, max_session_incarnation, MaxNat
  <2> QED BY <1>1, <1>2, <2>1 DEF DbOK, Watermarked
<1>7. SessionsOK(m)'
  <2>1. world'.fuel \in 0..Fuel
    BY DEF World
  <2>2. NoSession \in SessionType /\ NoSession.out = 0 /\ NoSession.reader = "none"
    <3>1. (CHOOSE x \in Ids : TRUE) \in Ids
      BY BoundsAssumption
    <3> QED BY <3>1 DEF NoSession, SessionType, NameSet, Todos
  <2>3. \A i \in Incs : SessionOK(NoSession, i, m, world'.fuel)
    BY <2>1, <2>2, BoundsAssumption DEF SessionOK
  <2> QED BY <1>1, <2>2, <2>3 DEF SessionsOK
<1>8. OpsOK(m)'
  <2>1. [at |-> "load"] \in CallOp(m) /\ Idle \in CallOp(m) /\ Idle \in SupOp(m)
    BY PlainType
  <2>2. Main \in Actors /\ Main # Sup /\ Sup \in Actors
    BY CallingFacts, ActorsAssumption DEF Actors
  <2> DEFINE l == [at |-> "load"]
  <2>3. ops' = [[a \in Actors |-> Idle] EXCEPT ![Main] = l]
    BY <1>1
  <2> HIDE DEF l
  <2> QED BY <2>1, <2>2, <2>3 DEF OpsOK, l
<1>9. QueueOK(m)' /\ ChanOK(m)'
  BY <1>1, BoundsAssumption, ChannelCapAssumption DEF QueueOK, ChanOK
<1>10. LocksOK'
  BY <1>1 DEF LocksOK
<1>11. EnvOK(m)'
  <2>1. restoring' \in [left : SUBSET Ids, inc : OrNone(m), name : NameSet]
    BY <1>1, <1>4 DEF NotRestoring, OrNone, NameSet
  <2>2. hist' \in [down : SUBSET Ids, gone : SUBSET Ids, atStop : SUBSET Ids]
    BY <1>1, <1>2 DEF EnvOK
  <2> QED BY <1>1, <2>1, <2>2 DEF EnvOK
<1>12. WorkOK(m)'
  BY <1>1 DEF WorkOK, WorkerOf, Replies
<1> QED BY <1>4, <1>5, <1>6, <1>7, <1>8, <1>9, <1>10, <1>11, <1>12 DEF Others

-----------------------------------------------------------------------------
(* The persist worker                                                      *)

\* What a command that was sent consists of.
LEMMA CommandFields ==
  ASSUME NEW n, NEW cmd \in CmdOf(n)
  PROVE  /\ cmd.kind \in {"SessionCreated", "SessionTargetUnavailableUpsert"} => cmd \in SaveOf(n)
         /\ cmd.kind \in {"SessionExited", "SessionDead", "SessionTargetUnavailable"}
              => cmd \in MarkOf(n)
         /\ cmd.kind = "BufferUpdate" => cmd \in SnapOf(n)
         /\ cmd.kind = "SessionRenamed" => cmd \in RenOf(n)
         /\ cmd.kind = "SessionRemoved" => cmd \in RemOf(n)
BY DEF CmdOf, SaveOf, MarkOf, SnapOf, RenOf, RemOf, Shutdown

\* The command the worker receives, and the channel it leaves.
LEMMA ReceiveFacts ==
  ASSUME NEW n, ChanOK(n), NEW kind, Receive(kind)
  PROVE  /\ ChanOK(n)' /\ Head(chan) \in CmdOf(n) /\ Head(chan).kind = kind
         /\ kind # "Shutdown" /\ kind \in {"SessionCreated", "SessionTargetUnavailableUpsert",
              "SessionExited", "SessionDead", "SessionTargetUnavailable", "BufferUpdate",
              "SessionRenamed", "SessionRemoved"}
              => Head(chan).id \in Ids /\ Head(chan).inc \in Given(n)
         /\ kind \in {"SessionCreated", "SessionTargetUnavailableUpsert"} => Head(chan).name \in NameSet
         /\ kind = "BufferUpdate" => Head(chan).total \in 0..Fuel
         /\ kind = "SessionRenamed" => Head(chan).name \in NameSet /\ Head(chan).name \in Names
                                       /\ Head(chan).from \in Clients
         /\ kind = "SessionRemoved" => Head(chan).from \in Clients
<1>1. chan # <<>> /\ Head(chan).kind = kind /\ chan' = Tail(chan)
  BY DEF Receive
<1>2. Head(chan) \in CmdOf(n) /\ Tail(chan) \in Seq(CmdOf(n)) /\ Len(Tail(chan)) = Len(chan) - 1
      /\ Len(chan) \in Nat
  BY <1>1 DEF ChanOK
<1>3. ChanOK(n)'
  BY <1>1, <1>2, ChannelCapAssumption DEF ChanOK
<1> DEFINE cmd == Head(chan)
<1>4. /\ cmd.kind \in {"SessionCreated", "SessionTargetUnavailableUpsert"} => cmd \in SaveOf(n)
      /\ cmd.kind \in {"SessionExited", "SessionDead", "SessionTargetUnavailable"} => cmd \in MarkOf(n)
      /\ cmd.kind = "BufferUpdate" => cmd \in SnapOf(n)
      /\ cmd.kind = "SessionRenamed" => cmd \in RenOf(n)
      /\ cmd.kind = "SessionRemoved" => cmd \in RemOf(n)
  BY <1>2, CommandFields
<1> HIDE DEF cmd
<1>5. /\ cmd \in SaveOf(n) => cmd.id \in Ids /\ cmd.inc \in Given(n) /\ cmd.name \in NameSet
      /\ cmd \in MarkOf(n) => cmd.id \in Ids /\ cmd.inc \in Given(n)
      /\ cmd \in SnapOf(n) => cmd.id \in Ids /\ cmd.inc \in Given(n) /\ cmd.total \in 0..Fuel
      /\ cmd \in RenOf(n) => cmd.id \in Ids /\ cmd.inc \in Given(n) /\ cmd.name \in Names
                             /\ cmd.name \in NameSet /\ cmd.from \in Clients
      /\ cmd \in RemOf(n) => cmd.id \in Ids /\ cmd.inc \in Given(n) /\ cmd.from \in Clients
  BY DEF SaveOf, MarkOf, SnapOf, RenOf, RemOf, NameSet
<1> QED BY <1>1, <1>2, <1>3, <1>4, <1>5 DEF cmd

\* A transaction commits, or fails and leaves the store as it was.
LEMMA CommitOK ==
  ASSUME NEW n, DbOK(n), Watermarked, NEW id \in Ids, NEW e, Kept(db[id], e, n), NEW kind,
         Commit(kind, id, e), removed' = removed
  PROVE  DbOK(n)' /\ Watermarked'
<1>1. CASE db' = [db EXCEPT ![id] = e]
  BY <1>1, SetEntry
<1>2. CASE db' = db
  BY <1>2 DEF DbOK, Watermarked
<1> QED BY <1>1, <1>2 DEF Commit

\* What a step of the worker leaves of its state.
Worked(n) == ChanOK(n) /\ WorkOK(n) /\ DbOK(n) /\ Watermarked

\* The worker batches a snapshot.
LEMMA HandleBufferUpdateOK ==
  ASSUME NEW n \in Nat \ {0}, Worked(n), HandleBufferUpdate
  PROVE  Worked(n)'
<1> USE DEF Worked
<1> DEFINE cmd == Head(chan)
           b   == [id |-> cmd.id, inc |-> cmd.inc, total |-> cmd.total]
<1>1. /\ Receive("BufferUpdate")
      /\ batch' = {x \in batch : ~(x.id = cmd.id /\ x.inc = cmd.inc)} \cup {b}
      /\ UNCHANGED <<worker, reply, db, removed>>
  BY DEF HandleBufferUpdate
<1>2. ChanOK(n)' /\ cmd.id \in Ids /\ cmd.inc \in Given(n) /\ cmd.total \in 0..Fuel
  BY <1>1, ReceiveFacts
<1>3. b \in SnapEntry(n)
  BY <1>2 DEF SnapEntry
<1> HIDE DEF b, cmd
<1> QED BY <1>1, <1>2, <1>3 DEF WorkOK, DbOK, Watermarked

\* The worker saves a session.
LEMMA HandleSaveOK ==
  ASSUME NEW n \in Nat \ {0}, Worked(n),
         HandleSessionCreated \/ HandleSessionTargetUnavailableUpsert
  PROVE  Worked(n)'
<1> USE DEF Worked
<1> DEFINE cmd == Head(chan)
<1>1. PICK kind \in {"SessionCreated", "SessionTargetUnavailableUpsert"}, un \in BOOLEAN :
      /\ Receive(kind)
      /\ Commit(cmd.kind, cmd.id, save_session(db[cmd.id], cmd.inc, cmd.name, un))
      /\ UNCHANGED <<batch, worker, reply, removed>>
  BY DEF HandleSessionCreated, HandleSessionTargetUnavailableUpsert
<1>2. ChanOK(n)' /\ cmd.id \in Ids /\ cmd.inc \in Given(n) /\ cmd.name \in NameSet
  BY <1>1, ReceiveFacts
<1> HIDE DEF cmd
<1>3. Kept(db[cmd.id], save_session(db[cmd.id], cmd.inc, cmd.name, un), n)
  BY <1>2, SaveKept DEF DbOK
<1>4. DbOK(n)' /\ Watermarked'
  BY <1>1, <1>2, <1>3, CommitOK
<1> QED BY <1>1, <1>2, <1>4 DEF WorkOK

\* The worker marks a session dead or unavailable.
LEMMA HandleMarkOK ==
  ASSUME NEW n \in Nat \ {0}, Worked(n),
         HandleSessionDead \/ HandleSessionTargetUnavailable
  PROVE  Worked(n)'
<1> USE DEF Worked
<1> DEFINE cmd == Head(chan)
<1>1. PICK kind \in {"SessionDead", "SessionTargetUnavailable"} :
      /\ Receive(kind)
      /\ \/ Commit(cmd.kind, cmd.id, mark_session_dead(db[cmd.id], cmd.inc))
         \/ Commit(cmd.kind, cmd.id, mark_session_target_unavailable(db[cmd.id], cmd.inc))
      /\ UNCHANGED <<batch, worker, reply, removed>>
  BY DEF HandleSessionDead, HandleSessionTargetUnavailable
<1>2. ChanOK(n)' /\ cmd.id \in Ids /\ cmd.inc \in Given(n)
  BY <1>1, ReceiveFacts
<1> HIDE DEF cmd
<1>3. db[cmd.id] \in EntryOf(n) /\ NoName \in NameSet
  BY <1>2 DEF DbOK, NameSet
<1>4. /\ Kept(db[cmd.id], mark_session_dead(db[cmd.id], cmd.inc), n)
      /\ Kept(db[cmd.id], mark_session_target_unavailable(db[cmd.id], cmd.inc), n)
  BY <1>3, MarksSameRow, SameRowKept
<1>5. DbOK(n)' /\ Watermarked'
  BY <1>1, <1>2, <1>4, CommitOK
<1> QED BY <1>1, <1>2, <1>5 DEF WorkOK

\* The worker flushes an exited session's snapshot.
LEMMA HandleSessionExitedOK ==
  ASSUME NEW n \in Nat \ {0}, Worked(n), HandleSessionExited
  PROVE  Worked(n)'
<1> USE DEF Worked
<1> DEFINE cmd  == Head(chan)
           mine == {b \in batch : b.id = cmd.id /\ b.inc = cmd.inc}
           w    == [at |-> "mark", id |-> cmd.id, inc |-> cmd.inc]
<1>1. /\ Receive("SessionExited") /\ batch' = batch \ mine
      /\ \/ db' = db
         \/ \E b \in mine : Commit("BufferUpdate", cmd.id, save_buffer(db[cmd.id], b.inc, b.total))
      /\ worker' = w
      /\ UNCHANGED <<reply, removed>>
  BY DEF HandleSessionExited
<1>2. ChanOK(n)' /\ cmd.id \in Ids /\ cmd.inc \in Given(n)
  BY <1>1, ReceiveFacts
<1>3. w \in WorkerOf(n)
  BY <1>2 DEF WorkerOf
<1>4. mine \subseteq SnapEntry(n)
  BY DEF WorkOK
<1> HIDE DEF cmd, w, mine
<1>5. DbOK(n)' /\ Watermarked'
  <2>1. CASE db' = db
    BY <1>1, <2>1 DEF DbOK, Watermarked
  <2>2. CASE \E b \in mine : Commit("BufferUpdate", cmd.id, save_buffer(db[cmd.id], b.inc, b.total))
    <3>1. PICK b \in mine : Commit("BufferUpdate", cmd.id, save_buffer(db[cmd.id], b.inc, b.total))
      BY <2>2
    <3>2. b.inc \in Given(n) /\ b.total \in 0..Fuel /\ db[cmd.id] \in EntryOf(n)
      BY <1>2, <1>4 DEF SnapEntry, DbOK
    <3>3. Kept(db[cmd.id], save_buffer(db[cmd.id], b.inc, b.total), n)
      BY <3>2, SaveBufferSameRow, SameRowKept
    <3> QED BY <1>1, <1>2, <3>1, <3>3, CommitOK
  <2> QED BY <1>1, <2>1, <2>2
<1> QED BY <1>1, <1>2, <1>3, <1>5 DEF WorkOK

\* And then marks it dead.
LEMMA MarkExitedOK ==
  ASSUME NEW n \in Nat \ {0}, Worked(n), MarkExited
  PROVE  Worked(n)'
<1> USE DEF Worked
<1>1. /\ worker.at = "mark"
      /\ Commit("SessionExited", worker.id, mark_session_dead(db[worker.id], worker.inc))
      /\ worker' = [at |-> "recv"]
      /\ UNCHANGED <<chan, batch, reply, removed>>
  BY DEF MarkExited
<1>2. worker.id \in Ids /\ worker.inc \in Given(n)
  BY <1>1 DEF WorkOK, WorkerOf
<1>3. db[worker.id] \in EntryOf(n) /\ NoName \in NameSet
  BY <1>2 DEF DbOK, NameSet
<1>4. Kept(db[worker.id], mark_session_dead(db[worker.id], worker.inc), n)
  BY <1>3, MarksSameRow, SameRowKept
<1>5. DbOK(n)' /\ Watermarked'
  BY <1>1, <1>2, <1>4, CommitOK
<1>6. worker' \in WorkerOf(n)
  BY <1>1 DEF WorkerOf
<1> QED BY <1>1, <1>5, <1>6 DEF WorkOK, ChanOK

\* The worker renames a session and answers.
LEMMA HandleSessionRenamedOK ==
  ASSUME NEW n \in Nat \ {0}, Worked(n), HandleSessionRenamed
  PROVE  Worked(n)'
<1> USE DEF Worked
<1> DEFINE cmd == Head(chan)
           e   == rename_session(db[cmd.id], cmd.inc, cmd.name)
<1>1. /\ Receive("SessionRenamed")
      /\ db' = [db EXCEPT ![cmd.id] = e] \/ db' = db
      /\ \E x \in Replies : reply' = [reply EXCEPT ![cmd.from] = x]
      /\ UNCHANGED <<batch, worker, removed>>
  BY DEF HandleSessionRenamed, Replies
<1>2. ChanOK(n)' /\ cmd.id \in Ids /\ cmd.inc \in Given(n) /\ cmd.name \in NameSet
  BY <1>1, ReceiveFacts
<1> HIDE DEF cmd
<1>3. db[cmd.id] \in EntryOf(n)
  BY <1>2 DEF DbOK
<1>4. Kept(db[cmd.id], e, n)
  BY <1>2, <1>3, MarksSameRow, SameRowKept
<1> HIDE DEF e
<1>5. DbOK(n)' /\ Watermarked'
  <2>1. CASE db' = [db EXCEPT ![cmd.id] = e]
    BY <1>1, <1>2, <1>4, <2>1, SetEntry
  <2>2. CASE db' = db
    BY <1>1, <2>2 DEF DbOK, Watermarked
  <2> QED BY <1>1, <2>1, <2>2
<1>6. reply' \in [Clients -> Replies]
  BY <1>1 DEF WorkOK
<1> QED BY <1>1, <1>2, <1>5, <1>6 DEF WorkOK

\* The worker deletes a session and answers.
LEMMA HandleSessionRemovedOK ==
  ASSUME NEW n \in Nat \ {0}, Worked(n), HandleSessionRemoved
  PROVE  Worked(n)'
<1> USE DEF Worked
<1> DEFINE cmd == Head(chan)
<1>1. /\ Receive("SessionRemoved")
      /\ batch' = {b \in batch : b.id # cmd.id \/ b.inc > cmd.inc}
      /\ \/ /\ db' = [db EXCEPT ![cmd.id] = delete_session(db[cmd.id], cmd.inc)]
            /\ removed' = [removed EXCEPT ![cmd.id] = MaxNat(removed[cmd.id], cmd.inc)]
         \/ UNCHANGED <<db, removed>>
      /\ \E x \in Replies : reply' = [reply EXCEPT ![cmd.from] = x]
      /\ UNCHANGED worker
  BY DEF HandleSessionRemoved, Replies
<1>2. ChanOK(n)' /\ cmd.id \in Ids /\ cmd.inc \in Given(n)
  BY <1>1, ReceiveFacts
<1> HIDE DEF cmd
<1>3. cmd.inc \in OrNone(n)
  BY <1>2 DEF Given, OrNone
<1>4. DbOK(n)' /\ Watermarked'
  <2>1. CASE UNCHANGED <<db, removed>>
    BY <2>1 DEF DbOK, Watermarked
  <2>2. CASE /\ db' = [db EXCEPT ![cmd.id] = delete_session(db[cmd.id], cmd.inc)]
             /\ removed' = [removed EXCEPT ![cmd.id] = MaxNat(removed[cmd.id], cmd.inc)]
    BY <1>2, <1>3, <2>2, DeleteEntry
  <2> QED BY <1>1, <2>1, <2>2
<1>5. reply' \in [Clients -> Replies]
  BY <1>1 DEF WorkOK
<1> QED BY <1>1, <1>2, <1>4, <1>5 DEF WorkOK

\* The worker writes one snapshot of its batch.
LEMMA FlushOneOK ==
  ASSUME NEW n \in Nat \ {0}, Worked(n), FlushOne
  PROVE  Worked(n)'
<1> USE DEF Worked
<1>1. PICK b \in batch : /\ Commit("BufferUpdate", b.id, save_buffer(db[b.id], b.inc, b.total))
                         /\ batch' = batch \ {b}
  BY DEF FlushOne
<1>2. UNCHANGED <<chan, worker, reply, removed>>
  BY DEF FlushOne
<1>3. b.id \in Ids /\ b.inc \in Given(n) /\ b.total \in 0..Fuel
  BY DEF WorkOK, SnapEntry
<1>4. db[b.id] \in EntryOf(n)
  BY <1>3 DEF DbOK
<1>5. Kept(db[b.id], save_buffer(db[b.id], b.inc, b.total), n)
  BY <1>3, <1>4, SaveBufferSameRow, SameRowKept
<1>6. DbOK(n)' /\ Watermarked'
  BY <1>1, <1>2, <1>3, <1>5, CommitOK
<1> QED BY <1>1, <1>2, <1>6 DEF WorkOK, ChanOK

\* Every step of the worker keeps the types.
LEMMA WorkTyped ==
  ASSUME NEW n \in Nat \ {0}, Typed(n), Work
  PROVE  Typed(n)'
<1> USE DEF Typed
<1>1. WorkerStep /\ UNCHANGED <<inner, sess, ops, respawnQ, locks, env>>
  BY DEF Work
<1>2. Worked(n)
  BY DEF Others, Worked
<1>3. Worked(n)'
  <2>1. CASE HandleShutdown
    <3>1. ChanOK(n)'
      BY <1>2, <2>1, ReceiveFacts DEF HandleShutdown, Worked
    <3> QED BY <1>2, <2>1, <3>1 DEF HandleShutdown, Worked, WorkOK, WorkerOf, DbOK, Watermarked
  <2>2. CASE FlushTimer \/ FlushDone
    BY <1>2, <2>2 DEF FlushTimer, FlushDone, Worked, WorkOK, WorkerOf, DbOK, Watermarked, ChanOK
  <2> QED BY <1>1, <1>2, <2>1, <2>2, HandleBufferUpdateOK, HandleSaveOK, HandleMarkOK,
             HandleSessionExitedOK, MarkExitedOK, HandleSessionRenamedOK, HandleSessionRemovedOK,
             FlushOneOK DEF WorkerStep
<1> QED BY <1>1, <1>3, MemoryFrame, Frame DEF Others, Worked, locks, env

-----------------------------------------------------------------------------
(* Every step, and the theorems on types.                                  *)

\* The server starts on an empty store.
LEMMA InitTyped ==
  ASSUME Init
  PROVE  Typed(1)
<1> USE DEF Typed
<1>0. world \in World
  BY WorldsAssumption DEF Init
<1>1. MemoryOK(1)
  BY NewInnerFacts, BoundsAssumption DEF Init, MemoryOK
<1>2. DbOK(1) /\ Watermarked
  BY DEF Init, DbOK, Watermarked, EntryOf, Entry, EmptyEntry, NoBuffer, OrNone,
         max_session_incarnation, MaxNat
<1>3. SessionsOK(1)
  <2>1. world.fuel \in 0..Fuel
    BY <1>0 DEF World
  <2>2. NoSession \in SessionType /\ NoSession.out = 0 /\ NoSession.reader = "none"
    <3>1. (CHOOSE x \in Ids : TRUE) \in Ids
      BY BoundsAssumption
    <3> QED BY <3>1 DEF NoSession, SessionType, NameSet, Todos
  <2>3. \A i \in Incs : SessionOK(NoSession, i, 1, world.fuel)
    BY <2>1, <2>2, BoundsAssumption DEF SessionOK
  <2> QED BY <2>2, <2>3 DEF Init, SessionsOK
<1>4. OpsOK(1)
  <2>1. Idle \in CallOp(1) /\ Idle \in SupOp(1) /\ Sup \in Actors
    BY PlainType DEF Actors
  <2>2. ops = [a \in Actors |-> Idle]
    BY DEF Init
  <2> QED BY <2>1, <2>2 DEF OpsOK
<1>5. QueueOK(1) /\ ChanOK(1) /\ LocksOK
  BY BoundsAssumption, ChannelCapAssumption DEF Init, PersistInit, QueueOK, ChanOK, LocksOK
<1>6. EnvOK(1)
  BY <1>0 DEF Init, EnvOK, NotRestoring, OrNone, NameSet
<1>7. WorkOK(1)
  BY DEF Init, PersistInit, WorkOK, WorkerOf, Replies
<1> QED BY <1>1, <1>2, <1>3, <1>4, <1>5, <1>6, <1>7 DEF Others

\* A step of create_with_buffer, of a client or of restore_sessions.
LEMMA CreateStepTyped ==
  ASSUME NEW n \in Nat \ {0}, Typed(n), NEW c \in Calling, CreateStep(c)
  PROVE  PtyTyped'
<1>1. n + 1 \in Nat \ {0}
  OBVIOUS
<1>2. Typed(n)' \/ Typed(n + 1)'
  BY CreatePermitTyped, CreateEvictTyped, CreateReserveTyped, CreateSpawnTyped,
     CreateSpawnFailsTyped, CreateAbandonTyped, CreatePublishTyped, CreatePersistTyped,
     CreateStartTyped, CreateStartFailsTyped, SendNextTyped, SendDoneTyped DEF CreateStep
<1> QED BY <1>1, <1>2 DEF PtyTyped

\* A request, or a step of the call it started.
LEMMA ClientTyped ==
  ASSUME NEW n \in Nat \ {0}, Typed(n), NEW c \in Callers, Request(c) \/ CallStep(c)
  PROVE  PtyTyped'
<1>1. n + 1 \in Nat \ {0} /\ c \in Calling /\ c \in Clients
  BY CallingFacts DEF Callers
<1>2. CASE Request(c)
  <2>1. Typed(n)' \/ Typed(n + 1)'
    BY <1>2, CreateCallTyped, KillTyped, RemoveCallTyped, RenameCallTyped, DisposeCallTyped
       DEF Request
  <2> QED BY <1>1, <2>1 DEF PtyTyped
<1>3. CASE CreateStep(c)
  BY <1>1, <1>3, CreateStepTyped
<1>4. CASE CallStep(c) /\ ~CreateStep(c)
  <2>1. Typed(n)' \/ Typed(n + 1)'
    BY <1>1, <1>4, CreateRecheckTyped, CreateTargetLostTyped, RemoveSendTyped, RemoveDoneTyped,
       RenameSendTyped, RenameDoneTyped, DisposeStartTyped, DisposeRemoveTyped,
       DisposeEvictTyped, DisposeErrorTyped, DisposeFinishTyped DEF CallStep, RemoveStep
  <2> QED BY <1>1, <2>1 DEF PtyTyped
<1> QED BY <1>2, <1>3, <1>4

\* Readers, supervisor, sweeper and persist worker.
LEMMA TaskTyped ==
  ASSUME NEW n \in Nat \ {0}, Typed(n),
         \/ \E i \in Incs : ReaderOutput(i) \/ ReaderExit(i) \/ ReaderStep(i)
         \/ SupStep \/ SweepBegin \/ SweepStep \/ Work
  PROVE  PtyTyped'
<1>1. n + 1 \in Nat \ {0} /\ Sweeper \in Clients
  BY CallingFacts
<1>2. CASE \E i \in Incs : ReaderOutput(i) \/ ReaderExit(i) \/ ReaderStep(i)
  <2>1. Typed(n)'
    BY <1>2, ReaderOutputTyped, ReaderExitTyped, ReaderLockTyped, ReaderSnapshotTyped,
       ReaderExitedTyped, ReaderRespawnTyped, ReaderEventTyped DEF ReaderStep
  <2> QED BY <2>1 DEF PtyTyped
<1>3. CASE SupStep
  <2>1. Typed(n)' \/ Typed(n + 1)'
    BY <1>3, SupRecvTyped, SupCheckTyped, SupInvalidTyped, SupReserveTyped, SupPermitTyped,
       SupSpawnTyped, SupSpawnFailsTyped, SupAbandonTyped, SupPublishTyped, SupPersistTyped,
       SupStartTyped, SupStartFailsTyped, SupSourceFailedTyped, SendNextTyped, SendDoneTyped
       DEF SupStep
  <2> QED BY <1>1, <2>1 DEF PtyTyped
<1>4. CASE SweepBegin \/ SweepStep
  <2>1. Typed(n)' \/ Typed(n + 1)'
    BY <1>1, <1>4, SweepBeginTyped, SweepCheckTyped, SweepRemoveTyped, RemoveSendTyped,
       RemoveDoneTyped DEF SweepStep, RemoveStep
  <2> QED BY <1>1, <2>1 DEF PtyTyped
<1>5. CASE Work
  BY <1>5, WorkTyped DEF PtyTyped
<1> QED BY <1>2, <1>3, <1>4, <1>5

\* The server's start and stop, and its crash.
LEMMA ServerTyped ==
  ASSUME NEW n \in Nat \ {0}, Typed(n), RestoreStep \/ ShutdownBegin \/ ShutdownStep \/ Crash
  PROVE  PtyTyped'
<1>1. Main \in Calling
  BY CallingFacts
<1>2. EnvOK(n) /\ world \in World
  BY DEF Typed, Others, EnvOK
<1>3. CASE RestoreStep /\ ~CreateStep(Main)
  <2>1. Typed(n)'
    BY <1>3, RestoreLoadTyped, RestoreNextTyped, RestoreDeleteTyped, RestoreUnavailableTyped,
       RestoreCreateTyped, RestoreDoneTyped DEF RestoreStep
  <2> QED BY <2>1 DEF PtyTyped
<1>4. CASE CreateStep(Main)
  BY <1>1, <1>4, CreateStepTyped
<1>5. CASE ShutdownDone
  <2>1. Boot /\ world' \in World
    BY <1>2, <1>5 DEF ShutdownDone
  <2> QED BY <2>1, BootTyped DEF PtyTyped
<1>6. CASE Crash
  <2>1. Boot /\ world' \in World
    BY <1>2, <1>6, HappensOK DEF Crash
  <2> QED BY <2>1, BootTyped DEF PtyTyped
<1>7. CASE ShutdownBegin \/ (ShutdownStep /\ ~ShutdownDone)
  <2>1. Typed(n)'
    BY <1>7, ShutdownBeginTyped, SnapshotTakeTyped, SnapshotSendTyped, StopAllTyped,
       ShutdownCloseTyped, ShutdownDisposeTyped, ShutdownWorkerTyped DEF ShutdownStep
  <2> QED BY <2>1 DEF PtyTyped
<1> QED BY <1>3, <1>4, <1>5, <1>6, <1>7

\* Nothing happens.
LEMMA StutterTyped ==
  ASSUME NEW n \in Nat \ {0}, Typed(n), UNCHANGED vars
  PROVE  Typed(n)'
<1>1. UNCHANGED <<inner, sess, ops, respawnQ, lc, gate, guard, phase, restoring, world, hist,
                  chan, batch, worker, reply, db, removed>>
  BY DEF vars, locks, env, persistVars
<1> QED BY <1>1 DEF Typed, Others, MemoryOK, SessionsOK, OpsOK, QueueOK, LocksOK, EnvOK, ChanOK,
                    WorkOK, DbOK, Watermarked

\* The state of the session manager is well typed in every behaviour, whatever its
\* callers, tasks, crashes and restarts do: every incarnation in memory, on a queue, in an
\* operation or in the store was handed out by the allocator, every lock's holder exists,
\* every queue is within its capacity.
THEOREM PtyTypes == Spec => []PtyTyped
<1>1. Init => PtyTyped
  BY InitTyped DEF PtyTyped
<1>2. PtyTyped /\ [Next]_vars => PtyTyped'
  <2> SUFFICES ASSUME PtyTyped, [Next]_vars PROVE PtyTyped'
    OBVIOUS
  <2>1. PICK n \in Nat \ {0} : Typed(n)
    BY DEF PtyTyped
  <2>2. CASE UNCHANGED vars
    BY <2>1, <2>2, StutterTyped DEF PtyTyped
  <2>3. CASE Rest
    BY <2>1, <2>3, StutterTyped DEF PtyTyped, Rest
  <2>4. CASE \E c \in Callers : Request(c) \/ CallStep(c)
    BY <2>1, <2>4, ClientTyped
  <2>5. CASE \/ \E i \in Incs : ReaderOutput(i) \/ ReaderExit(i) \/ ReaderStep(i)
             \/ SupStep \/ SweepBegin \/ SweepStep \/ Work
    BY <2>1, <2>5, TaskTyped
  <2>6. CASE RestoreStep \/ ShutdownBegin \/ ShutdownStep \/ Crash
    BY <2>1, <2>6, ServerTyped
  <2> QED BY <2>2, <2>3, <2>4, <2>5, <2>6 DEF Next
<1> QED BY <1>1, <1>2, PTL DEF Spec

\* AllocatorAhead, for every instance: the next incarnation is above everything the store
\* holds or was told to delete, in every behaviour and across every restart, so that
\* advance_past never hands an incarnation out twice.
THEOREM AllocatorStaysAhead == Spec => []AllocatorAhead
<1>1. PtyTyped => AllocatorAhead
  <2> SUFFICES ASSUME PtyTyped, NEW id \in Ids
               PROVE  max_session_incarnation(db[id]) < inner.next /\ removed[id] < inner.next
    BY DEF AllocatorAhead
  <2>1. PICK n \in Nat \ {0} : Typed(n)
    BY DEF PtyTyped
  <2>2. inner.next = n
    BY <2>1 DEF Typed, MemoryOK, InnerOf
  <2>3. db[id] \in EntryOf(n) /\ removed[id] \in OrNone(n)
    BY <2>1 DEF Typed, Others, DbOK
  <2> QED BY <2>2, <2>3 DEF EntryOf, Entry, OrNone, max_session_incarnation, MaxNat
<1> QED BY <1>1, PtyTypes, PTL

\* TypeOK, for every instance: the types and bounds the runs check of the manager's state.
THEOREM PtyTypeOK == Spec => []TypeOK
<1>1. PtyTyped => TypeOK
  <2> SUFFICES ASSUME PtyTyped PROVE TypeOK
    OBVIOUS
  <2>1. PICK n \in Nat \ {0} : Typed(n)
    BY DEF PtyTyped
  <2>2. /\ n \in 1..(MaxInc + 1) /\ inner \in InnerOf(n) /\ MaxInc \in Nat
        /\ OrNone(n) \subseteq {0} \cup Incs /\ Given(n) \subseteq Incs
    BY <2>1, BoundsAssumption DEF Typed, MemoryOK, OrNone, Given, Incs
  <2>3. /\ inner.live \in [Ids -> {0} \cup Incs] /\ inner.pending \in [Ids -> {0} \cup Incs]
        /\ inner.dead \in [Ids -> [inc: {0} \cup Incs, will: BOOLEAN, unavail: BOOLEAN]]
        /\ inner.failed \in [Ids -> [inc: {0} \cup Incs, unavail: BOOLEAN]]
        /\ inner.killed \subseteq Ids /\ inner.suppress \in [Ids -> Nat]
        /\ inner.next \in 1..(MaxInc + 1) /\ inner.generation \in Nat
    <3>1. /\ TombOf(n) \subseteq [inc: {0} \cup Incs, will: BOOLEAN, unavail: BOOLEAN]
          /\ FailedOf(n) \subseteq [inc: {0} \cup Incs, unavail: BOOLEAN]
      BY <2>2 DEF TombOf, FailedOf
    <3>2. n \in Nat
      BY <2>2
    <3> QED BY <2>2, <3>1, <3>2, InnerFields
  <2>4. \A i \in Incs : /\ sess[i].id \in Ids /\ sess[i].name \in Names \cup {NoName}
                        /\ sess[i].child \in {"none", "running", "killed", "gone"}
                        /\ sess[i].reader \in {"none", "run", "exit", "done"}
                        /\ sess[i].reader = "exit" => sess[i].todo # <<>>
    BY <2>1 DEF Typed, Others, SessionsOK, SessionType, SessionOK, NameSet
  <2>5. /\ lc.permits \subseteq Actors
        /\ gate \in Actors \cup Incs \cup {NoOne} /\ guard \in Actors \cup {NoOne}
        /\ Len(respawnQ) <= RespawnCap /\ reply \in [Clients -> Replies]
    BY <2>1 DEF Typed, Others, LocksOK, QueueOK, WorkOK
  <2>6. Len(chan) <= ChannelCap /\ \A k \in 1..Len(chan) : chan[k] \in Command
    <3>1. chan \in Seq(CmdOf(n)) /\ Len(chan) <= ChannelCap
      BY <2>1 DEF Typed, Others, ChanOK
    <3>2. CmdOf(n) \subseteq Command
      <4>1. SaveOf(n) \subseteq Command
        BY <2>2 DEF SaveOf, Command, NameSet
      <4>2. MarkOf(n) \subseteq Command
        BY <2>2 DEF MarkOf, Command
      <4>3. SnapOf(n) \subseteq Command
        BY <2>2 DEF SnapOf, Command
      <4>4. RenOf(n) \subseteq Command
        BY <2>2 DEF RenOf, Command
      <4>5. RemOf(n) \subseteq Command
        BY <2>2 DEF RemOf, Command
      <4>6. Shutdown \in Command
        BY DEF Command
      <4> QED BY <4>1, <4>2, <4>3, <4>4, <4>5, <4>6 DEF CmdOf
    <3>3. \A k \in 1..Len(chan) : chan[k] \in CmdOf(n)
      BY <3>1
    <3> QED BY <3>1, <3>2, <3>3
  <2>7. \A id \in Ids : db[id].inc \in {0} \cup Incs /\ db[id].removal \in {0} \cup Incs
    <3>1. \A id \in Ids : db[id] \in EntryOf(n)
      BY <2>1 DEF Typed, Others, DbOK
    <3>2. \A id \in Ids : db[id].inc \in OrNone(n) /\ db[id].removal \in OrNone(n)
      <4> TAKE id \in Ids
      <4>1. /\ db[id].inc \in Nat /\ db[id].removal \in Nat
            /\ db[id].inc < n /\ db[id].removal < n
        BY <3>1 DEF EntryOf, Entry
      <4> QED BY <4>1 DEF OrNone
    <3> QED BY <2>2, <3>2
  <2> QED BY <2>3, <2>4, <2>5, <2>6, <2>7 DEF TypeOK
<1> QED BY <1>1, PtyTypes, PTL
=============================================================================
