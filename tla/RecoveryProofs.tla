--------------------------- MODULE RecoveryProofs ---------------------------
(***************************************************************************)
(* Proofs about the records a restart goes by.  First the session store,   *)
(* from which the server restores its terminals: it keeps its promises for *)
(* any ids, any set of incarnations and any order of operations.  Then the *)
(* record of the Linux release manager: wherever an activation, its        *)
(* rollback or a recovery stops, the record, the files and the running     *)
(* units agree; for any set of releases and any number of stagings,        *)
(* errors, kills and power losses.                                         *)
(***************************************************************************)
EXTENDS SessionStore, LinuxRelease, FiniteSetTheorems, SequenceTheorems, TLAPS

(***************************************************************************)
(* The inductive invariant.  NoResurrection alone is not inductive: once a *)
(* delete is in the past, what blocks the removed incarnation is either    *)
(* the watermark or, after a newer create cleared it, the row itself.      *)
(***************************************************************************)
RowAboveWatermark(e) == HasRow(e) => e.inc > e.removal

RemovalRemembered(e, r) == e.removal >= r \/ e.inc > r

RetainedIsAlive(e) == HasRow(e) /\ e.unavail => e.alive

BufferOwned(e) == e.buf.by # 0 => HasRow(e) /\ e.buf.by <= e.inc

PortsAbove(e) == \A p \in Ports : e.ports[p] # 0 => e.ports[p] > e.removal

EntryInv(e, r) == /\ RowAboveWatermark(e)
                  /\ RemovalRemembered(e, r)
                  /\ RetainedIsAlive(e)
                  /\ BufferOwned(e)
                  /\ PortsAbove(e)

IInv == TypeOK /\ \A id \in Ids : EntryInv(db[id], removed[id])

-----------------------------------------------------------------------------

\* MaxNat is the maximum.
LEMMA MaxNatFacts ==
  ASSUME NEW m \in Nat, NEW n \in Nat
  PROVE  MaxNat(m, n) \in Nat /\ MaxNat(m, n) >= m /\ MaxNat(m, n) >= n
         /\ (MaxNat(m, n) = m \/ MaxNat(m, n) = n)
BY DEF MaxNat

\* EmptyEntry is an entry, and satisfies the invariant of an id never removed.
LEMMA EmptyEntryOK ==
  EmptyEntry \in Entry /\ EntryInv(EmptyEntry, 0)
BY DEF EmptyEntry, Entry, NoBuffer, EntryInv, RowAboveWatermark, RemovalRemembered,
       RetainedIsAlive, BufferOwned, PortsAbove, HasRow

\* What every transaction except the deletes keeps: types, the per-entry
\* invariant for the same removal history, and the high-water mark.
Keeps(e, f, r) == /\ f \in Entry
                  /\ EntryInv(f, r)
                  /\ max_session_incarnation(f) >= max_session_incarnation(e)
                  /\ HasRow(e) /\ e.unavail /\ f.inc = e.inc => f.unavail

USE DEF Keeps, EntryInv, RowAboveWatermark, RemovalRemembered, RetainedIsAlive,
        BufferOwned, PortsAbove, HasRow, max_session_incarnation, MaxNat, Entry

\* A create or an unavailable upsert, in whatever order, keeps the invariant.
LEMMA SaveKeeps ==
  ASSUME NEW e \in Entry, NEW r \in Nat, EntryInv(e, r),
         NEW inc \in Nat \ {0}, NEW name \in Names \cup {NoName}, NEW un \in BOOLEAN
  PROVE  Keeps(e, save_session(e, inc, name, un), r)
<1> DEFINE f == save_session(e, inc, name, un)
<1>1. CASE inc <= e.removal
  BY <1>1 DEF save_session
<1>2. CASE inc > e.removal /\ inc >= e.inc
  <2>1. f = [e EXCEPT !.inc = inc, !.alive = TRUE, !.name = name,
                      !.unavail = un \/ (e.inc = inc /\ e.unavail), !.removal = 0]
    BY <1>2 DEF save_session
  <2> HIDE DEF f
  <2>2. /\ f.inc = inc /\ f.alive = TRUE /\ f.name = name /\ f.removal = 0
        /\ f.unavail = (un \/ (e.inc = inc /\ e.unavail))
        /\ f.buf = e.buf /\ f.ports = e.ports
    BY <2>1
  <2>3. f \in Entry
    <3>1. (un \/ (e.inc = inc /\ e.unavail)) \in BOOLEAN
      OBVIOUS
    <3> QED BY <2>1, <3>1
  <2>4. EntryInv(f, r)
    BY <1>2, <2>2
  <2>5. max_session_incarnation(f) >= max_session_incarnation(e)
    BY <1>2, <2>2
  <2>6. HasRow(e) /\ e.unavail /\ f.inc = e.inc => f.unavail
    BY <2>2
  <2> QED BY <2>3, <2>4, <2>5, <2>6 DEF f
<1>3. CASE inc > e.removal /\ inc < e.inc
  <2>1. f = [e EXCEPT !.removal = 0]
    BY <1>3 DEF save_session
  <2> QED BY <1>3, <2>1
<1> QED BY <1>1, <1>2, <1>3

\* An exit keeps it: a retained row is not touched.
LEMMA MarkDeadKeeps ==
  ASSUME NEW e \in Entry, NEW r \in Nat, EntryInv(e, r), NEW inc \in Nat \ {0}
  PROVE  Keeps(e, mark_session_dead(e, inc), r)
<1> DEFINE f == mark_session_dead(e, inc)
<1>1. CASE HasRow(e) /\ e.inc = inc /\ ~e.unavail
  <2>1. f = [e EXCEPT !.alive = FALSE]
    BY <1>1 DEF mark_session_dead
  <2> HIDE DEF f
  <2>2. f \in Entry
    BY <2>1
  <2>3. EntryInv(f, r)
    BY <1>1, <2>1
  <2>4. max_session_incarnation(f) >= max_session_incarnation(e)
    BY <2>1
  <2>5. HasRow(e) /\ e.unavail /\ f.inc = e.inc => f.unavail
    BY <1>1, <2>1
  <2> QED BY <2>2, <2>3, <2>4, <2>5 DEF f
<1>2. CASE ~(HasRow(e) /\ e.inc = inc /\ ~e.unavail)
  BY <1>2 DEF mark_session_dead
<1> QED BY <1>1, <1>2

LEMMA MarkUnavailableKeeps ==
  ASSUME NEW e \in Entry, NEW r \in Nat, EntryInv(e, r), NEW inc \in Nat \ {0}
  PROVE  Keeps(e, mark_session_target_unavailable(e, inc), r)
<1> DEFINE f == mark_session_target_unavailable(e, inc)
<1>1. CASE HasRow(e) /\ e.inc = inc
  <2>1. f = [e EXCEPT !.alive = TRUE, !.unavail = TRUE]
    BY <1>1 DEF mark_session_target_unavailable
  <2> HIDE DEF f
  <2>2. f \in Entry
    BY <2>1
  <2>3. EntryInv(f, r)
    BY <1>1, <2>1
  <2>4. max_session_incarnation(f) >= max_session_incarnation(e)
    BY <2>1
  <2>5. HasRow(e) /\ e.unavail /\ f.inc = e.inc => f.unavail
    BY <1>1, <2>1
  <2> QED BY <2>2, <2>3, <2>4, <2>5 DEF f
<1>2. CASE ~(HasRow(e) /\ e.inc = inc)
  BY <1>2 DEF mark_session_target_unavailable
<1> QED BY <1>1, <1>2

LEMMA SaveBufferKeeps ==
  ASSUME NEW e \in Entry, NEW r \in Nat, EntryInv(e, r),
         NEW inc \in Nat \ {0}, NEW total \in Nat
  PROVE  Keeps(e, save_buffer(e, inc, total), r)
BY DEF save_buffer

LEMMA RenameKeeps ==
  ASSUME NEW e \in Entry, NEW r \in Nat, EntryInv(e, r),
         NEW inc \in Nat \ {0}, NEW name \in Names \cup {NoName}
  PROVE  Keeps(e, rename_session(e, inc, name), r)
BY DEF rename_session, Renames

LEMMA SavePortKeeps ==
  ASSUME NEW e \in Entry, NEW r \in Nat, EntryInv(e, r),
         NEW inc \in Nat \ {0}, NEW p \in Ports
  PROVE  Keeps(e, save_detected_port(e, inc, p), r)
BY DEF save_detected_port

LEMMA DeletePortKeeps ==
  ASSUME NEW e \in Entry, NEW r \in Nat, EntryInv(e, r),
         NEW inc \in Nat \ {0}, NEW p \in Ports
  PROVE  Keeps(e, delete_detected_port(e, inc, p), r)
BY DEF delete_detected_port

LEMMA DeletePortsKeeps ==
  ASSUME NEW e \in Entry, NEW r \in Nat, EntryInv(e, r), NEW inc \in Nat \ {0}
  PROVE  Keeps(e, delete_detected_ports_for_session(e, inc), r)
BY DEF delete_detected_ports_for_session

LEMMA CleanupExpiredKeeps ==
  ASSUME NEW e \in Entry, NEW r \in Nat, EntryInv(e, r)
  PROVE  Keeps(e, cleanup_expired(e), r)
BY DEF cleanup_expired, NoBuffer

\* A delete keeps it for the removal history that now includes it.
LEMMA DeleteKeeps ==
  ASSUME NEW e \in Entry, NEW r \in Nat, EntryInv(e, r), NEW inc \in Nat \ {0}
  PROVE  Keeps(e, delete_session(e, inc), MaxNat(r, inc))
<1> DEFINE mark  == MaxNat(e.removal, inc)
           ports == [p \in Ports |-> IF e.ports[p] <= mark THEN 0 ELSE e.ports[p]]
           f     == delete_session(e, inc)
<1>1. /\ mark \in Nat /\ mark >= e.removal /\ mark >= inc
      /\ mark = e.removal \/ mark = inc
  BY MaxNatFacts
<1>2. /\ ports \in [Ports -> Nat]
      /\ \A p \in Ports : ports[p] # 0 => ports[p] > mark
  BY <1>1
<1>3. CASE HasRow(e) /\ e.inc > mark
  <2>1. f = [e EXCEPT !.removal = mark, !.ports = ports]
    BY <1>3 DEF delete_session
  <2> HIDE DEF f, ports, mark
  <2>2. /\ f.inc = e.inc /\ f.alive = e.alive /\ f.unavail = e.unavail
        /\ f.removal = mark /\ f.buf = e.buf /\ f.ports = ports
    BY <2>1
  <2>3. f \in Entry
    BY <1>1, <1>2, <2>1
  <2>4. EntryInv(f, MaxNat(r, inc))
    BY <1>1, <1>2, <1>3, <2>2
  <2>5. max_session_incarnation(f) >= max_session_incarnation(e)
    BY <1>1, <1>3, <2>2
  <2>6. f.unavail = e.unavail
    BY <2>2
  <2> HIDE DEF EntryInv, Entry, max_session_incarnation
  <2> QED BY <2>3, <2>4, <2>5, <2>6 DEF f
<1>4. CASE ~(HasRow(e) /\ e.inc > mark)
  <2>1. f = [EmptyEntry EXCEPT !.removal = mark, !.ports = ports]
    BY <1>4 DEF delete_session
  <2> HIDE DEF f, ports, mark
  <2>2. /\ f.inc = 0 /\ f.alive = FALSE /\ f.unavail = FALSE /\ f.name = NoName
        /\ f.removal = mark /\ f.buf = NoBuffer /\ f.ports = ports
    BY <2>1 DEF EmptyEntry
  <2>3. f \in Entry
    BY <1>1, <1>2, <2>1 DEF EmptyEntry, NoBuffer
  <2>4. EntryInv(f, MaxNat(r, inc))
    BY <1>1, <1>2, <1>4, <2>2 DEF NoBuffer
  <2>5. max_session_incarnation(f) >= max_session_incarnation(e)
    BY <1>1, <1>4, <2>2
  <2>6. HasRow(e) => f.inc # e.inc
    BY <2>2
  <2> HIDE DEF EntryInv, Entry, max_session_incarnation
  <2> QED BY <2>3, <2>4, <2>5, <2>6 DEF f
<1> QED BY <1>3, <1>4


-----------------------------------------------------------------------------

\* One step of the store, for one id: the entry moves by Keeps for the removal
\* history the step leaves behind.
StepKeeps == /\ TypeOK'
             /\ \A id \in Ids : Keeps(db[id], db'[id], removed'[id])

\* Every operation, late or repeated, moves every entry by Keeps.
LEMMA NextKeeps == IInv /\ Next => StepKeeps
<1> SUFFICES ASSUME IInv, Next PROVE StepKeeps
  OBVIOUS
<1> USE IncsAssumption, TotalsAssumption
<1> HIDE DEF Keeps, EntryInv, Entry, HasRow
<1>1. \A id \in Ids : db[id] \in Entry /\ removed[id] \in Nat /\ EntryInv(db[id], removed[id])
  BY DEF IInv, TypeOK
<1>2. \A id \in Ids : Keeps(db[id], db[id], removed[id])
  <2>1. ASSUME NEW e \in Entry PROVE max_session_incarnation(e) >= max_session_incarnation(e)
    BY DEF Entry
  <2> HIDE DEF max_session_incarnation
  <2> QED BY <1>1, <2>1 DEF Keeps
<1>3. ASSUME NEW id \in Ids, NEW e, Keeps(db[id], e, removed[id]), Write(id, e)
      PROVE  StepKeeps
  BY <1>2, <1>3 DEF StepKeeps, Write, IInv, TypeOK, Keeps
<1>4. ASSUME NEW id \in Ids, Save(id) PROVE StepKeeps
  <2>1. PICK inc \in Incs, name \in Names \cup {NoName}, un \in BOOLEAN :
          Write(id, save_session(db[id], inc, name, un))
    BY <1>4 DEF Save
  <2>2. Keeps(db[id], save_session(db[id], inc, name, un), removed[id])
    BY <1>1, SaveKeeps
  <2> QED BY <1>3, <2>1, <2>2
<1>5. ASSUME NEW id \in Ids, MarkDead(id) PROVE StepKeeps
  BY <1>1, <1>3, <1>5, MarkDeadKeeps DEF MarkDead
<1>6. ASSUME NEW id \in Ids, MarkUnavailable(id) PROVE StepKeeps
  BY <1>1, <1>3, <1>6, MarkUnavailableKeeps DEF MarkUnavailable
<1>7. ASSUME NEW id \in Ids, SaveBuffer(id) PROVE StepKeeps
  BY <1>1, <1>3, <1>7, SaveBufferKeeps DEF SaveBuffer
<1>8. ASSUME NEW id \in Ids, Rename(id) PROVE StepKeeps
  BY <1>1, <1>3, <1>8, RenameKeeps DEF Rename
<1>9. ASSUME NEW id \in Ids, Delete(id) PROVE StepKeeps
  <2>1. PICK inc \in Incs : /\ db' = [db EXCEPT ![id] = delete_session(db[id], inc)]
                            /\ removed' = [removed EXCEPT ![id] = MaxNat(removed[id], inc)]
    BY <1>9 DEF Delete
  <2>2. Keeps(db[id], delete_session(db[id], inc), MaxNat(removed[id], inc))
    BY <1>1, DeleteKeeps
  <2>3. MaxNat(removed[id], inc) \in Nat
    BY <1>1, MaxNatFacts
  <2> QED BY <1>2, <2>1, <2>2, <2>3 DEF StepKeeps, IInv, TypeOK, Keeps
<1>10. ASSUME NEW id \in Ids, SavePort(id) PROVE StepKeeps
  BY <1>1, <1>3, <1>10, SavePortKeeps DEF SavePort
<1>11. ASSUME NEW id \in Ids, DeletePort(id) PROVE StepKeeps
  BY <1>1, <1>3, <1>11, DeletePortKeeps DEF DeletePort
<1>12. ASSUME NEW id \in Ids, DeletePorts(id) PROVE StepKeeps
  BY <1>1, <1>3, <1>12, DeletePortsKeeps DEF DeletePorts
<1>13. CASE CleanupDead
  <2>1. ASSUME NEW id \in Ids, HasRow(db[id]), ~db[id].alive
        PROVE  Keeps(db[id], delete_session(db[id], db[id].inc), MaxNat(removed[id], db[id].inc))
               /\ MaxNat(removed[id], db[id].inc) \in Nat
    <3>1. db[id].inc \in Nat \ {0}
      BY <1>1, <2>1 DEF Entry, HasRow
    <3> QED BY <1>1, <3>1, DeleteKeeps, MaxNatFacts
  <2>2. \A id \in Ids : Keeps(db[id], db'[id], removed'[id]) /\ removed'[id] \in Nat
    BY <1>1, <1>2, <1>13, <2>1 DEF CleanupDead, cleanup_dead
  <2> QED BY <1>13, <2>2 DEF StepKeeps, TypeOK, CleanupDead, Keeps
<1>14. CASE CleanupExpired
  <2>1. \A id \in Ids : Keeps(db[id], cleanup_expired(db[id]), removed[id])
    BY <1>1, CleanupExpiredKeeps
  <2> QED BY <1>2, <1>14, <2>1 DEF StepKeeps, CleanupExpired, IInv, TypeOK, Keeps
<1> QED
  BY <1>4, <1>5, <1>6, <1>7, <1>8, <1>9, <1>10, <1>11, <1>12, <1>13, <1>14 DEF Next

\* The inductive invariant holds in every state of the store.
THEOREM StoreInvariant == Spec => []IInv
<1>1. Init => IInv
  BY EmptyEntryOK DEF Init, IInv, TypeOK
<1>2. IInv /\ [Next]_vars => IInv'
  <2>1. CASE UNCHANGED vars
    BY <2>1 DEF vars, IInv, TypeOK
  <2>2. CASE Next
    BY <2>2, NextKeeps DEF StepKeeps, IInv
  <2> QED BY <2>1, <2>2
<1> QED BY <1>1, <1>2, PTL DEF Spec

\* Column types: no operation order breaks them (server/src/persistence/mod.rs).
THEOREM TableTypesOK == Spec => []TypeOK
<1>1. IInv => TypeOK
  BY DEF IInv
<1> QED BY <1>1, StoreInvariant, PTL

\* A deleted incarnation never reappears as a row, in any order of commands
\* (delete_session_in_transaction against late SessionCreated).
THEOREM StoreNoResurrection == Spec => []NoResurrection
<1>1. IInv => NoResurrection
  BY DEF IInv, TypeOK, NoResurrection
<1> QED BY <1>1, StoreInvariant, PTL

\* A retained, target-unavailable row stays visible to load_sessions.
THEOREM StoreRetainedIsLoadable == Spec => []RetainedIsLoadable
<1>1. IInv => RetainedIsLoadable
  BY DEF IInv, TypeOK, RetainedIsLoadable, Loadable
<1> QED BY <1>1, StoreInvariant, PTL

\* Scrollback never outlives its row nor belongs to a newer incarnation.
THEOREM StoreBufferHasOwner == Spec => []BufferHasOwner
<1>1. IInv => BufferHasOwner
  BY DEF IInv, TypeOK, BufferHasOwner
<1> QED BY <1>1, StoreInvariant, PTL

\* No port record at or below the watermark survives a delete.
THEOREM StorePortsAboveWatermark == Spec => []PortsAboveWatermark
<1>1. IInv => PortsAboveWatermark
  BY DEF IInv, TypeOK, PortsAboveWatermark
<1> QED BY <1>1, StoreInvariant, PTL

\* max_session_incarnation never falls: the allocator of the next run starts
\* above every incarnation that was ever saved or removed.
THEOREM StoreHighWater == Spec => HighWaterNeverFalls
<1>1. IInv /\ [Next]_vars =>
        [\A id \in Ids : max_session_incarnation(db'[id]) >= max_session_incarnation(db[id])]_vars
  BY NextKeeps DEF StepKeeps
<1> QED BY <1>1, StoreInvariant, PTL DEF Spec, HighWaterNeverFalls

\* target_unavailable is never withdrawn from the incarnation that has it.
THEOREM StoreUnavailableIsSticky == Spec => UnavailableIsSticky
<1>1. IInv /\ [Next]_vars =>
        [\A id \in Ids : HasRow(db[id]) /\ db[id].unavail /\ db'[id].inc = db[id].inc
                           => db'[id].unavail]_vars
  BY NextKeeps DEF StepKeeps
<1> QED BY <1>1, StoreInvariant, PTL DEF Spec, UnavailableIsSticky

\* The tables agree in every reachable state, for any ids, names, ports and
\* incarnations: the four parts above together (persistence/mod.rs).
THEOREM StoreTablesAgree == Spec => []TablesAgree
<1>1. TypeOK /\ RetainedIsLoadable /\ BufferHasOwner /\ PortsAboveWatermark => TablesAgree
  BY DEF TablesAgree
<1> QED
  BY <1>1, TableTypesOK, StoreRetainedIsLoadable, StoreBufferHasOwner,
     StorePortsAboveWatermark, PTL

\* No transaction, however late, takes the store back.
THEOREM StoreForward == Spec => StoreMovesForward
  BY StoreHighWater, StoreUnavailableIsSticky, PTL DEF StoreMovesForward

-----------------------------------------------------------------------------
(* The release manager: the inductive invariant.  ReleaseIsWhole speaks of *)
(* the moments between commands; what each step finds is added: the phase  *)
(* recorded, the copies made of the old units, and the tree and units that *)
(* the record is about to name.                                            *)

OnPath    == {"quiesced", "switched", "probing"}
Pipeline  == {"stop", "backup", "install", "config", "switched", "startUnits", "probing", "health", "enable"}
Installed(r) == \A u \in Rendered(r) : units[u] = r

\* The phase of the transaction that each step of the activation finds recorded.
PhaseAt(pc) == CASE pc \in {"stop", "backup", "install", "config", "switched"} -> "quiesced"
                 [] pc \in {"startUnits", "probing"}                           -> "switched"
                 [] pc \in {"health", "enable"}                                -> "probing"

TxOf    == [phase : {"none", "staged", "quiesced", "switched", "probing", "failed"}, migration : BOOLEAN]
StateOf == [active : Rels, previous : Rels, pending : Rels, failed : Rels, legacy : BOOLEAN, tx : TxOf]
Ops  == {"stage", "start", "recover", "boot"}
Pcs  == {"extract", "rename", "render", "role", "record", "quiesce", "commit", "link", "retain", "recordFailure",
         "undo", "restart", "verify", "settle", "classify"} \cup Pipeline
Whys  == {"none", "rollback"} \cup {r.role : r \in Rels}
FuelOf == [stages : Nat, faults : 0..MaxRelFault, crashes : Nat, dropped : BOOLEAN]
JobOf == [op : Ops, pc : Pcs, cand : Rels, mem : StateOf, why : Whys]
RelTypes ==
  /\ RelTypeOK
  /\ backup \in [units : [UnitNames -> Rels], host : Rels]
  /\ hostRole \in Whys /\ job \in JobOf \cup {Resting} /\ (job.op = "stage" => job.cand # NoRel)
  /\ relFuel \in FuelOf

\* A format-2 host has no release, and its candidate is never started.
LegacyAside ==
  /\ disk.tx.phase = "none" => disk.tx = NoTx
  /\ disk.tx.phase = "staged" => disk.legacy
  /\ disk.legacy => /\ disk.active = NoRel /\ disk.previous = NoRel
                    /\ IF disk.tx = NoTx THEN disk.pending = NoRel ELSE disk.tx.phase = "staged"

\* What is recorded is on the machine: in place, or in the copies of the transaction.
TreesKept ==
  /\ disk.active # NoRel => disk.active \in dirs
  /\ disk.previous # NoRel => disk.previous \in dirs
UnitsKept ==
  disk.active # NoRel =>
    /\ disk.tx = NoTx => Installed(disk.active)
    /\ disk.tx.phase \in OnPath => \A u \in Rendered(disk.active) :
         backup.units[u] = disk.active \/ (backup.units[u] = NoRel /\ units[u] = disk.active)

\* The record a commit is about to make, or that a commit that failed leaves to record_failure.
Committing(m) ==
  /\ m.active = job.cand /\ m.previous = disk.active /\ m.tx = NoTx /\ m.legacy = disk.legacy
  /\ Installed(job.cand)

AtStage == job.op = "stage" =>
  /\ job.pc \in {"extract", "rename", "render", "role", "record"}
  /\ job.cand # NoRel
  /\ job.pc # "extract" => job.cand \notin {disk.active, disk.previous}

AtStart ==
  /\ job.op = "start" /\ job.pc \in Pipeline \cup {"quiesce", "commit", "link", "retain", "recordFailure"} =>
       /\ job.cand # NoRel /\ (job.cand \in dirs \/ (disk.legacy /\ job.pc = "quiesce"))
       /\ disk.legacy => job.pc = "quiesce"
  /\ job.op = "start" => job.pc \in Pipeline \cup
       {"quiesce", "commit", "link", "retain", "recordFailure", "undo", "restart", "verify", "settle"}
  /\ job.pc = "quiesce" => job.mem = disk
  /\ job.pc \in Pipeline => job.mem = disk /\ disk.tx.phase = PhaseAt(job.pc)
  /\ job.pc \in {"stop", "backup"} /\ disk.active # NoRel => Installed(disk.active)
  /\ job.pc \in (Pipeline \ {"stop", "backup"}) \cup {"commit"} /\ disk.active # NoRel =>
       \A u \in Rendered(disk.active) : backup.units[u] = disk.active
  /\ job.pc \in {"config", "switched", "startUnits", "probing", "health", "enable", "commit"} => Installed(job.cand)
  /\ job.pc \in {"enable", "commit", "link", "retain"} => Healthy(job.cand)
  /\ job.pc = "commit" => Committing(job.mem) /\ disk.tx.phase = "probing"
  /\ job.pc \in {"link", "retain"} => job.mem = disk /\ disk.tx = NoTx /\ disk.active = job.cand
  /\ job.pc = "retain" => link = job.cand
  /\ job.pc = "recordFailure" =>
       /\ disk.tx.phase \in OnPath
       /\ job.mem = disk \/ Committing(job.mem)

\* The way back: recovery takes it only for an interrupted transaction.
AtUndo ==
  /\ job.op \in {"recover", "boot"} => job.pc \in {"classify", "undo", "restart", "verify", "settle"}
  /\ job.pc \in {"undo", "restart", "verify", "settle"} => ~disk.legacy
  /\ job.pc = "undo" => disk.tx = NoTx \/ disk.tx.phase \in OnPath
  /\ job.pc \in {"restart", "verify"} => job.mem = disk /\ disk.active # NoRel /\ Installed(disk.active)
  /\ job.pc = "verify" => Healthy(disk.active)
  /\ job.pc = "settle" =>
       /\ job.mem.active = disk.active /\ job.mem.previous = disk.previous /\ job.mem.tx = NoTx
       /\ job.mem.legacy = disk.legacy
       /\ IF disk.active = NoRel THEN up = Nothing /\ enabled = {}
          ELSE Installed(disk.active) /\ Healthy(disk.active)

\* A transaction is given up, and the operator asked for, only over an error.
NoErrorNoRefusal == relFuel.faults = MaxRelFault => disk.tx.phase # "failed" /\ answer # "recovery_required"
Reported == answer \in {"committed", "rolled_back"} => job = Resting /\ ReportedIsRunning

ReleaseInv ==
  RelTypes /\ (~relFuel.dropped =>
     /\ LegacyAside /\ TreesKept /\ UnitsKept /\ AtStage /\ AtStart /\ AtUndo /\ NoErrorNoRefusal /\ Reported)

-----------------------------------------------------------------------------
(* The release manager: types.                                             *)

LEMMA RelNames ==
  /\ NoRel \in Rels /\ Candidates \subseteq Rels /\ [tag |-> "v1", role |-> "both"] \in Rels
  /\ [tag |-> "v1", role |-> "both"] # NoRel /\ NoRel \notin Candidates
  /\ \A r : UnitsOf(r) \subseteq Rendered(r) /\ Rendered(r) \subseteq UnitNames
  /\ NoTx.phase = "none" /\ NoTx \in [phase : {"none", "staged", "quiesced", "switched", "probing", "failed"}, migration : BOOLEAN]
  /\ Nothing \in [UnitNames -> Rels] /\ NoBackup \in [units : [UnitNames -> Rels], host : Rels]
  /\ Resting.op = "none" /\ Resting.pc = "none" /\ Resting \notin JobOf
<1>1. NoRel.tag = "none" /\ [tag |-> "v1", role |-> "both"].tag = "v1"
  BY DEF NoRel
<1>2. NoRel \in Rels /\ Candidates \subseteq Rels /\ [tag |-> "v1", role |-> "both"] \in Rels
  BY DEF Rels
<1>3. \A r : UnitsOf(r) \subseteq Rendered(r) /\ Rendered(r) \subseteq UnitNames
  BY DEF Rendered, UnitsOf, UnitNames
<1>4. Nothing \in [UnitNames -> Rels] /\ NoBackup \in [units : [UnitNames -> Rels], host : Rels]
  BY <1>2 DEF Nothing, NoBackup
<1>5. Resting \notin JobOf
  <2>1. DOMAIN Resting = {"op", "pc"} /\ \A j \in JobOf : DOMAIN j = {"op", "pc", "cand", "mem", "why"}
    BY DEF Resting, JobOf
  <2>2. "cand" \notin {"op", "pc"}
    OBVIOUS
  <2> QED BY <2>1, <2>2
<1> QED BY <1>1, <1>2, <1>3, <1>4, <1>5, ReleaseAssumption DEF NoTx, Resting

LEMMA JobTypes ==
  ASSUME RelTypes, job # Resting
  PROVE  job \in JobOf /\ job.op \in Ops /\ job.pc \in Pcs /\ job.cand \in Rels /\ job.mem \in StateOf
BY DEF RelTypes, JobOf


\* What an action makes of the record.
LEMMA StateWrites ==
  ASSUME NEW s \in StateOf
  PROVE  /\ s.tx # NoTx \/ s.tx.phase = "none"
         /\ \A p \in OnPath \cup {"failed"} :
              /\ [s EXCEPT !.tx.phase = p] \in StateOf
              /\ [s EXCEPT !.tx.phase = p] = [s EXCEPT !.tx = [s.tx EXCEPT !.phase = p]]
         /\ \A x, y \in Rels :
              /\ [s EXCEPT !.failed = x] \in StateOf
              /\ [s EXCEPT !.pending = x] \in StateOf
              /\ [s EXCEPT !.tx = NoTx, !.failed = x] \in StateOf
              /\ [s EXCEPT !.previous = x, !.active = y, !.pending = NoRel, !.tx = NoTx] \in StateOf
              /\ [s EXCEPT !.active = x, !.previous = y] \in StateOf
BY RelNames DEF StateOf, TxOf, OnPath, NoTx

LEMMA FuelStep ==
  ASSUME RelTypes, RelNext
  PROVE  /\ relFuel' \in FuelOf
         /\ relFuel'.faults <= relFuel.faults /\ (relFuel.dropped => relFuel'.dropped)
<1>1. MaxRelFault \in Nat /\ relFuel \in [stages : Nat, faults : 0..MaxRelFault, crashes : Nat, dropped : BOOLEAN]
  BY ReleaseAssumption DEF RelTypes, FuelOf
<1> USE DEF FuelOf
<1>a. ASSUME NEW x \in 0..MaxRelFault, NEW b \in BOOLEAN
      PROVE  [relFuel EXCEPT !.faults = x, !.dropped = b] \in FuelOf
  BY <1>1, Zenon
<1>2. CASE StartPending \/ StopUnits \/ backup_unit_files \/ install_unit_file
          \/ install_host_config \/ EnableUnits
  <2>1. relFuel' = relFuel
    BY <1>2 DEF StartPending, StopUnits, backup_unit_files, install_unit_file, install_host_config,
       EnableUnits
  <2> QED BY <1>1, <2>1
<1>3. CASE apply_retention \/ RollbackBaseline \/ RollbackRestore \/ RecoveryTimesOut
          \/ ManualRollback \/ Recover
  <2>1. relFuel' = relFuel
    BY <1>3 DEF apply_retention, RollbackBaseline, RollbackRestore, RecoveryTimesOut, ManualRollback,
       Recover
  <2> QED BY <1>1, <2>1
<1>4. CASE RecoverRestore \/ RecoverResume \/ RecoverRepair \/ RecoverRefuse \/ StageRename
          \/ StageBeside
  <2>1. relFuel' = relFuel
    BY <1>4 DEF RecoverRestore, RecoverResume, RecoverRepair, RecoverRefuse, StageRename,
       StageBeside
  <2> QED BY <1>1, <2>1
<1>5. CASE StageRender \/ StageRole \/ StartActive \/ Quiesce \/ Switched \/ Probing \/ StartUnits
          \/ Health
  BY <1>5, <1>1 DEF StageRender, StageRole, StartActive, Quiesce, Switched, Records, Probing,
     Records, StartUnits, Health, Faulty, Fault
<1>6. CASE Commit \/ CurrentLink \/ RecordFailure \/ RollbackStart \/ RollbackVerify
          \/ RollbackSettle
  BY <1>6, <1>1 DEF Commit, CurrentLink, RecordFailure, RollbackStart, RollbackVerify,
     RollbackSettle, Faulty, Fault
<1>7. CASE StageAny \/ Killed \/ PowerLoss
  BY <1>7, <1>1 DEF StageAny, Stage, Killed, PowerLoss
<1>8. CASE StageExtract
  <2>1. ASSUME relFuel' # relFuel
        PROVE  relFuel.faults > 0 /\ relFuel' = [relFuel EXCEPT !.faults = @ - 1, !.dropped = TRUE]
    BY <1>8, <2>1 DEF StageExtract, Faulty
  <2>2. ASSUME relFuel.faults > 0 PROVE relFuel.faults - 1 \in 0..MaxRelFault
    BY <1>1, <2>2
  <2>3. ASSUME relFuel' # relFuel PROVE relFuel' \in FuelOf
    <3>1. relFuel.faults - 1 \in 0..MaxRelFault
      BY <2>1, <2>2, <2>3
    <3>2. [relFuel EXCEPT !.faults = relFuel.faults - 1, !.dropped = TRUE] \in FuelOf
      BY <1>a, <3>1, Zenon
    <3>3. relFuel' = [relFuel EXCEPT !.faults = relFuel.faults - 1, !.dropped = TRUE]
      BY <2>1, <2>3
    <3> HIDE DEF FuelOf
    <3> QED BY <3>2, <3>3
  <2>4. ASSUME relFuel' # relFuel PROVE relFuel'.faults <= relFuel.faults
    <3>1. relFuel'.faults = relFuel.faults - 1
      BY <1>1, <2>1, <2>4
    <3> QED BY <1>1, <3>1
  <2>6. ASSUME relFuel' # relFuel PROVE relFuel'.dropped
    BY <1>1, <2>1, <2>6
  <2>5. CASE relFuel' = relFuel
    BY <1>1, <2>5
  <2> HIDE DEF FuelOf
  <2> QED BY <2>3, <2>4, <2>5, <2>6
<1>9. CASE StageRecord
  <2>1. ASSUME relFuel' # relFuel, ~(relFuel' = [relFuel EXCEPT !.faults = @ - 1] /\ relFuel.faults > 0)
        PROVE  \E fails \in BOOLEAN :
                 /\ fails => relFuel.faults > 0
                 /\ relFuel' = [relFuel EXCEPT !.faults = IF fails THEN @ - 1 ELSE @,
                                               !.dropped = @ \/ (disk.tx # NoTx /\ ~disk.legacy)]
    BY <1>9, <2>1 DEF StageRecord, Faulty, Fault
  <2>2. ASSUME NEW fails \in BOOLEAN, fails => relFuel.faults > 0
        PROVE  (IF fails THEN relFuel.faults - 1 ELSE relFuel.faults) \in 0..MaxRelFault
    BY <1>1, <2>2
  <2>3. (relFuel.dropped \/ (disk.tx # NoTx /\ ~disk.legacy)) \in BOOLEAN
    BY Zenon
  <2>4. ASSUME relFuel' # relFuel, ~(relFuel' = [relFuel EXCEPT !.faults = @ - 1] /\ relFuel.faults > 0)
        PROVE  relFuel' \in FuelOf /\ relFuel'.faults <= relFuel.faults /\ (relFuel.dropped => relFuel'.dropped)
    <3>1. PICK fails \in BOOLEAN :
                 /\ fails => relFuel.faults > 0
                 /\ relFuel' = [relFuel EXCEPT !.faults = IF fails THEN @ - 1 ELSE @,
                                               !.dropped = @ \/ (disk.tx # NoTx /\ ~disk.legacy)]
      BY <2>1, <2>4
    <3>2. relFuel' \in FuelOf
      BY <1>a, <2>2, <2>3, <3>1
    <3> QED BY <1>1, <3>1, <3>2
  <2> QED BY <1>1, <2>4
<1> QED BY <1>2, <1>3, <1>4, <1>5, <1>6, <1>7, <1>8, <1>9 DEF RelNext

LEMMA JobStep ==
  ASSUME RelTypes, RelNext
  PROVE  job' \in JobOf \cup {Resting}
<1>1. /\ job \in JobOf \cup {Resting} /\ disk \in StateOf /\ hostRole \in Whys /\ Candidates \subseteq Rels /\ NoRel \in Rels
      /\ Resting.op = "none" /\ Resting.pc = "none" /\ {"none", "rollback"} \subseteq Whys
      /\ disk.pending \in Rels /\ disk.previous \in Rels
  BY RelNames DEF RelTypes, RelTypeOK, StateOf, TxOf, Whys
<1>2. ASSUME job # Resting PROVE job \in JobOf /\ job.mem \in StateOf /\ job.cand \in Rels
  BY <1>1, <1>2 DEF JobOf
<1>3. CASE StageExtract \/ StageRename \/ StageBeside \/ StageRender \/ StageRecord
  <2>1. job' = Resting \/ (\E p \in Pcs : job # Resting /\ job' = [job EXCEPT !.pc = p])\/ job' = job
    BY <1>3, <1>1 DEF StageExtract, StageRename, StageBeside, StageRender, StageRecord, Goto, Ends,
       Pcs, Pipeline
  <2> QED BY <1>1, <1>2, <2>1 DEF JobOf
<1>4. CASE StartActive \/ StopUnits \/ backup_unit_files \/ install_unit_file
          \/ install_host_config \/ StartUnits \/ Health \/ Commit
  <2>1. job' = Resting \/ (\E p \in Pcs : job # Resting /\ job' = [job EXCEPT !.pc = p])\/ job' = job
    BY <1>4, <1>1 DEF StartActive, StopUnits, backup_unit_files, install_unit_file,
       install_host_config, StartUnits, Health, Commit, Goto, Ends, Pcs, Pipeline
  <2> QED BY <1>1, <1>2, <2>1 DEF JobOf
<1>5. CASE CurrentLink \/ apply_retention \/ RecordFailure \/ RollbackStart \/ RecoveryTimesOut
  <2>1. job' = Resting \/ (\E p \in Pcs : job # Resting /\ job' = [job EXCEPT !.pc = p])\/ job' = job
    BY <1>5, <1>1 DEF CurrentLink, apply_retention, RecordFailure, RollbackStart, RecoveryTimesOut,
       Goto, Ends, Pcs, Pipeline
  <2> QED BY <1>1, <1>2, <2>1 DEF JobOf
<1>6. CASE RollbackSettle \/ RecoverRestore \/ RecoverResume \/ RecoverRepair \/ RecoverRefuse
          \/ Killed
  <2>1. job' = Resting \/ (\E p \in Pcs : job # Resting /\ job' = [job EXCEPT !.pc = p])\/ job' = job
    BY <1>6, <1>1 DEF RollbackSettle, RecoverRestore, RecoverResume, RecoverRepair, RecoverRefuse,
       Killed, Goto, Ends, Pcs, Pipeline
  <2> QED BY <1>1, <1>2, <2>1 DEF JobOf
<1>7. CASE StageAny \/ StartPending \/ Recover \/ PowerLoss
  <2>1. \/ job' = Resting
        \/ \E o \in Ops, p \in Pcs, c \in Rels, m \in StateOf, y \in Whys :
             job' = [op |-> o, pc |-> p, cand |-> c, mem |-> m, why |-> y]
    <3>1. CASE StageAny
      BY <1>1, <3>1, StateWrites DEF StageAny, Stage, Begins, Ops, Pcs, Pipeline
    <3>2. CASE StartPending
      BY <1>1, <3>2, StateWrites DEF StartPending, Begins, Ops, Pcs, Pipeline
    <3>3. CASE Recover
      BY <1>1, <3>3, StateWrites DEF Recover, Begins, Ops, Pcs, Pipeline
    <3>4. CASE PowerLoss
      BY <1>1, <3>4, StateWrites DEF PowerLoss, Begins, Ops, Pcs, Pipeline
    <3> QED BY <1>7, <3>1, <3>2, <3>3, <3>4
  <2> QED BY <2>1 DEF JobOf
<1>8. CASE Quiesce \/ Switched \/ Probing \/ RollbackBaseline \/ RollbackRestore \/ StageRole
  <2>1. \/ job' = Resting
        \/ job # Resting /\ \E p \in Pcs, m \in StateOf, y \in Whys :
             job' \in {[job EXCEPT !.pc = p], [job EXCEPT !.pc = p, !.mem = m], [job EXCEPT !.pc = p, !.why = y]}
    <3>1. CASE Quiesce
      BY <1>1, <1>2, <3>1, StateWrites DEF Quiesce, Goto, Ends, OnPath, Pcs, Pipeline
    <3>2. CASE Switched
      BY <1>1, <1>2, <3>2, StateWrites DEF Switched, Records, Goto, Ends, OnPath, Pcs, Pipeline
    <3>3. CASE Probing
      BY <1>1, <1>2, <3>3, StateWrites DEF Probing, Records, Goto, Ends, OnPath, Pcs, Pipeline
    <3>4. CASE RollbackBaseline
      BY <1>1, <1>2, <3>4, StateWrites DEF RollbackBaseline, Goto, Ends, OnPath, Pcs, Pipeline
    <3>5. CASE RollbackRestore
      BY <1>1, <1>2, <3>5, StateWrites DEF RollbackRestore, Goto, Ends, OnPath, Pcs, Pipeline
    <3>6. CASE StageRole
      BY <1>1, <1>2, <3>6, StateWrites DEF StageRole, Goto, Ends, OnPath, Pcs, Pipeline
    <3> QED BY <1>8, <3>1, <3>2, <3>3, <3>4, <3>5, <3>6
  <2> QED BY <1>2, <2>1 DEF JobOf
<1>9. CASE EnableUnits
  <2>1. job' = [job EXCEPT !.pc = "commit", !.mem = [job.mem EXCEPT !.previous = job.mem.active,
                                    !.active = job.cand, !.pending = NoRel, !.tx = NoTx]]
    BY <1>9 DEF EnableUnits
  <2>2. job.mem \in StateOf /\ job.cand \in Rels /\ job.mem.active \in Rels /\ job \in JobOf
    BY <1>9, <1>1, <1>2 DEF EnableUnits, StateOf
  <2> QED BY <2>1, <2>2, StateWrites DEF JobOf, Pcs
<1>10. CASE RollbackVerify
  <2>1. ASSUME job' # Resting
        PROVE  job' = [job EXCEPT !.pc = "settle", !.mem = [job.mem EXCEPT !.tx = NoTx, !.failed = job.mem.pending]]
    BY <1>10, <2>1 DEF RollbackVerify, Ends
  <2>2. job.mem \in StateOf /\ job.mem.pending \in Rels /\ job \in JobOf
    BY <1>10, <1>1, <1>2 DEF RollbackVerify, StateOf
  <2> QED BY <2>1, <2>2, StateWrites DEF JobOf, Pcs
<1>11. CASE ManualRollback
  <2>1. job' = [op |-> "start", pc |-> "quiesce", cand |-> [disk EXCEPT !.pending = disk.previous].pending,
                mem |-> [disk EXCEPT !.pending = disk.previous], why |-> "rollback"]
    BY <1>11 DEF ManualRollback
  <2>2. [disk EXCEPT !.pending = disk.previous] \in StateOf
    BY <1>1, StateWrites
  <2>3. [disk EXCEPT !.pending = disk.previous].pending \in Rels
    BY <2>2 DEF StateOf
  <2> QED BY <1>1, <2>1, <2>2, <2>3 DEF JobOf, Pcs, Ops
<1> QED BY <1>3, <1>4, <1>5, <1>6, <1>7, <1>8, <1>9, <1>10, <1>11 DEF RelNext

\* Which actions leave a variable alone.

LEMMA DiskFrame ==
  ASSUME RelNext, ~StageExtract, ~StageRecord, ~Quiesce, ~Switched, ~Probing, ~Commit,
         ~RecordFailure, ~RollbackVerify, ~RollbackSettle, ~ManualRollback
  PROVE  disk' = disk
<1>1. CASE StageAny \/ StageRename \/ StageBeside \/ StageRender \/ StageRole \/ StartActive
          \/ StartPending
  BY <1>1 DEF StageAny, Stage, StageRename, StageBeside, StageRender, StageRole, StartActive,
     StartPending
<1>2. CASE StopUnits \/ backup_unit_files \/ install_unit_file \/ install_host_config
          \/ StartUnits \/ Health \/ EnableUnits
  BY <1>2 DEF StopUnits, backup_unit_files, install_unit_file, install_host_config, StartUnits,
     Health, EnableUnits
<1>3. CASE CurrentLink \/ apply_retention \/ RollbackBaseline \/ RollbackRestore \/ RollbackStart
          \/ RecoveryTimesOut \/ Recover
  BY <1>3 DEF CurrentLink, apply_retention, RollbackBaseline, RollbackRestore, RollbackStart,
     RecoveryTimesOut, Recover
<1>4. CASE RecoverRestore \/ RecoverResume \/ RecoverRepair \/ RecoverRefuse \/ Killed
          \/ PowerLoss
  BY <1>4 DEF RecoverRestore, RecoverResume, RecoverRepair, RecoverRefuse, Killed, PowerLoss
<1> QED BY <1>1, <1>2, <1>3, <1>4 DEF RelNext

LEMMA HostRoleFrame ==
  ASSUME RelNext, ~StageRole, ~StageRecord
  PROVE  hostRole' = hostRole
<1>1. CASE StageAny \/ StageExtract \/ StageRename \/ StageBeside \/ StageRender \/ StartActive
          \/ StartPending
  BY <1>1 DEF StageAny, Stage, StageExtract, StageRename, StageBeside, StageRender, StartActive,
     StartPending
<1>2. CASE Quiesce \/ StopUnits \/ backup_unit_files \/ install_unit_file \/ install_host_config
          \/ Switched \/ Probing
  BY <1>2 DEF Quiesce, StopUnits, backup_unit_files, install_unit_file, install_host_config,
     Switched, Records, Probing, Records
<1>3. CASE StartUnits \/ Health \/ EnableUnits \/ Commit \/ CurrentLink \/ apply_retention
          \/ RecordFailure
  BY <1>3 DEF StartUnits, Health, EnableUnits, Commit, CurrentLink, apply_retention, RecordFailure
<1>4. CASE RollbackBaseline \/ RollbackRestore \/ RollbackStart \/ RecoveryTimesOut
          \/ RollbackVerify \/ RollbackSettle \/ ManualRollback
  BY <1>4 DEF RollbackBaseline, RollbackRestore, RollbackStart, RecoveryTimesOut, RollbackVerify,
     RollbackSettle, ManualRollback
<1>5. CASE Recover \/ RecoverRestore \/ RecoverResume \/ RecoverRepair \/ RecoverRefuse \/ Killed
          \/ PowerLoss
  BY <1>5 DEF Recover, RecoverRestore, RecoverResume, RecoverRepair, RecoverRefuse, Killed,
     PowerLoss
<1> QED BY <1>1, <1>2, <1>3, <1>4, <1>5 DEF RelNext

LEMMA DirsFrame ==
  ASSUME RelNext, ~StageExtract, ~StageRename, ~StageRender, ~StageRole, ~StageRecord,
         ~apply_retention
  PROVE  dirs' = dirs
<1>1. CASE StageAny \/ StageBeside \/ StartActive \/ StartPending \/ Quiesce \/ StopUnits
          \/ backup_unit_files
  BY <1>1 DEF StageAny, Stage, StageBeside, StartActive, StartPending, Quiesce, StopUnits,
     backup_unit_files
<1>2. CASE install_unit_file \/ install_host_config \/ Switched \/ Probing \/ StartUnits \/ Health
          \/ EnableUnits
  BY <1>2 DEF install_unit_file, install_host_config, Switched, Records, Probing, Records,
     StartUnits, Health, EnableUnits
<1>3. CASE Commit \/ CurrentLink \/ RecordFailure \/ RollbackBaseline \/ RollbackRestore
          \/ RollbackStart \/ RecoveryTimesOut
  BY <1>3 DEF Commit, CurrentLink, RecordFailure, RollbackBaseline, RollbackRestore, RollbackStart,
     RecoveryTimesOut
<1>4. CASE RollbackVerify \/ RollbackSettle \/ ManualRollback \/ Recover \/ RecoverRestore
          \/ RecoverResume \/ RecoverRepair
  BY <1>4 DEF RollbackVerify, RollbackSettle, ManualRollback, Recover, RecoverRestore,
     RecoverResume, RecoverRepair
<1>5. CASE RecoverRefuse \/ Killed \/ PowerLoss
  BY <1>5 DEF RecoverRefuse, Killed, PowerLoss
<1> QED BY <1>1, <1>2, <1>3, <1>4, <1>5 DEF RelNext

LEMMA UnitsFrame ==
  ASSUME RelNext, ~install_unit_file, ~RollbackRestore
  PROVE  units' = units
<1>1. CASE StageAny \/ StageExtract \/ StageRecord \/ StageRename \/ StageBeside \/ StageRender
          \/ StageRole
  BY <1>1 DEF StageAny, Stage, StageExtract, StageRecord, StageRename, StageBeside, StageRender,
     StageRole
<1>2. CASE StartActive \/ StartPending \/ Quiesce \/ StopUnits \/ backup_unit_files
          \/ install_host_config \/ Switched
  BY <1>2 DEF StartActive, StartPending, Quiesce, StopUnits, backup_unit_files,
     install_host_config, Switched, Records
<1>3. CASE Probing \/ StartUnits \/ Health \/ EnableUnits \/ Commit \/ CurrentLink
          \/ apply_retention
  BY <1>3 DEF Probing, Records, StartUnits, Health, EnableUnits, Commit, CurrentLink,
     apply_retention
<1>4. CASE RecordFailure \/ RollbackBaseline \/ RollbackStart \/ RecoveryTimesOut
          \/ RollbackVerify \/ RollbackSettle \/ ManualRollback
  BY <1>4 DEF RecordFailure, RollbackBaseline, RollbackStart, RecoveryTimesOut, RollbackVerify,
     RollbackSettle, ManualRollback
<1>5. CASE Recover \/ RecoverRestore \/ RecoverResume \/ RecoverRepair \/ RecoverRefuse \/ Killed
          \/ PowerLoss
  BY <1>5 DEF Recover, RecoverRestore, RecoverResume, RecoverRepair, RecoverRefuse, Killed,
     PowerLoss
<1> QED BY <1>1, <1>2, <1>3, <1>4, <1>5 DEF RelNext

LEMMA HostFrame ==
  ASSUME RelNext, ~install_host_config, ~RollbackBaseline, ~RollbackRestore
  PROVE  host' = host
<1>1. CASE StageAny \/ StageExtract \/ StageRecord \/ StageRename \/ StageBeside \/ StageRender
          \/ StageRole
  BY <1>1 DEF StageAny, Stage, StageExtract, StageRecord, StageRename, StageBeside, StageRender,
     StageRole
<1>2. CASE StartActive \/ StartPending \/ Quiesce \/ StopUnits \/ backup_unit_files
          \/ install_unit_file \/ Switched
  BY <1>2 DEF StartActive, StartPending, Quiesce, StopUnits, backup_unit_files, install_unit_file,
     Switched, Records
<1>3. CASE Probing \/ StartUnits \/ Health \/ EnableUnits \/ Commit \/ CurrentLink
          \/ apply_retention
  BY <1>3 DEF Probing, Records, StartUnits, Health, EnableUnits, Commit, CurrentLink,
     apply_retention
<1>4. CASE RecordFailure \/ RollbackStart \/ RecoveryTimesOut \/ RollbackVerify \/ RollbackSettle
          \/ ManualRollback \/ Recover
  BY <1>4 DEF RecordFailure, RollbackStart, RecoveryTimesOut, RollbackVerify, RollbackSettle,
     ManualRollback, Recover
<1>5. CASE RecoverRestore \/ RecoverResume \/ RecoverRepair \/ RecoverRefuse \/ Killed
          \/ PowerLoss
  BY <1>5 DEF RecoverRestore, RecoverResume, RecoverRepair, RecoverRefuse, Killed, PowerLoss
<1> QED BY <1>1, <1>2, <1>3, <1>4, <1>5 DEF RelNext

LEMMA LinkFrame ==
  ASSUME RelNext, ~CurrentLink, ~RollbackBaseline, ~RollbackSettle, ~RecoverResume, ~RecoverRepair
  PROVE  link' = link
<1>1. CASE StageAny \/ StageExtract \/ StageRecord \/ StageRename \/ StageBeside \/ StageRender
          \/ StageRole
  BY <1>1 DEF StageAny, Stage, StageExtract, StageRecord, StageRename, StageBeside, StageRender,
     StageRole
<1>2. CASE StartActive \/ StartPending \/ Quiesce \/ StopUnits \/ backup_unit_files
          \/ install_unit_file \/ install_host_config
  BY <1>2 DEF StartActive, StartPending, Quiesce, StopUnits, backup_unit_files, install_unit_file,
     install_host_config
<1>3. CASE Switched \/ Probing \/ StartUnits \/ Health \/ EnableUnits \/ Commit \/ apply_retention
  BY <1>3 DEF Switched, Records, Probing, Records, StartUnits, Health, EnableUnits, Commit,
     apply_retention
<1>4. CASE RecordFailure \/ RollbackRestore \/ RollbackStart \/ RecoveryTimesOut \/ RollbackVerify
          \/ ManualRollback \/ Recover
  BY <1>4 DEF RecordFailure, RollbackRestore, RollbackStart, RecoveryTimesOut, RollbackVerify,
     ManualRollback, Recover
<1>5. CASE RecoverRestore \/ RecoverRefuse \/ Killed \/ PowerLoss
  BY <1>5 DEF RecoverRestore, RecoverRefuse, Killed, PowerLoss
<1> QED BY <1>1, <1>2, <1>3, <1>4, <1>5 DEF RelNext

LEMMA BackupFrame ==
  ASSUME RelNext, ~Quiesce, ~backup_unit_files, ~install_host_config
  PROVE  backup' = backup
<1>1. CASE StageAny \/ StageExtract \/ StageRecord \/ StageRename \/ StageBeside \/ StageRender
          \/ StageRole
  BY <1>1 DEF StageAny, Stage, StageExtract, StageRecord, StageRename, StageBeside, StageRender,
     StageRole
<1>2. CASE StartActive \/ StartPending \/ StopUnits \/ install_unit_file \/ Switched \/ Probing
          \/ StartUnits
  BY <1>2 DEF StartActive, StartPending, StopUnits, install_unit_file, Switched, Records, Probing,
     Records, StartUnits
<1>3. CASE Health \/ EnableUnits \/ Commit \/ CurrentLink \/ apply_retention \/ RecordFailure
          \/ RollbackBaseline
  BY <1>3 DEF Health, EnableUnits, Commit, CurrentLink, apply_retention, RecordFailure,
     RollbackBaseline
<1>4. CASE RollbackRestore \/ RollbackStart \/ RecoveryTimesOut \/ RollbackVerify
          \/ RollbackSettle \/ ManualRollback \/ Recover
  BY <1>4 DEF RollbackRestore, RollbackStart, RecoveryTimesOut, RollbackVerify, RollbackSettle,
     ManualRollback, Recover
<1>5. CASE RecoverRestore \/ RecoverResume \/ RecoverRepair \/ RecoverRefuse \/ Killed
          \/ PowerLoss
  BY <1>5 DEF RecoverRestore, RecoverResume, RecoverRepair, RecoverRefuse, Killed, PowerLoss
<1> QED BY <1>1, <1>2, <1>3, <1>4, <1>5 DEF RelNext

LEMMA UpFrame ==
  ASSUME RelNext, ~StageExtract, ~StartActive, ~StopUnits, ~StartUnits, ~RollbackBaseline,
         ~RollbackRestore, ~RollbackStart, ~RecoveryTimesOut, ~RecoverResume, ~RecoverRepair,
         ~RecoverRefuse, ~PowerLoss
  PROVE  up' = up
<1>1. CASE StageAny \/ StageRecord \/ StageRename \/ StageBeside \/ StageRender \/ StageRole
          \/ StartPending
  BY <1>1 DEF StageAny, Stage, StageRecord, StageRename, StageBeside, StageRender, StageRole,
     StartPending
<1>2. CASE Quiesce \/ backup_unit_files \/ install_unit_file \/ install_host_config \/ Switched
          \/ Probing \/ Health
  BY <1>2 DEF Quiesce, backup_unit_files, install_unit_file, install_host_config, Switched,
     Records, Probing, Records, Health
<1>3. CASE EnableUnits \/ Commit \/ CurrentLink \/ apply_retention \/ RecordFailure
          \/ RollbackVerify \/ RollbackSettle
  BY <1>3 DEF EnableUnits, Commit, CurrentLink, apply_retention, RecordFailure, RollbackVerify,
     RollbackSettle
<1>4. CASE ManualRollback \/ Recover \/ RecoverRestore \/ Killed
  BY <1>4 DEF ManualRollback, Recover, RecoverRestore, Killed
<1> QED BY <1>1, <1>2, <1>3, <1>4 DEF RelNext

LEMMA EnabledFrame ==
  ASSUME RelNext, ~EnableUnits, ~RollbackBaseline, ~RollbackRestore, ~RecoverResume,
         ~RecoverRepair, ~RecoverRefuse
  PROVE  enabled' = enabled
<1>1. CASE StageAny \/ StageExtract \/ StageRecord \/ StageRename \/ StageBeside \/ StageRender
          \/ StageRole
  BY <1>1 DEF StageAny, Stage, StageExtract, StageRecord, StageRename, StageBeside, StageRender,
     StageRole
<1>2. CASE StartActive \/ StartPending \/ Quiesce \/ StopUnits \/ backup_unit_files
          \/ install_unit_file \/ install_host_config
  BY <1>2 DEF StartActive, StartPending, Quiesce, StopUnits, backup_unit_files, install_unit_file,
     install_host_config
<1>3. CASE Switched \/ Probing \/ StartUnits \/ Health \/ Commit \/ CurrentLink \/ apply_retention
  BY <1>3 DEF Switched, Records, Probing, Records, StartUnits, Health, Commit, CurrentLink,
     apply_retention
<1>4. CASE RecordFailure \/ RollbackStart \/ RecoveryTimesOut \/ RollbackVerify \/ RollbackSettle
          \/ ManualRollback \/ Recover
  BY <1>4 DEF RecordFailure, RollbackStart, RecoveryTimesOut, RollbackVerify, RollbackSettle,
     ManualRollback, Recover
<1>5. CASE RecoverRestore \/ Killed \/ PowerLoss
  BY <1>5 DEF RecoverRestore, Killed, PowerLoss
<1> QED BY <1>1, <1>2, <1>3, <1>4, <1>5 DEF RelNext

LEMMA TypesNow ==
  ASSUME RelTypes
  PROVE  /\ disk \in StateOf /\ hostRole \in Whys /\ dirs \in SUBSET (Rels \ {NoRel}) /\ enabled \in SUBSET UnitNames
         /\ units \in [UnitNames -> Rels] /\ up \in [UnitNames -> Rels] /\ host \in Rels /\ link \in Rels
         /\ backup \in [units : [UnitNames -> Rels], host : Rels] /\ relFuel \in FuelOf
         /\ job \in JobOf \cup {Resting} /\ (job.op = "stage" => job.cand # NoRel)
         /\ job # Resting => job.op \in Ops /\ job.pc \in Pcs /\ job.cand \in Rels /\ job.mem \in StateOf /\ job.why \in Whys
         /\ \A s \in {disk} \cup (IF job = Resting THEN {} ELSE {job.mem}) :
              s.active \in Rels /\ s.previous \in Rels /\ s.pending \in Rels /\ s.failed \in Rels /\ s.legacy \in BOOLEAN
<1>1. /\ disk \in StateOf /\ hostRole \in Whys /\ dirs \in SUBSET (Rels \ {NoRel}) /\ enabled \in SUBSET UnitNames
      /\ units \in [UnitNames -> Rels] /\ up \in [UnitNames -> Rels] /\ host \in Rels /\ link \in Rels
      /\ backup \in [units : [UnitNames -> Rels], host : Rels] /\ relFuel \in FuelOf
      /\ job \in JobOf \cup {Resting} /\ (job.op = "stage" => job.cand # NoRel)
  BY DEF RelTypes, RelTypeOK, StateOf, TxOf
<1>2. ASSUME job # Resting
      PROVE  job.op \in Ops /\ job.pc \in Pcs /\ job.cand \in Rels /\ job.mem \in StateOf /\ job.why \in Whys
  BY <1>1, <1>2 DEF JobOf
<1>3. ASSUME NEW s \in StateOf
      PROVE  s.active \in Rels /\ s.previous \in Rels /\ s.pending \in Rels /\ s.failed \in Rels /\ s.legacy \in BOOLEAN
  BY DEF StateOf
<1> QED BY <1>1, <1>2, <1>3

\* What a step leaves in the record, when it writes it.
LEMMA TxWrites ==
  ASSUME NEW t \in TxOf
  PROVE  /\ NoTx \in TxOf /\ NoTx.phase = "none" /\ [phase |-> "staged", migration |-> TRUE] \in TxOf
         /\ [phase |-> "staged", migration |-> TRUE].phase = "staged" /\ [phase |-> "staged", migration |-> TRUE] # NoTx
         /\ \A p \in OnPath \cup {"failed"} :
              [t EXCEPT !.phase = p] \in TxOf /\ [t EXCEPT !.phase = p].phase = p /\ [t EXCEPT !.phase = p] # NoTx
<1>1. /\ NoTx \in TxOf /\ NoTx.phase = "none" /\ [phase |-> "staged", migration |-> TRUE] \in TxOf
      /\ [phase |-> "staged", migration |-> TRUE].phase = "staged"
  BY DEF TxOf, NoTx
<1>2. ASSUME NEW p \in OnPath \cup {"failed"}
      PROVE  [t EXCEPT !.phase = p] \in TxOf /\ [t EXCEPT !.phase = p].phase = p /\ p # "none"
  BY DEF TxOf, OnPath
<1> QED BY <1>1, <1>2

LEMMA StageExtractWrites ==
  ASSUME RelTypes, StageExtract, disk' # disk
  PROVE  /\ disk' \in StateOf /\ disk'.tx = disk.tx /\ disk'.pending = disk.pending /\ disk'.legacy = disk.legacy
         /\ disk'.active = (IF disk.active = job.cand THEN NoRel ELSE disk.active)
         /\ disk'.previous = (IF disk.previous = job.cand THEN NoRel ELSE disk.previous)
<1>1. disk' = [disk EXCEPT !.active = IF disk.active = job.cand THEN NoRel ELSE disk.active,
                           !.previous = IF disk.previous = job.cand THEN NoRel ELSE disk.previous]
  BY DEF StageExtract
<1>2. disk \in StateOf /\ NoRel \in Rels
  BY TypesNow, RelNames
<1> QED BY <1>1, <1>2 DEF StateOf

LEMMA StageExtractForgets ==
  ASSUME RelTypes, StageExtract, ~relFuel'.dropped
  PROVE  /\ disk'.tx = disk.tx /\ disk'.pending = disk.pending /\ disk'.legacy = disk.legacy /\ ~disk.legacy
         /\ disk'.active \in {disk.active, NoRel} \ {job.cand} /\ disk'.previous \in {disk.previous, NoRel} \ {job.cand}
<1>1. disk \in StateOf /\ NoRel \in Rels /\ job.cand # NoRel /\ ~disk.legacy
  BY TypesNow, RelNames DEF StageExtract
<1>2. ASSUME disk' = disk
      PROVE  job.cand \notin {disk.active, disk.previous}
  <2>1. SUFFICES ASSUME job.cand \in {disk.active, disk.previous} PROVE FALSE
    OBVIOUS
  <2>2. CASE relFuel' = relFuel
    <3>1. disk' = [disk EXCEPT !.active = IF disk.active = job.cand THEN NoRel ELSE disk.active,
                               !.previous = IF disk.previous = job.cand THEN NoRel ELSE disk.previous]
      <4>1. ASSUME disk' # [disk EXCEPT !.active = IF disk.active = job.cand THEN NoRel ELSE disk.active,
                               !.previous = IF disk.previous = job.cand THEN NoRel ELSE disk.previous]
            PROVE  relFuel' = [relFuel EXCEPT !.faults = relFuel.faults - 1, !.dropped = TRUE]
        BY <2>1, <4>1 DEF StageExtract
      <4>2. ASSUME relFuel' = [relFuel EXCEPT !.faults = relFuel.faults - 1, !.dropped = TRUE] PROVE FALSE
        BY <4>2, TypesNow DEF FuelOf
      <4> QED BY <4>1, <4>2
    <3> QED BY <1>1, <1>2, <2>1, <3>1 DEF StateOf
  <2>3. CASE relFuel' # relFuel
    <3>1. relFuel' = [relFuel EXCEPT !.faults = relFuel.faults - 1, !.dropped = TRUE]
      BY <2>3 DEF StageExtract
    <3> QED BY <3>1, TypesNow DEF FuelOf
  <2> QED BY <2>2, <2>3
<1>3. CASE disk' = disk
  BY <1>1, <1>2, <1>3
<1>4. CASE disk' # disk
  BY <1>1, <1>4, StageExtractWrites
<1> QED BY <1>3, <1>4

LEMMA StageRecordWrites ==
  ASSUME RelTypes, StageRecord, disk' # disk
  PROVE  /\ disk' \in StateOf /\ disk'.active = disk.active /\ disk'.previous = disk.previous /\ disk'.legacy = disk.legacy
         /\ disk'.pending = job.cand
         /\ IF disk.legacy THEN disk'.tx.phase = "staged" /\ disk'.tx # NoTx ELSE disk'.tx = NoTx
<1> DEFINE t == IF disk.legacy THEN [phase |-> "staged", migration |-> TRUE] ELSE NoTx
<1>1. disk' = [disk EXCEPT !.pending = job.cand, !.tx = t]
  BY DEF StageRecord
<1>4. t \in TxOf /\ IF disk.legacy THEN t.phase = "staged" /\ t # NoTx ELSE t = NoTx
  <2>1. NoTx \in TxOf
    BY DEF TxOf, NoTx
  <2> QED BY <2>1, TxWrites
<1> HIDE DEF t
<1>2. disk \in StateOf /\ job.cand \in Rels
  BY TypesNow, RelNames DEF StageRecord
<1>3. /\ disk' \in StateOf /\ disk'.active = disk.active /\ disk'.previous = disk.previous /\ disk'.legacy = disk.legacy
      /\ disk'.pending = job.cand /\ disk'.tx = t
  BY <1>1, <1>2, <1>4 DEF StateOf
<1> QED BY <1>3, <1>4

LEMMA QuiesceWrites ==
  ASSUME RelTypes, Quiesce, disk' # disk \/ job' # Resting
  PROVE  /\ validate_transition(current_deployment_state(job.mem), "quiesced")
         /\ job' = [job EXCEPT !.pc = "stop", !.mem = disk'] /\ job # Resting
         /\ backup' = (IF job.mem.tx = NoTx THEN NoBackup ELSE backup)
         /\ disk' \in StateOf /\ disk'.active = job.mem.active /\ disk'.previous = job.mem.previous
         /\ disk'.legacy = job.mem.legacy /\ disk'.pending = job.mem.pending
         /\ disk'.tx.phase = "quiesced" /\ disk'.tx # NoTx /\ disk'.tx = [job.mem.tx EXCEPT !.phase = "quiesced"]
<1>1. /\ validate_transition(current_deployment_state(job.mem), "quiesced")
      /\ disk' = [job.mem EXCEPT !.tx = [job.mem.tx EXCEPT !.phase = "quiesced"]]
      /\ job' = [job EXCEPT !.pc = "stop", !.mem = disk']
      /\ backup' = (IF job.mem.tx = NoTx THEN NoBackup ELSE backup)
  BY DEF Quiesce, Ends
<1>2. job # Resting /\ job.mem \in StateOf
  BY TypesNow, RelNames DEF Quiesce
<1>3. job.mem.tx \in TxOf
  BY <1>2 DEF StateOf
<1>4. PICK t \in TxOf : t = [job.mem.tx EXCEPT !.phase = "quiesced"] /\ t.phase = "quiesced" /\ t # NoTx
  BY <1>3, TxWrites DEF OnPath
<1>5. disk' = [job.mem EXCEPT !.tx = t]
  BY <1>1, <1>4
<1>6. /\ disk' \in StateOf /\ disk'.active = job.mem.active /\ disk'.previous = job.mem.previous
      /\ disk'.legacy = job.mem.legacy /\ disk'.pending = job.mem.pending /\ disk'.tx = t
  BY <1>2, <1>5 DEF StateOf
<1> QED BY <1>1, <1>2, <1>4, <1>6

LEMMA RecordsWrites ==
  ASSUME RelTypes, NEW pc, NEW phase \in OnPath, NEW next, Records(pc, phase, next),
         disk' # disk \/ job' # [job EXCEPT !.pc = "recordFailure"]
  PROVE  /\ job' = [job EXCEPT !.pc = next, !.mem = disk'] /\ job # Resting
         /\ disk' \in StateOf /\ disk'.active = job.mem.active /\ disk'.previous = job.mem.previous
         /\ disk'.legacy = job.mem.legacy /\ disk'.pending = job.mem.pending
         /\ disk'.tx.phase = phase /\ disk'.tx # NoTx
<1>1. /\ disk' = [job.mem EXCEPT !.tx = [job.mem.tx EXCEPT !.phase = phase]]
      /\ job' = [job EXCEPT !.pc = next, !.mem = disk']
  BY DEF Records
<1>2. job # Resting /\ job.mem \in StateOf
  BY TypesNow, RelNames DEF Records
<1>3. job.mem.tx \in TxOf
  BY <1>2 DEF StateOf
<1>4. PICK t \in TxOf : t = [job.mem.tx EXCEPT !.phase = phase] /\ t.phase = phase /\ t # NoTx
  BY <1>3, TxWrites
<1>5. disk' = [job.mem EXCEPT !.tx = t]
  BY <1>1, <1>4
<1>6. /\ disk' \in StateOf /\ disk'.active = job.mem.active /\ disk'.previous = job.mem.previous
      /\ disk'.legacy = job.mem.legacy /\ disk'.pending = job.mem.pending /\ disk'.tx = t
  BY <1>2, <1>5 DEF StateOf
<1> QED BY <1>1, <1>2, <1>4, <1>6

LEMMA RecordFailureWrites ==
  ASSUME RelTypes, RecordFailure, disk' # disk
  PROVE  /\ disk' \in StateOf /\ disk'.active = job.mem.active /\ disk'.previous = job.mem.previous
         /\ disk'.legacy = job.mem.legacy /\ disk'.pending = job.mem.pending /\ disk'.tx = job.mem.tx
<1>1. disk' = [job.mem EXCEPT !.failed = job.mem.pending]
  BY DEF RecordFailure
<1>2. job.mem \in StateOf
  BY TypesNow, RelNames DEF RecordFailure
<1> QED BY <1>1, <1>2 DEF StateOf

LEMMA RollbackVerifyWrites ==
  ASSUME RelTypes, RollbackVerify, disk' # disk
  PROVE  /\ job' = Resting /\ answer' = "recovery_required"
         /\ disk' \in StateOf /\ disk'.active = job.mem.active /\ disk'.previous = job.mem.previous
         /\ disk'.legacy = job.mem.legacy /\ disk'.pending = job.mem.pending
         /\ IF job.mem.tx = NoTx THEN disk'.tx = NoTx ELSE disk'.tx.phase = "failed" /\ disk'.tx # NoTx
<1>1. /\ disk' = [job.mem EXCEPT !.failed = job.mem.active,
                    !.tx = IF job.mem.tx = NoTx THEN job.mem.tx ELSE [job.mem.tx EXCEPT !.phase = "failed"]]
      /\ job' = Resting /\ answer' = "recovery_required"
  BY DEF RollbackVerify, Ends
<1>2. job # Resting /\ job.mem \in StateOf
  BY TypesNow, RelNames DEF RollbackVerify
<1>3. job.mem.tx \in TxOf /\ job.mem.active \in Rels
  BY <1>2 DEF StateOf
<1> DEFINE t == IF job.mem.tx = NoTx THEN job.mem.tx ELSE [job.mem.tx EXCEPT !.phase = "failed"]
<1>4. t \in TxOf /\ IF job.mem.tx = NoTx THEN t = NoTx ELSE t.phase = "failed" /\ t # NoTx
  BY <1>3, TxWrites
<1>5. disk' = [job.mem EXCEPT !.failed = job.mem.active, !.tx = t]
  BY <1>1
<1> HIDE DEF t
<1>6. /\ disk' \in StateOf /\ disk'.active = job.mem.active /\ disk'.previous = job.mem.previous
      /\ disk'.legacy = job.mem.legacy /\ disk'.pending = job.mem.pending /\ disk'.tx = t
  BY <1>2, <1>3, <1>4, <1>5 DEF StateOf
<1> QED BY <1>1, <1>4, <1>6

LEMMA ManualRollbackWrites ==
  ASSUME RelTypes, ManualRollback
  PROVE  /\ job'.op = "start" /\ job'.pc = "quiesce" /\ job'.cand = disk.previous /\ job'.mem = disk'
         /\ disk' \in StateOf /\ disk'.active = disk.active /\ disk'.previous = disk.previous
         /\ disk'.legacy = disk.legacy /\ disk'.pending = disk.previous /\ disk'.tx = disk.tx
<1>1. /\ disk' = [disk EXCEPT !.pending = disk.previous]
      /\ job' = [op |-> "start", pc |-> "quiesce", cand |-> [disk EXCEPT !.pending = disk.previous].pending,
                 mem |-> [disk EXCEPT !.pending = disk.previous], why |-> "rollback"]
  BY DEF ManualRollback
<1>2. disk \in StateOf
  BY TypesNow
<1>3. /\ disk' \in StateOf /\ disk'.active = disk.active /\ disk'.previous = disk.previous
      /\ disk'.legacy = disk.legacy /\ disk'.pending = disk.previous /\ disk'.tx = disk.tx
  BY <1>1, <1>2 DEF StateOf
<1> QED BY <1>1, <1>3

LEMMA StageRecordDrops ==
  ASSUME RelTypes, StageRecord, disk' # disk, ~relFuel'.dropped
  PROVE  disk.tx = NoTx \/ disk.legacy
<1>1. PICK fails \in BOOLEAN :
         relFuel' = [relFuel EXCEPT !.faults = IF fails THEN @ - 1 ELSE @,
                                    !.dropped = @ \/ (disk.tx # NoTx /\ ~disk.legacy)]
  BY DEF StageRecord
<1> QED BY <1>1, TypesNow DEF FuelOf

\* A command keeps its kind and its candidate.
LEMMA JobMoves ==
  ASSUME RelTypes, RelNext, ~StageAny
  PROVE  job' = Resting \/ job'.op # "stage" \/ (job'.op = job.op /\ job'.cand = job.cand)
<1>1. job \in JobOf \cup {Resting}
  BY TypesNow
<1>2. Resting.op = "none"
  BY RelNames
<1>3. CASE StageExtract \/ StageRecord \/ StageRename \/ StageBeside \/ StageRender
  BY <1>3, <1>1, <1>2 DEF StageExtract, StageRecord, StageRename, StageBeside, StageRender, Goto,
     Ends, JobOf
<1>4. CASE StageRole \/ StartActive \/ Quiesce \/ StopUnits \/ backup_unit_files
  BY <1>4, <1>1, <1>2 DEF StageRole, StartActive, Quiesce, StopUnits, backup_unit_files, Goto,
     Ends, JobOf
<1>5. CASE install_unit_file \/ install_host_config \/ Switched \/ Probing \/ StartUnits
  BY <1>5, <1>1, <1>2 DEF install_unit_file, install_host_config, Switched, Records, Probing,
     Records, StartUnits, Goto, Ends, JobOf
<1>6. CASE Health \/ Commit \/ CurrentLink \/ apply_retention \/ RecordFailure
  BY <1>6, <1>1, <1>2 DEF Health, Commit, CurrentLink, apply_retention, RecordFailure, Goto, Ends,
     JobOf
<1>7. CASE RollbackBaseline
  BY <1>7, <1>1, <1>2 DEF RollbackBaseline, Goto, Ends, JobOf
<1>8. CASE RollbackRestore
  BY <1>8, <1>1, <1>2 DEF RollbackRestore, Goto, Ends, JobOf
<1>9. CASE RecoveryTimesOut
  BY <1>9, <1>1, <1>2 DEF RecoveryTimesOut, Goto, Ends, JobOf
<1>10. CASE RollbackSettle
  BY <1>10, <1>1, <1>2 DEF RollbackSettle, Goto, Ends, JobOf
<1>11. CASE RecoverRestore
  BY <1>11, <1>1, <1>2 DEF RecoverRestore, Goto, Ends, JobOf
<1>12. CASE RecoverResume
  BY <1>12, <1>1, <1>2 DEF RecoverResume, Goto, Ends, JobOf
<1>13. CASE RecoverRepair
  BY <1>13, <1>1, <1>2 DEF RecoverRepair, Goto, Ends, JobOf
<1>14. CASE RecoverRefuse
  BY <1>14, <1>1, <1>2 DEF RecoverRefuse, Goto, Ends, JobOf
<1>15. CASE Killed
  BY <1>15, <1>1, <1>2 DEF Killed, Goto, Ends, JobOf
<1>16. CASE EnableUnits
  <2>1. job' = [job EXCEPT !.pc = "commit", !.mem = [job.mem EXCEPT !.previous = job.mem.active,
                                    !.active = job.cand, !.pending = NoRel, !.tx = NoTx]]
    BY <1>16 DEF EnableUnits
  <2> QED BY <1>16, <2>1, <1>1, <1>2 DEF EnableUnits
<1>17. CASE RollbackStart
  <2>1. ASSUME job' # Resting PROVE job' = [job EXCEPT !.pc = "verify"]
    BY <1>17, <2>1 DEF RollbackStart, Goto, Ends
  <2> QED BY <1>17, <2>1, <1>1, RelNames DEF RollbackStart, JobOf
<1>18. CASE RollbackVerify
  <2>1. ASSUME job' # Resting
        PROVE  job' = [job EXCEPT !.pc = "settle", !.mem = [job.mem EXCEPT !.tx = NoTx, !.failed = job.mem.pending]]
    BY <1>18, <2>1 DEF RollbackVerify, Ends
  <2> QED BY <1>18, <2>1, <1>1, RelNames DEF RollbackVerify, JobOf
<1>19. CASE StartPending \/ Recover \/ PowerLoss \/ ManualRollback
  BY <1>19 DEF StartPending, Recover, PowerLoss, ManualRollback, Begins
<1> QED BY <1>3, <1>4, <1>5, <1>6, <1>7, <1>8, <1>9, <1>10, <1>11, <1>12, <1>13, <1>14, <1>15,
       <1>16, <1>17, <1>18, <1>19 DEF RelNext

LEMMA TypesStep ==
  ASSUME RelTypes, RelNext
  PROVE  RelTypes'
<1> USE TypesNow, RelNames
<1>1. disk' \in StateOf
  <2>1. CASE StageExtract
    BY <2>1, StageExtractWrites
  <2>2. CASE StageRecord
    BY <2>2, StageRecordWrites
  <2>3. CASE Quiesce
    BY <2>3, QuiesceWrites
  <2>4. CASE Switched
    BY <2>4, RecordsWrites DEF Switched, OnPath
  <2>5. CASE Probing
    BY <2>5, RecordsWrites DEF Probing, OnPath
  <2>6. CASE Commit
    BY <2>6 DEF Commit, OnPath
  <2>7. CASE RecordFailure
    BY <2>7, RecordFailureWrites
  <2>8. CASE RollbackVerify
    BY <2>8, RollbackVerifyWrites
  <2>9. CASE RollbackSettle
    BY <2>9 DEF RollbackSettle, OnPath
  <2>10. CASE ManualRollback
    BY <2>10, ManualRollbackWrites
  <2> QED BY <2>1, <2>2, <2>3, <2>4, <2>5, <2>6, <2>7, <2>8, <2>9, <2>10, DiskFrame
<1>2. hostRole' \in Whys
  <2>1. CASE StageRole
    BY <2>1 DEF StageRole, Whys
  <2>2. CASE StageRecord
    BY <2>2 DEF StageRecord, Whys
  <2> QED BY <2>1, <2>2, HostRoleFrame
<1>3. dirs' \in SUBSET (Rels \ {NoRel})
  <2>1. CASE StageExtract
    BY <2>1 DEF StageExtract
  <2>2. CASE StageRename
    BY <2>2 DEF StageRename
  <2>3. CASE StageRender
    BY <2>3 DEF StageRender
  <2>4. CASE StageRole
    BY <2>4 DEF StageRole
  <2>5. CASE StageRecord
    BY <2>5 DEF StageRecord
  <2>6. CASE apply_retention
    BY <2>6 DEF apply_retention
  <2> QED BY <2>1, <2>2, <2>3, <2>4, <2>5, <2>6, DirsFrame
<1>4. units' \in [UnitNames -> Rels]
  <2>1. CASE install_unit_file
    BY <2>1 DEF install_unit_file
  <2>2. CASE RollbackRestore
    BY <2>2 DEF RollbackRestore
  <2> QED BY <2>1, <2>2, UnitsFrame
<1>5. host' \in Rels
  <2>1. CASE install_host_config
    BY <2>1 DEF install_host_config
  <2>2. CASE RollbackBaseline
    BY <2>2 DEF RollbackBaseline
  <2>3. CASE RollbackRestore
    BY <2>3 DEF RollbackRestore
  <2> QED BY <2>1, <2>2, <2>3, HostFrame
<1>6. link' \in Rels
  <2>1. CASE CurrentLink
    BY <2>1 DEF CurrentLink
  <2>2. CASE RollbackBaseline
    BY <2>2 DEF RollbackBaseline
  <2>3. CASE RollbackSettle
    BY <2>3 DEF RollbackSettle
  <2>4. CASE RecoverResume
    BY <2>4 DEF RecoverResume, Repaired, Boots
  <2>5. CASE RecoverRepair
    BY <2>5 DEF RecoverRepair, Repaired, Boots
  <2> QED BY <2>1, <2>2, <2>3, <2>4, <2>5, LinkFrame
<1>7. backup' \in [units : [UnitNames -> Rels], host : Rels]
  <2>1. CASE Quiesce
    BY <2>1 DEF Quiesce
  <2>2. CASE backup_unit_files
    BY <2>2 DEF backup_unit_files
  <2>3. CASE install_host_config
    BY <2>3 DEF install_host_config
  <2> QED BY <2>1, <2>2, <2>3, BackupFrame
<1>8. up' \in [UnitNames -> Rels]
  <2>1. CASE StageExtract
    BY <2>1 DEF StageExtract
  <2>2. CASE StartActive
    BY <2>2 DEF StartActive
  <2>3. CASE StopUnits
    BY <2>3 DEF StopUnits
  <2>4. CASE StartUnits
    BY <2>4 DEF StartUnits
  <2>5. CASE RollbackBaseline
    BY <2>5 DEF RollbackBaseline
  <2>6. CASE RollbackRestore
    BY <2>6 DEF RollbackRestore
  <2>7. CASE RollbackStart
    BY <2>7 DEF RollbackStart
  <2>8. CASE RecoveryTimesOut
    BY <2>8 DEF RecoveryTimesOut
  <2>9. CASE RecoverResume
    BY <2>9 DEF RecoverResume, Repaired, Boots
  <2>10. CASE RecoverRepair
    BY <2>10 DEF RecoverRepair, Repaired, Boots
  <2>11. CASE RecoverRefuse
    BY <2>11 DEF RecoverRefuse, Repaired, Boots
  <2>12. CASE PowerLoss
    BY <2>12 DEF PowerLoss
  <2> QED BY <2>1, <2>2, <2>3, <2>4, <2>5, <2>6, <2>7, <2>8, <2>9, <2>10, <2>11, <2>12, UpFrame
<1>9. enabled' \in SUBSET UnitNames
  <2>1. CASE EnableUnits
    BY <2>1 DEF EnableUnits, UnitNames
  <2>2. CASE RollbackBaseline
    BY <2>2 DEF RollbackBaseline, UnitNames
  <2>3. CASE RollbackRestore
    BY <2>3 DEF RollbackRestore, UnitNames
  <2>4. CASE RecoverResume
    BY <2>4 DEF RecoverResume, Repaired, Boots, UnitNames
  <2>5. CASE RecoverRepair
    BY <2>5 DEF RecoverRepair, Repaired, Boots, UnitNames
  <2>6. CASE RecoverRefuse
    BY <2>6 DEF RecoverRefuse, Repaired, Boots, UnitNames
  <2> QED BY <2>1, <2>2, <2>3, <2>4, <2>5, <2>6, EnabledFrame
<1>10. job' \in JobOf \cup {Resting} /\ relFuel' \in FuelOf
  BY JobStep, FuelStep
<1>11. (job.op = "stage" => job.cand # NoRel)'
  <2>1. CASE StageAny
    BY <2>1 DEF StageAny, Stage, Begins
  <2>2. ASSUME ~StageAny PROVE job' = Resting \/ job'.op # "stage" \/ (job'.op = job.op /\ job'.cand = job.cand)
    BY <2>2, JobMoves
  <2> QED BY <2>1, <2>2
<1> QED BY <1>1, <1>2, <1>3, <1>4, <1>5, <1>6, <1>7, <1>8, <1>9, <1>10, <1>11 DEF RelTypes, RelTypeOK, StateOf, TxOf

LEMMA LegacyAsideStep ==
  ASSUME ReleaseInv, RelNext, RelTypes', ~relFuel'.dropped
  PROVE  LegacyAside'
<1>1. /\ RelTypes /\ relFuel'.faults <= relFuel.faults /\ ~relFuel.dropped
      /\ LegacyAside /\ TreesKept /\ UnitsKept /\ AtStage /\ AtStart /\ AtUndo /\ NoErrorNoRefusal /\ Reported
  BY FuelStep DEF ReleaseInv
<1> USE TypesNow, RelNames
<1>2. CASE StageExtract
  BY <1>1, <1>2, StageExtractForgets DEF StageExtract, Goto, Ends, Faulty, Fault, OnPath, Pipeline,
     PhaseAt, Committing, Installed, LegacyAside
<1>3. CASE StageRecord
  BY <1>1, <1>3, StageRecordWrites DEF StageRecord, Goto, Ends, Faulty, Fault, OnPath, Pipeline,
     PhaseAt, Committing, Installed, LegacyAside
<1>4. CASE Quiesce
  BY <1>1, <1>4, QuiesceWrites DEF Quiesce, Goto, Ends, Faulty, Fault, OnPath, Pipeline, PhaseAt,
     Committing, Installed, LegacyAside, AtStart, validate_transition, current_deployment_state
<1>5. CASE Switched
  BY <1>1, <1>5, RecordsWrites DEF Switched, Records, Goto, Ends, Faulty, Fault, OnPath, Pipeline,
     PhaseAt, Committing, Installed, LegacyAside, AtStart
<1>6. CASE Probing
  BY <1>1, <1>6, RecordsWrites DEF Probing, Records, Goto, Ends, Faulty, Fault, OnPath, Pipeline,
     PhaseAt, Committing, Installed, LegacyAside, AtStart
<1>7. CASE Commit
  BY <1>1, <1>7 DEF Commit, Goto, Ends, Faulty, Fault, OnPath, Pipeline, PhaseAt, Committing,
     Installed, LegacyAside, AtStart
<1>8. CASE RecordFailure
  BY <1>1, <1>8, RecordFailureWrites DEF RecordFailure, Goto, Ends, Faulty, Fault, OnPath,
     Pipeline, PhaseAt, Committing, Installed, LegacyAside, AtStart
<1>9. CASE RollbackVerify
  BY <1>1, <1>9, RollbackVerifyWrites DEF RollbackVerify, Goto, Ends, Faulty, Fault, OnPath,
     Pipeline, PhaseAt, Committing, Installed, LegacyAside, AtUndo
<1>10. CASE RollbackSettle
  BY <1>1, <1>10 DEF RollbackSettle, Goto, Ends, Faulty, Fault, OnPath, Pipeline, PhaseAt,
     Committing, Installed, LegacyAside, AtUndo
<1>11. CASE ManualRollback
  BY <1>1, <1>11, ManualRollbackWrites DEF ManualRollback, Goto, Ends, Faulty, Fault, OnPath,
     Pipeline, PhaseAt, Committing, Installed, LegacyAside
<1>12. CASE UNCHANGED disk
  BY <1>1, <1>12 DEF LegacyAside, Installed
<1> QED BY <1>2, <1>3, <1>4, <1>5, <1>6, <1>7, <1>8, <1>9, <1>10, <1>11, <1>12, DiskFrame

LEMMA TreesKeptStep ==
  ASSUME ReleaseInv, RelNext, RelTypes', ~relFuel'.dropped
  PROVE  TreesKept'
<1>1. /\ RelTypes /\ relFuel'.faults <= relFuel.faults /\ ~relFuel.dropped
      /\ LegacyAside /\ TreesKept /\ UnitsKept /\ AtStage /\ AtStart /\ AtUndo /\ NoErrorNoRefusal /\ Reported
  BY FuelStep DEF ReleaseInv
<1> USE TypesNow, RelNames
<1>2. CASE StageExtract
  BY <1>1, <1>2, StageExtractForgets DEF StageExtract, Goto, Ends, Faulty, Fault, OnPath, Pipeline,
     PhaseAt, Committing, Installed, TreesKept
<1>3. CASE StageRecord
  BY <1>1, <1>3, StageRecordWrites DEF StageRecord, Goto, Ends, Faulty, Fault, OnPath, Pipeline,
     PhaseAt, Committing, Installed, TreesKept, AtStage
<1>4. CASE StageRename
  BY <1>1, <1>4 DEF StageRename, Goto, Ends, Faulty, Fault, OnPath, Pipeline, PhaseAt, Committing,
     Installed, TreesKept, AtStage
<1>5. CASE StageRender
  BY <1>1, <1>5 DEF StageRender, Goto, Ends, Faulty, Fault, OnPath, Pipeline, PhaseAt, Committing,
     Installed, TreesKept, AtStage
<1>6. CASE StageRole
  BY <1>1, <1>6 DEF StageRole, Goto, Ends, Faulty, Fault, OnPath, Pipeline, PhaseAt, Committing,
     Installed, TreesKept, AtStage
<1>7. CASE Quiesce
  BY <1>1, <1>7, QuiesceWrites DEF Quiesce, Goto, Ends, Faulty, Fault, OnPath, Pipeline, PhaseAt,
     Committing, Installed, TreesKept, AtStart
<1>8. CASE Switched
  BY <1>1, <1>8, RecordsWrites DEF Switched, Records, Goto, Ends, Faulty, Fault, OnPath, Pipeline,
     PhaseAt, Committing, Installed, TreesKept, AtStart
<1>9. CASE Probing
  BY <1>1, <1>9, RecordsWrites DEF Probing, Records, Goto, Ends, Faulty, Fault, OnPath, Pipeline,
     PhaseAt, Committing, Installed, TreesKept, AtStart
<1>10. CASE Commit
  BY <1>1, <1>10 DEF Commit, Goto, Ends, Faulty, Fault, OnPath, Pipeline, PhaseAt, Committing,
     Installed, TreesKept, AtStart
<1>11. CASE apply_retention
  BY <1>1, <1>11 DEF apply_retention, Goto, Ends, Faulty, Fault, OnPath, Pipeline, PhaseAt,
     Committing, Installed, TreesKept, AtStart, Referenced
<1>12. CASE RecordFailure
  BY <1>1, <1>12, RecordFailureWrites DEF RecordFailure, Goto, Ends, Faulty, Fault, OnPath,
     Pipeline, PhaseAt, Committing, Installed, TreesKept, AtStart
<1>13. CASE RollbackVerify
  BY <1>1, <1>13, RollbackVerifyWrites DEF RollbackVerify, Goto, Ends, Faulty, Fault, OnPath,
     Pipeline, PhaseAt, Committing, Installed, TreesKept, AtUndo
<1>14. CASE RollbackSettle
  BY <1>1, <1>14 DEF RollbackSettle, Goto, Ends, Faulty, Fault, OnPath, Pipeline, PhaseAt,
     Committing, Installed, TreesKept, AtUndo
<1>15. CASE ManualRollback
  BY <1>1, <1>15, ManualRollbackWrites DEF ManualRollback, Goto, Ends, Faulty, Fault, OnPath,
     Pipeline, PhaseAt, Committing, Installed, TreesKept
<1>16. CASE UNCHANGED disk /\ UNCHANGED dirs
  BY <1>1, <1>16 DEF TreesKept, Installed
<1> QED BY <1>2, <1>3, <1>4, <1>5, <1>6, <1>7, <1>8, <1>9, <1>10, <1>11, <1>12, <1>13, <1>14,
       <1>15, <1>16, DiskFrame, DirsFrame

LEMMA UnitsKeptStep ==
  ASSUME ReleaseInv, RelNext, RelTypes', ~relFuel'.dropped
  PROVE  UnitsKept'
<1>1. /\ RelTypes /\ relFuel'.faults <= relFuel.faults /\ ~relFuel.dropped
      /\ LegacyAside /\ TreesKept /\ UnitsKept /\ AtStage /\ AtStart /\ AtUndo /\ NoErrorNoRefusal /\ Reported
  BY FuelStep DEF ReleaseInv
<1> USE TypesNow, RelNames
<1>2. CASE StageExtract
  BY <1>1, <1>2, StageExtractForgets DEF StageExtract, Goto, Ends, Faulty, Fault, OnPath, Pipeline,
     PhaseAt, Committing, Installed, UnitsKept
<1>3. CASE StageRecord
  <2>1. CASE disk' # disk
    <3>1. disk.tx = NoTx \/ disk.legacy
      BY <1>1, <1>3, <2>1, StageRecordDrops
    <3>2. disk'.active = disk.active /\ disk.active # NoRel => disk.tx = NoTx /\ disk'.tx = NoTx
      BY <1>1, <1>3, <2>1, <3>1, StageRecordWrites DEF LegacyAside
    <3>3. UNCHANGED <<units, backup>>
      BY <1>3 DEF StageRecord
    <3> QED BY <1>1, <1>3, <2>1, <3>2, <3>3, StageRecordWrites DEF UnitsKept, Installed, OnPath
  <2>2. CASE disk' = disk
    BY <1>1, <1>3, <2>2 DEF StageRecord, UnitsKept, Installed
  <2> QED BY <2>1, <2>2
<1>4. CASE Quiesce
  <2>1. job.mem = disk /\ UNCHANGED units
    BY <1>1, <1>4 DEF AtStart, Quiesce
  <2>2. CASE disk' # disk
    <3>1. disk.tx = NoTx
      BY <1>1, <1>4, <2>1, <2>2, QuiesceWrites DEF validate_transition, current_deployment_state, LegacyAside, StateOf, TxOf
    <3>2. backup' = NoBackup /\ disk'.active = disk.active /\ disk'.tx # NoTx
      BY <1>1, <1>4, <2>1, <2>2, <3>1, QuiesceWrites
    <3>3. \A u \in UnitNames : backup'.units[u] = NoRel
      BY <3>2 DEF NoBackup, Nothing
    <3> QED BY <1>1, <2>1, <3>1, <3>2, <3>3 DEF UnitsKept, Installed
  <2>3. CASE disk' = disk
    <3>1. UNCHANGED backup
      <4>1. \/ disk' = [job.mem EXCEPT !.tx = [job.mem.tx EXCEPT !.phase = "quiesced"]]
            \/ UNCHANGED backup
        BY <1>4 DEF Quiesce
      <4>2. ASSUME backup' # backup PROVE disk.tx = NoTx /\ disk'.tx # NoTx
        <5>1. validate_transition(current_deployment_state(job.mem), "quiesced")
          BY <1>4, <4>2 DEF Quiesce
        <5>2. disk.tx = NoTx
          BY <1>1, <2>1, <5>1 DEF validate_transition, current_deployment_state, LegacyAside, StateOf, TxOf
        <5>3. disk.tx \in TxOf
          BY <1>1 DEF StateOf
        <5>4. [disk.tx EXCEPT !.phase = "quiesced"] # NoTx
          BY <5>3, TxWrites DEF OnPath
        <5>5. disk' = [disk EXCEPT !.tx = [disk.tx EXCEPT !.phase = "quiesced"]]
          BY <2>1, <4>1, <4>2
        <5>6. disk'.tx = [disk.tx EXCEPT !.phase = "quiesced"]
          BY <1>1, <5>5 DEF StateOf
        <5> QED BY <5>2, <5>4, <5>6
      <4> QED BY <2>3, <4>2
    <3> QED BY <1>1, <2>1, <2>3, <3>1 DEF UnitsKept, Installed
  <2> QED BY <2>2, <2>3
<1>5. CASE backup_unit_files
  BY <1>1, <1>5 DEF backup_unit_files, Goto, Ends, Faulty, Fault, OnPath, Pipeline, PhaseAt,
     Committing, Installed, UnitsKept, AtStart
<1>6. CASE install_unit_file
  BY <1>1, <1>6 DEF install_unit_file, Goto, Ends, Faulty, Fault, OnPath, Pipeline, PhaseAt,
     Committing, Installed, UnitsKept, AtStart
<1>7. CASE install_host_config
  BY <1>1, <1>7 DEF install_host_config, Goto, Ends, Faulty, Fault, OnPath, Pipeline, PhaseAt,
     Committing, Installed, UnitsKept, AtStart
<1>8. CASE Switched
  <2>1. CASE disk' # disk
    <3>1. job.mem = disk /\ disk.tx.phase \in OnPath /\ UNCHANGED <<units, backup>>
      BY <1>1, <1>8 DEF Switched, Records, AtStart, Pipeline, PhaseAt, OnPath
    <3>2. disk'.active = disk.active /\ disk'.tx # NoTx
      BY <1>1, <1>8, <2>1, <3>1, RecordsWrites DEF Switched, OnPath
    <3> QED BY <1>1, <3>1, <3>2 DEF UnitsKept, Installed
  <2>2. CASE disk' = disk
    BY <1>1, <1>8, <2>2 DEF Switched, Records, UnitsKept, Installed
  <2> QED BY <2>1, <2>2
<1>9. CASE Probing
  <2>1. CASE disk' # disk
    <3>1. job.mem = disk /\ disk.tx.phase \in OnPath /\ UNCHANGED <<units, backup>>
      BY <1>1, <1>9 DEF Probing, Records, AtStart, Pipeline, PhaseAt, OnPath
    <3>2. disk'.active = disk.active /\ disk'.tx # NoTx
      BY <1>1, <1>9, <2>1, <3>1, RecordsWrites DEF Probing, OnPath
    <3> QED BY <1>1, <3>1, <3>2 DEF UnitsKept, Installed
  <2>2. CASE disk' = disk
    BY <1>1, <1>9, <2>2 DEF Probing, Records, UnitsKept, Installed
  <2> QED BY <2>1, <2>2
<1>10. CASE Commit
  BY <1>1, <1>10 DEF Commit, Goto, Ends, Faulty, Fault, OnPath, Pipeline, PhaseAt, Committing,
     Installed, UnitsKept, AtStart
<1>11. CASE RecordFailure
  BY <1>1, <1>11, RecordFailureWrites DEF RecordFailure, Goto, Ends, Faulty, Fault, OnPath,
     Pipeline, PhaseAt, Committing, Installed, UnitsKept, AtStart
<1>12. CASE RollbackRestore
  BY <1>1, <1>12 DEF RollbackRestore, Goto, Ends, Faulty, Fault, OnPath, Pipeline, PhaseAt,
     Committing, Installed, UnitsKept, AtUndo
<1>13. CASE RollbackVerify
  BY <1>1, <1>13, RollbackVerifyWrites DEF RollbackVerify, Goto, Ends, Faulty, Fault, OnPath,
     Pipeline, PhaseAt, Committing, Installed, UnitsKept, AtUndo
<1>14. CASE RollbackSettle
  BY <1>1, <1>14 DEF RollbackSettle, Goto, Ends, Faulty, Fault, OnPath, Pipeline, PhaseAt,
     Committing, Installed, UnitsKept, AtUndo
<1>15. CASE ManualRollback
  BY <1>1, <1>15, ManualRollbackWrites DEF ManualRollback, Goto, Ends, Faulty, Fault, OnPath,
     Pipeline, PhaseAt, Committing, Installed, UnitsKept
<1>16. CASE UNCHANGED disk /\ UNCHANGED units /\ UNCHANGED backup
  BY <1>1, <1>16 DEF UnitsKept, Installed
<1> QED BY <1>2, <1>3, <1>4, <1>5, <1>6, <1>7, <1>8, <1>9, <1>10, <1>11, <1>12, <1>13, <1>14,
       <1>15, <1>16, DiskFrame, UnitsFrame, BackupFrame

\* What an action may answer.
LEMMA Answers ==
  ASSUME RelTypes, RelNext, answer' # answer \/ job = Resting
  PROVE  \/ answer' \in {"none", "failed", "refused", "staged", "started", "timeout", "recovered", "killed"}
         \/ job' = Resting /\ answer' = "committed" /\ apply_retention
         \/ job' = Resting /\ answer' = "rolled_back" /\ RollbackSettle
         \/ job' = Resting /\ answer' = "recovery_required"
                            /\ (RollbackStart \/ RollbackVerify \/ RollbackSettle \/ RecoverRefuse)
<1> USE RelNames
<1>1. CASE StageAny \/ StageExtract \/ StageRecord \/ StageRename
  BY <1>1 DEF StageAny, Stage, StageExtract, StageRecord, StageRename, Ends, Begins
<1>2. CASE StageBeside \/ StageRender \/ StageRole \/ StartActive
  BY <1>2 DEF StageBeside, StageRender, StageRole, StartActive, Ends, Begins
<1>3. CASE StartPending \/ Quiesce \/ StopUnits \/ backup_unit_files
  BY <1>3 DEF StartPending, Quiesce, StopUnits, backup_unit_files, Ends, Begins
<1>4. CASE install_unit_file \/ install_host_config \/ Switched \/ Probing
  BY <1>4 DEF install_unit_file, install_host_config, Switched, Records, Probing, Ends, Begins
<1>5. CASE StartUnits \/ Health \/ EnableUnits \/ Commit
  BY <1>5 DEF StartUnits, Health, EnableUnits, Commit, Ends, Begins
<1>6. CASE CurrentLink \/ apply_retention \/ RecordFailure \/ RollbackBaseline
  BY <1>6 DEF CurrentLink, apply_retention, RecordFailure, RollbackBaseline, Ends, Begins
<1>7. CASE RollbackRestore \/ RollbackStart \/ RecoveryTimesOut \/ RollbackVerify
  BY <1>7 DEF RollbackRestore, RollbackStart, RecoveryTimesOut, RollbackVerify, Ends, Begins
<1>8. CASE RollbackSettle \/ ManualRollback \/ Recover \/ RecoverRestore
  BY <1>8 DEF RollbackSettle, ManualRollback, Recover, RecoverRestore, Ends, Begins
<1>9. CASE RecoverResume \/ RecoverRepair \/ RecoverRefuse \/ Killed
  BY <1>9 DEF RecoverResume, RecoverRepair, RecoverRefuse, Killed, Ends, Begins
<1>10. CASE PowerLoss
  BY <1>10 DEF PowerLoss, Ends, Begins
<1> QED BY <1>1, <1>2, <1>3, <1>4, <1>5, <1>6, <1>7, <1>8, <1>9, <1>10 DEF RelNext

\* Without an error, a rollback verifies and the operator is not asked.
LEMMA NoErrorNoRefusalStep ==
  ASSUME ReleaseInv, RelNext, RelTypes', ~relFuel'.dropped
  PROVE  NoErrorNoRefusal'
<1>1. /\ RelTypes /\ relFuel'.faults <= relFuel.faults /\ ~relFuel.dropped
      /\ LegacyAside /\ TreesKept /\ UnitsKept /\ AtStage /\ AtStart /\ AtUndo /\ NoErrorNoRefusal /\ Reported
  BY FuelStep DEF ReleaseInv
<1> USE TypesNow, RelNames
<1>2. SUFFICES ASSUME relFuel'.faults = MaxRelFault
      PROVE  disk'.tx.phase # "failed" /\ answer' # "recovery_required"
  BY DEF NoErrorNoRefusal
<1>3. relFuel.faults = MaxRelFault /\ ~Fault
  BY <1>1, <1>2, ReleaseAssumption DEF FuelOf, Fault
<1>4. disk.tx.phase # "failed" /\ answer # "recovery_required"
  BY <1>1, <1>3 DEF NoErrorNoRefusal
<1>5. ASSUME RollbackVerify PROVE job' # Resting /\ disk' = disk
  <2>1. Healthy(job.mem.active)
    BY <1>1, <1>5 DEF RollbackVerify, AtUndo
  <2>2. ASSUME ~(job' # Resting /\ disk' = disk) PROVE Fault
    <3>1. ASSUME ~Fault PROVE job' = [job EXCEPT !.pc = "settle", !.mem = [job.mem EXCEPT !.tx = NoTx, !.failed = job.mem.pending]] /\ disk' = disk
      BY <1>5, <2>1, <3>1 DEF RollbackVerify, Ends
    <3>2. job # Resting
      BY <1>1, <1>5 DEF RollbackVerify
    <3>3. ASSUME ~Fault PROVE job'.pc = "settle"
      BY <1>1, <3>1, <3>2, <3>3 DEF JobOf
    <3> QED BY <1>1, <2>2, <3>1, <3>3
  <2> QED BY <1>3, <2>2
<1>6. answer' # "recovery_required"
  <2>1. SUFFICES ASSUME answer' = "recovery_required" PROVE FALSE
    OBVIOUS
  <2>2. job' = Resting /\ (RollbackStart \/ RollbackVerify \/ RollbackSettle \/ RecoverRefuse)
    BY <1>1, <1>4, <2>1, Answers
  <2>3. CASE RollbackStart
    BY <1>1, <1>3, <1>4, <2>1, <2>3 DEF RollbackStart
  <2>4. CASE RollbackSettle
    BY <1>1, <1>3, <1>4, <2>1, <2>4 DEF RollbackSettle, Ends
  <2>5. CASE RecoverRefuse
    <3>1. ASSUME classify_recovery(disk) = "required" PROVE FALSE
      BY <1>1, <1>4, <3>1 DEF classify_recovery, LegacyAside, StateOf, TxOf
    <3> QED BY <1>1, <2>5, <3>1 DEF RecoverRefuse, TreesKept
  <2> QED BY <1>5, <2>2, <2>3, <2>4, <2>5
<1>7. disk'.tx.phase # "failed"
  <2>1. CASE StageExtract
    BY <1>1, <1>4, <2>1, StageExtractForgets DEF StageExtract
  <2>2. CASE StageRecord
    BY <1>1, <1>4, <2>2, StageRecordWrites DEF StageRecord, NoTx
  <2>3. CASE Quiesce
    BY <1>1, <1>4, <2>3, QuiesceWrites DEF Quiesce
  <2>4. CASE Switched
    BY <1>1, <1>4, <2>4, RecordsWrites DEF Switched, Records, OnPath
  <2>5. CASE Probing
    BY <1>1, <1>4, <2>5, RecordsWrites DEF Probing, Records, OnPath
  <2>6. CASE Commit
    BY <1>1, <1>4, <2>6 DEF Commit, AtStart, Committing, NoTx
  <2>7. CASE RecordFailure
    BY <1>1, <1>4, <2>7, RecordFailureWrites DEF RecordFailure, AtStart, OnPath, Committing, NoTx
  <2>8. CASE RollbackVerify
    BY <1>4, <1>5, <2>8
  <2>9. CASE RollbackSettle
    BY <1>1, <1>4, <2>9 DEF RollbackSettle, AtUndo, NoTx
  <2>10. CASE ManualRollback
    BY <1>1, <1>4, <2>10, ManualRollbackWrites DEF ManualRollback
  <2>11. CASE UNCHANGED disk
    BY <1>4, <2>11
  <2> QED BY <2>1, <2>2, <2>3, <2>4, <2>5, <2>6, <2>7, <2>8, <2>9, <2>10, <2>11, DiskFrame
<1> QED BY <1>6, <1>7

\* What is reported as committed or rolled back is running.
LEMMA ReportedStep ==
  ASSUME ReleaseInv, RelNext, RelTypes', ~relFuel'.dropped
  PROVE  Reported'
<1>1. /\ RelTypes /\ relFuel'.faults <= relFuel.faults /\ ~relFuel.dropped
      /\ LegacyAside /\ TreesKept /\ UnitsKept /\ AtStage /\ AtStart /\ AtUndo /\ NoErrorNoRefusal /\ Reported
  BY FuelStep DEF ReleaseInv
<1> USE TypesNow, RelNames
<1>2. SUFFICES ASSUME answer' \in {"committed", "rolled_back"} PROVE job' = Resting /\ ReportedIsRunning'
  BY DEF Reported
<1>3. CASE apply_retention
  <2>1. /\ UNCHANGED <<disk, up, link, enabled>> /\ job' = Resting
        /\ disk.tx = NoTx /\ disk.active = job.cand /\ job.cand # NoRel /\ Healthy(job.cand) /\ link = job.cand
    BY <1>1, <1>3 DEF apply_retention, Ends, AtStart
  <2> QED BY <2>1 DEF ReportedIsRunning, Healthy
<1>4. CASE RollbackSettle
  <2>1. CASE disk' = job.mem /\ link' = (IF job.mem.active # NoRel THEN job.mem.active ELSE link)
    <3>1. /\ UNCHANGED <<up, enabled>> /\ job' = Resting
          /\ job.mem.active = disk.active /\ job.mem.tx = NoTx
          /\ IF disk.active = NoRel THEN up = Nothing /\ enabled = {} ELSE Healthy(disk.active)
      BY <1>1, <1>4 DEF RollbackSettle, Ends, AtUndo
    <3> QED BY <2>1, <3>1 DEF ReportedIsRunning, Healthy
  <2>2. CASE answer' = "recovery_required"
    BY <1>2, <2>2
  <2> QED BY <1>4, <2>1, <2>2 DEF RollbackSettle, Ends
<1>5. answer' # answer \/ job = Resting
  <2>1. SUFFICES ASSUME answer' = answer, job # Resting PROVE FALSE
    OBVIOUS
  <2> QED BY <1>1, <1>2, <2>1 DEF Reported
<1>6. apply_retention \/ RollbackSettle
  BY <1>1, <1>2, <1>5, Answers
<1> QED BY <1>3, <1>4, <1>6

\* What is staged is not what the host runs.
LEMMA AtStageStep ==
  ASSUME ReleaseInv, RelNext, RelTypes', ~relFuel'.dropped
  PROVE  AtStage'
<1>1. /\ RelTypes /\ relFuel'.faults <= relFuel.faults /\ ~relFuel.dropped
      /\ LegacyAside /\ TreesKept /\ UnitsKept /\ AtStage /\ AtStart /\ AtUndo /\ NoErrorNoRefusal /\ Reported
  BY FuelStep DEF ReleaseInv
<1> USE TypesNow, RelNames
<1>2. CASE StageAny
  BY <1>1, <1>2, JobMoves DEF StageAny, Stage, Goto, Ends, JobOf, AtStage, Begins
<1>3. CASE StageExtract
  BY <1>1, <1>3, StageExtractForgets, JobMoves DEF StageExtract, Goto, Ends, JobOf, AtStage
<1>4. CASE StageRename
  BY <1>1, <1>4, JobMoves DEF StageRename, Goto, Ends, JobOf, AtStage
<1>5. CASE StageBeside
  BY <1>1, <1>5, JobMoves DEF StageBeside, Goto, Ends, JobOf, AtStage, LegacyAside
<1>6. CASE StageRender
  BY <1>1, <1>6, JobMoves DEF StageRender, Goto, Ends, JobOf, AtStage
<1>7. CASE StageRole
  BY <1>1, <1>7, JobMoves DEF StageRole, Goto, Ends, JobOf, AtStage
<1>8. CASE StageRecord
  BY <1>1, <1>8, StageRecordWrites, JobMoves DEF StageRecord, Goto, Ends, JobOf, AtStage
<1>9. ASSUME ~StageAny, ~StageExtract, ~StageRename, ~StageBeside, ~StageRender, ~StageRole, ~StageRecord
      PROVE  job'.op # "stage"
  <2>1. SUFFICES ASSUME job'.op = "stage" PROVE FALSE
    OBVIOUS
  <2>2. job.op = "stage" /\ job # Resting
    BY <1>1, <1>9, <2>1, JobMoves
  <2>3. job.pc \in {"extract", "rename", "render", "role", "record"}
    BY <1>1, <2>2 DEF AtStage
  <2>4. CASE StartActive \/ StartPending \/ Quiesce \/ StopUnits \/ backup_unit_files
    BY <1>1, <2>1, <2>2, <2>3, <2>4 DEF StartActive, StartPending, Quiesce, StopUnits,
       backup_unit_files, Ends, Begins
  <2>5. CASE install_unit_file \/ install_host_config \/ Switched \/ Probing \/ StartUnits
    BY <1>1, <2>1, <2>2, <2>3, <2>5 DEF install_unit_file, install_host_config, Switched, Records,
       Probing, StartUnits, Ends, Begins
  <2>6. CASE Health \/ EnableUnits \/ Commit \/ CurrentLink \/ apply_retention
    BY <1>1, <2>1, <2>2, <2>3, <2>6 DEF Health, EnableUnits, Commit, CurrentLink, apply_retention,
       Ends, Begins
  <2>7. CASE RecordFailure \/ RollbackBaseline \/ RollbackRestore \/ RollbackStart
            \/ RecoveryTimesOut
    BY <1>1, <2>1, <2>2, <2>3, <2>7 DEF RecordFailure, RollbackBaseline, RollbackRestore,
       RollbackStart, RecoveryTimesOut, Ends, Begins
  <2>8. CASE RollbackVerify \/ RollbackSettle \/ ManualRollback \/ Recover \/ RecoverRestore
    BY <1>1, <2>1, <2>2, <2>3, <2>8 DEF RollbackVerify, RollbackSettle, ManualRollback, Recover,
       RecoverRestore, Ends, Begins
  <2>9. CASE RecoverResume
    BY <1>1, <2>1, <2>2, <2>3, <2>9 DEF RecoverResume, Ends, Begins
  <2>10. CASE RecoverRepair
    BY <1>1, <2>1, <2>2, <2>3, <2>10 DEF RecoverRepair, Ends, Begins
  <2>11. CASE RecoverRefuse
    BY <1>1, <2>1, <2>2, <2>3, <2>11 DEF RecoverRefuse, Ends, Begins
  <2>12. CASE Killed
    BY <1>1, <2>1, <2>2, <2>3, <2>12 DEF Killed, Ends, Begins
  <2>13. CASE PowerLoss
    BY <1>1, <2>1, <2>2, <2>3, <2>13 DEF PowerLoss, Ends, Begins
  <2> QED BY <1>9, <2>4, <2>5, <2>6, <2>7, <2>8, <2>9, <2>10, <2>11, <2>12, <2>13 DEF RelNext
<1> QED BY <1>2, <1>3, <1>4, <1>5, <1>6, <1>7, <1>8, <1>9 DEF AtStage

\* The way back finds what it needs.
LEMMA AtUndoStep ==
  ASSUME ReleaseInv, RelNext, RelTypes', ~relFuel'.dropped
  PROVE  AtUndo'
<1>1. /\ RelTypes /\ relFuel'.faults <= relFuel.faults /\ ~relFuel.dropped
      /\ LegacyAside /\ TreesKept /\ UnitsKept /\ AtStage /\ AtStart /\ AtUndo /\ NoErrorNoRefusal /\ Reported
  BY FuelStep DEF ReleaseInv
<1> USE TypesNow, RelNames
<1>2. CASE StageAny
  BY <1>1, <1>2 DEF StageAny, Stage, Goto, Ends, JobOf, AtStage, AtStart, Pipeline, AtUndo, Begins
<1>3. CASE StageExtract
  BY <1>1, <1>3, StageExtractForgets DEF StageExtract, Goto, Ends, JobOf, AtStage, AtStart,
     Pipeline, AtUndo
<1>4. CASE StageRecord
  BY <1>1, <1>4, StageRecordWrites DEF StageRecord, Goto, Ends, JobOf, AtStage, AtStart, Pipeline,
     AtUndo
<1>5. CASE StageRename
  BY <1>1, <1>5 DEF StageRename, Goto, Ends, JobOf, AtStage, AtStart, Pipeline, AtUndo
<1>6. CASE StageBeside
  BY <1>1, <1>6 DEF StageBeside, Goto, Ends, JobOf, AtStage, AtStart, Pipeline, AtUndo
<1>7. CASE StageRender
  BY <1>1, <1>7 DEF StageRender, Goto, Ends, JobOf, AtStage, AtStart, Pipeline, AtUndo
<1>8. CASE StageRole
  BY <1>1, <1>8 DEF StageRole, Goto, Ends, JobOf, AtStage, AtStart, Pipeline, AtUndo
<1>9. CASE StartActive
  BY <1>1, <1>9 DEF StartActive, Goto, Ends, JobOf, AtStage, AtStart, Pipeline, AtUndo
<1>10. CASE StartPending
  BY <1>1, <1>10 DEF StartPending, Goto, Ends, JobOf, AtStage, AtStart, Pipeline, AtUndo, Begins
<1>11. CASE Quiesce
  BY <1>1, <1>11, QuiesceWrites DEF Quiesce, Goto, Ends, JobOf, AtStage, AtStart, Pipeline, AtUndo
<1>12. CASE StopUnits
  BY <1>1, <1>12 DEF StopUnits, Goto, Ends, JobOf, AtStage, AtStart, Pipeline, AtUndo
<1>13. CASE backup_unit_files
  BY <1>1, <1>13 DEF backup_unit_files, Goto, Ends, JobOf, AtStage, AtStart, Pipeline, AtUndo
<1>14. CASE install_unit_file
  BY <1>1, <1>14 DEF install_unit_file, Goto, Ends, JobOf, AtStage, AtStart, Pipeline, AtUndo
<1>15. CASE install_host_config
  BY <1>1, <1>15 DEF install_host_config, Goto, Ends, JobOf, AtStage, AtStart, Pipeline, AtUndo
<1>16. CASE Switched
  BY <1>1, <1>16, RecordsWrites DEF Switched, Records, Goto, Ends, JobOf, AtStage, AtStart,
     Pipeline, AtUndo
<1>17. CASE Probing
  BY <1>1, <1>17, RecordsWrites DEF Probing, Records, Goto, Ends, JobOf, AtStage, AtStart,
     Pipeline, AtUndo
<1>18. CASE StartUnits
  BY <1>1, <1>18 DEF StartUnits, Goto, Ends, JobOf, AtStage, AtStart, Pipeline, AtUndo
<1>19. CASE Health
  BY <1>1, <1>19 DEF Health, Goto, Ends, JobOf, AtStage, AtStart, Pipeline, AtUndo
<1>20. CASE EnableUnits
  BY <1>1, <1>20 DEF EnableUnits, Goto, Ends, JobOf, AtStage, AtStart, Pipeline, AtUndo
<1>21. CASE Commit
  BY <1>1, <1>21 DEF Commit, Goto, Ends, JobOf, AtStage, AtStart, Pipeline, AtUndo
<1>22. CASE CurrentLink
  BY <1>1, <1>22 DEF CurrentLink, Goto, Ends, JobOf, AtStage, AtStart, Pipeline, AtUndo
<1>23. CASE apply_retention
  BY <1>1, <1>23 DEF apply_retention, Goto, Ends, JobOf, AtStage, AtStart, Pipeline, AtUndo
<1>24. CASE RecordFailure
  BY <1>1, <1>24, RecordFailureWrites DEF RecordFailure, Goto, Ends, JobOf, AtStage, AtStart,
     Pipeline, AtUndo, OnPath, Committing
<1>25. CASE RollbackBaseline
  <2>1. /\ job # Resting /\ UNCHANGED <<disk, units>> /\ disk.active = NoRel
        /\ up' = Nothing /\ enabled' = {}
        /\ job' = [job EXCEPT !.pc = "settle", !.mem = [disk EXCEPT !.tx = NoTx, !.failed = disk.pending]]
    BY <1>1, <1>25 DEF RollbackBaseline
  <2>2. /\ job'.op = job.op /\ job'.pc = "settle"
        /\ job'.mem = [disk EXCEPT !.tx = NoTx, !.failed = disk.pending]
    BY <1>1, <2>1 DEF JobOf
  <2>3. /\ job'.mem.active = disk.active /\ job'.mem.previous = disk.previous /\ job'.mem.tx = NoTx
        /\ job'.mem.legacy = disk.legacy
    BY <1>1, <2>2 DEF StateOf
  <2>4. ~disk.legacy
    BY <1>1, <1>25 DEF AtUndo, RollbackBaseline
  <2> QED BY <2>1, <2>2, <2>3, <2>4 DEF AtUndo
<1>26. CASE RollbackRestore
  <2>1. /\ job # Resting /\ UNCHANGED <<disk, backup>> /\ disk.active # NoRel
        /\ units' = IF disk.tx = NoTx THEN units
                    ELSE [u \in UnitNames |-> IF backup.units[u] # NoRel THEN backup.units[u] ELSE units[u]]
        /\ job' = [job EXCEPT !.pc = "restart", !.mem = disk]
    BY <1>1, <1>26 DEF RollbackRestore
  <2>2. job'.op = job.op /\ job'.pc = "restart" /\ job'.mem = disk
    BY <1>1, <2>1 DEF JobOf
  <2>3. ~disk.legacy /\ (disk.tx = NoTx \/ disk.tx.phase \in OnPath)
    BY <1>1, <1>26 DEF AtUndo, RollbackRestore
  <2>4. \A u \in Rendered(disk.active) : units'[u] = disk.active
    <3>1. CASE disk.tx = NoTx
      BY <1>1, <2>1, <3>1 DEF UnitsKept, Installed
    <3>2. CASE disk.tx # NoTx
      <4>1. SUFFICES ASSUME NEW u \in Rendered(disk.active) PROVE units'[u] = disk.active
        OBVIOUS
      <4>2. backup.units[u] = disk.active \/ (backup.units[u] = NoRel /\ units[u] = disk.active)
        BY <1>1, <2>1, <2>3, <3>2 DEF UnitsKept
      <4> QED BY <2>1, <3>2, <4>2
    <3> QED BY <3>1, <3>2
  <2> QED BY <2>1, <2>2, <2>3, <2>4 DEF AtUndo, Installed
<1>27. CASE RollbackStart
  <2>1. ASSUME job' # Resting
        PROVE  /\ job' = [job EXCEPT !.pc = "verify"]
               /\ up' = [u \in UnitNames |-> IF u \in UnitsOf(job.mem.active) THEN units[u] ELSE NoRel]
    BY <1>27, <2>1 DEF RollbackStart, Goto, Ends
  <2>2. /\ UNCHANGED <<disk, units>> /\ job # Resting /\ ~disk.legacy
        /\ job.mem = disk /\ disk.active # NoRel /\ Installed(disk.active)
    BY <1>1, <1>27 DEF RollbackStart, AtUndo
  <2>3. CASE job' = Resting
    BY <2>3 DEF AtUndo
  <2>4. CASE job' # Resting
    <3>1. job'.op = job.op /\ job'.pc = "verify" /\ job'.mem = disk
      BY <1>1, <2>1, <2>2, <2>4 DEF JobOf
    <3>2. \A u \in UnitsOf(disk.active) : up'[u] = disk.active
      BY <2>1, <2>2, <2>4 DEF Installed
    <3> QED BY <2>2, <3>1, <3>2 DEF AtUndo, Installed, Healthy
  <2> QED BY <2>3, <2>4
<1>28. CASE RecoveryTimesOut
  BY <1>1, <1>28 DEF RecoveryTimesOut, Goto, Ends, JobOf, AtStage, AtStart, Pipeline, AtUndo
<1>29. CASE RollbackVerify
  <2>1. ASSUME job' # Resting
        PROVE  job' = [job EXCEPT !.pc = "settle", !.mem = [job.mem EXCEPT !.tx = NoTx, !.failed = job.mem.pending]]
    BY <1>29, <2>1 DEF RollbackVerify, Ends
  <2>2. CASE job' = Resting
    BY <2>2 DEF AtUndo
  <2>3. CASE job' # Resting
    <3>1. /\ UNCHANGED <<disk, units, up>> /\ job # Resting /\ ~disk.legacy /\ job.mem = disk
          /\ disk.active # NoRel /\ Installed(disk.active) /\ Healthy(disk.active)
      BY <1>1, <1>29, <2>3, RollbackVerifyWrites DEF RollbackVerify, AtUndo
    <3>2. job'.op = job.op /\ job'.pc = "settle" /\ job'.mem = [disk EXCEPT !.tx = NoTx, !.failed = disk.pending]
      BY <1>1, <2>1, <2>3, <3>1 DEF JobOf
    <3>3. /\ job'.mem.active = disk.active /\ job'.mem.previous = disk.previous /\ job'.mem.tx = NoTx
          /\ job'.mem.legacy = disk.legacy
      BY <1>1, <3>2 DEF StateOf
    <3> QED BY <1>1, <3>1, <3>2, <3>3 DEF AtUndo, Installed, Healthy
  <2> QED BY <2>2, <2>3
<1>30. CASE RollbackSettle
  BY <1>1, <1>30 DEF RollbackSettle, Goto, Ends, JobOf, AtStage, AtStart, Pipeline, AtUndo
<1>31. CASE ManualRollback
  BY <1>1, <1>31, ManualRollbackWrites DEF ManualRollback, Goto, Ends, JobOf, AtStage, AtStart,
     Pipeline, AtUndo
<1>32. CASE Recover
  BY <1>1, <1>32 DEF Recover, Goto, Ends, JobOf, AtStage, AtStart, Pipeline, AtUndo, Begins
<1>33. CASE RecoverRestore
  BY <1>1, <1>33 DEF RecoverRestore, Goto, Ends, JobOf, AtStage, AtStart, Pipeline, AtUndo,
     classify_recovery, LegacyAside, OnPath, NoTx
<1>34. CASE RecoverResume
  BY <1>1, <1>34 DEF RecoverResume, Goto, Ends, JobOf, AtStage, AtStart, Pipeline, AtUndo
<1>35. CASE RecoverRepair
  BY <1>1, <1>35 DEF RecoverRepair, Goto, Ends, JobOf, AtStage, AtStart, Pipeline, AtUndo
<1>36. CASE RecoverRefuse
  BY <1>1, <1>36 DEF RecoverRefuse, Goto, Ends, JobOf, AtStage, AtStart, Pipeline, AtUndo
<1>37. CASE Killed
  BY <1>1, <1>37 DEF Killed, Goto, Ends, JobOf, AtStage, AtStart, Pipeline, AtUndo
<1>38. CASE PowerLoss
  BY <1>1, <1>38 DEF PowerLoss, Goto, Ends, JobOf, AtStage, AtStart, Pipeline, AtUndo
<1> QED BY <1>2, <1>3, <1>4, <1>5, <1>6, <1>7, <1>8, <1>9, <1>10, <1>11, <1>12, <1>13, <1>14,
       <1>15, <1>16, <1>17, <1>18, <1>19, <1>20, <1>21, <1>22, <1>23, <1>24, <1>25, <1>26, <1>27,
       <1>28, <1>29, <1>30, <1>31, <1>32, <1>33, <1>34, <1>35, <1>36, <1>37, <1>38 DEF RelNext

\* Each step of an activation finds what the steps before it did.
LEMMA AtStartStep ==
  ASSUME ReleaseInv, RelNext, RelTypes', ~relFuel'.dropped
  PROVE  AtStart'
<1>1. /\ RelTypes /\ relFuel'.faults <= relFuel.faults /\ ~relFuel.dropped
      /\ LegacyAside /\ TreesKept /\ UnitsKept /\ AtStage /\ AtStart /\ AtUndo /\ NoErrorNoRefusal /\ Reported
  BY FuelStep DEF ReleaseInv
<1> USE TypesNow, RelNames
<1>2. CASE StageAny
  BY <1>1, <1>2 DEF StageAny, Stage, Goto, Ends, JobOf, AtStage, AtUndo, AtStart, Pipeline,
     PhaseAt, Committing, Installed, Healthy, OnPath, Begins
<1>3. CASE StageExtract
  BY <1>1, <1>3, StageExtractForgets DEF StageExtract, Goto, Ends, JobOf, AtStage, AtUndo, AtStart,
     Pipeline, PhaseAt, Committing, Installed, Healthy, OnPath
<1>4. CASE StageRecord
  BY <1>1, <1>4, StageRecordWrites DEF StageRecord, Goto, Ends, JobOf, AtStage, AtUndo, AtStart,
     Pipeline, PhaseAt, Committing, Installed, Healthy, OnPath
<1>5. CASE StageRename
  BY <1>1, <1>5 DEF StageRename, Goto, Ends, JobOf, AtStage, AtUndo, AtStart, Pipeline, PhaseAt,
     Committing, Installed, Healthy, OnPath
<1>6. CASE StageBeside
  BY <1>1, <1>6 DEF StageBeside, Goto, Ends, JobOf, AtStage, AtUndo, AtStart, Pipeline, PhaseAt,
     Committing, Installed, Healthy, OnPath
<1>7. CASE StageRender
  BY <1>1, <1>7 DEF StageRender, Goto, Ends, JobOf, AtStage, AtUndo, AtStart, Pipeline, PhaseAt,
     Committing, Installed, Healthy, OnPath
<1>8. CASE StageRole
  BY <1>1, <1>8 DEF StageRole, Goto, Ends, JobOf, AtStage, AtUndo, AtStart, Pipeline, PhaseAt,
     Committing, Installed, Healthy, OnPath
<1>9. CASE StartActive
  BY <1>1, <1>9 DEF StartActive, Goto, Ends, JobOf, AtStage, AtUndo, AtStart, Pipeline, PhaseAt,
     Committing, Installed, Healthy, OnPath
<1>10. CASE StartPending
  BY <1>1, <1>10 DEF StartPending, Goto, Ends, JobOf, AtStage, AtUndo, AtStart, Pipeline, PhaseAt,
     Committing, Installed, Healthy, OnPath, Begins
<1>11. CASE Quiesce
  <2>1. /\ UNCHANGED <<dirs, units, up>> /\ job # Resting /\ job.op = "start" /\ job.mem = disk /\ job.cand # NoRel
        /\ job.cand \in dirs \/ disk.legacy
    BY <1>1, <1>11 DEF Quiesce, AtStart
  <2>2. CASE job' = Resting
    BY <2>2 DEF AtStart, Pipeline
  <2>3. CASE job' # Resting
    <3>1. /\ job' = [job EXCEPT !.pc = "stop", !.mem = disk']
          /\ disk'.active = disk.active /\ disk'.legacy = disk.legacy /\ disk'.tx.phase = "quiesced"
          /\ disk.tx = NoTx /\ disk.pending # NoRel
      <4>1. disk.tx = NoTx /\ disk.pending # NoRel
        BY <1>1, <1>11, <2>1, <2>3, QuiesceWrites DEF validate_transition, current_deployment_state, LegacyAside, StateOf, TxOf
      <4> QED BY <1>1, <1>11, <2>1, <2>3, <4>1, QuiesceWrites
    <3>2. ~disk.legacy /\ (disk.active # NoRel => Installed(disk.active))
      BY <1>1, <3>1 DEF LegacyAside, UnitsKept
    <3>3. job'.op = "start" /\ job'.pc = "stop" /\ job'.mem = disk' /\ job'.cand = job.cand
      BY <1>1, <2>1, <3>1 DEF JobOf
    <3> QED BY <2>1, <3>1, <3>2, <3>3 DEF AtStart, Pipeline, PhaseAt, Installed
  <2> QED BY <2>2, <2>3
<1>12. CASE StopUnits
  BY <1>1, <1>12 DEF StopUnits, Goto, Ends, JobOf, AtStage, AtUndo, AtStart, Pipeline, PhaseAt,
     Committing, Installed, Healthy, OnPath
<1>13. CASE backup_unit_files
  BY <1>1, <1>13 DEF backup_unit_files, Goto, Ends, JobOf, AtStage, AtUndo, AtStart, Pipeline,
     PhaseAt, Committing, Installed, Healthy, OnPath
<1>14. CASE install_unit_file
  BY <1>1, <1>14 DEF install_unit_file, Goto, Ends, JobOf, AtStage, AtUndo, AtStart, Pipeline,
     PhaseAt, Committing, Installed, Healthy, OnPath
<1>15. CASE install_host_config
  BY <1>1, <1>15 DEF install_host_config, Goto, Ends, JobOf, AtStage, AtUndo, AtStart, Pipeline,
     PhaseAt, Committing, Installed, Healthy, OnPath
<1>16. CASE Switched
  <2>1. /\ UNCHANGED <<dirs, units, backup, up>> /\ job # Resting /\ job.op = "start" /\ job.mem = disk
        /\ job.cand # NoRel /\ job.cand \in dirs /\ ~disk.legacy /\ Installed(job.cand) /\ disk.tx.phase \in OnPath
        /\ disk.active # NoRel => \A u \in Rendered(disk.active) : backup.units[u] = disk.active
    BY <1>1, <1>16 DEF Switched, Records, AtStart, Pipeline, PhaseAt, OnPath
  <2>2. CASE disk' = disk /\ job' = [job EXCEPT !.pc = "recordFailure"]
    <3>1. job'.op = "start" /\ job'.pc = "recordFailure" /\ job'.mem = disk /\ job'.cand = job.cand
      BY <1>1, <2>1, <2>2 DEF JobOf
    <3> QED BY <2>1, <2>2, <3>1 DEF AtStart, Pipeline
  <2>3. CASE disk' # disk \/ job' # [job EXCEPT !.pc = "recordFailure"]
    <3>1. /\ job' = [job EXCEPT !.pc = "startUnits", !.mem = disk']
          /\ disk'.active = disk.active /\ disk'.legacy = disk.legacy /\ disk'.tx.phase = "switched"
      BY <1>1, <1>16, <2>1, <2>3, RecordsWrites DEF Switched, OnPath
    <3>2. job'.op = "start" /\ job'.pc = "startUnits" /\ job'.mem = disk' /\ job'.cand = job.cand
      BY <1>1, <2>1, <3>1 DEF JobOf
    <3> QED BY <2>1, <3>1, <3>2 DEF AtStart, Pipeline, PhaseAt, Installed
  <2> QED BY <2>2, <2>3
<1>17. CASE Probing
  <2>1. /\ UNCHANGED <<dirs, units, backup, up>> /\ job # Resting /\ job.op = "start" /\ job.mem = disk
        /\ job.cand # NoRel /\ job.cand \in dirs /\ ~disk.legacy /\ Installed(job.cand) /\ disk.tx.phase \in OnPath
        /\ disk.active # NoRel => \A u \in Rendered(disk.active) : backup.units[u] = disk.active
    BY <1>1, <1>17 DEF Probing, Records, AtStart, Pipeline, PhaseAt, OnPath
  <2>2. CASE disk' = disk /\ job' = [job EXCEPT !.pc = "recordFailure"]
    <3>1. job'.op = "start" /\ job'.pc = "recordFailure" /\ job'.mem = disk /\ job'.cand = job.cand
      BY <1>1, <2>1, <2>2 DEF JobOf
    <3> QED BY <2>1, <2>2, <3>1 DEF AtStart, Pipeline
  <2>3. CASE disk' # disk \/ job' # [job EXCEPT !.pc = "recordFailure"]
    <3>1. /\ job' = [job EXCEPT !.pc = "health", !.mem = disk']
          /\ disk'.active = disk.active /\ disk'.legacy = disk.legacy /\ disk'.tx.phase = "probing"
      BY <1>1, <1>17, <2>1, <2>3, RecordsWrites DEF Probing, OnPath
    <3>2. job'.op = "start" /\ job'.pc = "health" /\ job'.mem = disk' /\ job'.cand = job.cand
      BY <1>1, <2>1, <3>1 DEF JobOf
    <3> QED BY <2>1, <3>1, <3>2 DEF AtStart, Pipeline, PhaseAt, Installed
  <2> QED BY <2>2, <2>3
<1>18. CASE StartUnits
  BY <1>1, <1>18 DEF StartUnits, Goto, Ends, JobOf, AtStage, AtUndo, AtStart, Pipeline, PhaseAt,
     Committing, Installed, Healthy, OnPath
<1>19. CASE Health
  BY <1>1, <1>19 DEF Health, Goto, Ends, JobOf, AtStage, AtUndo, AtStart, Pipeline, PhaseAt,
     Committing, Installed, Healthy, OnPath
<1>20. CASE EnableUnits
  <2>1. /\ UNCHANGED <<disk, dirs, units, backup, up>> /\ job # Resting /\ job.op = "start" /\ job.mem = disk
        /\ job.cand # NoRel /\ job.cand \in dirs /\ ~disk.legacy /\ Installed(job.cand) /\ disk.tx.phase = "probing"
        /\ disk.active # NoRel => \A u \in Rendered(disk.active) : backup.units[u] = disk.active
        /\ Healthy(job.cand)
    BY <1>1, <1>20 DEF EnableUnits, AtStart, Pipeline, PhaseAt
  <2>2. job' = [job EXCEPT !.pc = "commit", !.mem = [disk EXCEPT !.previous = disk.active,
                                    !.active = job.cand, !.pending = NoRel, !.tx = NoTx]]
    BY <1>20, <2>1 DEF EnableUnits
  <2>3. /\ job'.op = "start" /\ job'.pc = "commit" /\ job'.cand = job.cand
        /\ job'.mem = [disk EXCEPT !.previous = disk.active, !.active = job.cand, !.pending = NoRel, !.tx = NoTx]
    BY <1>1, <2>1, <2>2 DEF JobOf
  <2>4. /\ job'.mem.active = job.cand /\ job'.mem.previous = disk.active /\ job'.mem.tx = NoTx
        /\ job'.mem.legacy = disk.legacy
    BY <1>1, <2>3 DEF StateOf
  <2> QED BY <2>1, <2>3, <2>4 DEF AtStart, Pipeline, Committing, Installed, Healthy
<1>21. CASE Commit
  BY <1>1, <1>21 DEF Commit, Goto, Ends, JobOf, AtStage, AtUndo, AtStart, Pipeline, PhaseAt,
     Committing, Installed, Healthy, OnPath
<1>22. CASE CurrentLink
  BY <1>1, <1>22 DEF CurrentLink, Goto, Ends, JobOf, AtStage, AtUndo, AtStart, Pipeline, PhaseAt,
     Committing, Installed, Healthy, OnPath
<1>23. CASE apply_retention
  BY <1>1, <1>23 DEF apply_retention, Goto, Ends, JobOf, AtStage, AtUndo, AtStart, Pipeline,
     PhaseAt, Committing, Installed, Healthy, OnPath
<1>24. CASE RecordFailure
  BY <1>1, <1>24, RecordFailureWrites DEF RecordFailure, Goto, Ends, JobOf, AtStage, AtUndo,
     AtStart, Pipeline, PhaseAt, Committing, Installed, Healthy, OnPath
<1>25. CASE RollbackBaseline
  BY <1>1, <1>25 DEF RollbackBaseline, Goto, Ends, JobOf, AtStage, AtUndo, AtStart, Pipeline,
     PhaseAt, Committing, Installed, Healthy, OnPath
<1>26. CASE RollbackRestore
  BY <1>1, <1>26 DEF RollbackRestore, Goto, Ends, JobOf, AtStage, AtUndo, AtStart, Pipeline,
     PhaseAt, Committing, Installed, Healthy, OnPath
<1>27. CASE RollbackStart
  BY <1>1, <1>27 DEF RollbackStart, Goto, Ends, JobOf, AtStage, AtUndo, AtStart, Pipeline, PhaseAt,
     Committing, Installed, Healthy, OnPath
<1>28. CASE RecoveryTimesOut
  BY <1>1, <1>28 DEF RecoveryTimesOut, Goto, Ends, JobOf, AtStage, AtUndo, AtStart, Pipeline,
     PhaseAt, Committing, Installed, Healthy, OnPath
<1>29. CASE RollbackVerify
  BY <1>1, <1>29, RollbackVerifyWrites DEF RollbackVerify, Goto, Ends, JobOf, AtStage, AtUndo,
     AtStart, Pipeline, PhaseAt, Committing, Installed, Healthy, OnPath
<1>30. CASE RollbackSettle
  BY <1>1, <1>30 DEF RollbackSettle, Goto, Ends, JobOf, AtStage, AtUndo, AtStart, Pipeline,
     PhaseAt, Committing, Installed, Healthy, OnPath
<1>31. CASE ManualRollback
  BY <1>1, <1>31, ManualRollbackWrites DEF ManualRollback, Goto, Ends, JobOf, AtStage, AtUndo,
     AtStart, Pipeline, PhaseAt, Committing, Installed, Healthy, OnPath
<1>32. CASE Recover
  BY <1>1, <1>32 DEF Recover, Goto, Ends, JobOf, AtStage, AtUndo, AtStart, Pipeline, PhaseAt,
     Committing, Installed, Healthy, OnPath, Begins
<1>33. CASE RecoverRestore
  BY <1>1, <1>33 DEF RecoverRestore, Goto, Ends, JobOf, AtStage, AtUndo, AtStart, Pipeline,
     PhaseAt, Committing, Installed, Healthy, OnPath
<1>34. CASE RecoverResume
  BY <1>1, <1>34 DEF RecoverResume, Goto, Ends, JobOf, AtStage, AtUndo, AtStart, Pipeline, PhaseAt,
     Committing, Installed, Healthy, OnPath
<1>35. CASE RecoverRepair
  BY <1>1, <1>35 DEF RecoverRepair, Goto, Ends, JobOf, AtStage, AtUndo, AtStart, Pipeline, PhaseAt,
     Committing, Installed, Healthy, OnPath
<1>36. CASE RecoverRefuse
  BY <1>1, <1>36 DEF RecoverRefuse, Goto, Ends, JobOf, AtStage, AtUndo, AtStart, Pipeline, PhaseAt,
     Committing, Installed, Healthy, OnPath
<1>37. CASE Killed
  BY <1>1, <1>37 DEF Killed, Goto, Ends, JobOf, AtStage, AtUndo, AtStart, Pipeline, PhaseAt,
     Committing, Installed, Healthy, OnPath
<1>38. CASE PowerLoss
  BY <1>1, <1>38 DEF PowerLoss, Goto, Ends, JobOf, AtStage, AtUndo, AtStart, Pipeline, PhaseAt,
     Committing, Installed, Healthy, OnPath
<1> QED BY <1>2, <1>3, <1>4, <1>5, <1>6, <1>7, <1>8, <1>9, <1>10, <1>11, <1>12, <1>13, <1>14,
       <1>15, <1>16, <1>17, <1>18, <1>19, <1>20, <1>21, <1>22, <1>23, <1>24, <1>25, <1>26, <1>27,
       <1>28, <1>29, <1>30, <1>31, <1>32, <1>33, <1>34, <1>35, <1>36, <1>37, <1>38 DEF RelNext

\* A host starts fresh, installed, or with the files of the earlier format.
LEMMA ReleaseInitially ==
  ASSUME RelInit
  PROVE  ReleaseInv
<1> USE RelNames
<1> DEFINE first == [tag |-> "v1", role |-> "both"]
<1>0. PICK start \in Starts :
        LET a == IF start = "installed" THEN first ELSE NoRel IN
        /\ disk = [active |-> a, previous |-> NoRel, pending |-> NoRel, tx |-> NoTx,
                   failed |-> NoRel, legacy |-> start = LegacyHost]
        /\ hostRole = a.role
        /\ dirs = (IF a = NoRel THEN {} ELSE {a})
        /\ units = [u \in UnitNames |-> IF u \in Rendered(a) /\ a # NoRel THEN a ELSE NoRel]
        /\ up = [u \in UnitNames |-> IF u \in UnitsOf(a) THEN a ELSE NoRel]
        /\ enabled = (IF a = NoRel THEN {} ELSE Rendered(a))
        /\ host = a /\ link = a
  BY Zenon DEF RelInit
<1> DEFINE a == IF start = "installed" THEN first ELSE NoRel
<1>1. /\ a \in Rels /\ a = (IF start = "installed" THEN first ELSE NoRel)
      /\ disk = [active |-> a, previous |-> NoRel, pending |-> NoRel, tx |-> NoTx,
                 failed |-> NoRel, legacy |-> start = LegacyHost]
      /\ hostRole = a.role
      /\ dirs = (IF a = NoRel THEN {} ELSE {a})
      /\ units = [u \in UnitNames |-> IF u \in Rendered(a) /\ a # NoRel THEN a ELSE NoRel]
      /\ up = [u \in UnitNames |-> IF u \in UnitsOf(a) THEN a ELSE NoRel]
      /\ enabled = (IF a = NoRel THEN {} ELSE Rendered(a))
      /\ host = a /\ link = a
  BY <1>0
<1> HIDE DEF a
<1>2. /\ backup = NoBackup /\ job = Resting /\ answer = "none"
      /\ relFuel = [stages |-> MaxStages, faults |-> MaxRelFault, crashes |-> MaxRelCrash, dropped |-> FALSE]
  BY DEF RelInit
<1>3. disk.legacy => a = NoRel
  BY <1>1 DEF LegacyHost
<1>4. /\ disk.active = a /\ disk.previous = NoRel /\ disk.pending = NoRel /\ disk.tx = NoTx /\ disk.failed = NoRel
  BY <1>1
<1>5. RelTypes
  <2>1. disk \in StateOf
    <3>1. (start = LegacyHost) \in BOOLEAN /\ NoTx \in TxOf
      BY Zenon DEF TxOf
    <3>2. disk = [active |-> a, previous |-> NoRel, pending |-> NoRel, tx |-> NoTx, failed |-> NoRel, legacy |-> (start = LegacyHost)]
      BY <1>1
    <3>3. ASSUME NEW S, NEW b \in S, NEW t \in TxOf
          PROVE  [active |-> a, previous |-> NoRel, pending |-> NoRel, tx |-> t, failed |-> NoRel, legacy |-> b]
                   \in [active : Rels, previous : Rels, pending : Rels, failed : Rels, legacy : S, tx : TxOf]
      BY <1>1
    <3>4. [active |-> a, previous |-> NoRel, pending |-> NoRel, tx |-> NoTx, failed |-> NoRel, legacy |-> (start = LegacyHost)]
            \in [active : Rels, previous : Rels, pending : Rels, failed : Rels, legacy : BOOLEAN, tx : TxOf]
      BY <3>1, <3>3, Zenon
    <3> QED BY <3>2, <3>4 DEF StateOf
  <2>2. relFuel \in FuelOf
    BY <1>2, ReleaseAssumption DEF FuelOf
  <2>3. /\ dirs \subseteq Rels \ {NoRel} /\ units \in [UnitNames -> Rels] /\ up \in [UnitNames -> Rels]
        /\ host \in Rels /\ link \in Rels /\ enabled \subseteq UnitNames
    BY <1>1
  <2>4. hostRole \in Whys
    BY <1>1 DEF Whys
  <2> QED BY <1>2, <2>1, <2>2, <2>3, <2>4 DEF RelTypes, RelTypeOK, StateOf, TxOf
<1>6. LegacyAside /\ TreesKept
  BY <1>1, <1>3, <1>4 DEF LegacyAside, TreesKept
<1>7. UnitsKept
  BY <1>1, <1>4 DEF UnitsKept, Installed, OnPath, NoTx
<1>8. AtStage /\ AtStart /\ AtUndo
  BY <1>2 DEF AtStage, AtStart, AtUndo, Pipeline
<1>9. NoErrorNoRefusal /\ Reported
  BY <1>2, <1>4 DEF NoErrorNoRefusal, Reported
<1> QED BY <1>5, <1>6, <1>7, <1>8, <1>9 DEF ReleaseInv

LEMMA ReleaseUnchanged ==
  ASSUME ReleaseInv, UNCHANGED relVars
  PROVE  ReleaseInv'
BY DEF ReleaseInv, relVars, RelTypes, RelTypeOK, LegacyAside, TreesKept, UnitsKept, Installed, AtStage, AtStart, Committing,
       Healthy, AtUndo, NoErrorNoRefusal, Reported, ReportedIsRunning

LEMMA ReleaseStep ==
  ASSUME ReleaseInv, RelNext
  PROVE  ReleaseInv'
<1>1. RelTypes /\ RelTypes'
  BY TypesStep DEF ReleaseInv
<1>2. ASSUME ~relFuel'.dropped
      PROVE  /\ LegacyAside' /\ TreesKept' /\ UnitsKept' /\ AtStage' /\ AtStart' /\ AtUndo'
             /\ NoErrorNoRefusal' /\ Reported'
  BY <1>1, <1>2, LegacyAsideStep, TreesKeptStep, UnitsKeptStep, AtStageStep, AtStartStep, AtUndoStep,
     NoErrorNoRefusalStep, ReportedStep
<1> QED BY <1>1, <1>2 DEF ReleaseInv

LEMMA ReleaseWhole ==
  ASSUME ReleaseInv
  PROVE  ReleaseIsWhole
<1>1. RelTypes /\ RelTypeOK
  BY DEF ReleaseInv, RelTypes
<1>2. SettledMatchesRecord
  BY RelNames DEF ReleaseInv, SettledMatchesRecord, TreesKept, UnitsKept, Installed
<1>3. ReportedIsRunning
  BY DEF ReleaseInv, Reported, ReportedIsRunning
<1>4. CrashAloneRecovers
  BY DEF ReleaseInv, NoErrorNoRefusal, CrashAloneRecovers
<1> QED BY <1>1, <1>2, <1>3, <1>4 DEF ReleaseIsWhole

\* The release manager's promise, for every set of releases and any number of stagings, errors,
\* kills and power losses: with nothing in progress and no transaction recorded, the active
\* release's tree and units are in place and the previous one can be returned to; what is reported
\* committed or rolled back is what runs; and as long as nothing fails, no kill or power loss
\* leaves the host to its operator.  (Unless a staging dropped an interrupted transaction, which
\* `dropped` records.)  (activate.rs, rollback.rs, recovery.rs, retention.rs).
THEOREM ReleaseStaysWhole == RelSpec => []ReleaseIsWhole
<1>1. RelInit => ReleaseInv
  BY ReleaseInitially
<1>2. ReleaseInv /\ [RelNext]_relVars => ReleaseInv'
  BY ReleaseStep, ReleaseUnchanged
<1>3. ReleaseInv => ReleaseIsWhole
  BY ReleaseWhole
<1> QED BY <1>1, <1>2, <1>3, PTL DEF RelSpec
=============================================================================
