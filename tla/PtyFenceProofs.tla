--------------------------- MODULE PtyFenceProofs ---------------------------
(***************************************************************************)
(* What the session manager's steps respect.                               *)
(*   - The manager and its persist worker implement the session store:     *)
(*     whatever callers, tasks and restarts do, the store sees one of the  *)
(*     operations SessionStore offers at a time.                           *)
(*   - The fence of a dispose: outside one, whatever is live was created   *)
(*     in the current generation.                                          *)
(*   - The persistence gate is held by one actor or reader at a time.      *)
(***************************************************************************)
EXTENDS PtyProofs

-----------------------------------------------------------------------------
(* Who writes: the worker, and restore_sessions before the server serves.  *)

\* Actor a moves, at most; phase, restore and store stay as they are.
Leaves(a) == /\ phase' = phase /\ restoring' = restoring /\ db' = db /\ removed' = removed
             /\ \A b \in Actors \ {a} : ops'[b] = ops[b]

\* A request finds its client idle and the server serving.
LEMMA RequestLeaves ==
  ASSUME NEW n, OpsOK(n), NEW c \in Callers, Request(c)
  PROVE  Leaves(c) /\ phase = "serving"
<1> USE DEF OpsOK, Leaves, Call, Goto, persistVars, locks
<1>1. ASSUME NEW id, CreateCall(c, id) PROVE Leaves(c) /\ phase = "serving"
  BY <1>1 DEF CreateCall
<1>2. ASSUME NEW id, Kill(c, id) PROVE Leaves(c) /\ phase = "serving"
  BY <1>2 DEF Kill
<1>3. ASSUME NEW id, RemoveCall(c, id) PROVE Leaves(c) /\ phase = "serving"
  BY <1>3 DEF RemoveCall
<1>4. ASSUME NEW id, NEW name, RenameCall(c, id, name) PROVE Leaves(c) /\ phase = "serving"
  BY <1>4 DEF RenameCall
<1>5. ASSUME DisposeCall(c) PROVE Leaves(c) /\ phase = "serving"
  BY <1>5 DEF DisposeCall
<1> HIDE DEF OpsOK, Leaves, Call, Goto
<1> QED BY <1>1, <1>2, <1>3, <1>4, <1>5 DEF Request

\* So do the steps of a call in the server, and its client is not idle.
LEMMA CreateLeaves ==
  ASSUME NEW n, OpsOK(n), NEW c \in Calling, CreateStep(c)
  PROVE  Leaves(c) /\ ~At(c, "idle")
<1> USE DEF OpsOK, Leaves, Goto, persistVars, env, At
<1>1. CASE CreatePermit(c) BY <1>1 DEF CreatePermit
<1>2. CASE CreateEvict(c) BY <1>2 DEF CreateEvict
<1>3. CASE CreateReserve(c) BY <1>3 DEF CreateReserve
<1>4. CASE CreateSpawn(c) BY <1>4 DEF CreateSpawn
<1>5. CASE CreateSpawnFails(c) BY <1>5 DEF CreateSpawnFails
<1>6. CASE CreateAbandon(c) BY <1>6 DEF CreateAbandon
<1>7. CASE CreatePublish(c) BY <1>7 DEF CreatePublish
<1>8. CASE CreatePersist(c) BY <1>8 DEF CreatePersist
<1>9. CASE CreateStart(c) BY <1>9 DEF CreateStart
<1>10. CASE CreateStartFails(c) BY <1>10 DEF CreateStartFails
<1>11. CASE SendNext(c) BY <1>11 DEF SendNext
<1>12. CASE SendDone(c) BY <1>12 DEF SendDone
<1> HIDE DEF OpsOK, Leaves, Goto, At
<1> QED BY <1>1, <1>2, <1>3, <1>4, <1>5, <1>6, <1>7, <1>8, <1>9, <1>10, <1>11, <1>12 DEF CreateStep

\* A removal, a client's or the sweeper's.
LEMMA RemoveLeaves ==
  ASSUME NEW n, OpsOK(n), NEW c \in Clients, RemoveStep(c)
  PROVE  Leaves(c) /\ ~At(c, "idle")
<1> USE DEF OpsOK, Leaves, Goto, Return, persistVars, env, At
<1>1. CASE RemoveSend(c) BY <1>1 DEF RemoveSend
<1>2. CASE RemoveDone(c) BY <1>2 DEF RemoveDone
<1> QED BY <1>1, <1>2 DEF RemoveStep

\* A step of a client's call.
LEMMA CallLeaves ==
  ASSUME NEW n, OpsOK(n), NEW c \in Callers, CallStep(c)
  PROVE  Leaves(c) /\ ~At(c, "idle")
<1>0. c \in Calling /\ c \in Clients
  BY CallingFacts DEF Callers
<1>1. CASE CreateStep(c) \/ RemoveStep(c)
  BY <1>0, <1>1, CreateLeaves, RemoveLeaves
<1> USE DEF OpsOK, Leaves, Goto, Return, EndDispose, persistVars, env, At
<1>2. CASE CreateRecheck(c) BY <1>2 DEF CreateRecheck
<1>3. CASE CreateTargetLost(c) BY <1>3 DEF CreateTargetLost
<1>4. CASE RenameSend(c) BY <1>4 DEF RenameSend
<1>5. CASE RenameDone(c) BY <1>5 DEF RenameDone
<1>6. CASE DisposeStart(c) BY <1>6 DEF DisposeStart
<1>7. CASE DisposeRemove(c) BY <1>7 DEF DisposeRemove
<1>8. CASE DisposeEvict(c) BY <1>8 DEF DisposeEvict
<1>9. CASE DisposeError(c) BY <1>9 DEF DisposeError
<1>10. CASE DisposeFinish(c) BY <1>10 DEF DisposeFinish
<1> HIDE DEF OpsOK, Leaves, Goto, Return, EndDispose, At
<1> QED BY <1>1, <1>2, <1>3, <1>4, <1>5, <1>6, <1>7, <1>8, <1>9, <1>10 DEF CallStep

\* The sweeper's steps.
LEMMA SweepLeaves ==
  ASSUME NEW n, OpsOK(n), SweepBegin \/ SweepStep
  PROVE  Leaves(Sweeper) /\ (phase = "serving" \/ ~At(Sweeper, "idle"))
<1>0. Sweeper \in Clients
  BY CallingFacts
<1>1. CASE RemoveStep(Sweeper) BY <1>0, <1>1, RemoveLeaves
<1> USE DEF OpsOK, Leaves, Goto, persistVars, env, At
<1>2. CASE SweepBegin BY <1>2 DEF SweepBegin
<1>3. CASE SweepCheck BY <1>3 DEF SweepCheck
<1>4. CASE SweepRemove BY <1>4 DEF SweepRemove
<1> HIDE DEF OpsOK, Leaves, Goto, At
<1> QED BY <1>1, <1>2, <1>3, <1>4 DEF SweepStep

\* No command on its way removes anything.
NoRemoval == \A k \in 1..Len(chan) : chan[k].kind # "SessionRemoved"

\* A command that removes nothing is sent.
LEMMA SendKeeps ==
  ASSUME NEW n, ChanOK(n), NEW cmd, cmd.kind # "SessionRemoved", Send(cmd) \/ TrySend(cmd), NoRemoval
  PROVE  NoRemoval'
BY DEF ChanOK, NoRemoval, Send, TrySend

\* What a failure leaves to be sent removes nothing.
LEMMA FailuresKeep ==
  ASSUME NEW n, NEW cmd \in FailOf(n)
  PROVE  cmd.kind # "SessionRemoved"
BY DEF FailOf, MarksOf, UpsertsOf, FailureKinds

\* The commands of a failure remove nothing.
LEMMA SendNextKeeps ==
  ASSUME NEW n, OpsOK(n), ChanOK(n), NEW a \in Calling \cup {Sup}, SendNext(a), NoRemoval
  PROVE  NoRemoval'
<1>1. /\ At(a, "send") /\ ops[a].cmds # <<>> /\ Send(Head(ops[a].cmds))
  BY DEF SendNext
<1>2. ops[a].cmds \in Seq(FailOf(n))
  BY <1>1, CallAt, SupAt DEF At, AtSend, SupSend
<1>3. Head(ops[a].cmds) \in FailOf(n)
  BY <1>1, <1>2
<1> QED BY <1>1, <1>3, FailuresKeep, SendKeeps

\* Readers and the supervisor send no removal either.
LEMMA ReaderLeaves ==
  ASSUME NEW n, ChanOK(n), NEW i \in Incs, ReaderOutput(i) \/ ReaderExit(i) \/ ReaderStep(i)
  PROVE  /\ ops' = ops /\ phase' = phase /\ restoring' = restoring /\ db' = db /\ removed' = removed
         /\ NoRemoval => NoRemoval'
<1> USE DEF persistVars, env
<1>0. chan' = chan => (NoRemoval => NoRemoval')
  BY DEF NoRemoval
<1>1. CASE ReaderOutput(i)
  <2>1. chan' = chan \/ TrySend(BufferUpdate(sess[i].id, i, sess[i].out + 1))
    BY <1>1 DEF ReaderOutput
  <2> QED BY <1>0, <1>1, <2>1, SendKeeps DEF ReaderOutput, BufferUpdate
<1>2. CASE ReaderExit(i) BY <1>0, <1>2 DEF ReaderExit
<1>3. CASE ReaderLock(i) BY <1>0, <1>3 DEF ReaderLock
<1>4. CASE ReaderSnapshot(i) BY <1>4, SendKeeps DEF ReaderSnapshot, BufferUpdate
<1>5. CASE ReaderExited(i) BY <1>5, SendKeeps DEF ReaderExited, SessionExited
<1>6. CASE ReaderRespawn(i) BY <1>0, <1>6 DEF ReaderRespawn
<1>7. CASE ReaderEvent(i) BY <1>0, <1>7 DEF ReaderEvent
<1> QED BY <1>1, <1>2, <1>3, <1>4, <1>5, <1>6, <1>7 DEF ReaderStep

\* The supervisor writes nothing to the store and removes nothing.
LEMMA SupLeaves ==
  ASSUME NEW n, OpsOK(n), ChanOK(n), SupStep
  PROVE  Leaves(Sup) /\ (NoRemoval => NoRemoval')
<1>0. chan' = chan => (NoRemoval => NoRemoval')
  BY DEF NoRemoval
<1>1. CASE SendNext(Sup)
  BY <1>1, SendNextKeeps DEF SendNext, Leaves, OpsOK, env
<1>2. CASE SupPersist
  BY <1>2, SendKeeps DEF SupPersist, SessionCreated, Leaves, OpsOK, env
<1> USE <1>0 DEF OpsOK, Leaves, Goto, Return, persistVars, env
<1>3. CASE SupRecv BY <1>3 DEF SupRecv
<1>4. CASE SupCheck BY <1>4 DEF SupCheck
<1>5. CASE SupInvalid BY <1>5 DEF SupInvalid
<1>6. CASE SupReserve BY <1>6 DEF SupReserve
<1>7. CASE SupPermit BY <1>7 DEF SupPermit
<1>8. CASE SupSpawn BY <1>8 DEF SupSpawn
<1>9. CASE SupSpawnFails BY <1>9 DEF SupSpawnFails
<1>10. CASE SupAbandon BY <1>10 DEF SupAbandon
<1>11. CASE SupPublish BY <1>11 DEF SupPublish
<1>12. CASE SupStart BY <1>12 DEF SupStart
<1>13. CASE SupStartFails BY <1>13 DEF SupStartFails
<1>14. CASE SupSourceFailed BY <1>14 DEF SupSourceFailed
<1>15. CASE SendDone(Sup) BY <1>15 DEF SendDone
<1> HIDE DEF OpsOK, Leaves, Goto, Return
<1> QED BY <1>1, <1>2, <1>3, <1>4, <1>5, <1>6, <1>7, <1>8, <1>9, <1>10, <1>11, <1>12, <1>13, <1>14,
           <1>15 DEF SupStep

-----------------------------------------------------------------------------
(* The invariant of the start.                                             *)

BootOnly == {"load", "restore", "target", "permit", "evict", "reserve", "spawn", "publish",
             "persist", "start", "recheck", "send"}

\* Until the server serves only the main task calls and nothing is being removed.
Alone == phase = "boot" => (\A c \in Clients : At(c, "idle")) /\ NoRemoval

\* What restore_sessions has yet to visit has its row.
RowsLeft == phase = "boot" => \A id \in restoring.left : HasRow(db[id])

\* The main task restores before the server serves, and only then; the session it is at
\* had a row, and is not visited twice.
Visiting ==
  /\ ops[Main].at \in BootOnly <=> phase = "boot"
  /\ ops[Main].at \in BootOnly \ {"load", "restore"} => restoring.inc # 0
  /\ ops[Main].at \in BootOnly \ {"load", "restore", "send"}
       => ops[Main].id \notin restoring.left
  /\ At(Main, "send") => ops[Main].next.at = "recheck" /\ ops[Main].next.id \notin restoring.left

Booting == Alone /\ RowsLeft /\ Visiting

\* Whoever else moves while the server serves or stops.
LEMMA ServingBooting ==
  ASSUME NEW c \in Clients, Booting, Leaves(c), phase # "boot"
  PROVE  Booting'
<1>1. ops'[Main] = ops[Main]
  BY CallingFacts DEF Leaves, Calling
<1> QED BY <1>1 DEF Leaves, Booting, Alone, RowsLeft, Visiting, At

\* A step that leaves the callers and the store alone, and sends no removal.
LEMMA OutsideBooting ==
  ASSUME Booting, \A c \in Clients \cup {Main} : ops'[c] = ops[c],
         phase' = phase, restoring' = restoring, db' = db, NoRemoval => NoRemoval'
  PROVE  Booting'
BY DEF Booting, Alone, RowsLeft, Visiting, At

\* The main task's own create.
LEMMA CreateBooting ==
  ASSUME NEW n, OpsOK(n), ChanOK(n), Booting, CreateStep(Main)
  PROVE  Booting'
<1> DEFINE m == ops[Main]
<1>0. Main \in Calling /\ Main \in Actors /\ Clients \subseteq Actors \ {Main}
  BY CallingFacts DEF Calling, Actors
<1>1. Leaves(Main)
  BY <1>0, CreateLeaves
<1>2. phase = "boot" /\ m.at \in {"permit", "evict", "reserve", "spawn", "publish", "persist",
                                  "start", "send"}
  BY DEF Booting, Visiting, BootOnly, At, CreateStep, CreatePermit, CreateEvict, CreateReserve,
         CreateSpawn, CreateSpawnFails, CreateAbandon, CreatePublish, CreatePersist, CreateStart,
         CreateStartFails, SendNext, SendDone
<1>3. restoring.inc # 0 /\ (m.at # "send" => m.id \notin restoring.left)
      /\ (m.at = "send" => m.next.at = "recheck" /\ m.next.id \notin restoring.left)
  BY <1>2 DEF Booting, Visiting, BootOnly, At
<1>4. NoRemoval
  BY <1>2 DEF Booting, Alone
<1>5. NoRemoval'
  <2>1. CASE SendNext(Main)
    BY <1>0, <1>4, <2>1, SendNextKeeps
  <2>2. CASE CreatePersist(Main)
    BY <1>4, <2>2, SendKeeps DEF CreatePersist, SessionCreated
  <2>3. CASE chan' = chan
    BY <1>4, <2>3 DEF NoRemoval
  <2>4. SendNext(Main) \/ CreatePersist(Main) \/ chan' = chan
    BY DEF CreateStep, persistVars, CreatePermit, CreateEvict, CreateReserve, CreateSpawn,
           CreateSpawnFails, CreateAbandon, CreatePublish, CreateStart, CreateStartFails, SendDone
  <2> QED BY <2>1, <2>2, <2>3, <2>4
<1>6. \/ /\ ops'[Main].at \in {"evict", "reserve", "spawn", "publish", "persist", "start", "recheck"}
         /\ ops'[Main].id \notin restoring.left
      \/ /\ ops'[Main].at = "send"
         /\ ops'[Main].next.at = "recheck" /\ ops'[Main].next.id \notin restoring.left
      \/ ops'[Main].at = "restore"
  <2> USE <1>0, <1>2, <1>3 DEF OpsOK, Goto, At
  <2>0. m \in CallOp(n)
    BY CallAt
  <2>1. CASE CreatePermit(Main)
    <3>1. m \in AtEntry
      BY <2>1, CallAt DEF CreatePermit
    <3> QED BY <2>1, <3>1 DEF CreatePermit, AtEntry
  <2>2. CASE CreateEvict(Main)
    BY <2>2 DEF CreateEvict
  <2>3. CASE CreateReserve(Main)
    BY <2>3 DEF CreateReserve
  <2>4. CASE CreateSpawn(Main) \/ CreatePublish(Main) \/ CreatePersist(Main)
    <3>1. m \in AtSpawn(n)
      BY <2>4, CallAt DEF CreateSpawn, CreatePublish, CreatePersist
    <3> QED BY <2>4, <3>1 DEF CreateSpawn, CreatePublish, CreatePersist, AtSpawn
  <2>5. CASE CreateSpawnFails(Main) \/ CreateStartFails(Main)
    <3>1. /\ m.at # "send" /\ AfterFailure(Main) = [at |-> "recheck", id |-> m.id]
          /\ \E cmds, keep : ops' = [ops EXCEPT ![Main] = Sending(cmds, AfterFailure(Main), keep)]
      BY <2>5 DEF CreateSpawnFails, CreateStartFails, AfterFailure
    <3>2. PICK cmds, keep :
            ops'[Main] = Sending(cmds, [at |-> "recheck", id |-> m.id], keep)
      BY <3>1
    <3> QED BY <3>1, <3>2 DEF Sending
  <2>6. CASE CreateAbandon(Main)
    BY <2>6 DEF CreateAbandon, AfterFailure
  <2>7. CASE CreateStart(Main)
    BY <2>7 DEF CreateStart, AfterCreate
  <2>8. CASE SendNext(Main)
    <3>1. m \in AtSend(n)
      BY <2>8, CallAt DEF SendNext
    <3> QED BY <2>8, <3>1 DEF SendNext, AtSend
  <2>9. CASE SendDone(Main)
    BY <2>9 DEF SendDone
  <2> QED BY <2>1, <2>2, <2>3, <2>4, <2>5, <2>6, <2>7, <2>8, <2>9 DEF CreateStep
<1> QED BY <1>0, <1>1, <1>2, <1>3, <1>5, <1>6
        DEF Leaves, Booting, Alone, RowsLeft, Visiting, BootOnly, At

\* restore_sessions_inner: what is left has a row, what is at hand was taken out of it.
LEMMA RestoreBooting ==
  ASSUME NEW n, OpsOK(n), EnvOK(n), DbOK(n), ChanOK(n), Booting, RestoreStep
  PROVE  Booting'
<1> DEFINE m == ops[Main]
<1>0. Main \in Calling /\ Main \in Actors /\ Clients \subseteq Actors \ {Main}
  BY CallingFacts DEF Calling, Actors
<1>1. CASE CreateStep(Main)
  BY <1>1, CreateBooting
<1>2. CASE RestoreStep /\ ~CreateStep(Main)
  <2> USE <1>0 DEF Goto, At
  <2>1. /\ phase = "boot" /\ (\A c \in Clients : ops'[c] = ops[c]) /\ chan' = chan
        /\ phase' = phase \/ (RestoreDone /\ phase' = "serving")
    BY <1>2 DEF Booting, Visiting, BootOnly, RestoreStep, RestoreLoad, RestoreNext, RestoreDelete,
                RestoreUnavailable, RestoreCreate, RestoreDone, Return, OpsOK, env, persistVars
  <2>2. NoRemoval' /\ Alone'
    BY <2>1 DEF Booting, Alone, NoRemoval
  <2>3. CASE RestoreLoad
    <3>1. /\ ops'[Main] = [at |-> "restore"]
          /\ \A id \in restoring'.left : HasRow(db'[id])
      BY <2>3 DEF RestoreLoad, OpsOK, Loadable, NotRestoring
    <3> QED BY <2>1, <2>2, <2>3, <3>1 DEF RestoreLoad, Booting, RowsLeft, Visiting, BootOnly
  <2>4. ASSUME NEW id \in Ids, RestoreNext(id) PROVE Booting'
    <3>1. /\ id \in restoring.left /\ ops'[Main] = [at |-> "target", id |-> id, name |-> db[id].name]
          /\ restoring' = [left |-> restoring.left \ {id}, inc |-> db[id].inc, name |-> db[id].name]
          /\ phase' = phase /\ db' = db
      BY <2>4 DEF RestoreNext, OpsOK, locks, persistVars
    <3>2. HasRow(db[id])
      BY <2>1, <3>1 DEF Booting, RowsLeft
    <3> QED BY <2>1, <2>2, <3>1, <3>2 DEF Booting, RowsLeft, Visiting, BootOnly, HasRow
  <2>5. CASE RestoreDelete
    <3>1. /\ m.at \in {"target", "recheck"} /\ m.id \notin restoring.left
          /\ ops'[Main] = [at |-> "restore"] /\ restoring' = restoring /\ phase' = phase
          /\ db' = [db EXCEPT ![m.id] = delete_session(@, restoring.inc)]
      BY <2>5 DEF RestoreDelete, Deleted, Booting, Visiting, BootOnly, OpsOK, env
    <3>2. \A id \in restoring.left : db'[id] = db[id]
      BY <3>1 DEF EnvOK, DbOK
    <3> QED BY <2>1, <2>2, <3>1, <3>2 DEF Booting, RowsLeft, Visiting, BootOnly, HasRow
  <2>6. CASE RestoreUnavailable
    <3>1. /\ m.at \in {"target", "recheck"} /\ m.id \notin restoring.left
          /\ ops'[Main] = [at |-> "restore"] /\ restoring' = restoring /\ phase' = phase
          /\ db' = [db EXCEPT ![m.id] = mark_session_target_unavailable(@, restoring.inc)]
      BY <2>6 DEF RestoreUnavailable, Booting, Visiting, BootOnly, OpsOK, env
    <3>2. \A id \in restoring.left : db'[id] = db[id]
      BY <3>1 DEF EnvOK, DbOK
    <3> QED BY <2>1, <2>2, <3>1, <3>2 DEF Booting, RowsLeft, Visiting, BootOnly, HasRow
  <2>7. CASE RestoreCreate
    <3>1. m.at = "target" /\ m \in AtEntry
      BY <2>7, CallAt DEF RestoreCreate
    <3>2. /\ ops'[Main].at = "permit" /\ ops'[Main].id = m.id
          /\ restoring' = restoring /\ phase' = phase /\ db' = db
      BY <2>7, <3>1 DEF RestoreCreate, OpsOK, AtEntry, env, persistVars
    <3> QED BY <2>1, <2>2, <3>1, <3>2 DEF Booting, RowsLeft, Visiting, BootOnly
  <2>8. CASE RestoreDone
    <3>1. ops'[Main] = Idle /\ phase' = "serving"
      BY <2>8 DEF RestoreDone, Return, OpsOK
    <3> QED BY <2>2, <3>1 DEF Booting, RowsLeft, Visiting, BootOnly, Idle
  <2> QED BY <1>2, <2>3, <2>4, <2>5, <2>6, <2>7, <2>8 DEF RestoreStep
<1> QED BY <1>1, <1>2

\* The main task's way down, and the next start.
LEMMA ShutdownBooting ==
  ASSUME NEW n, OpsOK(n), ChanOK(n), Booting, ShutdownBegin \/ ShutdownStep \/ Crash
  PROVE  Booting'
<1>0. Main \in Calling /\ Main \in Actors /\ Clients \subseteq Actors \ {Main}
  BY CallingFacts DEF Calling, Actors
<1>1. CASE Boot
  <2>1. /\ phase' = "boot" /\ ops'[Main] = [at |-> "load"] /\ \A c \in Clients : ops'[c] = Idle
        /\ restoring' = NotRestoring /\ chan' = <<>>
    BY <1>0, <1>1 DEF Boot, PersistRestart
  <2> QED BY <2>1 DEF Booting, Alone, RowsLeft, Visiting, BootOnly, At, Idle, NoRemoval, NotRestoring
<1>2. CASE ShutdownBegin
  <2>1. phase' = "stopping" /\ ops'[Main] = [at |-> "snapshot"]
    BY <1>0, <1>2 DEF ShutdownBegin, Goto, OpsOK
  <2> QED BY <2>1 DEF Booting, Alone, RowsLeft, Visiting, BootOnly, At
<1>3. CASE ShutdownStep /\ ~Boot
  <2>1. phase' = phase /\ ops[Main].at \notin BootOnly /\ ops'[Main].at \notin BootOnly
    BY <1>0, <1>3 DEF ShutdownStep, ShutdownDone, SnapshotTake, SnapshotSend, StopAll, ShutdownClose,
         ShutdownDispose, ShutdownWorker, Return, Goto, At, BootOnly, OpsOK, env
  <2> QED BY <2>1 DEF Booting, Alone, RowsLeft, Visiting, BootOnly, At
<1> QED BY <1>1, <1>2, <1>3 DEF ShutdownStep, ShutdownDone, Crash

-----------------------------------------------------------------------------
(* The worker's transactions, as operations of the store.                  *)

\* The store's transactions are those the worker runs.
LEMMA SameTransactions ==
  ASSUME NEW e, NEW inc, NEW name, NEW x, NEW y
  PROVE  /\ Store!save_session(e, inc, name, x) = save_session(e, inc, name, x)
         /\ Store!mark_session_dead(e, inc) = mark_session_dead(e, inc)
         /\ Store!mark_session_target_unavailable(e, inc) = mark_session_target_unavailable(e, inc)
         /\ Store!save_buffer(e, inc, x) = save_buffer(e, inc, x)
         /\ Store!rename_session(e, inc, name) = rename_session(e, inc, name)
         /\ Store!delete_session(e, inc) = delete_session(e, inc)
         /\ Store!cleanup_dead(e) = cleanup_dead(e)
         /\ Store!cleanup_expired(e) = cleanup_expired(e)
         /\ Store!MaxNat(x, y) = MaxNat(x, y)
         /\ Store!HasRow(e) <=> HasRow(e)
         /\ Store!EmptyEntry = EmptyEntry
<1> USE DEF Store!HasRow, HasRow, Store!MaxNat, MaxNat
<1>1. Store!save_session(e, inc, name, x) = save_session(e, inc, name, x)
  BY DEF Store!save_session, save_session
<1>2. /\ Store!mark_session_dead(e, inc) = mark_session_dead(e, inc)
      /\ Store!mark_session_target_unavailable(e, inc) = mark_session_target_unavailable(e, inc)
      /\ Store!save_buffer(e, inc, x) = save_buffer(e, inc, x)
  BY DEF Store!mark_session_dead, mark_session_dead, Store!mark_session_target_unavailable,
         mark_session_target_unavailable, Store!save_buffer, save_buffer
<1>3. Store!rename_session(e, inc, name) = rename_session(e, inc, name)
  BY DEF Store!rename_session, rename_session, Store!Renames, Renames
<1>4. Store!EmptyEntry = EmptyEntry /\ Store!NoBuffer = NoBuffer
  BY DEF Store!EmptyEntry, EmptyEntry, Store!NoBuffer, NoBuffer
<1>5. \A i : Store!delete_session(e, i) = delete_session(e, i)
  BY <1>4 DEF Store!delete_session, delete_session
<1>6. Store!cleanup_dead(e) = cleanup_dead(e)
  BY <1>5 DEF Store!cleanup_dead, cleanup_dead
<1>7. Store!cleanup_expired(e) = cleanup_expired(e)
  BY <1>4 DEF Store!cleanup_expired, cleanup_expired
<1> QED BY <1>1, <1>2, <1>3, <1>4, <1>5, <1>6, <1>7

\* The incarnations below the allocator's next are the instance's.
LEMMA GivenInBounds ==
  ASSUME NEW n \in Nat \ {0}, n \in 1..(MaxInc + 1)
  PROVE  Given(n) \subseteq Incs
BY BoundsAssumption DEF Given, Incs

\* A store operation on one id that keeps the row it has, or a stutter.
Rewrites == \/ db' = db /\ removed' = removed
            \/ \E id \in Ids : /\ \/ Store!Save(id) \/ Store!MarkDead(id) \/ Store!MarkUnavailable(id)
                                  \/ Store!SaveBuffer(id) \/ Store!Rename(id)
                               /\ HasRow(db[id]) => HasRow(db'[id])

\* A command of the worker that deletes nothing.
LEMMA CommitRewrites ==
  ASSUME NEW n \in Nat \ {0}, n \in 1..(MaxInc + 1), DbOK(n), NEW id \in Ids, NEW inc \in Given(n),
         NEW kind, NEW name \in NameSet, NEW un \in BOOLEAN, NEW total \in 0..Fuel,
         removed' = removed,
         \/ Commit(kind, id, save_session(db[id], inc, name, un))
         \/ Commit(kind, id, mark_session_dead(db[id], inc))
         \/ Commit(kind, id, mark_session_target_unavailable(db[id], inc))
         \/ Commit(kind, id, save_buffer(db[id], inc, total))
         \/ Commit(kind, id, rename_session(db[id], inc, name))
  PROVE  Rewrites
<1>0. inc \in Incs /\ db[id] \in EntryOf(n) /\ n \in Nat /\ db \in [Ids -> EntryOf(n)]
  BY GivenInBounds DEF DbOK
<1> USE <1>0 DEF Commit, Rewrites, Store!Write
<1>1. CASE db' = db
  BY <1>1
<1>2. CASE db' = [db EXCEPT ![id] = save_session(db[id], inc, name, un)]
  <2>1. db'[id] = save_session(db[id], inc, name, un)
    BY <1>2
  <2>2. HasRow(db[id]) => HasRow(db'[id])
    BY <2>1, SaveKept
  <2>3. Store!Save(id)
    <3>1. Store!save_session(db[id], inc, name, un) = save_session(db[id], inc, name, un)
      BY SameTransactions
    <3>2. Store!Write(id, Store!save_session(db[id], inc, name, un))
      BY <1>2, <3>1
    <3> QED BY <3>2 DEF Store!Save, NameSet
  <2> QED BY <2>2, <2>3
<1>3. CASE db' = [db EXCEPT ![id] = mark_session_dead(db[id], inc)]
  <2>1. HasRow(db[id]) => HasRow(db'[id])
    BY <1>3, MarksSameRow, SameRowKept DEF NameSet
  <2>2. Store!MarkDead(id)
    BY <1>3, SameTransactions DEF Store!MarkDead
  <2> QED BY <2>1, <2>2
<1>4. CASE db' = [db EXCEPT ![id] = mark_session_target_unavailable(db[id], inc)]
  <2>1. HasRow(db[id]) => HasRow(db'[id])
    BY <1>4, MarksSameRow, SameRowKept DEF NameSet
  <2>2. Store!MarkUnavailable(id)
    BY <1>4, SameTransactions DEF Store!MarkUnavailable
  <2> QED BY <2>1, <2>2
<1>5. CASE db' = [db EXCEPT ![id] = save_buffer(db[id], inc, total)]
  <2>1. HasRow(db[id]) => HasRow(db'[id])
    BY <1>5, SaveBufferSameRow, SameRowKept
  <2>2. Store!SaveBuffer(id)
    BY <1>5, SameTransactions DEF Store!SaveBuffer
  <2> QED BY <2>1, <2>2
<1>6. CASE db' = [db EXCEPT ![id] = rename_session(db[id], inc, name)]
  <2>1. HasRow(db[id]) => HasRow(db'[id])
    BY <1>6, MarksSameRow, SameRowKept
  <2>2. Store!Rename(id)
    BY <1>6, SameTransactions DEF Store!Rename, NameSet
  <2> QED BY <2>1, <2>2
<1> HIDE DEF Rewrites
<1> QED BY <1>1, <1>2, <1>3, <1>4, <1>5, <1>6

\* What a step of the worker is to the store.
LEMMA WorkerStores ==
  ASSUME NEW n \in Nat \ {0}, n \in 1..(MaxInc + 1), ChanOK(n), WorkOK(n), DbOK(n), WorkerStep
  PROVE  \/ Rewrites
         \/ Receive("SessionRemoved") /\ \E id \in Ids : Store!Delete(id)
<1> DEFINE cmd == Head(chan)
<1>0. NoName \in NameSet /\ 0 \in 0..Fuel
  BY BoundsAssumption DEF NameSet
<1>1. CASE HandleBufferUpdate \/ HandleShutdown \/ FlushTimer \/ FlushDone
  BY <1>1 DEF HandleBufferUpdate, HandleShutdown, FlushTimer, FlushDone, Rewrites
<1>2. CASE HandleSessionCreated \/ HandleSessionTargetUnavailableUpsert
  <2>1. PICK kind \in {"SessionCreated", "SessionTargetUnavailableUpsert"}, un \in BOOLEAN :
          /\ Receive(kind)
          /\ Commit(cmd.kind, cmd.id, save_session(db[cmd.id], cmd.inc, cmd.name, un))
          /\ removed' = removed
    BY <1>2 DEF HandleSessionCreated, HandleSessionTargetUnavailableUpsert
  <2>2. cmd.id \in Ids /\ cmd.inc \in Given(n) /\ cmd.name \in NameSet
    BY <2>1, ReceiveFacts
  <2> HIDE DEF cmd
  <2> QED BY <1>0, <2>1, <2>2, CommitRewrites
<1>3. CASE HandleSessionDead
  <2>1. /\ cmd.id \in Ids /\ cmd.inc \in Given(n) /\ removed' = removed
        /\ Commit(cmd.kind, cmd.id, mark_session_dead(db[cmd.id], cmd.inc))
    BY <1>3, ReceiveFacts DEF HandleSessionDead
  <2> HIDE DEF cmd
  <2> QED BY <2>1, <1>0, CommitRewrites
<1>4. CASE HandleSessionTargetUnavailable
  <2>1. /\ cmd.id \in Ids /\ cmd.inc \in Given(n) /\ removed' = removed
        /\ Commit(cmd.kind, cmd.id, mark_session_target_unavailable(db[cmd.id], cmd.inc))
    BY <1>4, ReceiveFacts DEF HandleSessionTargetUnavailable
  <2> HIDE DEF cmd
  <2> QED BY <2>1, <1>0, CommitRewrites
<1>5. CASE MarkExited
  <2>1. /\ worker.id \in Ids /\ worker.inc \in Given(n) /\ removed' = removed
        /\ Commit("SessionExited", worker.id, mark_session_dead(db[worker.id], worker.inc))
    BY <1>5 DEF MarkExited, WorkOK, WorkerOf
  <2> QED BY <2>1, <1>0, CommitRewrites
<1>6. CASE HandleSessionExited
  <2>1. /\ cmd.id \in Ids /\ cmd.inc \in Given(n) /\ removed' = removed
        /\ \/ db' = db
           \/ \E b \in batch : /\ b.inc = cmd.inc
                               /\ Commit("BufferUpdate", cmd.id, save_buffer(db[cmd.id], b.inc, b.total))
    BY <1>6, ReceiveFacts DEF HandleSessionExited
  <2>2. \A b \in batch : b.total \in 0..Fuel
    BY DEF WorkOK, SnapEntry
  <2> HIDE DEF cmd
  <2>3. CASE db' = db
    BY <2>1, <2>3 DEF Rewrites
  <2>4. ASSUME NEW b \in batch, b.inc = cmd.inc,
               Commit("BufferUpdate", cmd.id, save_buffer(db[cmd.id], b.inc, b.total))
        PROVE  Rewrites
    BY <2>1, <2>2, <2>4, <1>0, CommitRewrites
  <2> QED BY <2>1, <2>3, <2>4
<1>7. CASE FlushOne
  <2>1. PICK b \in batch : Commit("BufferUpdate", b.id, save_buffer(db[b.id], b.inc, b.total))
    BY <1>7 DEF FlushOne
  <2>2. b.id \in Ids /\ b.inc \in Given(n) /\ b.total \in 0..Fuel /\ removed' = removed
    BY <1>7 DEF FlushOne, WorkOK, SnapEntry
  <2> QED BY <2>1, <2>2, <1>0, CommitRewrites
<1>8. CASE HandleSessionRenamed
  <2>1. /\ cmd.id \in Ids /\ cmd.inc \in Given(n) /\ cmd.name \in NameSet /\ removed' = removed
        /\ \/ db' = [db EXCEPT ![cmd.id] = rename_session(db[cmd.id], cmd.inc, cmd.name)]
           \/ db' = db
    BY <1>8, ReceiveFacts DEF HandleSessionRenamed
  <2> HIDE DEF cmd
  <2>2. CASE db' = db
    BY <2>1, <2>2 DEF Rewrites
  <2>3. CASE db' = [db EXCEPT ![cmd.id] = rename_session(db[cmd.id], cmd.inc, cmd.name)]
    BY <2>1, <2>3, <1>0, CommitRewrites DEF Commit
  <2> QED BY <2>1, <2>2, <2>3
<1>9. CASE HandleSessionRemoved
  <2>1. /\ Receive("SessionRemoved") /\ cmd.id \in Ids /\ cmd.inc \in Incs
        /\ \/ /\ db' = [db EXCEPT ![cmd.id] = delete_session(db[cmd.id], cmd.inc)]
              /\ removed' = [removed EXCEPT ![cmd.id] = MaxNat(removed[cmd.id], cmd.inc)]
           \/ db' = db /\ removed' = removed
    BY <1>9, ReceiveFacts, GivenInBounds DEF HandleSessionRemoved
  <2> HIDE DEF cmd
  <2>2. CASE db' = db /\ removed' = removed
    BY <2>2 DEF Rewrites
  <2>3. CASE /\ db' = [db EXCEPT ![cmd.id] = delete_session(db[cmd.id], cmd.inc)]
             /\ removed' = [removed EXCEPT ![cmd.id] = MaxNat(removed[cmd.id], cmd.inc)]
    <3>1. /\ Store!delete_session(db[cmd.id], cmd.inc) = delete_session(db[cmd.id], cmd.inc)
          /\ Store!MaxNat(removed[cmd.id], cmd.inc) = MaxNat(removed[cmd.id], cmd.inc)
      BY SameTransactions
    <3> QED BY <2>1, <2>3, <3>1 DEF Store!Delete
  <2> QED BY <2>1, <2>2, <2>3
<1> QED BY <1>1, <1>2, <1>3, <1>4, <1>5, <1>6, <1>7, <1>8, <1>9 DEF WorkerStep

\* Before the server serves the worker takes no row away.
LEMMA WorkBooting ==
  ASSUME NEW n \in Nat \ {0}, Typed(n), Booting, Work
  PROVE  Booting'
<1>1. /\ WorkerStep /\ ops' = ops /\ phase' = phase /\ restoring' = restoring
      /\ n \in 1..(MaxInc + 1) /\ ChanOK(n) /\ WorkOK(n) /\ DbOK(n) /\ EnvOK(n)
  BY DEF Work, env, Typed, MemoryOK, Others
<1>2. chan' = chan \/ (chan # <<>> /\ chan' = Tail(chan))
  BY <1>1 DEF WorkerStep, Receive, HandleBufferUpdate, HandleSessionCreated, HandleSessionExited,
       MarkExited, HandleSessionDead, HandleSessionTargetUnavailable,
       HandleSessionTargetUnavailableUpsert, HandleSessionRenamed, HandleSessionRemoved,
       HandleShutdown, FlushTimer, FlushOne, FlushDone
<1>3. NoRemoval => NoRemoval'
  <2>1. CASE chan' = chan
    BY <2>1 DEF NoRemoval
  <2>2. CASE chan # <<>> /\ chan' = Tail(chan)
    <3>1. chan \in Seq(CmdOf(n))
      BY <1>1 DEF ChanOK
    <3>2. \A k \in 1..Len(Tail(chan)) : Tail(chan)[k] = chan[k + 1] /\ k + 1 \in 1..Len(chan)
      BY <2>2, <3>1
    <3> QED BY <2>2, <3>2 DEF NoRemoval
  <2> QED BY <1>2, <2>1, <2>2
<1>4. ASSUME phase = "boot" PROVE \A id \in restoring.left : HasRow(db'[id])
  <2>1. ~Receive("SessionRemoved")
    <3>1. NoRemoval
      BY <1>4 DEF Booting, Alone
    <3>2. chan \in Seq(CmdOf(n))
      BY <1>1 DEF ChanOK
    <3> QED BY <3>1, <3>2 DEF NoRemoval, Receive
  <2>2. Rewrites
    BY <1>1, <2>1, WorkerStores
  <2>3. \A id \in Ids : HasRow(db[id]) => HasRow(db'[id])
    <3>1. CASE db' = db
      BY <3>1
    <3>2. ASSUME NEW j \in Ids, HasRow(db[j]) => HasRow(db'[j]),
                 \/ Store!Save(j) \/ Store!MarkDead(j) \/ Store!MarkUnavailable(j)
                 \/ Store!SaveBuffer(j) \/ Store!Rename(j)
          PROVE  \A id \in Ids : HasRow(db[id]) => HasRow(db'[id])
      <4>1. \E e : db' = [db EXCEPT ![j] = e]
        BY <3>2 DEF Store!Save, Store!MarkDead, Store!MarkUnavailable, Store!SaveBuffer,
             Store!Rename, Store!Write
      <4> QED BY <1>1, <3>2, <4>1 DEF DbOK
    <3> QED BY <2>2, <3>1, <3>2 DEF Rewrites
  <2>4. restoring.left \subseteq Ids
    BY <1>1 DEF EnvOK
  <2> QED BY <1>4, <2>3, <2>4 DEF Booting, RowsLeft
<1> QED BY <1>1, <1>3, <1>4 DEF Booting, Alone, RowsLeft, Visiting, At

-----------------------------------------------------------------------------
(* The invariant of the start, in every behaviour.                         *)

\* restore_sessions runs alone: until the server serves, no client's call is under way, no
\* removal is queued, and every session it has yet to visit still has its row.
THEOREM PtyBooting == Spec => []Booting
<1>1. Init => Booting
  BY DEF Init, PersistInit, Booting, Alone, RowsLeft, Visiting, BootOnly, At, Idle, Actors
<1>2. PtyTyped /\ Booting /\ [Next]_vars => Booting'
  <2> SUFFICES ASSUME PtyTyped, Booting, [Next]_vars PROVE Booting'
    OBVIOUS
  <2>1. PICK n \in Nat \ {0} : Typed(n)
    BY DEF PtyTyped
  <2>2. OpsOK(n) /\ EnvOK(n) /\ DbOK(n) /\ ChanOK(n)
    BY <2>1 DEF Typed, Others
  <2>3. \A c \in Callers : c \in Clients /\ c \in Calling
    BY CallingFacts DEF Callers
  <2>4. CASE UNCHANGED vars \/ Rest
    BY <2>4 DEF Rest, vars, env, persistVars, Booting, Alone, RowsLeft, Visiting, NoRemoval, At
  <2>5. ASSUME NEW c \in Callers, Request(c) \/ CallStep(c) PROVE Booting'
    <3>1. Leaves(c) /\ (phase = "serving" \/ ~At(c, "idle"))
      BY <2>2, <2>5, RequestLeaves, CallLeaves
    <3> QED BY <2>3, <3>1, ServingBooting DEF Booting, Alone
  <2>6. CASE SweepBegin \/ SweepStep
    BY <2>2, <2>6, SweepLeaves, ServingBooting, CallingFacts DEF Booting, Alone
  <2>7. CASE \E i \in Incs : ReaderOutput(i) \/ ReaderExit(i) \/ ReaderStep(i)
    BY <2>2, <2>7, ReaderLeaves, OutsideBooting
  <2>8. CASE SupStep
    <3>1. \A c \in Clients \cup {Main} : c \in Actors \ {Sup}
      BY CallingFacts DEF Calling
    <3> QED BY <2>2, <2>8, <3>1, SupLeaves, OutsideBooting DEF Leaves
  <2>9. CASE RestoreStep
    BY <2>2, <2>9, RestoreBooting
  <2>10. CASE ShutdownBegin \/ ShutdownStep \/ Crash
    BY <2>2, <2>10, ShutdownBooting
  <2>11. CASE Work
    BY <2>1, <2>11, WorkBooting
  <2> QED BY <2>4, <2>5, <2>6, <2>7, <2>8, <2>9, <2>10, <2>11 DEF Next
<1> QED BY <1>1, <1>2, PtyTypes, PTL DEF Spec

-----------------------------------------------------------------------------
(* The refinement.                                                         *)

\* What restore_sessions is to the store.
LEMMA RestoreStores ==
  ASSUME NEW n \in Nat \ {0}, Typed(n), Booting, RestoreStep
  PROVE  Store!Next \/ (db' = db /\ removed' = removed)
<1>0. Main \in Calling /\ OpsOK(n) /\ EnvOK(n) /\ DbOK(n) /\ n \in 1..(MaxInc + 1)
  BY CallingFacts DEF Typed, Others, MemoryOK
<1>1. CASE CreateStep(Main)
  BY <1>0, <1>1, CreateLeaves DEF Leaves
<1>2. CASE (\E id \in Ids : RestoreNext(id)) \/ RestoreCreate
  BY <1>2 DEF RestoreNext, RestoreCreate, persistVars
<1>3. CASE RestoreLoad
  <2>1. \A id \in Ids : db[id] \in EntryOf(n)
    BY <1>0 DEF DbOK
  <2>2. \A id \in Ids : (cleanup_dead(db[id]) = db[id]) <=> ~(HasRow(db[id]) /\ ~db[id].alive)
    <3> TAKE id \in Ids
    <3>1. CASE ~(HasRow(db[id]) /\ ~db[id].alive)
      BY <3>1 DEF cleanup_dead
    <3>2. CASE HasRow(db[id]) /\ ~db[id].alive
      <4> DEFINE e    == db[id]
                 mark == MaxNat(e.removal, e.inc)
      <4>1. e.inc \in Nat /\ e.removal \in Nat
        BY <2>1 DEF EntryOf, Entry
      <4>2. ~(e.inc > mark)
        BY <4>1 DEF MaxNat
      <4>3. \E ports : cleanup_dead(e) = [EmptyEntry EXCEPT !.removal = mark, !.ports = ports]
        BY <3>2, <4>2 DEF cleanup_dead, delete_session
      <4>4. cleanup_dead(e).inc = 0
        BY <4>3 DEF EmptyEntry
      <4> QED BY <3>2, <4>4 DEF HasRow
    <3> QED BY <3>1, <3>2
  <2>3. /\ db' = [id \in Ids |-> cleanup_dead(db[id])]
        /\ removed' = [id \in Ids |-> IF HasRow(db[id]) /\ ~db[id].alive
                                      THEN MaxNat(removed[id], db[id].inc) ELSE removed[id]]
    BY <1>3, <2>2 DEF RestoreLoad
  <2>4. Store!CleanupDead
    BY <2>3, SameTransactions DEF Store!CleanupDead
  <2> QED BY <2>4 DEF Store!Next
<1>4. CASE RestoreDelete \/ RestoreUnavailable
  <2>1. ops[Main].at \in {"target", "recheck"}
    BY <1>4 DEF RestoreDelete, RestoreUnavailable, At
  <2>2. restoring.inc \in Incs
    <3>1. restoring.inc # 0 /\ restoring.inc \in OrNone(n)
      BY <1>0, <2>1 DEF Booting, Visiting, BootOnly, EnvOK
    <3> QED BY <1>0, <3>1, BoundsAssumption DEF OrNone, Incs
  <2>3. ops[Main].id \in Ids
    BY <1>0, <2>1, CallAt DEF AtEntry, AtRecheck
  <2>4. CASE RestoreDelete
    <3>1. /\ db' = [db EXCEPT ![ops[Main].id] = delete_session(db[ops[Main].id], restoring.inc)]
          /\ removed' = [removed EXCEPT ![ops[Main].id] = MaxNat(removed[ops[Main].id], restoring.inc)]
      BY <2>4 DEF RestoreDelete, Deleted
    <3>2. /\ Store!delete_session(db[ops[Main].id], restoring.inc)
               = delete_session(db[ops[Main].id], restoring.inc)
          /\ Store!MaxNat(removed[ops[Main].id], restoring.inc)
               = MaxNat(removed[ops[Main].id], restoring.inc)
      BY SameTransactions
    <3>3. Store!Delete(ops[Main].id)
      BY <2>2, <3>1, <3>2 DEF Store!Delete
    <3> QED BY <2>3, <3>3 DEF Store!Next
  <2>5. CASE RestoreUnavailable
    <3>1. /\ db' = [db EXCEPT ![ops[Main].id]
                      = mark_session_target_unavailable(db[ops[Main].id], restoring.inc)]
          /\ removed' = removed
      BY <2>5 DEF RestoreUnavailable
    <3>2. Store!mark_session_target_unavailable(db[ops[Main].id], restoring.inc)
            = mark_session_target_unavailable(db[ops[Main].id], restoring.inc)
      BY SameTransactions
    <3>3. Store!MarkUnavailable(ops[Main].id)
      BY <2>2, <3>1, <3>2 DEF Store!MarkUnavailable, Store!Write
    <3> QED BY <2>3, <3>3 DEF Store!Next
  <2> QED BY <1>4, <2>4, <2>5
<1>5. CASE RestoreDone
  <2>1. PICK old \in SUBSET Ids :
          db' = [id \in Ids |-> IF id \in old THEN cleanup_expired(db[id]) ELSE db[id]]
    BY <1>5 DEF RestoreDone
  <2>2. removed' = removed
    BY <1>5 DEF RestoreDone
  <2>3. Store!CleanupExpired
    BY <2>1, <2>2, SameTransactions DEF Store!CleanupExpired
  <2> QED BY <2>3 DEF Store!Next
<1> QED BY <1>1, <1>2, <1>3, <1>4, <1>5 DEF RestoreStep

\* Every step of the manager, its tasks and the worker is one operation of the store, or
\* none: StoreSpec, for every instance.
THEOREM PtyImplementsStore == Spec => StoreSpec
<1>1. Init => Store!Init
  BY SameTransactions DEF Init, Store!Init
<1>2. PtyTyped /\ Booting /\ [Next]_vars => [Store!Next]_(Store!vars)
  <2> SUFFICES ASSUME PtyTyped, Booting, [Next]_vars
               PROVE  Store!Next \/ (db' = db /\ removed' = removed)
    BY DEF Store!vars
  <2>1. PICK n \in Nat \ {0} : Typed(n)
    BY DEF PtyTyped
  <2>2. OpsOK(n) /\ ChanOK(n) /\ WorkOK(n) /\ DbOK(n) /\ n \in 1..(MaxInc + 1)
    BY <2>1 DEF Typed, Others, MemoryOK
  <2>4. CASE UNCHANGED vars \/ Rest
    BY <2>4 DEF Rest, vars, persistVars
  <2>5. CASE \E c \in Callers : Request(c) \/ CallStep(c)
    BY <2>2, <2>5, RequestLeaves, CallLeaves DEF Leaves
  <2>6. CASE SweepBegin \/ SweepStep
    BY <2>2, <2>6, SweepLeaves DEF Leaves
  <2>7. CASE \E i \in Incs : ReaderOutput(i) \/ ReaderExit(i) \/ ReaderStep(i)
    BY <2>2, <2>7, ReaderLeaves
  <2>8. CASE SupStep
    BY <2>2, <2>8, SupLeaves DEF Leaves
  <2>9. CASE RestoreStep
    BY <2>1, <2>9, RestoreStores
  <2>10. CASE ShutdownBegin \/ ShutdownStep \/ Crash
    BY <2>10 DEF ShutdownBegin, ShutdownStep, Crash, Boot, ShutdownDone, SnapshotTake, SnapshotSend,
         StopAll, ShutdownClose, ShutdownDispose, ShutdownWorker, persistVars
  <2>11. CASE Work
    <3>1. WorkerStep
      BY <2>11 DEF Work
    <3>2. Rewrites \/ \E id \in Ids : Store!Delete(id)
      BY <2>2, <3>1, WorkerStores
    <3> QED BY <3>2 DEF Rewrites, Store!Next
  <2> QED BY <2>4, <2>5, <2>6, <2>7, <2>8, <2>9, <2>10, <2>11 DEF Next
<1> QED BY <1>1, <1>2, PtyTypes, PtyBooting, PTL DEF Spec, StoreSpec, Store!Spec

-----------------------------------------------------------------------------
(* Generations.                                                            *)

\* A session keeps its generation; a new one is of the current generation, or of the one
\* the supervisor's request names; what a restore keeps as unavailable is of generation 0.
Gens == \A i \in Incs : \/ sess'[i].gen = sess[i].gen
                        \/ i = inner.next /\ sess'[i].gen = inner.generation
                        \/ i = inner.next /\ At(Sup, "reserve") /\ sess'[i].gen = ops[Sup].cmd.gen
                        \/ phase = "boot" /\ sess'[i].gen = 0

\* Nothing new goes live, and no dispose begins or ends.
Calm == /\ inner'.generation = inner.generation /\ lc'.disposing = lc.disposing
        /\ \A id \in Ids : inner'.live[id] \in {0, inner.live[id]}

\* The steps that change no session's generation.
LEMMA GensSame ==
  ASSUME \A i \in Incs : sess'[i].gen = sess[i].gen
  PROVE  Gens
BY DEF Gens

\* Setting other fields of one session.
LEMMA GensField ==
  ASSUME NEW n, SessionsOK(n), NEW i, NEW t, i \in Incs => t.gen = sess[i].gen,
         sess' = [sess EXCEPT ![i] = t]
  PROVE  Gens
<1>1. \A j \in Incs : sess'[j].gen = sess[j].gen
  BY DEF SessionsOK
<1> QED BY <1>1, GensSame

\* Killing a child.
LEMMA GensTerminate ==
  ASSUME NEW n, SessionsOK(n), NEW i, sess' = Terminate(sess, i)
  PROVE  Gens
<1>1. \A j \in Incs : sess'[j].gen = sess[j].gen
  BY TerminateType
<1> QED BY <1>1, GensSame

\* Killing every live child.
LEMMA GensTerminateLive ==
  ASSUME NEW n, SessionsOK(n), sess' = TerminateLive(sess)
  PROVE  Gens
<1>1. \A j \in Incs : Terminate(sess, j)[j].gen = sess[j].gen
  BY TerminateType
<1>2. \A j \in Incs : sess'[j].gen = sess[j].gen
  BY <1>1 DEF TerminateLive
<1> QED BY <1>2, GensSame

\* A field of a typed session.
LEMMA FieldsKept ==
  ASSUME NEW n, SessionsOK(n), NEW i \in Incs, NEW v
  PROVE  /\ [sess[i] EXCEPT !.child = v].gen = sess[i].gen
         /\ [sess[i] EXCEPT !.reader = v].gen = sess[i].gen
         /\ [sess[i] EXCEPT !.name = v].gen = sess[i].gen
         /\ [sess[i] EXCEPT !.out = v].gen = sess[i].gen
<1>1. sess[i] \in SessionType
  BY DEF SessionsOK
<1> QED BY <1>1 DEF SessionType

\* An inner that is the same but for one id, which may lose its live session.
LEMMA CalmLocal ==
  ASSUME NEW id, Local(inner', inner, id), inner'.live[id] \in {0, inner.live[id]},
         lc'.disposing = lc.disposing
  PROVE  Calm
BY DEF Local, Same, Calm

\* kill_internal_impl on one id.
Killing(r, in, id) == Local(r, in, id) /\ r.live[id] = 0

\* kill_internal_impl leaves nothing live under its id, and the other ids alone.
LEMMA KillLocal ==
  ASSUME NEW n \in Nat, NEW in \in InnerOf(n), NEW id \in Ids
  PROVE  /\ Killing(kill_internal_impl(in, id, TRUE), in, id)
         /\ Killing(kill_internal_impl(in, id, FALSE), in, id)
BY DEF Killing, kill_internal_impl, InnerOf, Local, Same

\* An inner that differs in one id, and is then killed.
LEMMA KillAgain ==
  ASSUME NEW n \in Nat, NEW in, NEW q \in InnerOf(n), NEW id \in Ids, Local(q, in, id)
  PROVE  Killing(kill_internal_impl(q, id, TRUE), in, id)
<1>1. \A r : Killing(r, q, id) => Killing(r, in, id)
  BY DEF Killing, Local, Same
<1> QED BY <1>1, KillLocal

\* A durable removal evicts one id.
LEMMA EvictLocal ==
  ASSUME NEW n \in Nat, NEW in \in InnerOf(n), NEW id \in Ids, NEW inc
  PROVE  LET r == evict_identity_after_durable_removal(in, id, inc)
         IN  Local(r, in, id) /\ r.live[id] \in {0, in.live[id]}
BY DEF evict_identity_after_durable_removal, InnerOf, Local, Same

\* The permit and the gates change hands, no dispose begins or ends.
LEMMA DropCalm ==
  ASSUME LocksOK, NEW a, lc' = [lc EXCEPT !.permits = @ \ {a}]
                         \/ lc' = [lc EXCEPT !.permits = @ \cup {a}] \/ lc' = lc
  PROVE  lc'.disposing = lc.disposing
BY DEF LocksOK

\* Every step of a create but its publication.
LEMMA CreateCalm ==
  ASSUME NEW n \in Nat \ {0}, Typed(n), NEW c \in Calling, CreateStep(c)
  PROVE  Gens /\ (CreatePublish(c) \/ Calm)
<1>0. /\ OpsOK(n) /\ SessionsOK(n) /\ LocksOK /\ EnvOK(n) /\ inner \in InnerOf(n)
      /\ inner.next = n /\ n \in 1..(MaxInc + 1) /\ n \in Nat
  BY InnerFields DEF Typed, Others, MemoryOK
<1>a. sess' = sess => Gens
  BY GensSame
<1>b. inner' = inner /\ lc'.disposing = lc.disposing => Calm
  BY DEF Calm
<1>1. CASE CreatePermit(c)
  BY <1>0, <1>a, <1>b, <1>1, DropCalm DEF CreatePermit
<1>2. CASE CreateEvict(c)
  <2> DEFINE id  == ops[c].id
             old == inner.live[id]
             s   == Terminate(sess, old)
  <2>1. /\ At(c, "evict") /\ inner' = kill_internal_impl(inner, id, TRUE) /\ lc' = lc
        /\ sess' = IF old = 0 THEN sess ELSE [s EXCEPT ![old].replaced = TRUE]
    BY <1>2 DEF CreateEvict
  <2>2. id \in Ids
    BY <1>0, <2>1, CallAt DEF At, AtEntry
  <2>3. Calm
    BY <1>0, <2>1, <2>2, KillLocal, CalmLocal DEF Killing
  <2>4. s \in [Incs -> SessionType] /\ \A j \in Incs : s[j].gen = sess[j].gen
    BY <1>0, TerminateType
  <2> HIDE DEF s
  <2>5. \A j \in Incs : sess'[j].gen = sess[j].gen
    BY <2>1, <2>4 DEF SessionType
  <2> QED BY <2>3, <2>5, GensSame
<1>3. CASE CreateReserve(c)
  <2> DEFINE t == NewSession(ops[c].id, ops[c].name, inner.generation, 0)
  <2>1. /\ At(c, "reserve") /\ inner' = begin_replacement(inner, ops[c].id) /\ lc' = lc
        /\ sess' = [sess EXCEPT ![inner.next] = t] /\ inner.next \in Incs
    BY <1>3 DEF CreateReserve, locks, InBounds
  <2>2. ops[c].id \in Ids /\ ops[c].name \in NameSet /\ inner.generation \in Nat
    BY <1>0, <2>1, CallAt, InnerFields DEF At, AtReserve
  <2>3. t.gen = inner.generation
    BY <1>0, <2>1, <2>2, NewSessionType
  <2> HIDE DEF t
  <2>4. Gens
    BY <1>0, <2>1, <2>3 DEF Gens, SessionsOK
  <2> QED BY <1>0, <2>1, <2>2, <2>4, BeginFacts, CalmLocal
<1>4. CASE CreateSpawn(c)
  <2>1. sess' = [sess EXCEPT ![ops[c].inc] = [sess[ops[c].inc] EXCEPT !.child = "running"]]
        /\ inner' = inner /\ lc' = lc
    BY <1>4 DEF CreateSpawn, locks
  <2> QED BY <1>0, <1>b, <2>1, FieldsKept, GensField
<1>5. CASE CreateSpawnFails(c) \/ CreateStartFails(c)
  <2> DEFINE r == ReplacementFailed(c)
  <2>1. /\ ops[c].at \in {"spawn", "start"} /\ lc' = lc
        /\ \/ inner' = r.inner /\ sess' = sess
           \/ inner' = kill_internal_impl(r.inner, ops[c].id, TRUE)
              /\ sess' = Terminate(sess, ops[c].inc)
    BY <1>5 DEF CreateSpawnFails, CreateStartFails, locks, At
  <2>2. ops[c] \in AtSpawn(n)
    BY <1>0, <2>1, CallAt
  <2>3. ops[c].id \in Ids /\ ops[c].inc \in Given(n) /\ ops[c].retry \in BOOLEAN
    BY <2>2 DEF AtSpawn
  <2>4. Outcome(r, inner, n, ops[c].id) /\ FailedReplacement(r.inner, inner, ops[c].id, ops[c].inc)
    BY <1>0, <2>3, FailedReplacementFacts DEF ReplacementFailed
  <2> HIDE DEF r
  <2>5. Local(r.inner, inner, ops[c].id) /\ r.inner \in InnerOf(n)
        /\ r.inner.live[ops[c].id] \in {0, inner.live[ops[c].id]}
    BY <2>4 DEF Outcome, FailedReplacement, FailedStale, FailedLive, FailedKept, FailedSession, Same
  <2>6. Gens
    BY <1>0, <1>a, <2>1, GensTerminate
  <2>7. CASE inner' = r.inner
    BY <2>1, <2>5, <2>6, <2>7, CalmLocal
  <2>8. CASE inner' = kill_internal_impl(r.inner, ops[c].id, TRUE)
    <3>1. Killing(inner', inner, ops[c].id)
      BY <2>3, <2>5, <2>8, KillAgain
    <3> QED BY <2>1, <2>6, <3>1, CalmLocal DEF Killing
  <2> QED BY <2>1, <2>7, <2>8
<1>6. CASE CreateAbandon(c)
  BY <1>0, <1>b, <1>6, GensTerminate, DropCalm DEF CreateAbandon, DropGates
<1>7. CASE CreatePublish(c)
  BY <1>0, <1>7, GensTerminate DEF CreatePublish
<1>8. CASE CreatePersist(c) \/ SendNext(c)
  BY <1>a, <1>b, <1>8 DEF CreatePersist, SendNext, locks
<1>9. CASE CreateStart(c)
  <2>1. /\ sess' = [sess EXCEPT ![ops[c].inc] = [sess[ops[c].inc] EXCEPT !.reader = "run"]]
        /\ inner' = finish_replacement(inner, ops[c].id, ops[c].inc)
        /\ lc' = [lc EXCEPT !.permits = @ \ {c}] /\ At(c, "start")
    BY <1>9 DEF CreateStart, DropGates
  <2>2. Gens
    BY <1>0, <2>1, FieldsKept, GensField
  <2>3. ops[c].id \in Ids
    BY <1>0, <2>1, CallAt DEF At, AtSpawn
  <2> QED BY <1>0, <2>1, <2>2, <2>3, FinishFacts, CalmLocal, DropCalm
<1>10. CASE SendDone(c)
  BY <1>0, <1>a, <1>b, <1>10, DropCalm DEF SendDone, DropGates
<1> QED BY <1>1, <1>2, <1>3, <1>4, <1>5, <1>6, <1>7, <1>8, <1>9, <1>10 DEF CreateStep

-----------------------------------------------------------------------------
(* The other calls, the readers, the supervisor.                           *)

\* A request sets no session's generation; only a dispose's begins one.
LEMMA RequestCalm ==
  ASSUME NEW n \in Nat \ {0}, Typed(n), NEW c \in Callers, Request(c)
  PROVE  Gens /\ (DisposeCall(c) \/ Calm)
<1>0. /\ OpsOK(n) /\ SessionsOK(n) /\ LocksOK /\ EnvOK(n) /\ inner \in InnerOf(n)
      /\ inner.next = n /\ n \in 1..(MaxInc + 1) /\ n \in Nat /\ world.ids \subseteq Ids
  BY InnerFields DEF Typed, Others, MemoryOK, EnvOK, World
<1>a. sess' = sess => Gens
  BY GensSame
<1>b. inner' = inner /\ lc' = lc => Calm
  BY DEF Calm
<1>1. ASSUME NEW id \in world.ids, CreateCall(c, id) PROVE Gens /\ Calm
  BY <1>a, <1>b, <1>1 DEF CreateCall
<1>2. ASSUME NEW id \in world.ids, Kill(c, id) PROVE Gens /\ Calm
  <2>1. /\ inner' = kill_internal_impl(inner, id, FALSE) /\ lc' = lc
        /\ sess' = Terminate(sess, inner.live[id])
    BY <1>2 DEF Kill, locks
  <2> QED BY <1>0, <2>1, KillLocal, CalmLocal, GensTerminate DEF Killing
<1>3. ASSUME NEW id \in world.ids, RemoveCall(c, id) PROVE Gens /\ Calm
  <2>1. inner' = allocate_incarnation(inner) /\ lc' = lc /\ sess' = sess
    BY <1>3 DEF RemoveCall
  <2> QED BY <1>0, <1>a, <2>1, AllocateFacts DEF Calm, Same
<1>4. ASSUME NEW id \in world.ids, NEW name \in Names, RenameCall(c, id, name) PROVE Gens /\ Calm
  BY <1>a, <1>b, <1>4 DEF RenameCall
<1>5. CASE DisposeCall(c)
  BY <1>a, <1>5 DEF DisposeCall
<1> QED BY <1>1, <1>2, <1>3, <1>4, <1>5 DEF Request

\* A removal, a client's or the sweeper's.
LEMMA RemoveCalm ==
  ASSUME NEW n \in Nat \ {0}, Typed(n), NEW c \in Clients, RemoveStep(c)
  PROVE  Gens /\ Calm
<1>0. /\ OpsOK(n) /\ SessionsOK(n) /\ LocksOK /\ inner \in InnerOf(n) /\ c \in Calling
  BY DEF Typed, Others, MemoryOK, Calling
<1>1. CASE RemoveSend(c)
  BY <1>1, GensSame DEF RemoveSend, Calm, locks
<1>2. CASE RemoveDone(c)
  <2> DEFINE id == ops[c].id
  <2>1. /\ At(c, "removing") /\ lc' = [lc EXCEPT !.permits = @ \ {c}]
        /\ \/ inner' = inner /\ sess' = sess
           \/ inner' = RemoveIdentity(inner, id) /\ sess' = Terminate(sess, inner.live[id])
    BY <1>2 DEF RemoveDone, Return, DropGates
  <2>2. id \in Ids
    BY <1>0, <2>1, CallAt DEF At, AtRemove
  <2>3. lc'.disposing = lc.disposing
    BY <1>0, <2>1, DropCalm
  <2>4. Gens
    BY <1>0, <2>1, GensSame, GensTerminate
  <2>5. CASE inner' = inner
    BY <2>3, <2>4, <2>5 DEF Calm
  <2>6. CASE inner' = RemoveIdentity(inner, id)
    BY <1>0, <2>2, <2>3, <2>4, <2>6, RemoveFacts, CalmLocal
  <2> QED BY <2>1, <2>5, <2>6
<1> QED BY <1>1, <1>2 DEF RemoveStep

\* The steps of a dispose that begin, end or take back a generation.
DisposeTurn(c) == DisposeStart(c) \/ DisposeError(c) \/ DisposeFinish(c)

\* Everything else a call does in the server.
LEMMA CallCalm ==
  ASSUME NEW n \in Nat \ {0}, Typed(n), NEW c \in Callers, CallStep(c)
  PROVE  Gens /\ (CreatePublish(c) \/ DisposeTurn(c) \/ Calm)
<1>0. /\ OpsOK(n) /\ SessionsOK(n) /\ LocksOK /\ inner \in InnerOf(n)
      /\ c \in Calling /\ c \in Clients
  BY CallingFacts DEF Typed, Others, MemoryOK, Callers
<1>a. sess' = sess => Gens
  BY GensSame
<1>b. inner' = inner /\ lc'.disposing = lc.disposing => Calm
  BY DEF Calm
<1>1. CASE CreateStep(c)
  BY <1>0, <1>1, CreateCalm
<1>2. CASE RemoveStep(c)
  BY <1>0, <1>2, RemoveCalm
<1>3. CASE CreateRecheck(c)
  BY <1>0, <1>a, <1>b, <1>3, DropCalm DEF CreateRecheck, Return, DropGates
<1>4. CASE CreateTargetLost(c)
  <2> DEFINE r == mark_target_unavailable(inner, ops[c].id, NoName)
  <2>1. At(c, "recheck") /\ inner' = r.inner /\ lc' = lc /\ sess' = sess
    BY <1>4 DEF CreateTargetLost
  <2>2. ops[c].id \in Ids
    BY <1>0, <2>1, CallAt DEF At, AtRecheck
  <2>3. Local(r.inner, inner, ops[c].id) /\ r.inner.live[ops[c].id] = inner.live[ops[c].id]
    BY <1>0, <2>2, TargetLostFacts DEF NameSet
  <2> HIDE DEF r
  <2> QED BY <1>a, <2>1, <2>3, CalmLocal
<1>5. CASE RenameSend(c)
  BY <1>a, <1>b, <1>5 DEF RenameSend, locks
<1>6. CASE RenameDone(c)
  <2> DEFINE t == [sess[ops[c].inc] EXCEPT !.name = ops[c].name]
  <2>1. /\ sess' = sess \/ sess' = [sess EXCEPT ![ops[c].inc] = t]
        /\ inner' = inner /\ lc' = [lc EXCEPT !.permits = @ \ {c}]
    BY <1>6 DEF RenameDone, Return, DropGates
  <2>2. ops[c].inc \in Incs => t.gen = sess[ops[c].inc].gen
    BY <1>0, FieldsKept
  <2> HIDE DEF t
  <2> QED BY <1>0, <1>a, <1>b, <2>1, <2>2, GensField, DropCalm
<1>7. CASE DisposeTurn(c)
  BY <1>0, <1>7, <1>a, GensTerminateLive
     DEF DisposeTurn, DisposeStart, DisposeError, DisposeFinish
<1>8. CASE DisposeRemove(c)
  <2>1. inner' = allocate_incarnation(inner) /\ lc' = lc /\ sess' = sess
    BY <1>8 DEF DisposeRemove, locks
  <2> QED BY <1>0, <1>a, <2>1, AllocateFacts DEF Calm, Same
<1>9. CASE DisposeEvict(c)
  <2> DEFINE id  == ops[c].cur[1]
             inc == ops[c].cur[2]
  <2>1. /\ At(c, "disposing") /\ lc' = lc
        /\ inner' = evict_identity_after_durable_removal(inner, id, inc)
        /\ sess' = sess \/ sess' = Terminate(sess, inc)
    BY <1>9 DEF DisposeEvict, locks
  <2>2. id \in Ids
    <3>1. ops[c].cur \in Ids \X Given(n)
      BY <1>0, <2>1, CallAt DEF At, AtDisposing
    <3> QED BY <3>1
  <2> HIDE DEF id, inc
  <2>3. Local(inner', inner, id) /\ inner'.live[id] \in {0, inner.live[id]}
    BY <1>0, <2>1, <2>2, EvictLocal
  <2> QED BY <1>0, <1>a, <2>1, <2>3, CalmLocal, GensTerminate
<1> QED BY <1>1, <1>2, <1>3, <1>4, <1>5, <1>6, <1>7, <1>8, <1>9 DEF CallStep, DisposeTurn

\* The sweeper.
LEMMA SweepCalm ==
  ASSUME NEW n \in Nat \ {0}, Typed(n), SweepBegin \/ SweepStep
  PROVE  Gens /\ Calm
<1>0. inner \in InnerOf(n) /\ Sweeper \in Clients
  BY CallingFacts DEF Typed, MemoryOK
<1>1. CASE SweepBegin
  <2>1. inner' = prune_killed_markers(inner) /\ sess' = sess /\ lc' = lc
    BY <1>1 DEF SweepBegin, locks
  <2>2. \A j \in Ids : inner'.live[j] = inner.live[j]
    BY <1>0, <2>1, PruneFacts DEF Same
  <2>3. inner'.generation = inner.generation
    BY <2>1, <1>0, PruneFacts
  <2> QED BY <2>1, <2>2, <2>3, GensSame DEF Calm
<1>2. CASE SweepCheck
  BY <1>2, GensSame DEF SweepCheck, Calm, locks
<1>3. CASE SweepRemove
  <2>1. inner' = allocate_incarnation(inner) /\ lc' = lc /\ sess' = sess
    BY <1>3 DEF SweepRemove
  <2> QED BY <1>0, <2>1, AllocateFacts, GensSame DEF Calm, Same
<1>4. CASE RemoveStep(Sweeper)
  BY <1>0, <1>4, RemoveCalm
<1> QED BY <1>1, <1>2, <1>3, <1>4 DEF SweepStep

\* A reader changes what its own session has, and takes it out of the live ones.
LEMMA ReaderCalm ==
  ASSUME NEW n \in Nat \ {0}, Typed(n), NEW i \in Incs,
         ReaderOutput(i) \/ ReaderExit(i) \/ ReaderStep(i)
  PROVE  Gens /\ Calm
<1>0. SessionsOK(n) /\ inner \in InnerOf(n) /\ sess \in [Incs -> SessionType]
      /\ sess[i] \in SessionType
  BY DEF Typed, Others, MemoryOK, SessionsOK
<1>b. inner' = inner /\ lc' = lc => Calm
  BY DEF Calm
<1>1. CASE ReaderOutput(i)
  <2>1. sess' = [sess EXCEPT ![i] = [sess[i] EXCEPT !.out = @ + 1]] /\ inner' = inner /\ lc' = lc
    BY <1>1 DEF ReaderOutput, locks
  <2> QED BY <1>0, <1>b, <2>1, FieldsKept, GensField
<1>2. CASE ReaderExit(i)
  <2>1. PICK code \in {0, 1} : OwnerExit(i, code) \/ StaleExit(i) \/ RemovedExit(i)
    BY <1>2 DEF ReaderExit
  <2>2. sess[i].reader = "run" /\ lc' = lc
    BY <1>2 DEF ReaderExit, locks
  <2>3. \E t : Ended(sess[i], t) /\ sess' = [sess EXCEPT ![i] = t]
    BY <1>0, <2>1, <2>2, OwnerExitFacts, StaleExitFacts, RemovedExitFacts
  <2>4. PICK t : Ended(sess[i], t) /\ sess' = [sess EXCEPT ![i] = t]
    BY <2>3
  <2>5. Gens
    BY <1>0, <2>4, GensField DEF Ended
  <2>6. sess[i].id \in Ids
    BY <1>0 DEF SessionType
  <2>7. CASE OwnerExit(i, code)
    <3>1. \E will \in BOOLEAN : inner' = ToTomb(inner, sess[i].id, Tombstone(i, will))
      BY <2>7 DEF OwnerExit, ToTomb, decide_restart
    <3>2. PICK will \in BOOLEAN : inner' = ToTomb(inner, sess[i].id, Tombstone(i, will))
      BY <3>1
    <3>3. i < n
      BY <1>0, <2>2 DEF SessionsOK, SessionOK
    <3>4. Tombstone(i, will) \in TombOf(n)
      BY <3>3 DEF Tombstone, TombOf, OrNone, Incs
    <3> QED BY <1>0, <2>2, <2>5, <2>6, <3>2, <3>4, ExitFacts, CalmLocal
  <2>8. CASE StaleExit(i) \/ RemovedExit(i)
    <3>1. inner' = consume_suppressed_exit(inner, sess[i].id)
      BY <2>8 DEF StaleExit, RemovedExit
    <3> QED BY <1>0, <2>2, <2>5, <2>6, <3>1, ConsumeFacts, CalmLocal DEF Same
  <2> QED BY <2>1, <2>7, <2>8
<1>3. CASE ReaderStep(i)
  <2>1. \E t : t.gen = sess[i].gen /\ sess' = [sess EXCEPT ![i] = t]
    <3>1. \A td : /\ [sess[i] EXCEPT !.todo = td,
                              !.reader = IF td = <<>> THEN "done" ELSE "exit"].gen = sess[i].gen
                  /\ Advance(i, td)
                       = [sess EXCEPT ![i] = [sess[i] EXCEPT !.todo = td,
                              !.reader = IF td = <<>> THEN "done" ELSE "exit"]]
      BY <1>0 DEF SessionType, Advance
    <3>2. \A td : \E t : t.gen = sess[i].gen /\ Advance(i, td) = [sess EXCEPT ![i] = t]
      BY <3>1
    <3>3. CASE \E td : sess' = Advance(i, td)
      BY <3>2, <3>3
    <3>4. ASSUME NEW td, NEW v, sess' = [Advance(i, td) EXCEPT ![i].dropped = v]
                                \/ sess' = [Advance(i, td) EXCEPT ![i].told = v]
          PROVE  \E t : t.gen = sess[i].gen /\ sess' = [sess EXCEPT ![i] = t]
      <4> DEFINE u == [sess[i] EXCEPT !.todo = td,
                              !.reader = IF td = <<>> THEN "done" ELSE "exit"]
      <4>1. [u EXCEPT !.dropped = v].gen = sess[i].gen /\ [u EXCEPT !.told = v].gen = sess[i].gen
        BY <1>0 DEF SessionType
      <4>2. Advance(i, td) = [sess EXCEPT ![i] = u]
        BY <3>1
      <4> HIDE DEF u
      <4>3. sess' = [sess EXCEPT ![i] = [u EXCEPT !.dropped = v]]
            \/ sess' = [sess EXCEPT ![i] = [u EXCEPT !.told = v]]
        BY <1>0, <3>4, <4>2
      <4> QED BY <4>1, <4>3
    <3> QED BY <1>3, <3>3, <3>4 DEF ReaderStep, ReaderLock, ReaderSnapshot, ReaderExited,
            ReaderRespawn, ReaderEvent
  <2>2. inner' = inner /\ lc' = lc
    BY <1>3 DEF ReaderStep, ReaderLock, ReaderSnapshot, ReaderExited, ReaderRespawn, ReaderEvent, locks
  <2> QED BY <1>0, <1>b, <2>1, <2>2, GensField
<1> QED BY <1>1, <1>2, <1>3

\* The supervisor: only its publication brings something to life.
LEMMA SupCalm ==
  ASSUME NEW n \in Nat \ {0}, Typed(n), SupStep
  PROVE  Gens /\ (SupPublish \/ Calm)
<1>0. /\ OpsOK(n) /\ SessionsOK(n) /\ LocksOK /\ EnvOK(n) /\ inner \in InnerOf(n)
      /\ inner.next = n /\ n \in 1..(MaxInc + 1) /\ n \in Nat
  BY InnerFields DEF Typed, Others, MemoryOK
<1>a. sess' = sess => Gens
  BY GensSame
<1>b. inner' = inner /\ lc'.disposing = lc.disposing => Calm
  BY DEF Calm
<1> DEFINE id  == ops[Sup].cmd.id
           inc == ops[Sup].inc
<1>1. CASE SupRecv \/ SupCheck \/ SupInvalid \/ SupPersist \/ SendNext(Sup)
  BY <1>a, <1>b, <1>1 DEF SupRecv, SupCheck, SupInvalid, SupPersist, SendNext, locks
<1>2. CASE SupReserve
  <2>1. /\ At(Sup, "reserve") /\ inner.next \in Incs /\ lc' = lc
        /\ \/ inner' = inner /\ sess' = sess
           \/ /\ inner' = begin_replacement(inner, id)
              /\ sess' = [sess EXCEPT ![inner.next] =
                   NewSession(id, sess[ops[Sup].cmd.inc].name, ops[Sup].cmd.gen, ops[Sup].cmd.count + 1)]
    BY <1>2 DEF SupReserve, InBounds
  <2>2. id \in Ids /\ ops[Sup].cmd.gen \in Nat /\ ops[Sup].cmd.count \in Nat /\ ops[Sup].cmd.inc \in Given(n)
    BY <1>0, <2>1, SupCmd DEF At
  <2>3. CASE inner' = inner /\ sess' = sess
    BY <1>a, <1>b, <2>1, <2>3
  <2>4. CASE /\ inner' = begin_replacement(inner, id)
             /\ sess' = [sess EXCEPT ![inner.next] =
                  NewSession(id, sess[ops[Sup].cmd.inc].name, ops[Sup].cmd.gen, ops[Sup].cmd.count + 1)]
    <3> DEFINE t == NewSession(id, sess[ops[Sup].cmd.inc].name, ops[Sup].cmd.gen, ops[Sup].cmd.count + 1)
    <3>1. ops[Sup].cmd.inc \in Incs
      BY <1>0, <2>2, BoundsAssumption DEF Given, Incs
    <3>2. sess[ops[Sup].cmd.inc].name \in NameSet
      BY <1>0, <3>1 DEF SessionsOK, SessionType
    <3>3. t.gen = ops[Sup].cmd.gen
      BY <1>0, <2>1, <2>2, <3>2, NewSessionType
    <3>4. sess' = [sess EXCEPT ![inner.next] = t]
      BY <2>4
    <3> HIDE DEF t
    <3>5. Gens
      BY <1>0, <2>1, <3>3, <3>4 DEF Gens, SessionsOK
    <3>6. Local(inner', inner, id) /\ inner'.live[id] \in {0, inner.live[id]}
      BY <1>0, <2>2, <2>4, BeginFacts
    <3> QED BY <2>1, <3>5, <3>6, CalmLocal
  <2> QED BY <2>1, <2>3, <2>4
<1>3. CASE SupPermit
  <2>1. /\ At(Sup, "permit") /\ sess' = sess
        /\ \/ inner' = inner /\ lc' = [lc EXCEPT !.permits = @ \cup {Sup}]
           \/ inner' = finish_replacement(inner, id, inc) /\ lc' = [lc EXCEPT !.permits = @ \ {Sup}]
    BY <1>3 DEF SupPermit, Return, DropGates
  <2>2. id \in Ids /\ lc'.disposing = lc.disposing
    BY <1>0, <2>1, SupCmd, DropCalm DEF At
  <2>3. CASE inner' = inner
    BY <1>a, <1>b, <2>1, <2>2, <2>3
  <2>4. CASE inner' = finish_replacement(inner, id, inc)
    BY <1>0, <1>a, <2>1, <2>2, <2>4, FinishFacts, CalmLocal
  <2> QED BY <2>1, <2>3, <2>4
<1>4. CASE SupSpawn
  <2>1. sess' = [sess EXCEPT ![inc] = [sess[inc] EXCEPT !.child = "running"]] /\ inner' = inner /\ lc' = lc
    BY <1>4 DEF SupSpawn, locks
  <2> QED BY <1>0, <1>b, <2>1, FieldsKept, GensField
<1>5. CASE SupSpawnFails \/ SupStartFails
  <2> DEFINE r == RespawnFailed
  <2>1. /\ ops[Sup].at \in {"spawn", "start"} /\ lc' = lc /\ inner' = r.inner
        /\ sess' = sess \/ sess' = Terminate(sess, inc)
    BY <1>5 DEF SupSpawnFails, SupStartFails, locks, At
  <2>2. id \in Ids /\ inc \in Given(n) /\ ops[Sup].retry \in BOOLEAN
    BY <1>0, <2>1, SupCmd
  <2>3. Outcome(r, inner, n, id) /\ FailedReplacement(r.inner, inner, id, inc)
    BY <1>0, <2>2, FailedReplacementFacts DEF RespawnFailed
  <2> HIDE DEF r
  <2>4. Local(r.inner, inner, id) /\ r.inner.live[id] \in {0, inner.live[id]}
    BY <2>3 DEF Outcome, FailedReplacement, FailedStale, FailedLive, FailedKept, FailedSession, Same
  <2>5. Gens
    BY <1>0, <1>a, <2>1, GensTerminate
  <2> QED BY <2>1, <2>4, <2>5, CalmLocal
<1>6. CASE SupAbandon
  <2>1. /\ At(Sup, "publish") /\ inner' = finish_replacement(inner, id, inc)
        /\ sess' = Terminate(sess, inc) /\ lc' = [lc EXCEPT !.permits = @ \ {Sup}]
    BY <1>6 DEF SupAbandon, Return, DropGates
  <2>2. id \in Ids /\ lc'.disposing = lc.disposing
    BY <1>0, <2>1, SupCmd, DropCalm DEF At
  <2>3. Gens
    BY <1>0, <2>1, GensTerminate
  <2> QED BY <1>0, <2>1, <2>2, <2>3, FinishFacts, CalmLocal
<1>7. CASE SupPublish
  <2> DEFINE t == [sess[inc] EXCEPT !.name = sess[ops[Sup].cmd.inc].name]
  <2>1. sess' = [sess EXCEPT ![inc] = t]
    BY <1>7 DEF SupPublish
  <2>2. inc \in Incs => t.gen = sess[inc].gen
    BY <1>0, FieldsKept
  <2> HIDE DEF t
  <2> QED BY <1>0, <1>7, <2>1, <2>2, GensField
<1>8. CASE SupStart
  <2>1. /\ At(Sup, "start") /\ inner' = finish_replacement(inner, id, inc)
        /\ sess' = [sess EXCEPT ![inc] = [sess[inc] EXCEPT !.reader = "run"]]
        /\ lc' = [lc EXCEPT !.permits = @ \ {Sup}]
    BY <1>8 DEF SupStart, Return, DropGates
  <2>2. id \in Ids /\ lc'.disposing = lc.disposing
    BY <1>0, <2>1, SupCmd, DropCalm DEF At
  <2>3. Gens
    BY <1>0, <2>1, FieldsKept, GensField
  <2> QED BY <1>0, <2>1, <2>2, <2>3, FinishFacts, CalmLocal
<1>9. CASE SupSourceFailed
  <2> DEFINE r == finish_respawn_source_failure(inner, id, ops[Sup].cmd.inc, ops[Sup].lost)
  <2>1. At(Sup, "failed") /\ inner' = r.inner /\ sess' = sess /\ lc' = lc
    BY <1>9 DEF SupSourceFailed
  <2>2. id \in Ids /\ ops[Sup].cmd.inc \in Given(n) /\ ops[Sup].lost \in BOOLEAN
    BY <1>0, <2>1, SupCmd, SupAt DEF At, SupLost
  <2>3. Local(r.inner, inner, id) /\ r.inner.live[id] = inner.live[id]
    BY <1>0, <2>2, SourceFailureFacts DEF Outcome
  <2> HIDE DEF r
  <2> QED BY <1>a, <2>1, <2>3, CalmLocal
<1>10. CASE SendDone(Sup)
  BY <1>0, <1>a, <1>b, <1>10, DropCalm DEF SendDone, DropGates
<1> QED BY <1>1, <1>2, <1>3, <1>4, <1>5, <1>6, <1>7, <1>8, <1>9, <1>10 DEF SupStep

\* The restore.
LEMMA RestoreCalm ==
  ASSUME NEW n \in Nat \ {0}, Typed(n), Booting, RestoreStep
  PROVE  Gens /\ (CreatePublish(Main) \/ Calm)
<1>0. /\ OpsOK(n) /\ SessionsOK(n) /\ LocksOK /\ EnvOK(n) /\ inner \in InnerOf(n) /\ Main \in Calling
      /\ n \in 1..(MaxInc + 1) /\ n \in Nat
  BY CallingFacts DEF Typed, Others, MemoryOK
<1>a. sess' = sess => Gens
  BY GensSame
<1>b. inner' = inner /\ lc'.disposing = lc.disposing => Calm
  BY DEF Calm
<1>1. CASE RestoreLoad \/ (\E id \in Ids : RestoreNext(id)) \/ RestoreDelete \/ RestoreCreate
  BY <1>a, <1>b, <1>1 DEF RestoreLoad, RestoreNext, RestoreDelete, RestoreCreate, locks
<1>2. CASE RestoreUnavailable
  <2> DEFINE id  == ops[Main].id
             inc == restoring.inc
             t   == NewSession(id, restoring.name, 0, 0)
  <2>1. /\ ops[Main].at \in {"target", "recheck"} /\ lc' = lc
        /\ inner' = restore_unavailable_session(inner, id, inc)
        /\ sess' = [sess EXCEPT ![inc] = t]
    BY <1>2 DEF RestoreUnavailable, At, locks
  <2>2. id \in Ids
    BY <1>0, <2>1, CallAt DEF AtEntry, AtRecheck
  <2>3. phase = "boot" /\ inc # 0
    BY <2>1 DEF Booting, Visiting, BootOnly
  <2>4. inc \in Incs /\ inc \in OrNone(n) /\ restoring.name \in NameSet
    BY <1>0, <2>3, BoundsAssumption DEF EnvOK, OrNone, Incs
  <2>5. t.gen = 0
    BY <1>0, <2>2, <2>4, NewSessionType
  <2> HIDE DEF t
  <2>6. Gens
    BY <1>0, <2>1, <2>3, <2>5 DEF Gens, SessionsOK
  <2>7. Local(inner', inner, id) /\ inner'.live[id] = 0
    BY <1>0, <2>1, <2>2, <2>4, UnavailableFacts
  <2> HIDE DEF id, inc
  <2> QED BY <2>1, <2>6, <2>7, CalmLocal
<1>3. CASE RestoreDone
  BY <1>0, <1>a, <1>b, <1>3, DropCalm DEF RestoreDone, Return, DropGates
<1>4. CASE CreateStep(Main)
  BY <1>0, <1>4, CreateCalm
<1> QED BY <1>1, <1>2, <1>3, <1>4 DEF RestoreStep

\* The steps of a shutdown that close the manager.
CloseTurn == ShutdownClose \/ ShutdownDispose

\* The shutdown makes nothing live; it closes the gate in two of its steps.
LEMMA ShutdownCalm ==
  ASSUME NEW n \in Nat \ {0}, Typed(n), ShutdownBegin \/ (ShutdownStep /\ ~ShutdownDone)
  PROVE  Gens /\ (CloseTurn \/ Calm)
<1>0. SessionsOK(n) /\ LocksOK /\ inner \in InnerOf(n)
  BY DEF Typed, Others, MemoryOK
<1>a. sess' = sess => Gens
  BY GensSame
<1>b. inner' = inner /\ lc'.disposing = lc.disposing => Calm
  BY DEF Calm
<1>1. CASE ShutdownBegin \/ SnapshotTake \/ SnapshotSend \/ ShutdownWorker
  BY <1>a, <1>b, <1>1 DEF ShutdownBegin, SnapshotTake, SnapshotSend, ShutdownWorker, locks
<1>2. CASE StopAll
  <2>1. /\ inner' = stop_all_for_shutdown(inner) /\ sess' = TerminateLive(sess)
        /\ lc' = [lc EXCEPT !.permits = @ \ {Main}]
    BY <1>2 DEF StopAll, Return, DropGates
  <2>2. lc'.disposing = lc.disposing
    BY <1>0, <2>1, DropCalm
  <2>3. inner'.generation = inner.generation /\ \A j \in Ids : inner'.live[j] = inner.live[j]
    BY <1>0, <2>1, StopFacts
  <2> QED BY <1>0, <2>1, <2>2, <2>3, GensTerminateLive DEF Calm
<1>3. CASE CloseTurn
  BY <1>0, <1>a, <1>3, GensTerminateLive DEF CloseTurn, ShutdownClose, ShutdownDispose
<1> QED BY <1>1, <1>2, <1>3 DEF ShutdownStep, CloseTurn

\* Everything else, but the restart of the process.
LEMMA StutterCalm ==
  ASSUME UNCHANGED <<inner, sess, lc>>
  PROVE  Gens /\ Calm
BY GensSame DEF Calm

-----------------------------------------------------------------------------
(* The invariant.                                                          *)

\* A new process counts its generations from 0, and nothing before it serves moves on.
ZeroGens == phase = "boot" =>
  /\ inner.generation = 0 /\ \A i \in Incs : sess[i].gen = 0
  /\ \A k \in 1..Len(respawnQ) : respawnQ[k].gen = 0
  /\ ops[Sup].at \in {"backoff", "reserve"} => ops[Sup].cmd.gen = 0

\* What the supervisor starts is of the generation its request was made in.
SupGen == ops[Sup].at \in {"permit", "spawn", "publish"}
            => sess[ops[Sup].inc].gen = ops[Sup].cmd.gen

Removing == {"dispose", "disposing"}
Fencing  == {"drain", "close"} \cup Removing

\* All that is live is of generation g.
LiveOf(g) == \A id \in Ids : inner.live[id] # 0 => sess[inner.live[id]].gen = g

\* The generation a dispose fences off.
GenOf(x) == IF ops[x].at \in Removing THEN ops[x].gen ELSE inner.generation

\* One dispose at a time, under the lifecycle gate, and what is live is of the generation
\* it fences off; outside a dispose, of the current one.
Fence == /\ \A x \in Calling : ops[x].at \in Fencing => lc.disposing /\ LiveOf(GenOf(x))
         /\ \A x, y \in Calling : ops[x].at \in Fencing /\ ops[y].at \in Fencing => x = y
         /\ ~lc.disposing => LiveOf(inner.generation)
         /\ \A x \in Calling : At(x, "send") => ops[x].next.at \in {"idle", "recheck"}

Fenced == ZeroGens /\ SupGen /\ Fence

\* x enters no dispose, and stays with the generation it fences off.
Tame(x) == /\ ops'[x].at \in Fencing
                => \/ ops'[x] = ops[x]
                   \/ /\ ops[x].at \in Removing /\ ops'[x].at \in Removing
                      /\ ops'[x].gen = ops[x].gen
           /\ ops'[x].at = "send" => ops'[x].next.at \in {"idle", "recheck"}

\* Sessions that exist keep their generation.
LEMMA OldGens ==
  ASSUME NEW n, Typed(n), ZeroGens, Gens
  PROVE  \A i \in Incs : i # n => sess'[i].gen = sess[i].gen
BY DEF Typed, MemoryOK, InnerOf, ZeroGens, Gens

\* What is live has been given out.
LEMMA LiveOld ==
  ASSUME NEW n \in Nat \ {0}, Typed(n), NEW id \in Ids, inner.live[id] # 0
  PROVE  inner.live[id] \in Incs /\ inner.live[id] # n
<1>1. inner \in InnerOf(n) /\ n \in 1..(MaxInc + 1)
  BY DEF Typed, MemoryOK
<1>2. inner.live[id] \in OrNone(n)
  BY <1>1, InnerAtId
<1> QED BY <1>1, <1>2, BoundsAssumption DEF OrNone, Incs

\* What was live of a generation, and still is.
LEMMA LiveKept ==
  ASSUME NEW n \in Nat \ {0}, Typed(n), ZeroGens, Gens, NEW g, LiveOf(g),
         \A id \in Ids : inner'.live[id] \in {0, inner.live[id]}
  PROVE  \A id \in Ids : inner'.live[id] # 0 => sess'[inner'.live[id]].gen = g
BY OldGens, LiveOld DEF LiveOf

\* A calm step in which everybody is tame.
LEMMA CalmFence ==
  ASSUME NEW n \in Nat \ {0}, Typed(n), ZeroGens, Fence, Gens, Calm, \A x \in Calling : Tame(x)
  PROVE  Fence'
<1>1. \A g : LiveOf(g) => \A id \in Ids : inner'.live[id] # 0 => sess'[inner'.live[id]].gen = g
  BY LiveKept DEF Calm
<1>2. \A x \in Calling : ops'[x].at \in Fencing => ops[x].at \in Fencing /\ GenOf(x)' = GenOf(x)
  BY DEF Tame, Calm, GenOf, Fencing, Removing
<1>3. \A x \in Calling : ops'[x].at \in Fencing => lc'.disposing /\ LiveOf(GenOf(x))'
  <2> TAKE x \in Calling
  <2> HAVE ops'[x].at \in Fencing
  <2>1. lc'.disposing /\ LiveOf(GenOf(x)) /\ GenOf(x)' = GenOf(x)
    BY <1>2 DEF Fence, Calm
  <2> QED BY <1>1, <2>1 DEF LiveOf
<1>4. ~lc'.disposing => LiveOf(inner.generation)'
  <2> HAVE ~lc'.disposing
  <2>1. LiveOf(inner.generation) /\ inner'.generation = inner.generation
    BY DEF Fence, Calm
  <2> QED BY <1>1, <2>1 DEF LiveOf
<1>5. \A x \in Calling : ops'[x].at = "send" => ops'[x].next.at \in {"idle", "recheck"}
  BY DEF Tame
<1> QED BY <1>2, <1>3, <1>4, <1>5 DEF Fence, At

-----------------------------------------------------------------------------
(* Who is tame.                                                            *)

\* Actors that do not move.
LEMMA StillTame ==
  ASSUME Fence, NEW x \in Calling, ops'[x] = ops[x]
  PROVE  Tame(x)
BY DEF Fence, Tame, At

\* A create begins no dispose.
LEMMA CreateTame ==
  ASSUME NEW n, OpsOK(n), Fence, NEW c \in Calling, CreateStep(c)
  PROVE  Tame(c)
<1>0. c \in Actors /\ ops[c] \in CallOp(n) /\ (At(c, "send") => ops[c].next.at \in {"idle", "recheck"})
  BY CallingFacts, CallAt DEF Fence
<1> USE <1>0 DEF OpsOK, Goto, Tame, Fencing, Removing, Idle
<1>1. CASE CreatePermit(c) \/ CreateSpawn(c) \/ CreatePublish(c) \/ CreatePersist(c)
  <2>1. ops[c] \in AtEntry \/ ops[c] \in AtSpawn(n)
    BY <1>1, CallAt DEF CreatePermit, CreateSpawn, CreatePublish, CreatePersist, At
  <2>2. ops'[c].at \in {"evict", "publish", "persist", "start"}
    BY <1>1, <2>1 DEF CreatePermit, CreateSpawn, CreatePublish, CreatePersist, AtEntry, AtSpawn
  <2> QED BY <2>2
<1>2. CASE CreateEvict(c)
  BY <1>2 DEF CreateEvict
<1>3. CASE CreateReserve(c)
  BY <1>3 DEF CreateReserve
<1>4. CASE CreateSpawnFails(c) \/ CreateStartFails(c)
  <2>1. \E cmds, keep : ops'[c] = Sending(cmds, AfterFailure(c), keep)
    BY <1>4 DEF CreateSpawnFails, CreateStartFails
  <2>2. AfterFailure(c).at \in {"idle", "recheck"}
    BY DEF AfterFailure
  <2> QED BY <2>1, <2>2 DEF Sending
<1>5. CASE CreateAbandon(c)
  BY <1>5 DEF CreateAbandon, AfterFailure
<1>6. CASE CreateStart(c)
  BY <1>6 DEF CreateStart, AfterCreate
<1>7. CASE SendNext(c)
  <2>1. ops[c] \in AtSend(n) /\ At(c, "send")
    BY <1>7, CallAt DEF SendNext, At
  <2>2. ops'[c].at = "send" /\ ops'[c].next = ops[c].next
    BY <1>7, <2>1 DEF SendNext, AtSend
  <2> QED BY <2>1, <2>2
<1>8. CASE SendDone(c)
  BY <1>8 DEF SendDone
<1> QED BY <1>1, <1>2, <1>3, <1>4, <1>5, <1>6, <1>7, <1>8 DEF CreateStep

\* Nor does a removal.
LEMMA RemoveTame ==
  ASSUME NEW n, OpsOK(n), Fence, NEW c \in Clients, RemoveStep(c)
  PROVE  Tame(c)
<1>0. c \in Actors /\ c \in Calling
  BY DEF Actors, Calling
<1> USE <1>0 DEF OpsOK, Goto, Return, Tame, Fencing, Removing, Idle
<1>1. CASE RemoveSend(c)
  <2>1. ops[c] \in AtRemove(n)
    BY <1>1, CallAt DEF RemoveSend, At
  <2> QED BY <1>1, <2>1 DEF RemoveSend, AtRemove
<1>2. CASE RemoveDone(c)
  BY <1>2 DEF RemoveDone
<1> QED BY <1>1, <1>2 DEF RemoveStep

\* Nor does a request other than dispose.
LEMMA RequestTame ==
  ASSUME NEW n, OpsOK(n), Fence, NEW c \in Callers, Request(c), ~DisposeCall(c)
  PROVE  Tame(c)
<1>0. c \in Actors /\ c \in Calling
  BY CallingFacts
<1> USE <1>0 DEF OpsOK, Goto, Tame, Fencing, Removing
<1>1. ASSUME NEW id, CreateCall(c, id) PROVE Tame(c)
  BY <1>1 DEF CreateCall
<1>2. ASSUME NEW id, Kill(c, id) PROVE Tame(c)
  BY <1>2, StillTame DEF Kill
<1>3. ASSUME NEW id, RemoveCall(c, id) PROVE Tame(c)
  BY <1>3 DEF RemoveCall
<1>4. ASSUME NEW id, NEW name, RenameCall(c, id, name) PROVE Tame(c)
  BY <1>4 DEF RenameCall
<1> HIDE DEF OpsOK, Goto, Tame
<1> QED BY <1>1, <1>2, <1>3, <1>4 DEF Request

\* Nor does a step of a call other than the turns of a dispose.
LEMMA CallTame ==
  ASSUME NEW n, OpsOK(n), Fence, NEW c \in Callers, CallStep(c), ~DisposeTurn(c)
  PROVE  Tame(c)
<1>0. c \in Actors /\ c \in Calling /\ c \in Clients
  BY CallingFacts DEF Callers
<1>1. CASE CreateStep(c) \/ RemoveStep(c)
  BY <1>0, <1>1, CreateTame, RemoveTame
<1> USE <1>0 DEF OpsOK, Goto, Return, Tame, Fencing, Removing, Idle
<1>2. CASE CreateRecheck(c)
  BY <1>2 DEF CreateRecheck
<1>3. CASE CreateTargetLost(c)
  BY <1>3 DEF CreateTargetLost, Sending
<1>4. CASE RenameSend(c)
  <2>1. ops[c] \in AtRename(n)
    BY <1>4, CallAt DEF RenameSend, At
  <2> QED BY <1>4, <2>1 DEF RenameSend, AtRename
<1>5. CASE RenameDone(c)
  BY <1>5 DEF RenameDone
<1>6. CASE DisposeRemove(c)
  BY <1>6 DEF DisposeRemove, At
<1>7. CASE DisposeEvict(c)
  BY <1>7 DEF DisposeEvict, At
<1> HIDE DEF OpsOK, Goto, Return, Tame
<1> QED BY <1>1, <1>2, <1>3, <1>4, <1>5, <1>6, <1>7 DEF CallStep, DisposeTurn

\* Nor does the sweeper.
LEMMA SweepTame ==
  ASSUME NEW n, OpsOK(n), Fence, SweepBegin \/ SweepStep
  PROVE  Tame(Sweeper)
<1>0. Sweeper \in Actors /\ Sweeper \in Calling /\ Sweeper \in Clients
  BY CallingFacts DEF Actors, Calling
<1>1. CASE RemoveStep(Sweeper)
  BY <1>0, <1>1, RemoveTame
<1> USE <1>0 DEF OpsOK, Goto, Tame, Fencing, Removing, Idle
<1>2. CASE SweepBegin
  <2>1. ops' = ops \/ ops'[Sweeper].at = "sweep"
    BY <1>2 DEF SweepBegin
  <2> QED BY <2>1, StillTame
<1>3. CASE SweepCheck
  <2>1. ops[Sweeper] \in AtRemove(n)
    BY <1>3, CallAt DEF SweepCheck, At
  <2> QED BY <1>3, <2>1 DEF SweepCheck, AtRemove
<1>4. CASE SweepRemove
  BY <1>4 DEF SweepRemove
<1> HIDE DEF OpsOK, Goto, Tame
<1> QED BY <1>1, <1>2, <1>3, <1>4 DEF SweepStep

\* Nor does restore_sessions.
LEMMA RestoreTame ==
  ASSUME NEW n, OpsOK(n), Fence, RestoreStep
  PROVE  Tame(Main) /\ \A x \in Calling \ {Main} : ops'[x] = ops[x]
<1>0. Main \in Actors /\ Main \in Calling /\ Calling \subseteq Actors
  BY CallingFacts
<1>1. CASE CreateStep(Main)
  BY <1>0, <1>1, CreateTame, CreateLeaves DEF Leaves
<1> USE <1>0 DEF OpsOK, Goto, Return, Tame, Fencing, Removing, Idle
<1>2. CASE RestoreLoad
  BY <1>2 DEF RestoreLoad
<1>3. ASSUME NEW id \in Ids, RestoreNext(id)
      PROVE  Tame(Main) /\ \A x \in Calling \ {Main} : ops'[x] = ops[x]
  BY <1>3 DEF RestoreNext
<1>4. CASE RestoreDelete
  BY <1>4 DEF RestoreDelete
<1>5. CASE RestoreUnavailable
  BY <1>5 DEF RestoreUnavailable
<1>6. CASE RestoreCreate
  <2>1. ops[Main] \in AtEntry
    BY <1>6, CallAt DEF RestoreCreate, At
  <2> QED BY <1>6, <2>1 DEF RestoreCreate, AtEntry
<1>7. CASE RestoreDone
  BY <1>7 DEF RestoreDone
<1> HIDE DEF OpsOK, Goto, Return, Tame
<1> QED BY <1>1, <1>2, <1>3, <1>4, <1>5, <1>6, <1>7 DEF RestoreStep

\* Nor does the shutdown, until it closes the gate.
LEMMA ShutdownTame ==
  ASSUME NEW n, OpsOK(n), Fence, ShutdownBegin \/ (ShutdownStep /\ ~ShutdownDone), ~CloseTurn
  PROVE  Tame(Main) /\ \A x \in Calling \ {Main} : ops'[x] = ops[x]
<1>0. Main \in Actors /\ Main \in Calling /\ Calling \subseteq Actors
  BY CallingFacts
<1> USE <1>0 DEF OpsOK, Goto, Return, Tame, Fencing, Removing, Idle
<1>1. CASE ShutdownBegin
  BY <1>1 DEF ShutdownBegin
<1>2. CASE SnapshotTake
  BY <1>2 DEF SnapshotTake
<1>3. CASE SnapshotSend
  BY <1>3 DEF SnapshotSend
<1>4. CASE StopAll
  BY <1>4 DEF StopAll
<1>5. CASE ShutdownWorker
  BY <1>5 DEF ShutdownWorker
<1> HIDE DEF OpsOK, Goto, Return, Tame
<1> QED BY <1>1, <1>2, <1>3, <1>4, <1>5 DEF ShutdownStep, CloseTurn

-----------------------------------------------------------------------------
(* Publications, and the turns of a dispose.                               *)

\* A session of the current generation goes live outside a dispose.
LEMMA PublishFence ==
  ASSUME NEW n \in Nat \ {0}, Typed(n), ZeroGens, Fence, Gens, NEW id \in Ids, NEW inc \in Given(n),
         sess[inc].gen = inner.generation, ~lc.disposing, lc'.disposing = lc.disposing,
         inner' = Published(inner, id, inc), \A x \in Calling : Tame(x)
  PROVE  Fence'
<1>1. inner \in InnerOf(n) /\ inc \in OrNone(n) /\ inc \in Incs /\ inc # n
  BY BoundsAssumption DEF Typed, MemoryOK, Given, OrNone, Incs
<1>2. /\ inner'.generation = inner.generation /\ inner'.live[id] = inc
      /\ \A j \in Ids \ {id} : inner'.live[j] = inner.live[j]
  BY <1>1, PublishFacts DEF Local, Same
<1>3. LiveOf(inner.generation)
  BY DEF Fence
<1>4. sess'[inc].gen = inner.generation
  BY <1>1, OldGens
<1>5. LiveOf(inner.generation)'
  <2> SUFFICES ASSUME NEW j \in Ids, inner'.live[j] # 0
               PROVE  sess'[inner'.live[j]].gen = inner.generation
    BY <1>2 DEF LiveOf
  <2>1. CASE j = id
    BY <1>2, <1>4, <2>1
  <2>2. CASE j # id
    <3>1. inner.live[j] # 0 /\ inner'.live[j] = inner.live[j]
      BY <1>2, <2>2
    <3> QED BY <1>3, <3>1, OldGens, LiveOld DEF LiveOf
  <2> QED BY <2>1, <2>2
<1>6. \A x \in Calling : ops[x].at \notin Fencing
  BY DEF Fence
<1>7. \A x \in Calling : /\ ops'[x].at \notin Fencing
                         /\ ops'[x].at = "send" => ops'[x].next.at \in {"idle", "recheck"}
  BY <1>6 DEF Tame, Fencing, Removing
<1> QED BY <1>5, <1>7 DEF Fence, At

\* One actor begins, continues or ends a dispose, and the others are not at one.
LEMMA TurnFence ==
  ASSUME Fence, NEW c \in Calling, \A x \in Calling \ {c} : ops'[x] = ops[x],
         ops'[c].at # "send",
         ops'[c].at \in Fencing => lc'.disposing /\ LiveOf(GenOf(c))',
         ~lc'.disposing => LiveOf(inner.generation)',
         \A x \in Calling \ {c} : ops[x].at \notin Fencing
  PROVE  Fence'
BY DEF Fence, At

\* A dispose, from its call to its end.
LEMMA DisposeFenceKept ==
  ASSUME NEW n \in Nat \ {0}, Typed(n), Fence, NEW c \in Callers,
         DisposeCall(c) \/ (CallStep(c) /\ DisposeTurn(c))
  PROVE  Fence'
<1>0. /\ c \in Actors /\ c \in Calling /\ Calling \subseteq Actors /\ OpsOK(n) /\ LocksOK
      /\ inner \in InnerOf(n)
  BY CallingFacts DEF Typed, Others, MemoryOK, Actors
<1>1. CASE DisposeCall(c)
  <2>1. /\ ops' = [ops EXCEPT ![c] = [at |-> "drain"]] /\ ~lc.disposing
        /\ lc' = [lc EXCEPT !.disposing = TRUE] /\ inner' = inner /\ sess' = sess
    BY <1>1 DEF DisposeCall, Goto
  <2>2. ops'[c].at = "drain" /\ \A x \in Calling \ {c} : ops'[x] = ops[x]
    BY <1>0, <2>1 DEF OpsOK
  <2>3. lc'.disposing
    BY <1>0, <2>1 DEF LocksOK
  <2>4. LiveOf(inner.generation)'
    BY <2>1 DEF Fence, LiveOf
  <2>5. LiveOf(GenOf(c))'
    BY <2>2, <2>4 DEF LiveOf, GenOf, Removing
  <2>6. \A x \in Calling : ops[x].at \notin Fencing
    BY <2>1 DEF Fence
  <2> QED BY <1>0, <2>2, <2>3, <2>5, <2>6, TurnFence
<1>2. CASE DisposeStart(c)
  <2>1. /\ At(c, "drain") /\ lc' = lc /\ sess' = sess
        /\ inner' = AtGeneration(inner, inner.generation + 1)
        /\ ops' = [ops EXCEPT ![c] = [at |-> "dispose", left |-> Identities(inner),
                                      gen |-> inner.generation]]
    BY <1>2 DEF DisposeStart, Goto, AtGeneration
  <2>2. /\ ops'[c].at = "dispose" /\ ops'[c].gen = inner.generation
        /\ \A x \in Calling \ {c} : ops'[x] = ops[x]
    BY <1>0, <2>1 DEF OpsOK
  <2>3. lc.disposing /\ LiveOf(inner.generation)
    BY <1>0, <2>1 DEF Fence, Fencing, GenOf, Removing, At
  <2>4. \A j \in Ids : inner'.live[j] = inner.live[j]
    <3>1. inner.generation + 1 \in Nat
      BY <1>0, InnerFields
    <3> QED BY <1>0, <2>1, <3>1, GenerationFacts DEF Same
  <2>5. LiveOf(GenOf(c))'
    BY <2>1, <2>2, <2>3, <2>4 DEF LiveOf, GenOf, Removing
  <2>6. \A x \in Calling \ {c} : ops[x].at \notin Fencing
    BY <1>0, <2>1 DEF Fence, Fencing, At
  <2> QED BY <1>0, <2>1, <2>2, <2>3, <2>5, <2>6, TurnFence
<1>3. CASE DisposeError(c)
  <2>1. /\ At(c, "disposing") /\ sess' = sess /\ inner' = AtGeneration(inner, ops[c].gen)
        /\ lc' = [lc EXCEPT !.disposing = FALSE] /\ ops' = [ops EXCEPT ![c] = Idle]
    BY <1>3 DEF DisposeError, EndDispose, Goto, AtGeneration
  <2>2. ops'[c].at = "idle" /\ \A x \in Calling \ {c} : ops'[x] = ops[x]
    BY <1>0, <2>1 DEF OpsOK, Idle
  <2>3. LiveOf(ops[c].gen) /\ ops[c].gen \in Nat
    <3>1. ops[c] \in AtDisposing(n)
      BY <1>0, <2>1, CallAt DEF At
    <3> QED BY <1>0, <2>1, <3>1 DEF Fence, Fencing, GenOf, Removing, At, AtDisposing
  <2>4. inner'.generation = ops[c].gen /\ \A j \in Ids : inner'.live[j] = inner.live[j]
    BY <1>0, <2>1, <2>3, GenerationFacts DEF Same
  <2>5. LiveOf(inner.generation)'
    BY <2>1, <2>3, <2>4 DEF LiveOf
  <2>6. \A x \in Calling \ {c} : ops[x].at \notin Fencing
    BY <1>0, <2>1 DEF Fence, Fencing, Removing, At
  <2> QED BY <1>0, <2>2, <2>5, <2>6, TurnFence DEF Fencing, Removing
<1>4. CASE DisposeFinish(c)
  <2>1. /\ At(c, "dispose") /\ inner' = DisposeAll(inner) /\ ops' = [ops EXCEPT ![c] = Idle]
    BY <1>4 DEF DisposeFinish, EndDispose, Goto
  <2>2. ops'[c].at = "idle" /\ \A x \in Calling \ {c} : ops'[x] = ops[x]
    BY <1>0, <2>1 DEF OpsOK, Idle
  <2>3. \A j \in Ids : inner'.live[j] = 0
    BY <1>0, <2>1, DisposeFacts
  <2>4. LiveOf(inner.generation)'
    BY <2>3 DEF LiveOf
  <2>5. \A x \in Calling \ {c} : ops[x].at \notin Fencing
    BY <1>0, <2>1 DEF Fence, Fencing, Removing, At
  <2> QED BY <1>0, <2>2, <2>4, <2>5, TurnFence DEF Fencing, Removing
<1> QED BY <1>1, <1>2, <1>3, <1>4 DEF DisposeTurn

\* The shutdown's own dispose.
LEMMA CloseFenceKept ==
  ASSUME NEW n \in Nat \ {0}, Typed(n), Fence, CloseTurn
  PROVE  Fence'
<1>0. /\ Main \in Actors /\ Main \in Calling /\ Calling \subseteq Actors /\ OpsOK(n) /\ LocksOK
      /\ inner \in InnerOf(n)
  BY CallingFacts DEF Typed, Others, MemoryOK, Actors
<1>1. CASE ShutdownClose
  <2>1. /\ ops' = [ops EXCEPT ![Main] = [at |-> "close"]] /\ ~lc.disposing
        /\ lc' = [lc EXCEPT !.disposing = TRUE, !.closing = TRUE] /\ inner' = inner /\ sess' = sess
    BY <1>1 DEF ShutdownClose, Goto
  <2>2. ops'[Main].at = "close" /\ \A x \in Calling \ {Main} : ops'[x] = ops[x]
    BY <1>0, <2>1 DEF OpsOK
  <2>3. lc'.disposing
    BY <1>0, <2>1 DEF LocksOK
  <2>4. LiveOf(inner.generation)'
    BY <2>1 DEF Fence, LiveOf
  <2>5. LiveOf(GenOf(Main))'
    BY <2>2, <2>4 DEF LiveOf, GenOf, Removing
  <2>6. \A x \in Calling : ops[x].at \notin Fencing
    BY <2>1 DEF Fence
  <2> QED BY <1>0, <2>2, <2>3, <2>5, <2>6, TurnFence
<1>2. CASE ShutdownDispose
  <2>1. /\ At(Main, "close") /\ ops' = [ops EXCEPT ![Main] = [at |-> "join"]]
        /\ inner' = [DisposeAll(inner) EXCEPT !.closing = TRUE, !.generation = @ + 1]
    BY <1>2 DEF ShutdownDispose, Goto
  <2>2. ops'[Main].at = "join" /\ \A x \in Calling \ {Main} : ops'[x] = ops[x]
    BY <1>0, <2>1 DEF OpsOK
  <2>3. \A j \in Ids : inner'.live[j] = 0
    <3>1. \A j \in Ids : DisposeAll(inner).live[j] = 0
      BY <1>0, DisposeFacts
    <3>2. DisposeAll(inner) \in InnerOf(n)
      BY <1>0, DisposeFacts
    <3> HIDE DEF DisposeAll
    <3>3. inner'.live = DisposeAll(inner).live
      BY <2>1, <3>2 DEF InnerOf
    <3> QED BY <3>1, <3>3
  <2>4. LiveOf(inner.generation)'
    BY <2>3 DEF LiveOf
  <2>5. \A x \in Calling \ {Main} : ops[x].at \notin Fencing
    BY <1>0, <2>1 DEF Fence, Fencing, At
  <2> QED BY <1>0, <2>2, <2>4, <2>5, TurnFence DEF Fencing, Removing
<1> QED BY <1>1, <1>2 DEF CloseTurn

\* A new process.
LEMMA BootFenced ==
  ASSUME NEW n \in Nat \ {0}, Typed(n), Boot
  PROVE  Fenced'
<1>1. /\ inner' = NewInner(advance_past(db)) /\ sess' = [i \in Incs |-> NoSession]
      /\ ops' = [[a \in Actors |-> Idle] EXCEPT ![Main] = [at |-> "load"]]
      /\ respawnQ' = <<>> /\ phase' = "boot"
  BY DEF Boot
<1>2. /\ \A x \in Actors : ops'[x].at \in {"idle", "load"}
      /\ Calling \subseteq Actors /\ Sup \in Actors
  BY <1>1, CallingFacts DEF Idle
<1>3. inner'.generation = 0 /\ \A id \in Ids : inner'.live[id] = 0
  BY <1>1 DEF NewInner
<1>4. ZeroGens'
  BY <1>1, <1>2, <1>3 DEF ZeroGens, NoSession
<1> QED BY <1>2, <1>3, <1>4 DEF Fenced, SupGen, Fence, Fencing, Removing, LiveOf, At

-----------------------------------------------------------------------------
(* The start, and the supervisor's request.                                *)

\* Readers and the supervisor alone use the respawn queue.
LEMMA QueueKept ==
  ASSUME \/ \E c \in Clients : Request(c) \/ CallStep(c)
         \/ SweepBegin \/ SweepStep \/ RestoreStep \/ ShutdownBegin
         \/ ShutdownStep /\ ~ShutdownDone
  PROVE  respawnQ' = respawnQ
<1>1. ASSUME NEW c, CreateStep(c) PROVE respawnQ' = respawnQ
  BY <1>1 DEF CreateStep, CreatePermit, CreateEvict, CreateReserve, CreateSpawn, CreateSpawnFails,
       CreateAbandon, CreatePublish, CreatePersist, CreateStart, CreateStartFails, SendNext, SendDone
<1>2. ASSUME NEW c, RemoveStep(c) PROVE respawnQ' = respawnQ
  BY <1>2 DEF RemoveStep, RemoveSend, RemoveDone
<1>3. ASSUME NEW c, Request(c) PROVE respawnQ' = respawnQ
  BY <1>3 DEF Request, CreateCall, Kill, RemoveCall, RenameCall, DisposeCall
<1>4. ASSUME NEW c, CallStep(c) PROVE respawnQ' = respawnQ
  BY <1>1, <1>2, <1>4 DEF CallStep, CreateRecheck, CreateTargetLost, RenameSend, RenameDone,
       DisposeStart, DisposeRemove, DisposeEvict, DisposeError, DisposeFinish
<1>5. CASE SweepBegin \/ SweepStep
  BY <1>2, <1>5 DEF SweepBegin, SweepStep, SweepCheck, SweepRemove
<1>6. CASE RestoreStep
  BY <1>1, <1>6 DEF RestoreStep, RestoreLoad, RestoreNext, RestoreDelete, RestoreUnavailable,
       RestoreCreate, RestoreDone
<1>7. CASE ShutdownBegin \/ (ShutdownStep /\ ~ShutdownDone)
  BY <1>7 DEF ShutdownBegin, ShutdownStep, SnapshotTake, SnapshotSend, StopAll, ShutdownClose,
       ShutdownDispose, ShutdownWorker
<1> QED BY <1>3, <1>4, <1>5, <1>6, <1>7

\* A step that is neither the supervisor's nor a reader's request for a respawn.
LEMMA OtherGens ==
  ASSUME NEW n \in Nat \ {0}, Typed(n), ZeroGens, SupGen, Gens, ops'[Sup] = ops[Sup],
         respawnQ' = respawnQ \/ (phase = "boot" => \A k \in 1..Len(respawnQ') : respawnQ'[k].gen = 0),
         phase' = "boot" => phase = "boot" /\ inner'.generation = inner.generation
  PROVE  ZeroGens' /\ SupGen'
<1>0. OpsOK(n) /\ n \in 1..(MaxInc + 1) /\ inner.next = n /\ inner \in InnerOf(n)
  BY InnerFields DEF Typed, Others, MemoryOK
<1>1. SupGen'
  <2> SUFFICES ASSUME ops[Sup].at \in {"permit", "spawn", "publish"}
               PROVE  sess'[ops[Sup].inc].gen = ops[Sup].cmd.gen
    BY DEF SupGen
  <2>1. ops[Sup].inc \in Given(n)
    BY <1>0, SupCmd
  <2>2. ops[Sup].inc \in Incs /\ ops[Sup].inc # n
    BY <1>0, <2>1, BoundsAssumption DEF Given, Incs
  <2> QED BY <2>2, OldGens DEF SupGen
<1>2. ZeroGens'
  <2> SUFFICES ASSUME phase' = "boot" PROVE ZeroGens'
    BY DEF ZeroGens
  <2>1. \A i \in Incs : sess'[i].gen = 0
    BY DEF ZeroGens, Gens, At
  <2> QED BY <2>1 DEF ZeroGens
<1> QED BY <1>1, <1>2

\* A publication keeps the generation.
LEMMA PublishGeneration ==
  ASSUME NEW n \in Nat \ {0}, Typed(n), (\E c \in Calling : CreatePublish(c)) \/ SupPublish
  PROVE  \E id \in Ids, inc \in Given(n) :
           /\ inner' = Published(inner, id, inc) /\ inner'.generation = inner.generation
           /\ ~lc.disposing /\ lc' = lc
           /\ \/ SupPublish /\ inc = ops[Sup].inc /\ inner.generation = ops[Sup].cmd.gen
              \/ ~SupPublish /\ sess[inc].gen = inner.generation
<1>0. OpsOK(n) /\ inner \in InnerOf(n) /\ n \in 1..(MaxInc + 1)
  BY DEF Typed, Others, MemoryOK
<1>1. ASSUME NEW c \in Calling, CreatePublish(c), ~SupPublish
      PROVE  \E id \in Ids, inc \in Given(n) :
               /\ inner' = Published(inner, id, inc) /\ inner'.generation = inner.generation
               /\ ~lc.disposing /\ lc' = lc /\ sess[inc].gen = inner.generation
  <2>1. /\ At(c, "publish") /\ inner' = Published(inner, ops[c].id, ops[c].inc)
        /\ ~lc.disposing /\ lc' = lc /\ sess[ops[c].inc].gen = inner.generation
    BY <1>1 DEF CreatePublish, CreateRefused, Published, locks
  <2>2. ops[c] \in AtSpawn(n)
    BY <1>0, <2>1, CallAt DEF At
  <2>3. ops[c].id \in Ids /\ ops[c].inc \in Given(n)
    BY <2>2 DEF AtSpawn
  <2>4. ops[c].inc \in OrNone(n)
    BY <2>3 DEF Given, OrNone
  <2>5. inner'.generation = inner.generation
    BY <1>0, <2>1, <2>3, <2>4, PublishFacts DEF Local
  <2> QED BY <2>1, <2>3, <2>5
<1>2. ASSUME SupPublish
      PROVE  \E id \in Ids, inc \in Given(n) :
               /\ inner' = Published(inner, id, inc) /\ inner'.generation = inner.generation
               /\ ~lc.disposing /\ lc' = lc /\ inc = ops[Sup].inc
               /\ inner.generation = ops[Sup].cmd.gen
  <2>1. /\ At(Sup, "publish") /\ inner' = Published(inner, ops[Sup].cmd.id, ops[Sup].inc)
        /\ ~lc.disposing /\ lc' = lc /\ inner.generation = ops[Sup].cmd.gen
    BY <1>2 DEF SupPublish, RespawnStale, Published
  <2>2. ops[Sup].cmd.id \in Ids /\ ops[Sup].inc \in Given(n)
    BY <1>0, <2>1, SupCmd DEF At
  <2>3. ops[Sup].inc \in OrNone(n)
    BY <2>2 DEF Given, OrNone
  <2>4. inner'.generation = inner.generation
    BY <1>0, <2>1, <2>2, <2>3, PublishFacts DEF Local
  <2> QED BY <2>1, <2>2, <2>4
<1> QED BY <1>1, <1>2

\* The supervisor's own steps.
LEMMA SupFenced ==
  ASSUME NEW n \in Nat \ {0}, Typed(n), Fenced, SupStep
  PROVE  Fenced'
<1>0. /\ OpsOK(n) /\ SessionsOK(n) /\ QueueOK(n) /\ ChanOK(n) /\ inner \in InnerOf(n)
      /\ n \in 1..(MaxInc + 1) /\ inner.next = n /\ Sup \in Actors
      /\ Calling \subseteq Actors \ {Sup}
  BY InnerFields, CallingFacts DEF Typed, Others, MemoryOK
<1>1. Gens /\ (SupPublish \/ Calm)
  BY SupCalm
<1>2. phase' = phase /\ \A x \in Calling : ops'[x] = ops[x]
  BY <1>0, SupLeaves DEF Leaves
<1>3. \A x \in Calling : Tame(x)
  BY <1>2, StillTame DEF Fenced
<1>4. \A i \in Incs : i # n => sess'[i].gen = sess[i].gen
  BY <1>1, OldGens DEF Fenced
<1>5. inner'.generation = inner.generation
  BY <1>1, PublishGeneration DEF Calm
<1>6. Fence'
  <2>1. CASE Calm
    BY <1>1, <1>3, <2>1, CalmFence DEF Fenced
  <2>2. CASE SupPublish
    <3>1. PICK id \in Ids, inc \in Given(n) :
            /\ inner' = Published(inner, id, inc) /\ ~lc.disposing /\ lc' = lc
            /\ inc = ops[Sup].inc /\ inner.generation = ops[Sup].cmd.gen
      BY <2>2, PublishGeneration
    <3>2. sess[inc].gen = inner.generation
      BY <2>2, <3>1 DEF SupPublish, At, Fenced, SupGen
    <3> QED BY <1>1, <1>3, <3>1, <3>2, PublishFence DEF Fenced
  <2> QED BY <1>1, <2>1, <2>2
<1>7. SupGen'
  <2> USE <1>0 DEF OpsOK, Goto, Return, SupGen, Idle, SupFailed
  <2>1. CASE SupReserve
    <3>1. \/ ops'[Sup].at = "failed"
          \/ /\ ops'[Sup].cmd = ops[Sup].cmd /\ ops'[Sup].inc = inner.next
             /\ inner.next \in Incs
             /\ sess' = [sess EXCEPT ![inner.next] = NewSession(ops[Sup].cmd.id,
                    sess[ops[Sup].cmd.inc].name, ops[Sup].cmd.gen, ops[Sup].cmd.count + 1)]
      BY <2>1 DEF SupReserve, InBounds
    <3>2. \A id, name, gen, count : NewSession(id, name, gen, count).gen = gen
      BY DEF NewSession, NoSession
    <3>3. sess \in [Incs -> SessionType]
      BY DEF SessionsOK
    <3> QED BY <3>1, <3>2, <3>3
  <2>2. CASE SupPermit \/ SupSpawn
    <3>1. ops[Sup] \in SupTry(n) /\ ops[Sup].at \in {"permit", "spawn"}
      BY <2>2, SupAt DEF SupPermit, SupSpawn, At
    <3>2. \/ ops'[Sup].at = "idle"
          \/ ops'[Sup].cmd = ops[Sup].cmd /\ ops'[Sup].inc = ops[Sup].inc
      BY <2>2, <3>1 DEF SupPermit, SupSpawn, SupTry
    <3>3. ops[Sup].inc \in Incs /\ ops[Sup].inc # n
      BY <3>1, BoundsAssumption DEF SupTry, Given, Incs
    <3> QED BY <1>4, <3>1, <3>2, <3>3 DEF Fenced
  <2>3. CASE SupRecv \/ SupInvalid
    BY <2>3 DEF SupRecv, SupInvalid
  <2>4. CASE SupCheck
    BY <2>4 DEF SupCheck
  <2>5. CASE SupSpawnFails \/ SupStartFails \/ SupSourceFailed
    BY <2>5 DEF SupSpawnFails, SupStartFails, SupSourceFailed, Sending
  <2>6. CASE SupAbandon
    BY <2>6 DEF SupAbandon
  <2>7. CASE SupPublish \/ SupPersist
    <3>1. ops[Sup] \in SupTry(n)
      BY <2>7, SupAt DEF SupPublish, SupPersist, At
    <3> QED BY <2>7, <3>1 DEF SupPublish, SupPersist, SupTry
  <2>8. CASE SupStart
    BY <2>8 DEF SupStart
  <2>9. CASE SendNext(Sup)
    <3>1. ops[Sup] \in SupSend(n)
      BY <2>9, SupAt DEF SendNext, At
    <3> QED BY <2>9, <3>1 DEF SendNext, SupSend
  <2>10. CASE SendDone(Sup)
    <3>1. ops[Sup] \in SupSend(n) /\ ops'[Sup] = ops[Sup].next
      BY <2>10, SupAt DEF SendDone, At
    <3>2. ops[Sup].next \in SupIdle \cup SupLost(n)
      BY <3>1 DEF SupSend
    <3> QED BY <3>1, <3>2 DEF SupIdle, SupLost
  <2> QED BY <2>1, <2>2, <2>3, <2>4, <2>5, <2>6, <2>7, <2>8, <2>9, <2>10 DEF SupStep
<1>8. ZeroGens'
  <2> SUFFICES ASSUME phase = "boot" PROVE ZeroGens'
    BY <1>2 DEF ZeroGens
  <2>1. \A i \in Incs : sess'[i].gen = 0
    BY <1>1 DEF ZeroGens, Gens, At, Fenced
  <2>2. \A k \in 1..Len(respawnQ') : respawnQ'[k].gen = 0
    <3>1. CASE respawnQ' = respawnQ
      BY <3>1 DEF Fenced, ZeroGens
    <3>2. CASE SupRecv
      <4>1. respawnQ # <<>> /\ respawnQ' = Tail(respawnQ) /\ respawnQ \in Seq(RespawnOf(n))
        BY <1>0, <3>2 DEF SupRecv, QueueOK
      <4>2. \A k \in 1..Len(Tail(respawnQ)) :
              Tail(respawnQ)[k] = respawnQ[k + 1] /\ k + 1 \in 1..Len(respawnQ)
        BY <4>1
      <4> QED BY <4>1, <4>2 DEF Fenced, ZeroGens
    <3>3. respawnQ' = respawnQ \/ SupRecv
      BY DEF SupStep, SupCheck, SupInvalid, SupReserve, SupPermit, SupSpawn, SupSpawnFails,
             SupAbandon, SupPublish, SupPersist, SupStart, SupStartFails, SupSourceFailed,
             SendNext, SendDone
    <3> QED BY <3>1, <3>2, <3>3
  <2>3. ops'[Sup].at \in {"backoff", "reserve"} => ops'[Sup].cmd.gen = 0
    <3> USE <1>0 DEF OpsOK, Goto, Return, Idle, SupFailed
    <3>1. CASE SupRecv
      <4>1. respawnQ # <<>> /\ respawnQ \in Seq(RespawnOf(n)) /\ ops'[Sup].cmd = Head(respawnQ)
        BY <3>1 DEF SupRecv, QueueOK
      <4>2. Head(respawnQ) = respawnQ[1] /\ 1 \in 1..Len(respawnQ)
        BY <4>1
      <4> QED BY <4>1, <4>2 DEF Fenced, ZeroGens
    <3>2. CASE SupCheck
      <4>1. ops[Sup].at = "backoff" /\ (ops'[Sup].at = "idle" \/ ops'[Sup].cmd = ops[Sup].cmd)
        BY <3>2 DEF SupCheck, At
      <4> QED BY <4>1 DEF Fenced, ZeroGens
    <3>3. CASE SupInvalid \/ SupReserve
      BY <3>3 DEF SupInvalid, SupReserve
    <3>4. CASE SupPermit \/ SupSpawn \/ SupPublish \/ SupPersist
      <4>1. ops[Sup] \in SupTry(n)
        BY <3>4, SupAt DEF SupPermit, SupSpawn, SupPublish, SupPersist, At
      <4> QED BY <3>4, <4>1 DEF SupPermit, SupSpawn, SupPublish, SupPersist, SupTry, At
    <3>5. CASE SupSpawnFails \/ SupStartFails \/ SupSourceFailed
      BY <3>5 DEF SupSpawnFails, SupStartFails, SupSourceFailed, Sending
    <3>6. CASE SupAbandon \/ SupStart
      BY <3>6 DEF SupAbandon, SupStart
    <3>7. CASE SendNext(Sup)
      <4>1. ops[Sup] \in SupSend(n)
        BY <3>7, SupAt DEF SendNext, At
      <4> QED BY <3>7, <4>1 DEF SendNext, SupSend
    <3>8. CASE SendDone(Sup)
      <4>1. ops[Sup] \in SupSend(n) /\ ops'[Sup] = ops[Sup].next
        BY <3>8, SupAt DEF SendDone, At
      <4>2. ops[Sup].next \in SupIdle \cup SupLost(n)
        BY <4>1 DEF SupSend
      <4> QED BY <4>1, <4>2 DEF SupIdle, SupLost
    <3> QED BY <3>1, <3>2, <3>3, <3>4, <3>5, <3>6, <3>7, <3>8 DEF SupStep
  <2> QED BY <1>5, <2>1, <2>2, <2>3 DEF ZeroGens, Fenced
<1> QED BY <1>6, <1>7, <1>8 DEF Fenced

\* A reader's step.
LEMMA ReaderFenced ==
  ASSUME NEW n \in Nat \ {0}, Typed(n), Fenced, NEW i \in Incs,
         ReaderOutput(i) \/ ReaderExit(i) \/ ReaderStep(i)
  PROVE  Fenced'
<1>0. SessionsOK(n) /\ QueueOK(n) /\ ChanOK(n) /\ Sup \in Actors
  BY CallingFacts DEF Typed, Others
<1>1. ops' = ops /\ phase' = phase
  BY <1>0, ReaderLeaves
<1>2. Gens /\ Calm
  BY ReaderCalm
<1>3. \A x \in Calling : Tame(x)
  BY <1>1, StillTame DEF Fenced
<1>4. Fence'
  BY <1>2, <1>3, CalmFence DEF Fenced
<1>5. respawnQ' = respawnQ \/ (phase = "boot" => \A k \in 1..Len(respawnQ') : respawnQ'[k].gen = 0)
  <2>1. CASE ReaderRespawn(i)
    <3> SUFFICES ASSUME phase = "boot", respawnQ' # respawnQ
                 PROVE  \A k \in 1..Len(respawnQ') : respawnQ'[k].gen = 0
      OBVIOUS
    <3> DEFINE cmd == [id |-> sess[i].id, inc |-> i, gen |-> sess[i].gen, count |-> sess[i].count]
    <3>1. respawnQ' = Append(respawnQ, cmd) /\ respawnQ \in Seq(RespawnOf(n))
      BY <1>0, <2>1 DEF ReaderRespawn, QueueOK
    <3>2. cmd.gen = 0
      BY DEF Fenced, ZeroGens
    <3>3. \A k \in 1..Len(respawnQ) : respawnQ[k].gen = 0
      BY DEF Fenced, ZeroGens
    <3> HIDE DEF cmd
    <3>4. \A k \in 1..Len(respawnQ') : \/ k \in 1..Len(respawnQ) /\ respawnQ'[k] = respawnQ[k]
                                       \/ respawnQ'[k] = cmd
      BY <3>1
    <3> QED BY <3>2, <3>3, <3>4
  <2>2. CASE ~ReaderRespawn(i)
    BY <2>2 DEF ReaderOutput, ReaderExit, ReaderStep, ReaderLock, ReaderSnapshot, ReaderExited,
         ReaderEvent
  <2> QED BY <2>1, <2>2
<1>6. ZeroGens' /\ SupGen'
  BY <1>1, <1>2, <1>5, OtherGens DEF Fenced, Calm
<1> QED BY <1>4, <1>6 DEF Fenced

\* A publication of a call that starts no dispose.
LEMMA CreatePublishFence ==
  ASSUME NEW n \in Nat \ {0}, Typed(n), ZeroGens, Fence, Gens, NEW c \in Calling, CreatePublish(c),
         \A x \in Calling : Tame(x)
  PROVE  Fence'
<1>1. ~SupPublish
  <2>1. ops[c].at = "publish" /\ ops'[c].at = "persist"
    <3>1. ops[c] \in AtSpawn(n) /\ c \in Actors /\ OpsOK(n)
      BY CallAt, CallingFacts DEF CreatePublish, At, Typed, Others
    <3> QED BY <3>1 DEF CreatePublish, At, OpsOK, AtSpawn
  <2>2. c # Sup /\ c \in Actors /\ Sup \in Actors /\ OpsOK(n)
    BY CallingFacts DEF Typed, Others
  <2> QED BY <2>1, <2>2 DEF SupPublish, OpsOK
<1>2. PICK id \in Ids, inc \in Given(n) :
        /\ inner' = Published(inner, id, inc) /\ ~lc.disposing /\ lc' = lc
        /\ sess[inc].gen = inner.generation
  BY <1>1, PublishGeneration
<1> QED BY <1>2, PublishFence

\* The sweeper's steps.
LEMMA SweepFenced ==
  ASSUME NEW n \in Nat \ {0}, Typed(n), Booting, Fenced, SweepBegin \/ SweepStep
  PROVE  Fenced'
<1>0. /\ OpsOK(n) /\ Sweeper \in Calling /\ Sweeper \in Clients /\ Sup \in Actors \ {Sweeper}
      /\ Calling \subseteq Actors
  BY CallingFacts DEF Typed, Others, Calling
<1>1. Leaves(Sweeper)
  BY <1>0, SweepLeaves
<1>2. phase' = phase /\ ops'[Sup] = ops[Sup] /\ \A x \in Calling \ {Sweeper} : ops'[x] = ops[x]
  BY <1>0, <1>1 DEF Leaves
<1>3. respawnQ' = respawnQ
  BY QueueKept
<1>4. Gens /\ Calm
  BY SweepCalm
<1>5. ZeroGens' /\ SupGen'
  BY <1>2, <1>3, <1>4, OtherGens DEF Fenced, Calm
<1>6. \A x \in Calling : Tame(x)
  BY <1>0, <1>2, SweepTame, StillTame DEF Fenced
<1> QED BY <1>4, <1>5, <1>6, CalmFence DEF Fenced

\* A client's request, or a step of the call it started.
LEMMA ClientFenced ==
  ASSUME NEW n \in Nat \ {0}, Typed(n), Booting, Fenced, NEW c \in Callers, Request(c) \/ CallStep(c)
  PROVE  Fenced'
<1>0. /\ OpsOK(n) /\ c \in Calling /\ c \in Clients /\ Sup \in Actors \ {c}
      /\ Calling \subseteq Actors
  BY CallingFacts DEF Typed, Others, Callers
<1>1. Leaves(c) /\ (phase = "serving" \/ ~At(c, "idle"))
  BY <1>0, RequestLeaves, CallLeaves
<1>2. phase' # "boot" /\ ops'[Sup] = ops[Sup] /\ \A x \in Calling \ {c} : ops'[x] = ops[x]
  BY <1>0, <1>1 DEF Leaves, Booting, Alone
<1>3. respawnQ' = respawnQ
  BY <1>0, QueueKept
<1>4. Gens /\ (CreatePublish(c) \/ DisposeCall(c) \/ (CallStep(c) /\ DisposeTurn(c)) \/ Calm)
  BY RequestCalm, CallCalm
<1>5. ZeroGens' /\ SupGen'
  BY <1>2, <1>3, <1>4, OtherGens DEF Fenced
<1>6. Fence'
  <2>1. CASE DisposeCall(c) \/ (CallStep(c) /\ DisposeTurn(c))
    BY <2>1, DisposeFenceKept DEF Fenced
  <2>2. CASE ~(DisposeCall(c) \/ (CallStep(c) /\ DisposeTurn(c)))
    <3>1. \A x \in Calling : Tame(x)
      BY <1>0, <1>2, <2>2, RequestTame, CallTame, StillTame DEF Fenced
    <3>2. CASE Calm
      BY <1>4, <3>1, <3>2, CalmFence DEF Fenced
    <3>3. CASE CreatePublish(c)
      BY <1>0, <1>4, <3>1, <3>3, CreatePublishFence DEF Fenced
    <3> QED BY <1>4, <2>2, <3>2, <3>3
  <2> QED BY <2>1, <2>2
<1> QED BY <1>5, <1>6 DEF Fenced

\* The main task's steps: restore_sessions, then the shutdown.
LEMMA MainFenced ==
  ASSUME NEW n \in Nat \ {0}, Typed(n), Booting, Fenced,
         RestoreStep \/ ShutdownBegin \/ (ShutdownStep /\ ~ShutdownDone)
  PROVE  Fenced'
<1>0. /\ OpsOK(n) /\ Main \in Calling /\ Sup \in Actors \ {Main} /\ Calling \subseteq Actors \ {Sup}
  BY CallingFacts DEF Typed, Others, Calling
<1>1. respawnQ' = respawnQ
  BY QueueKept
<1>2. ops'[Sup] = ops[Sup]
  <2>1. CASE CreateStep(Main)
    BY <1>0, <2>1, CreateLeaves DEF Leaves
  <2>2. CASE ~CreateStep(Main)
    BY <1>0, <2>2 DEF OpsOK, Goto, Return, RestoreStep, RestoreLoad, RestoreNext, RestoreDelete,
       RestoreUnavailable, RestoreCreate, RestoreDone, ShutdownBegin, ShutdownStep, SnapshotTake,
       SnapshotSend, StopAll, ShutdownClose, ShutdownDispose, ShutdownWorker
  <2> QED BY <2>1, <2>2
<1>3. CASE RestoreStep
  <2>1. Gens /\ (CreatePublish(Main) \/ Calm)
    BY <1>3, RestoreCalm
  <2>2. inner'.generation = inner.generation
    BY <1>0, <2>1, PublishGeneration DEF Calm
  <2>3. phase = "boot"
    BY <1>3 DEF RestoreStep, RestoreLoad, RestoreNext, RestoreDelete, RestoreUnavailable,
       RestoreCreate, RestoreDone, CreateStep, CreatePermit, CreateEvict, CreateReserve,
       CreateSpawn, CreateSpawnFails, CreateAbandon, CreatePublish, CreatePersist, CreateStart,
       CreateStartFails, SendNext, SendDone, At, Booting, Visiting, BootOnly
  <2>4. ZeroGens' /\ SupGen'
    BY <1>1, <1>2, <2>1, <2>2, <2>3, OtherGens DEF Fenced
  <2>5. \A x \in Calling : Tame(x)
    BY <1>0, <1>3, RestoreTame, StillTame DEF Fenced
  <2>6. CASE Calm
    BY <2>1, <2>4, <2>5, <2>6, CalmFence DEF Fenced
  <2>7. CASE CreatePublish(Main)
    BY <1>0, <2>1, <2>4, <2>5, <2>7, CreatePublishFence DEF Fenced
  <2> QED BY <2>1, <2>6, <2>7
<1>4. CASE ShutdownBegin \/ (ShutdownStep /\ ~ShutdownDone)
  <2>1. Gens /\ (CloseTurn \/ Calm)
    BY <1>4, ShutdownCalm
  <2>2. phase' # "boot"
    BY <1>4 DEF ShutdownBegin, ShutdownStep, SnapshotTake, SnapshotSend, StopAll, ShutdownClose,
       ShutdownDispose, ShutdownWorker, At, Booting, Visiting, BootOnly, env
  <2>3. ZeroGens' /\ SupGen'
    BY <1>1, <1>2, <2>1, <2>2, OtherGens DEF Fenced
  <2>4. CASE CloseTurn
    BY <2>3, <2>4, CloseFenceKept DEF Fenced
  <2>5. CASE ~CloseTurn
    <3>1. \A x \in Calling : Tame(x)
      BY <1>0, <1>4, <2>5, ShutdownTame, StillTame DEF Fenced
    <3> QED BY <2>1, <2>3, <2>5, <3>1, CalmFence DEF Fenced
  <2> QED BY <2>4, <2>5
<1> QED BY <1>3, <1>4

-----------------------------------------------------------------------------
(* The theorems.                                                           *)

\* One dispose at a time, and nothing of another generation live outside it, in every
\* behaviour: the callers, readers, respawns and restores that were under way when dispose
\* raised the generation are told apart by the one they started in.
THEOREM PtyFenced == Spec => []Fenced
<1>1. Init => Fenced
  <2> SUFFICES ASSUME Init PROVE Fenced
    OBVIOUS
  <2>1. /\ \A x \in Actors : ops[x] = Idle
        /\ \A id \in Ids : inner.live[id] = 0
        /\ phase = "serving" /\ Calling \subseteq Actors /\ Sup \in Actors
    BY CallingFacts DEF Init, NewInner
  <2> QED BY <2>1 DEF Fenced, ZeroGens, SupGen, Fence, Fencing, Removing, LiveOf, At, Idle
<1>2. PtyTyped /\ Booting /\ Fenced /\ [Next]_vars => Fenced'
  <2> SUFFICES ASSUME PtyTyped, Booting, Fenced, [Next]_vars PROVE Fenced'
    OBVIOUS
  <2>1. PICK n \in Nat \ {0} : Typed(n)
    BY DEF PtyTyped
  <2>2. OpsOK(n) /\ \A x \in Calling \cup {Sup} : x \in Actors
    BY <2>1, CallingFacts DEF Typed, Others
  <2>3. CASE UNCHANGED vars \/ Rest \/ Work
    <3>1. UNCHANGED <<inner, sess, ops, respawnQ, lc, phase>>
      BY <2>3 DEF vars, locks, env, Rest, Work
    <3> QED BY <3>1 DEF Fenced, ZeroGens, SupGen, Fence, Fencing, Removing, LiveOf, GenOf, At
  <2>4. CASE \E c \in Callers : Request(c) \/ CallStep(c)
    BY <2>1, <2>4, ClientFenced
  <2>5. CASE \E i \in Incs : ReaderOutput(i) \/ ReaderExit(i) \/ ReaderStep(i)
    BY <2>1, <2>5, ReaderFenced
  <2>6. CASE SupStep
    BY <2>1, <2>6, SupFenced
  <2>7. CASE SweepBegin \/ SweepStep
    BY <2>1, <2>7, SweepFenced
  <2>8. CASE RestoreStep \/ ShutdownBegin \/ (ShutdownStep /\ ~ShutdownDone)
    BY <2>1, <2>8, MainFenced
  <2>9. CASE ShutdownDone \/ Crash
    BY <2>1, <2>9, BootFenced DEF ShutdownDone, Crash
  <2> QED BY <2>3, <2>4, <2>5, <2>6, <2>7, <2>8, <2>9 DEF Next
<1> QED BY <1>1, <1>2, PtyTypes, PtyBooting, PTL DEF Spec

\* DisposeFence, for every instance: outside a dispose whatever is live belongs to the
\* current generation; nothing created or respawned across a dispose survives it.
THEOREM PtyDisposeFence == Spec => []DisposeFence
<1>1. Fenced => DisposeFence
  BY DEF Fenced, Fence, LiveOf, DisposeFence
<1> QED BY <1>1, PtyFenced, PTL
-----------------------------------------------------------------------------
(* Who holds the gate.                                                     *)

\* Where a caller, the supervisor and a reader are while they hold the persistence gate.
Gated    == {"reserve", "spawn", "publish", "persist", "start", "remove", "removing", "rename",
             "renaming", "dispose", "disposing", "snapshots", "send"}
SupGated == {"persist", "start", "send"}
Reading(i) == sess[i].reader = "exit" /\ Head(sess[i].todo) \in {"snapshot", "exited"}

Holding(a) == IF a = Sup THEN ops[Sup].at \in SupGated ELSE ops[a].at \in Gated

Exclusive == /\ \A a \in Actors : Holding(a) => gate = a
             /\ \A i \in Incs : Reading(i) => gate = i

\* Whoever steps takes the gate when it is free, gives back its own, or leaves it.
Passes(a) == gate' = gate \/ (gate = NoOne /\ gate' = a) \/ (gate = a /\ gate' = NoOne)

\* No reader but i gets on with its exit.
ReadersKept(i) == \A j \in Incs \ {i} : sess'[j].reader = "exit" =>
                    sess[j].reader = "exit" /\ sess'[j].todo = sess[j].todo

\* One actor's step.
LEMMA ActorPasses ==
  ASSUME NEW n, OpsOK(n), LocksOK, Exclusive, NEW a \in Actors,
         \A b \in Actors \ {a} : ops'[b] = ops[b], ReadersKept(0), Passes(a),
         Holding(a)' => gate' = a
  PROVE  Exclusive'
<1>1. \A i \in Incs : Reading(i)' => Reading(i)
  BY DEF ReadersKept, Reading, Incs
<1>2. \A b \in Actors \ {a} : Holding(b)' => Holding(b)
  BY DEF Holding
<1>3. NoOne \notin Actors /\ \A i \in Incs : i # NoOne /\ i \notin Actors
  BY ActorsAssumption DEF Actors, Incs
<1> QED BY <1>1, <1>2, <1>3 DEF Exclusive, Passes

\* One reader's step.
LEMMA ReaderPasses ==
  ASSUME Exclusive, NEW i \in Incs, ops' = ops, ReadersKept(i), Passes(i), Reading(i)' => gate' = i
  PROVE  Exclusive'
<1>1. \A j \in Incs \ {i} : Reading(j)' => Reading(j)
  BY DEF ReadersKept, Reading
<1>2. \A b \in Actors : Holding(b)' => Holding(b)
  BY DEF Holding
<1>3. NoOne \notin Actors /\ \A j \in Incs : j # NoOne /\ j \notin Actors
  BY ActorsAssumption DEF Actors, Incs
<1> QED BY <1>1, <1>2, <1>3 DEF Exclusive, Passes

\* Setting one session whose reader is not on its exit path.
LEMMA ReadersField ==
  ASSUME NEW n, SessionsOK(n), NEW i, NEW t,
         i \in Incs => t.reader # "exit" \/ (t.reader = sess[i].reader /\ t.todo = sess[i].todo),
         sess' = [sess EXCEPT ![i] = t]
  PROVE  ReadersKept(0)
<1>1. \A j \in Incs : sess'[j] = IF j = i THEN t ELSE sess[j]
  BY DEF SessionsOK
<1> QED BY <1>1 DEF ReadersKept

\* Killing a child leaves its reader where it is.
LEMMA TerminateReaders ==
  ASSUME NEW n, SessionsOK(n), NEW i
  PROVE  \A j \in Incs : /\ Terminate(sess, i)[j].reader = sess[j].reader
                         /\ Terminate(sess, i)[j].todo = sess[j].todo
<1>1. CASE i \in Incs
  <2> DEFINE t == [sess[i] EXCEPT !.child = "killed"]
  <2>1. t.reader = sess[i].reader /\ t.todo = sess[i].todo
    BY <1>1 DEF SessionsOK, SessionType
  <2>2. Terminate(sess, i) = sess \/ Terminate(sess, i) = [sess EXCEPT ![i] = t]
    BY DEF Terminate
  <2> HIDE DEF t
  <2> QED BY <1>1, <2>1, <2>2 DEF SessionsOK
<1>2. CASE i \notin Incs
  <2>1. Terminate(sess, i) = sess \/ Terminate(sess, i) = [sess EXCEPT ![i] = [sess[i] EXCEPT !.child = "killed"]]
    BY DEF Terminate
  <2>2. \A v, j : j \in Incs => [sess EXCEPT ![i] = v][j] = sess[j]
    BY <1>2 DEF SessionsOK
  <2> QED BY <2>1, <2>2
<1> QED BY <1>1, <1>2

\* So do one kill and a kill of every live session.
LEMMA ReadersTerminate ==
  ASSUME NEW n, SessionsOK(n),
         sess' = sess \/ (\E i : sess' = Terminate(sess, i)) \/ sess' = TerminateLive(sess)
  PROVE  ReadersKept(0)
<1>1. CASE sess' = sess \/ \E i : sess' = Terminate(sess, i)
  BY <1>1, TerminateReaders DEF ReadersKept
<1>2. CASE sess' = TerminateLive(sess)
  BY <1>2, TerminateReaders DEF ReadersKept, TerminateLive
<1> QED BY <1>1, <1>2

-----------------------------------------------------------------------------
(* Each actor.                                                             *)

\* The gate after actor a's step.
Handed(a) == Passes(a) /\ (Holding(a)' => gate' = a)

\* create_with_buffer takes the gate to evict, and keeps it to its end.
LEMMA CreateGate ==
  ASSUME NEW n \in Nat \ {0}, Typed(n), Exclusive, NEW c \in Calling, CreateStep(c)
  PROVE  Handed(c) /\ ReadersKept(0)
<1>0. /\ OpsOK(n) /\ SessionsOK(n) /\ LocksOK /\ EnvOK(n) /\ inner \in InnerOf(n) /\ n \in Nat
      /\ inner.next = n /\ c \in Actors /\ c # Sup /\ (ops[c].at \in Gated => gate = c)
  BY InnerFields, CallingFacts DEF Typed, Others, MemoryOK, Exclusive, Holding
<1>a. sess' = sess \/ (\E i : sess' = Terminate(sess, i)) => ReadersKept(0)
  BY <1>0, ReadersTerminate
<1> USE <1>0 DEF OpsOK, Goto, DropGates, Unlock, Passes, Handed, Holding, Gated, At, Idle
<1>1. CASE CreatePermit(c)
  <2>1. ops[c] \in AtEntry
    BY <1>1, CallAt DEF CreatePermit
  <2> QED BY <1>1, <1>a, <2>1 DEF CreatePermit, AtEntry, env
<1>2. CASE CreateEvict(c)
  <2> DEFINE old == inner.live[ops[c].id]
             s   == Terminate(sess, old)
  <2>1. /\ gate = NoOne /\ gate' = c
        /\ sess' = IF old = 0 THEN sess ELSE [s EXCEPT ![old].replaced = TRUE]
    BY <1>2 DEF CreateEvict
  <2>2. s \in [Incs -> SessionType]
        /\ \A j \in Incs : s[j].reader = sess[j].reader /\ s[j].todo = sess[j].todo
    BY TerminateReaders, TerminateType
  <2> HIDE DEF s
  <2>3. ReadersKept(0)
    BY <2>1, <2>2 DEF ReadersKept, SessionType
  <2> QED BY <2>1, <2>3
<1>3. CASE CreateReserve(c)
  <2> DEFINE t == NewSession(ops[c].id, ops[c].name, inner.generation, 0)
  <2>1. /\ ops[c].at = "reserve" /\ gate' = gate
        /\ sess' = [sess EXCEPT ![inner.next] = t]
    BY <1>3 DEF CreateReserve, locks
  <2>2. t.reader # "exit"
    BY DEF NewSession, NoSession
  <2> HIDE DEF t
  <2>3. ReadersKept(0)
    BY <2>1, <2>2, ReadersField
  <2> QED BY <2>1, <2>3
<1>4. CASE CreateSpawn(c)
  <2> DEFINE t == [sess[ops[c].inc] EXCEPT !.child = "running"]
  <2>1. sess' = [sess EXCEPT ![ops[c].inc] = t] /\ gate' = gate /\ ops[c].at = "spawn"
    BY <1>4 DEF CreateSpawn, locks
  <2>2. ops[c].inc \in Incs => t.reader = sess[ops[c].inc].reader /\ t.todo = sess[ops[c].inc].todo
    BY DEF SessionsOK, SessionType
  <2> HIDE DEF t
  <2>3. ReadersKept(0)
    BY <2>1, <2>2, ReadersField
  <2> QED BY <2>1, <2>3
<1>5. CASE CreateSpawnFails(c)
  BY <1>5, <1>a DEF CreateSpawnFails, locks
<1>6. CASE CreateStartFails(c)
  BY <1>6, <1>a DEF CreateStartFails, locks
<1>7. CASE CreateAbandon(c)
  BY <1>7, <1>a DEF CreateAbandon, AfterFailure
<1>8. CASE CreatePublish(c)
  BY <1>8, <1>a DEF CreatePublish, locks
<1>9. CASE CreatePersist(c)
  BY <1>9, <1>a DEF CreatePersist, locks
<1>10. CASE CreateStart(c)
  <2> DEFINE t == [sess[ops[c].inc] EXCEPT !.reader = "run"]
  <2>1. sess' = [sess EXCEPT ![ops[c].inc] = t] /\ gate' = Unlock(gate, c) /\ ops[c].at = "start"
        /\ ops'[c].at \in {"idle", "restore"}
    BY <1>10 DEF CreateStart, AfterCreate
  <2>2. ops[c].inc \in Incs => t.reader # "exit"
    BY DEF SessionsOK, SessionType
  <2> HIDE DEF t
  <2>3. ReadersKept(0)
    BY <2>1, <2>2, ReadersField
  <2> QED BY <2>1, <2>3
<1>11. CASE SendNext(c)
  BY <1>11, <1>a DEF SendNext, locks
<1>12. CASE SendDone(c)
  <2>1. ops[c] \in AtSend(n) /\ ops'[c] = ops[c].next
    BY <1>12, CallAt DEF SendDone
  <2>2. ops'[c].at \notin Gated
    BY <2>1 DEF AtSend, Plain, AtRecheck
  <2> QED BY <1>12, <1>a, <2>2 DEF SendDone
<1> QED BY <1>1, <1>2, <1>3, <1>4, <1>5, <1>6, <1>7, <1>8, <1>9, <1>10, <1>11, <1>12 DEF CreateStep

\* A removal, a client's or the sweeper's, has the gate from its call on.
LEMMA RemoveGate ==
  ASSUME NEW n \in Nat \ {0}, Typed(n), Exclusive, NEW c \in Clients, RemoveStep(c)
  PROVE  Handed(c) /\ ReadersKept(0)
<1>0. /\ OpsOK(n) /\ SessionsOK(n) /\ LocksOK /\ c \in Calling /\ c \in Actors /\ c # Sup
      /\ (ops[c].at \in Gated => gate = c)
  BY CallingFacts DEF Typed, Others, Exclusive, Holding, Calling
<1>a. sess' = sess \/ (\E i : sess' = Terminate(sess, i)) => ReadersKept(0)
  BY <1>0, ReadersTerminate
<1> USE <1>0 DEF OpsOK, Goto, Return, DropGates, Unlock, Passes, Handed, Holding, Gated, At, Idle
<1>1. CASE RemoveSend(c)
  BY <1>1, <1>a DEF RemoveSend, locks
<1>2. CASE RemoveDone(c)
  BY <1>2, <1>a DEF RemoveDone
<1> QED BY <1>1, <1>2 DEF RemoveStep

\* kill, remove and rename wait for the gate to be free.
LEMMA RequestGate ==
  ASSUME NEW n \in Nat \ {0}, Typed(n), Exclusive, NEW c \in Callers, Request(c)
  PROVE  Handed(c) /\ ReadersKept(0)
<1>0. /\ OpsOK(n) /\ SessionsOK(n) /\ c \in Calling /\ c \in Actors /\ c # Sup
      /\ (ops[c].at \in Gated => gate = c)
  BY CallingFacts DEF Typed, Others, Exclusive, Holding
<1>a. sess' = sess \/ (\E i : sess' = Terminate(sess, i)) => ReadersKept(0)
  BY <1>0, ReadersTerminate
<1> USE <1>0, <1>a DEF OpsOK, Goto, Passes, Handed, Holding, Gated, locks
<1>1. ASSUME NEW id, CreateCall(c, id) PROVE Handed(c) /\ ReadersKept(0)
  BY <1>1 DEF CreateCall
<1>2. ASSUME NEW id, Kill(c, id) PROVE Handed(c) /\ ReadersKept(0)
  BY <1>2 DEF Kill
<1>3. ASSUME NEW id, RemoveCall(c, id) PROVE Handed(c) /\ ReadersKept(0)
  BY <1>3 DEF RemoveCall
<1>4. ASSUME NEW id, NEW name, RenameCall(c, id, name) PROVE Handed(c) /\ ReadersKept(0)
  BY <1>4 DEF RenameCall
<1>5. ASSUME DisposeCall(c) PROVE Handed(c) /\ ReadersKept(0)
  BY <1>5 DEF DisposeCall
<1> HIDE DEF OpsOK, Goto, Passes, Handed, Holding, Gated
<1> QED BY <1>1, <1>2, <1>3, <1>4, <1>5 DEF Request

\* A step of a client's call.
LEMMA CallGate ==
  ASSUME NEW n \in Nat \ {0}, Typed(n), Exclusive, NEW c \in Callers, CallStep(c)
  PROVE  Handed(c) /\ ReadersKept(0)
<1>0. /\ OpsOK(n) /\ SessionsOK(n) /\ c \in Calling /\ c \in Clients /\ c \in Actors /\ c # Sup
      /\ (ops[c].at \in Gated => gate = c)
  BY CallingFacts DEF Typed, Others, Exclusive, Holding, Callers
<1>a. sess' = sess \/ (\E i : sess' = Terminate(sess, i)) \/ sess' = TerminateLive(sess)
        => ReadersKept(0)
  BY <1>0, ReadersTerminate
<1>1. CASE CreateStep(c) \/ RemoveStep(c)
  BY <1>0, <1>1, CreateGate, RemoveGate
<1> USE <1>0, <1>a DEF OpsOK, Goto, Return, DropGates, Unlock, Passes, Handed, Holding, Gated, At,
                       Idle, locks
<1>2. CASE CreateRecheck(c)
  BY <1>2 DEF CreateRecheck
<1>3. CASE CreateTargetLost(c)
  BY <1>3 DEF CreateTargetLost
<1>4. CASE RenameSend(c)
  BY <1>4 DEF RenameSend
<1>5. CASE RenameDone(c)
  <2>1. ReadersKept(0)
    <3> DEFINE inc == ops[c].inc
               t   == [sess[inc] EXCEPT !.name = ops[c].name]
    <3>1. sess' = sess \/ sess' = [sess EXCEPT ![inc] = t]
      BY <1>5 DEF RenameDone
    <3>2. inc \in Incs => t.reader = sess[inc].reader /\ t.todo = sess[inc].todo
      BY DEF SessionsOK, SessionType
    <3> HIDE DEF t
    <3> QED BY <3>1, <3>2, ReadersField
  <2> QED BY <1>5, <2>1 DEF RenameDone
<1>6. CASE DisposeStart(c)
  BY <1>6 DEF DisposeStart
<1>7. CASE DisposeRemove(c)
  BY <1>7 DEF DisposeRemove
<1>8. CASE DisposeEvict(c)
  BY <1>8 DEF DisposeEvict
<1>9. CASE DisposeError(c)
  BY <1>9 DEF DisposeError, EndDispose
<1>10. CASE DisposeFinish(c)
  BY <1>10 DEF DisposeFinish, EndDispose
<1> HIDE DEF OpsOK, Goto, Return, DropGates, Unlock, Passes, Handed, Holding, Gated, At
<1> QED BY <1>1, <1>2, <1>3, <1>4, <1>5, <1>6, <1>7, <1>8, <1>9, <1>10 DEF CallStep

\* The sweeper.
LEMMA SweepGate ==
  ASSUME NEW n \in Nat \ {0}, Typed(n), Exclusive, SweepBegin \/ SweepStep
  PROVE  Handed(Sweeper) /\ ReadersKept(0)
<1>0. /\ OpsOK(n) /\ SessionsOK(n) /\ Sweeper \in Clients /\ Sweeper \in Calling
      /\ Sweeper \in Actors /\ Sweeper # Sup /\ (ops[Sweeper].at \in Gated => gate = Sweeper)
  BY CallingFacts DEF Typed, Others, Exclusive, Holding, Calling
<1>a. sess' = sess => ReadersKept(0)
  BY <1>0, ReadersTerminate
<1>1. CASE RemoveStep(Sweeper)
  BY <1>0, <1>1, RemoveGate
<1> USE <1>0, <1>a DEF OpsOK, Goto, Passes, Handed, Holding, Gated, At, Idle, locks
<1>2. CASE SweepBegin
  BY <1>2 DEF SweepBegin
<1>3. CASE SweepCheck
  <2>1. ops[Sweeper] \in AtRemove(n)
    BY <1>3, CallAt DEF SweepCheck
  <2> QED BY <1>3, <2>1 DEF SweepCheck, AtRemove
<1>4. CASE SweepRemove
  BY <1>4 DEF SweepRemove
<1> HIDE DEF OpsOK, Goto, Passes, Handed, Holding, Gated, At
<1> QED BY <1>1, <1>2, <1>3, <1>4 DEF SweepStep

\* The main task: its creates, and the shutdown's snapshots.
LEMMA MainGate ==
  ASSUME NEW n \in Nat \ {0}, Typed(n), Exclusive,
         RestoreStep \/ ShutdownBegin \/ (ShutdownStep /\ ~ShutdownDone)
  PROVE  Handed(Main) /\ ReadersKept(0) /\ \A b \in Actors \ {Main} : ops'[b] = ops[b]
<1>0. /\ OpsOK(n) /\ SessionsOK(n) /\ Main \in Calling /\ Main \in Actors /\ Main # Sup
      /\ (ops[Main].at \in Gated => gate = Main)
  BY CallingFacts DEF Typed, Others, Exclusive, Holding
<1>a. sess' = sess \/ (\E i : sess' = Terminate(sess, i)) \/ sess' = TerminateLive(sess)
        => ReadersKept(0)
  BY <1>0, ReadersTerminate
<1>1. CASE CreateStep(Main)
  BY <1>0, <1>1, CreateGate, CreateLeaves DEF Leaves
<1> USE <1>0, <1>a DEF OpsOK, Goto, Return, DropGates, Unlock, Passes, Handed, Holding, Gated, At,
                       Idle, locks
<1>2. CASE RestoreLoad \/ (\E id \in Ids : RestoreNext(id)) \/ RestoreDelete
  BY <1>2 DEF RestoreLoad, RestoreNext, RestoreDelete
<1>3. CASE RestoreUnavailable
  <2>1. ReadersKept(0)
    <3> DEFINE t == NewSession(ops[Main].id, restoring.name, 0, 0)
    <3>1. sess' = [sess EXCEPT ![restoring.inc] = t]
      BY <1>3 DEF RestoreUnavailable
    <3>2. t.reader # "exit"
      BY DEF NewSession, NoSession
    <3> HIDE DEF t
    <3> QED BY <3>1, <3>2, ReadersField
  <2> QED BY <1>3, <2>1 DEF RestoreUnavailable
<1>4. CASE RestoreCreate
  <2>1. ops[Main] \in AtEntry
    BY <1>4, CallAt DEF RestoreCreate
  <2> QED BY <1>4, <2>1 DEF RestoreCreate, AtEntry
<1>5. CASE RestoreDone
  BY <1>5 DEF RestoreDone
<1>6. CASE ShutdownBegin \/ SnapshotTake \/ SnapshotSend
  BY <1>6 DEF ShutdownBegin, SnapshotTake, SnapshotSend
<1>7. CASE StopAll
  BY <1>7 DEF StopAll
<1>8. CASE ShutdownClose \/ ShutdownDispose \/ ShutdownWorker
  BY <1>8 DEF ShutdownClose, ShutdownDispose, ShutdownWorker
<1> HIDE DEF OpsOK, Goto, Return, DropGates, Unlock, Passes, Handed, Holding, Gated, At
<1> QED BY <1>1, <1>2, <1>3, <1>4, <1>5, <1>6, <1>7, <1>8 DEF RestoreStep, ShutdownStep

\* The supervisor takes it to publish, and to persist a failure.
LEMMA SupGate ==
  ASSUME NEW n \in Nat \ {0}, Typed(n), Exclusive, SupStep
  PROVE  Handed(Sup) /\ ReadersKept(0)
<1>0. /\ OpsOK(n) /\ SessionsOK(n) /\ LocksOK /\ EnvOK(n) /\ inner \in InnerOf(n) /\ Sup \in Actors
      /\ (ops[Sup].at \in SupGated => gate = Sup)
  BY CallingFacts DEF Typed, Others, MemoryOK, Exclusive, Holding
<1>a. sess' = sess \/ (\E i : sess' = Terminate(sess, i)) => ReadersKept(0)
  BY <1>0, ReadersTerminate
<1>b. ASSUME NEW i, NEW t, sess' = [sess EXCEPT ![i] = t],
             i \in Incs => t.reader # "exit" \/ (t.reader = sess[i].reader /\ t.todo = sess[i].todo)
      PROVE  ReadersKept(0)
  BY <1>0, <1>b, ReadersField
<1> USE <1>0 DEF OpsOK, Goto, Return, DropGates, Unlock, Passes, Handed, Holding, SupGated, At, Idle
<1>1. CASE SupRecv \/ SupCheck \/ SupInvalid
  BY <1>1, <1>a DEF SupRecv, SupCheck, SupInvalid, SupFailed, locks
<1>2. CASE SupReserve
  <2> DEFINE cmd == ops[Sup].cmd
             t   == NewSession(cmd.id, sess[cmd.inc].name, cmd.gen, cmd.count + 1)
  <2>1. sess' = sess \/ sess' = [sess EXCEPT ![inner.next] = t]
    BY <1>2 DEF SupReserve
  <2>2. t.reader # "exit"
    BY DEF NewSession, NoSession
  <2> HIDE DEF t
  <2>3. ReadersKept(0)
    BY <1>a, <1>b, <2>1, <2>2
  <2> QED BY <1>2, <2>3 DEF SupReserve, SupFailed
<1>3. CASE SupPermit
  <2>1. ops[Sup] \in SupTry(n)
    BY <1>3, SupAt DEF SupPermit
  <2> QED BY <1>3, <1>a, <2>1 DEF SupPermit, SupTry
<1>4. CASE SupSpawn
  <2> DEFINE t == [sess[ops[Sup].inc] EXCEPT !.child = "running"]
  <2>1. sess' = [sess EXCEPT ![ops[Sup].inc] = t] /\ gate' = gate
    BY <1>4 DEF SupSpawn, locks
  <2>2. ops[Sup].inc \in Incs => t.reader = sess[ops[Sup].inc].reader /\ t.todo = sess[ops[Sup].inc].todo
    BY DEF SessionsOK, SessionType
  <2> HIDE DEF t
  <2>3. ReadersKept(0)
    BY <1>b, <2>1, <2>2
  <2>4. ops[Sup] \in SupTry(n)
    BY <1>4, SupAt DEF SupSpawn
  <2> QED BY <1>4, <2>1, <2>3, <2>4 DEF SupSpawn, SupTry
<1>5. CASE SupSpawnFails \/ SupSourceFailed
  BY <1>5, <1>a DEF SupSpawnFails, SupSourceFailed
<1>6. CASE SupAbandon
  BY <1>6, <1>a DEF SupAbandon, SupFailed
<1>7. CASE SupPublish
  <2> DEFINE t == [sess[ops[Sup].inc] EXCEPT !.name = sess[ops[Sup].cmd.inc].name]
  <2>1. sess' = [sess EXCEPT ![ops[Sup].inc] = t]
    BY <1>7 DEF SupPublish
  <2>2. ops[Sup].inc \in Incs => t.reader = sess[ops[Sup].inc].reader /\ t.todo = sess[ops[Sup].inc].todo
    BY DEF SessionsOK, SessionType
  <2> HIDE DEF t
  <2>3. ReadersKept(0)
    BY <1>b, <2>1, <2>2
  <2> QED BY <1>7, <2>3 DEF SupPublish
<1>8. CASE SupPersist
  BY <1>8, <1>a DEF SupPersist, locks
<1>9. CASE SupStart
  <2> DEFINE t == [sess[ops[Sup].inc] EXCEPT !.reader = "run"]
  <2>1. sess' = [sess EXCEPT ![ops[Sup].inc] = t]
    BY <1>9 DEF SupStart
  <2>2. ops[Sup].inc \in Incs => t.reader # "exit"
    BY DEF SessionsOK, SessionType
  <2> HIDE DEF t
  <2>3. ReadersKept(0)
    BY <1>b, <2>1, <2>2
  <2> QED BY <1>9, <2>3 DEF SupStart
<1>10. CASE SupStartFails
  BY <1>10, <1>a DEF SupStartFails, locks
<1>11. CASE SendNext(Sup)
  <2>1. ops[Sup] \in SupSend(n)
    BY <1>11, SupAt DEF SendNext
  <2> QED BY <1>11, <1>a, <2>1 DEF SendNext, locks, SupSend
<1>12. CASE SendDone(Sup)
  <2>1. ops[Sup] \in SupSend(n) /\ ops'[Sup] = ops[Sup].next
    BY <1>12, SupAt DEF SendDone
  <2>2. ops'[Sup].at \notin SupGated
    BY <2>1 DEF SupSend, SupIdle, SupLost
  <2> QED BY <1>12, <1>a, <2>2 DEF SendDone
<1> HIDE DEF OpsOK, Goto, Return, DropGates, Unlock, Passes, Handed, Holding, SupGated, At
<1> QED BY <1>1, <1>2, <1>3, <1>4, <1>5, <1>6, <1>7, <1>8, <1>9, <1>10, <1>11, <1>12 DEF SupStep

\* What is left once a reader has looked at its tombstone, or sent its exit.
LEMMA TodoHeads ==
  ASSUME NEW t \in Todos, t # <<>>
  PROVE  /\ Head(t) \in {"lock", "exited", "respawn"} => Head(Tail(t)) \notin {"snapshot", "exited"}
         /\ Head(t) = "event" => t = <<"event">> /\ Tail(t) = <<>>
<1>1. Head(t) \in {"lock", "exited", "respawn"} => Head(Tail(t)) \notin {"snapshot", "exited"}
  BY DEF Todos
<1>2. Head(t) = "event" => t = <<"event">>
  BY DEF Todos
<1>3. Tail(<<"event">>) = <<>>
  OBVIOUS
<1>4. Head(t) = "event" => Tail(t) = <<>>
  BY <1>2, <1>3
<1> QED BY <1>1, <1>2, <1>4

\* A reader has the gate for its last snapshot and its exit.
LEMMA ReaderGate ==
  ASSUME NEW n \in Nat \ {0}, Typed(n), Exclusive, NEW i \in Incs,
         ReaderOutput(i) \/ ReaderExit(i) \/ ReaderStep(i)
  PROVE  /\ ops' = ops /\ ReadersKept(i) /\ Passes(i)
         /\ Reading(i)' => gate' = i
<1>0. /\ SessionsOK(n) /\ LocksOK /\ inner \in InnerOf(n) /\ EnvOK(n) /\ n \in Nat
      /\ (Reading(i) => gate = i)
  BY DEF Typed, Others, MemoryOK, Exclusive
<1>a. ASSUME NEW t, sess' = [sess EXCEPT ![i] = t]
      PROVE  ReadersKept(i) /\ sess'[i] = t
  BY <1>0, <1>a DEF SessionsOK, ReadersKept
<1>b. ASSUME NEW td \in Todos, sess' = Advance(i, td), sess[i].reader = "exit"
      PROVE  /\ ReadersKept(i) /\ sess'[i].todo = td
             /\ sess'[i].reader = (IF td = <<>> THEN "done" ELSE "exit")
  <2> DEFINE t == Advanced(sess[i], td)
  <2>1. /\ sess' = [sess EXCEPT ![i] = t] /\ t.todo = td
        /\ t.reader = (IF td = <<>> THEN "done" ELSE "exit")
    BY <1>0, <1>b, AdvancedOK
  <2> HIDE DEF t
  <2> QED BY <1>a, <2>1
<1>1. CASE ReaderOutput(i)
  <2> DEFINE t == [sess[i] EXCEPT !.out = @ + 1]
  <2>1. sess' = [sess EXCEPT ![i] = t] /\ gate' = gate /\ ops' = ops /\ sess[i].reader = "run"
    BY <1>0, <1>1 DEF ReaderOutput, locks, SessionsOK
  <2>2. t.reader = sess[i].reader
    BY <1>0 DEF SessionsOK, SessionType
  <2> HIDE DEF t
  <2> QED BY <1>a, <2>1, <2>2 DEF Passes, Reading
<1>2. CASE ReaderExit(i)
  <2>1. sess[i].reader = "run" /\ gate' = gate /\ ops' = ops
    BY <1>2 DEF ReaderExit, locks
  <2>2. PICK code : OwnerExit(i, code) \/ StaleExit(i) \/ RemovedExit(i)
    BY <1>2 DEF ReaderExit
  <2>3. CASE StaleExit(i)
    <3> DEFINE t == [sess[i] EXCEPT !.child = "gone", !.reader = "done"]
    <3>1. sess' = [sess EXCEPT ![i] = t]
      BY <1>0, <2>3 DEF StaleExit, SessionsOK
    <3>2. t.reader = "done"
      BY <1>0 DEF SessionsOK, SessionType
    <3> HIDE DEF t
    <3> QED BY <1>a, <2>1, <3>1, <3>2 DEF Passes, Reading
  <2>4. CASE OwnerExit(i, code)
    <3> DEFINE s    == sess[i]
               will == decide_restart(Policy[s.id], code,
                                      s.id \in inner.killed \/ inner.generation # s.gen, s.count)
               td   == IF will THEN <<"lock", "respawn", "event">> ELSE <<"lock", "event">>
               cnt  == IF code = 0 THEN 0 ELSE s.count
               t    == [s EXCEPT !.child = "gone", !.reader = "exit", !.count = cnt, !.todo = td]
    <3>1. sess' = [sess EXCEPT ![i] = t]
      BY <2>4 DEF OwnerExit
    <3>2. Head(td) = "lock"
      OBVIOUS
    <3> HIDE DEF td, cnt
    <3>3. t.todo = td
      BY <1>0 DEF SessionsOK, SessionType
    <3> HIDE DEF t
    <3> QED BY <1>a, <2>1, <3>1, <3>2, <3>3 DEF Passes, Reading
  <2>5. CASE RemovedExit(i)
    <3> DEFINE s    == sess[i]
               mute == inner.suppress[s.id] > 0
               pers == ~mute /\ inner.dead[s.id].inc = i
               rd   == IF mute THEN "done" ELSE "exit"
               td   == IF pers THEN <<"lock", "event">> ELSE IF mute THEN <<>> ELSE <<"event">>
               t    == [s EXCEPT !.child = "gone", !.muted = mute, !.reader = rd, !.todo = td]
    <3>1. sess' = [sess EXCEPT ![i] = t]
      BY <2>5 DEF RemovedExit
    <3>2. rd = "exit" => Head(td) \in {"lock", "event"}
      OBVIOUS
    <3> HIDE DEF td, rd, mute
    <3>3. t.todo = td /\ t.reader = rd
      BY <1>0 DEF SessionsOK, SessionType
    <3> HIDE DEF t
    <3> QED BY <1>a, <2>1, <3>1, <3>2, <3>3 DEF Passes, Reading
  <2> QED BY <2>2, <2>3, <2>4, <2>5
<1>3. CASE ReaderLock(i)
  <2>1. /\ sess[i].todo \in Todos /\ sess[i].todo # <<>> /\ sess[i].reader = "exit"
        /\ Head(sess[i].todo) = "lock" /\ gate = NoOne /\ ops' = ops
    BY <1>0, <1>3, ReaderAtFacts DEF ReaderLock, ReaderAt
  <2> DEFINE rest == Tail(sess[i].todo)
             more == <<"snapshot", "exited">> \o rest
  <2>2. rest \in Todos /\ more \in Todos /\ Head(rest) \notin {"snapshot", "exited"}
    BY <2>1, TodoFacts, TodoHeads
  <2>3. (sess' = Advance(i, rest) /\ gate' = gate) \/ (sess' = Advance(i, more) /\ gate' = i)
    BY <1>3 DEF ReaderLock
  <2> HIDE DEF rest, more
  <2>4. CASE sess' = Advance(i, rest) /\ gate' = gate
    BY <1>b, <2>1, <2>2, <2>4 DEF Passes, Reading
  <2>5. CASE sess' = Advance(i, more) /\ gate' = i
    BY <1>b, <2>1, <2>2, <2>5 DEF Passes
  <2> QED BY <2>3, <2>4, <2>5
<1>4. CASE ReaderSnapshot(i)
  <2>1. /\ sess[i].todo \in Todos /\ sess[i].todo # <<>> /\ sess[i].reader = "exit"
        /\ Head(sess[i].todo) = "snapshot" /\ ops' = ops /\ gate' = gate
        /\ sess' = Advance(i, Tail(sess[i].todo))
    BY <1>0, <1>4, ReaderAtFacts DEF ReaderSnapshot, ReaderAt, locks
  <2>2. Reading(i) /\ Tail(sess[i].todo) \in Todos
    BY <2>1, TodoFacts DEF Reading
  <2> QED BY <1>0, <1>b, <2>1, <2>2 DEF Passes
<1>5. CASE ReaderExited(i)
  <2>1. /\ sess[i].todo \in Todos /\ sess[i].todo # <<>> /\ sess[i].reader = "exit"
        /\ Head(sess[i].todo) = "exited" /\ ops' = ops /\ gate' = NoOne
        /\ sess' = Advance(i, Tail(sess[i].todo))
    BY <1>0, <1>5, ReaderAtFacts DEF ReaderExited, ReaderAt
  <2>2. Reading(i) /\ Tail(sess[i].todo) \in Todos
        /\ Head(Tail(sess[i].todo)) \notin {"snapshot", "exited"}
    BY <2>1, TodoFacts, TodoHeads DEF Reading
  <2> QED BY <1>0, <1>b, <2>1, <2>2 DEF Passes, Reading
<1>6. CASE ReaderRespawn(i)
  <2>1. /\ sess[i].todo \in Todos /\ sess[i].todo # <<>> /\ sess[i].reader = "exit"
        /\ Head(sess[i].todo) = "respawn" /\ ops' = ops /\ gate' = gate
    BY <1>0, <1>6, ReaderAtFacts DEF ReaderRespawn, ReaderAt, locks
  <2> DEFINE td == Tail(sess[i].todo)
  <2>2. td \in Todos /\ Head(td) \notin {"snapshot", "exited"}
    BY <2>1, TodoFacts, TodoHeads
  <2>3. PICK full : sess' = [Advance(i, td) EXCEPT ![i].dropped = full]
    BY <1>6 DEF ReaderRespawn
  <2> HIDE DEF td
  <2> DEFINE u == Advanced(sess[i], td)
             t == [u EXCEPT !.dropped = full]
  <2>4. Advance(i, td) = [sess EXCEPT ![i] = u] /\ u \in SessionType /\ u.todo = td
    BY <1>0, <2>1, <2>2, AdvancedOK
  <2> HIDE DEF u
  <2>5. sess' = [sess EXCEPT ![i] = t] /\ t.todo = td
    BY <1>0, <2>3, <2>4 DEF SessionsOK, SessionType
  <2> HIDE DEF t
  <2> QED BY <1>a, <2>1, <2>2, <2>5 DEF Passes, Reading
<1>7. CASE ReaderEvent(i)
  <2>1. /\ sess[i].todo \in Todos /\ sess[i].todo # <<>> /\ sess[i].reader = "exit"
        /\ Head(sess[i].todo) = "event" /\ ops' = ops /\ gate' = gate
    BY <1>0, <1>7, ReaderAtFacts DEF ReaderEvent, ReaderAt, locks
  <2> DEFINE td == Tail(sess[i].todo)
  <2>2. td \in Todos /\ td = <<>>
    BY <2>1, TodoFacts, TodoHeads
  <2>3. PICK told : sess' = [Advance(i, td) EXCEPT ![i].told = told]
    BY <1>7 DEF ReaderEvent
  <2> HIDE DEF td
  <2> DEFINE u == Advanced(sess[i], td)
             t == [u EXCEPT !.told = told]
  <2>4. Advance(i, td) = [sess EXCEPT ![i] = u] /\ u \in SessionType /\ u.reader = "done"
    BY <1>0, <2>1, <2>2, AdvancedOK
  <2> HIDE DEF u
  <2>5. sess' = [sess EXCEPT ![i] = t] /\ t.reader = "done"
    BY <1>0, <2>3, <2>4 DEF SessionsOK, SessionType
  <2> HIDE DEF t
  <2> QED BY <1>a, <2>1, <2>5 DEF Passes, Reading
<1> QED BY <1>1, <1>2, <1>3, <1>4, <1>5, <1>6, <1>7 DEF ReaderStep

-----------------------------------------------------------------------------
(* The gate.                                                               *)

\* Whoever holds the persistence gate holds it alone: a call from its eviction, removal or
\* rename on, the supervisor from its publication on, a reader for its exit, a shutdown for
\* its snapshots.  What is read under the gate is still so when it is acted upon.
THEOREM PtyExclusive == Spec => []Exclusive
<1>1. Init => Exclusive
  <2> SUFFICES ASSUME Init PROVE Exclusive
    OBVIOUS
  <2>1. /\ \A x \in Actors : ops[x].at = "idle"
        /\ \A i \in Incs : sess[i].reader = "none"
        /\ Sup \in Actors
    BY CallingFacts DEF Init, Idle, NoSession
  <2> QED BY <2>1 DEF Exclusive, Holding, Reading, Gated, SupGated
<1>2. PtyTyped /\ Exclusive /\ [Next]_vars => Exclusive'
  <2> SUFFICES ASSUME PtyTyped, Exclusive, [Next]_vars PROVE Exclusive'
    OBVIOUS
  <2>1. PICK n \in Nat \ {0} : Typed(n)
    BY DEF PtyTyped
  <2>2. /\ OpsOK(n) /\ LocksOK /\ ChanOK(n) /\ Sup \in Actors /\ Main \in Actors
        /\ Sweeper \in Actors /\ \A c \in Callers : c \in Actors
    BY <2>1, CallingFacts DEF Typed, Others, Callers, Actors
  <2>3. CASE UNCHANGED vars \/ Rest \/ Work
    <3>1. UNCHANGED <<sess, ops, gate>>
      BY <2>3 DEF vars, locks, Rest, Work
    <3> QED BY <3>1 DEF Exclusive, Holding, Reading
  <2>4. ASSUME NEW c \in Callers, Request(c) \/ CallStep(c) PROVE Exclusive'
    <3>1. \A b \in Actors \ {c} : ops'[b] = ops[b]
      BY <2>2, <2>4, RequestLeaves, CallLeaves DEF Leaves
    <3>2. Handed(c) /\ ReadersKept(0)
      BY <2>1, <2>4, RequestGate, CallGate
    <3> QED BY <2>2, <3>1, <3>2, ActorPasses DEF Handed
  <2>5. ASSUME NEW i \in Incs, ReaderOutput(i) \/ ReaderExit(i) \/ ReaderStep(i) PROVE Exclusive'
    <3>1. ops' = ops /\ ReadersKept(i) /\ Passes(i) /\ (Reading(i)' => gate' = i)
      BY <2>1, <2>5, ReaderGate
    <3> QED BY <3>1, ReaderPasses
  <2>6. CASE SupStep
    <3>1. \A b \in Actors \ {Sup} : ops'[b] = ops[b]
      BY <2>2, <2>6, SupLeaves DEF Leaves
    <3>2. Handed(Sup) /\ ReadersKept(0)
      BY <2>1, <2>6, SupGate
    <3> QED BY <2>2, <3>1, <3>2, ActorPasses DEF Handed
  <2>7. CASE SweepBegin \/ SweepStep
    <3>1. \A b \in Actors \ {Sweeper} : ops'[b] = ops[b]
      BY <2>2, <2>7, SweepLeaves DEF Leaves
    <3>2. Handed(Sweeper) /\ ReadersKept(0)
      BY <2>1, <2>7, SweepGate
    <3> QED BY <2>2, <3>1, <3>2, ActorPasses DEF Handed
  <2>8. CASE RestoreStep \/ ShutdownBegin \/ (ShutdownStep /\ ~ShutdownDone)
    <3>1. Handed(Main) /\ ReadersKept(0) /\ \A b \in Actors \ {Main} : ops'[b] = ops[b]
      BY <2>1, <2>8, MainGate
    <3> QED BY <2>2, <3>1, ActorPasses DEF Handed
  <2>9. CASE ShutdownDone \/ Crash
    <3>1. Boot
      BY <2>9 DEF ShutdownDone, Crash
    <3>2. /\ \A x \in Actors : ops'[x].at \in {"idle", "load"}
          /\ \A i \in Incs : sess'[i].reader = "none"
      BY <3>1 DEF Boot, Idle, NoSession
    <3> QED BY <2>2, <3>2 DEF Exclusive, Holding, Reading, Gated, SupGated
  <2> QED BY <2>3, <2>4, <2>5, <2>6, <2>7, <2>8, <2>9 DEF Next
<1> QED BY <1>1, <1>2, PtyTypes, PTL DEF Spec
=============================================================================
