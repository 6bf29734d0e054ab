------------------------------ MODULE PtyTasks ------------------------------
(***************************************************************************)
(* What runs beside the clients' calls: the reader thread of each session, *)
(* the supervisor that restarts sessions, the sweeper of expired           *)
(* tombstones, and the server's start (restore_sessions) and stop          *)
(* (main.rs).                                                              *)
(***************************************************************************)
EXTENDS PtyCalls

-----------------------------------------------------------------------------
(* reader_thread.  todo is what is left of the thread's exit path.         *)

\* A chunk of output.  Past the 16 KB threshold the reader offers a snapshot,
\* under the gate and only while it owns the live session of its generation.
ReaderOutput(i) ==
  /\ sess[i].reader = "run" /\ sess[i].child = "running"
  /\ Happens("output")
  /\ LET s == sess[i]
         owns == inner.live[s.id] = i /\ inner.generation = s.gen
     IN  \/ UNCHANGED chan
         \/ /\ gate = NoOne
            /\ owns
            /\ TrySend(BufferUpdate(s.id, i, s.out + 1))
  /\ sess' = [sess EXCEPT ![i].out = @ + 1]
  /\ UNCHANGED <<inner, ops, respawnQ, locks, phase, restoring, hist, batch, worker, reply, db, removed>>

\* The child is gone: a kill (whatever code it left), or an exit of its own.
ChildGone(i, code) ==
  \/ sess[i].child = "killed" /\ code = 1 /\ UNCHANGED world
  \/ sess[i].child = "running" /\ Happens("exit")

\* Mutant: the tombstone's promise looks at the policy, not at the decision.
OwnerExit_PolicyPromises(i, code) ==
  LET s    == sess[i]
      will == decide_restart(Policy[s.id], code,
                             s.id \in inner.killed \/ inner.generation # s.gen, s.count)
  IN  /\ inner.live[s.id] = i
      /\ inner' = [inner EXCEPT !.live[s.id] = 0,
                                !.dead[s.id] = Tombstone(i, Policy[s.id] = "always")]
      /\ sess' = [sess EXCEPT ![i] = [s EXCEPT
                    !.child = "gone", !.reader = "exit",
                    !.todo = IF will THEN <<"lock", "respawn", "event">> ELSE <<"lock", "event">>]]

\* The reader owns the live session: tombstone, restart decision, full exit path.
OwnerExit(i, code) ==
  LET s    == sess[i]
      will == decide_restart(Policy[s.id], code,
                             s.id \in inner.killed \/ inner.generation # s.gen, s.count)
  IN  /\ inner.live[s.id] = i
      /\ inner' = [inner EXCEPT !.live[s.id] = 0, !.dead[s.id] = Tombstone(i, will)]
      /\ sess' = [sess EXCEPT ![i] = [s EXCEPT
                    !.child = "gone", !.reader = "exit",
                    !.count = IF code = 0 THEN 0 ELSE @,
                    !.todo = IF will THEN <<"lock", "respawn", "event">> ELSE <<"lock", "event">>]]

\* A newer session has the id: nothing to report.
StaleExit(i) ==
  /\ inner.live[sess[i].id] \notin {0, i}
  /\ inner' = consume_suppressed_exit(inner, sess[i].id)
  /\ sess' = [sess EXCEPT ![i].child = "gone", ![i].reader = "done"]

\* The id has no live session: report unless a suppression is left for the id.
RemovedExit(i) ==
  LET s == sess[i]
      suppress_exit == inner.suppress[s.id] > 0
      persist_exit  == ~suppress_exit /\ inner.dead[s.id].inc = i
  IN  /\ inner.live[s.id] = 0
      /\ inner' = consume_suppressed_exit(inner, s.id)
      /\ sess' = [sess EXCEPT ![i] = [s EXCEPT
                    !.child = "gone", !.muted = suppress_exit,
                    !.reader = IF suppress_exit THEN "done" ELSE "exit",
                    !.todo = IF persist_exit THEN <<"lock", "event">>
                             ELSE IF suppress_exit THEN <<>> ELSE <<"event">>]]

ReaderExit(i) ==
  /\ sess[i].reader = "run"
  /\ \E code \in {0, 1} :
       /\ ChildGone(i, code)
       /\ OwnerExit(i, code) \/ StaleExit(i) \/ RemovedExit(i)
  /\ UNCHANGED <<ops, respawnQ, locks, phase, restoring, hist, persistVars>>

ReaderAt(i, step) == sess[i].reader = "exit" /\ Head(sess[i].todo) = step

Advance(i, todo) ==
  [sess EXCEPT ![i].todo = todo, ![i].reader = IF todo = <<>> THEN "done" ELSE "exit"]

\* Under the gate, the reader checks again that the tombstone is its own.
ReaderLock(i) ==
  /\ ReaderAt(i, "lock") /\ gate = NoOne
  /\ LET rest == Tail(sess[i].todo)
     IN  IF inner.dead[sess[i].id].inc = i
         THEN /\ gate' = i
              /\ sess' = Advance(i, <<"snapshot", "exited">> \o rest)
         ELSE /\ sess' = Advance(i, rest)
              /\ UNCHANGED gate
  /\ UNCHANGED <<inner, ops, respawnQ, lc, guard, env, persistVars>>

\* Final snapshot and SessionExited, both blocking sends.
ReaderSnapshot(i) ==
  /\ ReaderAt(i, "snapshot")
  /\ Send(BufferUpdate(sess[i].id, i, sess[i].out))
  /\ sess' = Advance(i, Tail(sess[i].todo))
  /\ UNCHANGED <<inner, ops, respawnQ, locks, env, batch, worker, reply, db, removed>>

ReaderExited(i) ==
  /\ ReaderAt(i, "exited")
  /\ Send(SessionExited(sess[i].id, i))
  /\ sess' = Advance(i, Tail(sess[i].todo))
  /\ gate' = NoOne
  /\ UNCHANGED <<inner, ops, respawnQ, lc, guard, env, batch, worker, reply, db, removed>>

\* try_send: a full queue drops the request.
ReaderRespawn(i) ==
  /\ ReaderAt(i, "respawn")
  /\ LET cmd == [id |-> sess[i].id, inc |-> i, gen |-> sess[i].gen, count |-> sess[i].count]
         full == Len(respawnQ) = RespawnCap
     IN  /\ respawnQ' = IF full THEN respawnQ ELSE Append(respawnQ, cmd)
         /\ sess' = [Advance(i, Tail(sess[i].todo)) EXCEPT ![i].dropped = full]
  /\ UNCHANGED <<inner, ops, locks, env, persistVars>>

\* The exit event goes out only for the incarnation the id stands for.
ReaderEvent(i) ==
  /\ ReaderAt(i, "event")
  /\ sess' = [Advance(i, Tail(sess[i].todo)) EXCEPT
                ![i].told = with_current(inner, sess[i].id, i)]
  /\ UNCHANGED <<inner, ops, respawnQ, locks, env, persistVars>>

ReaderStep(i) == \/ ReaderLock(i) \/ ReaderSnapshot(i) \/ ReaderExited(i)
                 \/ ReaderRespawn(i) \/ ReaderEvent(i)

-----------------------------------------------------------------------------
(* supervisor_loop and respawn_internal.  The supervisor handles one       *)
(* RespawnCmd at a time, backoff included.                                 *)

SupRecv ==
  /\ At(Sup, "idle") /\ respawnQ # <<>>
  /\ Goto(Sup, [at |-> "backoff", cmd |-> Head(respawnQ)])
  /\ respawnQ' = Tail(respawnQ)
  /\ UNCHANGED <<inner, sess, locks, env, persistVars>>

\* dispose, kill or a newer session made the request stale.
RespawnStale(cmd) == inner.generation # cmd.gen \/ cmd.id \in inner.killed

SupCheck ==
  /\ At(Sup, "backoff")
  /\ LET cmd == ops[Sup].cmd
     IN  Goto(Sup, IF RespawnStale(cmd) \/ ~respawn_source_is_current(inner, cmd.id, cmd.inc)
                   THEN Idle ELSE [at |-> "reserve", cmd |-> cmd])
  /\ UNCHANGED <<inner, sess, respawnQ, locks, env, persistVars>>

SupFailed(cmd, lost) == [at |-> "failed", cmd |-> cmd, lost |-> lost]

\* The worktree does not validate: it is lost, or the error is of another kind.
SupInvalid ==
  /\ At(Sup, "reserve") /\ guard = NoOne
  /\ ops[Sup].cmd.id \in Targeted
  /\ \/ "lose" \in Menu /\ Goto(Sup, SupFailed(ops[Sup].cmd, TRUE))
     \/ "fail" \in Menu /\ Goto(Sup, SupFailed(ops[Sup].cmd, FALSE))
  /\ UNCHANGED <<inner, sess, respawnQ, locks, env, persistVars>>

\* Reserve the replacement if the tombstone is still the source; its name, which
\* a rename may have changed meanwhile, goes with it.
SupReserve ==
  /\ At(Sup, "reserve") /\ guard = NoOne /\ InBounds
  /\ LET cmd == ops[Sup].cmd
     IN  IF respawn_source_is_current(inner, cmd.id, cmd.inc)
         THEN /\ guard' = Sup
              /\ inner' = begin_replacement(inner, cmd.id)
              /\ sess' = [sess EXCEPT ![inner.next] =
                            NewSession(cmd.id, sess[cmd.inc].name, cmd.gen, cmd.count + 1)]
              /\ Goto(Sup, [at |-> "permit", cmd |-> cmd, inc |-> inner.next,
                            retry |-> inner.dead[cmd.id].unavail])
         ELSE /\ Goto(Sup, SupFailed(cmd, FALSE))
              /\ UNCHANGED <<inner, sess, guard>>
  /\ UNCHANGED <<respawnQ, lc, gate, env, persistVars>>

\* try_begin, and the first staleness check: give up quietly, or go on.
SupPermit ==
  /\ At(Sup, "permit")
  /\ LET op == ops[Sup]
     IN  IF lc.disposing \/ lc.closing \/ RespawnStale(op.cmd)
         THEN /\ inner' = finish_replacement(inner, op.cmd.id, op.inc)
              /\ Return(Sup, Idle)
         ELSE /\ lc' = [lc EXCEPT !.permits = @ \cup {Sup}]
              /\ ops' = [ops EXCEPT ![Sup].at = "spawn"]
              /\ UNCHANGED <<inner, gate, guard>>
  /\ UNCHANGED <<sess, respawnQ, env, persistVars>>

SupSpawn ==
  /\ At(Sup, "spawn")
  /\ sess' = [sess EXCEPT ![ops[Sup].inc].child = "running"]
  /\ ops' = [ops EXCEPT ![Sup].at = "publish"]
  /\ UNCHANGED <<inner, respawnQ, locks, env, persistVars>>

\* finish_failed_replacement for a respawn, which passes no failure metadata.
RespawnFailed ==
  finish_failed_replacement_locked(inner, ops[Sup].cmd.id, ops[Sup].inc, FALSE, ops[Sup].retry)

SupSpawnFails ==
  /\ At(Sup, "spawn") /\ "fail" \in Menu
  /\ gate = NoOne
  /\ gate' = Sup
  /\ inner' = RespawnFailed.inner
  /\ Goto(Sup, Sending(RespawnFailed.cmds, SupFailed(ops[Sup].cmd, FALSE), FALSE))
  /\ UNCHANGED <<sess, respawnQ, lc, guard, env, persistVars>>

\* A create, kill or remove won, or the manager is being disposed.
SupAbandon ==
  /\ At(Sup, "publish") /\ gate = NoOne
  /\ LET op == ops[Sup]
         superseded == ~respawn_replacement_is_current(inner, op.cmd.id, op.cmd.inc, op.inc)
     IN  /\ superseded \/ lc.disposing \/ RespawnStale(op.cmd)
         /\ inner' = finish_replacement(inner, op.cmd.id, op.inc)
         /\ sess' = Terminate(sess, op.inc)
         /\ Return(Sup, IF superseded THEN SupFailed(op.cmd, FALSE) ELSE Idle)
  /\ UNCHANGED <<respawnQ, env, persistVars>>

\* Mutant: the tombstone stays beside the restarted session.
SupPublish_KeepsTombstone ==
  /\ At(Sup, "publish") /\ gate = NoOne
  /\ LET op == ops[Sup]
         id == op.cmd.id
     IN  /\ respawn_replacement_is_current(inner, id, op.cmd.inc, op.inc)
         /\ ~lc.disposing /\ ~RespawnStale(op.cmd)
         /\ sess' = [sess EXCEPT ![op.inc].name = sess[op.cmd.inc].name]
         /\ inner' = [inner EXCEPT !.killed = @ \ {id}, !.live[id] = op.inc]
  /\ gate' = Sup
  /\ ops' = [ops EXCEPT ![Sup].at = "persist"]
  /\ UNCHANGED <<respawnQ, lc, guard, env, persistVars>>

SupPublish ==
  /\ At(Sup, "publish") /\ gate = NoOne
  /\ LET op == ops[Sup]
         id == op.cmd.id
     IN  /\ respawn_replacement_is_current(inner, id, op.cmd.inc, op.inc)
         /\ ~lc.disposing /\ ~RespawnStale(op.cmd)
         /\ sess' = [sess EXCEPT ![op.inc].name = sess[op.cmd.inc].name]
         /\ inner' = [inner EXCEPT !.killed = @ \ {id}, !.dead[id] = NoTomb, !.live[id] = op.inc]
  /\ gate' = Sup
  /\ ops' = [ops EXCEPT ![Sup].at = "persist"]
  /\ UNCHANGED <<respawnQ, lc, guard, env, persistVars>>

SupPersist ==
  /\ At(Sup, "persist")
  /\ Send(SessionCreated(ops[Sup].cmd.id, ops[Sup].inc, sess[ops[Sup].inc].name))
  /\ ops' = [ops EXCEPT ![Sup].at = "start"]
  /\ UNCHANGED <<inner, sess, respawnQ, locks, env, batch, worker, reply, db, removed>>

SupStart ==
  /\ At(Sup, "start")
  /\ sess' = [sess EXCEPT ![ops[Sup].inc].reader = "run"]
  /\ inner' = finish_replacement(inner, ops[Sup].cmd.id, ops[Sup].inc)
  /\ Return(Sup, Idle)
  /\ UNCHANGED <<respawnQ, env, persistVars>>

SupStartFails ==
  /\ At(Sup, "start") /\ "fail" \in Menu
  /\ inner' = RespawnFailed.inner
  /\ sess' = Terminate(sess, ops[Sup].inc)
  /\ Goto(Sup, Sending(RespawnFailed.cmds, SupFailed(ops[Sup].cmd, FALSE), FALSE))
  /\ UNCHANGED <<respawnQ, locks, env, persistVars>>

\* The respawn failed: the tombstone stops promising a restart.
SupSourceFailed ==
  /\ At(Sup, "failed") /\ gate = NoOne
  /\ gate' = Sup
  /\ LET op == ops[Sup]
         r  == finish_respawn_source_failure(inner, op.cmd.id, op.cmd.inc, op.lost)
     IN  /\ inner' = r.inner
         /\ Goto(Sup, Sending(r.cmds, Idle, FALSE))
  /\ UNCHANGED <<sess, respawnQ, lc, guard, env, persistVars>>

SupStep == \/ SupRecv \/ SupCheck \/ SupInvalid \/ SupReserve \/ SupPermit \/ SupSpawn
           \/ SupSpawnFails \/ SupAbandon \/ SupPublish \/ SupPersist \/ SupStart
           \/ SupStartFails \/ SupSourceFailed \/ SendNext(Sup) \/ SendDone(Sup)

-----------------------------------------------------------------------------
(* spawn_cleanup_task.  Any tombstone may have aged past its 60 s.         *)

Expirable(in, id) ==
  {inc \in {in.dead[id].inc} : inc # 0 /\ ~in.dead[id].unavail}
  \cup {inc \in {in.failed[id].inc} : inc # 0 /\ ~in.failed[id].unavail}

SweepBegin ==
  /\ phase = "serving" /\ At(Sweeper, "idle") /\ Happens("sweep")
  /\ inner' = prune_killed_markers(inner)
  /\ \/ UNCHANGED ops
     \/ \E id \in Ids : \E inc \in Expirable(inner, id) :
          Goto(Sweeper, [at |-> "sweep", id |-> id, inc |-> inc])
  /\ UNCHANGED <<sess, respawnQ, locks, phase, restoring, hist, persistVars>>

\* The second look, before remove_with_expected waits for the gate.
SweepCheck ==
  /\ At(Sweeper, "sweep")
  /\ LET op == ops[Sweeper]
         t  == inner.dead[op.id]
         f  == inner.failed[op.id]
         current == IF t.inc # 0 THEN t.inc = op.inc /\ ~t.unavail
                                 ELSE f.inc = op.inc /\ ~f.unavail
     IN  Goto(Sweeper, IF current THEN [op EXCEPT !.at = "expected"] ELSE Idle)
  /\ UNCHANGED <<inner, sess, respawnQ, locks, env, persistVars>>

SweepRemove ==
  /\ At(Sweeper, "expected") /\ gate = NoOne /\ InBounds
  /\ inner' = allocate_incarnation(inner)
  /\ LET op == ops[Sweeper]
     IN  IF CurrentIncarnation(inner, op.id) = op.inc
         THEN /\ gate' = Sweeper
              /\ Goto(Sweeper, [at |-> "remove", id |-> op.id, inc |-> inner.next])
         ELSE /\ Goto(Sweeper, Idle)
              /\ UNCHANGED gate
  /\ UNCHANGED <<sess, respawnQ, lc, guard, env, persistVars>>

SweepStep == SweepCheck \/ SweepRemove \/ RemoveStep(Sweeper)

-----------------------------------------------------------------------------
(* restore_sessions_inner, before the server accepts requests; it holds    *)
(* the workspace guard throughout.                                         *)

Deleted(id) == /\ db' = [db EXCEPT ![id] = delete_session(@, restoring.inc)]
               /\ removed' = [removed EXCEPT ![id] = MaxNat(@, restoring.inc)]

RestoreLoad ==
  /\ At(Main, "load")
  /\ guard' = Main
  /\ LET cleaned == [id \in Ids |-> cleanup_dead(db[id])]
     IN  /\ db' = cleaned
         /\ removed' = [id \in Ids |-> IF cleaned[id] = db[id] THEN removed[id]
                                       ELSE MaxNat(removed[id], db[id].inc)]
         /\ restoring' = [NotRestoring EXCEPT !.left = {id \in Ids : Loadable(cleaned[id])}]
  /\ hist' = [hist EXCEPT !.atStop = {}]
  /\ Goto(Main, [at |-> "restore"])
  /\ UNCHANGED <<inner, sess, respawnQ, lc, gate, phase, world, chan, batch, worker, reply>>

\* The next persisted session, in any order.
RestoreNext(id) ==
  /\ At(Main, "restore") /\ id \in restoring.left
  /\ restoring' = [left |-> restoring.left \ {id}, inc |-> db[id].inc, name |-> db[id].name]
  /\ Goto(Main, [at |-> "target", id |-> id, name |-> db[id].name])
  /\ UNCHANGED <<inner, sess, respawnQ, locks, phase, world, hist, persistVars>>

\* Its project was removed, its target is invalid, or the create failed and the
\* target is still there: the session is deleted.
RestoreDelete ==
  /\ \/ At(Main, "target") /\ "config" \in Menu
     \/ At(Main, "recheck")
  /\ Deleted(ops[Main].id)
  /\ Goto(Main, [at |-> "restore"])
  /\ UNCHANGED <<inner, sess, respawnQ, locks, env, chan, batch, worker, reply>>

\* Its target is lost, now, earlier or since the create failed: the identity is
\* kept unavailable under its persisted incarnation.
RestoreUnavailable ==
  /\ At(Main, "target") \/ At(Main, "recheck")
  /\ LET id  == ops[Main].id
         inc == restoring.inc
     IN  /\ \/ At(Main, "target") /\ db[id].unavail
            \/ id \in Targeted /\ "lose" \in Menu
         /\ db' = [db EXCEPT ![id] = mark_session_target_unavailable(@, inc)]
         /\ inner' = restore_unavailable_session(inner, id, inc)
         /\ sess' = [sess EXCEPT ![inc] = NewSession(id, restoring.name, 0, 0)]
  /\ Goto(Main, [at |-> "restore"])
  /\ UNCHANGED <<respawnQ, locks, env, chan, batch, worker, reply, removed>>

\* Create the session anew, as any create.
RestoreCreate ==
  /\ At(Main, "target") /\ ~db[ops[Main].id].unavail
  /\ ops' = [ops EXCEPT ![Main].at = "permit"]
  /\ UNCHANGED <<inner, sess, respawnQ, locks, env, persistVars>>

\* A buffer can be past its TTL if no session of this process wrote it.
Aged(id) == "expire" \in Menu /\ (db[id].buf.by # 0 => sess[db[id].buf.by].reader = "none")

\* cleanup_expired ends it, and the server starts to serve.
RestoreDone ==
  /\ At(Main, "restore") /\ restoring.left = {}
  /\ \E old \in SUBSET {id \in Ids : Aged(id)} :
       db' = [id \in Ids |-> IF id \in old THEN cleanup_expired(db[id]) ELSE db[id]]
  /\ Return(Main, Idle)
  /\ phase' = "serving"
  /\ UNCHANGED <<inner, sess, respawnQ, restoring, world, hist, chan, batch, worker, reply, removed>>

RestoreStep == \/ RestoreLoad \/ \E id \in Ids : RestoreNext(id)
               \/ RestoreDelete \/ RestoreUnavailable \/ RestoreCreate \/ RestoreDone
               \/ CreateStep(Main)

-----------------------------------------------------------------------------
(* The end of main(), once axum has answered every request.                *)

ReadersDone == \A i \in Incs : sess[i].reader \in {"none", "done"}

ShutdownBegin ==
  /\ phase = "serving" /\ \A c \in Callers : At(c, "idle")
  /\ Happens("shutdown")
  /\ phase' = "stopping"
  /\ hist' = [hist EXCEPT !.atStop = {id \in Ids : inner.live[id] # 0}]
  /\ Goto(Main, [at |-> "snapshot"])
  /\ UNCHANGED <<inner, sess, respawnQ, locks, restoring, persistVars>>

\* snapshot_live_buffers: read every live buffer, send the snapshots, gate held.
SnapshotTake ==
  /\ At(Main, "snapshot") /\ gate = NoOne
  /\ gate' = Main
  /\ Goto(Main, [at |-> "snapshots", left |->
       {BufferUpdate(id, inner.live[id], sess[inner.live[id]].out) :
          id \in {j \in Ids : inner.live[j] # 0}}])
  /\ UNCHANGED <<inner, sess, respawnQ, lc, guard, env, persistVars>>

SnapshotSend ==
  /\ At(Main, "snapshots")
  /\ \E cmd \in ops[Main].left :
       /\ Send(cmd)
       /\ Goto(Main, [at |-> "snapshots", left |-> ops[Main].left \ {cmd}])
  /\ UNCHANGED <<inner, sess, respawnQ, locks, env, batch, worker, reply, db, removed>>

StopAll ==
  /\ At(Main, "snapshots") /\ ops[Main].left = {}
  /\ inner' = stop_all_for_shutdown(inner)
  /\ sess' = TerminateLive(sess)
  /\ Return(Main, [at |-> "readers"])
  /\ UNCHANGED <<respawnQ, env, persistVars>>

\* wait_for_readers, then begin_dispose(closing).
ShutdownClose ==
  /\ At(Main, "readers") /\ ReadersDone /\ ~lc.disposing
  /\ lc' = [lc EXCEPT !.disposing = TRUE, !.closing = TRUE]
  /\ Goto(Main, [at |-> "close"])
  /\ UNCHANGED <<inner, sess, respawnQ, gate, guard, env, persistVars>>

\* The drain is over: dispose_internal(closing) makes no durable removal.
ShutdownDispose ==
  /\ At(Main, "close") /\ lc.permits = {} /\ gate = NoOne
  /\ inner' = [DisposeAll(inner) EXCEPT !.closing = TRUE, !.generation = @ + 1]
  /\ sess' = TerminateLive(sess)
  /\ lc' = [lc EXCEPT !.disposing = FALSE]
  /\ Goto(Main, [at |-> "join"])
  /\ UNCHANGED <<respawnQ, gate, guard, env, persistVars>>

ShutdownWorker ==
  /\ At(Main, "join") /\ ReadersDone
  /\ Send(Shutdown)
  /\ Goto(Main, [at |-> "worker"])
  /\ UNCHANGED <<inner, sess, respawnQ, locks, env, batch, worker, reply, db, removed>>

\* The worker has flushed and ended; the process exits and is started again.
ShutdownDone == /\ At(Main, "worker") /\ worker.at = "stopped"
                /\ Boot
                /\ UNCHANGED world

ShutdownStep == \/ SnapshotTake \/ SnapshotSend \/ StopAll \/ ShutdownClose
                \/ ShutdownDispose \/ ShutdownWorker \/ ShutdownDone

\* The process dies at any point; the store keeps what was committed.
Crash == Happens("crash") /\ Boot
=============================================================================
