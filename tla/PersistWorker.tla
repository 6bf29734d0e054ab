---------------------------- MODULE PersistWorker ---------------------------
(***************************************************************************)
(* The persist worker of server/src/persistence/worker.rs: one thread that *)
(* takes commands from a bounded FIFO channel, batches scrollback          *)
(* snapshots and writes the session store.  This module has its state, its *)
(* steps and the two ways to send to it; the senders are in the modules    *)
(* that extend it.                                                         *)
(***************************************************************************)
EXTENDS SessionTable, Sequences

CONSTANTS Clients,     \* callers that wait for a reply
          ChannelCap   \* slots of the channel (256 in main.rs)

ASSUME ChannelCapAssumption == ChannelCap \in Nat \ {0}

VARIABLES chan,     \* commands sent and not yet received
          batch,    \* pending: at most one snapshot per (id, incarnation)
          worker,   \* where the worker thread is
          reply,    \* per client: the answer it waits for
          db,       \* the store
          removed,  \* history: the highest incarnation ever deleted, per id
          world     \* the surroundings of this behaviour: what may fail or happen

persistVars == <<chan, batch, worker, reply, db, removed>>

\* Command kinds whose SQL may fail.
Failing == world.failing

Replies == {"none", "ok", "stale", "error"}

PersistInit == /\ chan = <<>>
               /\ batch = {}
               /\ worker = [at |-> "recv"]
               /\ reply = [c \in Clients |-> "none"]

\* A new process: what was queued or batched is gone.
PersistRestart == /\ chan' = <<>>
                  /\ batch' = {}
                  /\ worker' = [at |-> "recv"]
                  /\ reply' = [c \in Clients |-> "none"]

-----------------------------------------------------------------------------
(* Commands: the variants of PersistCmd.                                   *)

BufferUpdate(id, inc, total) == [kind |-> "BufferUpdate", id |-> id, inc |-> inc, total |-> total]
SessionCreated(id, inc, name) == [kind |-> "SessionCreated", id |-> id, inc |-> inc, name |-> name]
SessionExited(id, inc) == [kind |-> "SessionExited", id |-> id, inc |-> inc]
SessionDead(id, inc) == [kind |-> "SessionDead", id |-> id, inc |-> inc]
SessionTargetUnavailable(id, inc) == [kind |-> "SessionTargetUnavailable", id |-> id, inc |-> inc]
SessionTargetUnavailableUpsert(id, inc, name) ==
  [kind |-> "SessionTargetUnavailableUpsert", id |-> id, inc |-> inc, name |-> name]
SessionRenamed(id, inc, name, c) ==
  [kind |-> "SessionRenamed", id |-> id, inc |-> inc, name |-> name, from |-> c]
SessionRemoved(id, inc, c) == [kind |-> "SessionRemoved", id |-> id, inc |-> inc, from |-> c]
Shutdown == [kind |-> "Shutdown"]

\* SyncSender::send: waits for a slot.
Send(cmd) == /\ Len(chan) < ChannelCap
             /\ chan' = Append(chan, cmd)

\* SyncSender::try_send of a periodic snapshot: dropped when the channel is full.
TrySend(cmd) == chan' = IF Len(chan) < ChannelCap THEN Append(chan, cmd) ELSE chan

-----------------------------------------------------------------------------
(* Worker steps.  A command is received and handled in one step, except    *)
(* SessionExited, whose two transactions a crash can separate.             *)

Receive(kind) == /\ worker.at = "recv"
                 /\ chan # <<>>
                 /\ Head(chan).kind = kind
                 /\ chan' = Tail(chan)

\* The SQL of a command succeeds and leaves entry e, or fails and is rolled back
\* (the worker only logs it).
Commit(kind, id, e) ==
  \/ db' = [db EXCEPT ![id] = e]
  \/ kind \in Failing /\ UNCHANGED db

\* PersistCmd::BufferUpdate replaces the snapshot batched for the incarnation.
HandleBufferUpdate ==
  /\ Receive("BufferUpdate")
  /\ LET cmd == Head(chan)
     IN  batch' = {b \in batch : ~(b.id = cmd.id /\ b.inc = cmd.inc)}
                    \cup {[id |-> cmd.id, inc |-> cmd.inc, total |-> cmd.total]}
  /\ UNCHANGED <<worker, reply, db, removed>>

HandleSessionCreated ==
  /\ Receive("SessionCreated")
  /\ LET cmd == Head(chan)
     IN  Commit(cmd.kind, cmd.id, save_session(db[cmd.id], cmd.inc, cmd.name, FALSE))
  /\ UNCHANGED <<batch, worker, reply, removed>>

\* Flush the batched snapshot of the incarnation first ...
HandleSessionExited ==
  /\ Receive("SessionExited")
  /\ LET cmd  == Head(chan)
         mine == {b \in batch : b.id = cmd.id /\ b.inc = cmd.inc}
     IN  /\ batch' = batch \ mine
         /\ \/ mine = {} /\ UNCHANGED db
            \/ \E b \in mine :
                 Commit("BufferUpdate", cmd.id, save_buffer(db[cmd.id], b.inc, b.total))
         /\ worker' = [at |-> "mark", id |-> cmd.id, inc |-> cmd.inc]
  /\ UNCHANGED <<reply, removed>>

\* ... then mark the row dead, so that restore skips it.
MarkExited ==
  /\ worker.at = "mark"
  /\ Commit("SessionExited", worker.id, mark_session_dead(db[worker.id], worker.inc))
  /\ worker' = [at |-> "recv"]
  /\ UNCHANGED <<chan, batch, reply, removed>>

HandleSessionDead ==
  /\ Receive("SessionDead")
  /\ LET cmd == Head(chan)
     IN  Commit(cmd.kind, cmd.id, mark_session_dead(db[cmd.id], cmd.inc))
  /\ UNCHANGED <<batch, worker, reply, removed>>

HandleSessionTargetUnavailable ==
  /\ Receive("SessionTargetUnavailable")
  /\ LET cmd == Head(chan)
     IN  Commit(cmd.kind, cmd.id, mark_session_target_unavailable(db[cmd.id], cmd.inc))
  /\ UNCHANGED <<batch, worker, reply, removed>>

HandleSessionTargetUnavailableUpsert ==
  /\ Receive("SessionTargetUnavailableUpsert")
  /\ LET cmd == Head(chan)
     IN  Commit(cmd.kind, cmd.id, save_session(db[cmd.id], cmd.inc, cmd.name, TRUE))
  /\ UNCHANGED <<batch, worker, reply, removed>>

\* The reply says whether the UPDATE matched a row, or that it failed.
HandleSessionRenamed ==
  /\ Receive("SessionRenamed")
  /\ LET cmd == Head(chan)
     IN  \/ /\ db' = [db EXCEPT ![cmd.id] = rename_session(db[cmd.id], cmd.inc, cmd.name)]
            /\ reply' = [reply EXCEPT ![cmd.from] =
                           IF Renames(db[cmd.id], cmd.inc) THEN "ok" ELSE "stale"]
         \/ /\ cmd.kind \in Failing
            /\ reply' = [reply EXCEPT ![cmd.from] = "error"]
            /\ UNCHANGED db
  /\ UNCHANGED <<batch, worker, removed>>

\* Mutant: the rows go but no watermark is left behind.
HandleSessionRemoved_NoWatermark ==
  /\ Receive("SessionRemoved")
  /\ LET cmd == Head(chan)
     IN  /\ batch' = {b \in batch : b.id # cmd.id \/ b.inc > cmd.inc}
         /\ db' = [db EXCEPT ![cmd.id] = EmptyEntry]
         /\ removed' = [removed EXCEPT ![cmd.id] = MaxNat(removed[cmd.id], cmd.inc)]
         /\ reply' = [reply EXCEPT ![cmd.from] = "ok"]
  /\ UNCHANGED worker

\* Snapshots of the removed incarnations leave the batch even if the SQL fails.
HandleSessionRemoved ==
  /\ Receive("SessionRemoved")
  /\ LET cmd == Head(chan)
     IN  /\ batch' = {b \in batch : b.id # cmd.id \/ b.inc > cmd.inc}
         /\ \/ /\ db' = [db EXCEPT ![cmd.id] = delete_session(db[cmd.id], cmd.inc)]
               /\ removed' = [removed EXCEPT ![cmd.id] = MaxNat(removed[cmd.id], cmd.inc)]
               /\ reply' = [reply EXCEPT ![cmd.from] = "ok"]
            \/ /\ cmd.kind \in Failing
               /\ reply' = [reply EXCEPT ![cmd.from] = "error"]
               /\ UNCHANGED <<db, removed>>
  /\ UNCHANGED worker

\* Shutdown leaves the loop; the final flush follows.
HandleShutdown ==
  /\ Receive("Shutdown")
  /\ worker' = [at |-> "drain"]
  /\ UNCHANGED <<batch, reply, db, removed>>

\* The 5 s flush timer has run out.
FlushTimer ==
  /\ worker.at = "recv"
  /\ batch # {}
  /\ worker' = [at |-> "flush"]
  /\ UNCHANGED <<chan, batch, reply, db, removed>>

\* Mutant: the batch is read, not drained.
FlushOne_NotDrained ==
  /\ worker.at \in {"flush", "drain"}
  /\ \E b \in batch : Commit("BufferUpdate", b.id, save_buffer(db[b.id], b.inc, b.total))
  /\ UNCHANGED <<chan, batch, worker, reply, removed>>

\* flush_all writes the batched snapshots in the map's arbitrary order.
FlushOne ==
  /\ worker.at \in {"flush", "drain"}
  /\ \E b \in batch : /\ Commit("BufferUpdate", b.id, save_buffer(db[b.id], b.inc, b.total))
                      /\ batch' = batch \ {b}
  /\ UNCHANGED <<chan, worker, reply, removed>>

FlushDone ==
  /\ worker.at \in {"flush", "drain"}
  /\ batch = {}
  /\ worker' = [at |-> IF worker.at = "flush" THEN "recv" ELSE "stopped"]
  /\ UNCHANGED <<chan, batch, reply, db, removed>>

WorkerStep ==
  \/ HandleBufferUpdate \/ HandleSessionCreated \/ HandleSessionExited \/ MarkExited
  \/ HandleSessionDead \/ HandleSessionTargetUnavailable
  \/ HandleSessionTargetUnavailableUpsert \/ HandleSessionRenamed
  \/ HandleSessionRemoved \/ HandleShutdown \/ FlushTimer \/ FlushOne \/ FlushDone
=============================================================================
