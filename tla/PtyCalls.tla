------------------------------ MODULE PtyCalls ------------------------------
(***************************************************************************)
(* The operations clients call on the PTY session manager: create, kill,   *)
(* remove, rename and dispose.  A step is one critical section of the      *)
(* inner mutex, one wait for a lock, or one channel operation.             *)
(***************************************************************************)
EXTENDS PtyState

-----------------------------------------------------------------------------
(* create_with_buffer, called by the create_session handler (c a client,   *)
(* workspace guard held) and by restore_sessions (c = Main).               *)

CreateCall(c, id) ==
  /\ Call(c, "create")
  /\ guard = NoOne
  /\ guard' = c
  /\ Goto(c, [at |-> "permit", id |-> id, name |-> NoName])
  /\ UNCHANGED <<inner, sess, respawnQ, lc, gate, hist, persistVars>>

\* LifecycleGate::begin waits while a dispose drains, and refuses when closing.
CreatePermit(c) ==
  /\ At(c, "permit") /\ ~lc.disposing /\ ~lc.closing
  /\ lc' = [lc EXCEPT !.permits = @ \cup {c}]
  /\ ops' = [ops EXCEPT ![c].at = "evict"]
  /\ UNCHANGED <<inner, sess, respawnQ, gate, guard, env, persistVars>>

\* Take the persistence gate until the end of the call; evict what is live.
CreateEvict(c) ==
  /\ At(c, "evict") /\ gate = NoOne
  /\ gate' = c
  /\ LET id  == ops[c].id
         old == inner.live[id]
     IN  /\ inner' = kill_internal_impl(inner, id, TRUE)
         /\ sess' = IF old = 0 THEN sess
                    ELSE [Terminate(sess, old) EXCEPT ![old].replaced = TRUE]
         /\ Goto(c, [at |-> "reserve", id |-> id, name |-> ops[c].name,
                     retry |-> inner.dead[id].unavail])
         /\ hist' = IF c = Main THEN hist
                    ELSE [hist EXCEPT !.down = @ \ {id}, !.gone = @ \ {id}]
  /\ UNCHANGED <<respawnQ, lc, guard, phase, restoring, world, persistVars>>

\* inner.closing cannot be read TRUE here: it is set once the permits drained.
CreateReserve(c) ==
  /\ At(c, "reserve") /\ InBounds
  /\ inner' = begin_replacement(inner, ops[c].id)
  /\ sess' = [sess EXCEPT ![inner.next] =
                NewSession(ops[c].id, ops[c].name, inner.generation, 0)]
  /\ Goto(c, [at |-> "spawn", id |-> ops[c].id, inc |-> inner.next, retry |-> ops[c].retry])
  /\ UNCHANGED <<respawnQ, locks, env, persistVars>>

\* openpty, spawn_command, clone_reader and take_writer, without any lock.
CreateSpawn(c) ==
  /\ At(c, "spawn")
  /\ sess' = [sess EXCEPT ![ops[c].inc].child = "running"]
  /\ ops' = [ops EXCEPT ![c].at = "publish"]
  /\ UNCHANGED <<inner, respawnQ, locks, env, persistVars>>

\* How the caller goes on: restore_sessions with its next session, the handler by
\* answering; after a failure both look at a worktree target again, guard in hand.
AfterCreate(c) == IF c = Main THEN [at |-> "restore"] ELSE Idle

AfterFailure(c) == IF ops[c].id \in Targeted \/ c = Main
                   THEN [at |-> "recheck", id |-> ops[c].id] ELSE Idle

KeepsGuard(c) == c = Main \/ ops[c].id \in Targeted

ReleaseGuard(c, keep) == guard' = IF keep THEN guard ELSE Unlock(guard, c)

\* mark_replacement_failed: the failed replacement and the commands it sends.
ReplacementFailed(c) ==
  finish_failed_replacement_locked(inner, ops[c].id, ops[c].inc, TRUE, ops[c].retry)

CreateSpawnFails(c) ==
  /\ At(c, "spawn") /\ "fail" \in Menu
  /\ inner' = ReplacementFailed(c).inner
  /\ Goto(c, Sending(ReplacementFailed(c).cmds, AfterFailure(c), KeepsGuard(c)))
  /\ UNCHANGED <<sess, respawnQ, locks, env, persistVars>>

CreateRefused(in, id, inc) ==
  \/ ~replacement_is_current(in, id, inc)
  \/ lc.disposing \/ in.closing \/ in.generation # sess[inc].gen

\* Mutant: the child is forgotten, not killed.
CreateAbandon_LeavesChild(c) ==
  /\ At(c, "publish") /\ CreateRefused(inner, ops[c].id, ops[c].inc)
  /\ Goto(c, AfterFailure(c))
  /\ DropGates(c)
  /\ ReleaseGuard(c, KeepsGuard(c))
  /\ UNCHANGED <<inner, sess, respawnQ, env, persistVars>>

\* Superseded, or the manager is being disposed: the new child is killed again.
CreateAbandon(c) ==
  /\ At(c, "publish") /\ CreateRefused(inner, ops[c].id, ops[c].inc)
  /\ sess' = Terminate(sess, ops[c].inc)
  /\ Goto(c, AfterFailure(c))
  /\ DropGates(c)
  /\ ReleaseGuard(c, KeepsGuard(c))
  /\ UNCHANGED <<inner, respawnQ, env, persistVars>>

CreatePublish(c) ==
  /\ At(c, "publish") /\ ~CreateRefused(inner, ops[c].id, ops[c].inc)
  /\ LET id == ops[c].id
     IN  /\ sess' = Terminate(sess, inner.live[id])
         /\ inner' = [inner EXCEPT !.dead[id] = NoTomb, !.killed = @ \ {id},
                                   !.live[id] = ops[c].inc]
  /\ ops' = [ops EXCEPT ![c].at = "persist"]
  /\ UNCHANGED <<respawnQ, locks, env, persistVars>>

\* persist_session_created comes before the reader thread exists.
CreatePersist(c) ==
  /\ At(c, "persist")
  /\ Send(SessionCreated(ops[c].id, ops[c].inc, sess[ops[c].inc].name))
  /\ ops' = [ops EXCEPT ![c].at = "start"]
  /\ UNCHANGED <<inner, sess, respawnQ, locks, env, batch, worker, reply, db, removed>>

CreateStart(c) ==
  /\ At(c, "start")
  /\ sess' = [sess EXCEPT ![ops[c].inc].reader = "run"]
  /\ inner' = finish_replacement(inner, ops[c].id, ops[c].inc)
  /\ Goto(c, AfterCreate(c))
  /\ DropGates(c)
  /\ ReleaseGuard(c, c = Main)
  /\ UNCHANGED <<respawnQ, env, persistVars>>

\* The reader thread cannot be started: tombstone, then kill_internal_impl.
CreateStartFails(c) ==
  /\ At(c, "start") /\ "fail" \in Menu
  /\ inner' = kill_internal_impl(ReplacementFailed(c).inner, ops[c].id, TRUE)
  /\ sess' = Terminate(sess, ops[c].inc)
  /\ Goto(c, Sending(ReplacementFailed(c).cmds, AfterFailure(c), KeepsGuard(c)))
  /\ UNCHANGED <<respawnQ, locks, env, persistVars>>

\* create_session: the target is still there, or it is lost and the id is kept
\* as unavailable (mark_target_unavailable).
CreateRecheck(c) ==
  /\ At(c, "recheck")
  /\ Return(c, Idle)
  /\ UNCHANGED <<inner, sess, respawnQ, env, persistVars>>

CreateTargetLost(c) ==
  /\ At(c, "recheck") /\ "lose" \in Menu
  /\ gate = NoOne
  /\ gate' = c
  /\ LET r == mark_target_unavailable(inner, ops[c].id, NoName)
     IN  /\ inner' = r.inner
         /\ Goto(c, Sending(r.cmds, Idle, FALSE))
  /\ UNCHANGED <<sess, respawnQ, lc, guard, env, persistVars>>

CreateStep(c) ==
  \/ CreatePermit(c) \/ CreateEvict(c) \/ CreateReserve(c) \/ CreateSpawn(c)
  \/ CreateSpawnFails(c) \/ CreateAbandon(c) \/ CreatePublish(c) \/ CreatePersist(c)
  \/ CreateStart(c) \/ CreateStartFails(c) \/ SendNext(c) \/ SendDone(c)

-----------------------------------------------------------------------------
(* kill: one critical section under the persistence gate.  It persists     *)
(* nothing; the reader of the killed session does.                         *)

Kill(c, id) ==
  /\ Call(c, "kill")
  /\ gate = NoOne
  /\ inner' = kill_internal_impl(inner, id, FALSE)
  /\ sess' = Terminate(sess, inner.live[id])
  /\ hist' = [hist EXCEPT !.down = @ \cup {id}]
  /\ UNCHANGED <<ops, respawnQ, locks, persistVars>>

-----------------------------------------------------------------------------
(* remove: allocate the removal incarnation, have it made durable, and     *)
(* only then forget the id.  The sweeper shares all but the first step.    *)

RemoveCall(c, id) ==
  /\ Call(c, "remove")
  /\ gate = NoOne /\ InBounds
  /\ gate' = c
  /\ inner' = allocate_incarnation(inner)
  /\ Goto(c, [at |-> "remove", id |-> id, inc |-> inner.next])
  /\ UNCHANGED <<sess, respawnQ, lc, guard, hist, persistVars>>

RemoveSend(c) ==
  /\ At(c, "remove")
  /\ Send(SessionRemoved(ops[c].id, ops[c].inc, c))
  /\ ops' = [ops EXCEPT ![c].at = "removing"]
  /\ UNCHANGED <<inner, sess, respawnQ, locks, env, batch, worker, reply, db, removed>>

TakeReply(c) == reply' = [reply EXCEPT ![c] = "none"]

\* An error leaves the id as it was.
RemoveDone(c) ==
  /\ At(c, "removing") /\ reply[c] # "none"
  /\ LET id == ops[c].id
         ok == reply[c] = "ok"
     IN  /\ inner' = IF ok THEN RemoveIdentity(inner, id) ELSE inner
         /\ sess' = IF ok THEN Terminate(sess, inner.live[id]) ELSE sess
         /\ hist' = IF ok THEN [hist EXCEPT !.down = @ \cup {id}, !.gone = @ \cup {id}] ELSE hist
  /\ TakeReply(c)
  /\ Return(c, Idle)
  /\ UNCHANGED <<respawnQ, phase, restoring, world, chan, batch, worker, db, removed>>

-----------------------------------------------------------------------------
(* rename: durable first, then in memory if the id is still the same       *)
(* incarnation.                                                            *)

RenameCall(c, id, name) ==
  /\ Call(c, "rename")
  /\ gate = NoOne
  /\ inner.live[id] # 0 \/ inner.dead[id].inc # 0
  /\ gate' = c
  /\ Goto(c, [at |-> "rename", id |-> id, inc |-> CurrentIncarnation(inner, id), name |-> name])
  /\ UNCHANGED <<inner, sess, respawnQ, lc, guard, hist, persistVars>>

RenameSend(c) ==
  /\ At(c, "rename")
  /\ Send(SessionRenamed(ops[c].id, ops[c].inc, ops[c].name, c))
  /\ ops' = [ops EXCEPT ![c].at = "renaming"]
  /\ UNCHANGED <<inner, sess, respawnQ, locks, env, batch, worker, reply, db, removed>>

\* Mutant: the name is set in memory whatever the store answered.
RenameDone_Optimistic(c) ==
  /\ At(c, "renaming") /\ reply[c] # "none"
  /\ sess' = [sess EXCEPT ![ops[c].inc].name = ops[c].name]
  /\ TakeReply(c)
  /\ Return(c, Idle)
  /\ UNCHANGED <<inner, respawnQ, env, chan, batch, worker, db, removed>>

RenameDone(c) ==
  /\ At(c, "renaming") /\ reply[c] # "none"
  /\ LET id  == ops[c].id
         inc == ops[c].inc
         same == inc = (IF inner.live[id] # 0 THEN inner.live[id] ELSE inner.dead[id].inc)
     IN  sess' = IF reply[c] = "ok" /\ same THEN [sess EXCEPT ![inc].name = ops[c].name]
                                             ELSE sess
  /\ TakeReply(c)
  /\ Return(c, Idle)
  /\ UNCHANGED <<inner, respawnQ, env, chan, batch, worker, db, removed>>

-----------------------------------------------------------------------------
(* dispose (workspace switch, settings reset): stop new creates, drain the *)
(* running ones, remove every identity durably, then drop everything.      *)

DisposeCall(c) ==
  /\ Call(c, "dispose")
  /\ ~lc.disposing
  /\ lc' = [lc EXCEPT !.disposing = TRUE]
  /\ Goto(c, [at |-> "drain"])
  /\ UNCHANGED <<inner, sess, respawnQ, gate, guard, hist, persistVars>>

DisposeStart(c) ==
  /\ At(c, "drain") /\ lc.permits = {} /\ gate = NoOne
  /\ gate' = c
  /\ inner' = [inner EXCEPT !.generation = @ + 1]
  /\ Goto(c, [at |-> "dispose", left |-> Identities(inner), gen |-> inner.generation])
  /\ UNCHANGED <<sess, respawnQ, lc, guard, env, persistVars>>

DisposeRemove(c) ==
  /\ At(c, "dispose") /\ InBounds
  /\ \E p \in ops[c].left :
       /\ Send(SessionRemoved(p[1], inner.next, c))
       /\ Goto(c, [at |-> "disposing", left |-> ops[c].left, gen |-> ops[c].gen, cur |-> p])
  /\ inner' = allocate_incarnation(inner)
  /\ UNCHANGED <<sess, respawnQ, locks, env, batch, worker, reply, db, removed>>

\* Mutant: the lifecycle gate stays in its disposing state.
EndDispose_LeavesDisposing(c) == /\ Goto(c, Idle)
                                 /\ gate' = NoOne
                                 /\ UNCHANGED lc

EndDispose(c) == /\ Goto(c, Idle)
                 /\ gate' = NoOne
                 /\ lc' = [lc EXCEPT !.disposing = FALSE]

DisposeEvict(c) ==
  /\ At(c, "disposing") /\ reply[c] = "ok"
  /\ LET p == ops[c].cur
     IN  /\ inner' = evict_identity_after_durable_removal(inner, p[1], p[2])
         /\ sess' = IF inner.live[p[1]] = p[2] THEN Terminate(sess, p[2]) ELSE sess
         /\ Goto(c, [at |-> "dispose", left |-> ops[c].left \ {p}, gen |-> ops[c].gen])
         /\ hist' = [hist EXCEPT !.down = @ \cup {p[1]}, !.gone = @ \cup {p[1]}]
  /\ TakeReply(c)
  /\ UNCHANGED <<respawnQ, locks, phase, restoring, world, chan, batch, worker, db, removed>>

\* Mutant: the generation stays advanced.
DisposeError_KeepsGeneration(c) ==
  /\ At(c, "disposing") /\ reply[c] = "error"
  /\ EndDispose(c)
  /\ TakeReply(c)
  /\ UNCHANGED <<inner, sess, respawnQ, guard, env, chan, batch, worker, db, removed>>

\* A removal that failed restores the generation and gives up.
DisposeError(c) ==
  /\ At(c, "disposing") /\ reply[c] = "error"
  /\ inner' = [inner EXCEPT !.generation = ops[c].gen]
  /\ EndDispose(c)
  /\ TakeReply(c)
  /\ UNCHANGED <<sess, respawnQ, guard, env, chan, batch, worker, db, removed>>

DisposeFinish(c) ==
  /\ At(c, "dispose") /\ ops[c].left = {}
  /\ inner' = DisposeAll(inner)
  /\ sess' = TerminateLive(sess)
  /\ EndDispose(c)
  /\ hist' = [hist EXCEPT !.down = Ids]
  /\ UNCHANGED <<respawnQ, guard, phase, restoring, world, persistVars>>

-----------------------------------------------------------------------------

Request(c) ==
  \/ \E id \in world.ids : CreateCall(c, id) \/ Kill(c, id) \/ RemoveCall(c, id)
  \/ \E id \in world.ids, name \in Names : RenameCall(c, id, name)
  \/ DisposeCall(c)

RemoveStep(c) == RemoveSend(c) \/ RemoveDone(c)

CallStep(c) ==
  \/ CreateStep(c) \/ CreateRecheck(c) \/ CreateTargetLost(c)
  \/ RemoveStep(c) \/ RenameSend(c) \/ RenameDone(c)
  \/ DisposeStart(c) \/ DisposeRemove(c) \/ DisposeEvict(c)
  \/ DisposeError(c) \/ DisposeFinish(c)
=============================================================================
