------------------------------ MODULE PtyInner ------------------------------
(***************************************************************************)
(* struct Inner of server/src/pty/manager.rs as a record, and the methods  *)
(* and helpers that read or update it under its mutex, as operators from   *)
(* one Inner to the next.  An absent map key is the incarnation 0; what    *)
(* the code stores in a session (its metadata, its reader) is kept per     *)
(* incarnation in PtyManager.                                              *)
(***************************************************************************)
EXTENDS PersistWorker

CONSTANT MaxRetries  \* restart_max_retries

\* Ids whose sessions live in a git worktree, and the restart policy of each id.
Targeted == world.targeted
Policy == world.policy

NoTomb == [inc |-> 0, will |-> FALSE, unavail |-> FALSE]
NoFailed == [inc |-> 0, unavail |-> FALSE]

\* DeadSession::killed and ::exited; ::target_unavailable.
Tombstone(inc, will) == [inc |-> inc, will |-> will, unavail |-> FALSE]
UnavailableTombstone(inc) == [inc |-> inc, will |-> FALSE, unavail |-> TRUE]

\* Inner::new, with the allocator already advanced to next.
NewInner(next) ==
  [live |-> [id \in Ids |-> 0], dead |-> [id \in Ids |-> NoTomb],
   failed |-> [id \in Ids |-> NoFailed], pending |-> [id \in Ids |-> 0],
   killed |-> {}, suppress |-> [id \in Ids |-> 0],
   next |-> next, generation |-> 0, closing |-> FALSE]

\* Mutant: the allocator is not seeded from the store.
advance_past_Unseeded(store) == 1

\* with_persist: advance_past the store's max_session_incarnation.  The clock the
\* allocator starts from may have gone back, so only the store can be relied on.
advance_past(store) ==
  CHOOSE next \in {max_session_incarnation(store[id]) + 1 : id \in Ids} :
    \A id \in Ids : max_session_incarnation(store[id]) < next

allocate_incarnation(in) == [in EXCEPT !.next = @ + 1]

begin_replacement(in, id) ==
  [allocate_incarnation(in) EXCEPT !.failed[id] = NoFailed, !.pending[id] = in.next]

replacement_is_current(in, id, inc) == in.pending[id] = inc

finish_replacement(in, id, inc) ==
  IF replacement_is_current(in, id, inc) THEN [in EXCEPT !.pending[id] = 0] ELSE in

respawn_source_is_current(in, id, inc) ==
  id \notin in.killed /\ in.live[id] = 0 /\ in.dead[id].inc = inc

respawn_replacement_is_current(in, id, source, inc) ==
  respawn_source_is_current(in, id, source) /\ replacement_is_current(in, id, inc)

prune_killed_markers(in) ==
  [in EXCEPT !.killed = {id \in @ : \/ in.live[id] # 0 \/ in.dead[id].inc # 0
                                    \/ in.failed[id].inc # 0 \/ in.pending[id] # 0}]

\* IncarnationEventSink::with_current lets an event of this incarnation through.
with_current(in, id, inc) ==
  /\ in.pending[id] \in {0, inc}
  /\ IF in.live[id] # 0 THEN in.live[id] = inc ELSE in.dead[id].inc = inc

\* Mutant: an id without a live session is not marked killed.
kill_internal_impl_Unmarked(in, id, suppress_exit) ==
  IF in.live[id] = 0 THEN in
  ELSE [in EXCEPT !.killed = @ \cup {id}, !.pending[id] = 0, !.live[id] = 0,
                  !.dead[id] = Tombstone(in.live[id], FALSE),
                  !.suppress[id] = IF suppress_exit THEN @ + 1 ELSE @]

\* kill_internal_impl: the live session becomes a tombstone; a replaced one's
\* reader is told, through the per-id count, not to report its exit.
kill_internal_impl(in, id, suppress_exit) ==
  LET marked == [in EXCEPT !.killed = @ \cup {id}, !.pending[id] = 0]
  IN  IF in.live[id] = 0 THEN marked
      ELSE [marked EXCEPT !.live[id] = 0, !.dead[id] = Tombstone(in.live[id], FALSE),
                          !.suppress[id] = IF suppress_exit THEN @ + 1 ELSE @]

consume_suppressed_exit(in, id) ==
  IF in.suppress[id] = 0 THEN in ELSE [in EXCEPT !.suppress[id] = @ - 1]

\* remove_with_expected, after the durable removal.
RemoveIdentity(in, id) ==
  [in EXCEPT !.pending[id] = 0, !.failed[id] = NoFailed, !.killed = @ \cup {id},
             !.live[id] = 0, !.dead[id] = NoTomb]

\* The incarnation an id currently stands for: live, else dead, else failed.
CurrentIncarnation(in, id) ==
  IF in.live[id] # 0 THEN in.live[id]
  ELSE IF in.dead[id].inc # 0 THEN in.dead[id].inc ELSE in.failed[id].inc

evict_identity_after_durable_removal(in, id, inc) ==
  IF inc \notin {in.live[id], in.dead[id].inc, in.failed[id].inc} THEN in
  ELSE [in EXCEPT !.pending[id] = 0, !.killed = @ \cup {id},
                  !.live[id] = IF @ = inc THEN 0 ELSE @,
                  !.dead[id] = IF @.inc = inc THEN NoTomb ELSE @,
                  !.failed[id] = IF @.inc = inc THEN NoFailed ELSE @]

\* dispose_internal's last critical section.
DisposeAll(in) ==
  [in EXCEPT !.killed = @ \cup {id \in Ids : CurrentIncarnation(in, id) # 0},
             !.live = [id \in Ids |-> 0], !.dead = [id \in Ids |-> NoTomb],
             !.failed = [id \in Ids |-> NoFailed], !.pending = [id \in Ids |-> 0]]

\* stop_all_for_shutdown: the live sessions stay in the map for their readers.
stop_all_for_shutdown(in) ==
  [in EXCEPT !.killed = @ \cup {id \in Ids : in.live[id] # 0 \/ in.dead[id].inc # 0},
             !.failed = [id \in Ids |-> NoFailed], !.pending = [id \in Ids |-> 0]]

\* The identities dispose_internal removes durably: (id, incarnation) pairs.
Identities(in) ==
  {<<id, in.live[id]>> : id \in {i \in Ids : in.live[i] # 0}}
  \cup {<<id, in.dead[id].inc>> : id \in {i \in Ids : in.dead[i].inc # 0}}
  \cup {<<id, in.failed[id].inc>> : id \in {i \in Ids : in.failed[i].inc # 0}}

-----------------------------------------------------------------------------

decide_restart(policy, exit_code, was_killed, restart_count) ==
  /\ ~was_killed
  /\ restart_count < MaxRetries
  /\ policy = "always" \/ (policy = "on-failure" /\ exit_code # 0)

\* Persist the state a failure leaves behind for one incarnation.
FailureCmd(id, inc, unavail) ==
  IF unavail THEN SessionTargetUnavailable(id, inc) ELSE SessionDead(id, inc)

(***************************************************************************)
(* finish_failed_replacement_locked: the new Inner, and the commands to    *)
(* send.  has_meta says whether the caller passed failure metadata (create *)
(* does, respawn does not), preserve whether the id was unavailable.       *)
(***************************************************************************)
finish_failed_replacement_locked(in, id, inc, has_meta, preserve) ==
  LET done == finish_replacement(in, id, inc)
      old  == in.dead[id]
  IN  IF ~replacement_is_current(in, id, inc) \/ in.live[id] \notin {0, inc}
      THEN [inner |-> in, cmds |-> <<>>]
      ELSE IF in.live[id] = inc
      THEN [inner |-> [done EXCEPT !.live[id] = 0,
                         !.dead[id] = [inc |-> inc, will |-> FALSE, unavail |-> preserve]],
            cmds |-> <<FailureCmd(id, inc, preserve)>>]
      ELSE IF old.inc > inc \/ (old.inc = 0 /\ ~(has_meta /\ id \in Targeted))
      THEN [inner |-> done, cmds |-> <<>>]
      ELSE IF has_meta /\ id \in Targeted
      THEN [inner |-> [done EXCEPT !.dead[id] = NoTomb,
                         !.failed[id] = [inc |-> inc, unavail |-> preserve]],
            cmds |-> (IF old.inc = 0 THEN <<>> ELSE <<SessionDead(id, old.inc)>>)
                       \o <<FailureCmd(id, inc, preserve)>>]
      ELSE [inner |-> [done EXCEPT !.dead[id] = [old EXCEPT !.will = FALSE,
                                                 !.unavail = @ \/ preserve]],
            cmds |-> <<FailureCmd(id, old.inc, old.unavail \/ preserve)>>]

\* finish_respawn_source_failure: only while the source still owns the id.
finish_respawn_source_failure(in, id, source, lost) ==
  IF in.pending[id] # 0 \/ in.dead[id].inc # source
  THEN [inner |-> in, cmds |-> <<>>]
  ELSE LET unavail == in.dead[id].unavail \/ lost
       IN  [inner |-> [in EXCEPT !.dead[id] = [@ EXCEPT !.will = FALSE, !.unavail = unavail]],
            cmds |-> <<FailureCmd(id, source, unavail)>>]

(***************************************************************************)
(* mark_target_unavailable after a failed create: refused while the id is  *)
(* live or being replaced.                                                 *)
(***************************************************************************)
mark_target_unavailable(in, id, name) ==
  IF in.live[id] # 0 \/ in.pending[id] # 0 \/ CurrentIncarnation(in, id) = 0
  THEN [inner |-> in, cmds |-> <<>>]
  ELSE IF in.dead[id].inc # 0
  THEN [inner |-> [in EXCEPT !.dead[id] = UnavailableTombstone(@.inc)],
        cmds |-> <<SessionTargetUnavailable(id, in.dead[id].inc)>>]
  ELSE LET inc == in.failed[id].inc
       IN  [inner |-> [in EXCEPT !.failed[id] = NoFailed, !.dead[id] = UnavailableTombstone(inc)],
            cmds |-> <<SessionTargetUnavailableUpsert(id, inc, name)>>]

restore_unavailable_session(in, id, inc) ==
  [in EXCEPT !.live[id] = 0, !.pending[id] = 0, !.failed[id] = NoFailed,
             !.killed = @ \ {id}, !.dead[id] = UnavailableTombstone(inc)]
=============================================================================
