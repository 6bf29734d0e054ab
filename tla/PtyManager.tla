----------------------------- MODULE PtyManager -----------------------------
(***************************************************************************)
(* The PTY session manager with its clients, reader threads, supervisor,   *)
(* sweeper, persist worker and store, across restarts of the server, and   *)
(* what it promises.                                                       *)
(***************************************************************************)
EXTENDS PtyTasks

Work == WorkerStep /\ UNCHANGED <<inner, sess, ops, respawnQ, locks, env>>

\* Nobody has anything to do until the environment acts.
Quiet == /\ phase = "serving"
         /\ \A a \in Actors : At(a, "idle")
         /\ \A i \in Incs : /\ sess[i].reader \in {"none", "run", "done"}
                            /\ sess[i].reader = "run" => sess[i].child = "running"
         /\ respawnQ = <<>> /\ chan = <<>> /\ batch = {} /\ worker.at = "recv"

Rest == Quiet /\ UNCHANGED vars

Next == \/ \E c \in Callers : Request(c) \/ CallStep(c)
        \/ \E i \in Incs : ReaderOutput(i) \/ ReaderExit(i) \/ ReaderStep(i)
        \/ SupStep \/ SweepBegin \/ SweepStep
        \/ RestoreStep \/ ShutdownBegin \/ ShutdownStep \/ Crash
        \/ Work \/ Rest

Spec == Init /\ [][Next]_vars

\* A killed child's reader sees the end of its output.
ReaderReaps(i) == sess[i].child = "killed" /\ ReaderExit(i)

\* Threads and tasks are scheduled; requests, exits and crashes need not happen.
Fairness == /\ WF_vars(Work) /\ WF_vars(SupStep) /\ WF_vars(SweepStep)
            /\ WF_vars(RestoreStep) /\ WF_vars(ShutdownStep)
            /\ \A c \in Callers : WF_vars(CallStep(c))
            /\ \A i \in Incs : WF_vars(ReaderStep(i)) /\ WF_vars(ReaderReaps(i))

FairSpec == Spec /\ Fairness

-----------------------------------------------------------------------------
(* Invariants.                                                             *)

Command == [kind: {"SessionCreated", "SessionTargetUnavailableUpsert"}, id: Ids, inc: Incs,
            name: Names \cup {NoName}]
           \cup [kind: {"SessionExited", "SessionDead", "SessionTargetUnavailable"},
                 id: Ids, inc: Incs]
           \cup [kind: {"BufferUpdate"}, id: Ids, inc: Incs, total: 0..Fuel]
           \cup [kind: {"SessionRenamed"}, id: Ids, inc: Incs, name: Names, from: Clients]
           \cup [kind: {"SessionRemoved"}, id: Ids, inc: Incs, from: Clients]
           \cup {Shutdown}

\* Types, and the bounds the instance relies on: the allocator stays within MaxInc,
\* the channel within its capacity.
TypeOK ==
  /\ inner.live \in [Ids -> {0} \cup Incs] /\ inner.pending \in [Ids -> {0} \cup Incs]
  /\ inner.dead \in [Ids -> [inc: {0} \cup Incs, will: BOOLEAN, unavail: BOOLEAN]]
  /\ inner.failed \in [Ids -> [inc: {0} \cup Incs, unavail: BOOLEAN]]
  /\ inner.killed \subseteq Ids /\ inner.suppress \in [Ids -> Nat]
  /\ inner.next \in 1..(MaxInc + 1) /\ inner.generation \in Nat
  /\ \A i \in Incs : /\ sess[i].id \in Ids /\ sess[i].name \in Names \cup {NoName}
                     /\ sess[i].child \in {"none", "running", "killed", "gone"}
                     /\ sess[i].reader \in {"none", "run", "exit", "done"}
                     /\ sess[i].reader = "exit" => sess[i].todo # <<>>
  /\ lc.permits \subseteq Actors
  /\ gate \in Actors \cup Incs \cup {NoOne} /\ guard \in Actors \cup {NoOne}
  /\ Len(chan) <= ChannelCap /\ Len(respawnQ) <= RespawnCap
  /\ \A k \in 1..Len(chan) : chan[k] \in Command
  /\ reply \in [Clients -> Replies]
  /\ \A id \in Ids : db[id].inc \in {0} \cup Incs /\ db[id].removal \in {0} \cup Incs

\* What the user killed, removed or disposed of stays down until the user creates it
\* again, whatever create, respawn, sweep or restore was under way; a removal that
\* was acknowledged holds across a crash.
TakenDownStaysDown == \A id \in hist.down : inner.live[id] = 0

\* A child that runs is the live session of its id, or an operation that will publish
\* or kill it still has it in hand: no process is left behind.
NoOrphanProcess ==
  \A i \in Incs : sess[i].child = "running" =>
    \/ inner.live[sess[i].id] = i
    \/ \E a \in Actors : At(a, "publish") /\ ops[a].inc = i

\* The next incarnation is above everything the store holds or was told to delete,
\* so that no later session can be mistaken for an older one, restarts included.
AllocatorAhead == \A id \in Ids : /\ max_session_incarnation(db[id]) < inner.next
                                  /\ removed[id] < inner.next

\* Outside a dispose, whatever is live belongs to the current generation: nothing
\* created or respawned across a dispose survives it.
DisposeFence == ~lc.disposing =>
  \A id \in Ids : inner.live[id] # 0 => sess[inner.live[id]].gen = inner.generation

\* A tombstone that promises a restart has one coming: its reader has yet to ask for
\* it, the request is queued, or the supervisor is at it.  The user may have killed
\* the id meanwhile, a dispose be under way, or a full queue have dropped the request.
RestartPromised(id) ==
  LET i == inner.dead[id].inc
  IN  \/ id \in inner.killed \/ lc.disposing \/ sess[i].dropped
      \/ sess[i].reader = "exit" /\ \E k \in 1..Len(sess[i].todo) : sess[i].todo[k] = "respawn"
      \/ \E k \in 1..Len(respawnQ) : respawnQ[k].inc = i
      \/ ~At(Sup, "idle")

RestartPromiseBacked == \A id \in Ids : inner.dead[id].will => RestartPromised(id)

\* A failed rename is answered with an error; every other failed write is only logged.
WritesAreKept == Failing \subseteq {"SessionRenamed"}

\* When nothing is in flight and no write failed, the store agrees with memory on every
\* live session: a crash now would restore exactly it, under its current name.
LiveIsDurable == Quiet /\ WritesAreKept =>
  \A id \in Ids : inner.live[id] # 0 =>
    /\ Loadable(db[id]) /\ db[id].inc = inner.live[id]
    /\ db[id].name = sess[inner.live[id]].name

\* When nothing is in flight and no write failed, what is not live would not be
\* restored, unless its worktree is unavailable or its reader consumed another one's
\* suppression.
DeadIsDurable == Quiet /\ WritesAreKept =>
  \A id \in Ids : inner.live[id] = 0 /\ Loadable(db[id]) =>
    db[id].unavail \/ sess[db[id].inc].muted

\* When nothing is in flight, the tombstone of a lost worktree is in the store, under
\* its incarnation, where restore_sessions keeps it without starting anything.
UnavailableIsDurable == Quiet =>
  \A id \in Ids : inner.dead[id].unavail =>
    Loadable(db[id]) /\ db[id].unavail /\ db[id].inc = inner.dead[id].inc

\* The row of a session that exited, as long as its tombstone stands for the id,
\* ends up with its complete scrollback, whatever snapshots were dropped or batched.
FinalSnapshotDurable == Quiet =>
  \A id \in Ids : HasRow(db[id]) /\ ~db[id].alive /\ inner.dead[id].inc = db[id].inc
                 /\ sess[db[id].inc].reader = "done" /\ ~sess[db[id].inc].muted =>
    db[id].buf = [by |-> db[id].inc, total |-> sess[db[id].inc].out]

\* What memory shows at rest is what the store would bring back: the live sessions, the
\* dead ones, the tombstones of lost worktrees and the last scrollback, whatever order
\* readers, callers, sweeper and worker sent and wrote their commands in (the commands
\* of manager.rs go through the persistence gate, one after the other).
StoreMirrorsMemory == /\ LiveIsDurable /\ DeadIsDurable
                      /\ UnavailableIsDurable /\ FinalSnapshotDurable

\* Across crashes and restarts at any step: what was taken down stays down, incarnations
\* are never handed out twice, and once restore_sessions is done the store mirrors what
\* it brought back.
SurvivesRestart == /\ TypeOK /\ TakenDownStaysDown /\ AllocatorAhead
                   /\ LiveIsDurable /\ DeadIsDurable

\* Only the reader of a replaced session keeps its exit to itself.
OnlyReplacedMuted == \A i \in Incs : sess[i].muted => sess[i].replaced
-----------------------------------------------------------------------------
(* Refinement, action and liveness properties.                             *)

\* A session that was alive when the server was told to stop is restored.
RestoredAfterShutdown ==
  [][At(Main, "load") /\ ops'[Main].at = "restore" => hist.atStop \subseteq restoring'.left]_vars

\* The writes of worker and restore, seen from the store, are operations it offers,
\* so all that holds of the store whatever its callers do holds here.
Store == INSTANCE SessionStore WITH Totals <- 0..Fuel
StoreSpec == Store!Spec

\* Every call of a client returns: nobody waits for ever on a lock, a full channel,
\* the lifecycle drain or a reply.
CallsReturn == \A c \in Callers : ~At(c, "idle") ~> At(c, "idle")

\* A promised restart is kept or withdrawn, unless the user kills the id or the
\* request was dropped by a full queue.
RestartResolved == \A id \in Ids :
  inner.dead[id].will ~> \/ ~inner.dead[id].will \/ id \in inner.killed
                         \/ sess[inner.dead[id].inc].dropped

\* The reader of a killed child ends, its last commands sent.
KilledIsReaped == \A i \in Incs :
  sess[i].child = "killed" /\ sess[i].reader = "run" ~> sess[i].reader \in {"done", "none"}

\* The end of a process is always followed up: by its reader, and by the supervisor or
\* the withdrawal of the promise.
EndsAreFollowedUp == RestartResolved /\ KilledIsReaped

\* A shutdown ends and the server serves again.
ShutdownEnds == phase = "stopping" ~> phase = "serving"
=============================================================================
