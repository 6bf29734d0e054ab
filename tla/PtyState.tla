------------------------------ MODULE PtyState ------------------------------
(***************************************************************************)
(* The state of the PTY session manager (server/src/pty/manager.rs) and of *)
(* the tasks and threads around it, and the pieces their steps share.      *)
(* The steps are in PtyCalls (what clients ask for) and PtyTasks (readers, *)
(* supervisor, sweeper, server start and stop); PtyManager composes them.  *)
(***************************************************************************)
EXTENDS PtyInner

CONSTANTS Main,        \* the server's main task: restore at start, shutdown
          Sup,         \* the supervisor task
          Sweeper,     \* the cleanup task; one of Clients, it waits for replies
          NoOne,       \* an unlocked lock
          Worlds,      \* the surroundings an instance starts in
          MaxInc,      \* bound: highest incarnation that fits the instance
          RespawnCap,  \* slots of the respawn queue (256 in manager.rs)
          Fuel         \* bound: environment events in one behaviour

\* menu: what the environment does; callers, ids: who does it, and to which sessions;
\* fuel: how often.  The rest is what PersistWorker and PtyInner ask of it.
World == [menu : SUBSET STRING, policy : [Ids -> {"never", "on-failure", "always"}],
          targeted : SUBSET Ids, failing : SUBSET STRING,
          callers : SUBSET (Clients \ {Sweeper}), ids : SUBSET Ids, fuel : 0..Fuel]

ASSUME WorldsAssumption == Worlds \subseteq World

\* Locks are held by actors or by readers, which are named by their incarnation.
ASSUME ActorsAssumption ==
  /\ Sweeper \in Clients /\ {Main, Sup, NoOne} \cap Clients = {}
  /\ Main # Sup /\ NoOne \notin {Main, Sup}
  /\ \A x \in Clients \cup {Main, Sup, NoOne} : x \notin Nat

ASSUME BoundsAssumption ==
  MaxInc \in Nat /\ RespawnCap \in Nat /\ Fuel \in Nat /\ Ids # {}

Incs == 1..MaxInc
Menu == world.menu
Callers == Clients \ {Sweeper}
Actors == Clients \cup {Main, Sup}

VARIABLES inner,      \* Inner, under its own mutex
          sess,       \* what exists of each incarnation: child, reader, metadata
          ops,        \* where each caller or task is in its current operation
          respawnQ,   \* RespawnCmd channel
          lc,         \* LifecycleGate: permits held, disposing, closing
          gate,       \* persistence_gate: its holder
          guard,      \* workspace_context_guard: its holder
          phase,      \* of the server process
          restoring,  \* restore_sessions_inner: sessions left, persisted incarnation
          hist        \* history: ids the user took down, and for good; ids live at shutdown

locks == <<lc, gate, guard>>
env == <<phase, restoring, world, hist>>
vars == <<inner, sess, ops, respawnQ, locks, env, persistVars>>

Idle == [at |-> "idle"]
NotRestoring == [left |-> {}, inc |-> 0, name |-> NoName]

\* No PTY was ever opened for the incarnation.
NoSession == [id |-> CHOOSE id \in Ids : TRUE, name |-> NoName, gen |-> 0, count |-> 0,
              out |-> 0, child |-> "none", reader |-> "none", todo |-> <<>>,
              replaced |-> FALSE, muted |-> FALSE, told |-> FALSE, dropped |-> FALSE]

NewSession(id, name, gen, count) ==
  [NoSession EXCEPT !.id = id, !.name = name, !.gen = gen, !.count = count]

\* The process starts: everything in memory is new, the store is what it was.
Boot == /\ inner' = NewInner(advance_past(db))
        /\ sess' = [i \in Incs |-> NoSession]
        /\ ops' = [[a \in Actors |-> Idle] EXCEPT ![Main] = [at |-> "load"]]
        /\ respawnQ' = <<>>
        /\ lc' = [permits |-> {}, disposing |-> FALSE, closing |-> FALSE]
        /\ gate' = NoOne
        /\ guard' = NoOne
        /\ phase' = "boot"
        /\ restoring' = NotRestoring
        /\ hist' = [hist EXCEPT !.down = hist.gone]
        /\ PersistRestart
        /\ UNCHANGED <<db, removed>>

Init == /\ inner = NewInner(1)
        /\ sess = [i \in Incs |-> NoSession]
        /\ ops = [a \in Actors |-> Idle]
        /\ respawnQ = <<>>
        /\ lc = [permits |-> {}, disposing |-> FALSE, closing |-> FALSE]
        /\ gate = NoOne
        /\ guard = NoOne
        /\ phase = "serving"
        /\ restoring = NotRestoring
        /\ world \in Worlds
        /\ hist = [down |-> {}, gone |-> {}, atStop |-> {}]
        /\ PersistInit
        /\ db = [id \in Ids |-> EmptyEntry]
        /\ removed = [id \in Ids |-> 0]

-----------------------------------------------------------------------------
(* Shared pieces of the operations.                                        *)

At(a, pc) == ops[a].at = pc
Goto(a, op) == ops' = [ops EXCEPT ![a] = op]

\* The instance's bound on incarnations leaves one to hand out.
InBounds == inner.next \in Incs

\* LiveSession::terminate: the process group gets SIGKILL, the reader sees EOF.
Terminate(s, i) ==
  IF i # 0 /\ s[i].child = "running" THEN [s EXCEPT ![i].child = "killed"] ELSE s

TerminateLive(s) ==
  [i \in Incs |-> IF \E id \in Ids : inner.live[id] = i THEN Terminate(s, i)[i] ELSE s[i]]

Unlock(lock, a) == IF lock = a THEN NoOne ELSE lock

\* The guards of a function go out of scope: persistence gate and permit.
DropGates(a) == /\ gate' = Unlock(gate, a)
                /\ lc' = [lc EXCEPT !.permits = @ \ {a}]

Return(a, op) == /\ Goto(a, op)
                 /\ DropGates(a)
                 /\ guard' = Unlock(guard, a)

\* Send cmds one by one under the gate, then continue as op, with the workspace
\* guard if keep says so.
Sending(cmds, op, keep) == [at |-> "send", cmds |-> cmds, next |-> op, keep |-> keep]

SendNext(a) ==
  /\ At(a, "send") /\ ops[a].cmds # <<>>
  /\ Send(Head(ops[a].cmds))
  /\ ops' = [ops EXCEPT ![a].cmds = Tail(@)]
  /\ UNCHANGED <<inner, sess, respawnQ, locks, env, batch, worker, reply, db, removed>>

SendDone(a) ==
  /\ At(a, "send") /\ ops[a].cmds = <<>>
  /\ Goto(a, ops[a].next)
  /\ DropGates(a)
  /\ guard' = IF ops[a].keep THEN guard ELSE Unlock(guard, a)
  /\ UNCHANGED <<inner, sess, respawnQ, env, persistVars>>

\* An environment event of this kind may happen.
Happens(kind) == /\ kind \in Menu
                 /\ world.fuel > 0
                 /\ world' = [world EXCEPT !.fuel = @ - 1]

\* A client's request reaches the manager.
Call(c, kind) == /\ phase = "serving"
                 /\ At(c, "idle") /\ c \in world.callers
                 /\ Happens(kind)
                 /\ UNCHANGED <<phase, restoring>>
=============================================================================
