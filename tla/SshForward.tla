----------------------------- MODULE SshForward -----------------------------
(* SshForwardManager of the native app (ssh_forward/manager.rs): connect with *)
(* its timeout, disconnect, setRuleEnabled, scope activation, a new client    *)
(* and disposal, each a call that takes the manager's gates in the order the  *)
(* code takes them, and the rule workers that own the listeners and reconnect *)
(* the shared session. One scope and one connection profile.                  *)
EXTENDS SshRegistry, Sequences

CONSTANTS Callers,      \* concurrent commands of the webview
          SshMenu,      \* the commands each of them issues
          PoolSize,     \* identities in use at once: workers, sessions, tokens
          MaxAttempts,  \* reconnect.max_attempts
          SshFuel       \* bound: commands issued and transport losses

VARIABLES entry,      \* the ConnectionRegistry entry of the connection
          cancelled,  \* identities whose ConnectionCancellation fired
          workers,    \* the rule worker tasks
          calls,      \* the commands in progress
          gates,      \* holder of each gate; the lifecycle mutex is the entry's
          desired,    \* desired_enabled of each rule, on disk
          token,      \* ActivationIntent: client epoch and activation token
          scope,      \* generation of the active scope, 0 for none
          shutting,   \* shutting_down
          sshFuel

sshVars == <<entry, cancelled, workers, calls, gates, desired, token, scope, shutting, sshFuel>>

Pool == 1..PoolSize
None == "free"
Recon == -1
Cmd == -2
Intent == -3
Admit == -4
Life(x) == x          \* the lifecycle mutex of the entry with identity x
AllGates == {Recon, Cmd, Intent, Admit} \cup Pool

Idle == [pc |-> "idle", op |-> "none", want |-> <<>>, tok |-> 0, sgen |-> 0, exp |-> 0,
         gen |-> 0, cxl |-> 0, ses |-> NoSession, rule |-> "none", rexp |-> 0, rgen |-> 0,
         on |-> FALSE, todo |-> <<>>, plan |-> {}, back |-> "none", old |-> FALSE]
Gone == [pc |-> "gone", rule |-> "none", cgen |-> 0, rgen |-> 0, cxl |-> 0, sgen |-> 0,
         lost |-> NoSession, try |-> 0]
Listening(w) == workers[w].pc \notin {"gone", "release", "report"}
Told(w) == ~\E r \in Rules : /\ Present(entry) /\ entry.kids[r] # NoKid
                             /\ entry.kids[r].worker = w /\ entry.kids[r].stop

(* Identities are taken from a pool; one is fresh when nothing refers to it.   *)
UsedTokens   == {calls[c].cxl : c \in Callers} \cup {workers[w].cxl : w \in Pool}
                  \cup (IF Present(entry) THEN {entry.cxl} ELSE {})
UsedSessions == {calls[c].ses : c \in Callers} \cup {workers[w].lost : w \in Pool}
                  \cup (IF Present(entry) THEN {entry.ses, entry.slot} ELSE {})
UsedWorkers  == {w \in Pool : workers[w].pc # "gone"} \cup Workers(entry)
                  \cup UNION {calls[c].plan : c \in Callers}
First(S) == CHOOSE x \in S : \A y \in S : x <= y
FreshToken   == First(Pool \ UsedTokens)
FreshSession == First(Pool \ UsedSessions)
FreshWorker  == First(Pool \ UsedWorkers)

SshInit ==
  /\ entry = NoEntry /\ cancelled = {} /\ workers = [w \in Pool |-> Gone]
  /\ calls = [c \in Callers |-> Idle] /\ gates = [g \in AllGates |-> None]
  /\ desired \in [Rules -> BOOLEAN]
  /\ token = 1 /\ scope = 1 /\ shutting = FALSE /\ sshFuel = SshFuel

----------------------------------------------------------------------------
(* Gates. A call lists the gates it needs next, in order, and takes them one  *)
(* at a time; the step that uses them runs when it holds them all.            *)
Held(c) == {g \in AllGates : gates[g] = c}
FreeAll(c) == [g \in AllGates |-> IF gates[g] = c THEN None ELSE gates[g]]
FreeBut(c, keep) == [g \in AllGates |-> IF gates[g] = c /\ g \notin keep THEN None ELSE gates[g]]

Acquire(c) ==
  /\ calls[c].want # <<>>
  /\ gates[Head(calls[c].want)] = None
  /\ gates' = [gates EXCEPT ![Head(calls[c].want)] = c]
  /\ calls' = [calls EXCEPT ![c].want = Tail(@)]
  /\ UNCHANGED <<entry, cancelled, workers, desired, token, scope, shutting, sshFuel>>

Ready(c, pc) == calls[c].pc = pc /\ calls[c].want = <<>>
checked_scope(c) == ~shutting /\ calls[c].tok = token /\ scope # 0 /\ calls[c].sgen = scope
Goto(c, pc, want) == calls' = [calls EXCEPT ![c].pc = pc, ![c].want = want]
Return(c) == calls' = [calls EXCEPT ![c] = Idle] /\ gates' = FreeAll(c)

(* fail_connection and fail_reconnect cancel the entry they bring down.       *)
CancelIfDown(e) == IF Present(e) /\ e.st = "disconnected" THEN cancelled \cup {e.cxl} ELSE cancelled

(* A change of the session slot wakes the workers parked on it.               *)
Wake(ws, x) == [w \in Pool |-> IF ws[w].pc = "park" /\ ws[w].cxl = x
                               THEN [ws[w] EXCEPT !.pc = "seek"] ELSE ws[w]]
Abort(ws, S) == [w \in Pool |-> IF w \in S THEN Gone ELSE ws[w]]

(* A command arrives with the generations of the snapshot the client last saw. *)
Command(c, op, r, b) ==
  /\ calls[c] = Idle /\ sshFuel > 0 /\ op \in SshMenu[c] /\ ~shutting
  /\ sshFuel' = sshFuel - 1
  /\ calls' = [calls EXCEPT ![c] =
       [Idle EXCEPT !.op = op, !.tok = token, !.sgen = scope, !.rule = r, !.on = b,
                    !.exp = connection_generation(entry),
                    !.rexp = IF r \in Rules THEN rule_generation(entry, r) ELSE 0,
                    !.pc = CASE op = "connect"    -> "reserve"
                             [] op = "disconnect" -> "cancel"
                             [] op = "set"        -> "intend"
                             [] op \in {"activate", "leave", "open"} -> "admit",
                    !.want = CASE op = "connect"    -> <<Cmd, Intent, Admit>>
                               [] op = "disconnect" -> <<Cmd, Admit>>
                               [] op = "set"        -> <<Recon, Cmd>>
                               [] op \in {"activate", "leave", "open"} -> <<Intent>>]]
  /\ UNCHANGED <<entry, cancelled, workers, gates, desired, token, scope, shutting>>

----------------------------------------------------------------------------
(* connect_connection. The reservation is made under three gates; the          *)
(* handshake holds only the entry's lifecycle mutex.                          *)
ConnectReserve(c) ==
  /\ Ready(c, "reserve")
  /\ IF ~checked_scope(c) \/ Admission(entry, calls[c].exp) \in {"stale", "busy"}
        \/ (Admission(entry, calls[c].exp) = "reserved" /\ calls[c].exp = MaxGen)
     THEN Return(c) /\ UNCHANGED <<entry, cancelled>>
     ELSE IF Admission(entry, calls[c].exp) = "current"
     THEN /\ calls' = [calls EXCEPT ![c].pc = "reconcile", ![c].want = <<Recon>>,
                                    ![c].gen = entry.gen, ![c].back = "finalize"]
          /\ gates' = FreeAll(c) /\ UNCHANGED <<entry, cancelled>>
     ELSE LET x == FreshToken IN
             /\ entry' = reserve_connection(calls[c].exp, x)
             /\ cancelled' = cancelled \ {x}
             /\ calls' = [calls EXCEPT ![c].pc = "handshake", ![c].want = <<Life(x)>>,
                                       ![c].gen = calls[c].exp + 1, ![c].cxl = x]
             /\ gates' = FreeAll(c)
  /\ UNCHANGED <<workers, desired, token, scope, shutting, sshFuel>>

(* The handshake fails, is cancelled, or yields a session.                    *)
ConnectHandshake(c) ==
  /\ Ready(c, "handshake")
  /\ \/ /\ calls[c].cxl \notin cancelled /\ ~shutting
        /\ calls' = [calls EXCEPT ![c].pc = "handshaken", ![c].ses = FreshSession]
        /\ UNCHANGED <<entry, cancelled, gates>>
     \/ /\ entry' = IF shutting THEN discard_connection(entry, calls[c].gen)
                    ELSE fail_connection(entry, calls[c].gen).e
        /\ cancelled' = CancelIfDown(entry')
        /\ Return(c)
  /\ UNCHANGED <<workers, desired, token, scope, shutting, sshFuel>>

(* Cancelled or shut down meanwhile: the session is closed, and kept by the    *)
(* entry when closing fails. Otherwise the lifecycle mutex is dropped and the  *)
(* commit takes intent, admission and the mutex of whatever entry is there.    *)
ConnectRecheck(c) ==
  /\ Ready(c, "handshaken")
  /\ IF shutting \/ calls[c].cxl \in cancelled
     THEN /\ \E closed \in BOOLEAN :
               LET kept == retain_authenticating_session(entry, calls[c].gen, calls[c].ses) IN
               entry' = IF ~closed /\ kept.ok THEN kept.e
                        ELSE IF shutting THEN discard_connection(entry, calls[c].gen)
                        ELSE fail_connection(entry, calls[c].gen).e
          /\ cancelled' = CancelIfDown(entry')
          /\ Return(c)
     ELSE /\ gates' = FreeAll(c) /\ Goto(c, "locate", <<Intent, Admit>>)
          /\ UNCHANGED <<entry, cancelled>>
  /\ UNCHANGED <<workers, desired, token, scope, shutting, sshFuel>>

ConnectLocate(c) ==
  /\ Ready(c, "locate")
  /\ IF Present(entry) THEN Goto(c, "commit", <<Life(entry.cxl)>>) /\ UNCHANGED gates
                       ELSE Return(c)
  /\ UNCHANGED <<entry, cancelled, workers, desired, token, scope, shutting, sshFuel>>

ConnectCommit(c) ==
  /\ Ready(c, "commit")
  /\ LET done == commit_established(entry, calls[c].gen, calls[c].ses, cancelled)
         kept == retain_authenticating_session(entry, calls[c].gen, calls[c].ses) IN
     IF checked_scope(c) /\ done.ok
     THEN /\ entry' = done.e
          /\ workers' = Wake(workers, done.e.cxl)
          /\ gates' = FreeAll(c)
          /\ calls' = [calls EXCEPT ![c].pc = "reconcile", ![c].want = <<Recon>>,
                                    ![c].cxl = 0, ![c].ses = NoSession, ![c].back = "finalize"]
     ELSE /\ \E closed \in BOOLEAN :
               entry' = IF ~closed /\ kept.ok THEN kept.e
                        ELSE discard_connection(entry, calls[c].gen)
          /\ Return(c) /\ UNCHANGED workers
  /\ UNCHANGED <<cancelled, desired, token, scope, shutting, sshFuel>>

(* finalize_established_connection only reads what it answers.                *)
ConnectFinalize(c) ==
  /\ Ready(c, "finalize")
  /\ Return(c)
  /\ UNCHANGED <<entry, cancelled, workers, desired, token, scope, shutting, sshFuel>>

(* connect_with_timeout drops the future wherever it waits: its gates are      *)
(* freed, an armed reservation guard discards its entry, a rule it was opening *)
(* stays as it is.                                                            *)
ConnectTimeout(c) ==
  /\ calls[c].op = "connect" /\ "timeout" \in SshMenu[c]
  /\ calls[c].pc \notin {"expired", "sweep", "closing"}
  /\ entry' = IF calls[c].cxl # 0
              THEN discard_connection_if_matches(entry, calls[c].gen, calls[c].cxl) ELSE entry
  /\ calls' = [calls EXCEPT ![c] = [Idle EXCEPT !.op = "connect", !.exp = calls[c].exp,
                                                !.pc = "expired"]]
  /\ gates' = FreeAll(c)
  /\ UNCHANGED <<cancelled, workers, desired, token, scope, shutting, sshFuel>>

(* cleanup_timed_out_connection: the entry is recognised by its generation.   *)
CleanupFind(c) ==
  /\ Ready(c, "expired")
  /\ IF At(entry, calls[c].exp + 1)
     THEN /\ cancelled' = cancelled \cup {entry.cxl}
          /\ calls' = [calls EXCEPT ![c].pc = "sweep", ![c].gen = entry.gen, ![c].cxl = entry.cxl,
                                    ![c].want = <<Admit, Life(entry.cxl)>>]
          /\ UNCHANGED gates
     ELSE Return(c) /\ UNCHANGED cancelled
  /\ UNCHANGED <<entry, workers, desired, token, scope, shutting, sshFuel>>

CleanupGiveUp(c) ==
  /\ calls[c].pc = "sweep" /\ calls[c].want # <<>>
  /\ gates[Head(calls[c].want)] # None
  /\ Return(c)
  /\ UNCHANGED <<entry, cancelled, workers, desired, token, scope, shutting, sshFuel>>

CleanupBegin(c) ==
  /\ Ready(c, "sweep")
  /\ IF /\ At(entry, calls[c].gen) /\ entry.cxl = calls[c].cxl /\ entry.st # "disconnected"
        /\ CanAdvance(entry)
     THEN /\ entry' = begin_disconnect(entry)
          /\ workers' = Wake(workers, entry.cxl)
          /\ calls' = [calls EXCEPT ![c].pc = "closing", ![c].gen = entry.gen + 1,
                                    ![c].plan = Workers(entry), ![c].ses = entry.ses,
                                    ![c].back = "cleaned"]
          /\ UNCHANGED gates
     ELSE Return(c) /\ UNCHANGED <<entry, workers>>
  /\ UNCHANGED <<cancelled, desired, token, scope, shutting, sshFuel>>

----------------------------------------------------------------------------
(* disconnect_connection.                                                     *)
DisconnectCancel(c) ==
  /\ Ready(c, "cancel")
  /\ IF checked_scope(c) /\ At(entry, calls[c].exp)
     THEN /\ cancelled' = cancelled \cup {entry.cxl}
          /\ Goto(c, "begin", <<Life(entry.cxl)>>) /\ UNCHANGED gates
     ELSE Return(c) /\ UNCHANGED cancelled
  /\ UNCHANGED <<entry, workers, desired, token, scope, shutting, sshFuel>>

\* Mutant: a connection that is already disconnected is taken down again.
DisconnectBegin_Again(c) ==
  /\ Ready(c, "begin")
  /\ IF At(entry, calls[c].exp) /\ CanAdvance(entry)
     THEN /\ entry' = begin_disconnect(entry)
          /\ workers' = Wake(workers, entry.cxl)
          /\ calls' = [calls EXCEPT ![c].pc = "closing", ![c].gen = entry.gen + 1,
                                    ![c].plan = Workers(entry), ![c].ses = entry.ses,
                                    ![c].back = "disconnected"]
          /\ UNCHANGED gates
     ELSE Return(c) /\ UNCHANGED <<entry, workers>>
  /\ UNCHANGED <<cancelled, desired, token, scope, shutting, sshFuel>>

DisconnectBegin(c) ==
  /\ Ready(c, "begin")
  /\ IF At(entry, calls[c].exp) /\ entry.st # "disconnected" /\ CanAdvance(entry)
     THEN /\ entry' = begin_disconnect(entry)
          /\ workers' = Wake(workers, entry.cxl)
          /\ calls' = [calls EXCEPT ![c].pc = "closing", ![c].gen = entry.gen + 1,
                                    ![c].plan = Workers(entry), ![c].ses = entry.ses,
                                    ![c].back = "disconnected"]
          /\ UNCHANGED gates
     ELSE Return(c) /\ UNCHANGED <<entry, workers>>
  /\ UNCHANGED <<cancelled, desired, token, scope, shutting, sshFuel>>

(* close_disconnect_plan: wait for the workers of the plan, abort them at the  *)
(* deadline, then close the session, which may fail and is then retained.      *)
CloseDone(e, how) == IF how = "disconnected" THEN e ELSE clear_if_disconnected(e)
ClosePlan(c) ==
  /\ Ready(c, "closing")
  /\ LET kept == retain_disconnect_session(entry, calls[c].gen, calls[c].ses)
         done == finish_disconnect(entry, calls[c].gen)
         all  == IF calls[c].back = "stopped" THEN Pool ELSE calls[c].plan IN
     \E closed \in BOOLEAN :
       /\ ~closed => calls[c].ses # NoSession
       /\ entry' = IF closed THEN CloseDone(done.e, calls[c].back) ELSE kept.e
       /\ workers' = Abort(workers, all)
       /\ IF calls[c].back = "stopped"
          THEN /\ calls' = [calls EXCEPT ![c].pc = IF closed THEN "stopped" ELSE "stop_failed",
                                         ![c].plan = {}, ![c].ses = NoSession]
               /\ gates' = FreeBut(c, {Cmd})
          ELSE Return(c)
  /\ UNCHANGED <<cancelled, desired, token, scope, shutting, sshFuel>>

----------------------------------------------------------------------------
(* enable_rule_impl. The command gate is taken unless set_rule_enabled holds   *)
(* it; a call says which by its operation.                                    *)
OwnGates(c) == IF calls[c].op = "set" THEN {Recon, Cmd} ELSE {Recon}
EnableWant(c) == IF calls[c].op = "set" THEN <<Intent>> ELSE <<Cmd, Intent>>
EnableEnd(c, ok) ==
  /\ calls' = [calls EXCEPT ![c].pc = IF calls[c].op = "set" THEN (IF ok THEN "settled" ELSE "undo")
                                      ELSE "next",
                            ![c].want = <<>>, ![c].ses = NoSession]
  /\ gates' = FreeBut(c, OwnGates(c))

EnableCheck(c) ==
  /\ Ready(c, "enable")
  /\ IF checked_scope(c) /\ Present(entry)
     THEN Goto(c, "reserve_rule", <<Life(entry.cxl)>>) /\ UNCHANGED gates
     ELSE EnableEnd(c, FALSE)
  /\ UNCHANGED <<entry, cancelled, workers, desired, token, scope, shutting, sshFuel>>

EnableReserve(c) ==
  /\ Ready(c, "reserve_rule")
  /\ LET ans == RuleAdmission(entry, calls[c].gen, calls[c].rule, calls[c].rexp, cancelled) IN
     \/ /\ ans = "refused" \/ (ans = "reserved" /\ calls[c].rexp = MaxGen)
        /\ EnableEnd(c, FALSE) /\ UNCHANGED entry
     \/ ans = "current" /\ EnableEnd(c, TRUE) /\ UNCHANGED entry
     \/ /\ ans = "in_progress" /\ UNCHANGED entry
        /\ Goto(c, "await_rule", <<>>) /\ gates' = FreeBut(c, OwnGates(c))
     \/ /\ ans = "reserved" /\ calls[c].rexp < MaxGen
        /\ entry' = reserve_rule(entry, calls[c].rule, calls[c].rexp)
        /\ calls' = [calls EXCEPT ![c].pc = "bind", ![c].want = <<>>, ![c].rgen = calls[c].rexp + 1]
        /\ gates' = FreeBut(c, OwnGates(c))
  /\ UNCHANGED <<cancelled, workers, desired, token, scope, shutting, sshFuel>>

(* InProgress: wait for the child to change, then try again.                  *)
EnableAwait(c) ==
  /\ Ready(c, "await_rule")
  /\ ~(/\ Present(entry) /\ KidAt(entry, calls[c].rule, calls[c].rexp)
       /\ entry.kids[calls[c].rule].st \in {"opening", "closing"})
  /\ Goto(c, "enable", EnableWant(c))
  /\ UNCHANGED <<entry, cancelled, workers, gates, desired, token, scope, shutting, sshFuel>>

(* Binding fails while another task listens on the port, or for any reason.   *)
EnableBind(c) ==
  /\ Ready(c, "bind")
  /\ \/ /\ ~\E w \in Pool : Listening(w) /\ workers[w].rule = calls[c].rule
        /\ Goto(c, "spawn", EnableWant(c)) /\ UNCHANGED <<entry, gates>>
     \/ /\ entry' = fail_rule(entry, calls[c].gen, calls[c].rule, calls[c].rgen).e
        /\ EnableEnd(c, FALSE)
  /\ UNCHANGED <<cancelled, workers, desired, token, scope, shutting, sshFuel>>

EnableSpawn(c) ==
  /\ Ready(c, "spawn")
  /\ LET w == FreshWorker
         done == commit_rule(entry, calls[c].gen, calls[c].rule, calls[c].rgen, w, cancelled) IN
     IF checked_scope(c) /\ done.ok
     THEN /\ entry' = done.e
          /\ workers' = [workers EXCEPT ![w] = [Gone EXCEPT !.pc = "run", !.rule = calls[c].rule,
               !.cgen = calls[c].gen, !.rgen = calls[c].rgen, !.cxl = entry.cxl, !.sgen = calls[c].sgen]]
          /\ EnableEnd(c, TRUE)
     ELSE /\ entry' = fail_rule(entry, calls[c].gen, calls[c].rule, calls[c].rgen).e
          /\ EnableEnd(c, FALSE) /\ UNCHANGED workers
  /\ UNCHANGED <<cancelled, desired, token, scope, shutting, sshFuel>>

(* disable_rule: the worker of the plan is joined, or aborted at the deadline, *)
(* under the lifecycle mutex.                                                 *)
DisableEnd(c, ok) ==
  /\ calls' = [calls EXCEPT ![c].pc = IF calls[c].op = "set" THEN (IF ok THEN "settled" ELSE "undo")
                                      ELSE IF ok THEN "forget" ELSE "next",
                            ![c].want = <<>>, ![c].plan = {}]
  /\ gates' = FreeBut(c, OwnGates(c))

DisableCheck(c) ==
  /\ Ready(c, "disable")
  /\ IF checked_scope(c) /\ Present(entry)
     THEN Goto(c, "begin_disable", <<Life(entry.cxl)>>) /\ UNCHANGED gates
     ELSE DisableEnd(c, FALSE)
  /\ UNCHANGED <<entry, cancelled, workers, desired, token, scope, shutting, sshFuel>>

DisableBegin(c) ==
  /\ Ready(c, "begin_disable")
  /\ LET ans == DisableAnswer(entry, calls[c].gen, calls[c].rule, calls[c].rexp) IN
     \/ /\ ans \in {"refused", "none"} \/ calls[c].rexp = MaxGen
        /\ DisableEnd(c, ans = "none") /\ UNCHANGED entry
     \/ /\ ans = "plan" /\ calls[c].rexp < MaxGen
        /\ entry' = begin_disable_rule(entry, calls[c].rule)
        /\ calls' = [calls EXCEPT ![c].pc = "join", ![c].rgen = calls[c].rexp + 1,
                                  ![c].plan = {entry.kids[calls[c].rule].worker} \ {0}]
        /\ UNCHANGED gates
  /\ UNCHANGED <<cancelled, workers, desired, token, scope, shutting, sshFuel>>

DisableFinish(c) ==
  /\ Ready(c, "join")
  /\ LET done == finish_disable_rule(entry, calls[c].gen, calls[c].rule, calls[c].rgen) IN
     entry' = done.e /\ DisableEnd(c, done.ok)
  /\ workers' = Abort(workers, calls[c].plan)
  /\ UNCHANGED <<cancelled, desired, token, scope, shutting, sshFuel>>

----------------------------------------------------------------------------
(* enable_desired_rules: under the reconciliation gate, live rules no longer   *)
(* desired are disabled and removed, then the desired ones are enabled.        *)
Order(S) == CHOOSE q \in [1..Cardinality(S) -> S] : {q[i] : i \in DOMAIN q} = S
Reconcile(c) ==
  /\ Ready(c, "reconcile")
  /\ IF ~checked_scope(c) \/ ~Present(entry)
     THEN /\ Goto(c, "finalize", <<Cmd, Admit>>) /\ gates' = FreeAll(c)
     ELSE LET stale == {r \in Rules : entry.kids[r] # NoKid /\ ~desired[r]}
              want  == {r \in Rules : desired[r]} IN
          /\ calls' = [calls EXCEPT ![c].pc = "next", ![c].want = <<>>,
               ![c].todo = [i \in 1..Cardinality(stale) |->
                              [op |-> "disable", rule |-> Order(stale)[i],
                               gen |-> entry.kids[Order(stale)[i]].gen]]
                           \o [i \in 1..Cardinality(want) |->
                              [op |-> "enable", rule |-> Order(want)[i], gen |-> 0]]]
          /\ UNCHANGED gates
  /\ UNCHANGED <<entry, cancelled, workers, desired, token, scope, shutting, sshFuel>>

ReconcileNext(c) ==
  /\ Ready(c, "next")
  /\ IF calls[c].todo = <<>>
     THEN Goto(c, "finalize", <<Cmd, Admit>>) /\ gates' = FreeAll(c)
     ELSE LET job == Head(calls[c].todo) IN
          /\ calls' = [calls EXCEPT ![c].todo = Tail(@), ![c].pc = job.op, ![c].rule = job.rule,
               ![c].rexp = IF job.op = "disable" THEN job.gen ELSE rule_generation(entry, job.rule),
               ![c].want = IF job.op = "disable" THEN <<>> ELSE EnableWant(c)]
          /\ UNCHANGED gates
  /\ UNCHANGED <<entry, cancelled, workers, desired, token, scope, shutting, sshFuel>>

ReconcileForget(c) ==
  /\ Ready(c, "forget")
  /\ entry' = remove_rule(entry, calls[c].gen, calls[c].rule).e
  /\ Goto(c, "next", <<>>)
  /\ UNCHANGED <<cancelled, workers, gates, desired, token, scope, shutting, sshFuel>>

----------------------------------------------------------------------------
(* set_rule_enabled: the intent is stored first, then applied if the           *)
(* connection is established, and undone if applying it fails.                *)
SetIntend(c) ==
  /\ Ready(c, "intend")
  /\ IF checked_scope(c) /\ connection_generation(entry) = calls[c].exp
     THEN \/ Return(c) /\ UNCHANGED desired                      \* the store refuses
          \/ /\ desired' = [desired EXCEPT ![calls[c].rule] = calls[c].on]
             /\ IF ensure_established(entry, calls[c].exp)
                THEN /\ calls' = [calls EXCEPT
                          ![c].pc = IF calls[c].on THEN "enable" ELSE "disable",
                          ![c].want = IF calls[c].on THEN <<Intent>> ELSE <<>>,
                          ![c].gen = calls[c].exp, ![c].old = desired[calls[c].rule]]
                     /\ UNCHANGED gates
                ELSE Return(c)
     ELSE Return(c) /\ UNCHANGED desired
  /\ UNCHANGED <<entry, cancelled, workers, token, scope, shutting, sshFuel>>

SetUndo(c) ==
  /\ Ready(c, "undo")
  /\ \/ desired' = [desired EXCEPT ![calls[c].rule] = calls[c].old]
     \/ UNCHANGED desired
  /\ Return(c)
  /\ UNCHANGED <<entry, cancelled, workers, token, scope, shutting, sshFuel>>

SetDone(c) ==
  /\ Ready(c, "settled") /\ Return(c)
  /\ UNCHANGED <<entry, cancelled, workers, desired, token, scope, shutting, sshFuel>>

----------------------------------------------------------------------------
(* activate_scope (the scope or none) and open_client: the intent supersedes   *)
(* every earlier command at once, then all connections are stopped under the   *)
(* command gate before the scope changes.                                     *)
AdmitIntent(c) ==
  /\ Ready(c, "admit")
  /\ IF shutting THEN Return(c) /\ UNCHANGED token
     ELSE /\ token' = token + 1
          /\ calls' = [calls EXCEPT ![c].pc = "replace", ![c].want = <<Cmd>>,
                                    ![c].tok = token + 1, ![c].sgen = IF scope = 0 THEN 1 ELSE 0]
          /\ gates' = FreeAll(c)
  /\ UNCHANGED <<entry, cancelled, workers, desired, scope, shutting, sshFuel>>

(* Nothing is stopped when the active scope is already the wanted one.        *)
SameScope(c) == calls[c].op = "activate" /\ scope # 0
ScopeReplace(c) ==
  /\ Ready(c, "replace")
  /\ IF shutting \/ (calls[c].op # "open" /\ calls[c].tok # token) \/ SameScope(c)
     THEN Return(c)
     ELSE Goto(c, "stop", <<Admit>>) /\ UNCHANGED gates
  /\ UNCHANGED <<entry, cancelled, workers, desired, token, scope, shutting, sshFuel>>

(* stop_all_connections: cancel, then begin_disconnect under the lifecycle.   *)
StopCancel(c) ==
  /\ Ready(c, "stop")
  /\ IF Present(entry)
     THEN /\ cancelled' = cancelled \cup {entry.cxl}
          /\ calls' = [calls EXCEPT ![c].pc = "stop_begin", ![c].want = <<Life(entry.cxl)>>,
                                    ![c].gen = entry.gen]
          /\ UNCHANGED <<workers, gates>>
     ELSE /\ Goto(c, "stopped", <<>>) /\ gates' = FreeBut(c, {Cmd})
          /\ workers' = Abort(workers, Pool) /\ UNCHANGED cancelled
  /\ UNCHANGED <<entry, desired, token, scope, shutting, sshFuel>>

StopBegin(c) ==
  /\ Ready(c, "stop_begin")
  /\ IF At(entry, calls[c].gen) /\ entry.st # "disconnected" /\ CanAdvance(entry)
     THEN /\ entry' = begin_disconnect(entry)
          /\ workers' = Wake(workers, entry.cxl)
          /\ calls' = [calls EXCEPT ![c].pc = "closing", ![c].gen = entry.gen + 1,
                                    ![c].plan = Workers(entry), ![c].ses = entry.ses,
                                    ![c].back = "stopped"]
          /\ UNCHANGED gates
     ELSE /\ entry' = clear_if_disconnected(entry)
          /\ workers' = Abort(workers, Pool)
          /\ Goto(c, IF At(entry, calls[c].gen) /\ entry.st = "disconnected" THEN "stopped" ELSE "stop_failed", <<>>)
          /\ gates' = FreeBut(c, {Cmd})
  /\ UNCHANGED <<cancelled, desired, token, scope, shutting, sshFuel>>

(* After the stop: a disposal or a new client is done; an activation commits   *)
(* under the intent gate, if it is still the latest.                          *)
ScopeStopped(c) ==
  /\ calls[c].pc \in {"stopped", "stop_failed"}
  /\ IF calls[c].op = "dispose"
     THEN scope' = 0 /\ Return(c)
     ELSE /\ IF calls[c].op = "open" \/ calls[c].pc = "stop_failed" \/ shutting \/ calls[c].tok # token
             THEN Return(c)
             ELSE Goto(c, "commit_scope", <<Intent>>) /\ UNCHANGED gates
          /\ UNCHANGED scope
  /\ UNCHANGED <<entry, cancelled, workers, desired, token, shutting, sshFuel>>

commit_scope(c) ==
  /\ Ready(c, "commit_scope")
  /\ scope' = IF calls[c].tok # token THEN scope ELSE IF calls[c].op = "leave" THEN 0 ELSE calls[c].sgen
  /\ Return(c)
  /\ UNCHANGED <<entry, cancelled, workers, desired, token, shutting, sshFuel>>

(* dispose: the flag stops every command at its next check.                   *)
Dispose(c) ==
  /\ calls[c] = Idle /\ "dispose" \in SshMenu[c] /\ ~shutting
  /\ shutting' = TRUE
  /\ calls' = [calls EXCEPT ![c] = [Idle EXCEPT !.op = "dispose", !.pc = "stop",
                                                !.want = <<Cmd, Admit>>]]
  /\ UNCHANGED <<entry, cancelled, workers, gates, desired, token, scope, sshFuel>>

----------------------------------------------------------------------------
(* run_rule_worker and reconnect_v2_connection.                               *)
Step(w, pc) == workers' = [workers EXCEPT ![w].pc = pc]
Slot(w) == IF Present(entry) /\ entry.cxl = workers[w].cxl THEN entry.slot ELSE NoSession
WorkerUnchanged == UNCHANGED <<calls, gates, desired, token, scope, shutting>>

(* The serving loop ends when told to stop or when accepting fails.           *)
WorkerLeave(w) ==
  /\ workers[w].pc = "run" /\ (Told(w) \/ sshFuel > 0)
  /\ sshFuel' = IF Told(w) THEN sshFuel ELSE sshFuel - 1
  /\ Step(w, "release") /\ UNCHANGED <<entry, cancelled>> /\ WorkerUnchanged

(* A channel or the keepalive fails: the session is gone for this worker.     *)
WorkerLoses(w) ==
  /\ workers[w].pc = "run" /\ Slot(w) # NoSession /\ sshFuel > 0
  /\ workers' = [workers EXCEPT ![w].pc = "lost", ![w].lost = Slot(w)]
  /\ sshFuel' = sshFuel - 1
  /\ UNCHANGED <<entry, cancelled>> /\ WorkerUnchanged

WorkerClears(w) ==
  /\ workers[w].pc = "lost"
  /\ LET mine == Slot(w) = workers[w].lost
         next == [workers EXCEPT ![w].pc = IF ~mine /\ Slot(w) # NoSession THEN "run" ELSE "seek",
                                 ![w].lost = NoSession] IN
     /\ entry' = IF mine THEN [entry EXCEPT !.slot = NoSession] ELSE entry
     /\ workers' = IF mine THEN Wake(next, workers[w].cxl) ELSE next
  /\ UNCHANGED <<cancelled, sshFuel>> /\ WorkerUnchanged

WorkerIdleSeek(w) ==
  /\ workers[w].pc = "run" /\ Slot(w) = NoSession
  /\ Step(w, "seek") /\ UNCHANGED <<entry, cancelled, sshFuel>> /\ WorkerUnchanged

WorkerSeek(w) ==
  /\ workers[w].pc = "seek"
  /\ IF Slot(w) # NoSession THEN Step(w, "run") /\ UNCHANGED entry
     ELSE IF CanReconnect(entry, workers[w].cgen)
     THEN /\ entry' = begin_reconnect(entry, workers[w].rule)
          /\ workers' = Wake([workers EXCEPT ![w].pc = IF PolicyEnabled(entry) /\ scope = workers[w].sgen
                                                       THEN "attempt" ELSE "fail",
                                             ![w].try = 1], entry.cxl)
     ELSE /\ Step(w, IF At(entry, workers[w].cgen) THEN "recheck" ELSE "release")
          /\ UNCHANGED entry
  /\ UNCHANGED <<cancelled, sshFuel>> /\ WorkerUnchanged

(* begin_reconnect answered None: the slot, then the cancellation, then the    *)
(* state are read again, and only then the version of the slot to wait on.     *)
WorkerRecheck(w) ==
  /\ workers[w].pc = "recheck"
  /\ Step(w, IF Slot(w) # NoSession THEN "run"
             ELSE IF workers[w].cxl \in cancelled THEN "release" ELSE "still")
  /\ UNCHANGED <<entry, cancelled, sshFuel>> /\ WorkerUnchanged

WorkerStill(w) ==
  /\ workers[w].pc = "still"
  /\ Step(w, IF At(entry, workers[w].cgen) /\ entry.st = "reconnecting" THEN "park" ELSE "release")
  /\ UNCHANGED <<entry, cancelled, sshFuel>> /\ WorkerUnchanged

(* release_v2_reconnect_owner: hand the ownership to a sibling, or fail.       *)
Released(e, w) ==
  IF ~is_reconnect_owner(e, workers[w].cgen, workers[w].rule) THEN e
  ELSE IF has_reconnectable_rules(e, workers[w].rule) THEN abandon_reconnect(e)
  ELSE fail_reconnect(e, workers[w].cgen).e
WorkerParked(w) ==
  /\ workers[w].pc = "park"
  /\ Told(w) \/ workers[w].cxl \in cancelled
  /\ Step(w, "release") /\ UNCHANGED <<entry, cancelled, sshFuel>> /\ WorkerUnchanged

(* A local client that connects wakes the waiting worker as well.             *)
WorkerPoked(w) ==
  /\ workers[w].pc = "park" /\ sshFuel > 0
  /\ Step(w, "seek") /\ sshFuel' = sshFuel - 1
  /\ UNCHANGED <<entry, cancelled>> /\ WorkerUnchanged

(* One attempt: the delay and the handshake, which a stop or a cancellation    *)
(* interrupts.                                                                *)
WorkerInterrupted(w) ==
  /\ workers[w].pc \in {"attempt", "shake"}
  /\ Told(w) \/ workers[w].cxl \in cancelled
  /\ Step(w, "release") /\ UNCHANGED <<entry, cancelled, sshFuel>> /\ WorkerUnchanged

WorkerAttempt(w) ==
  /\ workers[w].pc = "attempt"
  /\ Step(w, IF workers[w].cxl \notin cancelled /\ set_reconnect_attempt(entry, workers[w].cgen)
             THEN "shake" ELSE "release")
  /\ UNCHANGED <<entry, cancelled, sshFuel>> /\ WorkerUnchanged

WorkerShake(w) ==
  /\ workers[w].pc = "shake"
  /\ \/ LET done == finish_reconnect(entry, workers[w].cgen, FreshSession, cancelled) IN
        /\ entry' = done.e
        /\ workers' = IF done.ok THEN Wake([workers EXCEPT ![w].pc = "run"], entry.cxl)
                                 ELSE [workers EXCEPT ![w].pc = "release"]
     \/ /\ workers' = [workers EXCEPT ![w].pc = IF workers[w].try < MaxAttempts THEN "attempt" ELSE "fail",
                                      ![w].try = IF workers[w].try < MaxAttempts THEN @ + 1 ELSE @]
        /\ UNCHANGED entry
     \/ Step(w, "fail") /\ UNCHANGED entry                 \* terminal error
  /\ UNCHANGED <<cancelled, sshFuel>> /\ WorkerUnchanged

WorkerFails(w) ==
  /\ workers[w].pc = "fail"
  /\ entry' = fail_reconnect(entry, workers[w].cgen).e
  /\ cancelled' = CancelIfDown(entry')
  /\ workers' = Wake([workers EXCEPT ![w].pc = "release"], workers[w].cxl)
  /\ UNCHANGED sshFuel /\ WorkerUnchanged

(* The way out: the listener is closed, an ownership still held is released,   *)
(* and the child is failed if this is its current worker.                      *)
WorkerReleases(w) ==
  /\ workers[w].pc = "release"
  /\ entry' = Released(entry, w)
  /\ cancelled' = CancelIfDown(entry')
  /\ workers' = LET gone == [workers EXCEPT ![w].pc = "report"] IN
                IF entry' # entry THEN Wake(gone, workers[w].cxl) ELSE gone
  /\ UNCHANGED sshFuel /\ WorkerUnchanged

WorkerReports(w) ==
  /\ workers[w].pc = "report"
  /\ entry' = worker_exited(entry, workers[w].cgen, workers[w].rule, workers[w].rgen, workers[w].cxl)
  /\ workers' = [workers EXCEPT ![w] = Gone]
  /\ UNCHANGED <<cancelled, sshFuel>> /\ WorkerUnchanged

----------------------------------------------------------------------------
CallNext(c) ==
  \/ \E op \in {"connect", "disconnect", "activate", "leave", "open"} : Command(c, op, "none", FALSE)
  \/ \E r \in Rules, b \in BOOLEAN : Command(c, "set", r, b)
  \/ Acquire(c) \/ Dispose(c)
  \/ ConnectReserve(c) \/ ConnectHandshake(c) \/ ConnectRecheck(c) \/ ConnectLocate(c)
  \/ ConnectCommit(c) \/ ConnectFinalize(c) \/ ConnectTimeout(c)
  \/ CleanupFind(c) \/ CleanupGiveUp(c) \/ CleanupBegin(c)
  \/ DisconnectCancel(c) \/ DisconnectBegin(c) \/ ClosePlan(c)
  \/ EnableCheck(c) \/ EnableReserve(c) \/ EnableAwait(c) \/ EnableBind(c) \/ EnableSpawn(c)
  \/ DisableCheck(c) \/ DisableBegin(c) \/ DisableFinish(c)
  \/ Reconcile(c) \/ ReconcileNext(c) \/ ReconcileForget(c)
  \/ SetIntend(c) \/ SetUndo(c) \/ SetDone(c)
  \/ AdmitIntent(c) \/ ScopeReplace(c) \/ StopCancel(c) \/ StopBegin(c) \/ ScopeStopped(c)
  \/ commit_scope(c)

WorkerNext(w) ==
  \/ WorkerLeave(w) \/ WorkerLoses(w) \/ WorkerClears(w) \/ WorkerIdleSeek(w) \/ WorkerSeek(w)
  \/ WorkerRecheck(w) \/ WorkerStill(w) \/ WorkerParked(w) \/ WorkerPoked(w)
  \/ WorkerInterrupted(w) \/ WorkerAttempt(w) \/ WorkerShake(w) \/ WorkerFails(w)
  \/ WorkerReleases(w) \/ WorkerReports(w)

SshNext == (\E c \in Callers : CallNext(c)) \/ (\E w \in Pool : WorkerNext(w))
SshSpec == SshInit /\ [][SshNext]_sshVars

----------------------------------------------------------------------------
(* Types, and the shape of an entry: a reconnect has an owner only while it    *)
(* lasts, and a child only has a stop channel with its worker.                *)
SshTypeOK ==
  /\ cancelled \subseteq Pool /\ desired \in [Rules -> BOOLEAN]
  /\ gates \in [AllGates -> Callers \cup {None}] /\ scope \in 0..1
  /\ Present(entry) =>
       /\ entry.gen \in 1..MaxGen /\ entry.cxl \in Pool
       /\ entry.owner # NoOwner => entry.st = "reconnecting"
       /\ \A r \in Rules : entry.kids[r] # NoKid =>
            /\ entry.kids[r].gen \in 1..MaxGen
            /\ entry.kids[r].st = "on" => entry.kids[r].stop /\ entry.kids[r].worker # 0

(* A session is reconnected by one worker at a time: begin_reconnect hands the *)
(* ownership to one rule, and only gives it on when that rule let go.          *)
OneReconnector ==
  \A v, w \in Pool : /\ workers[v].pc \in {"attempt", "shake"} /\ workers[w].pc \in {"attempt", "shake"}
                     /\ workers[v].cxl = workers[w].cxl /\ workers[v].cxl \notin cancelled
                     => v = w

(* A rule shown as on is served: its own worker is alive, and has not begun to *)
(* leave without the child being failed by it.                                *)
OnIsServed ==
  Present(entry) => \A r \in Rules : entry.kids[r].st = "on" =>
    LET w == entry.kids[r].worker IN
    /\ workers[w].pc # "gone" /\ workers[w].rule = r
    /\ workers[w].cgen = entry.gen /\ workers[w].rgen = entry.kids[r].gen
    /\ workers[w].cxl = entry.cxl

(* A connection that is down or going down holds no worker it has not told to  *)
(* stop: no listener outlives its connection.                                 *)
DownIsDark ==
  \A w \in Pool : Listening(w) /\ ~Told(w) => entry.st \in {"established", "reconnecting"}

(* An established connection has a session for its listeners, or the loss of   *)
(* it is being handled.                                                       *)
EstablishedHasSession ==
  Present(entry) /\ entry.st = "established" =>
    entry.ses # NoSession /\ entry.slot \in {entry.ses, NoSession}

(* Once disposal is over nothing listens, whatever was in flight.             *)
DisposedIsDark ==
  shutting /\ (\A c \in Callers : calls[c] = Idle) => \A w \in Pool : ~Listening(w)

(* An acknowledged disconnect is final: a disconnected entry comes back only   *)
(* as a new reservation.                                                      *)
DisconnectIsFinal ==
  [][Present(entry) /\ entry.st = "disconnected" /\ Present(entry') /\ entry'.cxl = entry.cxl
       => entry'.st = "disconnected"]_sshVars

(* What the webview is told of a forward is so: a rule that is on has its      *)
(* worker, a connection that is down or disposed of has no listener left, and  *)
(* one worker at a time reconnects, whatever commands, losses and timeouts     *)
(* cross (manager.rs: reserve/commit_rule, begin/finish/fail_reconnect).       *)
ForwardsAreServed ==
  /\ SshTypeOK /\ OneReconnector /\ OnIsServed
  /\ DownIsDark /\ EstablishedHasSession /\ DisposedIsDark
=============================================================================
