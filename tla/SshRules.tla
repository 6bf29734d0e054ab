------------------------------ MODULE SshRules ------------------------------
(* Editing the forwarding rules of one connection: create_rule, update_rule   *)
(* and delete_rule of the native app's manager, the registry children they    *)
(* must agree with, the change hints, and the webview's adapter, which keeps  *)
(* a snapshot and refetches it when a hint is newer (native-ssh-forward-host).*)
EXTENDS Integers, Sequences, FiniteSets, SequencesExt

CONSTANTS RuleIds,      \* ids of the rules of the connection
          MaxEdits,     \* commands the webview issues
          RuleLimit,    \* the 64 rules a scope may hold
          MaxConnects,  \* connections made after the first
          MaxFails,     \* rule workers that fail
          MaxIoFaults   \* store writes that fail

ASSUME RulesAssumption == /\ IsFiniteSet(RuleIds)
                          /\ MaxEdits \in Nat /\ RuleLimit \in Nat

VARIABLES ruleStore,  \* rules_revision and the rules of the scope config
          shownRev,   \* rules_revision kept in active_scope, which hints carry
          conn,       \* the registry entry: generation, established, children
          ruleGate,   \* the edit holding rule_reconciliation_gate and command_gate
          edits,      \* the commands
          hints,      \* ssh-forward:changed events not yet delivered
          view,       \* snapshotState of the adapter
          operation,  \* the adapter's operation counter
          fetch,      \* the snapshot request in flight
          trailing,   \* snapshotTrailingHint
          silent,     \* a rollback failed: no hint told of it
          ruleFuel    \* what the environment may still do
ruleVars == <<ruleStore, shownRev, conn, ruleGate, edits, hints, view, operation,
              fetch, trailing, silent, ruleFuel>>

Edits    == 1..MaxEdits
NoEdit   == 0
NoRule   == 0
Earlier  == MaxEdits + 1                 \* a rule from before the first edit
NoHint   == [rev |-> 0, runtime |-> FALSE]
NoChild  == [gen |-> 0, st |-> "absent", def |-> NoRule]
Quieted  == {"absent", "off", "failed"}   \* rule_is_active is false
NoFetch  == [st |-> "none"]
Unsent   == [pc |-> "unsent"]
InFlight == {k \in Edits : edits[k].pc \notin {"unsent", "done"}}
Gens     == [r \in RuleIds |-> conn.kids[r].gen]

(* snapshot_inner: the config is one read of the store file.                   *)
snapshot_inner ==
  [rev |-> ruleStore.rev, rules |-> ruleStore.rules, cgen |-> conn.gen, rgen |-> Gens]

(* A connection is up, with the rules stored before it was made enabled.       *)
RulesInit ==
  /\ \E held \in {S \in SUBSET RuleIds : Cardinality(S) <= RuleLimit} :
       /\ ruleStore = [rev |-> 1, rules |-> [r \in RuleIds |-> IF r \in held THEN Earlier ELSE NoRule]]
       /\ conn = [gen |-> 1, est |-> TRUE, kids |-> [r \in RuleIds |->
                    IF r \in held THEN [gen |-> 1, st |-> "on", def |-> Earlier] ELSE NoChild]]
  /\ shownRev = 1
  /\ ruleGate = NoEdit /\ edits = [k \in Edits |-> Unsent] /\ hints = <<>>
  /\ view = [rev |-> 1, rules |-> ruleStore.rules, cgen |-> 1, rgen |-> Gens]
  /\ operation = 0 /\ fetch = NoFetch /\ trailing = NoHint /\ silent = FALSE
  /\ ruleFuel = [connects |-> MaxConnects, fails |-> MaxFails, faults |-> MaxIoFaults]

Hint(rev, runtime) == [rev |-> rev, runtime |-> runtime]
emit_collection_hint == hints' = Append(hints, Hint(shownRev, FALSE))

(* The adapter's command(): expected revision and generations come from the    *)
(* snapshot it shows; the operation counter makes older answers stale.         *)
SendEdit(k, op, r) ==
  /\ edits[k].pc = "unsent" /\ \A j \in 1..(k - 1) : edits[j].pc # "unsent"
  /\ (op = "create") <=> (view.rules[r] = NoRule)
  /\ operation' = operation + 1
  /\ edits' = [edits EXCEPT ![k] =
       [pc |-> "sent", op |-> op, rule |-> r, rev |-> view.rev, seen |-> view.rules,
        cgen |-> view.cgen, rgen |-> view.rgen[r], oper |-> operation + 1, ok |-> FALSE,
        answer |-> view]]
  /\ UNCHANGED <<ruleStore, shownRev, conn, ruleGate, hints, view, fetch, trailing, silent, ruleFuel>>

\* Mutant: the revision an edit was based on is not compared.
check_rules_revision_Never(k) == TRUE

check_rules_revision(k)        == ruleStore.rev = edits[k].rev
check_connection_generation(k) == conn.gen = edits[k].cgen
check_rule_generation(k)       == conn.kids[edits[k].rule].gen = edits[k].rgen
rule_is_active(r)              == conn.kids[r].st \notin Quieted
Stored                         == {r \in RuleIds : ruleStore.rules[r] # NoRule}

CreateChecks(k) ==
  /\ check_rules_revision(k) /\ check_connection_generation(k)
  /\ Cardinality(Stored) < RuleLimit /\ edits[k].rule \notin Stored
UpdateChecks(k) ==
  /\ check_rules_revision(k) /\ check_connection_generation(k) /\ check_rule_generation(k)
  /\ ~rule_is_active(edits[k].rule) /\ edits[k].rule \in Stored
ensure_rule_removable(k) ==
  /\ conn.gen = edits[k].cgen
  /\ conn.kids[edits[k].rule].gen = edits[k].rgen
  /\ conn.kids[edits[k].rule].st \in {"off", "failed"}
DeleteChecks(k) ==
  /\ UpdateChecks(k)
  /\ edits[k].rgen # 0 => ensure_rule_removable(k)
Checks(k) == CASE edits[k].op = "create" -> CreateChecks(k)
               [] edits[k].op = "update" -> UpdateChecks(k)
               [] OTHER                  -> DeleteChecks(k)

Goes(k, pc) == edits' = [edits EXCEPT ![k].pc = pc]
(* replace_rules: one more than the revision it replaces.                      *)
replace_rules(rules) == [rev |-> ruleStore.rev + 1, rules |-> rules]
Enters(k) == edits[k].pc = "sent" /\ ruleGate = NoEdit

RefuseEdit(k) ==
  /\ Enters(k) /\ ~Checks(k)
  /\ Goes(k, "reply")
  /\ UNCHANGED <<ruleStore, shownRev, conn, ruleGate, hints, view, operation, fetch, trailing,
                 silent, ruleFuel>>

(* collection_store_error: the write failed and nothing changed.               *)
StoreRefuses(k) ==
  /\ Enters(k) /\ Checks(k) /\ ruleFuel.faults > 0
  /\ ruleFuel' = [ruleFuel EXCEPT !.faults = @ - 1]
  /\ Goes(k, "reply")
  /\ UNCHANGED <<ruleStore, shownRev, conn, ruleGate, hints, view, operation, fetch, trailing, silent>>

(* create_rule and update_rule commit under both gates and drop them before    *)
(* they reconcile, hint and read their answer.                                 *)
CommitEdit(k) ==
  /\ Enters(k) /\ edits[k].op # "delete" /\ Checks(k)
  /\ ruleStore' = replace_rules([ruleStore.rules EXCEPT ![edits[k].rule] = k])
  /\ shownRev' = ruleStore'.rev
  /\ Goes(k, IF conn.est /\ conn.gen = edits[k].cgen THEN "reconcile" ELSE "hint")
  /\ UNCHANGED <<conn, ruleGate, hints, view, operation, fetch, trailing, silent, ruleFuel>>

(* enable_desired_rules under the reconciliation gate: children of another     *)
(* definition are disabled and forgotten, every stored rule is enabled.        *)
Enabled(kids) ==
  [r \in RuleIds |->
     IF ruleStore.rules[r] = NoRule THEN NoChild
     ELSE IF kids[r].st = "on" /\ kids[r].def = ruleStore.rules[r] THEN kids[r]
     ELSE [gen |-> 1 + (IF kids[r].def = ruleStore.rules[r] THEN kids[r].gen ELSE 0),
           st |-> "on", def |-> ruleStore.rules[r]]]
EditReconciles(k) ==
  /\ edits[k].pc = "reconcile" /\ ruleGate = NoEdit
  /\ conn' = IF conn.est /\ conn.gen = edits[k].cgen
             THEN [conn EXCEPT !.kids = Enabled(conn.kids)] ELSE conn
  /\ Goes(k, "hint")
  /\ UNCHANGED <<ruleStore, shownRev, ruleGate, hints, view, operation, fetch, trailing, silent, ruleFuel>>

(* emit_collection_hint_checked bypasses the throttle; then snapshot_inner.    *)
EditHints(k) ==
  /\ edits[k].pc = "hint" /\ emit_collection_hint
  /\ Goes(k, "snapshot")
  /\ UNCHANGED <<ruleStore, shownRev, conn, ruleGate, view, operation, fetch, trailing, silent, ruleFuel>>
EditSnapshots(k) ==
  /\ edits[k].pc = "snapshot"
  /\ edits' = [edits EXCEPT ![k] = [@ EXCEPT !.pc = "reply", !.ok = TRUE, !.answer = snapshot_inner]]
  /\ ruleGate' = IF ruleGate = k THEN NoEdit ELSE ruleGate
  /\ UNCHANGED <<ruleStore, shownRev, conn, hints, view, operation, fetch, trailing, silent, ruleFuel>>

(* delete_rule keeps both gates to the end, but the registry is only locked    *)
(* for each of its calls: the child may have changed when it is removed.       *)
DeleteCommits(k) ==
  /\ Enters(k) /\ edits[k].op = "delete" /\ DeleteChecks(k)
  /\ ruleStore' = replace_rules([ruleStore.rules EXCEPT ![edits[k].rule] = NoRule])
  /\ ruleGate' = k
  /\ Goes(k, IF edits[k].rgen # 0 THEN "remove" ELSE "removed")
  /\ UNCHANGED <<shownRev, conn, hints, view, operation, fetch, trailing, silent, ruleFuel>>
DeleteRemoves(k) ==
  /\ edits[k].pc = "remove" /\ ensure_rule_removable(k)
  /\ conn' = [conn EXCEPT !.kids[edits[k].rule] = NoChild]
  /\ Goes(k, "removed")
  /\ UNCHANGED <<ruleStore, shownRev, ruleGate, hints, view, operation, fetch, trailing, silent, ruleFuel>>
DeleteDone(k) ==
  /\ edits[k].pc = "removed"
  /\ shownRev' = ruleStore.rev
  /\ Goes(k, "hint")
  /\ UNCHANGED <<ruleStore, conn, ruleGate, hints, view, operation, fetch, trailing, silent, ruleFuel>>
(* The child is gone: the rules are put back, as a further revision.           *)
DeleteRollsBack(k) ==
  /\ edits[k].pc = "remove" /\ ~ensure_rule_removable(k)
  /\ ruleStore' = replace_rules(edits[k].seen)
  /\ shownRev' = ruleStore'.rev
  /\ hints' = Append(hints, Hint(shownRev', FALSE))
  /\ Goes(k, "reply") /\ ruleGate' = NoEdit
  /\ UNCHANGED <<conn, view, operation, fetch, trailing, silent, ruleFuel>>
RollbackFails(k) ==
  /\ edits[k].pc = "remove" /\ ~ensure_rule_removable(k)
  /\ ruleFuel.faults > 0 /\ ruleFuel' = [ruleFuel EXCEPT !.faults = @ - 1]
  /\ Goes(k, "reply") /\ ruleGate' = NoEdit /\ silent' = TRUE
  /\ UNCHANGED <<ruleStore, shownRev, conn, hints, view, operation, fetch, trailing>>

-----------------------------------------------------------------------------
(* The registry outside the gates. A runtime hint bypasses the throttle when a *)
(* worker fails; a connection's may be swallowed by it.                        *)
runtime_hint == hints' = Append(hints, Hint(shownRev, TRUE))
RuleFails(r) ==
  /\ conn.kids[r].st = "on" /\ ruleFuel.fails > 0
  /\ ruleFuel' = [ruleFuel EXCEPT !.fails = @ - 1]
  /\ conn' = [conn EXCEPT !.kids[r].st = "failed"]
  /\ runtime_hint
  /\ UNCHANGED <<ruleStore, shownRev, ruleGate, edits, view, operation, fetch, trailing, silent>>
(* cleanup_timed_out_connection takes neither gate.                            *)
ConnectionClears ==
  /\ conn.gen # 0 /\ ruleFuel.connects > 0
  /\ conn' = [gen |-> 0, est |-> FALSE, kids |-> [r \in RuleIds |-> NoChild]]
  /\ runtime_hint \/ UNCHANGED hints
  /\ UNCHANGED <<ruleStore, shownRev, ruleGate, edits, view, operation, fetch, trailing, silent, ruleFuel>>
(* connect_connection reserves under command_gate and enables under the other. *)
ConnectionMade ==
  /\ ~conn.est /\ ruleGate = NoEdit /\ ruleFuel.connects > 0
  /\ ruleFuel' = [ruleFuel EXCEPT !.connects = @ - 1]
  /\ conn' = [gen |-> conn.gen + 1, est |-> TRUE, kids |-> Enabled(conn.kids)]
  /\ runtime_hint \/ UNCHANGED hints
  /\ UNCHANGED <<ruleStore, shownRev, ruleGate, edits, view, operation, fetch, trailing, silent>>

-----------------------------------------------------------------------------
(* The adapter. A hint that arrives while a command or a fetch is under way    *)
(* waits in trailing; a fetch a newer command overtook is asked for again.     *)
Newer(h, v) == h.rev >= v.rev /\ (h.runtime \/ h.rev > v.rev)
Asked(h)    == [st |-> "asked", oper |-> operation, hint |-> h, snap |-> view]

\* Mutant: a hint that arrives while a fetch runs is forgotten.
Flushes_Forgets(h, v, busy) ==
  IF h = NoHint \/ busy THEN fetch' = NoFetch /\ trailing' = NoHint
  ELSE trailing' = NoHint /\ fetch' = IF Newer(h, v) THEN Asked(h) ELSE NoFetch

Flushes(h, v, busy) ==
  IF h = NoHint \/ busy THEN fetch' = NoFetch /\ trailing' = h
  ELSE trailing' = NoHint /\ fetch' = IF Newer(h, v) THEN Asked(h) ELSE NoFetch
handleHint ==
  /\ hints # <<>> /\ hints' = Tail(hints)
  /\ LET h == Head(hints) IN
     IF ~Newer(h, view) THEN UNCHANGED <<fetch, trailing>>
     ELSE IF InFlight # {} \/ fetch # NoFetch THEN trailing' = h /\ UNCHANGED fetch
     ELSE fetch' = Asked(h) /\ UNCHANGED trailing
  /\ UNCHANGED <<ruleStore, shownRev, conn, ruleGate, edits, view, operation, silent, ruleFuel>>

(* snapshot takes command_gate.                                                *)
FetchServed ==
  /\ fetch.st = "asked" /\ ruleGate = NoEdit
  /\ fetch' = [fetch EXCEPT !.st = "answered", !.snap = snapshot_inner]
  /\ UNCHANGED <<ruleStore, shownRev, conn, ruleGate, edits, hints, view, operation, trailing, silent,
                 ruleFuel>>
isCurrent(oper) == oper = operation
FetchReturns ==
  /\ fetch.st = "answered"
  /\ view' = IF isCurrent(fetch.oper) THEN fetch.snap ELSE view
  /\ LET h == IF trailing # NoHint \/ isCurrent(fetch.oper) THEN trailing ELSE fetch.hint
     IN Flushes(h, view', InFlight # {})
  /\ UNCHANGED <<ruleStore, shownRev, conn, ruleGate, edits, hints, operation, silent, ruleFuel>>
(* acceptSnapshot and finishMutation.                                          *)
EditReturns(k) ==
  /\ edits[k].pc = "reply" /\ Goes(k, "done")
  /\ view' = IF edits[k].ok /\ isCurrent(edits[k].oper) THEN edits[k].answer ELSE view
  /\ IF fetch # NoFetch THEN UNCHANGED <<fetch, trailing>>
     ELSE Flushes(trailing, view', InFlight # {k})
  /\ UNCHANGED <<ruleStore, shownRev, conn, ruleGate, hints, operation, silent, ruleFuel>>

EditStep(k) ==
  \/ \E op \in {"create", "update", "delete"}, r \in RuleIds : SendEdit(k, op, r)
  \/ RefuseEdit(k) \/ StoreRefuses(k) \/ CommitEdit(k) \/ EditReconciles(k) \/ EditHints(k)
  \/ EditSnapshots(k) \/ DeleteCommits(k) \/ DeleteRemoves(k) \/ DeleteDone(k)
  \/ DeleteRollsBack(k) \/ RollbackFails(k) \/ EditReturns(k)
RulesNext ==
  \/ \E k \in Edits : EditStep(k)
  \/ \E r \in RuleIds : RuleFails(r)
  \/ ConnectionClears \/ ConnectionMade
  \/ handleHint \/ FetchServed \/ FetchReturns
RulesSpec == RulesInit /\ [][RulesNext]_ruleVars

-----------------------------------------------------------------------------
(* Types, and a rule never stands in the store past the limit.                 *)
RulesTypeOK ==
  /\ ruleStore.rules \in [RuleIds -> 0..(MaxEdits + 1)] /\ Cardinality(Stored) <= RuleLimit
  /\ shownRev \in 1..ruleStore.rev /\ ruleGate \in 0..MaxEdits
  /\ fetch.st \in {"none", "asked", "answered"}

(* An edit replaces exactly the rules its author was shown: the revision it    *)
(* sends stands for the content, also across a delete that was rolled back.    *)
EditsReplaceWhatTheySaw ==
  [][\A k \in Edits : (edits[k].pc = "sent" /\ ruleStore' # ruleStore
                        /\ edits'[k].pc \notin {"sent", "unsent"})
                      => edits[k].seen = ruleStore.rules]_ruleVars

(* A running forward serves a stored definition: no deleted or replaced rule   *)
(* keeps forwarding once the commands have returned.                           *)
RunningIsStored ==
  InFlight = {} /\ ~silent =>
    \A r \in RuleIds : conn.kids[r].st = "on" => conn.kids[r].def = ruleStore.rules[r]

(* When nothing is under way the webview shows the stored rules, however hints,*)
(* answers and overtaken fetches were ordered: only a failed rollback is not   *)
(* told of.                                                                    *)
ViewCatchesUp ==
  InFlight = {} /\ fetch = NoFetch /\ hints = <<>> /\ ~silent
    => view.rev = ruleStore.rev /\ view.rules = ruleStore.rules

(* Rule edits, the running forwards and the webview stay in step, through      *)
(* rolled back deletes, reconnects and overtaken answers (manager.rs and       *)
(* native-ssh-forward-host.ts).                                                *)
RulesInStep == RulesTypeOK /\ RunningIsStored /\ ViewCatchesUp
=============================================================================
