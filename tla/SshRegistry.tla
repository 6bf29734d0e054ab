---------------------------- MODULE SshRegistry ----------------------------
(* The in-memory authority of the native app's SSH forwarding: one entry of  *)
(* ConnectionRegistry (connection_runtime.rs) with its child rules, and the  *)
(* methods the manager and the rule workers call under the registry mutex.   *)
(* Every method is a function from the entry to [ok, e]: whether it answered *)
(* Ok, and the entry it leaves. Several connections share only two limits.   *)
EXTENDS Integers, FiniteSets

CONSTANTS Rules,        \* rule ids of the connection
          Reconnecting, \* the rules whose reconnect policy is enabled
          MaxEnabled,   \* MAX_ENABLED_RULES
          MaxGen        \* the largest WireCounter: a generation past it is refused

NoEntry   == [st |-> "absent"]
NoKid     == [st |-> "absent"]
NoSession == 0
NoOwner   == "none"
Busy      == {"opening", "on", "closing"}

(* ForwardChild::new and ConnectionEntry::new. A child holds its worker (the *)
(* join handle) and whether it still owns the stop channel.                  *)
NewKid(g) == [st |-> "opening", gen |-> g, worker |-> 0, stop |-> FALSE]
NewEntry(g, x) ==
  [st |-> "authenticating", gen |-> g, ses |-> NoSession, slot |-> NoSession,
   owner |-> NoOwner, cxl |-> x, kids |-> [r \in Rules |-> NoKid]]

Present(e) == e # NoEntry
At(e, g)   == Present(e) /\ e.gen = g
Ok(e)      == [ok |-> TRUE,  e |-> e]
Err(e)     == [ok |-> FALSE, e |-> e]
KidAt(e, r, g) == e.kids[r] # NoKid /\ e.kids[r].gen = g
Workers(e) == IF Present(e) THEN {e.kids[r].worker : r \in {q \in Rules : e.kids[q] # NoKid}} \ {0}
                            ELSE {}

(* The generation a snapshot shows for a connection or a rule (0 if absent).  *)
connection_generation(e) == IF Present(e) THEN e.gen ELSE 0
rule_generation(e, r) == IF Present(e) /\ e.kids[r] # NoKid THEN e.kids[r].gen ELSE 0

(* reserve_connection: what the reservation answers, and the new entry. The   *)
(* old entry, with the stop channels and handles of its children, is dropped. *)
Admission(e, expected) ==
  CASE Present(e) /\ e.gen # expected         -> "stale"
    [] ~Present(e) /\ expected # 0            -> "stale"
    [] Present(e) /\ e.st = "established"     -> "current"
    [] Present(e) /\ e.st # "disconnected"    -> "busy"
    [] OTHER                                  -> "reserved"
reserve_connection(expected, x) == NewEntry(expected + 1, x)

commit_established(e, g, s, cancelled) ==
  IF At(e, g) /\ e.st = "authenticating" /\ e.cxl \notin cancelled
  THEN Ok([e EXCEPT !.ses = s, !.slot = s, !.st = "established"])
  ELSE Err(e)

Closed(e) == [e EXCEPT !.ses = NoSession, !.slot = NoSession, !.owner = NoOwner,
                       !.st = "disconnected"]

(* fail_connection looks at the generation only and cancels the entry.        *)
fail_connection(e, g) == IF At(e, g) THEN Ok(Closed(e)) ELSE Err(e)

retain_authenticating_session(e, g, s) ==
  IF At(e, g) /\ e.st = "authenticating"
  THEN Ok([e EXCEPT !.ses = s, !.slot = s]) ELSE Err(e)

(* begin_reconnect: the first worker to see the slot empty takes the session  *)
(* and the ownership; a later one takes over only an ownership given up.      *)
CanReconnect(e, g) ==
  /\ At(e, g)
  /\ \/ e.st = "reconnecting" /\ e.owner = NoOwner
     \/ e.st = "established" /\ e.slot = NoSession /\ e.ses # NoSession
begin_reconnect(e, r) ==
  [e EXCEPT !.st = "reconnecting", !.owner = r, !.ses = NoSession, !.slot = NoSession]
PolicyEnabled(e) == \E r \in Reconnecting : e.kids[r].st = "on"

set_reconnect_attempt(e, g) == At(e, g) /\ e.st = "reconnecting"

finish_reconnect(e, g, s, cancelled) ==
  IF At(e, g) /\ e.st = "reconnecting" /\ e.cxl \notin cancelled
  THEN Ok([e EXCEPT !.ses = s, !.slot = s, !.owner = NoOwner, !.st = "established"])
  ELSE Err(e)

\* Mutant: a failed reconnect closes the session and leaves its children on.
fail_reconnect_KeepsChildren(e, g) ==
  IF ~At(e, g) THEN Err(e) ELSE IF e.st # "reconnecting" THEN Ok(e) ELSE Ok(Closed(e))

(* fail_reconnect signals every child that is not off, and fails it; the join *)
(* handles stay where they are.                                               *)
fail_reconnect(e, g) ==
  IF ~At(e, g) THEN Err(e)
  ELSE IF e.st # "reconnecting" THEN Ok(e)
  ELSE Ok([Closed(e) EXCEPT !.kids = [r \in Rules |->
             IF e.kids[r].st \in {"absent", "off"} THEN e.kids[r]
             ELSE [e.kids[r] EXCEPT !.st = "failed", !.stop = FALSE]]])

is_reconnect_owner(e, g, r) == At(e, g) /\ e.st = "reconnecting" /\ e.owner = r
abandon_reconnect(e) == [e EXCEPT !.owner = NoOwner]
has_reconnectable_rules(e, r) == \E q \in Reconnecting \ {r} : e.kids[q].st = "on"

(* next_counter fails before anything is changed.                             *)
CanAdvance(e) == e.gen < MaxGen /\ \A r \in Rules : rule_generation(e, r) < MaxGen

(* begin_disconnect: the generation of the entry and of every child advances, *)
(* and the session, the workers and the stop channels move into the plan.     *)
begin_disconnect(e) ==
  [e EXCEPT !.st = "disconnecting", !.gen = @ + 1, !.ses = NoSession, !.slot = NoSession,
            !.owner = NoOwner,
            !.kids = [r \in Rules |-> IF e.kids[r] = NoKid THEN NoKid
                                      ELSE [st |-> "closing", gen |-> e.kids[r].gen + 1,
                                            worker |-> 0, stop |-> FALSE]]]

finish_disconnect(e, g) ==
  IF At(e, g)
  THEN Ok([e EXCEPT !.st = "disconnected", !.ses = NoSession, !.slot = NoSession,
                    !.kids = [r \in Rules |-> IF e.kids[r] = NoKid THEN NoKid
                                              ELSE [e.kids[r] EXCEPT !.st = "off"]]])
  ELSE Err(e)

retain_disconnect_session(e, g, s) ==
  IF At(e, g) /\ e.st = "disconnecting"
  THEN Ok([e EXCEPT !.ses = s, !.slot = s]) ELSE Err(e)

discard_connection(e, g) == IF At(e, g) THEN NoEntry ELSE e
discard_connection_if_matches(e, g, x) == IF At(e, g) /\ e.cxl = x THEN NoEntry ELSE e
clear_if_disconnected(e) == IF Present(e) /\ e.st = "disconnected" THEN NoEntry ELSE e
ensure_established(e, g) == At(e, g) /\ e.st = "established"

(* reserve_rule: the answer, and the child it inserts.                        *)
RuleAdmission(e, g, r, expected, cancelled) ==
  CASE ~At(e, g) \/ e.cxl \in cancelled                   -> "refused"
    [] e.st # "established" \/ e.ses = NoSession          -> "refused"
    [] rule_generation(e, r) # expected                   -> "refused"
    [] e.kids[r].st = "on"                                -> "current"
    [] e.kids[r].st \in {"opening", "closing"}            -> "in_progress"
    [] Cardinality({q \in Rules : e.kids[q].st \in Busy}) >= MaxEnabled -> "refused"
    [] OTHER                                              -> "reserved"
reserve_rule(e, r, expected) == [e EXCEPT !.kids[r] = NewKid(expected + 1)]

commit_rule(e, g, r, rg, w, cancelled) ==
  IF /\ At(e, g) /\ e.cxl \notin cancelled
     /\ e.st = "established" /\ e.ses # NoSession
     /\ KidAt(e, r, rg) /\ e.kids[r].st = "opening"
  THEN Ok([e EXCEPT !.kids[r] = [st |-> "on", gen |-> rg, worker |-> w, stop |-> TRUE]])
  ELSE Err(e)

fail_rule(e, g, r, rg) ==
  IF At(e, g) /\ KidAt(e, r, rg) THEN Ok([e EXCEPT !.kids[r].st = "failed"]) ELSE Err(e)

(* begin_disable_rule: "none" for a rule that is already off or never was.     *)
DisableAnswer(e, g, r, expected) ==
  CASE ~At(e, g)                        -> "refused"
    [] rule_generation(e, r) # expected -> "refused"
    [] e.kids[r].st \in {"absent", "off"} -> "none"
    [] OTHER                            -> "plan"
begin_disable_rule(e, r) ==
  [e EXCEPT !.kids[r] = [st |-> "closing", gen |-> @.gen + 1, worker |-> 0, stop |-> FALSE]]

finish_disable_rule(e, g, r, rg) ==
  IF At(e, g) /\ KidAt(e, r, rg) THEN Ok([e EXCEPT !.kids[r].st = "off"]) ELSE Err(e)

remove_rule(e, g, r) ==
  IF At(e, g) /\ e.kids[r].st \in {"off", "failed"}
  THEN Ok([e EXCEPT !.kids[r] = NoKid]) ELSE Err(e)

(* worker_exited fails only the child whose current worker it is.              *)
worker_exited(e, g, r, rg, x) ==
  IF At(e, g) /\ e.cxl = x /\ KidAt(e, r, rg) /\ e.kids[r].st = "on"
  THEN [e EXCEPT !.kids[r].st = "failed"] ELSE e
=============================================================================
