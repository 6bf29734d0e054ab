---------------------------- MODULE HostActions ----------------------------
(***************************************************************************)
(* Privileged host actions (server/src/host_actions and                    *)
(* api/host_actions.rs): an intent is challenged, approved after a fresh   *)
(* re-authentication, consumed once, audited, queued and executed one at a *)
(* time by a helper.  In this commit capabilities() reports the helper as  *)
(* not enrolled, so the HTTP handlers refuse before they reach the         *)
(* service; the module is the service as its tests drive it, with an       *)
(* executor, and the helper's answers are external.                        *)
(***************************************************************************)
EXTENDS Integers, Sequences, FiniteSets, SequencesExt

CONSTANTS Intents,       \* intent ids (random UUIDs), each used at most once
          Actors,
          Visitors,      \* approve_intent requests
          ChallengeTtl, ApprovalTtl,
          IntentLimit,   \* pending intents per actor
          QueueCap,      \* permits of the queue semaphore
          MaxExecutions, \* executions kept in memory
          ReauthLimit,   \* failed re-authentications per window
          OwnerOf,       \* intent -> actor, in the behaviours that start approved
          CacheDrops,    \* ... and which of those intents are cache drops
          FreshIntents,  \* bound: intents created from scratch in one behaviour
          MaxClock, MaxAuditFaults, MaxTokens    \* bounds

VARIABLES clock,
          intent,        \* intent -> its life
          line,          \* executions waiting for the gate, the head holding it
          shelf,         \* executions map, oldest updated_at first
          shown,         \* intent -> ExecutionState of its execution
          trail,         \* audit file: <<intent, state>>
          cooling,       \* cache_cooldown_until is set
          permits,       \* intents holding a queue permit
          failures,      \* actor -> failed re-authentications in the window
          visit,         \* approve_intent requests under way
          tokens, auditFaults,
          runs,          \* history: intent -> dispatches to the helper
          drops          \* history: cache drops accepted since the cooldown last ended

haVars == <<clock, intent, line, shelf, shown, trail, cooling, permits, failures, visit,
            tokens, auditFaults, runs, drops>>

Unused == [st |-> "unused", actor |-> CHOOSE a \in Actors : TRUE, cache |-> FALSE,
           chal |-> 0, token |-> 0, tokExp |-> 0]
NoVisit == [pc |-> "idle"]
Kept(n) == intent[n].st \in {"pending", "approved"}
Active == {"queued", "executing", "running", "finishing"}

(* A behaviour starts fresh with a few intents, or at a moment when every  *)
(* intent was just approved and their submissions race.                    *)
Fresh == [n \in Intents |-> IF n <= FreshIntents THEN Unused ELSE [Unused EXCEPT !.st = "refused"]]
AllApproved ==
    {[n \in Intents |-> [Unused EXCEPT !.st = "approved", !.actor = OwnerOf[n], !.cache = n \in c, !.chal = ChallengeTtl,
                                       !.token = n, !.tokExp = ApprovalTtl]] :
        c \in CacheDrops}

HAInit ==
    /\ clock = 0 /\ line = <<>> /\ shelf = <<>> /\ trail = {} /\ cooling = FALSE /\ permits = {}
    /\ \/ intent = Fresh /\ tokens = 0
       \/ intent \in AllApproved /\ tokens = Cardinality(Intents)
    /\ shown = [n \in Intents |-> "none"]
    /\ failures = [a \in Actors |-> 0]
    /\ visit = [v \in Visitors |-> NoVisit]
    /\ auditFaults = 0
    /\ runs = [n \in Intents |-> 0] /\ drops = 0

(* reap_expired: the challenge deadline holds after the approval as well   *)
Expired(x) == x.chal <= clock \/ (x.st = "approved" /\ x.tokExp <= clock)
Reaped == [n \in Intents |-> IF Kept(n) /\ Expired(intent[n])
                             THEN [intent[n] EXCEPT !.st = "refused"] ELSE intent[n]]

Moves(n, st) == intent' = [intent EXCEPT ![n].st = st]
-----------------------------------------------------------------------------
(* create_intent: limits count what reap_expired leaves                    *)
create_intent(n, a, cache) ==
    LET r == Reaped IN
    /\ intent[n].st = "unused"
    /\ \A m \in Intents : m < n => intent[m].st # "unused"
    /\ Cardinality({m \in Intents : r[m].st \in {"pending", "approved"} /\ r[m].actor = a}) < IntentLimit
    /\ intent' = [r EXCEPT ![n] = [Unused EXCEPT !.st = "pending", !.actor = a, !.cache = cache,
                                                 !.chal = clock + ChallengeTtl]]
    /\ UNCHANGED <<clock, line, shelf, shown, trail, cooling, permits, failures, visit, tokens,
                   auditFaults, runs, drops>>

(* approve_intent: the limiter is read, the password verified off the      *)
(* lock, and only then is the failure recorded or the approval granted.    *)
check_reauth_allowed(v, a, n) ==
    /\ visit[v] = NoVisit /\ failures[a] < ReauthLimit /\ Kept(n) /\ tokens < MaxTokens
    /\ visit' = [visit EXCEPT ![v] = [pc |-> "verify", actor |-> a, n |-> n]]
    /\ UNCHANGED <<clock, intent, line, shelf, shown, trail, cooling, permits, failures, tokens,
                   auditFaults, runs, drops>>

record_reauth_failure(v) ==
    /\ visit[v].pc = "verify"
    /\ failures' = [failures EXCEPT ![visit[v].actor] = @ + 1]
    /\ visit' = [visit EXCEPT ![v] = NoVisit]
    /\ UNCHANGED <<clock, intent, line, shelf, shown, trail, cooling, permits, tokens, auditFaults,
                   runs, drops>>

(* A second approval of the same intent replaces the first token           *)
approve(v) ==
    LET n == visit[v].n
        r == Reaped
        ok == r[n].st \in {"pending", "approved"} /\ r[n].actor = visit[v].actor IN
    /\ visit[v].pc = "verify"
    /\ visit' = [visit EXCEPT ![v] = NoVisit]
    /\ tokens' = IF ok THEN tokens + 1 ELSE tokens
    /\ intent' = IF ok THEN [r EXCEPT ![n].st = "approved", ![n].token = tokens + 1,
                                      ![n].tokExp = clock + ApprovalTtl]
                 ELSE r
    /\ UNCHANGED <<clock, line, shelf, shown, trail, cooling, permits, failures, auditFaults, runs, drops>>
-----------------------------------------------------------------------------
(* submit: consume the approval, reserve the cooldown, take a permit,      *)
(* write the audit record, list the execution and spawn it.                *)
Accepts(x, a, token) == x.st = "approved" /\ x.actor = a /\ x.tokExp > clock /\ x.token = token

consume(n, a, token) ==
    LET r == Reaped IN
    /\ Kept(n)
    /\ intent' = IF Accepts(r[n], a, token) THEN [r EXCEPT ![n].st = "consumed"] ELSE r
    /\ UNCHANGED <<clock, line, shelf, shown, trail, cooling, permits, failures, visit, tokens,
                   auditFaults, runs, drops>>

reserve_cache_cooldown(n) ==
    /\ intent[n].st = "consumed"
    /\ Moves(n, IF intent[n].cache /\ cooling THEN "denying" ELSE "reserved")
    /\ cooling' = (cooling \/ intent[n].cache)
    /\ UNCHANGED <<clock, line, shelf, shown, trail, permits, failures, visit, tokens, auditFaults,
                   runs, drops>>

\* Mutant: the queue admits one action more than its capacity.
TryAcquire_OneMore(n) ==
    /\ intent[n].st = "reserved"
    /\ IF Cardinality(permits) <= QueueCap
       THEN Moves(n, "admitted") /\ permits' = permits \cup {n}
       ELSE Moves(n, "full") /\ permits' = permits
    /\ UNCHANGED <<clock, line, shelf, shown, trail, cooling, failures, visit, tokens, auditFaults,
                   runs, drops>>

TryAcquire(n) ==
    /\ intent[n].st = "reserved"
    /\ IF Cardinality(permits) < QueueCap
       THEN Moves(n, "admitted") /\ permits' = permits \cup {n}
       ELSE Moves(n, "full") /\ permits' = permits
    /\ UNCHANGED <<clock, line, shelf, shown, trail, cooling, failures, visit, tokens, auditFaults,
                   runs, drops>>

(* append writes and syncs the line, then rewrites the file: an error can  *)
(* leave the record written or not.  run_execution answers an error with a *)
(* second record, which may fail as well.                                  *)
Records(n, states, ok) ==
    /\ auditFaults' = IF ok THEN auditFaults ELSE auditFaults + 1
    /\ ok \/ auditFaults < MaxAuditFaults
    /\ \E w \in IF ok THEN {{states[1]}} ELSE SUBSET Range(states) :
          trail' = trail \cup {<<n, s>> : s \in w}

release_cache_cooldown(n) == cooling' = (cooling /\ ~intent[n].cache)

(* A refusal is audited too; only the queue-full path gives the cooldown   *)
(* it had reserved back.                                                   *)
SubmitDenied(n, ok) ==
    /\ intent[n].st \in {"denying", "full"}
    /\ Records(n, <<"denied">>, ok)
    /\ Moves(n, "refused")
    /\ IF intent[n].st = "full" THEN release_cache_cooldown(n) ELSE cooling' = cooling
    /\ UNCHANGED <<clock, line, shelf, shown, permits, failures, visit, tokens, runs, drops>>

(* insert_execution evicts the execution least recently updated            *)
Shelved(n) ==
    LET room == IF Len(shelf) >= MaxExecutions THEN Tail(shelf) ELSE shelf IN Append(room, n)

SubmitQueues(n, ok) ==
    /\ intent[n].st = "admitted"
    /\ Records(n, <<"queued">>, ok)
    /\ IF ok
       THEN /\ Moves(n, "queued") /\ shelf' = Shelved(n) /\ line' = Append(line, n)
            /\ shown' = [shown EXCEPT ![n] = "queued"]
            /\ drops' = IF intent[n].cache THEN drops + 1 ELSE drops
            /\ UNCHANGED <<cooling, permits>>
       ELSE /\ Moves(n, "refused") /\ release_cache_cooldown(n) /\ permits' = permits \ {n}
            /\ UNCHANGED <<shelf, line, shown, drops>>
    /\ UNCHANGED <<clock, failures, visit, tokens, runs>>
-----------------------------------------------------------------------------
(* run_execution, under the gate.  update_state moves an entry that is     *)
(* still listed to the end of the updated_at order.                        *)
Listed(n) == n \in Range(shelf)
update_state(n, state) ==
    /\ shown' = IF Listed(n) THEN [shown EXCEPT ![n] = state] ELSE shown
    /\ shelf' = IF Listed(n) THEN Append(Remove(shelf, n), n) ELSE shelf

TakesGate(n) ==
    /\ line # <<>> /\ Head(line) = n /\ intent[n].st = "queued"
    /\ Moves(n, "executing") /\ update_state(n, "executing")
    /\ UNCHANGED <<clock, line, trail, cooling, permits, failures, visit, tokens, auditFaults, runs, drops>>

Leaves(n) == line' = Remove(line, n) /\ permits' = permits \ {n}

(* The helper is called only after its audit record is on disk             *)
Dispatches(n, ok) ==
    /\ intent[n].st = "executing"
    /\ Records(n, <<"executing", "unknown">>, ok)
    /\ IF ok
       THEN /\ Moves(n, "running") /\ runs' = [runs EXCEPT ![n] = @ + 1]
            /\ UNCHANGED <<shown, shelf, line, permits>>
       ELSE /\ Moves(n, "over") /\ update_state(n, "unknown") /\ Leaves(n) /\ runs' = runs
    /\ UNCHANGED <<clock, cooling, failures, visit, tokens, drops>>

HelperAnswers(n, state) ==
    /\ intent[n].st = "running"
    /\ Moves(n, "finishing") /\ update_state(n, state)
    /\ UNCHANGED <<clock, line, trail, cooling, permits, failures, visit, tokens, auditFaults, runs, drops>>

Finishes(n, ok) ==
    /\ intent[n].st = "finishing"
    /\ Records(n, <<shown[n], "unknown">>, ok)
    /\ Moves(n, "over") /\ Leaves(n)
    /\ IF ok THEN UNCHANGED <<shown, shelf>> ELSE update_state(n, "unknown")
    /\ UNCHANGED <<clock, cooling, failures, visit, tokens, runs, drops>>
-----------------------------------------------------------------------------
ClockTicks ==
    /\ clock < MaxClock /\ clock' = clock + 1
    /\ UNCHANGED <<intent, line, shelf, shown, trail, cooling, permits, failures, visit, tokens,
                   auditFaults, runs, drops>>

(* Fifteen minutes pass; no submit stays between its steps that long       *)
CooldownEnds ==
    /\ cooling /\ \A n \in Intents : intent[n].st \notin {"consumed", "reserved", "admitted", "full"}
    /\ cooling' = FALSE /\ drops' = 0
    /\ UNCHANGED <<clock, intent, line, shelf, shown, trail, permits, failures, visit, tokens,
                   auditFaults, runs>>

(* prune: the five-minute window of the failures passes                    *)
prune(a) ==
    /\ failures[a] > 0 /\ failures' = [failures EXCEPT ![a] = 0]
    /\ UNCHANGED <<clock, intent, line, shelf, shown, trail, cooling, permits, visit, tokens,
                   auditFaults, runs, drops>>

HANext ==
    \/ \E n \in Intents, a \in Actors, c \in BOOLEAN : create_intent(n, a, c)
    \/ \E v \in Visitors, a \in Actors, n \in Intents : check_reauth_allowed(v, a, n)
    \/ \E v \in Visitors : record_reauth_failure(v)
    \/ \E v \in Visitors : approve(v)
    \/ \E n \in Intents, a \in Actors, k \in 1..tokens : consume(n, a, k)
    \/ \E n \in Intents : reserve_cache_cooldown(n)
    \/ \E n \in Intents : TryAcquire(n)
    \/ \E n \in Intents, ok \in BOOLEAN : SubmitDenied(n, ok)
    \/ \E n \in Intents, ok \in BOOLEAN : SubmitQueues(n, ok)
    \/ \E n \in Intents : TakesGate(n)
    \/ \E n \in Intents, ok \in BOOLEAN : Dispatches(n, ok)
    \/ \E n \in Intents, s \in {"succeeded", "denied"} : HelperAnswers(n, s)
    \/ \E n \in Intents, ok \in BOOLEAN : Finishes(n, ok)
    \/ ClockTicks
    \/ CooldownEnds
    \/ \E a \in Actors : prune(a)

HASpec == HAInit /\ [][HANext]_haVars
-----------------------------------------------------------------------------
(* The stores stay within their limits: the intents of an actor, the queue *)
(* permits, the executions kept, and the failures of an actor up to the    *)
(* requests that passed the limiter together.                              *)
ActionTypeOK ==
    /\ \A a \in Actors : Cardinality({n \in Intents : Kept(n) /\ ~Expired(intent[n]) /\ intent[n].actor = a}) <= IntentLimit
    /\ Cardinality(permits) <= QueueCap
    /\ Len(shelf) <= MaxExecutions
    /\ \A a \in Actors : failures[a] <= ReauthLimit + Cardinality(Visitors) - 1

(* An approval is spent once: no interleaving of approvals, submissions    *)
(* and retries dispatches an intent to the helper twice, and never two     *)
(* intents at a time.                                                      *)
OneShot ==
    /\ \A n \in Intents : runs[n] <= 1
    /\ Cardinality({n \in Intents : intent[n].st \in {"executing", "running", "finishing"}}) <= 1

(* What reached the helper is in the audit file as executing, and what the *)
(* client is shown at the end is there too, unless it is shown as unknown  *)
(* (run_execution's failures of the audit).                                *)
ShownIsAudited ==
    \A n \in Intents :
        /\ runs[n] > 0 => <<n, "executing">> \in trail
        /\ intent[n].st = "over" => shown[n] = "unknown" \/ <<n, shown[n]>> \in trail

(* An execution that waits or runs is never evicted from the executions,   *)
(* so its client is not told "executionLostOrUnknown" while it is active.  *)
ActiveIsListed == \A n \in Intents : intent[n].st \in Active => Listed(n)

(* At most one cache drop is accepted per cooldown, whoever asks and       *)
(* however refusals give their reservations back.                          *)
DropsAreSpaced == drops <= 1

(* Privileged actions run once, in turn, audited and listed (service.rs,   *)
(* approval.rs, audit.rs).                                                 *)
ActionsAccounted ==
    ActionTypeOK /\ OneShot /\ ShownIsAudited /\ ActiveIsListed /\ DropsAreSpaced
=============================================================================
