--------------------------- MODULE UsageTelemetry ---------------------------
(***************************************************************************)
(* Codex usage analytics (server/src/telemetry, server/src/api/usage.rs):  *)
(* exporters post events to the loopback collector, which hands them over  *)
(* a bounded queue to one worker thread that writes SQLite in batches.     *)
(* Settings changes and deletions run one at a time (telemetry_coordinator)*)
(* but concurrently with the exporters, the worker and the calendar.       *)
(***************************************************************************)
EXTENDS Integers, Sequences, FiniteSets, FiniteSetsExt, SequencesExt

CONSTANTS Exporters,    \* connections of Codex exporters
          UsageEvents,  \* [src, day, val]: identity, UTC day, cumulative count
          Days,         \* UTC days, 1..n
          Settings,     \* [on, paused, keep]: enabled, paused, detail days
          TelQueueCap, BatchLimit,
          MaxSends,     \* bound: deliveries accepted into the queue
          MaxOps,       \* bound: settings changes and deletions
          MaxWriteErrors

VARIABLES control,      \* TelemetryControl: enabled, closing, in_flight
          key,          \* the generation of the HMAC key
          live,         \* the runtime has a handle, a worker and a collector
          tqueue, batch,
          post,         \* what each exporter's request is doing
          store,        \* SQLite: events, rollups, session
          usage,        \* the published configuration
          op,           \* the request that holds telemetry_coordinator
          today, writeErrors, ops,
          sent,         \* history: deliveries accepted into the queue
          telGone,         \* history: deliveries a reported deletion covers
          ledger,       \* history: rows written and not deleted, per day
          unbacked      \* history: a rollback could not restore the runtime

telVars == <<control, key, live, tqueue, batch, post, store, usage, op, today,
             writeErrors, ops, sent, telGone, ledger, unbacked>>

NoPost == [pc |-> "idle"]
NoOp == [pc |-> "idle"]
NoSession == [val |-> -1, at |-> 0, count |-> 0]

TelInit ==
    /\ usage \in Settings
    /\ live = usage.on
    /\ control = [enabled |-> usage.on /\ ~usage.paused, closing |-> FALSE, inFlight |-> 0]
    /\ key = 0 /\ tqueue = <<>> /\ batch = <<>>
    /\ post = [x \in Exporters |-> NoPost]
    /\ store = [events |-> {}, rollups |-> [d \in Days |-> 0], session |-> NoSession]
    /\ op = NoOp /\ today = 1 /\ writeErrors = 0 /\ ops = 0
    /\ sent = 0 /\ telGone = {} /\ ledger = [d \in Days |-> 0] /\ unbacked = FALSE
-----------------------------------------------------------------------------
(* The collector: receive, normalize, try_record_codex_usage               *)

(* normalize fingerprints the event with the key of that moment            *)
Receive(x, e) ==
    /\ live /\ op.pc # "stopping"
    /\ post[x] = NoPost /\ sent < MaxSends /\ e.day <= today
    /\ post' = [post EXCEPT ![x] = [pc |-> "admit", event |-> e, key |-> key]]
    /\ UNCHANGED <<control, key, live, tqueue, batch, store, usage, op, today,
                   writeErrors, ops, sent, telGone, ledger, unbacked>>

(* try_admit: refused while a deletion closes the window, else counted ... *)
try_admit(x) ==
    /\ post[x].pc = "admit"
    /\ IF control.closing
       THEN post' = [post EXCEPT ![x] = NoPost] /\ UNCHANGED control
       ELSE /\ control' = [control EXCEPT !.inFlight = @ + 1]
            /\ post' = [post EXCEPT ![x].pc = "recheck"]
    /\ UNCHANGED <<key, live, tqueue, batch, store, usage, op, today, writeErrors,
                   ops, sent, telGone, ledger, unbacked>>

(* ... and looked at again once counted.                                   *)
admit_recheck(x) ==
    /\ post[x].pc = "recheck"
    /\ IF control.closing
       THEN /\ control' = [control EXCEPT !.inFlight = @ - 1]
            /\ post' = [post EXCEPT ![x] = NoPost]
       ELSE post' = [post EXCEPT ![x].pc = "send"] /\ UNCHANGED control
    /\ UNCHANGED <<key, live, tqueue, batch, store, usage, op, today, writeErrors,
                   ops, sent, telGone, ledger, unbacked>>

(* Paused and full answers leave the queue alone; the guard is dropped.    *)
try_send(x) ==
    /\ post[x].pc = "send"
    /\ control' = [control EXCEPT !.inFlight = @ - 1]
    /\ post' = [post EXCEPT ![x] = NoPost]
    /\ IF control.enabled /\ Len(tqueue) < TelQueueCap
       THEN /\ sent' = sent + 1
            /\ tqueue' = Append(tqueue, [t |-> "event", no |-> sent + 1,
                                         event |-> post[x].event, key |-> post[x].key])
       ELSE UNCHANGED <<tqueue, sent>>
    /\ UNCHANGED <<key, live, batch, store, usage, op, today, writeErrors, ops,
                   telGone, ledger, unbacked>>
-----------------------------------------------------------------------------
(* TelemetryStore.  A row is the fingerprint, the day and the delivery.    *)

Rows(s, d) == {r \in s.events : r.day = d}

\* Mutant: the latest delivery wins, whatever its time.
apply_session_event_LastWins(ses, e) ==
    IF ses = NoSession THEN [val |-> e.val, at |-> e.day, count |-> 1]
    ELSE [val |-> e.val, at |-> Max({ses.at, e.day}), count |-> ses.count + 1]

(* apply_session_event for one cumulative counter: a stale or regressing   *)
(* observation leaves the summary's count, a newer one replaces it.        *)
apply_session_event(ses, e) ==
    LET accepted == e.day >= ses.at /\ e.val >= ses.val
                    /\ (e.day = ses.at => e.val = ses.val)
    IN IF ses = NoSession THEN [val |-> e.val, at |-> e.day, count |-> 1]
       ELSE [val |-> IF accepted THEN e.val ELSE ses.val,
             at |-> Max({ses.at, e.day}),
             count |-> ses.count + IF accepted THEN 1 ELSE 0]

(* write_codex_event: ON CONFLICT(dedupe_id) DO NOTHING                    *)
write_codex_event(s, c) ==
    IF \E r \in s.events : r.key = c.key /\ r.src = c.event.src THEN s
    ELSE [s EXCEPT !.events = @ \cup {[key |-> c.key, src |-> c.event.src,
                                       day |-> c.event.day, no |-> c.no]},
                   !.session = apply_session_event(@, c.event)]
write_batch(s, b) == FoldLeft(write_codex_event, s, b)

\* Mutant: the purge takes the cutoff day as well, the rollup does not.
rollup_and_purge_CutoffLost(s, keep) ==
    LET cutoff == today - keep
        kept == {r \in s.events : r.day > cutoff}
    IN [s EXCEPT !.rollups = [d \in Days |-> @[d] + IF d < cutoff
                                 THEN Cardinality(Rows(s, d)) ELSE 0],
                 !.events = kept,
                 !.session = IF @.at < cutoff /\ kept = {} THEN NoSession ELSE @]

(* rollup_and_purge: whole days before the cutoff move to the rollups      *)
rollup_and_purge(s, keep) ==
    LET cutoff == today - keep
        kept == {r \in s.events : r.day >= cutoff}
    IN [s EXCEPT !.rollups = [d \in Days |-> @[d] + IF d < cutoff
                                 THEN Cardinality(Rows(s, d)) ELSE 0],
                 !.events = kept,
                 !.session = IF @.at < cutoff /\ kept = {} THEN NoSession ELSE @]

(* delete_range: everything, or the days [from, to) with the summary of a  *)
(* session that touches them.                                              *)
delete_range(s, range) ==
    IF range = Days THEN [events |-> {}, rollups |-> [d \in Days |-> 0],
                          session |-> NoSession]
    ELSE [events |-> {r \in s.events : r.day \notin range},
          rollups |-> [d \in Days |-> IF d \in range THEN 0 ELSE s.rollups[d]],
          session |-> IF s.session.at \in range
                         \/ \E r \in s.events : r.day \in range
                      THEN NoSession ELSE s.session]

Held(s) == [d \in Days |-> Cardinality(Rows(s, d)) + s.rollups[d]]
Added(s, b) == [d \in Days |-> ledger[d] + Cardinality(Rows(write_batch(s, b), d))
                                         - Cardinality(Rows(s, d))]
Removed(l, range) == [d \in Days |-> IF d \in range THEN 0 ELSE l[d]]

(* flush: the whole batch in one transaction, or a counted writer error    *)
Flushed(b, ok) == IF ok THEN write_batch(store, b) ELSE store
Flush(b, ok) ==
    /\ ok \/ (b # <<>> /\ writeErrors < MaxWriteErrors)
    /\ writeErrors' = IF ok THEN writeErrors ELSE writeErrors + 1
    /\ batch' = <<>>
-----------------------------------------------------------------------------
(* The worker thread *)

Head_(t) == live /\ tqueue # <<>> /\ Head(tqueue).t = t

WorkerTakes ==
    /\ Head_("event") /\ Len(batch) + 1 < BatchLimit
    /\ batch' = Append(batch, Head(tqueue)) /\ tqueue' = Tail(tqueue)
    /\ UNCHANGED <<control, key, live, post, store, usage, op, today, writeErrors,
                   ops, sent, telGone, ledger, unbacked>>

WorkerFills(ok) ==
    /\ Head_("event") /\ Len(batch) + 1 >= BatchLimit
    /\ LET full == Append(batch, Head(tqueue)) IN
        /\ Flush(full, ok)
        /\ store' = Flushed(full, ok)
        /\ ledger' = IF ok THEN Added(store, full) ELSE ledger
    /\ tqueue' = Tail(tqueue)
    /\ UNCHANGED <<control, key, live, post, usage, op, today, ops, sent, telGone,
                   unbacked>>

WorkerTimer(ok) ==
    /\ live /\ batch # <<>>
    /\ Flush(batch, ok)
    /\ store' = Flushed(batch, ok)
    /\ ledger' = IF ok THEN Added(store, batch) ELSE ledger
    /\ UNCHANGED <<control, key, live, tqueue, post, usage, op, today, ops, sent,
                   telGone, unbacked>>

Answers(id) ==
    op' = IF op.pc = "wait" /\ op.id = id THEN [op EXCEPT !.pc = "answered"] ELSE op

WorkerDeletes(ok) ==
    /\ Head_("delete")
    /\ LET c == Head(tqueue)
           base == Flushed(batch, ok)
       IN /\ Flush(batch, ok)
          /\ store' = delete_range(base, c.range)
          /\ ledger' = Removed(IF ok THEN Added(store, batch) ELSE ledger, c.range)
          /\ Answers(c.id)
    /\ tqueue' = Tail(tqueue)
    /\ UNCHANGED <<control, key, live, post, usage, today, ops, sent, telGone, unbacked>>

WorkerRetains(ok) ==
    /\ Head_("retain")
    /\ LET c == Head(tqueue)
           base == Flushed(batch, ok)
       IN /\ Flush(batch, ok)
          /\ store' = rollup_and_purge(base, c.keep)
          /\ ledger' = IF ok THEN Added(store, batch) ELSE ledger
          /\ Answers(c.id)
    /\ tqueue' = Tail(tqueue)
    /\ UNCHANGED <<control, key, live, post, usage, today, ops, sent, telGone, unbacked>>
-----------------------------------------------------------------------------
(* DELETE /api/usage *)

DeleteStarts(range) ==
    /\ op = NoOp /\ ops < MaxOps
    /\ ops' = ops + 1
    /\ op' = [pc |-> "close", kind |-> "delete", id |-> ops + 1, range |-> range,
              was |-> control.enabled, before |-> sent]
    /\ UNCHANGED <<control, key, live, tqueue, batch, post, store, usage, today,
                   writeErrors, sent, telGone, ledger, unbacked>>

(* with_exclusive_admission: the window closes, admitted sends drain ...   *)
DeleteCloses ==
    /\ op.pc = "close"
    /\ control' = [control EXCEPT !.closing = TRUE]
    /\ op' = [op EXCEPT !.pc = "drain"]
    /\ UNCHANGED <<key, live, tqueue, batch, post, store, usage, today, writeErrors,
                   ops, sent, telGone, ledger, unbacked>>

(* ... capture is paused, and execute_delete queues the barrier (or, with  *)
(* no worker, deletes in place).                                           *)
DeleteDrains ==
    /\ op.pc = "drain" /\ control.inFlight = 0
    /\ IF live
       THEN /\ Len(tqueue) < TelQueueCap
            /\ tqueue' = Append(tqueue, [t |-> "delete", id |-> op.id, range |-> op.range])
            /\ op' = [op EXCEPT !.pc = "wait"]
            /\ UNCHANGED <<store, ledger>>
       ELSE /\ store' = delete_range(store, op.range)
            /\ ledger' = Removed(ledger, op.range)
            /\ op' = [op EXCEPT !.pc = "answered"]
            /\ UNCHANGED tqueue
    /\ control' = [control EXCEPT !.enabled = FALSE]
    /\ UNCHANGED <<key, live, batch, post, usage, today, writeErrors, ops, sent, telGone,
                   unbacked>>

(* rotate_hmac_key_after_delete, before the window opens again; it may fail *)
DeleteRotates(ok) ==
    /\ op.pc = "answered" /\ op.kind = "delete"
    /\ key' = IF ok /\ op.range = Days THEN key + 1 ELSE key
    /\ control' = [control EXCEPT !.closing = FALSE]
    /\ telGone' = IF ok /\ op.range = Days THEN telGone \cup 1..op.before ELSE telGone
    /\ op' = [op EXCEPT !.pc = "restore"]
    /\ UNCHANGED <<live, tqueue, batch, post, store, usage, today, writeErrors, ops,
                   sent, ledger, unbacked>>

(* The deletion failed, or recv_timeout expired with the barrier queued.   *)
DeleteTimesOut ==
    /\ op.pc = "wait" /\ op.kind = "delete"
    /\ control' = [control EXCEPT !.closing = FALSE]
    /\ op' = [op EXCEPT !.pc = "restore"]
    /\ UNCHANGED <<key, live, tqueue, batch, post, store, usage, today, writeErrors,
                   ops, sent, telGone, ledger, unbacked>>

DeleteRestores ==
    /\ op.pc = "restore"
    /\ control' = [control EXCEPT !.enabled = op.was]
    /\ op' = NoOp
    /\ UNCHANGED <<key, live, tqueue, batch, post, store, usage, today, writeErrors,
                   ops, sent, telGone, ledger, unbacked>>
-----------------------------------------------------------------------------
(* PATCH /api/usage/settings: the runtime first, then the file.  `from` is *)
(* the configuration the runtime has, `to` the one it is taking, `undo`    *)
(* whether this is restore_config after a failure.                         *)

SettingsStart(c) ==
    /\ op = NoOp /\ ops < MaxOps /\ c # usage
    /\ ops' = ops + 1
    /\ op' = [pc |-> "apply", kind |-> "settings", id |-> ops + 1, from |-> usage,
              to |-> c, undo |-> FALSE]
    /\ UNCHANGED <<control, key, live, tqueue, batch, post, store, usage, today,
                   writeErrors, sent, telGone, ledger, unbacked>>

(* disable_locked: the collector stops gracefully, the worker drains the   *)
(* queue, flushes and ends.                                                *)
Disable ==
    /\ op.pc = "apply" /\ ~op.to.on
    /\ op' = [op EXCEPT !.pc = "stopping"]
    /\ UNCHANGED <<control, key, live, tqueue, batch, post, store, usage, today,
                   writeErrors, ops, sent, telGone, ledger, unbacked>>

DisableEnds ==
    /\ op.pc = "stopping" /\ \A x \in Exporters : post[x] = NoPost
    /\ tqueue = <<>> /\ batch = <<>>
    /\ live' = FALSE
    /\ control' = [enabled |-> FALSE, closing |-> FALSE, inFlight |-> 0]
    /\ op' = [op EXCEPT !.pc = "applied"]
    /\ UNCHANGED <<key, tqueue, batch, post, store, usage, today, writeErrors, ops,
                   sent, telGone, ledger, unbacked>>

(* activate_locked: the store opens with its data and retention is applied *)
(* before the handle is published.                                         *)
Activate ==
    /\ op.pc = "apply" /\ op.to.on /\ ~live
    /\ store' = rollup_and_purge(store, op.to.keep)
    /\ live' = TRUE
    /\ control' = [enabled |-> ~op.to.paused, closing |-> FALSE, inFlight |-> 0]
    /\ op' = [op EXCEPT !.pc = "applied"]
    /\ UNCHANGED <<key, tqueue, batch, post, usage, today, writeErrors, ops, sent,
                   telGone, ledger, unbacked>>

(* A step of apply_config failed: the request ends with the old file, or a *)
(* rollback is given up (the error is only logged).                        *)
ApplyFails ==
    /\ op.pc = "apply" /\ op.to.on /\ ~live
    /\ unbacked' = (unbacked \/ op.undo)
    /\ op' = NoOp
    /\ UNCHANGED <<control, key, live, tqueue, batch, post, store, usage, today,
                   writeErrors, ops, sent, telGone, ledger>>

Retain ==
    /\ op.pc = "apply" /\ op.to.on /\ live /\ op.from.keep # op.to.keep
    /\ Len(tqueue) < TelQueueCap
    /\ tqueue' = Append(tqueue, [t |-> "retain", id |-> op.id, keep |-> op.to.keep])
    /\ op' = [op EXCEPT !.pc = "wait"]
    /\ UNCHANGED <<control, key, live, batch, post, store, usage, today, writeErrors,
                   ops, sent, telGone, ledger, unbacked>>

RetainTimesOut ==
    /\ op.pc = "wait" /\ op.kind = "settings"
    /\ op' = NoOp
    /\ unbacked' = (unbacked \/ op.undo)
    /\ UNCHANGED <<control, key, live, tqueue, batch, post, store, usage, today,
                   writeErrors, ops, sent, telGone, ledger>>

SetEnabled ==
    /\ \/ op.pc = "apply" /\ op.to.on /\ live /\ op.from.keep = op.to.keep
       \/ op.pc = "answered" /\ op.kind = "settings"
    /\ control' = [control EXCEPT !.enabled = ~op.to.paused]
    /\ op' = [op EXCEPT !.pc = "applied"]
    /\ UNCHANGED <<key, live, tqueue, batch, post, store, usage, today, writeErrors,
                   ops, sent, telGone, ledger, unbacked>>

(* write_config and the published configuration *)
SettingsSave ==
    /\ op.pc = "applied"
    /\ usage' = IF op.undo THEN usage ELSE op.to
    /\ op' = NoOp
    /\ UNCHANGED <<control, key, live, tqueue, batch, post, store, today, writeErrors,
                   ops, sent, telGone, ledger, unbacked>>

(* The exporter's file or ours could not be written: restore_config        *)
SettingsFail ==
    /\ op.pc = "applied" /\ ~op.undo
    /\ op' = [op EXCEPT !.pc = "apply", !.from = op.to, !.to = op.from, !.undo = TRUE,
                        !.id = MaxOps + @]
    /\ UNCHANGED <<control, key, live, tqueue, batch, post, store, usage, today,
                   writeErrors, ops, sent, telGone, ledger, unbacked>>

NextDay ==
    /\ today + 1 \in Days /\ today' = today + 1
    /\ UNCHANGED <<control, key, live, tqueue, batch, post, store, usage, op,
                   writeErrors, ops, sent, telGone, ledger, unbacked>>

TelNext ==
    \/ \E x \in Exporters, e \in UsageEvents : Receive(x, e)
    \/ \E x \in Exporters : try_admit(x)
    \/ \E x \in Exporters : admit_recheck(x)
    \/ \E x \in Exporters : try_send(x)
    \/ WorkerTakes
    \/ \E ok \in BOOLEAN : WorkerFills(ok)
    \/ \E ok \in BOOLEAN : WorkerTimer(ok)
    \/ \E ok \in BOOLEAN : WorkerDeletes(ok)
    \/ \E ok \in BOOLEAN : WorkerRetains(ok)
    \/ \E range \in {Days} \cup {{d} : d \in Days} : DeleteStarts(range)
    \/ DeleteCloses \/ DeleteDrains \/ DeleteTimesOut \/ DeleteRestores
    \/ \E ok \in BOOLEAN : DeleteRotates(ok)
    \/ \E c \in Settings : SettingsStart(c)
    \/ Disable \/ DisableEnds \/ Activate \/ ApplyFails \/ Retain \/ RetainTimesOut
    \/ SetEnabled \/ SettingsSave \/ SettingsFail \/ NextDay

TelSpec == TelInit /\ [][TelNext]_telVars
-----------------------------------------------------------------------------
(* Types, the queue's capacity and the batch's limit.                      *)
TelTypeOK ==
    /\ control \in [enabled : BOOLEAN, closing : BOOLEAN,
                    inFlight : 0..Cardinality(Exporters)]
    /\ live \in BOOLEAN /\ usage \in Settings /\ today \in Days
    /\ Len(tqueue) <= TelQueueCap /\ Len(batch) < BatchLimit
    /\ store.rollups \in [Days -> Nat] /\ key \in 0..MaxOps

(* A full deletion that answered "deleted" leaves nothing of what the      *)
(* collector had accepted before the request: not in the store, the        *)
(* worker's batch or the queue, whatever was in flight (delete_all,        *)
(* with_exclusive_admission, TelemetryWorker::run).                        *)
DeletionIsComplete ==
    /\ \A r \in store.events : r.no \notin telGone
    /\ \A i \in DOMAIN batch : batch[i].no \notin telGone
    /\ \A i \in DOMAIN tqueue : tqueue[i].t = "event" => tqueue[i].no \notin telGone

(* A row is counted once, as detail or in its day's rollup, from the write *)
(* to a deletion that covers its day: purges neither lose nor repeat it.   *)
LedgerBalances == Held(store) = ledger

(* Once a request is over, the runtime is as the published configuration   *)
(* says, however the request ended: a deletion restores the admission      *)
(* state, a failed settings change restores the previous one.              *)
LiveMatchesConfig ==
    op = NoOp /\ ~unbacked =>
        /\ live = usage.on
        /\ live => control.enabled = ~usage.paused
        /\ ~control.closing

(* The session summary never runs ahead of or behind its newest accepted   *)
(* observation when cumulative counters arrive out of order.               *)
SummaryNeverRegresses ==
    [][store.session # NoSession /\ store'.session # NoSession
         => store'.session.val >= store.session.val]_telVars

(* Usage is counted once, forgotten when asked, and collected as the       *)
(* configuration says (telemetry/runtime.rs, worker.rs, store.rs, usage.rs).*)
UsageIsAccounted == TelTypeOK /\ DeletionIsComplete /\ LedgerBalances /\ LiveMatchesConfig
=============================================================================
