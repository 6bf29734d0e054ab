----------------------------- MODULE HostAlerts -----------------------------
(***************************************************************************)
(* The host resource monitor (server/src/system/monitor.rs) and its two    *)
(* alert engines (server/src/system/alerts.rs).  One task collects a deep  *)
(* snapshot under a deadline and a legacy sample, and publishes both with  *)
(* `update`; requests reconfigure it at any time.  Time is kept as ages    *)
(* (units since a mark was set), so nothing grows with the clock.          *)
(***************************************************************************)
EXTENDS Integers, Sequences, FiniteSets, FiniteSetsExt, SequencesExt

CONSTANTS Samples,      \* memory samples the source can produce, see Sample
          Keys,         \* resource targets, as their rank in key order
          Thermal,      \* the temperature targets; the others are disks
          Configs,      \* [ring, max]: ring_capacity, max_alert_incidents
          FastEntry, SlowEntry, Recovery, OomRecovery, Cooldown, ThermalEntry,
          MaxStep,      \* bound: units between two samples
          MaxIncident,  \* bound: incidents opened per engine
          MaxReconfig   \* bound: calls of reconfigure

VARIABLES engine,       \* AlertEngineState
          alerts,         \* ResourceAlertEngineState.targets
          rnext,        \* ResourceAlertEngineState.next_incident
          published,        \* the published part of MonitorCache
          config, generation,
          late,         \* pending_collection: none, running or finished
          pub,          \* the update under way
          reconf,       \* the reconfigure call under way
          calls,        \* reconfigure calls so far
          announced,    \* the last host:alertChanged, as a client shows it
          streak,       \* history: what the samples said, and for how long
          orphans       \* history: open incidents dropped by reconfigure

hostVars == <<engine, alerts, rnext, published, config, generation, late, pub,
              reconf, calls, announced, streak, orphans>>

AlertStates == {"healthy", "cacheHigh", "elevated", "pressure", "oomRisk",
                "limited"}

(* A sample by the thresholds its values reach.  -1: the value is missing. *)
(* avail: below oom, critical, warning, warning+5, or above.  some, full:  *)
(* below half the threshold, below it, above it, in the OOM range.  cache: *)
(* below threshold-5, below it, above it.  oom: the cgroup OOM total.      *)
Sample == [avail : -1..4, some : -1..3, full : -1..3, cache : -1..2, oom : -1..1]

ASSUME HostConstants ==
    /\ Samples \subseteq Sample
    /\ Keys \subseteq Nat /\ IsFiniteSet(Keys) /\ Thermal \subseteq Keys
    /\ Configs \subseteq [ring : Nat \ {0}, max : Nat \ {0}]
    /\ 0 < FastEntry /\ FastEntry <= SlowEntry
    /\ 0 < Recovery /\ Recovery <= OomRecovery

NoSample == <<>>
NoUpdate == [pc |-> "idle"]
NoReconf == [pc |-> "idle"]
NoAlerts == [age |-> -1, id |-> 0]

MemoryKnown(s) == s.avail # -1
PsiKnown(s) == s.some # -1 \/ s.full # -1

state_rank(a) ==
    CASE a = "healthy" -> 0 [] a \in {"cacheHigh", "limited"} -> 1
      [] a = "elevated" -> 2 [] a = "pressure" -> 3 [] a = "oomRisk" -> 4

oom_delta(e, s) == s.oom # -1 /\ e.lastOom # -1 /\ s.oom > e.lastOom

classify(s, delta) ==
    CASE ~MemoryKnown(s) /\ ~PsiKnown(s) -> "limited"
      [] delta \/ (s.avail = 0 /\ (s.some = 3 \/ s.full = 3)) -> "oomRisk"
      [] s.avail \in {0, 1} \/ s.some >= 2 \/ s.full >= 2 -> "pressure"
      [] s.avail = 2 -> "elevated"
      [] s.cache = 2 /\ s.avail >= 3 /\ PsiKnown(s) -> "cacheHigh"
      [] OTHER -> "healthy"

entry_duration(a, s, delta) ==
    IF delta \/ a \in {"limited", "healthy"} THEN 0
    ELSE IF a = "oomRisk" \/ (a = "pressure" /\ s.full >= 2)
         THEN FastEntry ELSE SlowEntry

recovery_met(a, s) ==
    LET calm == s.avail >= 3 /\ s.some <= 0 /\ s.full <= 0
    IN CASE a = "cacheHigh" -> s.cache <= 0
         [] a = "elevated" -> s.avail = 4
         [] a = "pressure" -> calm
         [] a = "oomRisk" -> s.oom # -1 /\ calm
         [] OTHER -> FALSE

recovery_duration(a) == IF a = "oomRisk" THEN OomRecovery ELSE Recovery

Healthy == [current |-> "healthy", cand |-> "none", candAge |-> 0,
            recAge |-> -1, recSamples |-> 0, id |-> 0, next |-> 1,
            cool |-> 0, lastOom |-> -1]

(* Ages are capped where no test tells larger ones apart. *)
Older(age, dt) == Min({age + dt, OomRecovery})
Grow(e, dt) ==
    [e EXCEPT !.candAge = IF e.cand = "none" THEN 0 ELSE Older(@, dt),
              !.recAge = IF @ = -1 THEN -1 ELSE Older(@, dt),
              !.cool = Max({0, @ - dt})]
GrowLife(l, dt) ==
    [k \in Keys |-> [l[k] EXCEPT !.age = IF @ = -1 THEN -1
                                         ELSE Min({@ + dt, ThermalEntry})]]

Entry(id, a, done) == [id |-> id, state |-> a, resolved |-> done]

(* transition: the state it leaves, the change it announces (or none) and  *)
(* the incident it records (or none).                                      *)
transition(e, a) ==
    LET base == [e EXCEPT !.current = a, !.cand = "none", !.candAge = 0,
                          !.recAge = -1, !.recSamples = 0]
        opens == e.current = "healthy" /\ a # "healthy"
        closes == e.current # "healthy" /\ a = "healthy"
    IN IF opens THEN
            [next |-> [base EXCEPT !.id = e.next, !.next = e.next + 1],
             change |-> e.cool = 0,
             incident |-> <<Entry(e.next, a, FALSE)>>]
       ELSE IF closes THEN
            [next |-> [base EXCEPT !.id = 0, !.cool = Cooldown],
             change |-> TRUE,
             incident |-> <<Entry(e.id, a, TRUE)>>]
       ELSE [next |-> base, change |-> e.current # a,
             incident |-> IF e.current # a THEN <<Entry(e.id, a, FALSE)>>
                          ELSE <<>>]

Quiet(e) == [next |-> e, change |-> FALSE, incident |-> <<>>]

\* Mutant: a candidate keeps its age through samples that deny it.
advance_KeepsCandidate(e, s) ==
    LET delta == oom_delta(e, s)
        target == classify(s, delta)
        p == [e EXCEPT !.lastOom = s.oom]
        since == e.candAge
        calm == IF e.recAge = -1 THEN 0 ELSE e.recAge
    IN CASE target = e.current -> Quiet([p EXCEPT !.recAge = -1])
         [] target # e.current /\ target = "limited" -> transition(p, target)
         [] target # e.current /\ target # "limited" /\ e.current = "limited" ->
              LET n == [p EXCEPT !.recSamples = Min({@ + 1, 2})]
              IN IF n.recSamples >= 2 THEN transition(n, target) ELSE Quiet(n)
         [] target # e.current /\ "limited" \notin {target, e.current}
              /\ (state_rank(target) > state_rank(e.current) \/ e.current = "healthy") ->
              LET n == [p EXCEPT !.recAge = -1, !.cand = target, !.candAge = since]
              IN IF since >= entry_duration(target, s, delta)
                 THEN transition(n, target) ELSE Quiet(n)
         [] OTHER ->
              IF ~recovery_met(e.current, s) THEN Quiet([p EXCEPT !.recAge = -1])
              ELSE IF calm >= recovery_duration(e.current)
                   THEN transition([p EXCEPT !.recAge = calm], "healthy")
                   ELSE Quiet([p EXCEPT !.recAge = calm])

(* advance_with_thresholds *)
advance(e, s) ==
    LET delta == oom_delta(e, s)
        target == classify(s, delta)
        p == [e EXCEPT !.lastOom = s.oom]
        since == IF e.cand = target THEN e.candAge ELSE 0
        calm == IF e.recAge = -1 THEN 0 ELSE e.recAge
    IN CASE target = e.current ->
              Quiet([p EXCEPT !.cand = "none", !.candAge = 0, !.recAge = -1,
                              !.recSamples = IF target = "limited" THEN 0 ELSE @])
         [] target # e.current /\ target = "limited" -> transition(p, target)
         [] target # e.current /\ target # "limited" /\ e.current = "limited" ->
              LET n == [p EXCEPT !.recSamples = Min({@ + 1, 2})]
              IN IF n.recSamples >= 2 THEN transition(n, target) ELSE Quiet(n)
         [] target # e.current /\ "limited" \notin {target, e.current}
              /\ (state_rank(target) > state_rank(e.current) \/ e.current = "healthy") ->
              LET n == [p EXCEPT !.recAge = -1, !.cand = target, !.candAge = since]
              IN IF since >= entry_duration(target, s, delta)
                 THEN transition(n, target) ELSE Quiet(n)
         [] OTHER ->
              IF ~recovery_met(e.current, s) THEN Quiet([p EXCEPT !.recAge = -1])
              ELSE IF calm >= recovery_duration(e.current)
                   THEN transition([p EXCEPT !.recAge = calm], "healthy")
                   ELSE Quiet([p EXCEPT !.recAge = calm])
-----------------------------------------------------------------------------
(* Resource targets *)

First(S, n) == {k \in S : Cardinality({j \in S : j < k}) < n}
resource_entry_duration(k) == IF k \in Thermal THEN ThermalEntry ELSE 0
Tracked(l) == {k \in Keys : l[k].age # -1}
AlertActive(l) == {k \in Keys : l[k].id # 0}

(* ResourceAlertEngineState::advance: targets whose condition ended are    *)
(* removed, new ones admitted in key order up to the capacity, and those   *)
(* due are opened in key order.                                            *)
ResourceAdvance(l, cond, cap) ==
    LET kept == Tracked(l) \cap cond
        room == IF cap > Cardinality(kept) THEN cap - Cardinality(kept) ELSE 0
        held == kept \cup First(cond \ kept, room)
        age(k) == IF k \in kept THEN l[k].age ELSE 0
        due == {k \in held : (k \in kept => l[k].id = 0)
                             /\ age(k) >= resource_entry_duration(k)}
        id(k) == rnext + Cardinality({j \in due : j < k})
    IN [next |-> [k \in Keys |->
                    IF k \notin held THEN NoAlerts
                    ELSE [age |-> age(k),
                          id |-> IF k \in due THEN id(k)
                                 ELSE IF k \in kept THEN l[k].id ELSE 0]],
        opened |-> due,
        incidents |->
            LET Order(S) == SetToSortSeq(S, <)
                closed == Order(AlertActive(l) \ kept)
                fresh == Order(due)
            IN [i \in 1..Len(closed) |-> Entry(l[closed[i]].id, closed[i], TRUE)]
               \o [i \in 1..Len(fresh) |-> Entry(id(fresh[i]), fresh[i], FALSE)]]

\* Mutant: an incident that changes is appended again.
update_incident_Appends(h, i) == Append(h, i)

(* update_incident: replace the entry with this id, or append it *)
update_incident(h, i) ==
    IF \E n \in DOMAIN h : h[n].id = i.id
    THEN [n \in DOMAIN h |-> IF h[n].id = i.id THEN i ELSE h[n]]
    ELSE Append(h, i)
Recorded(h, is) == FoldLeft(update_incident, h, is)
Trim(h, n) == IF Len(h) > n THEN SubSeq(h, Len(h) - n + 1, Len(h)) ELSE h

retain_targets(l, n) ==
    [k \in Keys |-> IF k \in First(Tracked(l), n) THEN l[k] ELSE NoAlerts]
-----------------------------------------------------------------------------
HostInit ==
    /\ engine = Healthy
    /\ alerts = [k \in Keys |-> NoAlerts]
    /\ rnext = 1
    /\ published = [ring |-> 0, incidents |-> <<>>, alert |-> Entry(0, "healthy", FALSE),
                    shown |-> {}, rincidents |-> <<>>]
    /\ config \in Configs /\ generation = 0
    /\ late = "none" /\ pub = NoUpdate /\ reconf = NoReconf /\ calls = 0
    /\ announced = Entry(0, "healthy", FALSE)
    /\ streak = [target |-> "healthy", age |-> 0]
    /\ orphans = {}

Running(dt) ==
    /\ pub = NoUpdate
    /\ engine.next <= MaxIncident
    /\ rnext + Cardinality(Keys) <= MaxIncident + 1
    /\ dt \in 1..MaxStep

(* One pass of run: what the collection and the legacy sampler returned.   *)
Collected(s, cond, dt) ==
    /\ Running(dt)
    /\ pub' = [pc |-> "config", sample |-> s, cond |-> cond]
    /\ engine' = Grow(engine, dt)
    /\ alerts' = GrowLife(alerts, dt)
    /\ streak' = [streak EXCEPT !.age = Older(@, dt)]
    /\ UNCHANGED <<rnext, published, config, generation, reconf, calls, announced,
                   orphans>>

(* The collection ended in time; a finished late one is reaped first and   *)
(* its snapshot thrown away.                                               *)
CollectInTime(s, cond, dt) ==
    /\ late # "running" /\ late' = "none"
    /\ Collected(<<s>>, cond, dt)

(* The deadline passed: deadline_snapshot is published with no observation *)
(* and the collection is left to finish.                                   *)
CollectLate(cond, dt) ==
    /\ late # "running" /\ late' = "running"
    /\ Collected(NoSample, cond, dt)

(* The collection task failed: the same snapshot, nothing left running.    *)
CollectFails(cond, dt) ==
    /\ late # "running" /\ late' = "none"
    /\ Collected(NoSample, cond, dt)

(* A collection is still running: only the legacy sample is new.           *)
StillPending(cond, dt) ==
    /\ late = "running" /\ UNCHANGED late
    /\ Collected(NoSample, cond, dt)

LateFinishes ==
    /\ late = "running" /\ late' = "finished"
    /\ UNCHANGED <<engine, alerts, rnext, published, config, generation, pub, reconf,
                   calls, announced, streak, orphans>>

UpdateReadsConfig ==
    /\ pub.pc = "config"
    /\ pub' = [pub EXCEPT !.pc = "generation"] @@ [config |-> config]
    /\ UNCHANGED <<engine, alerts, rnext, published, config, generation, late, reconf,
                   calls, announced, streak, orphans>>

UpdateReadsGeneration ==
    /\ pub.pc = "generation"
    /\ pub' = [pub EXCEPT !.pc = "publish"] @@ [gen |-> generation]
    /\ UNCHANGED <<engine, alerts, rnext, published, config, generation, late, reconf,
                   calls, announced, streak, orphans>>

UpdateRetries ==
    /\ pub.pc = "publish" /\ pub.gen # generation
    /\ pub' = [pc |-> "config", sample |-> pub.sample, cond |-> pub.cond]
    /\ UNCHANGED <<engine, alerts, rnext, published, config, generation, late, reconf,
                   calls, announced, streak, orphans>>

(* The cache lock is held and the generation is the one read: the rest of  *)
(* update, down to the events sent once the lock is dropped.               *)
UpdatePublishes ==
    /\ pub.pc = "publish" /\ pub.gen = generation
    /\ LET fed == pub.sample # NoSample
           t == IF fed THEN advance(engine, pub.sample[1]) ELSE Quiet(engine)
           r == ResourceAdvance(alerts, pub.cond, pub.config.max)
           cap == pub.config.max
           target == IF fed THEN classify(pub.sample[1], oom_delta(engine, pub.sample[1]))
                     ELSE streak.target
       IN /\ engine' = t.next
          /\ alerts' = retain_targets(r.next, cap)
          /\ rnext' = rnext + Cardinality(r.opened)
          /\ published' = [ring |-> IF fed THEN Min({published.ring + 1, pub.config.ring})
                                    ELSE published.ring,
                           incidents |-> Trim(Recorded(published.incidents, t.incident), cap),
                           alert |-> IF fed THEN Entry(t.next.id, t.next.current, FALSE)
                                     ELSE published.alert,
                           shown |-> First(AlertActive(r.next), cap),
                           rincidents |-> Trim(Recorded(published.rincidents, r.incidents), cap)]
          /\ announced' = IF t.change THEN Entry(t.next.id, t.next.current, FALSE)
                          ELSE announced
          /\ streak' = IF target = streak.target THEN streak
                       ELSE [target |-> target, age |-> 0]
          /\ orphans' = orphans \cup
                {r.next[k].id : k \in AlertActive(r.next) \ AlertActive(retain_targets(r.next, cap))}
    /\ pub' = NoUpdate
    /\ UNCHANGED <<config, generation, late, reconf, calls>>

ReconfigureWrites(c) ==
    /\ reconf = NoReconf /\ calls < MaxReconfig
    /\ calls' = calls + 1
    /\ config' = c
    /\ reconf' = [pc |-> "bump", config |-> c]
    /\ UNCHANGED <<engine, alerts, rnext, published, generation, late, pub, announced,
                   streak, orphans>>

ReconfigureBumps ==
    /\ reconf.pc = "bump"
    /\ generation' = generation + 1
    /\ reconf' = [reconf EXCEPT !.pc = "trim"]
    /\ UNCHANGED <<engine, alerts, rnext, published, config, late, pub, calls,
                   announced, streak, orphans>>

(* trim_resource_alert_retention and the two ring trims, under the lock    *)
ReconfigureTrims ==
    /\ reconf.pc = "trim"
    /\ LET cap == reconf.config.max IN
        /\ published' = [published EXCEPT !.ring = Min({@, reconf.config.ring}),
                                          !.incidents = Trim(@, cap),
                                          !.shown = First(@, cap),
                                          !.rincidents = Trim(@, cap)]
        /\ alerts' = retain_targets(alerts, cap)
        /\ orphans' = orphans \cup {alerts[k].id : k \in AlertActive(alerts) \ AlertActive(alerts')}
    /\ reconf' = NoReconf
    /\ UNCHANGED <<engine, rnext, config, generation, late, pub, calls, announced,
                   streak>>

HostNext ==
    \/ \E s \in Samples, cond \in SUBSET Keys, dt \in 1..MaxStep : CollectInTime(s, cond, dt)
    \/ \E cond \in SUBSET Keys, dt \in 1..MaxStep : CollectLate(cond, dt)
    \/ \E cond \in SUBSET Keys, dt \in 1..MaxStep : CollectFails(cond, dt)
    \/ \E cond \in SUBSET Keys, dt \in 1..MaxStep : StillPending(cond, dt)
    \/ LateFinishes
    \/ UpdateReadsConfig \/ UpdateReadsGeneration \/ UpdateRetries \/ UpdatePublishes
    \/ \E c \in Configs : ReconfigureWrites(c)
    \/ ReconfigureBumps \/ ReconfigureTrims

HostSpec == HostInit /\ [][HostNext]_hostVars
-----------------------------------------------------------------------------
(* Types, and the capacities the caches keep under any configuration.      *)
HostTypeOK ==
    /\ engine \in [current : AlertStates, cand : AlertStates \cup {"none"},
                   candAge : 0..OomRecovery, recAge : -1..OomRecovery,
                   recSamples : 0..2, id : 0..MaxIncident,
                   next : 1..(MaxIncident + 1), cool : 0..Cooldown, lastOom : -1..1]
    /\ alerts \in [Keys -> [age : -1..ThermalEntry, id : 0..MaxIncident]]
    /\ late \in {"none", "running", "finished"}
    /\ config \in Configs
    /\ published.ring <= Max({c.ring : c \in Configs})
    /\ Len(published.incidents) <= Max({c.max : c \in Configs})

(* The published alert, the engine and the incident history tell the same  *)
(* story: an incident is open exactly while the state is not healthy, the  *)
(* history's only unresolved entry is that one, and /alerts shows its      *)
(* current state (transition, update, monitor.rs).                         *)
IncidentTracksState ==
    /\ (engine.id # 0) <=> (engine.current # "healthy")
    /\ published.alert.id = engine.id /\ published.alert.state = engine.current
    /\ \A n \in DOMAIN published.incidents :
          ~published.incidents[n].resolved =>
                  published.incidents[n].id = engine.id
                  /\ published.incidents[n].state = engine.current

(* A client that follows host:alertChanged never goes on showing an        *)
(* incident that is over, or in a state it has left: a cooldown may        *)
(* silence an opening, never what ends or changes an announced incident.   *)
NoGhostAlert ==
    announced.id # 0 => announced.id = engine.id /\ announced.state = engine.current

(* An unresolved entry of the resource history belongs to a target that is *)
(* still alerting, unless a reconfiguration shrank the capacity under it.  *)
ResourceHistoryLive ==
    \A n \in DOMAIN published.rincidents :
        LET i == published.rincidents[n]
        IN i.resolved \/ i.id \in orphans \/ alerts[i.state].id = i.id

(* A healthy host raises an alert only when every sample of the entry      *)
(* duration called for it, however the samples and deadlines fell: only a  *)
(* new OOM kill and the loss of both signals alert at once.                *)
EntryIsSustained ==
    [][engine.current = "healthy" /\ engine'.current \notin {"healthy", "limited"}
       /\ ~oom_delta(engine, pub.sample[1])
         => /\ streak.target = engine'.current
            /\ streak.age >= entry_duration(engine'.current, pub.sample[1], FALSE)]_hostVars

(* Engine, published state, history and what a client was told agree       *)
(* (alerts.rs, monitor.rs).                                                *)
AlertsAgree == HostTypeOK /\ IncidentTracksState /\ NoGhostAlert /\ ResourceHistoryLive
=============================================================================
