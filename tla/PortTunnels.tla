---------------------------- MODULE PortTunnels ----------------------------
(***************************************************************************)
(* Ports detected in terminal output and the cloudflared tunnels opened on *)
(* them (server/src/port_forward, server/src/tunnel, api/tunnel.rs).       *)
(* Stdout hits are validated against the registered PTY incarnation; a     *)
(* poller of /proc/net/tcp confirms and retires ports; a tunnel belongs to *)
(* the incarnation that owned its port when it was requested, or to no     *)
(* one.  Lock scopes of the code are the steps of the model.               *)
(***************************************************************************)
EXTENDS Integers, FiniteSets

CONSTANTS Ports,         \* safe port numbers the regexes can find
          Incs,          \* PTY incarnations of this server life: naturals > 0
          IdOf,          \* incarnation -> public session id
          Tuns,          \* tunnel ids (random UUIDs)
          MaxTracked,    \* MAX_TRACKED_PORTS
          Quotas         \* bounds of one behaviour: [hits, incs, tuns, shutdowns]

ASSUME PortAssumption == IsFiniteSet(Ports) /\ Incs \subseteq Nat \ {0} /\ MaxTracked \in Nat

VARIABLES reg,           \* active_sessions: registered incarnations, one per id
          ports,         \* tracked port -> [owner, up, grace, seeded]
          rows,          \* detected_ports table: <<incarnation, port>>
          hits,          \* spawned report_stdout_hit tasks
          pty,           \* incarnation -> life of its reader
          unreg,         \* unregister calls between their two lock scopes
          cleanups,      \* tunnel cleanups under way
          listening,     \* ports some process listens on
          poller,        \* the poll loop
          lossWatch,     \* ownerless tunnel -> observed listening once
          seed,          \* the startup seeding
          tun,           \* tunnel -> its entries in the manager's maps
          shutting,      \* dispose_all: "no", "refusing", "waiting", "done"
          quota          \* what is left of the bounds

sessionVars == <<reg, pty, unreg, hits>>
portVars == <<ports, rows>>
tunVars == <<tun, shutting>>
pollVars == <<poller, lossWatch, listening>>
ptVars == <<sessionVars, portVars, tunVars, pollVars, cleanups, seed, quota>>

Nobody == 0                         \* no owner; also the incarnations of the last life
Tracked == DOMAIN ports
NewTunnel == [port |-> 0, owner |-> Nobody, call |-> "unused", status |-> "none",
              handle |-> FALSE, marker |-> FALSE, proc |-> "none", stop |-> FALSE, watcher |-> "none"]
Spend(what) == quota[what] > 0 /\ quota' = [quota EXCEPT ![what] = @ - 1]
Set(f, x, v) == [y \in DOMAIN f \cup {x} |-> IF y = x THEN v ELSE f[y]]
Drop(f, xs) == [y \in DOMAIN f \ xs |-> f[y]]

PTInit ==
    /\ reg = {} /\ ports = <<>> /\ hits = {} /\ unreg = {} /\ cleanups = {}
    /\ rows = {<<Nobody, p>> : p \in Ports}
    /\ pty = [i \in Incs |-> "unborn"]
    /\ listening \in {{}, Ports} /\ lossWatch = <<>> /\ poller = [pc |-> "idle"]
    /\ seed = [pc |-> "list"]
    /\ tun = [t \in Tuns |-> NewTunnel] /\ shutting = "no"
    /\ quota \in Quotas
-----------------------------------------------------------------------------
(* Terminal sessions: a newer incarnation of an id replaces the older one  *)
register_session(i) ==
    /\ Spend("incs")
    /\ pty[i] = "unborn" /\ \A j \in Incs : j < i => pty[j] # "unborn"
    /\ pty' = [pty EXCEPT ![i] = "running"]
    /\ reg' = {j \in reg : IdOf[j] # IdOf[i]} \cup {i}
    /\ UNCHANGED <<unreg, hits, portVars, tunVars, pollVars, cleanups, seed>>

(* scan_chunk: the first safe port of a chunk is reported by a new task    *)
scan_chunk(i, p) ==
    /\ Spend("hits")
    /\ pty[i] = "running"
    /\ hits' = hits \cup {<<i, p>>}
    /\ UNCHANGED <<reg, pty, unreg, portVars, tunVars, pollVars, cleanups, seed>>

Validated(i) == i \in reg
Admits(i, p) ==
    /\ Validated(i)
    /\ p \in Tracked => ports[p].owner # i
    /\ p \in Tracked \/ Cardinality(Tracked) < MaxTracked

(* Validation, the map and the row change under the registry's read lock;  *)
(* the replaced owner's tunnel is stopped afterwards.                      *)
report_stdout_hit(h) ==
    LET i == h[1]
        p == h[2]
        old == IF p \in Tracked THEN {ports[p].owner} ELSE {} IN
    /\ h \in hits
    /\ hits' = hits \ {h}
    /\ IF Admits(i, p)
       THEN /\ ports' = Set(ports, p, [owner |-> i, up |-> FALSE, grace |-> FALSE, seeded |-> FALSE])
            /\ rows' = (rows \ {<<j, p>> : j \in old}) \cup {<<i, p>>}
            /\ cleanups' = cleanups \cup {[port |-> p, owner |-> j, pc |-> "owned", free |-> FALSE,
                                           by |-> "task", ids |-> {}] : j \in old}
       ELSE UNCHANGED <<ports, rows, cleanups>>
    /\ UNCHANGED <<reg, pty, unreg, tunVars, pollVars, seed, quota>>

(* unregister_session: by the reader at end of file, or earlier by a kill  *)
UnregisterIdentity(i, eof) ==
    /\ pty[i] = "running" /\ (eof \/ i \in reg)
    /\ reg' = reg \ {i}
    /\ pty' = IF eof THEN [pty EXCEPT ![i] = "eof"] ELSE pty
    /\ unreg' = unreg \cup {i}
    /\ UNCHANGED <<hits, portVars, tunVars, pollVars, cleanups, seed, quota>>

remove_session_ports(i) ==
    LET mine == {p \in Tracked : ports[p].owner = i} IN
    /\ i \in unreg /\ unreg' = unreg \ {i}
    /\ ports' = Drop(ports, mine)
    /\ rows' = {r \in rows : r[1] # i}
    /\ cleanups' = cleanups \cup {[port |-> p, owner |-> i, pc |-> "owned", free |-> TRUE,
                                   by |-> "task", ids |-> {}] : p \in mine}
    /\ UNCHANGED <<reg, pty, hits, tunVars, pollVars, seed, quota>>
-----------------------------------------------------------------------------
(* seed_persisted_candidates, once at startup: the live sessions are       *)
(* listed, the rows are loaded, and only then is the port map locked.      *)
(* Rows of incarnations that were not listed are pruned and the others     *)
(* inserted, in the order of the rows, until the map is full.              *)
SeedLists ==
    /\ Spend("seeds")
    /\ seed.pc = "list" /\ seed' = [pc |-> "load", live |-> reg]
    /\ UNCHANGED <<sessionVars, portVars, tunVars, pollVars, cleanups>>

SeedLoads ==
    /\ seed.pc = "load" /\ seed' = [pc |-> "apply", live |-> seed.live, loaded |-> rows]
    /\ UNCHANGED <<sessionVars, portVars, tunVars, pollVars, cleanups, quota>>

SeedApplies ==
    LET stale == {r \in seed.loaded : r[1] \notin seed.live}
        live == {r \in seed.loaded \ stale : r[2] \notin Tracked} IN
    /\ seed.pc = "apply"
    /\ \E chosen \in SUBSET live, pruned \in SUBSET stale :
          /\ Cardinality(chosen) + Cardinality(Tracked) <= MaxTracked
          /\ chosen # live \/ pruned # stale => Cardinality(chosen) + Cardinality(Tracked) = MaxTracked
          /\ pruned # {} => Cardinality(Tracked) < MaxTracked
          /\ ports' = [p \in Tracked \cup {r[2] : r \in chosen} |->
                          IF p \in Tracked THEN ports[p]
                          ELSE [owner |-> (CHOOSE r \in chosen : r[2] = p)[1],
                                up |-> FALSE, grace |-> TRUE, seeded |-> TRUE]]
          /\ rows' = rows \ pruned
          /\ seed' = [pc |-> "done", pruned |-> pruned]
    /\ UNCHANGED <<sessionVars, tunVars, pollVars, cleanups, quota>>

GraceExpires(p) ==
    /\ p \in Tracked /\ ports[p].grace
    /\ ports' = [ports EXCEPT ![p].grace = FALSE]
    /\ UNCHANGED <<rows, sessionVars, tunVars, pollVars, cleanups, seed, quota>>

(* The environment: a process starts or stops listening                    *)
HostFlips(p) ==
    /\ Spend("flips")
    /\ listening' = IF p \in listening THEN listening \ {p} ELSE listening \cup {p}
    /\ UNCHANGED <<poller, lossWatch, sessionVars, portVars, tunVars, cleanups, seed>>
-----------------------------------------------------------------------------
(* linux_poll_loop: the sample and the known ports are read, then each     *)
(* port is confirmed or reported lost against whatever the map holds then. *)
PollSamples ==
    /\ Spend("polls")
    /\ poller.pc = "idle"
    /\ poller' = [pc |-> "ports", up |-> listening, left |-> {<<p, ports[p].owner>> : p \in Tracked}]
    /\ UNCHANGED <<lossWatch, listening, sessionVars, portVars, tunVars, cleanups, seed>>

PollerFree == \A c \in cleanups : c.by # "poller"
Consumes(k) == poller' = [poller EXCEPT !.left = @ \ {k}]
StillOwns(k) == k[1] \in Tracked /\ ports[k[1]].owner = k[2]

confirm_listen(k) ==
    /\ poller.pc = "ports" /\ PollerFree /\ k \in poller.left /\ k[1] \in poller.up
    /\ Consumes(k)
    /\ ports' = IF StillOwns(k)
                THEN [ports EXCEPT ![k[1]].up = TRUE, ![k[1]].grace = FALSE] ELSE ports
    /\ UNCHANGED <<rows, lossWatch, listening, sessionVars, tunVars, cleanups, seed, quota>>

report_lost(k) ==
    LET gone == StillOwns(k) /\ (ports[k[1]].up \/ ~ports[k[1]].grace) IN
    /\ poller.pc = "ports" /\ PollerFree /\ k \in poller.left /\ k[1] \notin poller.up
    /\ Consumes(k)
    /\ ports' = IF gone THEN Drop(ports, {k[1]}) ELSE ports
    /\ rows' = IF gone THEN rows \ {<<k[2], k[1]>>} ELSE rows
    /\ cleanups' = IF gone
                   THEN cleanups \cup {[port |-> k[1], owner |-> k[2], pc |-> "owned", free |-> TRUE,
                                        by |-> "poller", ids |-> {}]}
                   ELSE cleanups
    /\ UNCHANGED <<lossWatch, listening, sessionVars, tunVars, seed, quota>>

Ownerless == {t \in Tuns : tun[t].status # "none" /\ tun[t].owner = Nobody}

sync_ownerless_tunnel_ports ==
    /\ poller.pc = "ports" /\ poller.left = {} /\ PollerFree
    /\ lossWatch' = [t \in Ownerless |-> t \in DOMAIN lossWatch /\ lossWatch[t]]
    /\ poller' = [pc |-> "free", up |-> poller.up, left |-> Ownerless,
                  seen |-> {t \in Ownerless : t \in DOMAIN lossWatch /\ lossWatch[t]}]
    /\ UNCHANGED <<listening, sessionVars, portVars, tunVars, cleanups, seed, quota>>

PollEnds ==
    /\ poller.pc = "free" /\ poller.left = {}
    /\ poller' = [pc |-> "idle"]
    /\ UNCHANGED <<lossWatch, listening, sessionVars, portVars, tunVars, cleanups, seed, quota>>

confirm_ownerless_tunnel_listen(t) ==
    /\ poller.pc = "free" /\ t \in poller.left
    /\ tun[t].port \in poller.up \/ t \notin poller.seen
    /\ Consumes(t)
    /\ lossWatch' = IF tun[t].port \in poller.up THEN [lossWatch EXCEPT ![t] = TRUE] ELSE lossWatch
    /\ UNCHANGED <<listening, sessionVars, portVars, tunVars, cleanups, seed, quota>>
-----------------------------------------------------------------------------
(* stop: under the pending-stop lock.  A session without a handle is still *)
(* inside driver.start, so a marker is left for its creator.               *)
Stopped(x) ==
    IF x.status = "none" /\ ~x.handle THEN x
    ELSE [x EXCEPT !.status = "none", !.handle = FALSE, !.marker = ~x.handle,
                   !.stop = @ \/ x.handle]

stop_tunnel(t) ==
    /\ tun[t].call # "unused"
    /\ tun' = [tun EXCEPT ![t] = Stopped(@)]
    /\ UNCHANGED <<shutting, sessionVars, portVars, pollVars, cleanups, seed, quota>>

report_ownerless_tunnel_lost(t) ==
    /\ poller.pc = "free" /\ t \in poller.left /\ t \in poller.seen /\ tun[t].port \notin poller.up
    /\ Consumes(t)
    /\ lossWatch' = Drop(lossWatch, {t})
    /\ tun' = [tun EXCEPT ![t] = Stopped(@)]
    /\ UNCHANGED <<listening, shutting, sessionVars, portVars, cleanups, seed, quota>>

(* stop_by_port_for_owner, then stop_by_port where the caller does both:   *)
(* the ids are listed first and stopped one by one.                        *)
OwnedBy(p, o) == {t \in Tuns : tun[t].status # "none" /\ tun[t].port = p /\ tun[t].owner = o}

CleanupLists(c) ==
    /\ c \in cleanups /\ c.pc \in {"owned", "free"}
    /\ cleanups' = (cleanups \ {c}) \cup
           {[c EXCEPT !.pc = IF c.pc = "owned" THEN "stopOwned" ELSE "stopFree",
                      !.ids = OwnedBy(c.port, IF c.pc = "owned" THEN c.owner ELSE Nobody)]}
    /\ UNCHANGED <<sessionVars, portVars, tunVars, pollVars, seed, quota>>

CleanupStops(c) ==
    /\ c \in cleanups /\ c.pc \in {"stopOwned", "stopFree"}
    /\ IF c.ids # {}
       THEN \E t \in c.ids : /\ tun' = [tun EXCEPT ![t] = Stopped(@)]
                             /\ cleanups' = (cleanups \ {c}) \cup {[c EXCEPT !.ids = @ \ {t}]}
       ELSE /\ cleanups' = (cleanups \ {c}) \cup
                  IF c.pc = "stopOwned" /\ c.free THEN {[c EXCEPT !.pc = "free"]} ELSE {}
            /\ tun' = tun
    /\ UNCHANGED <<shutting, sessionVars, portVars, pollVars, seed, quota>>
-----------------------------------------------------------------------------
(* create_tunnel: the owner is captured, the session admitted, the driver  *)
(* started, the handle published, and the owner compared again.            *)
CreateCaptures(t, p) ==
    /\ Spend("tuns")
    /\ tun[t].call = "unused" /\ \A u \in Tuns : u < t => tun[u].call # "unused"
    /\ tun' = [tun EXCEPT ![t].call = "captured", ![t].port = p,
                          ![t].owner = IF p \in Tracked THEN ports[p].owner ELSE Nobody]
    /\ UNCHANGED <<shutting, sessionVars, portVars, pollVars, cleanups, seed>>

CreateAdmitted(t) ==
    LET taken == \E u \in Tuns : tun[u].port = tun[t].port /\ tun[u].status \in {"starting", "ready"} IN
    /\ tun[t].call = "captured"
    /\ tun' = [tun EXCEPT ![t] = IF shutting # "no" \/ taken
                                 THEN [@ EXCEPT !.call = "refused"]
                                 ELSE [@ EXCEPT !.call = "starting", !.status = "starting"]]
    /\ UNCHANGED <<shutting, sessionVars, portVars, pollVars, cleanups, seed, quota>>

DriverStarts(t) ==
    /\ tun[t].call = "starting"
    /\ tun' = [tun EXCEPT ![t].call = "started", ![t].proc = "running"]
    /\ UNCHANGED <<shutting, sessionVars, portVars, pollVars, cleanups, seed, quota>>

DriverFails(t) ==
    /\ tun[t].call = "starting"
    /\ tun' = [tun EXCEPT ![t].call = "refused", ![t].marker = FALSE, ![t].status = "none"]
    /\ UNCHANGED <<shutting, sessionVars, portVars, pollVars, cleanups, seed, quota>>

Published(x) ==
    IF x.marker
    THEN [x EXCEPT !.marker = FALSE, !.status = "none", !.stop = TRUE, !.call = "refused"]
    ELSE [x EXCEPT !.handle = TRUE, !.watcher = "on", !.call = "recheck"]

CreatePublishes(t) ==
    /\ tun[t].call = "started"
    /\ tun' = [tun EXCEPT ![t] = Published(@)]
    /\ UNCHANGED <<shutting, sessionVars, portVars, pollVars, cleanups, seed, quota>>

\* Mutant: a published tunnel is not compared with the port's present owner.
owner_changed_Never(x) == FALSE

owner_changed(x) == x.owner # Nobody /\ ~(x.port \in Tracked /\ ports[x.port].owner = x.owner)

(* The map is read and the stop follows; nothing done meanwhile by others  *)
(* could need the tunnel of a past owner.                                  *)
CreateRechecks(t) ==
    /\ tun[t].call = "recheck"
    /\ tun' = [tun EXCEPT ![t] = [(IF owner_changed(@) THEN Stopped(@) ELSE @) EXCEPT !.call = "done"]]
    /\ UNCHANGED <<shutting, sessionVars, portVars, pollVars, cleanups, seed, quota>>
-----------------------------------------------------------------------------
(* cloudflared (external) and watch_events: the first URL makes the        *)
(* tunnel ready, thirty seconds without one fail it though the process     *)
(* runs, and a process that ended closes the event channel.                *)
UrlReady(t) ==
    /\ tun[t].watcher = "on" /\ tun[t].proc = "running"
    /\ tun' = [tun EXCEPT ![t].status = IF @ = "starting" THEN "ready" ELSE @]
    /\ UNCHANGED <<shutting, sessionVars, portVars, pollVars, cleanups, seed, quota>>

ProcessExits(t) ==
    /\ tun[t].proc = "running"
    /\ tun' = [tun EXCEPT ![t].proc = "exited"]
    /\ UNCHANGED <<shutting, sessionVars, portVars, pollVars, cleanups, seed, quota>>

WatchEnds(t) ==
    /\ tun[t].watcher = "on"
    /\ tun[t].proc = "exited" \/ tun[t].status \in {"starting", "none"}
    /\ tun' = [tun EXCEPT ![t].watcher = "handle",
                  ![t].status = CASE @ = "starting" -> IF tun[t].proc = "exited" THEN "stopped" ELSE "failed"
                                  [] OTHER -> @]
    /\ UNCHANGED <<shutting, sessionVars, portVars, pollVars, cleanups, seed, quota>>

(* A dropped handle drops stop_tx, which the driver takes for a stop       *)
WatchDropsHandle(t) ==
    /\ tun[t].watcher = "handle"
    /\ tun' = [tun EXCEPT ![t].watcher = "session", ![t].handle = FALSE,
                          ![t].stop = @ \/ tun[t].handle]
    /\ UNCHANGED <<shutting, sessionVars, portVars, pollVars, cleanups, seed, quota>>

WatchDropsSession(t) ==
    /\ tun[t].watcher = "session"
    /\ tun' = [tun EXCEPT ![t].watcher = "gone", ![t].status = "none"]
    /\ UNCHANGED <<shutting, sessionVars, portVars, pollVars, cleanups, seed, quota>>
-----------------------------------------------------------------------------
(* dispose_all: refuse new tunnels, mark or stop every session, wait for   *)
(* the creators inside driver.start, forget the markers.                   *)
DisposeRefuses ==
    /\ Spend("shutdowns")
    /\ shutting = "no" /\ shutting' = "refusing"
    /\ UNCHANGED <<tun, sessionVars, portVars, pollVars, cleanups, seed>>

Disposed(x) ==
    [x EXCEPT !.marker = @ \/ (x.status # "none" /\ ~x.handle), !.status = "none",
              !.stop = @ \/ x.handle, !.handle = FALSE]

DisposeStops ==
    /\ shutting = "refusing" /\ shutting' = "waiting"
    /\ tun' = [t \in Tuns |-> Disposed(tun[t])]
    /\ UNCHANGED <<sessionVars, portVars, pollVars, cleanups, seed, quota>>

InFlight(t) == tun[t].call \in {"starting", "started"}

DisposeEnds ==
    /\ shutting = "waiting" /\ \A t \in Tuns : ~InFlight(t)
    /\ shutting' = "done"
    /\ tun' = [t \in Tuns |-> [tun[t] EXCEPT !.marker = FALSE, !.status = "none"]]
    /\ UNCHANGED <<sessionVars, portVars, pollVars, cleanups, seed, quota>>
-----------------------------------------------------------------------------
PTNext ==
    \/ \E i \in Incs : register_session(i)
    \/ \E i \in Incs, p \in Ports : scan_chunk(i, p)
    \/ \E h \in hits : report_stdout_hit(h)
    \/ \E i \in Incs, eof \in BOOLEAN : UnregisterIdentity(i, eof)
    \/ \E i \in Incs : remove_session_ports(i)
    \/ SeedLists \/ SeedLoads \/ SeedApplies
    \/ \E p \in Ports : GraceExpires(p)
    \/ \E p \in Ports : HostFlips(p)
    \/ PollSamples
    \/ \E k \in Ports \X Incs : confirm_listen(k)
    \/ \E k \in Ports \X Incs : report_lost(k)
    \/ sync_ownerless_tunnel_ports
    \/ PollEnds
    \/ \E t \in Tuns : confirm_ownerless_tunnel_listen(t)
    \/ \E t \in Tuns : stop_tunnel(t)
    \/ \E t \in Tuns : report_ownerless_tunnel_lost(t)
    \/ \E c \in cleanups : CleanupLists(c)
    \/ \E c \in cleanups : CleanupStops(c)
    \/ \E t \in Tuns, p \in Ports : CreateCaptures(t, p)
    \/ \E t \in Tuns : CreateAdmitted(t)
    \/ \E t \in Tuns : DriverStarts(t)
    \/ \E t \in Tuns : DriverFails(t)
    \/ \E t \in Tuns : CreatePublishes(t)
    \/ \E t \in Tuns : CreateRechecks(t)
    \/ \E t \in Tuns : UrlReady(t)
    \/ \E t \in Tuns : ProcessExits(t)
    \/ \E t \in Tuns : WatchEnds(t)
    \/ \E t \in Tuns : WatchDropsHandle(t)
    \/ \E t \in Tuns : WatchDropsSession(t)
    \/ DisposeRefuses \/ DisposeStops \/ DisposeEnds

PTSpec == PTInit /\ [][PTNext]_ptVars
-----------------------------------------------------------------------------
(* The tracked ports stay within MAX_TRACKED_PORTS and every entry, row    *)
(* and tunnel has the shape the managers give it.                          *)
PortTypeOK ==
    /\ reg \subseteq Incs /\ unreg \subseteq Incs /\ hits \subseteq Incs \X Ports
    /\ Tracked \subseteq Ports /\ Cardinality(Tracked) <= MaxTracked
    /\ \A p \in Tracked : ports[p].owner \in Incs
    /\ rows \subseteq (Incs \cup {Nobody}) \X Ports
    /\ DOMAIN lossWatch \subseteq Tuns
    /\ \A t \in Tuns : tun[t].status \in {"none", "starting", "ready", "failed", "stopped"}

(* A terminal that ended, and whose unregistration finished, owns no port  *)
(* and no persisted row, however late its last output is reported          *)
(* (report_stdout_hit validates under the lock).  Entries the startup      *)
(* seeding inserted are its own hazard.                                    *)
PortsEndWithSession ==
    \A i \in Incs : pty[i] = "eof" /\ i \notin unreg =>
        /\ \A p \in Tracked : ports[p].owner = i => ports[p].seeded
        /\ \A p \in Ports : <<i, p>> \notin rows

(* A persisted row of this server life always has its entry in the map,    *)
(* and every entry that was discovered has its row, save one the seeding   *)
(* pruned: a session that respawns after the live ones were listed and     *)
(* before the rows are loaded looks stale to it.                           *)
RowsFollowPorts ==
    /\ \A r \in rows : r[1] # Nobody => r[2] \in Tracked /\ ports[r[2]].owner = r[1]
    /\ \A p \in Tracked : ~ports[p].seeded =>
          \/ <<ports[p].owner, p>> \in rows
          \/ seed.pc = "done" /\ <<ports[p].owner, p>> \in seed.pruned

(* A tunnel process that runs and was never told to stop is listed and has *)
(* a handle by which it can be stopped, or its creator is about to publish *)
(* it and either lists it or will find the marker of a stop.               *)
NoOrphanTunnel ==
    \A t \in Tuns : tun[t].proc = "running" /\ ~tun[t].stop =>
        \/ tun[t].handle /\ tun[t].status # "none"
        \/ tun[t].call = "started" /\ (tun[t].status # "none" \/ tun[t].marker)

(* Once its creation finished, a listed tunnel that belongs to a terminal  *)
(* is on a port which that incarnation still owns, unless its cleanup or   *)
(* an end of its watcher is under way.                                     *)
TunnelFollowsOwner ==
    \A t \in Tuns :
        /\ tun[t].call = "done" /\ tun[t].owner # Nobody /\ tun[t].status \in {"starting", "ready"}
        /\ ~ \E c \in cleanups : c.port = tun[t].port /\ c.owner = tun[t].owner
        => tun[t].port \in Tracked /\ ports[tun[t].port].owner = tun[t].owner

(* When dispose_all returned, every tunnel process has ended or has been   *)
(* told to, and no creation can start another.                             *)
DisposedIsDown ==
    shutting = "done" => \A t \in Tuns :
        ~InFlight(t) /\ (tun[t].proc = "running" => tun[t].stop)

(* Ports, rows and tunnels follow the terminals that own them              *)
(* (port_forward/manager.rs, tunnel/manager.rs).                           *)
PortsFollowOwners ==
    /\ PortTypeOK /\ PortsEndWithSession /\ RowsFollowPorts
    /\ NoOrphanTunnel /\ TunnelFollowsOwner /\ DisposedIsDown
=============================================================================
