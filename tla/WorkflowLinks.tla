---------------------------- MODULE WorkflowLinks ----------------------------
(***************************************************************************)
(* Workflow terminal links: the observations the PTY manager records about *)
(* one terminal id, the bounded queue and the worker thread that apply     *)
(* them, the link and unlink requests, and the reconciliation of the       *)
(* stored links after a server restart (server/src/workflow/observation.rs,*)
(* reconcile.rs, api/workflow/session.rs).                                 *)
(*                                                                         *)
(* `term' is what the PTY manager knows of the terminal.  Create and       *)
(* remove record their observation at the end of a section under the       *)
(* persistence gate (`gateObs'); a reader records under the table's lock;  *)
(* the restart supervisor records after its respawn returned (`supObs').   *)
(***************************************************************************)
EXTENDS Naturals, Sequences

CONSTANTS
    Works,       \* work sessions that may link the terminal
    MaxInc,      \* bound on incarnations
    ObsCap,      \* capacity of the observation channel (256 in the code)
    MaxCrashes   \* bound on server restarts

ASSUME LinkBounds == MaxInc \in Nat \ {0} /\ ObsCap \in Nat \ {0} /\ MaxCrashes \in Nat

VARIABLES
    term,      \* [life, inc]: what the PTY manager holds for the id
    topInc,    \* last incarnation handed out
    gateObs,   \* observation a create or remove has still to record
    supObs,    \* observation the restart supervisor has still to record
    obsQueue,  \* the channel to the observation worker
    link,      \* workflow_resource_links, by work session
    linkCall,  \* link or unlink request between its reads and its write
    boot,      \* phase of the server's startup
    listed,    \* the live incarnation the startup listing saw, 0 for none
    skewed,    \* TRUE once an observation was dropped or carried no
               \* incarnation, or a listing was stale when it was used
    floor,     \* last incarnation handed out before the latest crash
    crashes

termVars == <<term, topInc, gateObs, supObs>>
linkVars == <<link, linkCall>>
bootVars == <<boot, listed, skewed, floor, crashes>>
wlVars   == <<termVars, obsQueue, linkVars, bootVars>>

Lives      == {"gone", "live", "restarting", "dead"}
LinkStates == {"attached", "stale", "exited", "crashed", "detached"}
ObsKinds   == {"created", "pending", "restarted", "clean", "crash", "removed"}
NoObs      == [kind |-> "none", inc |-> 0]
NoLink     == [state |-> "none", inc |-> 0]
NoCall     == [op |-> "none", row |-> NoLink]
Obs(k, i)  == [kind |-> k, inc |-> i]      \* inc 0 stands for None

\* BoundedObservationRecorder::record: try_send, a full queue drops.
Record(o) ==
    IF Len(obsQueue) < ObsCap
    THEN obsQueue' = Append(obsQueue, o) /\ skewed' = skewed
    ELSE obsQueue' = obsQueue /\ skewed' = TRUE

GateFree == gateObs = NoObs

\* A terminal that changes after the startup listing and before the
\* reconciliation is reconciled from what the listing saw.
StaleListing == boot = "listed"

(************************** The PTY manager's side **************************)

\* PtySessionManager::create, up to the recording of TerminalCreated.
CreateTerminal ==
    /\ boot = "up" /\ GateFree /\ topInc < MaxInc
    /\ topInc' = topInc + 1
    /\ term' = [life |-> "live", inc |-> topInc + 1]
    /\ gateObs' = Obs("created", topInc + 1)
    /\ UNCHANGED <<supObs, obsQueue, linkVars, bootVars>>

\* PtySessionManager::remove of any id, known or not.
RemoveTerminal ==
    /\ boot = "up" /\ GateFree
    /\ gateObs' = Obs("removed", term.inc)
    /\ term' = [life |-> "gone", inc |-> 0]
    /\ skewed' = (skewed \/ term.life = "gone")   \* no incarnation to guard by
    /\ UNCHANGED <<topInc, supObs, obsQueue, linkVars, boot, listed, floor, crashes>>

RecordGate ==
    /\ gateObs # NoObs
    /\ Record(gateObs)
    /\ gateObs' = NoObs
    /\ UNCHANGED <<term, topInc, supObs, linkVars, boot, listed, floor, crashes>>

\* Reader thread, exit of the session it owns: the observation is recorded
\* under the same lock that moves the session to the dead table.
ReaderExit(kind) ==
    /\ boot # "down" /\ term.life = "live"
    /\ term' = [term EXCEPT !.life = IF kind = "pending" THEN "restarting" ELSE "dead"]
    /\ IF Len(obsQueue) < ObsCap
       THEN obsQueue' = Append(obsQueue, Obs(kind, term.inc)) /\ skewed' = (skewed \/ StaleListing)
       ELSE obsQueue' = obsQueue /\ skewed' = TRUE
    /\ UNCHANGED <<topInc, gateObs, supObs, linkVars, boot, listed, floor, crashes>>

\* Restart supervisor, respawn_internal succeeded.
Respawn ==
    /\ boot # "down" /\ term.life = "restarting" /\ supObs = NoObs /\ GateFree /\ topInc < MaxInc
    /\ topInc' = topInc + 1
    /\ term' = [life |-> "live", inc |-> topInc + 1]
    /\ supObs' = Obs("restarted", topInc + 1)
    /\ skewed' = (skewed \/ StaleListing)
    /\ UNCHANGED <<gateObs, obsQueue, linkVars, boot, listed, floor, crashes>>

\* Restart supervisor, respawn_internal failed.
RespawnFails ==
    /\ boot # "down" /\ term.life = "restarting" /\ supObs = NoObs
    /\ term' = [term EXCEPT !.life = "dead"]
    /\ \E kind \in {"clean", "crash"} : supObs' = Obs(kind, term.inc)
    /\ UNCHANGED <<topInc, gateObs, obsQueue, linkVars, bootVars>>

RecordSupervisor ==
    /\ supObs # NoObs
    /\ Record(supObs)
    /\ supObs' = NoObs
    /\ UNCHANGED <<term, topInc, gateObs, linkVars, boot, listed, floor, crashes>>

(**************************** The worker's side *****************************)

\* What an observation makes of a link it is not too old for.
Observed(o, l) ==
    [state |-> CASE o.kind \in {"created", "restarted"} -> "attached"
                 [] o.kind = "pending" -> "stale"
                 [] o.kind = "clean"   -> "exited"
                 [] o.kind = "crash"   -> "crashed"
                 [] o.kind = "removed" -> "detached",
     inc   |-> IF o.inc = 0 THEN l.inc ELSE o.inc]

\* Mutant: an observation of an earlier incarnation is applied.
TooOld_Never(o, l) == FALSE

\* The incarnation guard of process_observation_inner.
TooOld(o, l) == l.inc # 0 /\ o.inc # 0 /\ o.inc < l.inc

process_observation(o) ==
    [w \in Works |-> IF link[w] = NoLink \/ TooOld(o, link[w]) THEN link[w]
                     ELSE Observed(o, link[w])]

Work ==
    /\ obsQueue # <<>>
    /\ obsQueue' = Tail(obsQueue)
    /\ link' = process_observation(Head(obsQueue))
    /\ UNCHANGED <<termVars, linkCall, bootVars>>

\* A store error: the worker logs it and goes on with the next observation.
WorkFails ==
    /\ obsQueue # <<>>
    /\ obsQueue' = Tail(obsQueue)
    /\ skewed' = TRUE
    /\ UNCHANGED <<termVars, linkVars, boot, listed, floor, crashes>>

(**************************** The HTTP requests *****************************)

\* link: the terminal is looked up in PtySessionManager::list before the row
\* is written; a dead terminal is linked as exited.
LookedUp == [state |-> IF term.life = "live" THEN "attached" ELSE "exited", inc |-> term.inc]
LinkLookup(w) ==
    /\ boot = "up" /\ linkCall[w] = NoCall /\ term.life # "gone"
    /\ linkCall' = [linkCall EXCEPT ![w] = [op |-> "link", row |-> LookedUp]]
    /\ UNCHANGED <<termVars, obsQueue, link, bootVars>>

\* unlink: the version check reads the row before the delete.
UnlinkLookup(w) ==
    /\ boot = "up" /\ linkCall[w] = NoCall /\ link[w] # NoLink
    /\ linkCall' = [linkCall EXCEPT ![w] = [op |-> "unlink", row |-> link[w]]]
    /\ UNCHANGED <<termVars, obsQueue, link, bootVars>>

link_resource(w) ==
    /\ linkCall[w].op = "link"
    /\ link' = [link EXCEPT ![w] = linkCall[w].row]
    /\ linkCall' = [linkCall EXCEPT ![w] = NoCall]
    /\ skewed' = (skewed \/ linkCall[w].row # LookedUp)
    /\ UNCHANGED <<termVars, obsQueue, boot, listed, floor, crashes>>

unlink_resource(w) ==
    /\ linkCall[w].op = "unlink"
    /\ link' = [link EXCEPT ![w] = NoLink]
    /\ linkCall' = [linkCall EXCEPT ![w] = NoCall]
    /\ UNCHANGED <<termVars, obsQueue, bootVars>>

(************************** Restart of the server ***************************)

ServerCrash ==
    /\ boot = "up" /\ crashes < MaxCrashes
    /\ crashes' = crashes + 1
    /\ boot' = "down" /\ floor' = topInc
    /\ term' = [life |-> "gone", inc |-> 0]
    /\ gateObs' = NoObs /\ supObs' = NoObs /\ obsQueue' = <<>>
    /\ linkCall' = [w \in Works |-> NoCall]
    /\ UNCHANGED <<topInc, link, listed, skewed>>

\* restore_sessions_with_state: the terminal is created again or not.
RestoreTerminal(back) ==
    /\ boot = "down" /\ (back => topInc < MaxInc)
    /\ boot' = "restored"
    /\ IF back
       THEN /\ topInc' = topInc + 1
            /\ term' = [life |-> "live", inc |-> topInc + 1]
            /\ gateObs' = Obs("created", topInc + 1)
       ELSE UNCHANGED <<topInc, term, gateObs>>
    /\ UNCHANGED <<supObs, obsQueue, linkVars, listed, skewed, floor, crashes>>

\* main: the live sessions are listed, then port candidates are seeded.
ListLive ==
    /\ boot = "restored" /\ GateFree
    /\ boot' = "listed"
    /\ listed' = IF term.life = "live" THEN term.inc ELSE 0
    /\ UNCHANGED <<termVars, obsQueue, linkVars, skewed, floor, crashes>>

Reconciled(l) ==
    IF l # NoLink /\ listed # 0 THEN [state |-> "attached", inc |-> listed]
    ELSE IF l.state \in {"attached", "stale"} THEN [l EXCEPT !.state = "detached"]
    ELSE l

\* reconcile_startup_terminal_links: one transaction over every link.
Reconcile ==
    /\ boot = "listed"
    /\ boot' = "up"
    /\ link' = [w \in Works |-> Reconciled(link[w])]
    /\ skewed' = (skewed \/ (listed # 0 /\ listed # term.inc))
    /\ UNCHANGED <<termVars, obsQueue, linkCall, listed, floor, crashes>>

WLInit ==
    /\ term = [life |-> "gone", inc |-> 0] /\ topInc = 0
    /\ gateObs = NoObs /\ supObs = NoObs /\ obsQueue = <<>>
    /\ link = [w \in Works |-> NoLink] /\ linkCall = [w \in Works |-> NoCall]
    /\ boot = "up" /\ listed = 0 /\ skewed = FALSE /\ floor = 0 /\ crashes = 0

WLNext ==
    \/ CreateTerminal \/ RemoveTerminal \/ RecordGate
    \/ \E k \in {"pending", "clean", "crash"} : ReaderExit(k)
    \/ Respawn \/ RespawnFails \/ RecordSupervisor
    \/ Work \/ WorkFails
    \/ \E w \in Works : LinkLookup(w)
    \/ \E w \in Works : UnlinkLookup(w)
    \/ \E w \in Works : link_resource(w)
    \/ \E w \in Works : unlink_resource(w)
    \/ ServerCrash \/ (\E b \in BOOLEAN : RestoreTerminal(b)) \/ ListLive \/ Reconcile

WLSpec == WLInit /\ [][WLNext]_wlVars

(******************************* Properties *********************************)

Row == [state : LinkStates, inc : 1..MaxInc]

\* Types: links carry a state the table's CHECK allows and an incarnation
\* that was handed out, and the channel never exceeds its capacity.
LinkTypeOK ==
    /\ term \in [life : Lives, inc : 0..MaxInc] /\ topInc \in 0..MaxInc
    /\ gateObs \in [kind : ObsKinds, inc : 0..MaxInc] \cup {NoObs}
    /\ supObs \in [kind : ObsKinds, inc : 1..MaxInc] \cup {NoObs}
    /\ Len(obsQueue) <= ObsCap
    /\ \A w \in Works : link[w] \in Row \cup {NoLink}
    /\ \A w \in Works : linkCall[w] \in [op : {"link", "unlink"}, row : Row] \cup {NoCall}
    /\ boot \in {"up", "down", "restored", "listed"}

\* A live terminal is never shown as ended: a link that names the live
\* incarnation is attached whatever older exits, removals, respawn failures
\* and restarts were still on their way (the incarnation guard of
\* process_observation_inner and the order of the persistence gate).
LiveShownAttached ==
    \A w \in Works :
       (term.life = "live" /\ link[w].inc = term.inc /\ ~skewed) => link[w].state = "attached"

\* Nothing of an earlier life survives a restart of the server: once the
\* links are reconciled, an active link (attached or stale) names an
\* incarnation that was handed out after the crash.
ActiveIsOfThisLife ==
    \A w \in Works :
       (boot = "up" /\ link[w].state \in {"attached", "stale"}) => link[w].inc > floor

\* With every observation applied, a link to a live terminal names it and says
\* attached, whatever order earlier exits, respawns and removals came in.  (Of
\* an ended terminal this is not so: the observation of a create or a respawn
\* may be recorded behind the exit or the removal of the same incarnation.)
LiveIsLinked ==
    boot = "up" /\ gateObs = NoObs /\ supObs = NoObs /\ obsQueue = <<>> /\ ~skewed
      /\ term.life = "live" =>
        \A w \in Works : link[w] \in {NoLink, [state |-> "attached", inc |-> term.inc]}

\* Links name a terminal of this life, say attached while it lives, and name
\* it once all is applied (workflow worker, session.rs, main.rs).
LinksAreCurrent == LinkTypeOK /\ LiveShownAttached /\ ActiveIsOfThisLife /\ LiveIsLinked
=============================================================================
