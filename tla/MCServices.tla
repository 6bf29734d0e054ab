----------------------------- MODULE MCServices -----------------------------
(***************************************************************************)
(* The server's own services for TLC: host alerts, usage telemetry, browser *)
(* debug artifacts and approved host actions.  They share no state; a      *)
(* behaviour is one of them, the others stay as they start.                *)
(***************************************************************************)
EXTENDS HostAlerts, UsageTelemetry, BrowserArtifacts, HostActions, TLC

CONSTANTS a1, a2
VARIABLE part

S(a, s, f, c, o) == [avail |-> a, some |-> s, full |-> f, cache |-> c, oom |-> o]
FewSamples == {S(4, 0, 0, 0, 0), S(4, 0, 0, 2, 0), S(3, 2, 2, 0, 0), S(0, 3, 0, 0, 0),
               S(-1, -1, -1, -1, 0), S(4, 0, 0, 0, 1)}
HostConfigs == {[ring |-> 2, max |-> 2], [ring |-> 1, max |-> 1]}

TwoEvents == {[src |-> "a", day |-> 1, val |-> 1], [src |-> "b", day |-> 2, val |-> 2]}
ThreeSettings == {[on |-> TRUE, paused |-> FALSE, keep |-> 0], [on |-> TRUE, paused |-> TRUE, keep |-> 1],
                  [on |-> FALSE, paused |-> FALSE, keep |-> 1]}

ThreeDrops == {{1, 2, 3}}
TwoEach == [n \in 1..4 |-> IF n <= 2 THEN a1 ELSE a2]

Interchangeable == Permutations(Exporters)

ServicesInit ==
  /\ part \in {"alerts", "usage", "artifacts", "actions"}
  /\ HostInit /\ TelInit /\ ArtInit /\ HAInit
  /\ part # "alerts" => config = CHOOSE c \in Configs : TRUE
  /\ part # "usage" => usage = CHOOSE s \in Settings : TRUE
  /\ part # "actions" => intent = Fresh

Alerts  == part = "alerts" /\ HostNext /\ UNCHANGED <<part, telVars, artVars, haVars>>
Usage   == part = "usage" /\ TelNext /\ UNCHANGED <<part, hostVars, artVars, haVars>>
Debug   == part = "artifacts" /\ ArtNext /\ UNCHANGED <<part, hostVars, telVars, haVars>>
Actions == part = "actions" /\ HANext /\ UNCHANGED <<part, hostVars, telVars, artVars>>

ServicesNext == Alerts \/ Usage \/ Debug \/ Actions
ServicesSpec == ServicesInit /\ [][ServicesNext]_<<part, hostVars, telVars, artVars, haVars>>
=============================================================================
