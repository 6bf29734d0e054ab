----------------------------- MODULE MCDurable -----------------------------
(***************************************************************************)
(* The four durable stores for TLC: the session database, the SSH scope    *)
(* documents, the Linux release tree and the agent store.  They share no   *)
(* state; a behaviour is one of them, the others stay as they start.       *)
(***************************************************************************)
EXTENDS SessionStore, SshStore, LinuxRelease, AgentStore, TLC

VARIABLE part

EachStory   == {{"config"}, {"trust"}, {"identity", "load"}, {"retention"}, {"load", "purge"}}
TwoReleases == {[tag |-> "v2", role |-> "server"], [tag |-> "v3", role |-> "both"]}
TwoServers  == [i \in {"m1", "m2"} |-> "mcp"]
OneOfEach   == {[i \in {"f"} |-> k] : k \in {"skill", "command", "subagent"}} \union {TwoServers}

DurableInit ==
  /\ part \in {"sessions", "scope", "release", "agents"}
  /\ Init /\ StoreInit /\ RelInit /\ ASInit
  /\ part # "scope" => ~bornV1 /\ asked = CHOOSE m \in StoreMenus : TRUE
  /\ part # "release" => disk.active = NoRel /\ ~disk.legacy
  /\ part # "agents" => kindOf = CHOOSE k \in Catalogues : TRUE

Sessions == part = "sessions" /\ Next /\ UNCHANGED <<part, svars, relVars, asVars>>
Scope    == part = "scope" /\ StoreNext /\ UNCHANGED <<part, vars, relVars, asVars>>
Release  == part = "release" /\ RelNext /\ UNCHANGED <<part, vars, svars, asVars>>
Agents   == part = "agents" /\ ASNext /\ UNCHANGED <<part, vars, svars, relVars>>

DurableNext == Sessions \/ Scope \/ Release \/ Agents
DurableSpec == DurableInit /\ [][DurableNext]_<<part, vars, svars, relVars, asVars>>
=============================================================================
