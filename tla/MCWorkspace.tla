---------------------------- MODULE MCWorkspace ----------------------------
(***************************************************************************)
(* What the server does with the workspace, for TLC: file transfers over   *)
(* the WebSocket, directory watches, media tickets and the configuration.  *)
(* A behaviour is one of the four parts, the others stay as they start.    *)
(* Connections, watching clients and media requests are interchangeable.   *)
(***************************************************************************)
EXTENDS FsTransfers, FsWatch, MediaStreams, ConfigStore, TLC

VARIABLE part

EachFsMenu ==
  {{"write", "edit", "tick"}, {"write", "replace"}, {"upload", "op"},
   {"put", "auth", "replace"}, {"save", "auth", "replace"}, {"write", "upload"}}

Wishes == {[first |-> 0, last |-> None], [first |-> 1, last |-> 1], [first |-> None, last |-> 3],
           [first |-> 2, last |-> 1], [first |-> None, last |-> 0]}
FewQuotas == {[tickets |-> 2, now |-> 0, edits |-> 0, reloads |-> 1],
              [tickets |-> 2, now |-> 1, edits |-> 0, reloads |-> 0],
              [tickets |-> 1, now |-> 2, edits |-> 1, reloads |-> 1]}

Base == [Discovered EXCEPT !.agents = TRUE]
SomeBodies == {[Base EXCEPT !.roots = 2, !.term = "abs"], 
               [Base EXCEPT !.host = 2, !.tel = 2], [Base EXCEPT !.ok = FALSE]}

Interchangeable == Permutations(Conns)

WorkspaceInit ==
  /\ part \in {"transfers", "watch", "media", "config"}
  /\ FsInit /\ WatchInit /\ MediaInit /\ CfgInit
  /\ part # "transfers" => fsmenu = CHOOSE m \in FsMenus : TRUE
  /\ part # "media" => mQuota = CHOOSE q \in MediaQuotas : TRUE
  /\ part # "config" => cfg.file.term = "none"

Transfers == part = "transfers" /\ FsNext /\ UNCHANGED <<part, watchvars, mediaVars, cfgVars>>
Watch     == part = "watch" /\ WatchNext /\ UNCHANGED <<part, fsvars, mediaVars, cfgVars>>
Media     == part = "media" /\ MediaNext /\ UNCHANGED <<part, fsvars, watchvars, cfgVars>>
Config    == part = "config" /\ CfgNext /\ UNCHANGED <<part, fsvars, watchvars, mediaVars>>

WorkspaceNext == Transfers \/ Watch \/ Media \/ Config
WorkspaceSpec == WorkspaceInit /\ [][WorkspaceNext]_<<part, fsvars, watchvars, mediaVars, cfgVars>>
=============================================================================
