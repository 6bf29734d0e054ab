----------------------------- MODULE ConfigStore ------------------------------
(***************************************************************************)
(* The workspace configuration: the TOML file, the copy the server serves  *)
(* from memory, and what is derived from it (the file sandbox's roots, the *)
(* host monitor's settings), under PUT /api/config, PATCH of a project,    *)
(* the settings reload, workspace init and switch, and the telemetry       *)
(* settings, which rewrite the same file (server/src/api/config.rs,        *)
(* api/settings.rs, api/workspace.rs, api/usage.rs, config/parser.rs).     *)
(*                                                                         *)
(* Writers of the file take no lock.  Publication to memory happens under  *)
(* the write side of workspace_context_guard, except for the telemetry     *)
(* settings.  A handler may be dropped at any await when its client goes.  *)
(***************************************************************************)
EXTENDS Naturals, FiniteSets

CONSTANTS
    CfgCalls,     \* requests, each served once
    CfgRoots,     \* project lists, told apart by their roots
    CfgTels,      \* telemetry settings
    CfgHosts,     \* host monitor settings
    PutBodies,    \* the bodies clients PUT, a subset of RawConfig
    MaxDrops      \* handlers dropped halfway

VARIABLES
    cfg,      \* the file, the copy in memory and what was derived from it
    cfgCall,  \* the requests
    cfgDrops  \* handlers dropped so far

cfgVars == <<cfg, cfgCall, cfgDrops>>

\* The file's content.  A terminal profile's cwd is relative on disk and absolute in
\* memory; `ok` is FALSE for content that fails another rule of validate_config.
RawConfig == [roots : CfgRoots, tel : CfgTels, host : CfgHosts,
              term : {"none", "rel", "abs"}, agents : BOOLEAN, ok : BOOLEAN]

ASSUME PutBodiesAssumption == PutBodies \subseteq RawConfig
ASSUME CfgAssumption ==
    /\ CfgRoots # {} /\ CfgTels # {} /\ CfgHosts # {} /\ MaxDrops \in Nat
    /\ "free" \notin CfgCalls

validate_config(raw) == raw.ok /\ raw.term # "abs"

\* What a valid file is in memory.
resolve_project(raw) == [raw EXCEPT !.term = IF @ = "rel" THEN "abs" ELSE @]

\* The configurations a file yields: one, or none when it does not validate.
read_config(raw) == IF validate_config(raw) THEN {resolve_project(raw)} ELSE {}

\* write_config: a terminal's cwd is made relative again, and the project's agents are
\* not written; the server section is written in full.
project_to_toml(m) ==
    [roots |-> m.roots, term |-> IF m.term = "abs" THEN "rel" ELSE m.term, agents |-> FALSE]
server_to_toml(m) == [tel |-> m.tel, host |-> m.host]
build_raw_toml(m) ==
    LET p == project_to_toml(m)
        s == server_to_toml(m)
    IN [roots |-> p.roots, tel |-> s.tel, host |-> s.host,
        term |-> p.term, agents |-> p.agents, ok |-> m.ok]

\* A PATCH replaces fields of one project in the file's own text.
patch_project(raw, roots, ok) == [raw EXCEPT !.roots = roots, !.ok = ok]

\* What init_workspace writes when it finds no loadable configuration.
Discovered ==
    [roots |-> CHOOSE x \in CfgRoots : TRUE, tel |-> CHOOSE x \in CfgTels : TRUE,
     host |-> CHOOSE x \in CfgHosts : TRUE, term |-> "none", agents |-> FALSE, ok |-> TRUE]

Free == "free"
NoCall == [pc |-> "idle", kind |-> "put", value |-> Discovered, alone |-> FALSE]

CfgInit ==
    /\ \E t \in {"none", "rel"} :
         LET raw == [Discovered EXCEPT !.term = t, !.agents = TRUE]
         IN cfg = [file |-> raw, mem |-> resolve_project(raw), sandbox |-> raw.roots,
                   monitor |-> raw.host, guard |-> Free, mixed |-> FALSE, torn |-> FALSE]
    /\ cfgCall = [c \in CfgCalls |-> NoCall]
    /\ cfgDrops = 0

-----------------------------------------------------------------------------
InFlight == {c \in CfgCalls : cfgCall[c].pc \notin {"idle", "done"}}

\* The calls that publish a configuration they loaded before holding the guard.
Early == {"init", "usage"}

\* `alone`: no other call was served while this one was.
Started(c, kind, pc, value) ==
    [d \in CfgCalls |-> IF d = c
                        THEN [pc |-> pc, kind |-> kind, value |-> value, alone |-> InFlight = {}]
                        ELSE [cfgCall[d] EXCEPT !.alone = FALSE]]

CfgStarts(c, kind, pc, value) ==
    /\ cfgCall[c].pc = "idle"
    /\ cfgCall' = Started(c, kind, pc, value)
    /\ cfg' = [cfg EXCEPT !.mixed = @ \/ \E d \in InFlight : kind \in Early \/ cfgCall[d].kind \in Early]
    /\ UNCHANGED cfgDrops

CfgMoves(c, pc) == cfgCall' = [cfgCall EXCEPT ![c].pc = pc]

\* PUT: the telemetry part must be the one in memory; the body is the client's, as a GET
\* returned it with some fields edited, so a terminal's cwd may well be absolute.
update_config(c, body) ==
    CfgStarts(c, "put", IF body.tel = cfg.mem.tel THEN "write" ELSE "done", body)

\* PATCH: the file is read, one project's fields are replaced.
update_project(c, roots, ok) ==
    CfgStarts(c, "patch", "write", patch_project(cfg.file, roots, ok))

\* The telemetry settings: the whole configuration is copied from memory.  The
\* coordinator's lock admits one of these at a time.
update_settings(c, tel) ==
    /\ \A d \in InFlight : cfgCall[d].kind # "usage"
    /\ CfgStarts(c, "usage", "write", [cfg.mem EXCEPT !.tel = tel])

cache_clear(c) == CfgStarts(c, "clear", "lock", Discovered)

\* atomic_write, before anything is validated.
CfgWrites(c) ==
    LET q == cfgCall[c] IN
    /\ q.pc = "write"
    /\ cfg' = [cfg EXCEPT !.file = IF q.kind = "usage" THEN build_raw_toml(q.value) ELSE q.value]
    /\ CfgMoves(c, IF q.kind = "usage" THEN "derive" ELSE "lock")
    /\ UNCHANGED cfgDrops

\* init_workspace and switch_workspace load first; init replaces a file it cannot load.
init_workspace(c) ==
    /\ cfgCall[c].pc = "idle"
    /\ LET found == IF read_config(cfg.file) # {} THEN cfg.file ELSE build_raw_toml(Discovered) IN
       /\ \E m \in read_config(found) : cfgCall' = Started(c, "init", "lock", m)
       /\ cfg' = [cfg EXCEPT !.file = found, !.mixed = @ \/ InFlight # {}]
    /\ UNCHANGED cfgDrops

switch_workspace(c) ==
    \E m \in read_config(cfg.file) : CfgStarts(c, "init", "lock", m)

TakesContext(c) ==
    /\ cfgCall[c].pc = "lock" /\ cfg.guard = Free
    /\ cfg' = [cfg EXCEPT !.guard = c]
    /\ CfgMoves(c, IF cfgCall[c].kind = "init" THEN "sandbox" ELSE "read")
    /\ UNCHANGED cfgDrops

\* Mutant: the reload publishes what the call wrote, not what the file says.
reload_config_OwnValue(c) ==
    /\ cfgCall[c].pc = "read"
    /\ UNCHANGED <<cfgDrops, cfg>>
    /\ cfgCall' = [cfgCall EXCEPT ![c].pc = "sandbox"]

\* read_config under the guard; a file that does not validate ends the call.
reload_config(c) ==
    /\ cfgCall[c].pc = "read"
    /\ UNCHANGED cfgDrops
    /\ \/ \E m \in read_config(cfg.file) :
             /\ cfgCall' = [cfgCall EXCEPT ![c].pc = "sandbox", ![c].value = m]
             /\ UNCHANGED cfg
       \/ /\ read_config(cfg.file) = {}
          /\ CfgMoves(c, "done")
          /\ cfg' = [cfg EXCEPT !.guard = Free]

\* revoke_all and reinit_sandbox run without an await between them.
ReinitsSandbox(c) ==
    /\ cfgCall[c].pc = "sandbox"
    /\ cfg' = [cfg EXCEPT !.sandbox = cfgCall[c].value.roots]
    /\ CfgMoves(c, "derive")
    /\ UNCHANGED cfgDrops

Reconfigures(c) ==
    /\ cfgCall[c].pc = "derive"
    /\ cfg' = [cfg EXCEPT !.monitor = cfgCall[c].value.host]
    /\ CfgMoves(c, "publish")
    /\ UNCHANGED cfgDrops

\* The copy in memory is replaced and the guard released.  A reload that was alone
\* settles what earlier overlaps and dropped handlers left.
PublishesConfig(c) ==
    LET settles == cfgCall[c].kind \notin Early /\ cfgCall[c].alone IN
    /\ cfgCall[c].pc = "publish"
    /\ cfg' = [cfg EXCEPT !.mem = cfgCall[c].value,
                          !.guard = IF @ = c THEN Free ELSE @,
                          !.mixed = @ /\ ~settles, !.torn = @ /\ ~settles]
    /\ CfgMoves(c, "done")
    /\ UNCHANGED cfgDrops

\* The client disconnects: the handler's future is dropped at an await, and with it the guard.
CfgDropped(c) ==
    /\ cfgDrops < MaxDrops
    /\ cfgCall[c].pc \in {"lock", "derive", "publish"}
    /\ cfgDrops' = cfgDrops + 1
    /\ cfg' = [cfg EXCEPT !.torn = TRUE, !.guard = IF @ = c THEN Free ELSE @]
    /\ CfgMoves(c, "done")

CfgNext ==
    \E c \in CfgCalls :
        \/ \E body \in PutBodies : update_config(c, body)
        \/ \E roots \in CfgRoots, ok \in BOOLEAN : update_project(c, roots, ok)
        \/ \E tel \in CfgTels : update_settings(c, tel)
        \/ cache_clear(c)
        \/ CfgWrites(c)
        \/ init_workspace(c)
        \/ switch_workspace(c)
        \/ TakesContext(c)
        \/ reload_config(c)
        \/ ReinitsSandbox(c)
        \/ Reconfigures(c)
        \/ PublishesConfig(c)
        \/ CfgDropped(c)

CfgSpec == CfgInit /\ [][CfgNext]_cfgVars

-----------------------------------------------------------------------------
(* Properties.                                                             *)

\* write_config leaves the agents out of the file on purpose.
SameConfig(m, raw) == [m EXCEPT !.agents = FALSE] = [resolve_project(raw) EXCEPT !.agents = FALSE]

\* Whoever holds the read side of workspace_context_guard (media tickets, streams) sees
\* a sandbox and a host monitor that are those of the configuration in memory, unless a
\* call that publishes what it loaded earlier overlapped another, or a handler was
\* dropped halfway.
ReadersSeeOneConfig ==
    cfg.guard = Free /\ ~cfg.mixed /\ ~cfg.torn
        => cfg.sandbox = cfg.mem.roots /\ (cfg.monitor = cfg.mem.host \/ InFlight # {})

\* Writes of the file that overlap lose nothing to memory: once no request is being
\* served, memory is what the file says, whichever order the writes and the reloads
\* came in (with the same two exceptions, and as long as the file can be loaded).
QuietMemoryIsFile ==
    InFlight = {} /\ ~cfg.mixed /\ ~cfg.torn /\ read_config(cfg.file) # {}
        => SameConfig(cfg.mem, cfg.file)

\* One configuration: readers under the guard see one, and at rest it is the file's.
OneConfiguration == ReadersSeeOneConfig /\ QuietMemoryIsFile
=============================================================================
