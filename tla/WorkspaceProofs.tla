--------------------------- MODULE WorkspaceProofs ---------------------------
(***************************************************************************)
(* Proofs about what the server does with the workspace, for any number of *)
(* requests, connections, directories and media:                           *)
(*   - the configuration: file, memory and what was derived agree          *)
(*     (OneConfiguration of ConfigStore);                                  *)
(*   - the directory subscriptions: a watcher counts exactly its           *)
(*     subscriptions, each of which has a task that will still release it, *)
(*     and a subscriber that never lagged misses no change;                *)
(*   - the media tickets and streams: what the store holds is bound to a   *)
(*     live session of its actor and to the workspace of now, a body is    *)
(*     the bytes that were asked for, and it is sent only for what nothing *)
(*     revoked.                                                            *)
(***************************************************************************)
EXTENDS ConfigStore, FsWatch, MediaStreams, FiniteSetTheorems, SequenceTheorems, TLAPS

-----------------------------------------------------------------------------
(* Configuration.                                                          *)
(* The inductive invariant.                                                *)

MemConfig == {m \in RawConfig : m.term # "rel"}
CfgKinds  == {"put", "patch", "usage", "clear", "init"}
CfgPcs    == {"idle", "write", "lock", "read", "sandbox", "derive", "publish", "done"}

CfgTypeOK ==
  /\ cfg \in [file : RawConfig, mem : MemConfig, sandbox : CfgRoots, monitor : CfgHosts,
              guard : CfgCalls \cup {Free}, mixed : BOOLEAN, torn : BOOLEAN]
  /\ cfgCall \in [CfgCalls -> [pc : CfgPcs, kind : CfgKinds, value : RawConfig, alone : BOOLEAN]]

Flies(c)  == cfgCall[c].pc \notin {"idle", "done"}
Holds(c)  == cfgCall[c].kind # "usage" /\ cfgCall[c].pc \in {"read", "sandbox", "derive", "publish"}
\* The call has the configuration it will publish.
Loaded(c) == \/ cfgCall[c].pc \in {"sandbox", "derive", "publish"}
             \/ cfgCall[c].kind = "init" /\ cfgCall[c].pc = "lock"
\* Some call will still read the file.
Pending   == \E c \in CfgCalls : cfgCall[c].kind \notin Early /\ cfgCall[c].pc \in {"lock", "read"}
Clean     == ~cfg.mixed /\ ~cfg.torn

\* Where the calls of a kind can be, and what they carry there.
CallShape == \A c \in CfgCalls :
  /\ cfgCall[c].kind = "usage" => cfgCall[c].pc \in {"write", "derive", "publish", "done"}
  /\ cfgCall[c].kind = "init" => cfgCall[c].pc \in {"lock", "sandbox", "derive", "publish", "done"}
  /\ Loaded(c) \/ cfgCall[c].kind = "usage" => cfgCall[c].value \in MemConfig

\* The write side of the guard is held by the one call that is past it.
GuardHeld == \A c \in CfgCalls : cfg.guard = c <=> Holds(c)

\* A call that is alone is the only one in flight; so is, without a mixture, an early one.
AloneIsAlone == \A c, d \in CfgCalls :
  Flies(c) /\ Flies(d) /\ (cfgCall[c].alone \/ (~cfg.mixed /\ cfgCall[c].kind \in Early)) => c = d

\* What the guard's holder has derived so far is derived from its own value.
Derived == \A c \in CfgCalls :
  /\ Holds(c) /\ cfgCall[c].pc \in {"derive", "publish"} => cfg.sandbox = cfgCall[c].value.roots
  /\ cfgCall[c].pc = "publish" /\ (~cfg.mixed \/ cfgCall[c].alone)
       => cfg.monitor = cfgCall[c].value.host

\* The telemetry settings change nothing else, as long as nobody else publishes.
UsageCopies == ~cfg.mixed => \A c \in CfgCalls : Flies(c) /\ cfgCall[c].kind = "usage" =>
  cfgCall[c].value.roots = cfg.mem.roots /\ cfgCall[c].value.host = cfg.mem.host

\* Until a call derives anew, sandbox and monitor are those of the copy in memory.
MemoryDerived == Clean =>
  /\ (\A c \in CfgCalls : Holds(c) => cfgCall[c].pc \notin {"derive", "publish"})
       => cfg.sandbox = cfg.mem.roots
  /\ (\A c \in CfgCalls : cfgCall[c].pc # "publish") => cfg.monitor = cfg.mem.host

\* What a call is about to publish is the file's, unless the file changed since, and then
\* the call that changed it has yet to reload it.
LoadedIsFile == \A c \in CfgCalls :
  /\ Clean /\ Loaded(c) =>
       SameConfig(cfgCall[c].value, cfg.file) \/ Pending \/ read_config(cfg.file) = {}
  /\ Loaded(c) /\ cfgCall[c].alone /\ cfgCall[c].kind \notin Early =>
       SameConfig(cfgCall[c].value, cfg.file)

MemoryIsFile == Clean =>
  SameConfig(cfg.mem, cfg.file) \/ Pending \/ read_config(cfg.file) = {} \/ \E c \in CfgCalls : Loaded(c)

CfgInv == /\ CfgTypeOK /\ CallShape /\ GuardHeld /\ AloneIsAlone /\ Derived /\ UsageCopies
          /\ MemoryDerived /\ LoadedIsFile /\ MemoryIsFile
-----------------------------------------------------------------------------
(* What loading and writing a configuration do to it.                      *)

\* What a file loads to is a configuration as memory holds it.
LEMMA ResolveType == \A raw \in RawConfig : resolve_project(raw) \in MemConfig
  BY DEF MemConfig, RawConfig, resolve_project

\* Loading yields the file's own configuration or nothing.
LEMMA ReadIsFile ==
  \A raw \in RawConfig : \A m \in read_config(raw) : m \in MemConfig /\ SameConfig(m, raw)
  BY ResolveType DEF read_config, SameConfig

\* Two configurations with the same fields are the same.
LEMMA SameFields ==
  ASSUME NEW a \in RawConfig, NEW b \in RawConfig,
         a.roots = b.roots, a.tel = b.tel, a.host = b.host, a.term = b.term,
         a.agents = b.agents, a.ok = b.ok
  PROVE  a = b
<1>1. a = [roots |-> a.roots, tel |-> a.tel, host |-> a.host, term |-> a.term,
           agents |-> a.agents, ok |-> a.ok]
  BY DEF RawConfig
<1>2. b = [roots |-> b.roots, tel |-> b.tel, host |-> b.host, term |-> b.term,
           agents |-> b.agents, ok |-> b.ok]
  BY DEF RawConfig
<1> QED BY <1>1, <1>2

\* write_config and read_config are inverse up to the agents.
LEMMA WriteThenRead ==
  \A m \in MemConfig : build_raw_toml(m) \in RawConfig /\ SameConfig(m, build_raw_toml(m))
<1> TAKE m \in MemConfig
<1> DEFINE b == build_raw_toml(m)
           r == resolve_project(b)
           x == [m EXCEPT !.agents = FALSE]
           y == [r EXCEPT !.agents = FALSE]
<1>1. /\ b \in RawConfig
      /\ b.roots = m.roots /\ b.tel = m.tel /\ b.host = m.host /\ b.ok = m.ok
      /\ b.term = IF m.term = "abs" THEN "rel" ELSE m.term
  BY DEF build_raw_toml, project_to_toml, server_to_toml, MemConfig, RawConfig
<1> HIDE DEF b
<1>2. /\ r \in RawConfig
      /\ r.roots = m.roots /\ r.tel = m.tel /\ r.host = m.host /\ r.ok = m.ok
      /\ r.term = m.term
  BY <1>1 DEF resolve_project, MemConfig, RawConfig
<1> HIDE DEF r
<1>3. /\ y \in RawConfig
      /\ y.roots = m.roots /\ y.tel = m.tel /\ y.host = m.host /\ y.ok = m.ok
      /\ y.term = m.term /\ y.agents = FALSE
  BY <1>2 DEF RawConfig
<1>4. /\ x \in RawConfig
      /\ x.roots = m.roots /\ x.tel = m.tel /\ x.host = m.host /\ x.ok = m.ok
      /\ x.term = m.term /\ x.agents = FALSE
  BY DEF RawConfig, MemConfig
<1> HIDE DEF x, y
<1>5. x = y
  BY <1>3, <1>4, SameFields
<1> QED BY <1>1, <1>5 DEF SameConfig, b, r, x, y

\* What init_workspace writes is a configuration.
LEMMA DiscoveredType == Discovered \in MemConfig
  BY CfgAssumption DEF Discovered, MemConfig, RawConfig

\* Both sides of SameConfig share roots and host.
LEMMA MemConfigFields == \A m \in MemConfig : m \in RawConfig /\ m.roots \in CfgRoots /\ m.host \in CfgHosts
  BY DEF MemConfig, RawConfig

-----------------------------------------------------------------------------
(* The invariant holds initially and every step keeps it.                  *)

\* The server starts with the file's configuration and no request.
LEMMA CfgInitInv == CfgInit => CfgInv
<1> SUFFICES ASSUME CfgInit PROVE CfgInv
  OBVIOUS
<1>1. PICK t \in {"none", "rel"} :
        LET raw == [Discovered EXCEPT !.term = t, !.agents = TRUE]
        IN cfg = [file |-> raw, mem |-> resolve_project(raw), sandbox |-> raw.roots,
                  monitor |-> raw.host, guard |-> Free, mixed |-> FALSE, torn |-> FALSE]
  BY DEF CfgInit
<1> DEFINE raw == [Discovered EXCEPT !.term = t, !.agents = TRUE]
<1>2. raw \in RawConfig /\ raw.roots = Discovered.roots /\ raw.host = Discovered.host
  BY DiscoveredType DEF MemConfig, RawConfig
<1>3. resolve_project(raw) \in MemConfig /\ resolve_project(raw).roots = raw.roots
         /\ resolve_project(raw).host = raw.host /\ SameConfig(resolve_project(raw), raw)
  BY <1>2, ResolveType DEF resolve_project, SameConfig, RawConfig
<1>4. cfg = [file |-> raw, mem |-> resolve_project(raw), sandbox |-> raw.roots,
             monitor |-> raw.host, guard |-> Free, mixed |-> FALSE, torn |-> FALSE]
  BY <1>1
<1> HIDE DEF raw
<1>5. /\ cfg.file = raw /\ cfg.mem = resolve_project(raw) /\ cfg.sandbox = raw.roots
      /\ cfg.monitor = raw.host /\ cfg.guard = Free
  BY <1>4
<1>6. \A c \in CfgCalls : cfgCall[c].pc = "idle" /\ cfgCall[c].kind = "put"
                            /\ cfgCall[c].alone = FALSE
  BY DEF CfgInit, NoCall
<1>7. CfgTypeOK
  BY <1>2, <1>3, <1>4, DiscoveredType
     DEF CfgInit, CfgTypeOK, NoCall, CfgPcs, CfgKinds, MemConfig, RawConfig, Free
<1>8. GuardHeld
  BY <1>5, <1>6, CfgAssumption DEF GuardHeld, Holds, Free
<1> QED
  BY <1>3, <1>5, <1>6, <1>7, <1>8
     DEF CfgInv, CallShape, AloneIsAlone, Derived, UsageCopies, MemoryDerived, LoadedIsFile,
         MemoryIsFile, Flies, Holds, Loaded

\* A request starts: it may put the calls in flight into a mixture, and init_workspace
\* may replace a file that does not load.
StartsWith(c, kind, pc, value, f) ==
  /\ cfgCall[c].pc = "idle" /\ cfgCall' = Started(c, kind, pc, value)
  /\ cfg' = [cfg EXCEPT !.file = f,
                        !.mixed = @ \/ \E d \in InFlight : kind \in Early \/ cfgCall[d].kind \in Early]

StartShape(kind, pc, value, f) ==
  /\ value \in RawConfig /\ f \in RawConfig
  /\ \/ kind \in {"put", "patch"} /\ pc \in {"write", "done"} /\ f = cfg.file
     \/ kind = "clear" /\ pc = "lock" /\ f = cfg.file
     \/ /\ kind = "usage" /\ pc = "write" /\ f = cfg.file /\ value \in MemConfig
        /\ value.roots = cfg.mem.roots /\ value.host = cfg.mem.host
     \/ kind = "init" /\ pc = "lock" /\ value \in MemConfig /\ SameConfig(value, f)

\* A request that starts keeps the invariant.
LEMMA StartKeepsInv ==
  ASSUME CfgInv, NEW c \in CfgCalls, NEW kind, NEW pc, NEW value, NEW f,
         StartsWith(c, kind, pc, value, f), StartShape(kind, pc, value, f)
  PROVE  CfgInv'
<1> USE DEF StartsWith, StartShape
<1> DEFINE mix == cfg.mixed \/ \E d \in InFlight : kind \in Early \/ cfgCall[d].kind \in Early
<1>1. /\ cfg'.file = f /\ cfg'.mem = cfg.mem /\ cfg'.sandbox = cfg.sandbox
      /\ cfg'.monitor = cfg.monitor /\ cfg'.guard = cfg.guard /\ cfg'.torn = cfg.torn
      /\ cfg'.mixed = mix
  BY DEF CfgInv, CfgTypeOK
<1>2. mix = (cfg.mixed \/ \E d \in CfgCalls : Flies(d) /\ (kind \in Early \/ cfgCall[d].kind \in Early))
  BY DEF InFlight, Flies
<1>3. /\ cfgCall'[c].pc = pc /\ cfgCall'[c].kind = kind /\ cfgCall'[c].value = value
      /\ cfgCall'[c].alone = (InFlight = {})
  BY DEF Started
<1>4. \A d \in CfgCalls \ {c} : /\ cfgCall'[d].pc = cfgCall[d].pc /\ cfgCall'[d].kind = cfgCall[d].kind
                                 /\ cfgCall'[d].value = cfgCall[d].value /\ cfgCall'[d].alone = FALSE
  BY DEF Started, CfgInv, CfgTypeOK
<1>5. CfgTypeOK'
  <2>1. cfg' \in [file : RawConfig, mem : MemConfig, sandbox : CfgRoots, monitor : CfgHosts,
                  guard : CfgCalls \cup {Free}, mixed : BOOLEAN, torn : BOOLEAN]
    BY DEF CfgInv, CfgTypeOK
  <2>2. pc \in CfgPcs /\ kind \in CfgKinds
    BY DEF CfgPcs, CfgKinds
  <2>3. cfgCall' \in [CfgCalls -> [pc : CfgPcs, kind : CfgKinds, value : RawConfig, alone : BOOLEAN]]
    BY <2>2 DEF CfgInv, CfgTypeOK, Started
  <2> QED BY <2>1, <2>3 DEF CfgTypeOK
<1> HIDE DEF mix
<1>6. (InFlight = {}) = (\A d \in CfgCalls : ~Flies(d))
  BY DEF InFlight, Flies
<1>7. CallShape'
  BY <1>3, <1>4 DEF CfgInv, CallShape, Loaded
<1>8. GuardHeld'
  BY <1>1, <1>3, <1>4 DEF CfgInv, GuardHeld, Holds
<1>9. AloneIsAlone'
  <2> SUFFICES ASSUME NEW a \in CfgCalls, NEW d \in CfgCalls, Flies(a)', Flies(d)', a # d,
                      (cfgCall[a].alone \/ (~cfg.mixed /\ cfgCall[a].kind \in Early))'
               PROVE  FALSE
    BY DEF AloneIsAlone
  <2>1. CASE a = c
    BY <2>1, <1>1, <1>2, <1>3, <1>4, <1>6 DEF Flies
  <2>2. CASE d = c
    BY <2>2, <1>1, <1>2, <1>3, <1>4 DEF Flies
  <2>3. CASE a # c /\ d # c
    BY <2>3, <1>1, <1>2, <1>4 DEF CfgInv, AloneIsAlone, Flies
  <2> QED BY <2>1, <2>2, <2>3
<1>10. Derived'
  BY <1>1, <1>2, <1>3, <1>4 DEF CfgInv, Derived, Holds
<1>11. UsageCopies'
  <2> SUFFICES ASSUME NEW d \in CfgCalls, ~mix, Flies(d)', cfgCall'[d].kind = "usage"
               PROVE  /\ cfgCall'[d].value.roots = cfg.mem.roots
                      /\ cfgCall'[d].value.host = cfg.mem.host
    BY <1>1 DEF UsageCopies
  <2>1. CASE d = c
    BY <2>1, <1>3
  <2>2. CASE d # c
    <3>1. ~cfg.mixed /\ Flies(d) /\ cfgCall[d].kind = "usage"
      BY <2>2, <1>2, <1>4 DEF Flies
    <3> QED BY <2>2, <3>1, <1>4 DEF CfgInv, UsageCopies
  <2> QED BY <2>1, <2>2
<1>12. MemoryDerived'
  BY <1>1, <1>2, <1>3, <1>4 DEF CfgInv, MemoryDerived, Clean, Holds
<1>13. LoadedIsFile'
  <2> SUFFICES ASSUME NEW d \in CfgCalls, Loaded(d)'
               PROVE  /\ Clean' => (SameConfig(cfgCall[d].value, cfg.file) \/ Pending
                                     \/ read_config(cfg.file) = {})'
                      /\ (cfgCall[d].alone /\ cfgCall[d].kind \notin Early)' =>
                            SameConfig(cfgCall[d].value, cfg.file)'
    BY DEF LoadedIsFile
  <2>1. CASE d = c
    BY <2>1, <1>1, <1>3 DEF Loaded, Early
  <2>2. CASE d # c
    <3>1. Loaded(d) /\ Flies(d) /\ ~(cfgCall[d].alone)'
      BY <2>2, <1>4 DEF Loaded, Flies
    <3>2. CASE kind = "init"
      BY <3>1, <3>2, <2>2, <1>1, <1>2 DEF Clean, Early
    <3>3. CASE kind # "init"
      <4>1. Clean' => Clean
        BY <1>1, <1>2 DEF Clean
      <4>2. Pending => Pending'
        BY <1>4 DEF Pending
      <4> QED BY <4>1, <4>2, <3>1, <3>3, <2>2, <1>1, <1>4 DEF CfgInv, LoadedIsFile
    <3> QED BY <3>2, <3>3
  <2> QED BY <2>1, <2>2
<1>14. MemoryIsFile'
  BY <1>1, <1>2, <1>3, <1>4 DEF CfgInv, MemoryIsFile, Clean, Loaded, Pending, Early
<1> QED BY <1>5, <1>7, <1>8, <1>9, <1>10, <1>11, <1>12, <1>13, <1>14 DEF CfgInv

\* Every request that starts does so by the shape StartKeepsInv names.
LEMMA RequestKeepsInv ==
  ASSUME CfgInv, NEW c \in CfgCalls,
         \/ \E body \in PutBodies : update_config(c, body)
         \/ \E roots \in CfgRoots, ok \in BOOLEAN : update_project(c, roots, ok)
         \/ \E tel \in CfgTels : update_settings(c, tel)
         \/ cache_clear(c)
         \/ switch_workspace(c)
         \/ init_workspace(c)
  PROVE  CfgInv'
<1>1. cfg.file \in RawConfig /\ cfg.mem \in MemConfig
  BY DEF CfgInv, CfgTypeOK
<1>2. ASSUME NEW kind, NEW pc, NEW value, CfgStarts(c, kind, pc, value)
      PROVE  StartsWith(c, kind, pc, value, cfg.file)
  BY <1>2 DEF StartsWith, CfgStarts, CfgInv, CfgTypeOK
<1>3. CASE \E body \in PutBodies : update_config(c, body)
  <2> PICK body \in PutBodies : update_config(c, body)
    BY <1>3
  <2> DEFINE pc == IF body.tel = cfg.mem.tel THEN "write" ELSE "done"
  <2>1. StartShape("put", pc, body, cfg.file) /\ CfgStarts(c, "put", pc, body)
    BY <1>1, PutBodiesAssumption DEF update_config, StartShape
  <2> HIDE DEF pc
  <2> QED BY <2>1, <1>2, StartKeepsInv
<1>4. CASE \E roots \in CfgRoots, ok \in BOOLEAN : update_project(c, roots, ok)
  <2> PICK roots \in CfgRoots, ok \in BOOLEAN : update_project(c, roots, ok)
    BY <1>4
  <2> DEFINE value == patch_project(cfg.file, roots, ok)
  <2>1. value \in RawConfig /\ CfgStarts(c, "patch", "write", value)
    BY <1>1 DEF update_project, patch_project, RawConfig
  <2> HIDE DEF value
  <2>2. StartShape("patch", "write", value, cfg.file)
    BY <2>1, <1>1 DEF StartShape
  <2> QED BY <2>1, <2>2, <1>2, StartKeepsInv
<1>5. CASE \E tel \in CfgTels : update_settings(c, tel)
  <2> PICK tel \in CfgTels : update_settings(c, tel)
    BY <1>5
  <2> DEFINE value == [cfg.mem EXCEPT !.tel = tel]
  <2>1. /\ value \in MemConfig /\ value \in RawConfig
        /\ value.roots = cfg.mem.roots /\ value.host = cfg.mem.host
    BY <1>1 DEF MemConfig, RawConfig
  <2>2. CfgStarts(c, "usage", "write", value)
    BY DEF update_settings
  <2> HIDE DEF value
  <2>3. StartShape("usage", "write", value, cfg.file)
    BY <2>1, <1>1 DEF StartShape
  <2> QED BY <2>2, <2>3, <1>2, StartKeepsInv
<1>6. CASE cache_clear(c)
  <2>1. CfgStarts(c, "clear", "lock", Discovered)
    BY <1>6 DEF cache_clear
  <2>2. StartShape("clear", "lock", Discovered, cfg.file)
    BY <1>1, DiscoveredType, MemConfigFields DEF StartShape
  <2> QED BY <2>1, <2>2, <1>2, StartKeepsInv
<1>7. CASE switch_workspace(c)
  <2> PICK m \in read_config(cfg.file) : CfgStarts(c, "init", "lock", m)
    BY <1>7 DEF switch_workspace
  <2>1. m \in MemConfig /\ m \in RawConfig /\ SameConfig(m, cfg.file)
    BY <1>1, ReadIsFile, MemConfigFields
  <2>2. StartShape("init", "lock", m, cfg.file)
    BY <2>1, <1>1 DEF StartShape
  <2> QED BY <2>2, <1>2, StartKeepsInv
<1>8. CASE init_workspace(c)
  <2> DEFINE f == IF read_config(cfg.file) # {} THEN cfg.file ELSE build_raw_toml(Discovered)
  <2> PICK m \in read_config(f) : cfgCall' = Started(c, "init", "lock", m)
    BY <1>8 DEF init_workspace
  <2>1. f \in RawConfig
    BY <1>1, DiscoveredType, WriteThenRead
  <2>2. cfgCall[c].pc = "idle" /\ cfg' = [cfg EXCEPT !.file = f, !.mixed = @ \/ InFlight # {}]
    BY <1>8 DEF init_workspace
  <2> HIDE DEF f
  <2>3. m \in MemConfig /\ m \in RawConfig /\ SameConfig(m, f)
    BY <2>1, ReadIsFile, MemConfigFields
  <2>4. (InFlight # {}) = \E d \in InFlight : "init" \in Early \/ cfgCall[d].kind \in Early
    BY DEF Early
  <2>5. StartsWith(c, "init", "lock", m, f)
    BY <2>2, <2>4 DEF StartsWith
  <2>6. StartShape("init", "lock", m, f)
    BY <2>1, <2>3 DEF StartShape
  <2> QED BY <2>5, <2>6, StartKeepsInv
<1> QED BY <1>3, <1>4, <1>5, <1>6, <1>7, <1>8

\* The file is written: whoever loaded the old one is covered by the writer's reload.
LEMMA WriteKeepsInv ==
  ASSUME CfgInv, NEW c \in CfgCalls, CfgWrites(c)
  PROVE  CfgInv'
<1> DEFINE q == cfgCall[c]
           f == IF q.kind = "usage" THEN build_raw_toml(q.value) ELSE q.value
           pc == IF q.kind = "usage" THEN "derive" ELSE "lock"
<1>1. q \in [pc : CfgPcs, kind : CfgKinds, value : RawConfig, alone : BOOLEAN] /\ q.pc = "write"
  BY DEF CfgWrites, CfgInv, CfgTypeOK
<1>2. f \in RawConfig /\ (q.kind = "usage" => SameConfig(q.value, f))
  BY <1>1, WriteThenRead DEF CfgInv, CallShape
<1>3. cfg' = [cfg EXCEPT !.file = f] /\ cfgCall' = [cfgCall EXCEPT ![c].pc = pc]
  BY DEF CfgWrites, CfgMoves
<1>4. q.kind \notin {"usage", "init"} => pc = "lock"
  OBVIOUS
<1>5. q.kind = "usage" => pc = "derive"
  OBVIOUS
<1>6. q.kind # "init" /\ pc \in {"lock", "derive"}
  BY <1>1 DEF CfgInv, CallShape
<1> HIDE DEF f, pc
<1>7. CfgTypeOK'
  BY <1>2, <1>3, <1>6 DEF CfgInv, CfgTypeOK, CfgPcs
<1>8. /\ cfg'.file = f /\ cfg'.mem = cfg.mem /\ cfg'.sandbox = cfg.sandbox
      /\ cfg'.monitor = cfg.monitor /\ cfg'.guard = cfg.guard /\ cfg'.torn = cfg.torn
      /\ cfg'.mixed = cfg.mixed
  BY <1>3 DEF CfgInv, CfgTypeOK
<1>9. /\ cfgCall'[c].pc = pc /\ cfgCall'[c].kind = q.kind /\ cfgCall'[c].value = q.value
      /\ cfgCall'[c].alone = q.alone
      /\ \A d \in CfgCalls \ {c} : cfgCall'[d] = cfgCall[d]
  BY <1>3 DEF CfgInv, CfgTypeOK
<1>10. CallShape'
  BY <1>1, <1>4, <1>5, <1>6, <1>9 DEF CfgInv, CallShape, Loaded
<1>11. GuardHeld'
  BY <1>1, <1>4, <1>5, <1>6, <1>8, <1>9 DEF CfgInv, GuardHeld, Holds
<1>12. \A d \in CfgCalls : Flies(d)' <=> Flies(d)
  BY <1>1, <1>6, <1>9 DEF Flies
<1>13. AloneIsAlone'
  BY <1>8, <1>9, <1>12 DEF CfgInv, AloneIsAlone
<1>14. Derived'
  BY <1>1, <1>4, <1>5, <1>6, <1>8, <1>9 DEF CfgInv, Derived, Holds
<1>15. UsageCopies'
  BY <1>8, <1>9, <1>12 DEF CfgInv, UsageCopies
<1>16. MemoryDerived'
  BY <1>1, <1>4, <1>5, <1>6, <1>8, <1>9 DEF CfgInv, MemoryDerived, Clean, Holds
<1>17. q.kind # "usage" => Pending'
  BY <1>4, <1>6, <1>9 DEF Pending, Early
<1>18. LoadedIsFile'
  <2> SUFFICES ASSUME NEW d \in CfgCalls, Loaded(d)'
               PROVE  /\ Clean' => (SameConfig(cfgCall[d].value, cfg.file) \/ Pending
                                     \/ read_config(cfg.file) = {})'
                      /\ (cfgCall[d].alone /\ cfgCall[d].kind \notin Early)' =>
                            SameConfig(cfgCall[d].value, cfg.file)'
    BY DEF LoadedIsFile
  <2>1. CASE d = c
    BY <2>1, <1>2, <1>4, <1>5, <1>6, <1>8, <1>9 DEF Loaded, Early
  <2>2. CASE d # c
    <3>1. Flies(c) /\ Flies(d)
      BY <2>2, <1>1, <1>9 DEF Flies, Loaded
    <3>2. ~(cfgCall[d].alone)'
      BY <3>1, <2>2, <1>9 DEF CfgInv, AloneIsAlone
    <3>3. q.kind = "usage" => ~Clean'
      BY <3>1, <2>2, <1>8 DEF CfgInv, AloneIsAlone, Clean, Early
    <3> QED BY <3>2, <3>3, <1>17
  <2> QED BY <2>1, <2>2
<1>19. MemoryIsFile'
  BY <1>5, <1>9, <1>17 DEF MemoryIsFile, Loaded
<1> QED BY <1>7, <1>10, <1>11, <1>13, <1>14, <1>15, <1>16, <1>18, <1>19 DEF CfgInv

\* The guard is taken only when it is free.
LEMMA GuardKeepsInv ==
  ASSUME CfgInv, NEW c \in CfgCalls, TakesContext(c)
  PROVE  CfgInv'
<1> DEFINE pc == IF cfgCall[c].kind = "init" THEN "sandbox" ELSE "read"
<1>1. cfgCall' = [cfgCall EXCEPT ![c].pc = pc] /\ cfg' = [cfg EXCEPT !.guard = c]
  BY DEF TakesContext, CfgMoves
<1>2. cfgCall[c] \in [pc : CfgPcs, kind : CfgKinds, value : RawConfig, alone : BOOLEAN]
  BY DEF CfgInv, CfgTypeOK
<1>3. /\ cfgCall[c].pc = "lock" /\ cfgCall[c].kind # "usage" /\ cfg.guard = Free
      /\ IF cfgCall[c].kind = "init" THEN pc = "sandbox" ELSE pc = "read"
  BY <1>2 DEF TakesContext, CfgInv, CallShape
<1>4. /\ cfg'.file = cfg.file /\ cfg'.mem = cfg.mem /\ cfg'.sandbox = cfg.sandbox /\ cfg'.monitor = cfg.monitor
      /\ cfg'.guard = c /\ cfg'.mixed = cfg.mixed /\ cfg'.torn = cfg.torn
  BY <1>1 DEF CfgInv, CfgTypeOK
<1>5. /\ cfgCall'[c].pc = pc /\ cfgCall'[c].kind = cfgCall[c].kind
      /\ cfgCall'[c].value = cfgCall[c].value /\ cfgCall'[c].alone = cfgCall[c].alone
      /\ \A d \in CfgCalls \ {c} : cfgCall'[d] = cfgCall[d]
  BY <1>1 DEF CfgInv, CfgTypeOK
<1> HIDE DEF pc
<1>6. CfgTypeOK'
  BY <1>1, <1>2, <1>3, MemConfigFields DEF CfgInv, CfgTypeOK, CfgPcs, CallShape, Loaded
<1>7. CallShape'
  BY <1>3, <1>5 DEF CfgInv, CallShape, Loaded
<1>8. GuardHeld'
  BY <1>3, <1>4, <1>5, CfgAssumption DEF CfgInv, GuardHeld, Holds, Free
<1>9. AloneIsAlone'
  BY <1>3, <1>4, <1>5 DEF CfgInv, AloneIsAlone, Flies
<1>10. Derived'
  BY <1>3, <1>4, <1>5 DEF CfgInv, Derived, Holds, GuardHeld
<1>11. UsageCopies'
  BY <1>3, <1>4, <1>5 DEF CfgInv, UsageCopies, Flies
<1>12. MemoryDerived'
  BY <1>3, <1>4, <1>5 DEF CfgInv, MemoryDerived, Clean, Holds
<1>13. LoadedIsFile'
  BY <1>3, <1>4, <1>5 DEF CfgInv, LoadedIsFile, Clean, Loaded, Pending, Early
<1>14. MemoryIsFile'
  BY <1>3, <1>4, <1>5 DEF CfgInv, MemoryIsFile, Clean, Loaded, Pending, Early
<1> QED BY <1>6, <1>7, <1>8, <1>9, <1>10, <1>11, <1>12, <1>13, <1>14 DEF CfgInv

\* The holder of the guard gives the sandbox its own roots.
LEMMA SandboxKeepsInv ==
  ASSUME CfgInv, NEW c \in CfgCalls, ReinitsSandbox(c)
  PROVE  CfgInv'
<1> DEFINE pc == "derive"
<1>1. cfgCall' = [cfgCall EXCEPT ![c].pc = pc] /\ cfg' = [cfg EXCEPT !.sandbox = cfgCall[c].value.roots]
  BY DEF ReinitsSandbox, CfgMoves
<1>2. cfgCall[c] \in [pc : CfgPcs, kind : CfgKinds, value : RawConfig, alone : BOOLEAN]
  BY DEF CfgInv, CfgTypeOK
<1>3. cfgCall[c].pc = "sandbox" /\ cfgCall[c].kind # "usage" /\ pc = "derive" /\ Holds(c)
         /\ cfgCall[c].value.roots \in CfgRoots
  BY <1>2, MemConfigFields DEF ReinitsSandbox, CfgInv, CallShape, Holds, Loaded
<1>4. /\ cfg'.file = cfg.file /\ cfg'.mem = cfg.mem /\ cfg'.sandbox = cfgCall[c].value.roots /\ cfg'.monitor = cfg.monitor
      /\ cfg'.guard = cfg.guard /\ cfg'.mixed = cfg.mixed /\ cfg'.torn = cfg.torn
  BY <1>1 DEF CfgInv, CfgTypeOK
<1>5. /\ cfgCall'[c].pc = pc /\ cfgCall'[c].kind = cfgCall[c].kind
      /\ cfgCall'[c].value = cfgCall[c].value /\ cfgCall'[c].alone = cfgCall[c].alone
      /\ \A d \in CfgCalls \ {c} : cfgCall'[d] = cfgCall[d]
  BY <1>1 DEF CfgInv, CfgTypeOK
<1> HIDE DEF pc
<1>6. CfgTypeOK'
  BY <1>1, <1>2, <1>3, MemConfigFields DEF CfgInv, CfgTypeOK, CfgPcs, CallShape, Loaded
<1>7. CallShape'
  BY <1>3, <1>5 DEF CfgInv, CallShape, Loaded
<1>8. GuardHeld'
  BY <1>3, <1>4, <1>5, CfgAssumption DEF CfgInv, GuardHeld, Holds, Free
<1>9. AloneIsAlone'
  BY <1>3, <1>4, <1>5 DEF CfgInv, AloneIsAlone, Flies
<1>10. Derived'
  BY <1>3, <1>4, <1>5 DEF CfgInv, Derived, Holds, GuardHeld
<1>11. UsageCopies'
  BY <1>3, <1>4, <1>5 DEF CfgInv, UsageCopies, Flies
<1>12. MemoryDerived'
  BY <1>3, <1>4, <1>5 DEF CfgInv, MemoryDerived, Clean, Holds
<1>13. LoadedIsFile'
  BY <1>3, <1>4, <1>5 DEF CfgInv, LoadedIsFile, Clean, Loaded, Pending, Early
<1>14. MemoryIsFile'
  BY <1>3, <1>4, <1>5 DEF CfgInv, MemoryIsFile, Clean, Loaded, Pending, Early
<1> QED BY <1>6, <1>7, <1>8, <1>9, <1>10, <1>11, <1>12, <1>13, <1>14 DEF CfgInv

\* The host monitor is given the settings of the call that holds the guard, or of the
\* telemetry call.
LEMMA MonitorKeepsInv ==
  ASSUME CfgInv, NEW c \in CfgCalls, Reconfigures(c)
  PROVE  CfgInv'
<1> DEFINE pc == "publish"
<1>1. cfgCall' = [cfgCall EXCEPT ![c].pc = pc] /\ cfg' = [cfg EXCEPT !.monitor = cfgCall[c].value.host]
  BY DEF Reconfigures, CfgMoves
<1>2. cfgCall[c] \in [pc : CfgPcs, kind : CfgKinds, value : RawConfig, alone : BOOLEAN]
  BY DEF CfgInv, CfgTypeOK
<1>3. cfgCall[c].pc = "derive" /\ pc = "publish" /\ cfgCall[c].value.host \in CfgHosts
  BY <1>2, MemConfigFields DEF Reconfigures, CfgInv, CallShape, Loaded
<1>4. /\ cfg'.file = cfg.file /\ cfg'.mem = cfg.mem /\ cfg'.sandbox = cfg.sandbox /\ cfg'.monitor = cfgCall[c].value.host
      /\ cfg'.guard = cfg.guard /\ cfg'.mixed = cfg.mixed /\ cfg'.torn = cfg.torn
  BY <1>1 DEF CfgInv, CfgTypeOK
<1>5. /\ cfgCall'[c].pc = pc /\ cfgCall'[c].kind = cfgCall[c].kind
      /\ cfgCall'[c].value = cfgCall[c].value /\ cfgCall'[c].alone = cfgCall[c].alone
      /\ \A d \in CfgCalls \ {c} : cfgCall'[d] = cfgCall[d]
  BY <1>1 DEF CfgInv, CfgTypeOK
<1> HIDE DEF pc
<1>6. CfgTypeOK'
  BY <1>1, <1>2, <1>3, MemConfigFields DEF CfgInv, CfgTypeOK, CfgPcs, CallShape, Loaded
<1>7. CallShape'
  BY <1>3, <1>5 DEF CfgInv, CallShape, Loaded
<1>8. GuardHeld'
  BY <1>3, <1>4, <1>5, CfgAssumption DEF CfgInv, GuardHeld, Holds, Free
<1>9. AloneIsAlone'
  BY <1>3, <1>4, <1>5 DEF CfgInv, AloneIsAlone, Flies
<1>10. Derived'
  <2>1. ASSUME NEW d \in CfgCalls, d # c, cfgCall[d].pc = "publish", ~cfg.mixed \/ cfgCall[d].alone
        PROVE  FALSE
    <3>1. Flies(c) /\ Flies(d)
      BY <2>1, <1>3 DEF Flies
    <3>2. ~cfgCall[d].alone /\ ~cfg.mixed /\ cfgCall[c].kind # "usage" /\ cfgCall[d].kind # "usage"
      BY <3>1, <2>1 DEF CfgInv, AloneIsAlone, Early
    <3>3. Holds(c) /\ Holds(d)
      BY <3>2, <2>1, <1>3 DEF Holds
    <3> QED BY <3>3, <2>1 DEF CfgInv, GuardHeld
  <2> QED BY <2>1, <1>3, <1>4, <1>5 DEF CfgInv, Derived, Holds
<1>11. UsageCopies'
  BY <1>3, <1>4, <1>5 DEF CfgInv, UsageCopies, Flies
<1>12. MemoryDerived'
  BY <1>3, <1>4, <1>5 DEF CfgInv, MemoryDerived, Clean, Holds
<1>13. LoadedIsFile'
  BY <1>3, <1>4, <1>5 DEF CfgInv, LoadedIsFile, Clean, Loaded, Pending, Early
<1>14. MemoryIsFile'
  BY <1>3, <1>4, <1>5 DEF CfgInv, MemoryIsFile, Clean, Loaded, Pending, Early
<1> QED BY <1>6, <1>7, <1>8, <1>9, <1>10, <1>11, <1>12, <1>13, <1>14 DEF CfgInv

\* The copy in memory is replaced.
LEMMA PublishKeepsInv ==
  ASSUME CfgInv, NEW c \in CfgCalls, PublishesConfig(c)
  PROVE  CfgInv'
<1> DEFINE pc == "done"
<1>1. cfgCall' = [cfgCall EXCEPT ![c].pc = pc] /\ cfg' = [cfg EXCEPT !.mem = cfgCall[c].value, !.guard = IF @ = c THEN Free ELSE @,
             !.mixed = @ /\ ~(cfgCall[c].kind \notin Early /\ cfgCall[c].alone),
             !.torn = @ /\ ~(cfgCall[c].kind \notin Early /\ cfgCall[c].alone)]
  BY DEF PublishesConfig, CfgMoves
<1>2. cfgCall[c] \in [pc : CfgPcs, kind : CfgKinds, value : RawConfig, alone : BOOLEAN]
  BY DEF CfgInv, CfgTypeOK
<1> DEFINE settles == cfgCall[c].kind \notin Early /\ cfgCall[c].alone
<1>3. cfgCall[c].pc = "publish" /\ pc = "done" /\ cfgCall[c].value \in MemConfig
  BY <1>2 DEF PublishesConfig, CfgInv, CallShape, Loaded
<1>4. /\ cfg'.file = cfg.file /\ cfg'.mem = cfgCall[c].value /\ cfg'.sandbox = cfg.sandbox /\ cfg'.monitor = cfg.monitor
      /\ cfg'.guard = (IF cfg.guard = c THEN Free ELSE cfg.guard) /\ cfg'.mixed = (cfg.mixed /\ ~settles) /\ cfg'.torn = (cfg.torn /\ ~settles)
  BY <1>1 DEF CfgInv, CfgTypeOK
<1>5. /\ cfgCall'[c].pc = pc /\ cfgCall'[c].kind = cfgCall[c].kind
      /\ cfgCall'[c].value = cfgCall[c].value /\ cfgCall'[c].alone = cfgCall[c].alone
      /\ \A d \in CfgCalls \ {c} : cfgCall'[d] = cfgCall[d]
  BY <1>1 DEF CfgInv, CfgTypeOK
<1> HIDE DEF pc
<1>6. CfgTypeOK'
  BY <1>1, <1>2, <1>3, MemConfigFields DEF CfgInv, CfgTypeOK, CfgPcs, CallShape, Loaded
<1>7. CallShape'
  BY <1>3, <1>5 DEF CfgInv, CallShape, Loaded
<1>8. GuardHeld'
  BY <1>3, <1>4, <1>5, CfgAssumption DEF CfgInv, GuardHeld, Holds, Free
<1>9. AloneIsAlone'
  BY <1>3, <1>4, <1>5 DEF CfgInv, AloneIsAlone, Flies
<1> HIDE DEF settles
<1>15. ASSUME NEW d \in CfgCalls, Flies(d), d # c PROVE ~settles
  BY <1>15, <1>3 DEF settles, CfgInv, AloneIsAlone, Flies
<1>10. Derived'
  BY <1>3, <1>4, <1>5, <1>15 DEF CfgInv, Derived, Holds, Flies
<1>11. UsageCopies'
  BY <1>3, <1>4, <1>5, <1>15 DEF CfgInv, UsageCopies, AloneIsAlone, Flies, Early
<1>12. MemoryDerived'
  <2> SUFFICES ASSUME Clean' PROVE MemoryDerived'
    BY DEF MemoryDerived
  <2>1. settles => cfgCall[c].alone /\ cfgCall[c].kind # "usage"
    BY DEF settles, Early
  <2>2. ~settles => Clean
    BY <1>4 DEF Clean
  <2>3. cfg.monitor = cfgCall[c].value.host
    BY <2>1, <2>2, <1>3 DEF CfgInv, Derived, Clean
  <2>4. CASE cfgCall[c].kind # "usage"
    <3>1. cfg.sandbox = cfgCall[c].value.roots
      BY <2>4, <1>3 DEF CfgInv, Derived, Holds
    <3> QED BY <3>1, <2>3, <1>4 DEF MemoryDerived
  <2>5. CASE cfgCall[c].kind = "usage"
    <3>1. Clean /\ cfgCall[c].value.roots = cfg.mem.roots
      BY <2>1, <2>2, <2>5, <1>3 DEF CfgInv, UsageCopies, Clean, Flies
    <3>2. (\A d \in CfgCalls : Holds(d)' => cfgCall'[d].pc \notin {"derive", "publish"})
             => \A d \in CfgCalls : Holds(d) => cfgCall[d].pc \notin {"derive", "publish"}
      BY <2>5, <1>5 DEF Holds
    <3> QED BY <3>1, <3>2, <2>3, <1>4 DEF CfgInv, MemoryDerived
  <2> QED BY <2>4, <2>5
<1>16. ~settles /\ Clean' => Clean
  BY <1>4 DEF Clean
<1>17. Pending => Pending'
  BY <1>3, <1>5 DEF Pending
<1>13. LoadedIsFile'
  <2> SUFFICES ASSUME NEW d \in CfgCalls, Loaded(d)'
               PROVE  /\ Clean' => (SameConfig(cfgCall[d].value, cfg.file) \/ Pending
                                     \/ read_config(cfg.file) = {})'
                      /\ (cfgCall[d].alone /\ cfgCall[d].kind \notin Early)' =>
                            SameConfig(cfgCall[d].value, cfg.file)'
    BY DEF LoadedIsFile
  <2>1. d # c /\ Loaded(d) /\ Flies(d)
    BY <1>3, <1>5 DEF Loaded, Flies
  <2> QED BY <2>1, <1>4, <1>5, <1>15, <1>16, <1>17 DEF CfgInv, LoadedIsFile
<1>14. MemoryIsFile'
  <2>1. Loaded(c)
    BY <1>3 DEF Loaded
  <2>2. CASE settles
    BY <2>1, <2>2, <1>4 DEF settles, CfgInv, LoadedIsFile, MemoryIsFile
  <2>3. CASE ~settles
    BY <2>1, <2>3, <1>4, <1>16, <1>17 DEF CfgInv, LoadedIsFile, MemoryIsFile
  <2> QED BY <2>2, <2>3
<1> QED BY <1>6, <1>7, <1>8, <1>9, <1>10, <1>11, <1>12, <1>13, <1>14 DEF CfgInv

\* A handler dropped at an await leaves the configuration torn.
LEMMA DropKeepsInv ==
  ASSUME CfgInv, NEW c \in CfgCalls, CfgDropped(c)
  PROVE  CfgInv'
<1> DEFINE pc == "done"
<1>1. cfgCall' = [cfgCall EXCEPT ![c].pc = pc] /\ cfg' = [cfg EXCEPT !.torn = TRUE, !.guard = IF @ = c THEN Free ELSE @]
  BY DEF CfgDropped, CfgMoves
<1>2. cfgCall[c] \in [pc : CfgPcs, kind : CfgKinds, value : RawConfig, alone : BOOLEAN]
  BY DEF CfgInv, CfgTypeOK
<1>3. cfgCall[c].pc \in {"lock", "derive", "publish"} /\ pc = "done"
  BY DEF CfgDropped
<1>4. /\ cfg'.file = cfg.file /\ cfg'.mem = cfg.mem /\ cfg'.sandbox = cfg.sandbox /\ cfg'.monitor = cfg.monitor
      /\ cfg'.guard = (IF cfg.guard = c THEN Free ELSE cfg.guard) /\ cfg'.mixed = cfg.mixed /\ cfg'.torn = TRUE
  BY <1>1 DEF CfgInv, CfgTypeOK
<1>5. /\ cfgCall'[c].pc = pc /\ cfgCall'[c].kind = cfgCall[c].kind
      /\ cfgCall'[c].value = cfgCall[c].value /\ cfgCall'[c].alone = cfgCall[c].alone
      /\ \A d \in CfgCalls \ {c} : cfgCall'[d] = cfgCall[d]
  BY <1>1 DEF CfgInv, CfgTypeOK
<1> HIDE DEF pc
<1>6. CfgTypeOK'
  BY <1>1, <1>2, <1>3, MemConfigFields DEF CfgInv, CfgTypeOK, CfgPcs, CallShape, Loaded
<1>7. CallShape'
  BY <1>3, <1>5 DEF CfgInv, CallShape, Loaded
<1>8. GuardHeld'
  BY <1>3, <1>4, <1>5, CfgAssumption DEF CfgInv, GuardHeld, Holds, Free
<1>9. AloneIsAlone'
  BY <1>3, <1>4, <1>5 DEF CfgInv, AloneIsAlone, Flies
<1>10. Derived'
  BY <1>3, <1>4, <1>5 DEF CfgInv, Derived, Holds, GuardHeld
<1>11. UsageCopies'
  BY <1>3, <1>4, <1>5 DEF CfgInv, UsageCopies, Flies
<1>12. MemoryDerived'
  BY <1>3, <1>4, <1>5 DEF CfgInv, MemoryDerived, Clean, Holds
<1>13. LoadedIsFile'
  BY <1>3, <1>4, <1>5 DEF CfgInv, LoadedIsFile, Clean, Loaded, Pending, Early
<1>14. MemoryIsFile'
  BY <1>3, <1>4, <1>5 DEF CfgInv, MemoryIsFile, Clean, Loaded, Pending, Early
<1> QED BY <1>6, <1>7, <1>8, <1>9, <1>10, <1>11, <1>12, <1>13, <1>14 DEF CfgInv
\* The file is read again under the guard, or found unloadable, which ends the call.
LEMMA ReloadKeepsInv ==
  ASSUME CfgInv, NEW c \in CfgCalls, reload_config(c)
  PROVE  CfgInv'
<1>1. cfgCall[c].pc = "read" /\ cfgCall[c].kind \notin Early /\ Flies(c)
  BY DEF reload_config, CfgInv, CallShape, Flies, Early
<1>2. cfg.file \in RawConfig
  BY DEF CfgInv, CfgTypeOK
<1>3. CASE read_config(cfg.file) # {}
  <2> PICK m \in read_config(cfg.file) :
             cfgCall' = [cfgCall EXCEPT ![c].pc = "sandbox", ![c].value = m] /\ cfg' = cfg
    BY <1>3 DEF reload_config
  <2>1. m \in MemConfig /\ m \in RawConfig /\ SameConfig(m, cfg.file)
    BY <1>2, ReadIsFile, MemConfigFields
  <2>2. /\ cfgCall'[c].pc = "sandbox" /\ cfgCall'[c].kind = cfgCall[c].kind
        /\ cfgCall'[c].value = m /\ cfgCall'[c].alone = cfgCall[c].alone
        /\ \A d \in CfgCalls \ {c} : cfgCall'[d] = cfgCall[d]
    BY DEF CfgInv, CfgTypeOK
  <2>3. CfgTypeOK'
    BY <2>1 DEF CfgInv, CfgTypeOK, CfgPcs
  <2>4. CallShape'
    BY <2>1, <2>2, <1>1 DEF CfgInv, CallShape, Loaded, Early
  <2>5. GuardHeld'
    BY <2>2, <1>1 DEF CfgInv, GuardHeld, Holds, Early
  <2>6. AloneIsAlone'
    BY <2>2, <1>1 DEF CfgInv, AloneIsAlone, Flies
  <2>7. Derived' /\ UsageCopies'
    <3>1. Derived'
      BY <2>2 DEF CfgInv, Derived, Holds
    <3>2. UsageCopies'
      BY <2>2, <1>1 DEF CfgInv, UsageCopies, Flies, Early
    <3> QED BY <3>1, <3>2
  <2>8. MemoryDerived'
    BY <2>2, <1>1 DEF CfgInv, MemoryDerived, Clean, Holds
  <2>9. LoadedIsFile'
    <3> SUFFICES ASSUME NEW d \in CfgCalls, Loaded(d)'
                 PROVE  /\ Clean' => SameConfig(cfgCall[d].value, cfg.file)'
                                       \/ Pending' \/ read_config(cfg.file)' = {}
                        /\ (cfgCall[d].alone /\ cfgCall[d].kind \notin Early)' =>
                              SameConfig(cfgCall[d].value, cfg.file)'
      BY DEF LoadedIsFile
    <3>1. CASE d = c
      BY <3>1, <2>1, <2>2
    <3>2. CASE d # c
      <4>1. Loaded(d) /\ Flies(d)
        BY <3>2, <2>2 DEF Loaded, Flies
      <4>2. ~cfgCall[d].alone /\ (~cfg.mixed => cfgCall[d].kind \notin Early)
        BY <4>1, <3>2, <1>1 DEF CfgInv, AloneIsAlone
      <4>3. Clean => Holds(c) /\ Holds(d)
        BY <4>1, <4>2, <1>1 DEF Holds, Loaded, Clean, Early
      <4>4. ~Clean
        BY <4>3, <3>2 DEF CfgInv, GuardHeld
      <4> QED BY <4>2, <4>4, <3>2, <2>2 DEF Clean
    <3> QED BY <3>1, <3>2
  <2>10. MemoryIsFile'
    BY <2>2 DEF MemoryIsFile, Loaded
  <2> QED BY <2>3, <2>4, <2>5, <2>6, <2>7, <2>8, <2>9, <2>10 DEF CfgInv
<1>4. CASE read_config(cfg.file) = {}
  <2>1. cfgCall' = [cfgCall EXCEPT ![c].pc = "done"] /\ cfg' = [cfg EXCEPT !.guard = Free]
    BY <1>4 DEF reload_config, CfgMoves
  <2>2. /\ cfg'.file = cfg.file /\ cfg'.mem = cfg.mem /\ cfg'.sandbox = cfg.sandbox
        /\ cfg'.monitor = cfg.monitor /\ cfg'.guard = Free /\ cfg'.mixed = cfg.mixed
        /\ cfg'.torn = cfg.torn
    BY <2>1 DEF CfgInv, CfgTypeOK
  <2>3. /\ cfgCall'[c].pc = "done" /\ cfgCall'[c].kind = cfgCall[c].kind
        /\ cfgCall'[c].value = cfgCall[c].value /\ cfgCall'[c].alone = cfgCall[c].alone
        /\ \A d \in CfgCalls \ {c} : cfgCall'[d] = cfgCall[d]
    BY <2>1 DEF CfgInv, CfgTypeOK
  <2>4. CfgTypeOK'
    BY <2>1 DEF CfgInv, CfgTypeOK, CfgPcs
  <2>5. CallShape'
    BY <2>3, <1>1 DEF CfgInv, CallShape, Loaded, Early
  <2>6. GuardHeld'
    BY <2>2, <2>3, <1>1, CfgAssumption DEF CfgInv, GuardHeld, Holds, Free, Early
  <2>7. AloneIsAlone'
    BY <2>2, <2>3, <1>1 DEF CfgInv, AloneIsAlone, Flies
  <2>8. Derived' /\ UsageCopies'
    BY <2>2, <2>3, <1>1 DEF CfgInv, Derived, UsageCopies, Holds, Flies, Early
  <2>9. MemoryDerived'
    BY <2>2, <2>3, <1>1 DEF CfgInv, MemoryDerived, Clean, Holds
  <2>10. LoadedIsFile'
    BY <2>2, <2>3, <1>4 DEF CfgInv, LoadedIsFile, Loaded
  <2>11. MemoryIsFile'
    BY <2>2, <1>4 DEF MemoryIsFile
  <2> QED BY <2>4, <2>5, <2>6, <2>7, <2>8, <2>9, <2>10, <2>11 DEF CfgInv
<1> QED BY <1>3, <1>4

-----------------------------------------------------------------------------
\* Every reachable configuration satisfies the invariant, whatever the requests are and
\* wherever handlers are dropped.
THEOREM ConfigInvariant == CfgSpec => []CfgInv
<1>1. CfgInit => CfgInv
  BY CfgInitInv
<1>2. CfgInv /\ [CfgNext]_cfgVars => CfgInv'
  <2> SUFFICES ASSUME CfgInv, [CfgNext]_cfgVars PROVE CfgInv'
    OBVIOUS
  <2>1. CASE CfgNext
    <3> PICK c \in CfgCalls :
          \/ \E body \in PutBodies : update_config(c, body)
          \/ \E roots \in CfgRoots, ok \in BOOLEAN : update_project(c, roots, ok)
          \/ \E tel \in CfgTels : update_settings(c, tel)
          \/ cache_clear(c)
          \/ CfgWrites(c)
          \/ init_workspace(c)
          \/ switch_workspace(c)
          \/ TakesContext(c)
          \/ reload_config(c)
          \/ ReinitsSandbox(c)
          \/ Reconfigures(c)
          \/ PublishesConfig(c)
          \/ CfgDropped(c)
      BY <2>1 DEF CfgNext
    <3> QED BY RequestKeepsInv, WriteKeepsInv, GuardKeepsInv, ReloadKeepsInv, SandboxKeepsInv,
               MonitorKeepsInv, PublishKeepsInv, DropKeepsInv
  <2>2. CASE UNCHANGED cfgVars
    BY <2>2 DEF cfgVars, CfgInv, CfgTypeOK, CallShape, GuardHeld, AloneIsAlone, Derived, UsageCopies,
                MemoryDerived, LoadedIsFile, MemoryIsFile, Flies, Holds, Loaded, Pending, Clean
  <2> QED BY <2>1, <2>2
<1> QED BY <1>1, <1>2, PTL DEF CfgSpec

\* OneConfiguration: whoever reads under workspace_context_guard sees one configuration's
\* sandbox and monitor, and once no request is served memory is what the file says,
\* unless an early publisher overlapped another request or a handler was dropped.
THEOREM ConfigIsOne == CfgSpec => []OneConfiguration
<1>1. CfgInv => OneConfiguration
  <2> SUFFICES ASSUME CfgInv PROVE OneConfiguration
    OBVIOUS
  <2>1. ReadersSeeOneConfig
    <3> SUFFICES ASSUME cfg.guard = Free, Clean
                 PROVE  cfg.sandbox = cfg.mem.roots /\ (cfg.monitor = cfg.mem.host \/ InFlight # {})
      BY DEF ReadersSeeOneConfig, Clean
    <3>1. \A c \in CfgCalls : ~Holds(c)
      BY CfgAssumption DEF CfgInv, GuardHeld, Free
    <3>2. InFlight = {} => \A c \in CfgCalls : cfgCall[c].pc # "publish"
      BY DEF InFlight
    <3> QED BY <3>1, <3>2 DEF CfgInv, MemoryDerived
  <2>2. QuietMemoryIsFile
    BY DEF CfgInv, MemoryIsFile, QuietMemoryIsFile, Clean, Pending, Loaded, InFlight
  <2> QED BY <2>1, <2>2 DEF OneConfiguration
<1> QED BY <1>1, ConfigInvariant, PTL

-----------------------------------------------------------------------------
(* Directory watches.                                                      *)

Stages == {"registered", "listed", "pumping", "notice", "overflowed", "gone"}
Registration == [conn : Clients, key : WatchKeys, gen : Nat, at : Stages, rx : Seq(Nat),
                 lagged : BOOLEAN, snap : Nat, told : SUBSET Nat]

\* Every variable has its type, and the queues keep their capacities.
WatchTypes ==
    /\ WatchTypeOK
    /\ rawEvents \in [WatchKeys -> Seq(Nat)]
    /\ watchers \in [WatchKeys -> [gen : Nat, refcount : Nat]]
    /\ sub \in Seq(Registration)
    /\ fschan \in [Clients -> Seq(Nat \X Nat)]
    /\ reinits \in Nat

\* What is queued for a connection is of a subscription that was made.
QueuedKnown == \A c \in Clients : \A e \in Range(fschan[c]) : e[1] \in DOMAIN sub

\* A registered subscription hears the watcher of now.
HearsWatcher == \A i \in subs : sub[i].gen = watchers[sub[i].key].gen

\* What a subscriber with a snapshot has been told, or will be.
Promised(i, v) ==
    \/ v \in sub[i].told \cup Range(sub[i].rx) \cup Range(rawEvents[sub[i].key])
    \/ <<i, v>> \in Range(fschan[sub[i].conn])

\* From its snapshot on, a registered subscription that never lagged is
\* promised every change, before its pump started too.
NoGap ==
    \A i \in subs : sub[i].at \in {"listed", "pumping"} /\ ~sub[i].lagged =>
        \A v \in sub[i].snap + 1 .. treever[sub[i].key] : Promised(i, v)

WatchInv ==
    /\ WatchTypes /\ QueuedKnown /\ RefcountIsExact /\ NoLeakedSubscription /\ HearsWatcher /\ NoGap
-----------------------------------------------------------------------------
(* Lemmas on the operators                                                 *)

\* What a queue holds after an element joins it, leaves it, or queues join.
LEMMA QueueFacts ==
    ASSUME NEW S, NEW s \in Seq(S)
    PROVE  /\ Range(s) \subseteq S /\ Len(s) \in Nat
           /\ \A e \in S : /\ Append(s, e) \in Seq(S) /\ Len(Append(s, e)) = Len(s) + 1
                           /\ Range(Append(s, e)) = Range(s) \cup {e}
           /\ s # <<>> => /\ Head(s) \in S /\ Tail(s) \in Seq(S) /\ Len(Tail(s)) = Len(s) - 1
                          /\ Range(s) = Range(Tail(s)) \cup {Head(s)}
           /\ \A t \in Seq(S) : /\ s \o t \in Seq(S) /\ Range(s \o t) = Range(s) \cup Range(t)
                                /\ Len(s \o t) = Len(s) + Len(t)
<1>1. Range(s) \subseteq S /\ Len(s) \in Nat
  BY RangeOfSeq
<1>2. \A e \in S : /\ Append(s, e) \in Seq(S) /\ Len(Append(s, e)) = Len(s) + 1
                   /\ Range(Append(s, e)) = Range(s) \cup {e}
  <2> TAKE e \in S
  <2>1. /\ Append(s, e) \in Seq(S) /\ Len(Append(s, e)) = Len(s) + 1
        /\ \A n \in 1..Len(s) : Append(s, e)[n] = s[n]
        /\ Append(s, e)[Len(s) + 1] = e
    BY AppendProperties
  <2>2. Range(Append(s, e)) = {Append(s, e)[n] : n \in 1..Len(s) + 1}
    BY <2>1, RangeEquality
  <2>3. Range(s) = {s[n] : n \in 1..Len(s)}
    BY RangeEquality
  <2>4. 1..Len(s) + 1 = 1..Len(s) \cup {Len(s) + 1}
    OBVIOUS
  <2> QED BY <2>1, <2>2, <2>3, <2>4
<1>3. ASSUME s # <<>>
      PROVE  /\ Head(s) \in S /\ Tail(s) \in Seq(S) /\ Len(Tail(s)) = Len(s) - 1
             /\ Range(s) = Range(Tail(s)) \cup {Head(s)}
  <2>1. /\ Head(s) \in S /\ Tail(s) \in Seq(S) /\ Len(Tail(s)) = Len(s) - 1
        /\ \A n \in 1..Len(Tail(s)) : Tail(s)[n] = s[n + 1]
    BY <1>3, HeadTailProperties
  <2>2. Head(s) = s[1] /\ Len(s) \in Nat \ {0}
    BY <1>3, EmptySeq
  <2>3. Range(Tail(s)) = {Tail(s)[n] : n \in 1..Len(s) - 1}
    BY <2>1, RangeEquality
  <2>4. Range(s) = {s[n] : n \in 1..Len(s)}
    BY RangeEquality
  <2>5. \A n \in 1..Len(s) : n = 1 \/ (n - 1 \in 1..Len(s) - 1 /\ Tail(s)[n - 1] = s[n])
    BY <2>1, <2>2
  <2>6. \A n \in 1..Len(s) - 1 : n + 1 \in 1..Len(s) /\ Tail(s)[n] = s[n + 1]
    BY <2>1, <2>2
  <2>7. ASSUME NEW x \in Range(s) PROVE x \in Range(Tail(s)) \cup {Head(s)}
    <3>1. PICK n \in 1..Len(s) : x = s[n] BY <2>4
    <3> QED BY <3>1, <2>2, <2>3, <2>5
  <2>8. ASSUME NEW x \in Range(Tail(s)) PROVE x \in Range(s)
    <3>1. PICK n \in 1..Len(s) - 1 : x = Tail(s)[n] BY <2>3, <2>8
    <3> QED BY <3>1, <2>4, <2>6
  <2>9. Head(s) \in Range(s)
    <3>1. 1 \in 1..Len(s) BY <2>2
    <3> QED BY <3>1, <2>2, <2>4
  <2> QED BY <2>1, <2>7, <2>8, <2>9
<1>4. \A t \in Seq(S) : /\ s \o t \in Seq(S) /\ Range(s \o t) = Range(s) \cup Range(t)
                        /\ Len(s \o t) = Len(s) + Len(t)
  BY ConcatProperties, RangeConcatenation
<1> QED BY <1>1, <1>2, <1>3, <1>4

\* A receiver keeps the last n events it was sent.
LEMMA KeepFacts ==
    ASSUME NEW S, NEW s \in Seq(S), NEW n \in Nat
    PROVE  /\ Tail_(s, n) \in Seq(S) /\ Len(Tail_(s, n)) <= n
           /\ ~ (Len(s) > n) => Tail_(s, n) = s
<1>1. Len(s) \in Nat
  OBVIOUS
<1>2. CASE Len(s) > n
  <2>1. \A i \in Len(s) - n + 1 .. Len(s) : s[i] \in S
    BY <1>2, ElementOfSeq
  <2>2. /\ SubSeq(s, Len(s) - n + 1, Len(s)) \in Seq(S)
        /\ Len(SubSeq(s, Len(s) - n + 1, Len(s))) = IF Len(s) - n + 1 <= Len(s)
              THEN Len(s) - (Len(s) - n + 1) + 1 ELSE 0
    BY <1>1, <2>1, SubSeqProperties
  <2>3. Len(SubSeq(s, Len(s) - n + 1, Len(s))) <= n
    BY <1>1, <1>2, <2>2
  <2> QED BY <1>2, <2>2, <2>3 DEF Tail_
<1>3. CASE ~ (Len(s) > n)
  BY <1>1, <1>3 DEF Tail_
<1> QED BY <1>2, <1>3

\* A subscription that was made is on record.
LEMMA SubFacts ==
    ASSUME WatchTypes
    PROVE  /\ Len(sub) \in Nat /\ DOMAIN sub = 1..Len(sub) /\ subs \subseteq DOMAIN sub
           /\ \A i \in DOMAIN sub : i \in Nat /\ sub[i] \in Registration
BY DEF WatchTypes, WatchTypeOK

\* Registered subscriptions are finitely many.
LEMMA SubsFinite ==
    ASSUME WatchTypes, NEW T \in SUBSET subs
    PROVE  IsFiniteSet(T) /\ Cardinality(T) \in Nat
<1>1. Len(sub) \in Nat /\ DOMAIN sub = 1..Len(sub) /\ subs \subseteq 1..Len(sub)
  BY DEF WatchTypes, WatchTypeOK
<1>2. IsFiniteSet(1..Len(sub))
  BY <1>1, FS_Interval
<1> QED BY <1>1, <1>2, FS_Subset, FS_CardinalityType

\* release takes exactly what it is given off the watchers' counts, and keeps
\* the changes a remaining subscription has not been sent.
LEMMA ReleaseFacts ==
    ASSUME WatchTypes, RefcountIsExact, NEW ids \in SUBSET subs, release(ids)
    PROVE  /\ watchers' \in [WatchKeys -> [gen : Nat, refcount : Nat]]
           /\ rawEvents' \in [WatchKeys -> Seq(Nat)]
           /\ subs' = subs \ ids
           /\ \A k \in WatchKeys :
                 /\ watchers'[k].refcount = Cardinality({i \in subs \ ids : sub[i].key = k})
                 /\ watchers'[k].gen = watchers[k].gen
           /\ \A i \in subs \ ids : rawEvents'[sub[i].key] = rawEvents[sub[i].key]
<1> DEFINE mine(k) == {i \in ids : sub[i].key = k}
           all(k) == {i \in subs : sub[i].key = k}
           rest(k) == {i \in subs \ ids : sub[i].key = k}
           left(k) == watchers[k].refcount - Cardinality(mine(k))
<1>1. /\ watchers' = [k \in WatchKeys |-> [watchers[k] EXCEPT !.refcount = left(k)]]
      /\ rawEvents' = [k \in WatchKeys |-> IF left(k) = 0 THEN <<>> ELSE rawEvents[k]]
      /\ subs' = subs \ ids
  BY DEF release
<1>2. ASSUME NEW k \in WatchKeys PROVE left(k) = Cardinality(rest(k)) /\ left(k) \in Nat
  <2>1. /\ all(k) \in SUBSET subs /\ rest(k) \in SUBSET subs
        /\ rest(k) = all(k) \ mine(k) /\ all(k) \cap mine(k) = mine(k)
    OBVIOUS
  <2>2. Cardinality(rest(k)) = Cardinality(all(k)) - Cardinality(mine(k))
    <3>1. IsFiniteSet(all(k)) BY <2>1, SubsFinite
    <3> HIDE DEF all, mine, rest
    <3> QED BY <2>1, <3>1, FS_Difference
  <2>3. Cardinality(rest(k)) \in Nat
    BY <2>1, SubsFinite
  <2>4. watchers[k].refcount = Cardinality(all(k))
    BY DEF RefcountIsExact
  <2> HIDE DEF all, mine, rest
  <2> QED BY <2>2, <2>3, <2>4
<1>3. ASSUME NEW i \in subs \ ids
      PROVE  sub[i].key \in WatchKeys /\ left(sub[i].key) # 0
  <2>1. sub[i].key \in WatchKeys
    BY SubFacts DEF Registration
  <2>2. i \in rest(sub[i].key) /\ rest(sub[i].key) \in SUBSET subs
    OBVIOUS
  <2>3. Cardinality(rest(sub[i].key)) # 0
    <3>1. IsFiniteSet(rest(sub[i].key)) BY <2>2, SubsFinite
    <3> HIDE DEF rest
    <3> QED BY <2>2, <3>1, FS_EmptySet
  <2> HIDE DEF rest, left
  <2> QED BY <1>2, <2>1, <2>3
<1> HIDE DEF left
<1>4. watchers' \in [WatchKeys -> [gen : Nat, refcount : Nat]]
  BY <1>1, <1>2 DEF WatchTypes
<1>5. rawEvents' \in [WatchKeys -> Seq(Nat)]
  BY <1>1, EmptySeq DEF WatchTypes
<1>6. \A k \in WatchKeys : /\ watchers'[k].refcount = left(k)
                           /\ watchers'[k].gen = watchers[k].gen
  BY <1>1, <1>2 DEF WatchTypes
<1>7. \A i \in subs \ ids : rawEvents'[sub[i].key] = rawEvents[sub[i].key]
  BY <1>1, <1>3
<1> QED BY <1>1, <1>2, <1>4, <1>5, <1>6, <1>7
-----------------------------------------------------------------------------
(* The steps                                                               *)

\* Initially nobody watches.
LEMMA WatchStart == WatchInit => WatchInv
<1> SUFFICES ASSUME WatchInit PROVE WatchInv
  OBVIOUS
<1> USE WatchAssumption DEF WatchInit
<1>0. DOMAIN sub = {} /\ Len(sub) = 0 /\ sub \in Seq(Registration)
  OBVIOUS
<1>1. WatchTypes
  <2>1. WatchTypeOK
    BY <1>0 DEF WatchTypeOK
  <2>2. rawEvents \in [WatchKeys -> Seq(Nat)] /\ fschan \in [Clients -> Seq(Nat \X Nat)]
    OBVIOUS
  <2> QED BY <1>0, <2>1, <2>2 DEF WatchTypes
<1>2. QueuedKnown
  BY DEF QueuedKnown, Range
<1>3. RefcountIsExact
  <2>1. \A k \in WatchKeys : {i \in subs : sub[i].key = k} = {}
    OBVIOUS
  <2> QED BY <2>1, FS_EmptySet DEF RefcountIsExact
<1>4. NoLeakedSubscription /\ HearsWatcher /\ NoGap
  BY DEF NoLeakedSubscription, HearsWatcher, NoGap
<1> QED BY <1>1, <1>2, <1>3, <1>4 DEF WatchInv

\* A step of one subscription that stays registered where it was.
LEMMA StageStep ==
    ASSUME WatchInv, NEW i \in DOMAIN sub, NEW r \in Registration,
           r.conn = sub[i].conn, r.key = sub[i].key, r.gen = sub[i].gen,
           Len(r.rx) <= BroadcastCap, sub' = [sub EXCEPT ![i] = r],
           UNCHANGED <<treever, rawEvents, watchers, subs, next_sub_id, online, reinits>>,
           fschan' \in [Clients -> Seq(Nat \X Nat)],
           \A c \in Clients : Len(fschan'[c]) <= ChanCap
                              /\ \A e \in Range(fschan'[c]) : e[1] \in DOMAIN sub,
           i \in subs => r.at \in {"registered", "listed", "pumping", "notice"},
           NoGap'
    PROVE  WatchInv'
<1>0. WatchTypes BY DEF WatchInv
<1>1. /\ Len(sub) \in Nat /\ DOMAIN sub = 1..Len(sub) /\ subs \subseteq DOMAIN sub
      /\ \A j \in DOMAIN sub : j \in Nat /\ sub[j] \in Registration
  BY <1>0, SubFacts
<1>2. /\ sub' \in Seq(Registration) /\ Len(sub') = Len(sub) /\ DOMAIN sub' = DOMAIN sub
      /\ sub'[i] = r /\ \A j \in DOMAIN sub : j # i => sub'[j] = sub[j]
  BY <1>0, <1>1, ExceptSeq DEF WatchTypes
<1>3. \A j \in DOMAIN sub : /\ sub'[j].key = sub[j].key /\ sub'[j].conn = sub[j].conn
                            /\ sub'[j].gen = sub[j].gen
  BY <1>2
<1>4. WatchTypes'
  BY <1>0, <1>1, <1>2 DEF WatchTypes, WatchTypeOK
<1>5. QueuedKnown' BY <1>2 DEF QueuedKnown
<1>6. RefcountIsExact'
  <2>1. \A k \in WatchKeys : {j \in subs : sub'[j].key = k} = {j \in subs : sub[j].key = k}
    BY <1>1, <1>3
  <2> QED BY <2>1 DEF WatchInv, RefcountIsExact
<1>7. NoLeakedSubscription'
  BY <1>1, <1>2, <1>3 DEF WatchInv, NoLeakedSubscription
<1>8. HearsWatcher'
  BY <1>1, <1>3 DEF WatchInv, HearsWatcher
<1> QED BY <1>4, <1>5, <1>6, <1>7, <1>8 DEF WatchInv

\* A step that gives registrations back: those that stay are as they were, on
\* connections that are up.
LEMMA ReleaseStep ==
    ASSUME WatchInv, NEW ids \in SUBSET subs, release(ids),
           sub' \in Seq(Registration), DOMAIN sub' = DOMAIN sub, Len(sub') = Len(sub),
           \A i \in DOMAIN sub : Len(sub'[i].rx) <= BroadcastCap,
           \A i \in subs \ ids : /\ sub'[i] = sub[i] /\ sub[i].conn \in online'
                                 /\ fschan'[sub[i].conn] = fschan[sub[i].conn],
           online' \subseteq online, treever' = treever, next_sub_id' = next_sub_id,
           reinits' \in Nat,
           \A c \in Clients : fschan'[c] \in {fschan[c], <<>>},
           fschan' \in [Clients -> Seq(Nat \X Nat)]
    PROVE  WatchInv'
<1>0. WatchTypes /\ RefcountIsExact BY DEF WatchInv
<1>1. /\ Len(sub) \in Nat /\ DOMAIN sub = 1..Len(sub) /\ subs \subseteq DOMAIN sub
      /\ \A j \in DOMAIN sub : j \in Nat /\ sub[j] \in Registration
  BY <1>0, SubFacts
<1>2. /\ watchers' \in [WatchKeys -> [gen : Nat, refcount : Nat]]
      /\ rawEvents' \in [WatchKeys -> Seq(Nat)]
      /\ subs' = subs \ ids
      /\ \A k \in WatchKeys :
            /\ watchers'[k].refcount = Cardinality({i \in subs \ ids : sub[i].key = k})
            /\ watchers'[k].gen = watchers[k].gen
      /\ \A i \in subs \ ids : rawEvents'[sub[i].key] = rawEvents[sub[i].key]
  BY <1>0, ReleaseFacts
<1>3. Range(<<>>) = {} /\ Len(<<>>) = 0
  BY DEF Range
<1>4. WatchTypes'
  <2>1. \A c \in Clients : Len(fschan'[c]) <= ChanCap
    BY <1>0, <1>3, WatchAssumption DEF WatchTypes, WatchTypeOK
  <2> QED BY <1>0, <1>1, <1>2, <2>1 DEF WatchTypes, WatchTypeOK
<1>5. QueuedKnown'
  BY <1>3 DEF WatchInv, QueuedKnown
<1>6. RefcountIsExact'
  <2>1. \A k \in WatchKeys : {j \in subs \ ids : sub'[j].key = k} = {j \in subs \ ids : sub[j].key = k}
    OBVIOUS
  <2> QED BY <1>2, <2>1 DEF RefcountIsExact
<1>7. NoLeakedSubscription'
  BY <1>2 DEF WatchInv, NoLeakedSubscription
<1>8. HearsWatcher'
  <2> SUFFICES ASSUME NEW i \in subs \ ids
               PROVE  sub[i].gen = watchers'[sub[i].key].gen
    BY <1>2 DEF HearsWatcher
  <2>1. sub[i].key \in WatchKeys BY <1>1 DEF Registration
  <2> QED BY <1>2, <2>1 DEF WatchInv, HearsWatcher
<1>9. NoGap'
  <2> SUFFICES ASSUME NEW i \in subs \ ids, sub[i].at \in {"listed", "pumping"}, ~sub[i].lagged,
                      NEW v \in sub[i].snap + 1 .. treever[sub[i].key]
               PROVE  Promised(i, v)'
    BY <1>2 DEF NoGap
  <2>1. Promised(i, v) BY DEF WatchInv, NoGap
  <2> QED BY <1>2, <2>1 DEF Promised
<1> QED BY <1>4, <1>5, <1>6, <1>7, <1>8, <1>9 DEF WatchInv

\* A subscription joins the watcher of now or starts one, and is counted.
LEMMA SubscribeStep ==
    ASSUME WatchInv, NEW c \in Clients, NEW k \in WatchKeys, subscribe_with_key(c, k)
    PROVE  WatchInv'
<1> USE WatchAssumption
<1>0. WatchTypes BY DEF WatchInv
<1>1. /\ Len(sub) \in Nat /\ DOMAIN sub = 1..Len(sub) /\ subs \subseteq DOMAIN sub
      /\ \A j \in DOMAIN sub : j \in Nat /\ sub[j] \in Registration
  BY <1>0, SubFacts
<1> DEFINE n == next_sub_id
           w == IF watchers[k].refcount > 0 THEN [gen |-> watchers[k].gen, refcount |-> watchers[k].refcount + 1]
                ELSE [gen |-> watchers[k].gen + 1, refcount |-> 1]
           r == [conn |-> c, key |-> k, gen |-> w.gen, at |-> "registered",
                 rx |-> <<>>, lagged |-> FALSE, snap |-> 0, told |-> {}]
<1>2. n = Len(sub) + 1 /\ n \in 1..MaxSubs /\ watchers[k] \in [gen : Nat, refcount : Nat]
  BY <1>0, <1>1 DEF WatchTypes, WatchTypeOK, subscribe_with_key
<1>3. /\ w \in [gen : Nat, refcount : Nat] /\ w.refcount = watchers[k].refcount + 1
      /\ watchers[k].refcount # 0 => w.gen = watchers[k].gen
  BY <1>2
<1>4. /\ watchers' = [watchers EXCEPT ![k] = w] /\ next_sub_id' = n + 1 /\ subs' = subs \cup {n}
      /\ c \in online /\ UNCHANGED <<treever, rawEvents, fschan, online, reinits>>
  <2>1. watchers' = [watchers EXCEPT ![k] =
            IF watchers[k].refcount > 0 THEN [gen |-> watchers[k].gen, refcount |-> watchers[k].refcount + 1]
            ELSE [gen |-> watchers[k].gen + 1, refcount |-> 1]]
    BY DEF subscribe_with_key
  <2>2. watchers' = [watchers EXCEPT ![k] = w]
    BY <2>1
  <2>3. /\ next_sub_id' = n + 1 /\ subs' = subs \cup {n}
        /\ c \in online /\ UNCHANGED <<treever, rawEvents, fschan, online, reinits>>
    BY DEF subscribe_with_key
  <2> HIDE DEF w
  <2> QED BY <2>2, <2>3
<1>5. watchers' \in [WatchKeys -> [gen : Nat, refcount : Nat]] /\ watchers'[k] = w
  BY <1>0, <1>3, <1>4 DEF WatchTypes
<1>6. sub' = Append(sub, r) /\ r \in Registration /\ Len(r.rx) = 0
  <2>1. sub' = Append(sub, r)
    BY <1>5 DEF subscribe_with_key
  <2>2. r \in Registration
    BY <1>3 DEF Registration, Stages
  <2> QED BY <2>1, <2>2
<1> HIDE DEF r, w, n
<1>7. /\ sub' \in Seq(Registration) /\ Len(sub') = Len(sub) + 1 /\ sub'[n] = r
      /\ DOMAIN sub' = DOMAIN sub \cup {n} /\ n \notin DOMAIN sub
      /\ \A j \in DOMAIN sub : sub'[j] = sub[j]
  BY <1>0, <1>1, <1>2, <1>6, AppendProperties DEF WatchTypes
<1>8. WatchTypes'
  <2>1. next_sub_id' \in 1..MaxSubs + 1 /\ Len(sub') = next_sub_id' - 1
    BY <1>1, <1>2, <1>4, <1>7
  <2>2. \A i \in DOMAIN sub' : Len(sub'[i].rx) <= BroadcastCap
    BY <1>0, <1>6, <1>7 DEF WatchTypes, WatchTypeOK
  <2>3. subs' \subseteq DOMAIN sub'
    BY <1>1, <1>4, <1>7
  <2>4. WatchTypeOK'
    BY <1>0, <1>4, <2>1, <2>2, <2>3 DEF WatchTypes, WatchTypeOK
  <2> QED BY <1>0, <1>4, <1>5, <1>7, <2>4 DEF WatchTypes
<1>9. QueuedKnown'
  BY <1>4, <1>7 DEF WatchInv, QueuedKnown
<1>10. r.key = k /\ r.conn = c /\ r.gen = w.gen /\ r.at = "registered"
  BY DEF r
<1>11. RefcountIsExact'
  <2> SUFFICES ASSUME NEW x \in WatchKeys
               PROVE  watchers'[x].refcount = Cardinality({i \in subs \cup {n} : sub'[i].key = x})
    BY <1>4 DEF RefcountIsExact
  <2> DEFINE old == {i \in subs : sub[i].key = x}
  <2>1. IsFiniteSet(old) /\ n \notin old /\ watchers[x].refcount = Cardinality(old)
        /\ Cardinality(old) \in Nat
    BY <1>0, <1>1, <1>7, SubsFinite DEF WatchInv, RefcountIsExact
  <2>2. CASE x = k
    <3>1. {i \in subs \cup {n} : sub'[i].key = x} = old \cup {n}
      BY <2>2, <1>1, <1>7, <1>10
    <3> HIDE DEF old
    <3>2. Cardinality(old \cup {n}) = Cardinality(old) + 1
      BY <2>1, FS_AddElement
    <3> QED BY <3>1, <3>2, <2>1, <2>2, <1>3, <1>5
  <2>3. CASE x # k
    <3>1. {i \in subs \cup {n} : sub'[i].key = x} = old
      BY <2>3, <1>1, <1>7, <1>10
    <3>2. watchers'[x] = watchers[x]
      BY <2>3, <1>0, <1>4 DEF WatchTypes
    <3> QED BY <3>1, <3>2, <2>1
  <2> QED BY <2>2, <2>3
<1>12. NoLeakedSubscription'
  BY <1>1, <1>4, <1>7, <1>10 DEF WatchInv, NoLeakedSubscription
<1>13. HearsWatcher'
  <2> SUFFICES ASSUME NEW i \in subs \cup {n} PROVE sub'[i].gen = watchers'[sub'[i].key].gen
    BY <1>4 DEF HearsWatcher
  <2>1. CASE i = n
    BY <2>1, <1>5, <1>7, <1>10
  <2>2. CASE i \in subs
    <3>1. sub'[i] = sub[i] /\ sub[i].key \in WatchKeys /\ sub[i].gen = watchers[sub[i].key].gen
      BY <2>2, <1>1, <1>7 DEF WatchInv, HearsWatcher, Registration
    <3>2. CASE sub[i].key = k
      <4> DEFINE old == {j \in subs : sub[j].key = k}
      <4>1. i \in old /\ old \in SUBSET subs BY <2>2, <3>2
      <4>2. IsFiniteSet(old) BY <1>0, <4>1, SubsFinite
      <4>3. watchers[k].refcount = Cardinality(old) BY DEF WatchInv, RefcountIsExact
      <4> HIDE DEF old
      <4>4. Cardinality(old) # 0 BY <4>1, <4>2, FS_EmptySet
      <4> QED BY <3>1, <3>2, <4>3, <4>4, <1>3, <1>5
    <3>3. CASE sub[i].key # k
      <4>1. watchers'[sub[i].key] = watchers[sub[i].key]
        BY <3>1, <3>3, <1>0, <1>4 DEF WatchTypes
      <4> QED BY <3>1, <4>1
    <3> QED BY <3>2, <3>3
  <2> QED BY <2>1, <2>2
<1>14. NoGap'
  <2> SUFFICES ASSUME NEW i \in subs, sub[i].at \in {"listed", "pumping"}, ~sub[i].lagged,
                      NEW v \in sub[i].snap + 1 .. treever[sub[i].key]
               PROVE  Promised(i, v)'
    BY <1>1, <1>4, <1>7, <1>10 DEF NoGap
  <2>1. Promised(i, v) /\ sub'[i] = sub[i] BY <1>1, <1>7 DEF WatchInv, NoGap
  <2> QED BY <1>4, <2>1 DEF Promised
<1> QED BY <1>8, <1>9, <1>11, <1>12, <1>13, <1>14 DEF WatchInv

\* What moves only its own subscription: the snapshot, the start of the pump,
\* an event pumped, a full channel.
LEMMA StageSteps ==
    ASSUME WatchInv, NEW i \in DOMAIN sub,
           tree_snapshot(i) \/ do_fs_subscribe(i) \/ PumpSends(i) \/ PumpOverflows(i)
    PROVE  WatchInv'
<1>0. WatchTypes /\ QueuedKnown /\ NoGap BY DEF WatchInv
<1>1. /\ Len(sub) \in Nat /\ DOMAIN sub = 1..Len(sub) /\ subs \subseteq DOMAIN sub
      /\ \A j \in DOMAIN sub : j \in Nat /\ sub[j] \in Registration
  BY <1>0, SubFacts
<1>2. /\ sub[i].key \in WatchKeys /\ sub[i].conn \in Clients /\ sub[i].rx \in Seq(Nat) /\ i \in Nat
      /\ Len(sub[i].rx) <= BroadcastCap
      /\ \A c \in Clients : fschan[c] \in Seq(Nat \X Nat) /\ Len(fschan[c]) <= ChanCap
      /\ \A k \in WatchKeys : treever[k] \in Nat
  <2>1. sub[i].key \in WatchKeys /\ sub[i].conn \in Clients /\ sub[i].rx \in Seq(Nat) /\ i \in Nat
    BY <1>1 DEF Registration
  <2>2. Len(sub[i].rx) <= BroadcastCap /\ \A c \in Clients : Len(fschan[c]) <= ChanCap
    BY <1>0 DEF WatchTypes, WatchTypeOK
  <2>3. \A c \in Clients : fschan[c] \in Seq(Nat \X Nat)
    BY <1>0 DEF WatchTypes
  <2>4. \A k \in WatchKeys : treever[k] \in Nat
    BY <1>0, WatchAssumption DEF WatchTypes, WatchTypeOK
  <2> QED BY <2>1, <2>2, <2>3, <2>4
<1>3. \A c \in Clients : Len(fschan[c]) <= ChanCap /\ \A e \in Range(fschan[c]) : e[1] \in DOMAIN sub
  BY <1>0, <1>2 DEF QueuedKnown
<1>4. CASE tree_snapshot(i)
  <2> DEFINE r == [sub[i] EXCEPT !.at = "listed", !.snap = treever[sub[i].key]]
  <2>1. /\ r \in Registration /\ r.conn = sub[i].conn /\ r.key = sub[i].key /\ r.gen = sub[i].gen
        /\ r.rx = sub[i].rx /\ r.at = "listed" /\ r.snap = treever[sub[i].key]
    BY <1>1, <1>2 DEF Registration, Stages
  <2>2. sub' = [sub EXCEPT ![i] = r]
    BY <1>4 DEF tree_snapshot
  <2> HIDE DEF r
  <2>3. UNCHANGED <<treever, rawEvents, watchers, subs, next_sub_id, fschan, online, reinits>>
    BY <1>4 DEF tree_snapshot
  <2>4. NoGap'
    <3> SUFFICES ASSUME NEW j \in subs, sub'[j].at \in {"listed", "pumping"}, ~sub'[j].lagged,
                        NEW v \in sub'[j].snap + 1 .. treever[sub'[j].key]
                 PROVE  Promised(j, v)'
      BY <2>3 DEF NoGap
    <3>1. CASE j = i
      BY <3>1, <1>1, <1>2, <2>1, <2>2
    <3>2. CASE j # i
      <4>1. sub'[j] = sub[j] BY <3>2, <1>1, <2>2
      <4>2. Promised(j, v) BY <4>1, <1>0 DEF NoGap
      <4> QED BY <4>1, <4>2, <2>3 DEF Promised
    <3> QED BY <3>1, <3>2
  <2> QED BY <1>0, <1>2, <1>3, <2>1, <2>2, <2>3, <2>4, StageStep DEF WatchTypes
<1>5. CASE do_fs_subscribe(i)
  <2> DEFINE r == [sub[i] EXCEPT !.at = "pumping"]
  <2>1. /\ r \in Registration /\ r.conn = sub[i].conn /\ r.key = sub[i].key /\ r.gen = sub[i].gen
        /\ r.rx = sub[i].rx /\ r.at = "pumping" /\ r.snap = sub[i].snap /\ r.told = sub[i].told
        /\ r.lagged = sub[i].lagged
    BY <1>1, <1>2 DEF Registration, Stages
  <2>2. sub' = [sub EXCEPT ![i] = r] /\ sub[i].at = "listed"
    BY <1>5 DEF do_fs_subscribe
  <2> HIDE DEF r
  <2>3. UNCHANGED <<treever, rawEvents, watchers, subs, next_sub_id, fschan, online, reinits>>
    BY <1>5 DEF do_fs_subscribe
  <2>4. NoGap'
    <3> SUFFICES ASSUME NEW j \in subs, sub'[j].at \in {"listed", "pumping"}, ~sub'[j].lagged,
                        NEW v \in sub'[j].snap + 1 .. treever[sub'[j].key]
                 PROVE  Promised(j, v)'
      BY <2>3 DEF NoGap
    <3>1. /\ sub'[j].key = sub[j].key /\ sub'[j].conn = sub[j].conn /\ sub'[j].rx = sub[j].rx
          /\ sub'[j].told = sub[j].told /\ sub'[j].snap = sub[j].snap
          /\ sub[j].at \in {"listed", "pumping"} /\ ~sub[j].lagged
      BY <1>1, <2>1, <2>2
    <3>2. Promised(j, v) BY <3>1, <1>0 DEF NoGap
    <3> QED BY <3>1, <3>2, <2>3 DEF Promised
  <2> QED BY <1>0, <1>2, <1>3, <2>1, <2>2, <2>3, <2>4, StageStep DEF WatchTypes
<1>6. CASE PumpSends(i)
  <2> DEFINE r == [sub[i] EXCEPT !.rx = Tail(@)]
             x == Head(sub[i].rx)
             c == sub[i].conn
  <2>0. /\ x \in Nat /\ Tail(sub[i].rx) \in Seq(Nat) /\ Len(Tail(sub[i].rx)) <= BroadcastCap
        /\ Range(sub[i].rx) = Range(Tail(sub[i].rx)) \cup {x}
    <3>1. sub[i].rx # <<>> BY <1>6 DEF PumpSends
    <3>2. /\ Head(sub[i].rx) \in Nat /\ Tail(sub[i].rx) \in Seq(Nat)
          /\ Len(Tail(sub[i].rx)) = Len(sub[i].rx) - 1 /\ Len(sub[i].rx) \in Nat
          /\ Range(sub[i].rx) = Range(Tail(sub[i].rx)) \cup {Head(sub[i].rx)}
      BY <3>1, <1>2, QueueFacts
    <3> QED BY <3>2, <1>2, WatchAssumption
  <2>1. /\ r \in Registration /\ r.conn = sub[i].conn /\ r.key = sub[i].key /\ r.gen = sub[i].gen
        /\ r.rx = Tail(sub[i].rx) /\ r.at = sub[i].at /\ r.snap = sub[i].snap /\ r.told = sub[i].told
        /\ r.lagged = sub[i].lagged
    BY <1>1, <1>2, <2>0 DEF Registration, Stages
  <2>2. /\ sub' = [sub EXCEPT ![i] = r] /\ Len(fschan[c]) < ChanCap /\ sub[i].at = "pumping"
        /\ fschan' = [fschan EXCEPT ![c] = Append(@, <<i, x>>)]
    BY <1>6 DEF PumpSends
  <2>3. UNCHANGED <<treever, rawEvents, watchers, subs, next_sub_id, online, reinits>>
    BY <1>6 DEF PumpSends
  <2>4. c \in Clients /\ <<i, x>> \in Nat \X Nat
    BY <1>2, <2>0
  <2> HIDE DEF r, x, c
  <2>5. /\ Append(fschan[c], <<i, x>>) \in Seq(Nat \X Nat)
        /\ Len(Append(fschan[c], <<i, x>>)) = Len(fschan[c]) + 1 /\ Len(fschan[c]) \in Nat
        /\ Range(Append(fschan[c], <<i, x>>)) = Range(fschan[c]) \cup {<<i, x>>}
    <3> DEFINE s == fschan[c]
               S == Nat \X Nat
               e == <<i, x>>
    <3>1. s \in Seq(S) /\ e \in S BY <1>2, <2>4
    <3> HIDE DEF s, S, e
    <3>2. /\ Append(s, e) \in Seq(S) /\ Len(Append(s, e)) = Len(s) + 1 /\ Len(s) \in Nat
          /\ Range(Append(s, e)) = Range(s) \cup {e}
      BY <3>1, QueueFacts
    <3> QED BY <3>2 DEF s, S, e
  <2>6. /\ fschan' \in [Clients -> Seq(Nat \X Nat)]
        /\ \A d \in Clients : Len(fschan'[d]) <= ChanCap
                              /\ \A e \in Range(fschan'[d]) : e[1] \in DOMAIN sub
        /\ \A d \in Clients : Range(fschan[d]) \subseteq Range(fschan'[d])
        /\ <<i, x>> \in Range(fschan'[c])
    <3>1. fschan' \in [Clients -> Seq(Nat \X Nat)] /\ fschan'[c] = Append(fschan[c], <<i, x>>)
          /\ \A d \in Clients : d # c => fschan'[d] = fschan[d]
      BY <1>0, <2>2, <2>4, <2>5 DEF WatchTypes
    <3>2. Len(fschan'[c]) <= ChanCap
      BY <3>1, <2>2, <2>5, WatchAssumption
    <3>3. \A e \in Range(fschan'[c]) : e[1] \in DOMAIN sub
      <4>1. Range(fschan'[c]) = Range(fschan[c]) \cup {<<i, x>>} BY <3>1, <2>5
      <4>2. \A e \in Range(fschan[c]) : e[1] \in DOMAIN sub BY <1>3, <2>4
      <4>3. <<i, x>>[1] \in DOMAIN sub OBVIOUS
      <4> QED BY <4>1, <4>2, <4>3
    <3> QED BY <3>1, <3>2, <3>3, <2>4, <2>5, <1>3
  <2>7. NoGap'
    <3> SUFFICES ASSUME NEW j \in subs, sub'[j].at \in {"listed", "pumping"}, ~sub'[j].lagged,
                        NEW v \in sub'[j].snap + 1 .. treever[sub'[j].key]
                 PROVE  Promised(j, v)'
      BY <2>3 DEF NoGap
    <3>1. /\ sub'[j].key = sub[j].key /\ sub'[j].conn = sub[j].conn
          /\ j # i => sub'[j].rx = sub[j].rx
          /\ j = i => sub'[j].rx = Tail(sub[i].rx)
          /\ sub'[j].told = sub[j].told /\ sub'[j].snap = sub[j].snap
          /\ sub[j].at \in {"listed", "pumping"} /\ ~sub[j].lagged
      BY <1>1, <2>1, <2>2
    <3>2. Promised(j, v) BY <3>1, <1>0 DEF NoGap
    <3>3. sub[j].conn \in Clients BY <1>1 DEF Registration
    <3>4. CASE j # i
      BY <3>1, <3>2, <3>3, <3>4, <2>3, <2>6 DEF Promised
    <3>5. CASE j = i
      BY <3>1, <3>2, <3>3, <3>5, <2>0, <2>3, <2>6 DEF Promised, c
    <3> QED BY <3>4, <3>5
  <2>8. i \in subs => r.at \in {"registered", "listed", "pumping", "notice"}
    BY <2>1, <2>2
  <2> QED BY <2>0, <2>1, <2>2, <2>3, <2>6, <2>7, <2>8, StageStep
<1>7. CASE PumpOverflows(i)
  <2> DEFINE r == [sub[i] EXCEPT !.at = "notice"]
  <2>1. /\ r \in Registration /\ r.conn = sub[i].conn /\ r.key = sub[i].key /\ r.gen = sub[i].gen
        /\ r.rx = sub[i].rx /\ r.at = "notice"
    BY <1>1, <1>2 DEF Registration, Stages
  <2>2. sub' = [sub EXCEPT ![i] = r]
    BY <1>7 DEF PumpOverflows
  <2> HIDE DEF r
  <2>3. UNCHANGED <<treever, rawEvents, watchers, subs, next_sub_id, fschan, online, reinits>>
    BY <1>7 DEF PumpOverflows
  <2>4. NoGap'
    <3> SUFFICES ASSUME NEW j \in subs, sub'[j].at \in {"listed", "pumping"}, ~sub'[j].lagged,
                        NEW v \in sub'[j].snap + 1 .. treever[sub'[j].key]
                 PROVE  Promised(j, v)'
      BY <2>3 DEF NoGap
    <3>1. j # i /\ sub'[j] = sub[j] BY <1>1, <2>1, <2>2
    <3>2. Promised(j, v) BY <3>1, <1>0 DEF NoGap
    <3> QED BY <3>1, <3>2, <2>3 DEF Promised
  <2> QED BY <1>0, <1>2, <1>3, <2>1, <2>2, <2>3, <2>4, StageStep DEF WatchTypes
<1> QED BY <1>4, <1>5, <1>6, <1>7

\* A subscription given back by its own guard, pump or client: it may have
\* been given back before.
LEMMA UnsubStep ==
    ASSUME WatchInv, NEW i \in DOMAIN sub, NEW a \in Stages,
           sub' = [sub EXCEPT ![i].at = a], unsubscribe_tree(i),
           UNCHANGED <<treever, next_sub_id, fschan, online, reinits>>
    PROVE  WatchInv'
<1>0. WatchTypes BY DEF WatchInv
<1>1. /\ Len(sub) \in Nat /\ DOMAIN sub = 1..Len(sub) /\ subs \subseteq DOMAIN sub
      /\ \A j \in DOMAIN sub : j \in Nat /\ sub[j] \in Registration
  BY <1>0, SubFacts
<1> DEFINE r == [sub[i] EXCEPT !.at = a]
           ids == {i} \cap subs
<1>2. r \in Registration /\ r.rx = sub[i].rx
  BY <1>1 DEF Registration
<1>3. sub' = [sub EXCEPT ![i] = r]
  OBVIOUS
<1>4. ids \in SUBSET subs /\ release(ids) /\ i \notin subs \ ids
  BY DEF unsubscribe_tree
<1> HIDE DEF r, ids
<1>5. /\ sub' \in Seq(Registration) /\ Len(sub') = Len(sub) /\ DOMAIN sub' = DOMAIN sub
      /\ sub'[i] = r /\ \A j \in DOMAIN sub : j # i => sub'[j] = sub[j]
  <2>1. sub \in Seq(Registration) /\ i \in 1..Len(sub)
    BY <1>0, <1>1 DEF WatchTypes
  <2>2. /\ [sub EXCEPT ![i] = r] \in Seq(Registration)
        /\ Len([sub EXCEPT ![i] = r]) = Len(sub)
    BY <1>2, <2>1, ExceptSeq
  <2>3. DOMAIN sub' = DOMAIN sub /\ sub'[i] = r /\ \A j \in DOMAIN sub : j # i => sub'[j] = sub[j]
    BY <1>3
  <2> QED BY <1>3, <2>2, <2>3
<1>6. \A j \in DOMAIN sub : Len(sub'[j].rx) <= BroadcastCap
  BY <1>0, <1>2, <1>5 DEF WatchTypes, WatchTypeOK
<1>7. \A j \in subs \ ids : /\ sub'[j] = sub[j] /\ sub[j].conn \in online'
                            /\ fschan'[sub[j].conn] = fschan[sub[j].conn]
  BY <1>1, <1>4, <1>5 DEF WatchInv, NoLeakedSubscription
<1>8. /\ online' \subseteq online /\ treever' = treever /\ next_sub_id' = next_sub_id
      /\ reinits' \in Nat /\ fschan' \in [Clients -> Seq(Nat \X Nat)]
      /\ \A c \in Clients : fschan'[c] \in {fschan[c], <<>>}
  BY <1>0 DEF WatchTypes
<1> QED BY <1>4, <1>5, <1>6, <1>7, <1>8, ReleaseStep

\* The end of a connection's reader gives back every subscription it made.
LEMMA CleanupStep ==
    ASSUME WatchInv, NEW c \in Clients, Cleanup(c)
    PROVE  WatchInv'
<1>0. WatchTypes BY DEF WatchInv
<1>1. /\ Len(sub) \in Nat /\ DOMAIN sub = 1..Len(sub) /\ subs \subseteq DOMAIN sub
      /\ \A j \in DOMAIN sub : j \in Nat /\ sub[j] \in Registration
  BY <1>0, SubFacts
<1> DEFINE ids == PumpsOf(c) \cap subs
<1>2. /\ ids \in SUBSET subs /\ release(ids) /\ online' = online \ {c}
      /\ sub' = [i \in DOMAIN sub |-> IF i \in PumpsOf(c) THEN [sub[i] EXCEPT !.at = "gone"] ELSE sub[i]]
      /\ fschan' = [fschan EXCEPT ![c] = <<>>] /\ UNCHANGED <<treever, next_sub_id, reinits>>
  BY DEF Cleanup
<1>3. \A i \in DOMAIN sub : sub'[i] \in Registration /\ sub'[i].rx = sub[i].rx
  BY <1>1, <1>2 DEF Registration, Stages
<1>4. sub' \in Seq(Registration) /\ DOMAIN sub' = DOMAIN sub /\ Len(sub') = Len(sub)
  BY <1>1, <1>2, <1>3, IsASeq
<1>5. \A i \in DOMAIN sub : Len(sub'[i].rx) <= BroadcastCap
  BY <1>0, <1>3 DEF WatchTypes, WatchTypeOK
<1>6. ASSUME NEW i \in subs \ ids
      PROVE  /\ sub'[i] = sub[i] /\ sub[i].conn \in online'
             /\ fschan'[sub[i].conn] = fschan[sub[i].conn]
  <2>1. i \notin PumpsOf(c) /\ i \in DOMAIN sub /\ sub[i].conn \in Clients
    BY <1>1 DEF Registration
  <2>2. sub[i].conn \in online /\ sub[i].at # "gone"
    BY DEF WatchInv, NoLeakedSubscription
  <2>3. sub[i].conn # c
    BY <2>1, <2>2 DEF PumpsOf
  <2> QED BY <1>0, <1>2, <2>1, <2>2, <2>3 DEF WatchTypes
<1>7. /\ fschan' \in [Clients -> Seq(Nat \X Nat)]
      /\ \A d \in Clients : fschan'[d] \in {fschan[d], <<>>}
  BY <1>0, <1>2, EmptySeq DEF WatchTypes
<1>8. reinits' \in Nat /\ online' \subseteq online /\ treever' = treever /\ next_sub_id' = next_sub_id
  BY <1>0, <1>2 DEF WatchTypes
<1> HIDE DEF ids
<1> QED BY <1>2, <1>4, <1>5, <1>6, <1>7, <1>8, ReleaseStep

\* A workspace switch drops every registration.
LEMMA ReinitStep ==
    ASSUME WatchInv, reinit_sandbox
    PROVE  WatchInv'
<1>0. WatchTypes BY DEF WatchInv
<1>1. /\ release(subs) /\ UNCHANGED <<treever, next_sub_id, sub, fschan, online>>
      /\ reinits' = reinits + 1 /\ reinits \in Nat
  BY <1>0 DEF reinit_sandbox, WatchTypes
<1>2. \A i \in DOMAIN sub : Len(sub'[i].rx) <= BroadcastCap
  BY <1>0, <1>1 DEF WatchTypes, WatchTypeOK
<1>3. sub' \in Seq(Registration) /\ fschan' \in [Clients -> Seq(Nat \X Nat)]
  BY <1>0, <1>1 DEF WatchTypes
<1>4. /\ DOMAIN sub' = DOMAIN sub /\ Len(sub') = Len(sub) /\ reinits' \in Nat
      /\ online' \subseteq online /\ treever' = treever /\ next_sub_id' = next_sub_id
      /\ \A c \in Clients : fschan'[c] \in {fschan[c], <<>>}
      /\ subs \in SUBSET subs /\ subs \ subs = {}
  BY <1>1
<1> QED BY <1>1, <1>2, <1>3, <1>4, ReleaseStep

\* A change reaches the watcher of every registered subscription.
LEMMA ChangeStep ==
    ASSUME WatchInv, NEW k \in WatchKeys, ChangeTree(k)
    PROVE  WatchInv'
<1>0. WatchTypes /\ RefcountIsExact BY DEF WatchInv
<1>1. /\ Len(sub) \in Nat /\ DOMAIN sub = 1..Len(sub) /\ subs \subseteq DOMAIN sub
      /\ \A j \in DOMAIN sub : j \in Nat /\ sub[j] \in Registration
  BY <1>0, SubFacts
<1> DEFINE new == treever[k] + 1
<1>2. /\ treever \in [WatchKeys -> 0..MaxVersion] /\ treever[k] \in 0..MaxVersion
      /\ new \in 0..MaxVersion /\ new \in Nat
      /\ treever' = [treever EXCEPT ![k] = new]
      /\ UNCHANGED <<watchers, subs, next_sub_id, sub, fschan, online, reinits>>
  BY <1>0, WatchAssumption DEF WatchTypes, WatchTypeOK, ChangeTree
<1>3. /\ treever' \in [WatchKeys -> 0..MaxVersion] /\ treever'[k] = new
      /\ \A x \in WatchKeys \ {k} : treever'[x] = treever[x]
  BY <1>2
<1>4. rawEvents' = [rawEvents EXCEPT ![k] = IF watchers[k].refcount > 0 THEN Append(rawEvents[k], new)
                                            ELSE rawEvents[k]]
  BY <1>3 DEF ChangeTree
<1> HIDE DEF new
<1>5. /\ Append(rawEvents[k], new) \in Seq(Nat)
      /\ Range(Append(rawEvents[k], new)) = Range(rawEvents[k]) \cup {new}
  <2>1. rawEvents[k] \in Seq(Nat) BY <1>0 DEF WatchTypes
  <2> QED BY <2>1, <1>2, QueueFacts
<1>6. /\ rawEvents' \in [WatchKeys -> Seq(Nat)]
      /\ \A x \in WatchKeys \ {k} : rawEvents'[x] = rawEvents[x]
      /\ watchers[k].refcount > 0 => Range(rawEvents'[k]) = Range(rawEvents[k]) \cup {new}
  BY <1>0, <1>4, <1>5 DEF WatchTypes
<1>7. WatchTypes'
  BY <1>0, <1>2, <1>3, <1>6 DEF WatchTypes, WatchTypeOK
<1>8. QueuedKnown' /\ RefcountIsExact' /\ NoLeakedSubscription' /\ HearsWatcher'
  BY <1>2 DEF WatchInv, QueuedKnown, RefcountIsExact, NoLeakedSubscription, HearsWatcher
<1>9. NoGap'
  <2> SUFFICES ASSUME NEW i \in subs, sub[i].at \in {"listed", "pumping"}, ~sub[i].lagged,
                      NEW v \in sub[i].snap + 1 .. treever'[sub[i].key]
               PROVE  Promised(i, v)'
    BY <1>2 DEF NoGap
  <2>1. sub[i].key \in WatchKeys /\ sub[i].snap \in Nat BY <1>1 DEF Registration
  <2>2. CASE sub[i].key # k
    <3>1. Promised(i, v) BY <2>1, <2>2, <1>3 DEF WatchInv, NoGap
    <3> QED BY <3>1, <2>1, <2>2, <1>2, <1>6 DEF Promised
  <2>3. CASE sub[i].key = k
    <3> DEFINE mine == {j \in subs : sub[j].key = k}
    <3>1. i \in mine /\ mine \in SUBSET subs BY <2>3
    <3>2. IsFiniteSet(mine) /\ Cardinality(mine) \in Nat BY <1>0, <3>1, SubsFinite
    <3>3. watchers[k].refcount = Cardinality(mine) BY <1>0 DEF RefcountIsExact
    <3> HIDE DEF mine
    <3>4. Cardinality(mine) # 0 BY <3>1, <3>2, FS_EmptySet
    <3>5. Range(rawEvents'[k]) = Range(rawEvents[k]) \cup {new} BY <3>2, <3>3, <3>4, <1>6
    <3>6. CASE v = new
      BY <3>5, <3>6, <2>3, <1>2 DEF Promised
    <3>7. CASE v # new
      <4>1. v \in sub[i].snap + 1 .. treever[sub[i].key]
        BY <3>7, <2>1, <2>3, <1>2, <1>3 DEF new
      <4>2. Promised(i, v) BY <4>1 DEF WatchInv, NoGap
      <4> QED BY <4>2, <3>5, <2>3, <1>2 DEF Promised
    <3> QED BY <3>6, <3>7
  <2> QED BY <2>2, <2>3
<1> QED BY <1>7, <1>8, <1>9 DEF WatchInv

\* What a watcher broadcasts reaches every registered subscription of it, or
\* the subscription is marked as lagged.
LEMMA BroadcastStep ==
    ASSUME WatchInv, NEW k \in WatchKeys, Broadcast(k)
    PROVE  WatchInv'
<1>0. WatchTypes BY DEF WatchInv
<1>1. /\ Len(sub) \in Nat /\ DOMAIN sub = 1..Len(sub) /\ subs \subseteq DOMAIN sub
      /\ \A j \in DOMAIN sub : j \in Nat /\ sub[j] \in Registration
  BY <1>0, SubFacts
<1> DEFINE all(i) == sub[i].rx \o rawEvents[k]
           r(i) == [sub[i] EXCEPT !.rx = Tail_(all(i), BroadcastCap),
                                  !.lagged = sub[i].lagged \/ Len(all(i)) > BroadcastCap]
<1>2. /\ rawEvents' = [rawEvents EXCEPT ![k] = <<>>]
      /\ sub' = [i \in DOMAIN sub |-> IF Listening(i, k) THEN r(i) ELSE sub[i]]
      /\ UNCHANGED <<treever, watchers, subs, next_sub_id, fschan, online, reinits>>
  BY DEF Broadcast
<1>3. ASSUME NEW i \in DOMAIN sub
      PROVE  /\ all(i) \in Seq(Nat) /\ Range(all(i)) = Range(sub[i].rx) \cup Range(rawEvents[k])
             /\ Tail_(all(i), BroadcastCap) \in Seq(Nat) /\ Len(Tail_(all(i), BroadcastCap)) <= BroadcastCap
             /\ ~ (Len(all(i)) > BroadcastCap) => Tail_(all(i), BroadcastCap) = all(i)
  <2>1. sub[i].rx \in Seq(Nat) /\ rawEvents[k] \in Seq(Nat) /\ BroadcastCap \in Nat
    BY <1>0, <1>1, WatchAssumption DEF WatchTypes, Registration
  <2>2. all(i) \in Seq(Nat) /\ Range(all(i)) = Range(sub[i].rx) \cup Range(rawEvents[k])
    BY <2>1, QueueFacts
  <2> HIDE DEF all
  <2> QED BY <2>1, <2>2, KeepFacts
<1>4. ASSUME NEW i \in DOMAIN sub
      PROVE  /\ r(i) \in Registration /\ Len(r(i).rx) <= BroadcastCap
             /\ r(i).key = sub[i].key /\ r(i).conn = sub[i].conn /\ r(i).gen = sub[i].gen
             /\ r(i).at = sub[i].at /\ r(i).snap = sub[i].snap /\ r(i).told = sub[i].told
             /\ ~r(i).lagged => ~sub[i].lagged /\ Range(r(i).rx) = Range(sub[i].rx) \cup Range(rawEvents[k])
  <2> HIDE DEF all
  <2>1. sub[i] \in Registration BY <1>1
  <2>2. r(i).rx = Tail_(all(i), BroadcastCap) /\ r(i).lagged = (sub[i].lagged \/ Len(all(i)) > BroadcastCap)
    BY <2>1 DEF Registration
  <2>3. r(i) \in Registration
    BY <1>3, <2>1 DEF Registration
  <2>4. /\ r(i).key = sub[i].key /\ r(i).conn = sub[i].conn /\ r(i).gen = sub[i].gen
        /\ r(i).at = sub[i].at /\ r(i).snap = sub[i].snap /\ r(i).told = sub[i].told
    BY <2>1 DEF Registration
  <2> HIDE DEF r
  <2>5. ~r(i).lagged => ~sub[i].lagged /\ Range(r(i).rx) = Range(sub[i].rx) \cup Range(rawEvents[k])
    BY <1>3, <2>2
  <2> QED BY <1>3, <2>2, <2>3, <2>4, <2>5
<1> HIDE DEF all, r
<1>5. /\ DOMAIN sub' = DOMAIN sub
      /\ \A i \in DOMAIN sub : /\ Listening(i, k) => sub'[i] = r(i)
                               /\ ~Listening(i, k) => sub'[i] = sub[i]
  BY <1>2
<1>6. \A i \in DOMAIN sub : /\ sub'[i] \in Registration /\ Len(sub'[i].rx) <= BroadcastCap
                            /\ sub'[i].key = sub[i].key /\ sub'[i].conn = sub[i].conn
                            /\ sub'[i].gen = sub[i].gen /\ sub'[i].at = sub[i].at
                            /\ sub'[i].snap = sub[i].snap /\ sub'[i].told = sub[i].told
  BY <1>0, <1>1, <1>4, <1>5 DEF WatchTypes, WatchTypeOK
<1>7. sub' \in Seq(Registration) /\ Len(sub') = Len(sub)
  BY <1>1, <1>2, <1>6, IsASeq
<1>8. rawEvents' \in [WatchKeys -> Seq(Nat)] /\ \A x \in WatchKeys \ {k} : rawEvents'[x] = rawEvents[x]
  BY <1>0, <1>2, EmptySeq DEF WatchTypes
<1>9. WatchTypes'
  BY <1>0, <1>2, <1>5, <1>6, <1>7, <1>8 DEF WatchTypes, WatchTypeOK
<1>10. QueuedKnown' /\ NoLeakedSubscription' /\ HearsWatcher'
  BY <1>1, <1>2, <1>5, <1>6 DEF WatchInv, QueuedKnown, NoLeakedSubscription, HearsWatcher
<1>11. RefcountIsExact'
  <2>1. \A x \in WatchKeys : {j \in subs : sub'[j].key = x} = {j \in subs : sub[j].key = x}
    BY <1>1, <1>6
  <2> QED BY <1>2, <2>1 DEF WatchInv, RefcountIsExact
<1>12. NoGap'
  <2> SUFFICES ASSUME NEW i \in subs, sub'[i].at \in {"listed", "pumping"}, ~sub'[i].lagged,
                      NEW v \in sub'[i].snap + 1 .. treever[sub'[i].key]
               PROVE  Promised(i, v)'
    BY <1>2 DEF NoGap
  <2>1. i \in DOMAIN sub /\ sub[i].key \in WatchKeys BY <1>1 DEF Registration
  <2>2. CASE sub[i].key = k
    <3>1. Listening(i, k)
      BY <1>6, <2>1, <2>2 DEF Listening, WatchInv, HearsWatcher
    <3>2. sub'[i] = r(i) /\ ~sub[i].lagged /\ Range(sub'[i].rx) = Range(sub[i].rx) \cup Range(rawEvents[k])
      BY <1>4, <1>5, <2>1, <3>1
    <3>3. Promised(i, v)
      BY <1>6, <2>1, <3>2 DEF WatchInv, NoGap
    <3> QED BY <1>2, <1>6, <2>1, <2>2, <3>2, <3>3 DEF Promised
  <2>3. CASE sub[i].key # k
    <3>1. sub'[i] = sub[i] BY <1>5, <2>1, <2>3 DEF Listening
    <3>2. Promised(i, v) BY <3>1 DEF WatchInv, NoGap
    <3> QED BY <1>2, <1>8, <2>1, <2>3, <3>1, <3>2 DEF Promised
  <2> QED BY <2>2, <2>3
<1> QED BY <1>9, <1>10, <1>11, <1>12 DEF WatchInv

\* The writer tells the client what leaves the connection's queue.
LEMMA WriterStep ==
    ASSUME WatchInv, NEW c \in Clients, WriterSends(c)
    PROVE  WatchInv'
<1>0. WatchTypes /\ QueuedKnown BY DEF WatchInv
<1>1. /\ Len(sub) \in Nat /\ DOMAIN sub = 1..Len(sub) /\ subs \subseteq DOMAIN sub
      /\ \A j \in DOMAIN sub : j \in Nat /\ sub[j] \in Registration
  BY <1>0, SubFacts
<1> DEFINE q == fschan[c]
           e == Head(fschan[c])
           i == Head(fschan[c])[1]
           x == Head(fschan[c])[2]
           r == [sub[i] EXCEPT !.told = @ \cup {x}]
           S == Nat \X Nat
<1>2. /\ q # <<>> /\ q \in Seq(S) /\ fschan' = [fschan EXCEPT ![c] = Tail(q)]
      /\ sub' = [sub EXCEPT ![i] = r]
      /\ UNCHANGED <<treever, rawEvents, watchers, subs, next_sub_id, online, reinits>>
  BY <1>0 DEF WriterSends, WatchTypes
<1>3. /\ e \in S /\ Tail(q) \in Seq(S) /\ Len(Tail(q)) = Len(q) - 1 /\ Len(q) \in Nat
      /\ Range(q) = Range(Tail(q)) \cup {e}
  <2> HIDE DEF q, S
  <2>1. Head(q) \in S /\ Tail(q) \in Seq(S) /\ Len(Tail(q)) = Len(q) - 1 /\ Len(q) \in Nat
        /\ Range(q) = Range(Tail(q)) \cup {Head(q)}
    BY <1>2, QueueFacts
  <2> QED BY <2>1 DEF q
<1>4. e = <<i, x>> /\ x \in Nat
  BY <1>3
<1>5. i \in DOMAIN sub
  <2>1. e \in Range(fschan[c]) BY <1>3
  <2> QED BY <2>1, <1>0 DEF QueuedKnown
<1>6. /\ r \in Registration /\ r.conn = sub[i].conn /\ r.key = sub[i].key /\ r.gen = sub[i].gen
      /\ r.rx = sub[i].rx /\ r.at = sub[i].at /\ r.snap = sub[i].snap /\ r.lagged = sub[i].lagged
      /\ r.told = sub[i].told \cup {x}
  BY <1>1, <1>4, <1>5 DEF Registration
<1>7. Len(r.rx) <= BroadcastCap
  BY <1>0, <1>5, <1>6 DEF WatchTypes, WatchTypeOK
<1> HIDE DEF r, i, x, e
<1>8. /\ fschan' \in [Clients -> Seq(S)] /\ fschan'[c] = Tail(q)
      /\ \A d \in Clients \ {c} : fschan'[d] = fschan[d]
  BY <1>0, <1>2, <1>3 DEF WatchTypes
<1>9. \A d \in Clients : Len(fschan'[d]) <= ChanCap
                         /\ \A m \in Range(fschan'[d]) : m[1] \in DOMAIN sub
  <2> SUFFICES ASSUME NEW d \in Clients
               PROVE  Len(fschan'[d]) <= ChanCap /\ \A m \in Range(fschan'[d]) : m[1] \in DOMAIN sub
    OBVIOUS
  <2>1. Len(fschan[d]) <= ChanCap /\ \A m \in Range(fschan[d]) : m[1] \in DOMAIN sub
    BY <1>0 DEF WatchTypes, WatchTypeOK, QueuedKnown
  <2>2. CASE d # c
    BY <1>8, <2>1, <2>2
  <2>3. CASE d = c
    <3>1. Len(Tail(q)) <= ChanCap BY <1>3, <2>1, <2>3, WatchAssumption
    <3>2. Range(Tail(q)) \subseteq Range(fschan[d]) BY <1>3, <2>3
    <3> QED BY <1>8, <2>1, <2>3, <3>1, <3>2
  <2> QED BY <2>2, <2>3
<1>10. sub'[i] = r /\ \A j \in DOMAIN sub : j # i => sub'[j] = sub[j]
  BY <1>1, <1>2, <1>5
<1>11. NoGap'
  <2> SUFFICES ASSUME NEW j \in subs, sub'[j].at \in {"listed", "pumping"}, ~sub'[j].lagged,
                      NEW v \in sub'[j].snap + 1 .. treever[sub'[j].key]
               PROVE  Promised(j, v)'
    BY <1>2 DEF NoGap
  <2>1. /\ sub'[j].key = sub[j].key /\ sub'[j].conn = sub[j].conn /\ sub'[j].rx = sub[j].rx
        /\ sub'[j].snap = sub[j].snap /\ sub'[j].at = sub[j].at /\ ~sub[j].lagged
        /\ sub[j].told \subseteq sub'[j].told /\ (j = i => x \in sub'[j].told)
        /\ sub[j].conn \in Clients
    BY <1>1, <1>5, <1>6, <1>10 DEF Registration
  <2>2. Promised(j, v) BY <2>1 DEF WatchInv, NoGap
  <2>3. CASE <<j, v>> \in Range(fschan[sub[j].conn])
    <3>1. CASE <<j, v>> = e
      <4>1. j = i /\ v = x BY <3>1, <1>4
      <4> QED BY <4>1, <2>1 DEF Promised
    <3>2. CASE <<j, v>> # e
      <4>1. <<j, v>> \in Range(fschan'[sub[j].conn])
        BY <3>2, <2>1, <2>3, <1>3, <1>8
      <4> QED BY <4>1, <2>1 DEF Promised
    <3> QED BY <3>1, <3>2
  <2>4. CASE v \in sub[j].told \cup Range(sub[j].rx) \cup Range(rawEvents[sub[j].key])
    BY <1>2, <2>1, <2>4 DEF Promised
  <2> QED BY <2>2, <2>3, <2>4 DEF Promised
<1>12. i \in subs => r.at \in {"registered", "listed", "pumping", "notice"}
  BY <1>6 DEF WatchInv, NoLeakedSubscription
<1> QED BY <1>2, <1>5, <1>6, <1>7, <1>8, <1>9, <1>11, <1>12, StageStep

\* Every step keeps the invariant.
LEMMA WatchStep == WatchInv /\ [WatchNext]_watchvars => WatchInv'
<1> SUFFICES ASSUME WatchInv, [WatchNext]_watchvars PROVE WatchInv'
  OBVIOUS
<1>1. CASE UNCHANGED watchvars
  BY <1>1 DEF watchvars, WatchInv, WatchTypes, WatchTypeOK, QueuedKnown, RefcountIsExact,
              NoLeakedSubscription, HearsWatcher, NoGap, Promised
<1>2. ASSUME NEW c \in Clients, NEW k \in WatchKeys, subscribe_with_key(c, k) PROVE WatchInv'
  BY <1>2, SubscribeStep
<1>3. ASSUME NEW i \in DOMAIN sub,
             tree_snapshot(i) \/ do_fs_subscribe(i) \/ PumpSends(i) \/ PumpOverflows(i)
      PROVE  WatchInv'
  BY <1>3, StageSteps
<1>4. ASSUME NEW i \in DOMAIN sub, FsSubscriptionGuardDrop(i) \/ FsUnsubTree(i) PROVE WatchInv'
  <2>1. /\ sub' = [sub EXCEPT ![i].at = "gone"] /\ unsubscribe_tree(i) /\ "gone" \in Stages
        /\ UNCHANGED <<treever, next_sub_id, fschan, online, reinits>>
    BY <1>4 DEF FsSubscriptionGuardDrop, FsUnsubTree, Stages
  <2> QED BY <2>1, UnsubStep
<1>5. ASSUME NEW i \in DOMAIN sub, PumpEnds(i) PROVE WatchInv'
  <2> DEFINE a == IF sub[i].at = "notice" THEN "overflowed" ELSE "gone"
  <2>1. /\ sub' = [sub EXCEPT ![i].at = a] /\ unsubscribe_tree(i)
        /\ UNCHANGED <<treever, next_sub_id, fschan, online, reinits>>
    BY <1>5 DEF PumpEnds
  <2>2. a \in Stages BY DEF Stages
  <2> HIDE DEF a
  <2> QED BY <2>1, <2>2, UnsubStep
<1>6. ASSUME NEW k \in WatchKeys, ChangeTree(k) \/ Broadcast(k) PROVE WatchInv'
  BY <1>6, ChangeStep, BroadcastStep
<1>7. ASSUME NEW c \in Clients, WriterSends(c) \/ Cleanup(c) PROVE WatchInv'
  BY <1>7, WriterStep, CleanupStep
<1>8. CASE reinit_sandbox
  BY <1>8, ReinitStep
<1> QED BY <1>1, <1>2, <1>3, <1>4, <1>5, <1>6, <1>7, <1>8 DEF WatchNext

\* The invariant of the subscriptions.
THEOREM WatchInvariant == WatchSpec => []WatchInv
<1>1. WatchInit => WatchInv BY WatchStart
<1>2. WatchInv /\ [WatchNext]_watchvars => WatchInv' BY WatchStep
<1> QED BY <1>1, <1>2, PTL DEF WatchSpec

\* Through aborted pumps, overflows, failed snapshots, ended connections and
\* workspace switches a watcher counts exactly its subscriptions, each has a
\* task that will release it, and one that never lagged is told every change.
THEOREM WatchersStayExact == WatchSpec => []WatchersAreExact
<1>1. WatchInv => WatchersAreExact
  <2>1. NoGap => NoSilentGap
    BY DEF NoGap, NoSilentGap, Promised
  <2> QED BY <2>1 DEF WatchInv, WatchTypes, WatchersAreExact
<1> QED BY <1>1, WatchInvariant, PTL

-----------------------------------------------------------------------------
(* Media tickets and streams.                                              *)

Kinds == MediaKinds \cup IssueKinds
Cookies == Nat \cup {None}

\* What the two maps of the store hold.
Session == [actor : Actors, idle : Int, abs : Int]
Ticket == [kind : Kinds, root : Roots, ver : Nat, ses : Nat, actor : Actors,
           idle : Int, abs : Int, gen : Nat]

\* What a request is doing.
Resolving == [pc : {"resolve"}, b : Browsers, actor : Actors, cookie : Cookies, kind : IssueKinds,
              gen : Nat]
Issuing == [pc : {"issue"}, b : Browsers, actor : Actors, cookie : Cookies, kind : IssueKinds,
            gen : Nat, root : Roots, ver : Nat]
Replying == [pc : {"reply"}, b : Browsers, t : Nat, ses : Nat]
Opening == [pc : {"open", "finalize"}, t : Nat, kind : MediaKinds, mode : {"cookie", "ticket"},
            cookie : Cookies, ticket : Ticket]
Sending == [pc : {"sent"}, t : Nat, ses : Nat, root : Roots, wish : RangeWishes, bytes : Int \X Int]
Doings == {NoHandler} \cup Resolving \cup Issuing \cup Replying \cup Opening \cup Sending

\* Requests that will still take a ticket out of the bound.
Takers == {h \in Handlers : handler[h].pc \in {"resolve", "issue"}}

\* Every variable has its type, and the bound on the tickets is kept.
MediaTypes ==
    /\ mQuota \in [tickets : Nat, now : Nat, edits : Nat, reloads : Nat]
    /\ mIssued \in Nat /\ mNow \in Nat /\ mGen \in Nat /\ mediaRoot \in Roots
    /\ disk \in [Roots -> Nat]
    /\ jar \in [Browsers -> 1..mIssued \cup {None}]
    /\ who \in [Browsers -> Actors \cup {None}]
    /\ known \in [Browsers -> SUBSET Nat]
    /\ handler \in [Handlers -> Doings]
    /\ born \in [1..mIssued -> Nat]
    /\ mIssued + Cardinality(Takers) <= mQuota.tickets

\* A session was issued, and not revoked; it ends with its absolute lifetime.
SessionsSound(ss, n, made, over) ==
    \A s \in DOMAIN ss :
        /\ s \in 1..n /\ ss[s] \in Session /\ ss[s].idle <= ss[s].abs
        /\ ss[s].abs = made[s] + MediaAbsolute
        /\ <<"session", s>> \notin over

\* So was a ticket; its session is there and is its actor's, and it was issued
\* in the generation of now.
TicketsSound(tt, ss, n, made, over, gen) ==
    \A t \in DOMAIN tt :
        /\ t \in 1..n /\ tt[t] \in Ticket /\ tt[t].idle <= tt[t].abs
        /\ tt[t].abs = made[t] + MediaAbsolute
        /\ <<"ticket", t>> \notin over
        /\ tt[t].ses \in DOMAIN ss /\ ss[tt[t].ses].actor = tt[t].actor
        /\ tt[t].gen = gen

StoreSound ==
    /\ SessionsSound(mSessions, mIssued, born, ended)
    /\ TicketsSound(mTickets, mSessions, mIssued, born, ended, mGen)
    /\ ended \subseteq {"session", "ticket"} \X (1..mIssued)

\* A request that is about to answer names what was issued; one that opened
\* its file did so in the workspace that is still configured.
RequestsSound ==
    \A h \in Handlers :
        /\ handler[h].pc = "reply" => handler[h].t \in 1..mIssued /\ handler[h].ses \in 1..mIssued
        /\ handler[h].pc = "finalize" => handler[h].ticket.root = mediaRoot

MediaInv == MediaTypes /\ StoreSound /\ RequestsSound /\ BodyIsTheWish

\* What BodyIsTheWish says of one request.
Met(q) ==
    LET wished == {i \in 0..(FileSize - 1) :
                      IF q.wish.first = None THEN i >= FileSize - q.wish.last
                      ELSE i >= q.wish.first /\ (q.wish.last # None => i <= q.wish.last)}
    IN q.bytes[1]..q.bytes[2] = wished /\ wished # {}
-----------------------------------------------------------------------------
(* Lemmas on the operators                                                 *)

\* A request's state is told by its program counter.
LEMMA DoingFacts ==
    ASSUME NEW q \in Doings
    PROVE  /\ q.pc \in {"idle", "resolve", "issue", "reply", "open", "finalize", "sent"}
           /\ q.pc = "idle" <=> q = NoHandler
           /\ q.pc = "resolve" => q \in Resolving
           /\ q.pc = "issue" => q \in Issuing
           /\ q.pc = "reply" => q \in Replying
           /\ q.pc \in {"open", "finalize"} => q \in Opening
           /\ q.pc = "sent" => q \in Sending
BY DEF Doings, NoHandler, Resolving, Issuing, Replying, Opening, Sending

\* parse_single_range answers with the wished bytes of the file, of which there
\* is at least one, or not at all.
LEMMA RangeFacts ==
    ASSUME NEW w \in RangeWishes, parse_single_range(w) # None
    PROVE  /\ parse_single_range(w) \in Int \X Int
           /\ \A q : q.wish = w /\ q.bytes = parse_single_range(w) => Met(q)
<1>1. w \in [first : Nat \cup {None}, last : Nat \cup {None}] /\ FileSize \in Nat
  BY MediaAssumption
<1>2. FileSize # 0
  BY DEF parse_single_range
<1>3. CASE w.first = None
  <2>1. /\ w.last # None /\ w.last # 0 /\ w.last \in Nat
        /\ parse_single_range(w) = <<FileSize - Lesser(w.last, FileSize), FileSize - 1>>
    BY <1>1, <1>2, <1>3 DEF parse_single_range
  <2>2. Lesser(w.last, FileSize) \in Nat /\ Lesser(w.last, FileSize) <= w.last
        /\ Lesser(w.last, FileSize) <= FileSize /\ Lesser(w.last, FileSize) >= 1
        /\ Lesser(w.last, FileSize) \in {w.last, FileSize}
    BY <1>1, <1>2, <2>1 DEF Lesser
  <2>3. ASSUME NEW q, q.wish = w, q.bytes = parse_single_range(w) PROVE Met(q)
    <3>1. q.bytes[1] = FileSize - Lesser(w.last, FileSize) /\ q.bytes[2] = FileSize - 1
      BY <2>1, <2>3
    <3>2. \A i \in Int : i \in q.bytes[1]..q.bytes[2] <=> i \in 0..(FileSize - 1) /\ i >= FileSize - w.last
      BY <3>1, <2>1, <2>2, <1>1
    <3>3. FileSize - 1 \in q.bytes[1]..q.bytes[2]
      BY <3>1, <2>1, <2>2, <1>1
    <3> QED BY <2>3, <3>2, <3>3, <1>1, <1>3 DEF Met
  <2> QED BY <1>1, <2>1, <2>2, <2>3
<1>4. CASE w.first # None
  <2> DEFINE end == IF w.last = None THEN FileSize - 1 ELSE Lesser(w.last, FileSize - 1)
  <2>1. /\ w.first \in Nat /\ w.first < FileSize /\ w.first <= end
        /\ parse_single_range(w) = <<w.first, end>>
    BY <1>1, <1>2, <1>4 DEF parse_single_range, Lesser
  <2>2. end \in Int /\ end <= FileSize - 1 /\ (w.last # None => end <= w.last)
        /\ (w.last = None => end = FileSize - 1) /\ (w.last # None => end \in {w.last, FileSize - 1})
        /\ (w.last # None => w.last \in Nat)
    BY <1>1, <1>2 DEF Lesser
  <2> HIDE DEF end
  <2>3. ASSUME NEW q, q.wish = w, q.bytes = parse_single_range(w) PROVE Met(q)
    <3>1. q.bytes[1] = w.first /\ q.bytes[2] = end
      BY <2>1, <2>3
    <3>2. \A i \in Int : i \in q.bytes[1]..q.bytes[2] <=>
             i \in 0..(FileSize - 1) /\ i >= w.first /\ (w.last # None => i <= w.last)
      BY <3>1, <2>1, <2>2, <1>1
    <3>3. w.first \in q.bytes[1]..q.bytes[2]
      BY <3>1, <2>1, <2>2, <1>1
    <3> QED BY <2>3, <3>2, <3>3, <1>1, <1>4 DEF Met
  <2> QED BY <2>1, <2>2, <2>3
<1> QED BY <1>3, <1>4

\* Pruning leaves sound sessions and tickets that have not expired.
LEMMA PruneFacts ==
    ASSUME StoreSound
    PROVE  /\ DOMAIN PrunedSessions \subseteq DOMAIN mSessions
           /\ \A s \in DOMAIN PrunedSessions :
                 PrunedSessions[s] = mSessions[s] /\ ~session_expired(mSessions[s])
           /\ DOMAIN PrunedTickets \subseteq DOMAIN mTickets
           /\ \A t \in DOMAIN PrunedTickets :
                 PrunedTickets[t] = mTickets[t] /\ ~ticket_expired(mTickets[t])
           /\ SessionsSound(PrunedSessions, mIssued, born, ended)
           /\ TicketsSound(PrunedTickets, PrunedSessions, mIssued, born, ended, mGen)
<1>1. /\ DOMAIN PrunedSessions \subseteq DOMAIN mSessions
      /\ \A s \in DOMAIN PrunedSessions :
            PrunedSessions[s] = mSessions[s] /\ ~session_expired(mSessions[s])
  BY DEF PrunedSessions, Only
<1>2. /\ DOMAIN PrunedTickets \subseteq DOMAIN mTickets
      /\ \A t \in DOMAIN PrunedTickets :
            /\ PrunedTickets[t] = mTickets[t] /\ ~ticket_expired(mTickets[t])
            /\ mTickets[t].ses \in DOMAIN PrunedSessions
  BY DEF PrunedTickets, Only
<1>3. SessionsSound(PrunedSessions, mIssued, born, ended)
  BY <1>1 DEF StoreSound, SessionsSound
<1>4. TicketsSound(PrunedTickets, PrunedSessions, mIssued, born, ended, mGen)
  <2> SUFFICES ASSUME NEW t \in DOMAIN PrunedTickets
               PROVE  /\ t \in 1..mIssued /\ mTickets[t] \in Ticket /\ mTickets[t].idle <= mTickets[t].abs
                      /\ mTickets[t].abs = born[t] + MediaAbsolute
                      /\ <<"ticket", t>> \notin ended
                      /\ mTickets[t].ses \in DOMAIN PrunedSessions
                      /\ PrunedSessions[mTickets[t].ses].actor = mTickets[t].actor
                      /\ mTickets[t].gen = mGen
    BY <1>2 DEF TicketsSound
  <2>1. t \in DOMAIN mTickets /\ mTickets[t].ses \in DOMAIN PrunedSessions
    BY <1>2
  <2>2. PrunedSessions[mTickets[t].ses] = mSessions[mTickets[t].ses]
    BY <1>1, <2>1
  <2> QED BY <2>1, <2>2 DEF StoreSound, TicketsSound
<1> QED BY <1>1, <1>2, <1>3, <1>4

\* Fewer tickets are as sound.
LEMMA FewerTickets ==
    ASSUME NEW tt, NEW ss, NEW n, NEW made, NEW over, NEW gen, NEW keep,
           TicketsSound(tt, ss, n, made, over, gen), keep \subseteq DOMAIN tt
    PROVE  TicketsSound(Only(tt, keep), ss, n, made, over, gen)
BY DEF TicketsSound, Only

\* A request that takes a step changes what it is doing, and the number of
\* those that may still issue with it.
LEMMA RequestStep ==
    ASSUME MediaInv, NEW h \in Handlers, NEW d \in Doings, handler' = [handler EXCEPT ![h] = d],
           mIssued' \in Nat, mIssued' >= mIssued, mediaRoot' = mediaRoot,
           d.pc = "reply" => d.t \in 1..mIssued' /\ d.ses \in 1..mIssued',
           d.pc = "finalize" => d.ticket.root = mediaRoot,
           d.pc = "sent" => Met(d)
    PROVE  /\ handler' \in [Handlers -> Doings] /\ RequestsSound' /\ BodyIsTheWish'
           /\ Cardinality(Takers) \in Nat /\ Cardinality(Takers') \in Nat
           /\ (d.pc \in {"resolve", "issue"} <=> handler[h].pc \in {"resolve", "issue"}) =>
                 Cardinality(Takers') = Cardinality(Takers)
           /\ d.pc \notin {"resolve", "issue"} /\ handler[h].pc \in {"resolve", "issue"} =>
                 Cardinality(Takers') = Cardinality(Takers) - 1
           /\ Cardinality(Takers') <= Cardinality(Takers) + 1
<1>1. handler \in [Handlers -> Doings] /\ mIssued \in Nat
  BY DEF MediaInv, MediaTypes
<1>2. /\ handler' \in [Handlers -> Doings] /\ handler'[h] = d
      /\ \A g \in Handlers \ {h} : handler'[g] = handler[g]
  BY <1>1
<1>3. RequestsSound'
  BY <1>1, <1>2 DEF MediaInv, RequestsSound
<1>4. BodyIsTheWish'
  <2>1. BodyIsTheWish = \A g \in Handlers : handler[g].pc = "sent" => Met(handler[g])
    BY DEF BodyIsTheWish, Met
  <2>2. BodyIsTheWish' = \A g \in Handlers : handler'[g].pc = "sent" => Met(handler'[g])
    BY DEF BodyIsTheWish, Met
  <2> QED BY <1>2, <2>1, <2>2 DEF MediaInv
<1>5. IsFiniteSet(Takers) /\ IsFiniteSet(Takers')
  <2>1. Takers \subseteq Handlers /\ Takers' \subseteq Handlers /\ IsFiniteSet(Handlers)
    BY MediaAssumption DEF Takers
  <2> QED BY <2>1, FS_Subset
<1>6. Cardinality(Takers) \in Nat /\ Cardinality(Takers') \in Nat
  BY <1>5, FS_CardinalityType
<1>7. CASE d.pc \in {"resolve", "issue"} <=> handler[h].pc \in {"resolve", "issue"}
  <2>1. Takers' = Takers BY <1>2, <1>7 DEF Takers
  <2> QED BY <1>2, <1>3, <1>4, <1>6, <1>7, <2>1
<1>8. CASE d.pc \notin {"resolve", "issue"} /\ handler[h].pc \in {"resolve", "issue"}
  <2>1. Takers' = Takers \ {h} /\ h \in Takers BY <1>2, <1>8 DEF Takers
  <2>2. Cardinality(Takers \ {h}) = Cardinality(Takers) - 1
    BY <2>1, <1>5, FS_RemoveElement
  <2> QED BY <1>2, <1>3, <1>4, <1>6, <1>8, <2>1, <2>2
<1>9. CASE d.pc \in {"resolve", "issue"} /\ handler[h].pc \notin {"resolve", "issue"}
  <2>1. Takers' = Takers \cup {h} /\ h \notin Takers BY <1>2, <1>9 DEF Takers
  <2>2. Cardinality(Takers \cup {h}) = Cardinality(Takers) + 1
    BY <2>1, <1>5, FS_AddElement
  <2> QED BY <1>2, <1>3, <1>4, <1>6, <1>9, <2>1, <2>2
<1> QED BY <1>7, <1>8, <1>9
-----------------------------------------------------------------------------
(* The requests                                                            *)

\* Initially nothing was issued.
LEMMA MediaStart == MediaInit => MediaInv
<1> SUFFICES ASSUME MediaInit PROVE MediaInv
  OBVIOUS
<1> USE MediaAssumption DEF MediaInit
<1>0. handler \in [Handlers -> Doings] /\ \A h \in Handlers : handler[h].pc = "idle"
  BY DEF Doings, NoHandler
<1>1. MediaTypes
  <2>1. Takers = {} BY <1>0 DEF Takers
  <2>2. Cardinality(Takers) = 0 BY <2>1, FS_EmptySet
  <2>3. born \in [1..mIssued -> Nat] /\ mIssued = 0
    OBVIOUS
  <2>4. /\ jar \in [Browsers -> 1..mIssued \cup {None}] /\ who \in [Browsers -> Actors \cup {None}]
        /\ known \in [Browsers -> SUBSET Nat]
    OBVIOUS
  <2>5. mediaRoot \in Roots /\ disk \in [Roots -> Nat]
    OBVIOUS
  <2>6. mQuota \in [tickets : Nat, now : Nat, edits : Nat, reloads : Nat]
    OBVIOUS
  <2>7. 0 <= mQuota.tickets BY <2>6
  <2> QED BY <1>0, <2>2, <2>3, <2>4, <2>5, <2>6, <2>7 DEF MediaTypes
<1>2. StoreSound
  BY DEF StoreSound, SessionsSound, TicketsSound
<1>3. RequestsSound /\ BodyIsTheWish
  BY <1>0 DEF RequestsSound, BodyIsTheWish
<1> QED BY <1>1, <1>2, <1>3 DEF MediaInv

\* Asking for a ticket, opening its file and taking its answer leave the store
\* alone.
LEMMA IssueSteps ==
    ASSUME MediaInv, NEW h \in Handlers,
           (\E b \in Browsers, k \in IssueKinds : IssueStart(h, b, k)) \/ IssueOpen(h) \/ IssueReply(h)
    PROVE  MediaInv'
<1> USE MediaAssumption
<1>0. MediaTypes /\ StoreSound /\ RequestsSound /\ handler[h] \in Doings
  BY DEF MediaInv, MediaTypes
<1>1. /\ UNCHANGED <<mStore, mWorld, mIssued, disk, who, ended, born>>
      /\ mIssued \in Nat /\ mIssued <= mIssued
  <2>1. mIssued \in Nat /\ mIssued <= mIssued
    BY <1>0 DEF MediaTypes
  <2>2. ASSUME NEW b \in Browsers, NEW k \in IssueKinds, IssueStart(h, b, k)
        PROVE  UNCHANGED <<mStore, mWorld, mIssued, disk, who, ended, born>>
    BY <2>2 DEF IssueStart, mClient
  <2>3. CASE IssueOpen(h)
    BY <2>1, <2>3 DEF IssueOpen, mClient
  <2>4. CASE IssueReply(h)
    BY <2>1, <2>4 DEF IssueReply
  <2> QED BY <2>1, <2>2, <2>3, <2>4
<1>2. StoreSound'
  BY <1>0, <1>1 DEF StoreSound, mStore, mWorld
<1>3. ASSUME NEW b \in Browsers, NEW k \in IssueKinds, IssueStart(h, b, k) PROVE MediaInv'
  <2> DEFINE d == [pc |-> "resolve", b |-> b, actor |-> who[b], cookie |-> jar[b], kind |-> k,
                   gen |-> mGen]
  <2>1. d \in Resolving /\ d \in Doings /\ d.pc = "resolve"
    BY <1>0, <1>3 DEF IssueStart, MediaTypes, Resolving, Doings, Cookies
  <2>2. handler' = [handler EXCEPT ![h] = d] /\ mClient' = mClient
        /\ mIssued + Cardinality(Takers) < mQuota.tickets
    BY <1>3 DEF IssueStart, Takers
  <2> HIDE DEF d
  <2>3. /\ handler' \in [Handlers -> Doings] /\ RequestsSound' /\ BodyIsTheWish'
        /\ Cardinality(Takers) \in Nat /\ Cardinality(Takers') \in Nat
        /\ Cardinality(Takers') <= Cardinality(Takers) + 1
    BY <1>1, <2>1, <2>2, RequestStep DEF mWorld
  <2>4. MediaTypes'
    <3>1. mIssued + Cardinality(Takers') <= mQuota.tickets
      BY <1>0, <2>2, <2>3 DEF MediaTypes
    <3> QED BY <1>0, <1>1, <2>2, <2>3, <3>1 DEF MediaTypes, mWorld, mClient
  <2> QED BY <1>2, <2>3, <2>4 DEF MediaInv
<1>4. CASE IssueOpen(h)
  <2> DEFINE q == handler[h]
             d == [b |-> q.b, actor |-> q.actor, cookie |-> q.cookie, kind |-> q.kind,
                   gen |-> q.gen, pc |-> "issue", root |-> mediaRoot, ver |-> disk[mediaRoot]]
  <2>1. q \in Resolving /\ q.pc = "resolve"
    BY <1>0, <1>4, DoingFacts DEF IssueOpen
  <2>2. d \in Issuing /\ d \in Doings /\ d.pc = "issue"
    BY <1>0, <2>1 DEF MediaTypes, Issuing, Resolving, Doings
  <2>3. NoHandler \in Doings /\ NoHandler.pc = "idle"
    BY DEF Doings, NoHandler
  <2>4. PICK e \in Doings : /\ e.pc \in {"issue", "idle"} /\ handler' = [handler EXCEPT ![h] = e]
    BY <1>4, <2>2, <2>3 DEF IssueOpen
  <2> HIDE DEF q, d
  <2>5. /\ handler' \in [Handlers -> Doings] /\ RequestsSound' /\ BodyIsTheWish'
        /\ Cardinality(Takers) \in Nat /\ Cardinality(Takers') \in Nat
        /\ Cardinality(Takers') <= Cardinality(Takers)
    <3>1. q.pc \in {"resolve", "issue"}
      BY <2>1
    <3>2. /\ handler' \in [Handlers -> Doings] /\ RequestsSound' /\ BodyIsTheWish'
          /\ Cardinality(Takers) \in Nat /\ Cardinality(Takers') \in Nat
          /\ (e.pc \in {"resolve", "issue"} <=> q.pc \in {"resolve", "issue"}) =>
                 Cardinality(Takers') = Cardinality(Takers)
          /\ e.pc \notin {"resolve", "issue"} /\ q.pc \in {"resolve", "issue"} =>
                 Cardinality(Takers') = Cardinality(Takers) - 1
      BY <1>1, <2>4, RequestStep DEF mWorld, q
    <3> QED BY <3>1, <3>2
  <2>6. MediaTypes'
    BY <1>0, <1>1, <1>4, <2>5 DEF MediaTypes, mWorld, mClient, IssueOpen
  <2> QED BY <1>2, <2>5, <2>6 DEF MediaInv
<1>5. CASE IssueReply(h)
  <2> DEFINE q == handler[h]
  <2>1. q \in Replying /\ q.pc = "reply" /\ q.t \in 1..mIssued /\ q.ses \in 1..mIssued
    BY <1>0, <1>5, DoingFacts DEF IssueReply, RequestsSound
  <2>2. NoHandler \in Doings /\ NoHandler.pc = "idle"
    BY DEF Doings, NoHandler
  <2>3. /\ handler' = [handler EXCEPT ![h] = NoHandler]
        /\ jar' = [jar EXCEPT ![q.b] = q.ses] /\ known' = [known EXCEPT ![q.b] = @ \cup {q.t}]
    BY <1>5 DEF IssueReply
  <2>4. q.b \in Browsers /\ q.t \in Nat
    BY <2>1 DEF Replying
  <2> HIDE DEF q
  <2>5. /\ handler' \in [Handlers -> Doings] /\ RequestsSound' /\ BodyIsTheWish'
        /\ Cardinality(Takers) \in Nat /\ Cardinality(Takers') = Cardinality(Takers)
    BY <1>1, <2>1, <2>2, <2>3, RequestStep DEF mWorld, q
  <2>6. /\ jar' \in [Browsers -> 1..mIssued \cup {None}] /\ known' \in [Browsers -> SUBSET Nat]
    BY <1>0, <2>1, <2>3, <2>4 DEF MediaTypes
  <2>7. MediaTypes'
    BY <1>0, <1>1, <2>5, <2>6 DEF MediaTypes, mWorld
  <2> QED BY <1>2, <2>5, <2>7 DEF MediaInv
<1> QED BY <1>3, <1>4, <1>5

\* A ticket that is issued is bound to the session it found or made, both in
\* this generation and fresh.
LEMMA IssueBoundFacts ==
    ASSUME MediaInv, NEW h \in Handlers, handler[h].pc = "issue", handler[h].gen = mGen,
           issue_bound(h), mGen' = mGen, ended' = ended
    PROVE  /\ StoreSound' /\ mIssued' = mIssued + 1 /\ born' \in [1..mIssued + 1 -> Nat]
           /\ \E d \in Replying : /\ handler' = [handler EXCEPT ![h] = d]
                                  /\ d.t \in 1..mIssued + 1 /\ d.ses \in 1..mIssued + 1
<1> USE MediaAssumption
<1> DEFINE q == handler[h]
           t == mIssued + 1
           PS == PrunedSessions
           PT == PrunedTickets
           reusable == q.cookie \in DOMAIN PS /\ PS[q.cookie].actor = q.actor
           ses == IF reusable THEN q.cookie ELSE t
           held == IF reusable
                   THEN [PS[ses] EXCEPT !.idle = Lesser(mNow + SessionIdle, PS[ses].abs)]
                   ELSE [actor |-> q.actor, idle |-> mNow + SessionIdle, abs |-> mNow + MediaAbsolute]
           tick == [kind |-> q.kind, root |-> q.root, ver |-> q.ver, ses |-> ses,
                    actor |-> q.actor, idle |-> mNow + TicketIdle,
                    abs |-> mNow + MediaAbsolute, gen |-> q.gen]
<1>1. /\ mSessions' = MapPut(PS, ses, held) /\ mTickets' = MapPut(PT, t, tick)
      /\ mIssued' = t /\ born' = MapPut(born, t, mNow)
      /\ handler' = [handler EXCEPT ![h] = [pc |-> "reply", b |-> q.b, t |-> t, ses |-> ses]]
  BY DEF issue_bound
<1>2. /\ q \in Issuing /\ mIssued \in Nat /\ mNow \in Nat /\ mGen \in Nat
      /\ born \in [1..mIssued -> Nat] /\ q.gen = mGen
  <2>1. handler[h] \in Doings BY DEF MediaInv, MediaTypes
  <2> QED BY <2>1, DoingFacts DEF MediaInv, MediaTypes
<1>3. /\ SessionsSound(PS, mIssued, born, ended) /\ TicketsSound(PT, PS, mIssued, born, ended, mGen)
      /\ ended \subseteq {"session", "ticket"} \X (1..mIssued)
  BY PruneFacts DEF MediaInv, StoreSound
<1>4. /\ born' \in [1..t -> Nat] /\ born'[t] = mNow
      /\ \A n \in 1..mIssued : n \in 1..t /\ n # t /\ born'[n] = born[n]
  BY <1>1, <1>2 DEF MapPut
<1>5. <<"session", t>> \notin ended /\ <<"ticket", t>> \notin ended
  BY <1>2, <1>3
<1>6. /\ q.b \in Browsers /\ q.actor \in Actors /\ q.kind \in Kinds /\ q.root \in Roots /\ q.ver \in Nat
  BY <1>2 DEF Issuing, Kinds
<1>7. /\ ses \in 1..t /\ ses \in Nat
      /\ held \in Session /\ held.idle <= held.abs /\ held.abs = born'[ses] + MediaAbsolute
      /\ held.actor = q.actor /\ <<"session", ses>> \notin ended
      /\ ses \in DOMAIN PS => PS[ses].actor = held.actor
  <2>1. CASE reusable
    <3>1. /\ ses = q.cookie /\ ses \in 1..mIssued /\ PS[ses] \in Session
          /\ PS[ses].abs = born[ses] + MediaAbsolute /\ <<"session", ses>> \notin ended
          /\ PS[ses].actor = q.actor
      BY <2>1, <1>3 DEF SessionsSound
    <3>2. held = [PS[ses] EXCEPT !.idle = Lesser(mNow + SessionIdle, PS[ses].abs)]
      BY <2>1
    <3> HIDE DEF held, ses, q, PS, PT
    <3>3. Lesser(mNow + SessionIdle, PS[ses].abs) \in Int
          /\ Lesser(mNow + SessionIdle, PS[ses].abs) <= PS[ses].abs
      <4>1. mNow + SessionIdle \in Int /\ PS[ses].abs \in Int
        BY <3>1, <1>2 DEF Session
      <4> QED BY <4>1 DEF Lesser
    <3>4. /\ held \in Session /\ held.idle <= held.abs /\ held.abs = PS[ses].abs
          /\ held.actor = PS[ses].actor
      BY <3>1, <3>2, <3>3 DEF Session
    <3> QED BY <3>1, <3>4, <1>2, <1>4
  <2>2. CASE ~reusable
    <3>1. ses = t /\ held = [actor |-> q.actor, idle |-> mNow + SessionIdle, abs |-> mNow + MediaAbsolute]
      BY <2>2
    <3> HIDE DEF held, ses, q, PS, PT
    <3>2. t \notin DOMAIN PS
      <4>1. \A s \in DOMAIN PS : s \in 1..mIssued
        BY <1>3 DEF SessionsSound
      <4> QED BY <4>1, <1>2
    <3> QED BY <3>1, <3>2, <1>2, <1>4, <1>5, <1>6 DEF Session
  <2> QED BY <2>1, <2>2
<1>8. tick \in Ticket /\ tick.idle <= tick.abs /\ tick.abs = born'[t] + MediaAbsolute
      /\ tick.ses = ses /\ tick.actor = q.actor /\ tick.gen = mGen
  <2> HIDE DEF q, ses
  <2> QED BY <1>2, <1>4, <1>6, <1>7 DEF Ticket
<1> HIDE DEF q, ses, held, tick, PS, PT
<1>9. SessionsSound(mSessions', t, born', ended)
  BY <1>1, <1>2, <1>3, <1>4, <1>7 DEF SessionsSound, MapPut
<1>10. /\ DOMAIN mSessions' = DOMAIN PS \cup {ses} /\ mSessions'[ses] = held
       /\ \A s \in DOMAIN PS : s # ses => mSessions'[s] = PS[s]
  BY <1>1 DEF MapPut
<1>11. TicketsSound(mTickets', mSessions', t, born', ended, mGen)
  <2> SUFFICES ASSUME NEW x \in DOMAIN mTickets'
               PROVE  /\ x \in 1..t /\ mTickets'[x] \in Ticket /\ mTickets'[x].idle <= mTickets'[x].abs
                      /\ mTickets'[x].abs = born'[x] + MediaAbsolute
                      /\ <<"ticket", x>> \notin ended
                      /\ mTickets'[x].ses \in DOMAIN mSessions'
                      /\ mSessions'[mTickets'[x].ses].actor = mTickets'[x].actor
                      /\ mTickets'[x].gen = mGen
    BY DEF TicketsSound
  <2>1. CASE x = t
    <3>1. mTickets'[x] = tick BY <2>1, <1>1 DEF MapPut
    <3> QED BY <3>1, <2>1, <1>2, <1>5, <1>7, <1>8, <1>10
  <2>2. CASE x # t
    <3>1. x \in DOMAIN PT /\ mTickets'[x] = PT[x] BY <2>2, <1>1 DEF MapPut
    <3>2. /\ x \in 1..mIssued /\ PT[x] \in Ticket /\ PT[x].idle <= PT[x].abs
          /\ PT[x].abs = born[x] + MediaAbsolute
          /\ <<"ticket", x>> \notin ended
          /\ PT[x].ses \in DOMAIN PS /\ PS[PT[x].ses].actor = PT[x].actor /\ PT[x].gen = mGen
      BY <3>1, <1>3 DEF TicketsSound
    <3>3. mSessions'[PT[x].ses].actor = PT[x].actor
      BY <3>2, <1>7, <1>10
    <3> QED BY <3>1, <3>2, <3>3, <1>4, <1>10
  <2> QED BY <2>1, <2>2
<1>12. StoreSound'
  <2>1. ended \subseteq {"session", "ticket"} \X (1..t) BY <1>2, <1>3
  <2> QED BY <2>1, <1>1, <1>9, <1>11 DEF StoreSound
<1> DEFINE d == [pc |-> "reply", b |-> q.b, t |-> t, ses |-> ses]
<1>13. d \in Replying /\ d.t = t /\ d.ses = ses /\ t \in 1..mIssued + 1
  BY <1>2, <1>6, <1>7 DEF Replying
<1>14. handler' = [handler EXCEPT ![h] = d]
  BY <1>1
<1> HIDE DEF d
<1> QED BY <1>1, <1>4, <1>7, <1>12, <1>13, <1>14

\* The generation is compared again before a ticket is issued.
LEMMA IssueTicketStep ==
    ASSUME MediaInv, NEW h \in Handlers, IssueTicket(h)
    PROVE  MediaInv'
<1> USE MediaAssumption
<1>0. MediaTypes /\ StoreSound /\ RequestsSound /\ handler[h] \in Doings /\ handler[h].pc = "issue"
  BY DEF MediaInv, MediaTypes, IssueTicket
<1>1. UNCHANGED <<mGen, mNow, mediaRoot, mQuota, jar, who, known, disk, ended>>
  BY DEF IssueTicket, mWorld, mClient
<1>2. CASE handler[h].gen = mGen
  <2>1. issue_bound(h) BY <1>2 DEF IssueTicket
  <2>2. StoreSound' /\ mIssued' = mIssued + 1 /\ born' \in [1..mIssued + 1 -> Nat]
    BY <2>1, <1>0, <1>1, <1>2, IssueBoundFacts
  <2>3. PICK d \in Replying : /\ handler' = [handler EXCEPT ![h] = d]
                              /\ d.t \in 1..mIssued + 1 /\ d.ses \in 1..mIssued + 1
    BY <2>1, <1>0, <1>1, <1>2, IssueBoundFacts
  <2>4. d \in Doings /\ d.pc = "reply" /\ mIssued \in Nat
    BY <1>0 DEF Doings, Replying, MediaTypes
  <2>5. /\ handler' \in [Handlers -> Doings] /\ RequestsSound' /\ BodyIsTheWish'
        /\ Cardinality(Takers) \in Nat /\ Cardinality(Takers') \in Nat
        /\ Cardinality(Takers') = Cardinality(Takers) - 1
    <3>1. mIssued' \in Nat /\ mIssued' >= mIssued BY <2>2, <2>4
    <3>2. d.t \in 1..mIssued' /\ d.ses \in 1..mIssued' BY <2>2, <2>3
    <3> QED BY <1>0, <1>1, <2>3, <2>4, <3>1, <3>2, RequestStep
  <2>6. mIssued' + Cardinality(Takers') <= mQuota.tickets
    BY <1>0, <2>2, <2>4, <2>5 DEF MediaTypes
  <2>7. jar \in [Browsers -> 1..mIssued' \cup {None}]
    <3>1. 1..mIssued \subseteq 1..mIssued' BY <2>2, <2>4
    <3> QED BY <3>1, <1>0 DEF MediaTypes
  <2>8. MediaTypes'
    <3>1. born' \in [1..mIssued' -> Nat] /\ mIssued' \in Nat
      BY <2>2, <2>4
    <3> QED BY <1>0, <1>1, <2>5, <2>6, <2>7, <3>1 DEF MediaTypes
  <2> QED BY <2>2, <2>5, <2>8 DEF MediaInv
<1>3. CASE handler[h].gen # mGen
  <2>1. /\ mSessions' = PrunedSessions /\ mTickets' = PrunedTickets
        /\ handler' = [handler EXCEPT ![h] = NoHandler] /\ UNCHANGED <<mIssued, born>>
    BY <1>3 DEF IssueTicket
  <2>2. NoHandler \in Doings /\ NoHandler.pc = "idle" /\ mIssued \in Nat
    BY <1>0 DEF Doings, NoHandler, MediaTypes
  <2>3. /\ handler' \in [Handlers -> Doings] /\ RequestsSound' /\ BodyIsTheWish'
        /\ Cardinality(Takers) \in Nat /\ Cardinality(Takers') \in Nat
        /\ Cardinality(Takers') = Cardinality(Takers) - 1
    <3>1. mIssued' \in Nat /\ mIssued' >= mIssued /\ mediaRoot' = mediaRoot
      BY <1>1, <2>1, <2>2
    <3> QED BY <1>0, <2>1, <2>2, <3>1, RequestStep
  <2>4. MediaTypes'
    <3>1. mIssued + Cardinality(Takers') <= mQuota.tickets
      BY <1>0, <2>2, <2>3 DEF MediaTypes
    <3> QED BY <1>0, <1>1, <2>1, <2>3, <3>1 DEF MediaTypes
  <2>5. StoreSound'
    BY <1>0, <1>1, <2>1, PruneFacts DEF StoreSound
  <2> QED BY <2>3, <2>4, <2>5 DEF MediaInv
<1> QED BY <1>2, <1>3

\* Touching a ticket and its session moves their idle deadlines, never past the
\* absolute ones.
LEMMA TouchFacts ==
    ASSUME StoreSound, mNow \in Nat, NEW t \in DOMAIN PrunedTickets, Touched(t),
           UNCHANGED <<mIssued, born, ended, mGen>>
    PROVE  StoreSound'
<1> USE MediaAssumption
<1> DEFINE PS == PrunedSessions
           PT == PrunedTickets
           ses == mTickets[t].ses
           s2 == [PS EXCEPT ![ses].idle = Lesser(mNow + SessionIdle, PS[ses].abs)]
           t2 == [PT EXCEPT ![t].idle = Lesser(mNow + TicketIdle, mTickets[t].abs)]
<1>1. mSessions' = s2 /\ mTickets' = t2
  BY DEF Touched
<1>2. /\ SessionsSound(PS, mIssued, born, ended) /\ TicketsSound(PT, PS, mIssued, born, ended, mGen)
      /\ PT[t] = mTickets[t]
  BY PruneFacts
<1>3. ses = PT[t].ses /\ ses \in DOMAIN PS
  BY <1>2 DEF TicketsSound
<1> HIDE DEF PS, PT, ses
<1>4. PS[ses] \in Session /\ PS[ses].idle <= PS[ses].abs /\ PT[t] \in Ticket /\ t \in DOMAIN PT
  <2>1. t \in DOMAIN PT BY DEF PT
  <2> QED BY <1>2, <1>3, <2>1 DEF SessionsSound, TicketsSound
<1>5. /\ Lesser(mNow + SessionIdle, PS[ses].abs) \in Int
      /\ Lesser(mNow + SessionIdle, PS[ses].abs) <= PS[ses].abs
      /\ Lesser(mNow + TicketIdle, mTickets[t].abs) \in Int
      /\ Lesser(mNow + TicketIdle, mTickets[t].abs) <= mTickets[t].abs
  <2>1. mNow + SessionIdle \in Int /\ mNow + TicketIdle \in Int
    OBVIOUS
  <2>2. PS[ses].abs \in Int /\ mTickets[t].abs \in Int
    BY <1>2, <1>4 DEF Session, Ticket
  <2> QED BY <2>1, <2>2 DEF Lesser
<1>6. /\ DOMAIN s2 = DOMAIN PS /\ s2[ses] \in Session /\ s2[ses].idle <= s2[ses].abs
      /\ s2[ses].abs = PS[ses].abs /\ s2[ses].actor = PS[ses].actor
      /\ \A s \in DOMAIN PS : s # ses => s2[s] = PS[s]
  BY <1>3, <1>4, <1>5 DEF Session
<1>7. /\ DOMAIN t2 = DOMAIN PT /\ t2[t] \in Ticket /\ t2[t].idle <= t2[t].abs
      /\ t2[t].abs = PT[t].abs /\ t2[t].actor = PT[t].actor /\ t2[t].ses = PT[t].ses
      /\ t2[t].gen = PT[t].gen
      /\ \A x \in DOMAIN PT : x # t => t2[x] = PT[x]
  <2> DEFINE new == [PT[t] EXCEPT !.idle = Lesser(mNow + TicketIdle, mTickets[t].abs)]
  <2>1. /\ new \in Ticket /\ new.idle <= new.abs /\ new.abs = PT[t].abs /\ new.actor = PT[t].actor
        /\ new.ses = PT[t].ses /\ new.gen = PT[t].gen
    BY <1>2, <1>4, <1>5 DEF Ticket
  <2>2. t2 = [PT EXCEPT ![t] = new]
    OBVIOUS
  <2> HIDE DEF new, t2
  <2> QED BY <2>1, <2>2, <1>4
<1> HIDE DEF s2, t2
<1>8. SessionsSound(s2, mIssued, born, ended)
  BY <1>2, <1>6 DEF SessionsSound
<1>9. TicketsSound(t2, s2, mIssued, born, ended, mGen)
  <2> SUFFICES ASSUME NEW x \in DOMAIN PT
               PROVE  /\ x \in 1..mIssued /\ t2[x] \in Ticket /\ t2[x].idle <= t2[x].abs
                      /\ t2[x].abs = born[x] + MediaAbsolute
                      /\ <<"ticket", x>> \notin ended
                      /\ t2[x].ses \in DOMAIN s2 /\ s2[t2[x].ses].actor = t2[x].actor
                      /\ t2[x].gen = mGen
    BY <1>7 DEF TicketsSound
  <2>1. /\ x \in 1..mIssued /\ PT[x] \in Ticket /\ PT[x].idle <= PT[x].abs
        /\ PT[x].abs = born[x] + MediaAbsolute /\ <<"ticket", x>> \notin ended
        /\ PT[x].ses \in DOMAIN PS /\ PS[PT[x].ses].actor = PT[x].actor /\ PT[x].gen = mGen
    BY <1>2 DEF TicketsSound
  <2>2. s2[PT[x].ses].actor = PT[x].actor
    BY <2>1, <1>6
  <2> QED BY <2>1, <2>2, <1>6, <1>7
<1> QED BY <1>1, <1>8, <1>9 DEF StoreSound

\* A request that streams takes a step that leaves what was issued alone.
LEMMA StreamStep ==
    ASSUME MediaInv, NEW h \in Handlers, NEW d \in Doings, handler' = [handler EXCEPT ![h] = d],
           UNCHANGED <<mClient, mWorld, mIssued, disk, ended, born>>,
           handler[h].pc \notin {"resolve", "issue"}, d.pc \in {"idle", "open", "finalize", "sent"},
           d.pc = "finalize" => d.ticket.root = mediaRoot,
           d.pc = "sent" => Met(d),
           StoreSound'
    PROVE  MediaInv'
<1>1. MediaTypes /\ mIssued \in Nat
  BY DEF MediaInv, MediaTypes
<1>2. /\ handler' \in [Handlers -> Doings] /\ RequestsSound' /\ BodyIsTheWish'
      /\ Cardinality(Takers) \in Nat /\ Cardinality(Takers') = Cardinality(Takers)
  <2>1. /\ mIssued' \in Nat /\ mIssued' >= mIssued /\ mediaRoot' = mediaRoot
        /\ d.pc \notin {"resolve", "issue", "reply"}
    BY <1>1 DEF mWorld
  <2> QED BY <2>1, RequestStep
<1>3. MediaTypes'
  BY <1>1, <1>2 DEF MediaTypes, mWorld, mClient
<1> QED BY <1>2, <1>3 DEF MediaInv

\* The steps of a streaming request: it is authorized, opens its file, answers
\* a range that cannot be met, or is granted the bytes.
LEMMA StreamSteps ==
    ASSUME MediaInv, NEW h \in Handlers,
           \/ \E b \in Browsers, t \in 1..mQuota.tickets, k \in MediaKinds, o \in BOOLEAN :
                 StreamStart(h, b, t, k, o)
           \/ StreamOpen(h) \/ StreamSent(h)
           \/ \E w \in RangeWishes : StreamUnsatisfiable(h, w) \/ StreamFinalize(h, w)
    PROVE  MediaInv'
<1> USE MediaAssumption
<1>0. MediaTypes /\ StoreSound /\ RequestsSound /\ handler[h] \in Doings
  BY DEF MediaInv, MediaTypes
<1>1. NoHandler \in Doings /\ NoHandler.pc = "idle"
  BY DEF Doings, NoHandler
<1>2. ASSUME UNCHANGED <<mClient, mWorld, mIssued, disk, ended, born>>,
             mSessions' = PrunedSessions, mTickets' = PrunedTickets
      PROVE  StoreSound'
  BY <1>0, <1>2, PruneFacts DEF StoreSound, mWorld
<1>3. ASSUME NEW b \in Browsers, NEW t \in 1..mQuota.tickets, NEW k \in MediaKinds,
             NEW o \in BOOLEAN, StreamStart(h, b, t, k, o)
      PROVE  MediaInv'
  <2> DEFINE mode == authorize(t, k, jar[b], o)
             d == [pc |-> "open", t |-> t, kind |-> k, mode |-> mode, cookie |-> jar[b],
                   ticket |-> mTickets[t]]
  <2>1. /\ mode # None => mode \in {"cookie", "ticket"} /\ t \in DOMAIN PrunedTickets
    BY DEF authorize
  <2>2. /\ handler[h] = NoHandler /\ UNCHANGED <<mClient, mWorld, mIssued, disk, ended, born>>
        /\ mSessions' = PrunedSessions /\ mTickets' = PrunedTickets
        /\ handler' = [handler EXCEPT ![h] = IF mode = None THEN NoHandler ELSE d]
    BY <1>3 DEF StreamStart
  <2>3. mode # None => d \in Opening /\ d \in Doings /\ d.pc = "open"
    <3> HAVE mode # None
    <3>1. t \in DOMAIN mTickets BY <2>1, <1>0, PruneFacts
    <3>2. mTickets[t] \in Ticket /\ t \in Nat
      <4>1. mTickets[t] \in Ticket /\ t \in 1..mIssued /\ mIssued \in Nat
        BY <3>1, <1>0 DEF StoreSound, TicketsSound, MediaTypes
      <4> QED BY <4>1
    <3>3. jar[b] \in Cookies
      BY <1>0 DEF MediaTypes, Cookies
    <3> HIDE DEF mode
    <3> QED BY <2>1, <3>2, <3>3 DEF Opening, Doings
  <2> HIDE DEF d, mode
  <2>4. PICK e \in Doings : e.pc \in {"idle", "open"} /\ handler' = [handler EXCEPT ![h] = e]
    BY <1>1, <2>2, <2>3
  <2> QED BY <1>1, <1>2, <2>2, <2>4, StreamStep
<1>4. CASE StreamOpen(h)
  <2> DEFINE q == handler[h]
             same == q.ticket.root = mediaRoot /\ q.ticket.ver = disk[mediaRoot]
             keep == {t \in DOMAIN mTickets : ~(t = q.t /\ mTickets[t].kind = q.kind)}
  <2>1. /\ q \in Opening /\ q.pc = "open" /\ mSessions' = mSessions
        /\ UNCHANGED <<mClient, mWorld, mIssued, disk, ended, born>>
        /\ \/ /\ same /\ handler' = [handler EXCEPT ![h].pc = "finalize"] /\ mTickets' = mTickets
           \/ /\ handler' = [handler EXCEPT ![h] = NoHandler] /\ mTickets' = Only(mTickets, keep)
    BY <1>0, <1>4, DoingFacts DEF StreamOpen
  <2>2. CASE same /\ handler' = [handler EXCEPT ![h].pc = "finalize"] /\ mTickets' = mTickets
    <3>1. StoreSound' BY <1>0, <2>1, <2>2 DEF StoreSound, mWorld
    <3> DEFINE d == [q EXCEPT !.pc = "finalize"]
    <3>2. handler' = [handler EXCEPT ![h] = d] BY <2>2
    <3>3. d \in Opening /\ d.pc = "finalize" /\ d.ticket = q.ticket BY <2>1 DEF Opening
    <3>4. d \in Doings BY <3>3 DEF Doings
    <3> HIDE DEF d
    <3> QED BY <2>1, <2>2, <3>1, <3>2, <3>3, <3>4, StreamStep
  <2>3. CASE handler' = [handler EXCEPT ![h] = NoHandler] /\ mTickets' = Only(mTickets, keep)
    <3>1. keep \subseteq DOMAIN mTickets OBVIOUS
    <3> HIDE DEF keep
    <3>2. TicketsSound(Only(mTickets, keep), mSessions, mIssued, born, ended, mGen)
      BY <1>0, <3>1, FewerTickets DEF StoreSound
    <3>3. StoreSound' BY <1>0, <2>1, <2>3, <3>2 DEF StoreSound, mWorld
    <3> QED BY <1>1, <2>1, <2>3, <3>3, StreamStep
  <2> QED BY <2>1, <2>2, <2>3
<1>5. CASE StreamSent(h)
  <2>1. StoreSound' BY <1>0, <1>5 DEF StreamSent, StoreSound, mStore, mWorld
  <2> QED BY <1>1, <1>5, <2>1, StreamStep DEF StreamSent
<1>6. ASSUME NEW w \in RangeWishes, StreamUnsatisfiable(h, w) PROVE MediaInv'
  <2>1. StoreSound' BY <1>0, <1>6 DEF StreamUnsatisfiable, StoreSound, mStore, mWorld
  <2> QED BY <1>1, <1>6, <2>1, StreamStep DEF StreamUnsatisfiable
<1>7. ASSUME NEW w \in RangeWishes, StreamFinalize(h, w) PROVE MediaInv'
  <2> DEFINE q == handler[h]
             d == [pc |-> "sent", t |-> q.t, ses |-> q.ticket.ses, root |-> q.ticket.root,
                   wish |-> w, bytes |-> parse_single_range(w)]
  <2>1. /\ q \in Opening /\ q.pc = "finalize" /\ parse_single_range(w) # None
        /\ UNCHANGED <<mClient, mWorld, mIssued, disk, ended, born>>
    BY <1>0, <1>7, DoingFacts DEF StreamFinalize
  <2>2. CASE finalize_holds(q)
    <3>1. Touched(q.t) /\ handler' = [handler EXCEPT ![h] = d]
      BY <1>7, <2>2 DEF StreamFinalize
    <3>2. q.t \in DOMAIN PrunedTickets /\ mTickets[q.t].ses = q.ticket.ses
      BY <2>2 DEF finalize_holds
    <3>3. d \in Sending /\ d \in Doings /\ d.pc = "sent" /\ Met(d)
      <4>1. q.t \in Nat /\ q.ticket \in Ticket BY <2>1 DEF Opening
      <4>2. q.ticket.ses \in Nat /\ q.ticket.root \in Roots BY <4>1 DEF Ticket
      <4>3. /\ parse_single_range(w) \in Int \X Int
            /\ d.wish = w /\ d.bytes = parse_single_range(w) => Met(d)
        BY <2>1, RangeFacts
      <4> HIDE DEF q
      <4> QED BY <4>1, <4>2, <4>3 DEF Sending, Doings
    <3>4. StoreSound'
      <4>1. mNow \in Nat /\ UNCHANGED <<mIssued, born, ended, mGen>>
        BY <1>0, <2>1 DEF MediaTypes, mWorld
      <4> HIDE DEF q
      <4> QED BY <1>0, <3>1, <3>2, <4>1, TouchFacts
    <3> HIDE DEF d
    <3> QED BY <2>1, <3>1, <3>3, <3>4, StreamStep
  <2>3. CASE ~finalize_holds(q)
    <3>1. /\ mSessions' = PrunedSessions /\ mTickets' = PrunedTickets
          /\ handler' = [handler EXCEPT ![h] = NoHandler]
      BY <1>7, <2>3 DEF StreamFinalize
    <3> QED BY <1>1, <1>2, <2>1, <3>1, StreamStep
  <2> QED BY <2>2, <2>3
<1> QED BY <1>3, <1>4, <1>5, <1>6, <1>7
-----------------------------------------------------------------------------
(* Revocation, and the world around                                        *)

\* A step that leaves the requests and what was issued alone.
LEMMA QuietStep ==
    ASSUME MediaInv, UNCHANGED <<handler, mIssued, born>>, StoreSound',
           mQuota' = mQuota, mNow' \in Nat, mGen' \in Nat, mediaRoot' \in Roots,
           disk' \in [Roots -> Nat], known' = known,
           jar' \in [Browsers -> 1..mIssued \cup {None}], who' \in [Browsers -> Actors \cup {None}],
           mediaRoot' = mediaRoot \/ \A h \in Handlers : handler[h].pc # "finalize"
    PROVE  MediaInv'
<1>1. MediaTypes'
  BY DEF MediaInv, MediaTypes, Takers
<1>2. RequestsSound'
  BY DEF MediaInv, RequestsSound
<1>3. BodyIsTheWish'
  BY DEF MediaInv, BodyIsTheWish
<1> QED BY <1>1, <1>2, <1>3 DEF MediaInv

\* What a logout revokes is the session its cookie names, with its tickets.
LEMMA RevokeSessionFacts ==
    ASSUME MediaInv, NEW b \in Browsers, revoke_session_for_actor(b), UNCHANGED <<mIssued, born, mGen>>
    PROVE  StoreSound'
<1> DEFINE ses == jar[b]
           mine == ses \in DOMAIN mSessions /\ mSessions[ses].actor = who[b]
           bound == {t \in DOMAIN mTickets : mTickets[t].ses = ses}
<1>0. StoreSound BY DEF MediaInv
<1>1. CASE mine
  <2>1. /\ mSessions' = Only(mSessions, DOMAIN mSessions \ {ses})
        /\ mTickets' = Only(mTickets, DOMAIN mTickets \ bound)
        /\ ended' = ended \cup {<<"session", ses>>}
    BY <1>1 DEF revoke_session_for_actor
  <2>2. ses \in 1..mIssued
    BY <1>0, <1>1 DEF StoreSound, SessionsSound
  <2>3. /\ DOMAIN mSessions' = DOMAIN mSessions \ {ses}
        /\ \A s \in DOMAIN mSessions' : mSessions'[s] = mSessions[s]
        /\ DOMAIN mTickets' \subseteq DOMAIN mTickets
        /\ \A t \in DOMAIN mTickets' : mTickets'[t] = mTickets[t] /\ mTickets[t].ses # ses
    BY <2>1 DEF Only
  <2> HIDE DEF ses
  <2>4. SessionsSound(mSessions', mIssued, born, ended')
    BY <1>0, <2>1, <2>3 DEF StoreSound, SessionsSound
  <2>5. TicketsSound(mTickets', mSessions', mIssued, born, ended', mGen)
    <3> SUFFICES ASSUME NEW t \in DOMAIN mTickets'
                 PROVE  /\ t \in 1..mIssued /\ mTickets[t] \in Ticket /\ mTickets[t].idle <= mTickets[t].abs
                        /\ mTickets[t].abs = born[t] + MediaAbsolute
                        /\ <<"ticket", t>> \notin ended'
                        /\ mTickets[t].ses \in DOMAIN mSessions'
                        /\ mSessions'[mTickets[t].ses].actor = mTickets[t].actor
                        /\ mTickets[t].gen = mGen
      BY <2>3 DEF TicketsSound
    <3>1. t \in DOMAIN mTickets /\ mTickets[t].ses # ses BY <2>3
    <3>2. <<"ticket", t>> \notin ended' BY <1>0, <2>1, <3>1 DEF StoreSound, TicketsSound
    <3> QED BY <1>0, <2>3, <3>1, <3>2 DEF StoreSound, TicketsSound
  <2>6. ended' \subseteq {"session", "ticket"} \X (1..mIssued)
    BY <1>0, <2>1, <2>2 DEF StoreSound
  <2> QED BY <2>4, <2>5, <2>6 DEF StoreSound
<1>2. CASE ~mine
  <2>1. UNCHANGED <<mSessions, mTickets, ended>>
    BY <1>2 DEF revoke_session_for_actor
  <2> QED BY <1>0, <2>1 DEF StoreSound
<1> QED BY <1>1, <1>2

\* Revoking one ticket, logging in and out, revoking the session of now.
LEMMA RevokeSteps ==
    ASSUME MediaInv, NEW b \in Browsers,
           \/ \E t \in 1..mQuota.tickets, k \in MediaKinds : RevokeTicket(b, t, k)
           \/ Logout(b) \/ revoke_current_session(b) \/ \E a \in Actors : Login(b, a)
    PROVE  MediaInv'
<1>0. MediaTypes /\ StoreSound
  BY DEF MediaInv
<1>1. ASSUME NEW t \in 1..mQuota.tickets, NEW k \in MediaKinds, RevokeTicket(b, t, k)
      PROVE  MediaInv'
  <2> DEFINE mine == /\ t \in DOMAIN PrunedTickets
                     /\ mTickets[t].kind = k /\ mTickets[t].actor = who[b]
                     /\ session_matches(mTickets[t], jar[b])
             keep == DOMAIN PrunedTickets \ {t}
  <2>1. /\ mTickets' = IF mine THEN Only(PrunedTickets, keep) ELSE PrunedTickets
        /\ ended' = IF mine THEN ended \cup {<<"ticket", t>>} ELSE ended
        /\ mSessions' = PrunedSessions
        /\ UNCHANGED <<mClient, mWorld, mIssued, disk, handler, born>>
    BY <1>1 DEF RevokeTicket
  <2>2. mine => t \in DOMAIN PrunedTickets
    OBVIOUS
  <2> HIDE DEF mine
  <2>3. /\ SessionsSound(PrunedSessions, mIssued, born, ended)
        /\ TicketsSound(PrunedTickets, PrunedSessions, mIssued, born, ended, mGen)
    BY <1>0, PruneFacts
  <2>4. CASE mine
    <3>1. t \in 1..mIssued
      BY <2>2, <2>3, <2>4 DEF TicketsSound
    <3>2. keep \subseteq DOMAIN PrunedTickets /\ t \notin keep
      OBVIOUS
    <3> HIDE DEF keep
    <3>3. /\ TicketsSound(mTickets', PrunedSessions, mIssued, born, ended, mGen)
          /\ DOMAIN mTickets' = keep
      BY <2>1, <2>3, <2>4, <3>2, FewerTickets DEF Only
    <3>4. TicketsSound(mTickets', PrunedSessions, mIssued, born, ended', mGen)
      BY <2>1, <2>4, <3>2, <3>3 DEF TicketsSound
    <3>5. SessionsSound(PrunedSessions, mIssued, born, ended')
      BY <2>1, <2>3, <2>4 DEF SessionsSound
    <3>6. ended' \subseteq {"session", "ticket"} \X (1..mIssued)
      BY <1>0, <2>1, <2>4, <3>1 DEF StoreSound
    <3>7. StoreSound'
      BY <2>1, <3>4, <3>5, <3>6 DEF StoreSound, mWorld
    <3> QED BY <1>0, <2>1, <3>7, QuietStep DEF mClient, mWorld, MediaTypes
  <2>5. CASE ~mine
    <3>1. StoreSound'
      BY <1>0, <2>1, <2>3, <2>5 DEF StoreSound, mWorld
    <3> QED BY <1>0, <2>1, <3>1, QuietStep DEF mClient, mWorld, MediaTypes
  <2> QED BY <2>4, <2>5
<1>2. CASE Logout(b)
  <2>1. StoreSound' BY <1>2, RevokeSessionFacts DEF Logout, mWorld
  <2> QED BY <1>0, <1>2, <2>1, QuietStep DEF Logout, mWorld, MediaTypes
<1>3. CASE revoke_current_session(b)
  <2>1. StoreSound' BY <1>3, RevokeSessionFacts DEF revoke_current_session, mWorld
  <2> QED BY <1>0, <1>3, <2>1, QuietStep DEF revoke_current_session, mWorld, MediaTypes
<1>4. ASSUME NEW a \in Actors, Login(b, a) PROVE MediaInv'
  <2>1. StoreSound' BY <1>0, <1>4 DEF Login, mStore, mWorld, StoreSound
  <2> QED BY <1>0, <1>4, <2>1, QuietStep DEF Login, mWorld, MediaTypes
<1> QED BY <1>1, <1>2, <1>3, <1>4

\* A switch of the workspace waits for the requests that hold the guard and
\* revokes everything; an edit and the clock change nothing that is stored.
LEMMA WorldSteps ==
    ASSUME MediaInv,
           \/ \E r \in Roots : SwitchWorkspace(r)
           \/ \E r \in Roots, v \in 0..mQuota.edits + 1 : EditFile(r, v)
           \/ MediaTick
    PROVE  MediaInv'
<1>0. MediaTypes /\ StoreSound
  BY DEF MediaInv
<1>1. ASSUME NEW r \in Roots, SwitchWorkspace(r) PROVE MediaInv'
  <2>1. /\ mTickets' = <<>> /\ mSessions' = <<>> /\ mGen' = mGen + 1
        /\ ended' = ended \cup {<<"session", s>> : s \in DOMAIN mSessions}
        /\ mediaRoot' = r /\ \A h \in Handlers : handler[h].pc # "finalize"
        /\ UNCHANGED <<mNow, mIssued, disk, mClient, handler, born, mQuota>>
    BY <1>1 DEF SwitchWorkspace, revoke_all, Holding
  <2>2. ended' \subseteq {"session", "ticket"} \X (1..mIssued)
    BY <1>0, <2>1 DEF StoreSound, SessionsSound
  <2>3. StoreSound'
    BY <2>1, <2>2 DEF StoreSound, SessionsSound, TicketsSound
  <2> QED BY <1>0, <2>1, <2>3, QuietStep DEF mClient, MediaTypes
<1>2. ASSUME NEW r \in Roots, NEW v \in 0..mQuota.edits + 1, EditFile(r, v) PROVE MediaInv'
  <2>1. StoreSound' BY <1>0, <1>2 DEF EditFile, StoreSound, mStore, mWorld
  <2>2. disk' \in [Roots -> Nat]
    BY <1>0, <1>2 DEF EditFile, MediaTypes
  <2> QED BY <1>0, <1>2, <2>1, <2>2, QuietStep DEF EditFile, mClient, mWorld, MediaTypes
<1>3. CASE MediaTick
  <2>1. StoreSound' BY <1>0, <1>3 DEF MediaTick, StoreSound, mStore
  <2> QED BY <1>0, <1>3, <2>1, QuietStep DEF MediaTick, mClient, MediaTypes
<1> QED BY <1>1, <1>2, <1>3

\* Every step keeps the invariant.
LEMMA MediaSteps == MediaInv /\ [MediaNext]_mediaVars => MediaInv'
<1> SUFFICES ASSUME MediaInv, [MediaNext]_mediaVars PROVE MediaInv'
  OBVIOUS
<1>1. ASSUME NEW h \in Handlers,
             (\E b \in Browsers, k \in IssueKinds : IssueStart(h, b, k)) \/ IssueOpen(h) \/ IssueReply(h)
      PROVE  MediaInv'
  BY <1>1, IssueSteps
<1>2. ASSUME NEW h \in Handlers, IssueTicket(h) PROVE MediaInv'
  BY <1>2, IssueTicketStep
<1>3. ASSUME NEW h \in Handlers,
             \/ \E b \in Browsers, t \in 1..mQuota.tickets, k \in MediaKinds, o \in BOOLEAN :
                   StreamStart(h, b, t, k, o)
             \/ StreamOpen(h) \/ StreamSent(h)
             \/ \E w \in RangeWishes : StreamUnsatisfiable(h, w) \/ StreamFinalize(h, w)
      PROVE  MediaInv'
  BY <1>3, StreamSteps
<1>4. ASSUME NEW b \in Browsers,
             \/ \E t \in 1..mQuota.tickets, k \in MediaKinds : RevokeTicket(b, t, k)
             \/ Logout(b) \/ revoke_current_session(b) \/ \E a \in Actors : Login(b, a)
      PROVE  MediaInv'
  BY <1>4, RevokeSteps
<1>5. CASE \/ \E r \in Roots : SwitchWorkspace(r)
           \/ \E r \in Roots, v \in 0..mQuota.edits + 1 : EditFile(r, v)
           \/ MediaTick
  BY <1>5, WorldSteps
<1>6. CASE UNCHANGED mediaVars
  <2>1. StoreSound' BY <1>6 DEF mediaVars, MediaInv, StoreSound
  <2> QED BY <1>6, <2>1, QuietStep DEF mediaVars, MediaInv, MediaTypes
<1> QED BY <1>1, <1>2, <1>3, <1>4, <1>5, <1>6 DEF MediaNext

\* The invariant says what MediaIsBound promises.
LEMMA MediaFollows == MediaInv => MediaIsBound
<1> SUFFICES ASSUME MediaInv PROVE MediaIsBound
  OBVIOUS
<1>1. Cardinality(Takers) \in Nat
  <2>1. Takers \subseteq Handlers /\ IsFiniteSet(Handlers)
    BY MediaAssumption DEF Takers
  <2> QED BY <2>1, FS_Subset, FS_CardinalityType
<1>2. mIssued \in Nat /\ mQuota.tickets \in Nat /\ mIssued <= mQuota.tickets
  BY <1>1 DEF MediaInv, MediaTypes
<1>3. jar \in [Browsers -> 1..mQuota.tickets \cup {None}]
  <2>1. 1..mIssued \subseteq 1..mQuota.tickets BY <1>2
  <2> QED BY <2>1 DEF MediaInv, MediaTypes
<1>4. MediaTypeOK
  <2>1. \A s \in DOMAIN mSessions : mSessions[s] \in Session /\ mSessions[s].idle <= mSessions[s].abs
    BY DEF MediaInv, StoreSound, SessionsSound
  <2>2. \A t \in DOMAIN mTickets : mTickets[t].idle <= mTickets[t].abs
    BY DEF MediaInv, StoreSound, TicketsSound
  <2> QED BY <1>2, <1>3, <2>1, <2>2 DEF MediaTypeOK, Session
<1>5. TicketsAreBound
  BY DEF TicketsAreBound, MediaInv, StoreSound, TicketsSound
<1> QED BY <1>4, <1>5 DEF MediaIsBound, MediaInv

\* The store holds only tickets on live sessions of their actors, issued in the
\* workspace of now, within their lifetimes and the bound, and a request is
\* sent the bytes it asked for (media_ticket.rs, media_stream_response.rs).
THEOREM MediaInvariant == MediaSpec => []MediaInv
BY MediaStart, MediaSteps, PTL DEF MediaSpec

\* So every stored ticket hangs on a live session of its actor and belongs to
\* the workspace of now, and every body is the part of the file asked for.
THEOREM MediaStaysBound == MediaSpec => []MediaIsBound
BY MediaInvariant, MediaFollows, PTL

\* A body is granted by a ticket and a session that nothing revoked and that are
\* within their absolute lifetimes, in the workspace that is still configured,
\* whatever happened while respond awaited the disk.
THEOREM StreamsAreGranted == MediaSpec => ServedIsGranted
<1> DEFINE Granted(h) ==
             LET q == handler'[h] IN
             handler[h].pc = "finalize" /\ q.pc = "sent" =>
                /\ <<"ticket", q.t>> \notin ended
                /\ <<"session", q.ses>> \notin ended
                /\ mNow < born[q.t] + MediaAbsolute
                /\ mNow < born[q.ses] + MediaAbsolute
                /\ q.root = mediaRoot
<1>1. MediaInv /\ [MediaNext]_mediaVars => [\A h \in Handlers : Granted(h)]_mediaVars
  <2> SUFFICES ASSUME MediaInv, MediaNext, NEW h \in Handlers,
                      handler[h].pc = "finalize", handler'[h].pc = "sent"
               PROVE  LET q == handler'[h] IN
                      /\ <<"ticket", q.t>> \notin ended
                      /\ <<"session", q.ses>> \notin ended
                      /\ mNow < born[q.t] + MediaAbsolute
                      /\ mNow < born[q.ses] + MediaAbsolute
                      /\ q.root = mediaRoot
    OBVIOUS
  <2>1. DOMAIN handler = Handlers /\ NoHandler.pc = "idle"
    BY DEF MediaInv, MediaTypes, NoHandler
  <2>2. handler' # handler
    OBVIOUS
  <2>3. PICK w \in RangeWishes : StreamFinalize(h, w)
    BY <2>1, <2>2 DEF MediaNext, IssueStart, IssueOpen, IssueTicket, issue_bound, IssueReply,
       StreamStart, StreamOpen, StreamUnsatisfiable, StreamFinalize, StreamSent, RevokeTicket, Logout,
       revoke_current_session, Login, SwitchWorkspace, EditFile, MediaTick
  <2> DEFINE q == handler[h]
  <2>4. finalize_holds(q)
    BY <2>1, <2>3 DEF StreamFinalize
  <2>5. /\ q.t \in DOMAIN PrunedTickets /\ mTickets[q.t].ses = q.ticket.ses
        /\ q.ticket.ses \in DOMAIN PrunedSessions
    BY <2>4 DEF finalize_holds, session_matches, binding_matches_live_session
  <2>6. /\ handler'[h].t = q.t /\ handler'[h].ses = q.ticket.ses /\ handler'[h].root = q.ticket.root
    BY <2>1, <2>3, <2>4 DEF StreamFinalize
  <2>7. q.ticket.root = mediaRoot
    BY DEF MediaInv, RequestsSound
  <2> HIDE DEF q
  <2>8. /\ q.t \in DOMAIN mTickets /\ ~ticket_expired(mTickets[q.t])
        /\ q.ticket.ses \in DOMAIN mSessions /\ ~session_expired(mSessions[q.ticket.ses])
    BY <2>5, PruneFacts DEF MediaInv
  <2>9. /\ mTickets[q.t] \in Ticket /\ mTickets[q.t].abs = born[q.t] + MediaAbsolute
        /\ <<"ticket", q.t>> \notin ended
        /\ mSessions[q.ticket.ses] \in Session
        /\ mSessions[q.ticket.ses].abs = born[q.ticket.ses] + MediaAbsolute
        /\ <<"session", q.ticket.ses>> \notin ended /\ mNow \in Nat
    BY <2>8 DEF MediaInv, StoreSound, SessionsSound, TicketsSound, MediaTypes
  <2>10. mNow < mTickets[q.t].abs /\ mNow < mSessions[q.ticket.ses].abs
    BY <2>8, <2>9 DEF ticket_expired, session_expired, Ticket, Session
  <2> QED BY <2>6, <2>7, <2>9, <2>10
<1>2. MediaSpec => [][\A h \in Handlers : Granted(h)]_mediaVars
  BY <1>1, MediaInvariant, PTL DEF MediaSpec
<1> QED BY <1>2 DEF ServedIsGranted
==============================================================================
