------------------------------ MODULE SshStore ------------------------------
(* The contained store of the native app's SSH forwarding (store.rs): every  *)
(* document is replaced through a staged file, a commit marker and a backup,  *)
(* and the artifacts a crash or an I/O error leaves are resolved the next     *)
(* time the store is opened. On top of it: the v1 to v2 migration with its    *)
(* rollback copy, trust repair, orphan retention and the purge of a scope.    *)
(* All operations run under the write gate and the file lock, so one at a     *)
(* time; what interleaves with them is crashing and failing.                  *)
(*                                                                            *)
(* A file is the number of the replacement that wrote it, which is also its   *)
(* file identity and the suffix of its staged name; body[u] is what it says.  *)
EXTENDS Integers, Sequences, FiniteSets, SequencesExt

CONSTANTS Endpoints,     \* the hosts a trust document may list
          StoreMenus,    \* the operations a behaviour calls: it has one of these sets
          MaxTxn,        \* bound on replacements
          MaxStoreFault, \* bound on failing I/O calls
          MaxStoreCrash, \* bound on crashes and restarts
          RetentionDays, \* ORPHAN_RETENTION_DAYS
          LastDay        \* bound on the calendar

ASSUME StoreAssumption == MaxTxn \in Nat \ {0} /\ RetentionDays \in Nat

VARIABLES storeDisk,    \* document -> its file, staged files, backups and markers
          body,    \* replacement -> what it wrote
          scopeDir,\* whether the scope's directory exists
          tomb,    \* the renamed directory a purge deletes: none, clean or torn
          storePhase,   \* "open", "recover" or "stuck": open() answered an error
          plan,    \* what the running operation has still to replace or purge
          work,    \* the replacement in progress
          todo,    \* the documents open() has still to recover
          acked,   \* document -> the file of the last replacement that succeeded
          asked,   \* the operations this behaviour calls
          bornV1,  \* the scope's first document was version 1
          leased,  \* the activity lease of the scope is held by the manager
          day,
          faultAt, \* the replacement that failed (0: none)
          storeFaults, storeCrashes

svars == <<storeDisk, body, scopeDir, tomb, storePhase, plan, work, todo, acked, asked, bornV1,
           leased, day, faultAt, storeFaults, storeCrashes>>
bounds == <<asked, bornV1, day, faultAt, storeFaults, storeCrashes>>

ScopeDocs == <<"profiles", "trust", "meta", "rollback", "rmeta">>
RootDocs  == <<"backup", "quarantine">>
InScope(d) == d \in ToSet(ScopeDocs)
StoreDocs == ToSet(<<"identity">> \o ScopeDocs \o RootDocs)
Empty     == [base |-> 0, tmp |-> {}, bak |-> {}, com |-> {}]
Idle      == [step |-> "idle"]
Txns      == 1..MaxTxn
NoBody    == [v |-> 0]

(* What the documents say. A missing file reads as the empty document.        *)
Profiles(v, r) == [v |-> v, rev |-> r]
Trust(r, es)   == [rev |-> r, entries |-> es]
Meta(seen, o)  == [seen |-> seen, orphaned |-> o]
Never          == -1
V1             == Profiles(1, 0)
migrate_v1     == Profiles(2, 0)
Read(d)        == body[storeDisk[d].base]
Exists(d)      == storeDisk[d].base # 0
profilesNow    == IF Exists("profiles") THEN Read("profiles") ELSE Profiles(2, 0)
trustNow       == IF Exists("trust") THEN Read("trust") ELSE Trust(0, {})
metaNow        == IF Exists("meta") THEN Read("meta") ELSE Meta(day, Never)
HalfRollback   == Exists("rollback") # Exists("rmeta")

NextTxn == Cardinality({u \in Txns : body[u] # NoBody}) + 1
Ready   == storePhase = "open" /\ work = Idle /\ plan = <<>>
W(d, x) == [doc |-> d, val |-> x]

(* A scope of an older version of the app, or a new one.                      *)
StoreInit ==
  /\ \E old \in BOOLEAN :
       /\ body = [u \in Txns |-> IF old /\ u = 1 THEN V1 ELSE NoBody]
       /\ storeDisk = [d \in StoreDocs |-> IF old /\ d = "profiles" THEN [Empty EXCEPT !.base = 1] ELSE Empty]
       /\ acked = [d \in StoreDocs |-> IF old /\ d = "profiles" THEN 1 ELSE 0]
       /\ scopeDir = old /\ bornV1 = old
  /\ asked \in StoreMenus
  /\ tomb = "none" /\ storePhase = "open" /\ plan = <<>> /\ work = Idle /\ todo = {}
  /\ leased = FALSE /\ day = 0 /\ faultAt = 0 /\ storeFaults = 0 /\ storeCrashes = 0

----------------------------------------------------------------------------
(* write_file: one replacement, as the steps between which the process can    *)
(* stop. work.old is the identity of the destination it replaces.             *)

Staging == storePhase = "open" /\ work = Idle /\ plan # <<>> /\ Head(plan).doc \in StoreDocs
           /\ NextTxn <= MaxTxn
StageAs(torn) ==
  LET p == Head(plan) IN
  /\ body' = [body EXCEPT ![NextTxn] = p.val]
  /\ storeDisk' = [storeDisk EXCEPT ![p.doc].tmp = @ \cup {[u |-> NextTxn, torn |-> torn]}]

StoreStage ==
       /\ Staging /\ StageAs(FALSE)
       /\ work' = [step |-> "mark", doc |-> Head(plan).doc, u |-> NextTxn, old |-> storeDisk[Head(plan).doc].base]
       /\ UNCHANGED <<scopeDir, tomb, storePhase, plan, todo, acked, leased, bounds>>

(* One step on the document: from step s to step t.                           *)
Step(s, t, x) ==
  /\ storePhase = "open" /\ work.step = s
  /\ storeDisk' = [storeDisk EXCEPT ![work.doc] = x]
  /\ work' = [work EXCEPT !.step = t]
  /\ UNCHANGED <<body, scopeDir, tomb, storePhase, plan, todo, acked, leased, bounds>>

Here    == storeDisk[work.doc]
Marker(torn) == [u |-> work.u, old |-> work.old, torn |-> torn]
NoCopy(x)  == [x EXCEPT !.bak = {b \in @ : b.u # work.u}]
NoMarker(x)  == [x EXCEPT !.com = {c \in @ : c.u # work.u}]
NoStage(x)   == [x EXCEPT !.tmp = {t \in @ : t.u # work.u}]
Committed(x) == [NoStage(x) EXCEPT !.base = work.u]

Mark       == Step("mark", IF work.old = 0 THEN "commit" ELSE "backup",
                   [Here EXCEPT !.com = @ \cup {Marker(FALSE)}])
Backup     == Step("backup", "commit",
                   [Here EXCEPT !.base = 0, !.bak = @ \cup {[u |-> work.u, id |-> work.old]}])
StoreCommits     == Step("commit", "drop", Committed(Here))
DropBackup == Step("drop", "unmark", NoCopy(Here))

(* The replacement succeeded; the operation goes on with its next one.        *)
Finished(rest) ==
  /\ storePhase = "open" /\ work.step = "unmark"
  /\ storeDisk' = [storeDisk EXCEPT ![work.doc] = NoMarker(Here)]
  /\ work' = Idle /\ plan' = rest
  /\ acked' = [acked EXCEPT ![work.doc] = work.u]
  /\ UNCHANGED <<body, scopeDir, tomb, storePhase, todo, leased, asked, bornV1, day, storeCrashes>>
Unmark == Finished(Tail(plan)) /\ UNCHANGED <<faultAt, storeFaults>>

----------------------------------------------------------------------------
(* I/O errors: what the error path of each step leaves behind.                *)

Restored(x) == [NoCopy(x) EXCEPT !.base = work.old]

\* Mutant: a replacement that failed half way is left as it is.
rollback_replacement_Never(x) == x

rollback_replacement(x) == IF work.old = 0 THEN x ELSE Restored(x)
Broken ==
  CASE work.step = "mark"   -> {Here, NoStage(Here)}
    [] work.step = "backup" -> {Here}
    [] work.step = "commit" -> {rollback_replacement(Here), rollback_replacement(Committed(Here))}
    [] work.step = "drop"   -> {Here, NoCopy(Here)}
    [] work.step = "unmark" -> {Here, NoMarker(Here)}

StoreFault(u) == storeFaults < MaxStoreFault /\ storeFaults' = storeFaults + 1 /\ faultAt' = u

IoError ==
  /\ storePhase = "open" /\ work # Idle /\ StoreFault(work.u)
  /\ \E x \in Broken : storeDisk' = [storeDisk EXCEPT ![work.doc] = x]
  /\ work' = Idle /\ plan' = <<>>
  /\ UNCHANGED <<body, scopeDir, tomb, storePhase, todo, acked, leased, asked, bornV1, day, storeCrashes>>

(* Filling the staged file fails; the torn file stays.                        *)
StageError ==
  /\ Staging /\ StageAs(TRUE) /\ StoreFault(NextTxn) /\ plan' = <<>>
  /\ UNCHANGED <<scopeDir, tomb, storePhase, work, todo, acked, leased, asked, bornV1, day, storeCrashes>>

(* The migrated document cannot be read back: version 1 is written again, and *)
(* the operation fails.                                                       *)
restore_v1_after_migration_failure ==
  /\ work # Idle /\ Head(plan) = W("profiles", migrate_v1)
  /\ Finished(<<W("profiles", V1)>>) /\ StoreFault(work.u)

----------------------------------------------------------------------------
(* Crash and open; a document without artifacts needs no recovery.            *)

HasArtifacts(x) == x.tmp \cup x.bak \cup x.com # {}
Restart(dk) ==
  /\ storeCrashes < MaxStoreCrash /\ storeCrashes' = storeCrashes + 1
  /\ storeDisk' = dk /\ storePhase' = "recover"
  /\ todo' = {d \in StoreDocs : HasArtifacts(dk[d])}
  /\ work' = Idle /\ plan' = <<>> /\ leased' = FALSE
  /\ UNCHANGED <<body, scopeDir, tomb, acked, asked, bornV1, day, faultAt, storeFaults>>

(* A crash while the marker is filled leaves it torn.                         *)
Crash == /\ storePhase # "stuck"
         /\ \/ Restart(storeDisk)
            \/ /\ work.step = "mark"
               /\ Restart([storeDisk EXCEPT ![work.doc].com = @ \cup {Marker(TRUE)}])

(* recover_document_artifacts: what the artifacts of one document prove: an   *)
(* error, or where its file is to come from.                                  *)
Verdict(x) ==
  IF Cardinality(x.bak) > 1 \/ Cardinality(x.com) > 1 THEN "error"
  ELSE IF x.com = {} THEN IF x.bak = {} THEN "keep" ELSE "error"
  ELSE LET m == CHOOSE c \in x.com : TRUE
           ours == \A b \in x.bak : b.u = m.u /\ b.id = m.old
       IN CASE m.torn \/ ~ours                          -> "error"
            [] x.base = m.u                             -> "keep"
            [] x.base # 0 /\ x.base = m.old /\ x.bak = {} -> "keep"
            [] x.base = 0 /\ x.bak # {}                 -> "backup"
            [] x.base = 0 /\ x.bak = {} /\ m.old = 0 /\ [u |-> m.u, torn |-> FALSE] \in x.tmp -> "forward"
            [] OTHER                                    -> "error"

(* The document with its file settled, before its artifacts are deleted.      *)
Settled(x) ==
  CASE Verdict(x) = "keep"    -> [x EXCEPT !.bak = {}]
    [] Verdict(x) = "backup"  -> [x EXCEPT !.base = (CHOOSE b \in x.bak : TRUE).id, !.bak = {}]
    [] Verdict(x) = "forward" -> LET m == CHOOSE c \in x.com : TRUE IN
                                 [x EXCEPT !.base = m.u, !.tmp = {t \in @ : t.u # m.u}]
recover_document_artifacts(x) == [Settled(x) EXCEPT !.tmp = {}, !.com = {}]

(* The documents are recovered in a fixed order: d is the next one.           *)
Recovering(d) ==
  LET order == <<"identity">> \o ScopeDocs \o RootDocs
      at(e) == CHOOSE i \in DOMAIN order : order[i] = e IN
  storePhase = "recover" /\ d \in todo /\ \A e \in todo : at(d) <= at(e)
RecoverDoc(d) ==
  /\ Recovering(d) /\ Verdict(storeDisk[d]) # "error"
  /\ storeDisk' = [storeDisk EXCEPT ![d] = recover_document_artifacts(@)]
  /\ todo' = todo \ {d}
  /\ UNCHANGED <<body, scopeDir, tomb, storePhase, plan, work, acked, leased, bounds>>

(* The crash comes when the file is settled and some artifacts are deleted.   *)
RecoverCrash(d) ==
  /\ Recovering(d) /\ Verdict(storeDisk[d]) # "error"
  /\ LET s == Settled(storeDisk[d]) IN
     \E ts \in SUBSET s.tmp : Restart([storeDisk EXCEPT ![d] = [s EXCEPT !.tmp = ts]])

(* validate_v1_rollback_payload: half a rollback copy is discarded, but only  *)
(* while the live profiles are version 1. recover_tombstone: every payload    *)
(* must parse before anything is deleted.                                     *)
live_profiles_are_valid_v1 == Exists("profiles") /\ Read("profiles").v = 1
discard_incomplete_v1_rollback_artifacts ==
  IF HalfRollback THEN [storeDisk EXCEPT !["rollback"] = Empty, !["rmeta"] = Empty] ELSE storeDisk
ScopeOpens == (HalfRollback => live_profiles_are_valid_v1) /\ tomb # "torn"

OpenDone ==
  /\ storePhase = "recover" /\ todo = {} /\ ScopeOpens
  /\ storeDisk' = discard_incomplete_v1_rollback_artifacts
  /\ acked' = [d \in StoreDocs |-> IF storeDisk'[d] = storeDisk[d] THEN acked[d] ELSE 0]
  /\ tomb' = "none" /\ storePhase' = "open"
  /\ UNCHANGED <<body, scopeDir, plan, work, todo, leased, bounds>>

OpenError ==
  /\ \/ \E d \in todo : Recovering(d) /\ Verdict(storeDisk[d]) = "error"
     \/ storePhase = "recover" /\ todo = {} /\ ~ScopeOpens
  /\ storePhase' = "stuck" /\ todo' = {}
  /\ UNCHANGED <<storeDisk, body, scopeDir, tomb, plan, work, acked, leased, bounds>>

----------------------------------------------------------------------------
(* The operations. Loading the configuration of a version 1 scope migrates    *)
(* it first: rollback copy, its metadata, then the version 2 document.        *)

MigrationOk == profilesNow.v = 1 => ~HalfRollback
Migration ==
  IF profilesNow.v = 2 THEN <<>>
  ELSE (IF Exists("rollback") THEN <<>> ELSE <<W("rollback", V1), W("rmeta", V1)>>)
       \o <<W("profiles", migrate_v1)>>
ensure_metadata == IF Exists("meta") THEN <<>> ELSE <<W("meta", Meta(day, Never))>>

Begin(ps) ==
  /\ Ready /\ scopeDir /\ ps # <<>> /\ NextTxn + Len(ps) - 1 <= MaxTxn
  /\ plan' = ps
  /\ UNCHANGED <<storeDisk, body, scopeDir, tomb, storePhase, work, todo, acked, leased, bounds>>

load_scope_config == MigrationOk /\ Begin(Migration)

(* replace_connections and replace_rules, with the current revision.          *)
replace_config ==
  MigrationOk /\ Begin(Migration \o ensure_metadata \o <<W("profiles", Profiles(2, profilesNow.rev + 1))>>)

replace_trust(h) ==
  /\ h \notin trustNow.entries
  /\ Begin(ensure_metadata \o <<W("trust", Trust(trustNow.rev + 1, trustNow.entries \cup {h}))>>)

(* Stopped-app repair: whole-file backup, endpoint quarantine, then the       *)
(* document without the endpoint. The model keeps one backup.                 *)
repair_remove_endpoint(h) ==
  /\ ~leased /\ ~Exists("backup")
  /\ Begin(<<W("backup", trustNow)>>
           \o (IF h \in trustNow.entries THEN <<W("quarantine", Trust(trustNow.rev, {h}))>> ELSE <<>>)
           \o <<W("trust", Trust(trustNow.rev + 1, trustNow.entries \ {h}))>>)

\* Mutant: the backup is restored with the revision it was taken at.
repair_restore_backup_OldRevision ==
  /\ ~leased /\ Exists("backup")
  /\ Begin(<<W("trust", Read("backup"))>>)

repair_restore_backup ==
  /\ ~leased /\ Exists("backup")
  /\ Begin(<<W("trust", Trust(trustNow.rev + 1, Read("backup").entries))>>)

(* load_or_create_desktop_instance recovers its document itself.              *)
load_or_create_desktop_instance ==
  /\ Ready /\ NextTxn <= MaxTxn /\ Verdict(storeDisk["identity"]) # "error"
  /\ storeDisk["identity"] = Empty \/ storeDisk["identity"].tmp \cup storeDisk["identity"].com # {}
  /\ LET x == recover_document_artifacts(storeDisk["identity"]) IN
     /\ storeDisk' = [storeDisk EXCEPT !["identity"] = x]
     /\ plan' = IF x.base # 0 THEN <<>> ELSE <<W("identity", [id |-> NextTxn])>>
  /\ UNCHANGED <<body, scopeDir, tomb, storePhase, work, todo, acked, leased, bounds>>

(* scope creates the directory; acquire_activity_lease and its release.       *)
OpenScope ==
  /\ Ready /\ ~scopeDir /\ scopeDir' = TRUE
  /\ UNCHANGED <<storeDisk, body, tomb, storePhase, plan, work, todo, acked, leased, bounds>>
Lease ==
  /\ Ready /\ scopeDir /\ leased' = ~leased
  /\ UNCHANGED <<storeDisk, body, scopeDir, tomb, storePhase, plan, work, todo, acked, bounds>>

(* reconcile, is_purge_eligible: an absent scope is kept RetentionDays after  *)
(* it was first missed, and purged by the reconciliation that finds it so.    *)
Later(x, y) == IF x > y THEN x ELSE y
reconcile(m, known) ==
  CASE known                            -> Meta(Later(day, m.seen), Never)
    [] ~known /\ m.orphaned = Never     -> Meta(m.seen, Later(day, m.seen))
    [] OTHER                            -> m
is_purge_eligible(m) == m.orphaned # Never /\ day >= m.orphaned + RetentionDays
Expired == [doc |-> "expired"]
Deleted == [doc |-> "deleted"]

reconcile_known_scope(known) ==
  LET m == reconcile(metaNow, known) IN
  MigrationOk /\ Begin(Migration \o <<W("meta", m)>> \o (IF is_purge_eligible(m) THEN <<Expired>> ELSE <<>>))
purge_if_deleted == MigrationOk /\ Begin(Migration \o <<Deleted>>)

(* purge_locked renames the directory to a tombstone, and fails while the     *)
(* scope is leased; its payloads are then proved and deleted.                 *)
Parses(x) == \A f \in x.tmp \cup x.com : ~f.torn
PurgeRename ==
  /\ storePhase = "open" /\ work = Idle /\ plan # <<>> /\ Head(plan) \in {Expired, Deleted}
  /\ plan' = <<>>
  /\ IF leased \/ tomb # "none" THEN UNCHANGED <<storeDisk, scopeDir, tomb, acked, bornV1>>
     ELSE /\ tomb' = IF \A d \in StoreDocs : InScope(d) => Parses(storeDisk[d]) THEN "clean" ELSE "torn"
          /\ storeDisk' = [d \in StoreDocs |-> IF InScope(d) THEN Empty ELSE storeDisk[d]]
          /\ acked' = [d \in StoreDocs |-> IF InScope(d) THEN 0 ELSE acked[d]]
          /\ scopeDir' = FALSE /\ bornV1' = FALSE
  /\ UNCHANGED <<body, storePhase, work, todo, leased, asked, day, faultAt, storeFaults, storeCrashes>>
PurgeDelete ==
  /\ Ready /\ tomb = "clean" /\ tomb' = "none"
  /\ UNCHANGED <<storeDisk, body, scopeDir, storePhase, plan, work, todo, acked, leased, bounds>>

NextDay ==
  /\ Ready /\ day < LastDay /\ day' = day + 1
  /\ UNCHANGED <<storeDisk, body, scopeDir, tomb, storePhase, plan, work, todo, acked, leased, asked, bornV1,
                 faultAt, storeFaults, storeCrashes>>

Calls(op) == op \in asked
StoreNext ==
  \/ StoreStage \/ (work # Idle /\ (Mark \/ Backup \/ StoreCommits \/ DropBackup \/ Unmark))
  \/ IoError \/ StageError \/ restore_v1_after_migration_failure
  \/ Crash \/ OpenDone \/ OpenError
  \/ \E d \in StoreDocs : RecoverDoc(d) \/ RecoverCrash(d)
  \/ Calls("load") /\ load_scope_config
  \/ Calls("config") /\ replace_config
  \/ Calls("trust") /\ \E h \in Endpoints : replace_trust(h) \/ repair_remove_endpoint(h)
  \/ Calls("trust") /\ repair_restore_backup
  \/ Calls("identity") /\ load_or_create_desktop_instance
  \/ OpenScope \/ (Calls("purge") /\ Lease)
  \/ Calls("retention") /\ ((\E k \in BOOLEAN : reconcile_known_scope(k)) \/ NextDay)
  \/ Calls("purge") /\ purge_if_deleted
  \/ PurgeRename \/ PurgeDelete
ScopeStoreSpec == StoreInit /\ [][StoreNext]_svars

----------------------------------------------------------------------------
(* Files are replacements that were staged, and a marker names its own.       *)
StoreTypeOK ==
  /\ DOMAIN storeDisk = StoreDocs /\ DOMAIN acked = StoreDocs
  /\ \A d \in StoreDocs :
       /\ storeDisk[d].base \in 0..(NextTxn - 1) /\ acked[d] \in 0..(NextTxn - 1)
       /\ \A f \in storeDisk[d].tmp \cup storeDisk[d].com \cup storeDisk[d].bak : f.u \in 1..(NextTxn - 1)
  /\ storePhase \in {"open", "recover", "stuck"} /\ tomb \in {"none", "clean", "torn"}
  /\ scopeDir \in BOOLEAN /\ leased \in BOOLEAN

(* A document an operation was told is written is never lost: whatever        *)
(* crashes and fails, the file, or the backup recovery will restore, is that  *)
(* one or a later one, and once the store is open and quiet it is the file.   *)
AckedSurvives ==
  \A d \in StoreDocs : acked[d] # 0 =>
    /\ storeDisk[d].base >= acked[d] \/ \E b \in storeDisk[d].bak : b.id >= acked[d]
    /\ Ready => storeDisk[d].base >= acked[d]

(* Opening the store fails only over a marker a crash tore, or when a failed  *)
(* replacement was followed by more: a crash at any other point, or a single  *)
(* I/O error before the restart, always recovers.                             *)
OneFaultRecovers ==
  storePhase = "stuck" => \/ \E d \in StoreDocs : \E c \in storeDisk[d].com : c.torn
                          \/ faultAt # 0 /\ NextTxn > faultAt + 1
                          \/ faultAt # 0 /\ tomb = "torn"

(* The version 1 document outlives the migration: once the live profiles are  *)
(* version 2, the rollback copy and its metadata are both there, and while    *)
(* they are incomplete the live file (or its backup) is still version 1.      *)
RollbackCopyKept ==
  (bornV1 /\ storeDisk["profiles"].base # 0 /\ storeDisk["profiles"].base # 1)
    => Exists("rollback") /\ Exists("rmeta")

(* A scope is purged for its age only when the last reconciliation that still *)
(* knew it, and was told so, is at least RetentionDays in the past.           *)
RetentionHolds ==
  [][(scopeDir /\ ~scopeDir' /\ Head(plan) = Expired) =>
       (acked["meta"] # 0 => day >= body[acked["meta"]].seen + RetentionDays)]_svars

(* A trust document that is acknowledged carries a later revision than the    *)
(* one acknowledged before it, through repairs, restores of a backup, errors  *)
(* and crashes, for as long as the scope exists.                              *)
TrustRevisionAdvances ==
  [][acked["trust"] # 0 /\ acked'["trust"] \notin {0, acked["trust"]}
       => body[acked'["trust"]].rev > body[acked["trust"]].rev]_svars

(* The store's promise across crashes and I/O errors at any step of            *)
(* replace_document, recover, migrate and purge (store.rs).                    *)
StoreSurvives == StoreTypeOK /\ AckedSurvives /\ OneFaultRecovers /\ RollbackCopyKept

(* Nothing in the store goes back in time: no scope is purged early, no trust  *)
(* revision is handed out twice.                                               *)
StoreNeverGoesBack == RetentionHolds /\ TrustRevisionAdvances
=============================================================================
