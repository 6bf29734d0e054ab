---------------------------- MODULE LinuxRelease ----------------------------
(***************************************************************************)
(* The Linux release manager (server/src/linux_release): a root command    *)
(* line tool that stages a release, switches the systemd units to it,      *)
(* probes its health and commits it, or puts the old release back.  Its    *)
(* authoritative record is one file, state.json; the units, the public     *)
(* host configuration, the `current` link and the release trees are        *)
(* changed around it, one durable step at a time.  The tool may be killed  *)
(* between any two steps, and the machine may lose power there; at boot    *)
(* dam-hopper-recovery.service reads the record and reconciles the rest.   *)
(* A deployment lock (flock) admits one command at a time.                 *)
(***************************************************************************)
EXTENDS Naturals, FiniteSets

CONSTANTS
    Candidates,     \* the releases an operator may stage: [tag, role] records
    Starts,         \* the hosts a behaviour starts from: subset of {"fresh", "installed", "legacy"}
    RelCommands,    \* the commands the operator gives
    MaxStages,      \* how many times a bundle is staged
    MaxRelFault,    \* how many file or systemd operations fail
    MaxRelCrash     \* how many times the tool is killed or the power fails

VARIABLES
    disk,           \* state.json: active, previous, pending, tx, failed
    hostRole,       \* the role recorded in host.toml
    dirs,           \* the release trees under releases/
    units,          \* the release each installed unit file was rendered for
    host,           \* the release the installed public host configuration is for
    link,           \* where the `current` link points
    backup,         \* the transaction's copies of the units and the host configuration
    up,             \* the release each unit's process runs
    enabled,        \* the units systemd starts at boot
    job,            \* the command in progress: its step and its in-memory state
    answer,         \* what the last command reported
    relFuel         \* the stages, faults and crashes left; and, for the properties, whether
                    \* a staging dropped an interrupted transaction or failed to record that
                    \* it replaced the active release

relVars == <<disk, hostRole, dirs, units, host, link, backup, up, enabled, job, answer, relFuel>>

NoRel    == [tag |-> "none", role |-> "none"]
ASSUME ReleaseAssumption == NoRel \notin Candidates /\ {MaxStages, MaxRelFault, MaxRelCrash} \subseteq Nat
UnitNames == {"api", "web", "recovery"}

\* The units a role runs, and the unit files rendered for it.
UnitsOf(r) == IF r.role = "none" THEN {}
              ELSE (IF r.role \in {"server", "both"} THEN {"api"} ELSE {})
                   \cup (IF r.role \in {"web", "both"} THEN {"web"} ELSE {})
Rendered(r) == UnitsOf(r) \cup {"recovery"}

NoTx     == [phase |-> "none", migration |-> FALSE]
Nothing  == [u \in UnitNames |-> NoRel]
NoBackup == [units |-> Nothing, host |-> NoRel]
Resting  == [op |-> "none", pc |-> "none"]

\* current_deployment_state
current_deployment_state(s) ==
    IF s.tx # NoTx THEN s.tx.phase
    ELSE IF s.pending # NoRel THEN "pending"
    ELSE IF s.active # NoRel THEN "active" ELSE "absent"

\* validate_transition: the edges record_phase may take.
validate_transition(from, to) ==
    <<from, to>> \in {<<"pending", "quiesced">>, <<"quiesced", "switched">>, <<"switched", "probing">>}

\* classify_recovery
classify_recovery(s) ==
    CASE s.tx = NoTx /\ s.pending # NoRel              -> "resume"
      [] s.tx = NoTx /\ s.pending = NoRel              -> IF s.active # NoRel THEN "repair" ELSE "nothing"
      [] s.tx.phase = "staged"                         -> "resume"
      [] s.tx.phase \in {"quiesced", "switched", "probing"} -> "restore"
      [] OTHER                                         -> "required"

-----------------------------------------------------------------------------
LegacyHost == "legacy"

RelInit ==
    /\ \E start \in Starts :
          LET first == [tag |-> "v1", role |-> "both"]
              a     == IF start = "installed" THEN first ELSE NoRel IN
          /\ disk = [active |-> a, previous |-> NoRel, pending |-> NoRel, tx |-> NoTx,
                     failed |-> NoRel, legacy |-> start = LegacyHost]
          /\ hostRole = a.role
          /\ dirs = IF a = NoRel THEN {} ELSE {a}
          /\ units = [u \in UnitNames |-> IF u \in Rendered(a) /\ a # NoRel THEN a ELSE NoRel]
          /\ up = [u \in UnitNames |-> IF u \in UnitsOf(a) THEN a ELSE NoRel]
          /\ enabled = IF a = NoRel THEN {} ELSE Rendered(a)
          /\ host = a /\ link = a
    /\ backup = NoBackup /\ job = Resting /\ answer = "none"
    /\ relFuel = [stages |-> MaxStages, faults |-> MaxRelFault, crashes |-> MaxRelCrash, dropped |-> FALSE]

Faulty == relFuel.faults > 0
Fault  == relFuel' = [relFuel EXCEPT !.faults = @ - 1]

Goto(pc)   == job' = [job EXCEPT !.pc = pc]
Ends(what) == job' = Resting /\ answer' = what

\* DeploymentLock::acquire: a second command is refused while one runs.
Begins(op, pc, r) ==
    /\ job = Resting
    /\ job' = [op |-> op, pc |-> pc, cand |-> r, mem |-> disk, why |-> "none"]
    /\ answer' = "none"

-----------------------------------------------------------------------------
(***************************************************************************)
(* install / role set: stage_release_bundle                                *)
(***************************************************************************)
\* determine_host_role: an install keeps the recorded role, role set changes it.
Stage(r, roleSet, reinstall) ==
    /\ relFuel.stages > 0 /\ "stage" \in RelCommands
    /\ roleSet \/ hostRole \in {"none", r.role}
    /\ Begins("stage", "extract", r)
    /\ relFuel' = [relFuel EXCEPT !.stages = @ - 1]
    /\ IF r \in {disk.active, disk.previous} THEN reinstall ELSE ~reinstall
    /\ UNCHANGED <<disk, hostRole, dirs, units, host, link, backup, up, enabled>>

\* The archive is copied, checked and extracted aside; then an existing tree
\* of the same tag and role makes way.  Reinstalling the active or previous
\* release first stops the units and forgets the release, and a failure to
\* record that is ignored.
StageExtract ==
    /\ job.op = "stage" /\ job.pc = "extract" /\ ~disk.legacy
    /\ LET r == job.cand
           known == r \in {disk.active, disk.previous}
           forgot == [disk EXCEPT !.active = IF @ = r THEN NoRel ELSE @,
                                  !.previous = IF @ = r THEN NoRel ELSE @] IN
       /\ up' = IF known THEN Nothing ELSE up
       /\ \/ disk' = (IF known THEN forgot ELSE disk) /\ UNCHANGED relFuel
          \/ /\ known /\ Faulty /\ disk' = disk
             /\ relFuel' = [relFuel EXCEPT !.faults = @ - 1, !.dropped = TRUE]
       /\ dirs' = dirs \ {r}
       /\ Goto("rename")
    /\ UNCHANGED <<hostRole, units, host, link, backup, enabled, answer>>

StageRename ==
    /\ job.op = "stage" /\ job.pc = "rename"
    /\ dirs' = dirs \cup {job.cand}
    /\ Goto("render")
    /\ UNCHANGED <<disk, hostRole, units, host, link, backup, up, enabled, answer, relFuel>>

\* stage_migration_candidate: on a format-2 host the release is staged into a
\* sibling of the canonical root, which stays as it is.
StageBeside ==
    /\ job.op = "stage" /\ job.pc = "extract" /\ disk.legacy
    /\ Goto("role")
    /\ UNCHANGED <<disk, hostRole, dirs, units, host, link, backup, up, enabled, answer, relFuel>>

\* stage_candidate_units: the units and the public configuration are rendered
\* into a directory of the transaction; a failure removes the staged tree.
StageRender ==
    /\ job.op = "stage" /\ job.pc = "render"
    /\ \/ Goto("role") /\ UNCHANGED <<dirs, answer, relFuel>>
       \/ Faulty /\ Fault /\ dirs' = dirs \ {job.cand} /\ Ends("failed")
    /\ UNCHANGED <<disk, hostRole, units, host, link, backup, up, enabled>>

\* persist_host_role and the digests; cleanup_staging_failure undoes them.
StageRole ==
    /\ job.op = "stage" /\ job.pc = "role"
    /\ \/ hostRole' = job.cand.role
          /\ job' = [job EXCEPT !.pc = "record", !.why = hostRole]
          /\ UNCHANGED <<dirs, answer, relFuel>>
       \/ Faulty /\ Fault /\ dirs' = dirs \ {job.cand} /\ Ends("failed") /\ UNCHANGED hostRole
    /\ UNCHANGED <<disk, units, host, link, backup, up, enabled>>

\* The pending candidate is recorded and whatever transaction was recorded
\* before is dropped.  The save may fail before or after its rename.
StageRecord ==
    /\ job.op = "stage" /\ job.pc = "record"
    /\ LET saved == [disk EXCEPT !.pending = job.cand,
                        !.tx = IF disk.legacy THEN [phase |-> "staged", migration |-> TRUE] ELSE NoTx] IN
       \/ /\ disk' = saved
          /\ \E fails \in BOOLEAN :
                /\ fails => Faulty
                /\ Ends(IF fails THEN "failed" ELSE "staged")
                /\ relFuel' = [relFuel EXCEPT !.faults = IF fails THEN @ - 1 ELSE @,
                                              !.dropped = @ \/ (disk.tx # NoTx /\ ~disk.legacy)]
          /\ UNCHANGED <<hostRole, dirs>>
       \/ /\ Faulty /\ Fault /\ Ends("failed")
          /\ dirs' = dirs \ {job.cand} /\ hostRole' = job.why
          /\ UNCHANGED disk
    /\ UNCHANGED <<units, host, link, backup, up, enabled>>

-----------------------------------------------------------------------------
(***************************************************************************)
(* start: execute_activation_locked                                        *)
(***************************************************************************)
\* With nothing pending the active release is started and probed.
StartActive ==
    /\ "start" \in RelCommands /\ disk.pending = NoRel /\ disk.active # NoRel
    /\ job = Resting
    /\ \/ /\ disk.active \in dirs /\ units["recovery"] = disk.active
          /\ \A u \in UnitsOf(disk.active) : units[u] # NoRel
          /\ host.role = disk.active.role
          /\ up' = [u \in UnitNames |-> IF u \in UnitsOf(disk.active) THEN units[u] ELSE up[u]]
          /\ answer' = IF \A u \in UnitsOf(disk.active) : units[u] = disk.active THEN "started" ELSE "failed"
          /\ UNCHANGED relFuel
       \/ Faulty /\ Fault /\ answer' = "failed" /\ UNCHANGED up
    /\ UNCHANGED <<disk, hostRole, dirs, units, host, link, backup, enabled, job>>

\* validate_candidate_preflight: the staged tree must be there and unchanged.
StartPending ==
    /\ "start" \in RelCommands /\ disk.pending # NoRel
    /\ disk.pending \in dirs \/ disk.legacy
    /\ Begins("start", "quiesce", disk.pending)
    /\ UNCHANGED <<disk, hostRole, dirs, units, host, link, backup, up, enabled, relFuel>>

\* ActivationTransaction::new or from_id, then record_phase(Quiesced).
Quiesce ==
    /\ job.op = "start" /\ job.pc = "quiesce"
    /\ LET s == [job.mem EXCEPT !.tx = [@ EXCEPT !.phase = "quiesced"]] IN
       \/ /\ validate_transition(current_deployment_state(job.mem), "quiesced")
          /\ disk' = s /\ job' = [job EXCEPT !.pc = "stop", !.mem = s]
          /\ backup' = IF job.mem.tx = NoTx THEN NoBackup ELSE backup
          /\ UNCHANGED <<answer, relFuel>>
       \/ /\ ~validate_transition(current_deployment_state(job.mem), "quiesced")
          /\ Ends("refused") /\ UNCHANGED <<disk, backup, relFuel>>
       \/ Faulty /\ Fault /\ Ends("failed") /\ UNCHANGED <<disk, backup>>
    /\ UNCHANGED <<hostRole, dirs, units, host, link, up, enabled>>

\* execute_activation_pipeline, one durable step after the other.  A step
\* that fails turns to record_failure and the rollback.
StopUnits ==
    /\ job.op = "start" /\ job.pc = "stop"
    /\ up' = Nothing /\ Goto("backup")
    /\ UNCHANGED <<disk, hostRole, dirs, units, host, link, backup, enabled, answer, relFuel>>

backup_unit_files ==
    /\ job.op = "start" /\ job.pc = "backup"
    /\ backup' = [backup EXCEPT !.units = [u \in UnitNames |-> IF units[u] # NoRel THEN units[u] ELSE @[u]]]
    /\ Goto("install")
    /\ UNCHANGED <<disk, hostRole, dirs, units, host, link, up, enabled, answer, relFuel>>

\* One unit file is replaced at a time.
install_unit_file ==
    /\ job.op = "start" /\ job.pc = "install"
    /\ \/ \E u \in Rendered(job.cand) : units[u] # job.cand /\ units' = [units EXCEPT ![u] = job.cand] /\ UNCHANGED job
       \/ (\A u \in Rendered(job.cand) : units[u] = job.cand) /\ Goto("config") /\ UNCHANGED units
    /\ UNCHANGED <<disk, hostRole, dirs, host, link, backup, up, enabled, answer, relFuel>>

\* The public host configuration is backed up and replaced.
install_host_config ==
    /\ job.op = "start" /\ job.pc = "config"
    /\ backup' = [backup EXCEPT !.host = IF host # NoRel THEN host ELSE @]
    /\ host' = job.cand
    /\ Goto("switched")
    /\ UNCHANGED <<disk, hostRole, dirs, units, link, up, enabled, answer, relFuel>>

\* record_phase(Switched) and record_phase(Probing)
Records(pc, phase, next) ==
    /\ job.op = "start" /\ job.pc = pc
    /\ validate_transition(current_deployment_state(job.mem), phase)
    /\ LET s == [job.mem EXCEPT !.tx.phase = phase] IN
       \/ disk' = s /\ job' = [job EXCEPT !.pc = next, !.mem = s] /\ UNCHANGED relFuel
       \/ Faulty /\ Fault /\ job' = [job EXCEPT !.pc = "recordFailure"] /\ UNCHANGED disk
    /\ UNCHANGED <<hostRole, dirs, units, host, link, backup, up, enabled, answer>>
Switched == Records("switched", "switched", "startUnits")
Probing  == Records("probing", "probing", "health")

StartUnits ==
    /\ job.op = "start" /\ job.pc = "startUnits"
    /\ \/ /\ up' = [u \in UnitNames |-> IF u \in UnitsOf(job.cand) THEN units[u] ELSE up[u]]
          /\ Goto("probing") /\ UNCHANGED relFuel
       \/ Faulty /\ Fault /\ Goto("recordFailure") /\ UNCHANGED up
    /\ UNCHANGED <<disk, hostRole, dirs, units, host, link, backup, enabled, answer>>

\* wait_for_health_stability: the running executables and versions must be
\* the candidate's, and stay healthy for the whole window.
Healthy(r) == \A u \in UnitsOf(r) : up[u] = r
Health ==
    /\ job.op = "start" /\ job.pc = "health"
    /\ \/ Healthy(job.cand) /\ Goto("enable") /\ UNCHANGED relFuel
       \/ /\ ~Healthy(job.cand) \/ Faulty
          /\ relFuel' = [relFuel EXCEPT !.faults = IF Healthy(job.cand) THEN @ - 1 ELSE @]
          /\ Goto("recordFailure")
    /\ UNCHANGED <<disk, hostRole, dirs, units, host, link, backup, up, enabled, answer>>

EnableUnits ==
    /\ job.op = "start" /\ job.pc = "enable"
    /\ enabled' = Rendered(job.cand)
    /\ LET m == job.mem IN
       job' = [job EXCEPT !.pc = "commit",
                  !.mem = [m EXCEPT !.previous = m.active, !.active = job.cand,
                                    !.pending = NoRel, !.tx = NoTx]]
    /\ UNCHANGED <<disk, hostRole, dirs, units, host, link, backup, up, answer, relFuel>>

\* The commit point: the record that makes the candidate active.
Commit ==
    /\ job.op = "start" /\ job.pc = "commit"
    /\ \/ disk' = job.mem /\ Goto("link") /\ UNCHANGED relFuel
       \/ Faulty /\ Fault /\ Goto("recordFailure") /\ UNCHANGED disk
    /\ UNCHANGED <<hostRole, dirs, units, host, link, backup, up, enabled, answer>>

CurrentLink ==
    /\ job.op = "start" /\ job.pc = "link"
    /\ \/ link' = job.mem.active /\ Goto("retain") /\ UNCHANGED <<answer, relFuel>>
       \/ Faulty /\ Fault /\ Ends("failed") /\ UNCHANGED link
    /\ UNCHANGED <<disk, hostRole, dirs, units, host, backup, up, enabled>>

\* Mutant: pruning does not keep the release a rollback would return to.
Referenced_NotPrevious(s) == {s.active.tag}
                 \cup {IF s.pending # NoRel THEN s.pending.tag ELSE s.failed.tag}

\* apply_retention: by tag, everything the record names stays, and so does
\* the tree `current` points into. The transaction, which would count as
\* well, is cleared by the commit just before.
Referenced(s) == {s.active.tag, s.previous.tag}
                 \cup {IF s.pending # NoRel THEN s.pending.tag ELSE s.failed.tag}
apply_retention ==
    /\ job.op = "start" /\ job.pc = "retain"
    /\ dirs' = {d \in dirs : d.tag \in Referenced(job.mem) \/ d.tag = link.tag}
    /\ Ends("committed")
    /\ UNCHANGED <<disk, hostRole, units, host, link, backup, up, enabled, relFuel>>

\* record_failure saves the in-memory state, whatever the pipeline had made
\* of it; its own failure is only reported.
RecordFailure ==
    /\ job.op = "start" /\ job.pc = "recordFailure"
    /\ LET s == [job.mem EXCEPT !.failed = job.mem.pending] IN
       \/ disk' = s /\ UNCHANGED relFuel
       \/ Faulty /\ Fault /\ UNCHANGED disk
    /\ Goto("undo")
    /\ UNCHANGED <<hostRole, dirs, units, host, link, backup, up, enabled, answer>>

-----------------------------------------------------------------------------
(***************************************************************************)
(* rollback_activation_failure, from a failed start or from recovery       *)
(***************************************************************************)
\* No release was active: the units go down and are disabled, the link and
\* the public configuration go; the unit files of the candidate stay.
RollbackBaseline ==
    /\ job.pc = "undo" /\ disk.active = NoRel
    /\ up' = Nothing /\ enabled' = {}
    /\ link' = NoRel /\ host' = NoRel
    /\ job' = [job EXCEPT !.pc = "settle",
                  !.mem = [disk EXCEPT !.tx = NoTx, !.failed = disk.pending]]
    /\ UNCHANGED <<disk, hostRole, dirs, units, backup, answer, relFuel>>

\* The active release comes back from the transaction's copies.
RollbackRestore ==
    /\ job.pc = "undo" /\ disk.active # NoRel
    /\ up' = Nothing
    /\ units' = IF disk.tx = NoTx THEN units
                ELSE [u \in UnitNames |-> IF backup.units[u] # NoRel THEN backup.units[u] ELSE units[u]]
    /\ host' = IF disk.tx # NoTx /\ backup.host # NoRel THEN backup.host ELSE host
    /\ enabled' = enabled \cup {"recovery"}
    /\ job' = [job EXCEPT !.pc = "restart", !.mem = disk]
    /\ UNCHANGED <<disk, hostRole, dirs, link, backup, answer, relFuel>>

\* systemctl start of the old units.  At boot it cannot return: the recovery
\* unit is ordered Before= the units it starts, so their start jobs wait for
\* the recovery unit, which waits for them until TimeoutSec ends it.
RollbackStart ==
    /\ job.pc = "restart" /\ job.op # "boot"
    /\ \/ /\ up' = [u \in UnitNames |-> IF u \in UnitsOf(job.mem.active) THEN units[u] ELSE NoRel]
          /\ Goto("verify") /\ UNCHANGED <<answer, relFuel>>
       \/ Faulty /\ Fault /\ Ends("recovery_required") /\ UNCHANGED up
    /\ UNCHANGED <<disk, hostRole, dirs, units, host, link, backup, enabled>>

RecoveryTimesOut ==
    /\ job.op = "boot" /\ job.pc = "restart"
    /\ Ends("timeout")
    /\ up' = [u \in UnitNames |-> IF u \in enabled \cap {"api", "web"} THEN units[u] ELSE NoRel]
    /\ UNCHANGED <<disk, hostRole, dirs, units, host, link, backup, enabled, relFuel>>

RollbackVerify ==
    /\ job.pc = "verify"
    /\ \/ /\ Healthy(job.mem.active)
          /\ job' = [job EXCEPT !.pc = "settle", !.mem = [@ EXCEPT !.tx = NoTx, !.failed = job.mem.pending]]
          /\ UNCHANGED <<disk, answer, relFuel>>
       \/ /\ \/ ~Healthy(job.mem.active) /\ UNCHANGED relFuel
             \/ Faulty /\ Fault
          /\ disk' = [job.mem EXCEPT !.failed = job.mem.active,
                         !.tx = IF @ = NoTx THEN @ ELSE [@ EXCEPT !.phase = "failed"]]
          /\ Ends("recovery_required")
    /\ UNCHANGED <<hostRole, dirs, units, host, link, backup, up, enabled>>

\* The record of the rollback, and the link back to the active release.
RollbackSettle ==
    /\ job.pc = "settle"
    /\ \/ /\ disk' = job.mem
          /\ link' = IF job.mem.active # NoRel THEN job.mem.active ELSE link
          /\ Ends("rolled_back") /\ UNCHANGED relFuel
       \/ Faulty /\ Fault /\ Ends("recovery_required") /\ UNCHANGED <<disk, link>>
    /\ UNCHANGED <<hostRole, dirs, units, host, backup, up, enabled>>

\* execute_manual_rollback: the previous release is staged again from its own
\* tree and takes the same path as any candidate.
ManualRollback ==
    /\ "rollback" \in RelCommands /\ disk.previous # NoRel /\ disk.previous \in dirs
    /\ job = Resting
    /\ LET s == [disk EXCEPT !.pending = disk.previous] IN
       /\ disk' = s
       /\ job' = [op |-> "start", pc |-> "quiesce", cand |-> s.pending, mem |-> s, why |-> "rollback"]
    /\ answer' = "none"
    /\ UNCHANGED <<hostRole, dirs, units, host, link, backup, up, enabled, relFuel>>

-----------------------------------------------------------------------------
(***************************************************************************)
(* recover, and recover --boot: execute_recovery                           *)
(***************************************************************************)
Recover ==
    /\ "recover" \in RelCommands /\ Begins("recover", "classify", NoRel)
    /\ UNCHANGED <<disk, hostRole, dirs, units, host, link, backup, up, enabled, relFuel>>

RecoverRestore ==
    /\ job.pc = "classify" /\ classify_recovery(disk) = "restore"
    /\ Goto("undo")
    /\ UNCHANGED <<disk, hostRole, dirs, units, host, link, backup, up, enabled, answer, relFuel>>

\* systemd starts what is enabled once the recovery unit is done.
Boots(on, ok) == [u \in UnitNames |-> IF job.op # "boot" THEN up[u]
                                     ELSE IF ok /\ u \in on \cap {"api", "web"} THEN units[u] ELSE NoRel]

\* repair_active_pointers
Repaired(a) == /\ enabled' = (enabled \ {"api", "web"}) \cup Rendered(a)
               /\ a \in dirs /\ link' = a

RecoverResume ==
    /\ job.pc = "classify" /\ classify_recovery(disk) = "resume"
    /\ IF job.op = "boot" /\ disk.active # NoRel THEN Repaired(disk.active)
       ELSE enabled' = (IF job.op = "boot" THEN enabled \ {"api", "web"} ELSE enabled) /\ UNCHANGED link
    /\ up' = Boots(enabled', TRUE)
    /\ Ends("recovered")
    /\ UNCHANGED <<disk, hostRole, dirs, units, host, backup, relFuel>>

RecoverRepair ==
    /\ job.pc = "classify" /\ classify_recovery(disk) \in {"repair", "nothing"}
    /\ IF disk.active # NoRel THEN Repaired(disk.active) ELSE UNCHANGED <<enabled, link>>
    /\ up' = Boots(enabled', TRUE)
    /\ Ends("recovered")
    /\ UNCHANGED <<disk, hostRole, dirs, units, host, backup, relFuel>>

\* A missing active tree, or a transaction already marked failed, leaves the
\* operator to it.  The second also stops and disables the units.
RecoverRefuse ==
    /\ job.pc = "classify"
    /\ \/ /\ classify_recovery(disk) = "required"
          /\ enabled' = {} /\ up' = Nothing
       \/ /\ classify_recovery(disk) \in {"resume", "repair"}
          /\ disk.active # NoRel /\ disk.active \notin dirs
          /\ classify_recovery(disk) = "resume" => job.op = "boot"
          /\ enabled' = (enabled \ {"api", "web"}) \cup Rendered(disk.active)
          /\ up' = Boots(enabled', TRUE)
    /\ Ends("recovery_required")
    /\ UNCHANGED <<disk, hostRole, dirs, units, host, link, backup, relFuel>>

-----------------------------------------------------------------------------
\* The tool is killed: the lock goes with it, the services stay.
Killed ==
    /\ relFuel.crashes > 0 /\ job # Resting /\ job.op # "boot"
    /\ relFuel' = [relFuel EXCEPT !.crashes = @ - 1]
    /\ Ends("killed")
    /\ UNCHANGED <<disk, hostRole, dirs, units, host, link, backup, up, enabled>>

\* The machine restarts.  The recovery unit runs first if it is enabled and
\* its executable is still there.
PowerLoss ==
    /\ relFuel.crashes > 0
    /\ relFuel' = [relFuel EXCEPT !.crashes = @ - 1]
    /\ LET recovers == "recovery" \in enabled /\ units["recovery"] \in dirs IN
       /\ job' = IF recovers THEN [op |-> "boot", pc |-> "classify", cand |-> NoRel, mem |-> disk, why |-> "none"]
                 ELSE Resting
       /\ up' = IF recovers THEN Nothing
                ELSE [u \in UnitNames |-> IF u \in enabled \cap {"api", "web"} THEN units[u] ELSE NoRel]
    /\ answer' = "none"
    /\ UNCHANGED <<disk, hostRole, dirs, units, host, link, backup, enabled>>

StageAny == \E r \in Candidates, s, i \in BOOLEAN : Stage(r, s, i)

RelNext ==
    \/ StageAny \/ StageExtract \/ StageRecord \/ StageRename \/ StageBeside \/ StageRender \/ StageRole
    \/ StartActive \/ StartPending \/ Quiesce \/ StopUnits \/ backup_unit_files \/ install_unit_file
    \/ install_host_config \/ Switched \/ Probing \/ StartUnits \/ Health \/ EnableUnits \/ Commit
    \/ CurrentLink \/ apply_retention \/ RecordFailure
    \/ RollbackBaseline \/ RollbackRestore \/ RollbackStart \/ RecoveryTimesOut \/ RollbackVerify
    \/ RollbackSettle \/ ManualRollback
    \/ Recover \/ RecoverRestore \/ RecoverResume \/ RecoverRepair \/ RecoverRefuse
    \/ Killed \/ PowerLoss

RelSpec == RelInit /\ [][RelNext]_relVars

-----------------------------------------------------------------------------
Rels == Candidates \cup {NoRel, [tag |-> "v1", role |-> "both"]}

RelTypeOK ==
    /\ disk \in [active : Rels, previous : Rels, pending : Rels, failed : Rels, legacy : BOOLEAN,
                 tx : [phase : {"none", "staged", "quiesced", "switched", "probing", "failed"}, migration : BOOLEAN]]
    /\ dirs \subseteq Rels \ {NoRel}
    /\ {units, up} \subseteq [UnitNames -> Rels]
    /\ {host, link} \subseteq Rels
    /\ enabled \subseteq UnitNames

\* Between commands, with no transaction recorded, the record and the machine
\* agree: the active release's tree is there and the units and the recovery
\* unit are the ones rendered for it, and the previous release can be rolled
\* back to.  It must survive every failed step, kill and power loss, and every
\* retention pass.
SettledMatchesRecord ==
    job = Resting /\ disk.tx = NoTx /\ ~relFuel.dropped =>
        /\ disk.active # NoRel => /\ disk.active \in dirs
                                  /\ \A u \in Rendered(disk.active) : units[u] = disk.active
        /\ disk.previous # NoRel => disk.previous \in dirs

\* A command that reports a commit or a rollback leaves exactly the recorded
\* release running, linked and started at boot; a rollback to nothing leaves
\* nothing running.
ReportedIsRunning ==
    answer \in {"committed", "rolled_back"} /\ ~relFuel.dropped =>
        /\ disk.tx = NoTx
        /\ disk.active # NoRel => Healthy(disk.active) /\ link = disk.active
        /\ disk.active = NoRel => up = Nothing /\ enabled = {}

\* Kills and power losses alone never need an operator: whatever step they
\* interrupt, even of the rollback, recovery finds a way back by itself.
CrashAloneRecovers ==
    relFuel.faults = MaxRelFault /\ ~relFuel.dropped => answer # "recovery_required"

\* The record, the files and the running units agree wherever activation stopped: what
\* was reported holds, and a kill or power loss needs no operator (activate.rs, rollback.rs,
\* recovery.rs, retention.rs).
ReleaseIsWhole == RelTypeOK /\ SettledMatchesRecord /\ ReportedIsRunning /\ CrashAloneRecovers
=============================================================================
