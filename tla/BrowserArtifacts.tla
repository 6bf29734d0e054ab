-------------------------- MODULE BrowserArtifacts --------------------------
(***************************************************************************)
(* Browser debug artifacts (server/src/browser_debug/store.rs and          *)
(* api/browser_debug.rs): a selection JSON and an optional PNG, kept ten   *)
(* minutes in a private directory and handed to a terminal once.  The      *)
(* entries lock is released around every file operation, so requests, the  *)
(* sweeper and shutdown interleave between the steps below.                *)
(***************************************************************************)
EXTENDS Integers, FiniteSets

CONSTANTS Artifacts,     \* artifact ids (random UUIDs, never reused)
          Tasks,         \* requests and the sweeper
          MaxFaults      \* bound: failures of remove_file

VARIABLES entries,       \* id -> [png, uploading, claimed]
          aFiles,        \* files on disk: <<id, "json">>, <<id, "png">>
          stale,         \* artifacts past expires_at
          task,          \* what each task is doing
          shut,          \* dispose_all took the entries
          gone,          \* ... and removed the directory
          faults,
          created,       \* history: ids used so far
          handed,        \* history: successful terminal writes, per id
          unlucky        \* history: ids a removal failed for

artVars == <<entries, aFiles, stale, task, shut, gone, faults, created, handed, unlucky>>
artHist == <<shut, gone, created, handed>>

NoTask == [pc |-> "idle"]
Stored == DOMAIN entries
Without(ids) == [x \in Stored \ ids |-> entries[x]]
Holds(a, m) == [x \in Stored \cup {a} |-> IF x = a THEN m ELSE entries[x]]

(* paths_for: the PNG only once the upload has finished                    *)
paths_for(a, m) == {<<a, "json">>} \cup IF m.png THEN {<<a, "png">>} ELSE {}

ArtInit ==
    /\ entries = <<>> /\ aFiles = {} /\ stale = {} /\ shut = FALSE /\ gone = FALSE /\ faults = 0
    /\ task = [k \in Tasks |-> NoTask]
    /\ created = {} /\ handed = [a \in Artifacts |-> 0] /\ unlucky = {}

ToIdle(k) == task' = [task EXCEPT ![k] = NoTask]
ToStep(k, rec) == task' = [task EXCEPT ![k] = rec]
-----------------------------------------------------------------------------
(* create: the JSON is written before the entry exists                     *)
CreateWrites(k, a) ==
    /\ task[k] = NoTask /\ a \notin created /\ ~gone
    /\ created' = created \cup {a}
    /\ aFiles' = aFiles \cup {<<a, "json">>}
    /\ ToStep(k, [pc |-> "insert", a |-> a])
    /\ UNCHANGED <<entries, stale, shut, gone, faults, handed, unlucky>>

CreateInserts(k) ==
    /\ task[k].pc = "insert"
    /\ entries' = Holds(task[k].a, [png |-> FALSE, uploading |-> FALSE, claimed |-> FALSE])
    /\ ToIdle(k)
    /\ UNCHANGED <<aFiles, stale, faults, artHist, unlucky>>
-----------------------------------------------------------------------------
(* upload_png: reserve under the lock, write outside it, look again        *)
UploadReserves(k, a) ==
    /\ task[k] = NoTask /\ a \in Stored \ stale
    /\ ~entries[a].claimed /\ ~entries[a].png /\ ~entries[a].uploading
    /\ entries' = [entries EXCEPT ![a].uploading = TRUE]
    /\ ToStep(k, [pc |-> "write", a |-> a])
    /\ UNCHANGED <<aFiles, stale, faults, artHist, unlucky>>

UploadWrites(k) ==
    /\ task[k].pc = "write" /\ ~gone /\ <<task[k].a, "png">> \notin aFiles
    /\ aFiles' = aFiles \cup {<<task[k].a, "png">>}
    /\ ToStep(k, [pc |-> "attach", a |-> task[k].a])
    /\ UNCHANGED <<entries, stale, faults, artHist, unlucky>>

(* clear_upload_reservation, if the entry is still there                   *)
UploadFails(k) ==
    LET a == task[k].a IN
    /\ task[k].pc = "write"
    /\ entries' = IF a \in Stored THEN [entries EXCEPT ![a].uploading = FALSE] ELSE entries
    /\ ToIdle(k)
    /\ UNCHANGED <<aFiles, stale, faults, artHist, unlucky>>

UploadAttaches(k) ==
    LET a == task[k].a IN
    /\ task[k].pc = "attach"
    /\ IF a \in Stored \ stale
       THEN /\ entries' = [entries EXCEPT ![a].uploading = FALSE, ![a].png = TRUE]
            /\ ToIdle(k)
       ELSE /\ entries' = Without({a})
            /\ ToStep(k, [pc |-> "discard", a |-> a,
                          taken |-> IF a \in Stored THEN {entries[a]} ELSE {}])
    /\ UNCHANGED <<aFiles, stale, faults, artHist, unlucky>>

(* remove_or_log: the PNG of an upload that lost the race                  *)
UploadDiscards(k, ok) ==
    LET a == task[k].a IN
    /\ task[k].pc = "discard" /\ (ok \/ faults < MaxFaults)
    /\ aFiles' = IF ok THEN aFiles \ {<<a, "png">>} ELSE aFiles
    /\ unlucky' = IF ok THEN unlucky ELSE unlucky \cup {a}
    /\ faults' = IF ok THEN faults ELSE faults + 1
    /\ IF task[k].taken = {} THEN ToIdle(k)
       ELSE ToStep(k, [pc |-> "remove", a |-> a, m |-> CHOOSE m \in task[k].taken : TRUE])
    /\ UNCHANGED <<entries, stale, artHist>>
-----------------------------------------------------------------------------
(* An entry is taken out of the map, then its files are removed, and it is *)
(* put back as it was when that fails: delete, sweep_expired and           *)
(* retry_expired_cleanup.                                                  *)
Takes(k, a) ==
    /\ entries' = Without({a})
    /\ ToStep(k, [pc |-> "remove", a |-> a, m |-> entries[a]])

DeleteTakes(k, a) ==
    /\ task[k] = NoTask /\ a \in Stored /\ ~entries[a].claimed
    /\ Takes(k, a)
    /\ UNCHANGED <<aFiles, stale, faults, artHist, unlucky>>

(* sweep_expired; upload_png and claim_handoff do the same to what they    *)
(* find expired                                                            *)
ExpiredTakes(k, a) ==
    /\ task[k] = NoTask /\ a \in Stored \cap stale
    /\ Takes(k, a)
    /\ UNCHANGED <<aFiles, stale, faults, artHist, unlucky>>

(* remove_files stops at the first path it cannot remove                   *)
RemoveFiles(k, ok) ==
    LET a == task[k].a
        paths == paths_for(a, task[k].m)
    IN /\ task[k].pc = "remove" /\ (ok \/ faults < MaxFaults)
       /\ IF ok
          THEN /\ aFiles' = aFiles \ paths
               /\ UNCHANGED <<faults, unlucky>>
               /\ ToIdle(k)
          ELSE /\ \E done \in {{}, {<<a, "json">>}} :
                     done # paths /\ aFiles' = aFiles \ done
               /\ faults' = faults + 1 /\ unlucky' = unlucky \cup {a}
               /\ ToStep(k, [pc |-> "restore", a |-> a, m |-> task[k].m])
       /\ UNCHANGED <<entries, stale, artHist>>

RestoreEntry(k) ==
    /\ task[k].pc = "restore"
    /\ entries' = Holds(task[k].a, task[k].m)
    /\ ToIdle(k)
    /\ UNCHANGED <<aFiles, stale, faults, artHist, unlucky>>
-----------------------------------------------------------------------------

\* Mutant: a handoff does not mark the artifact as claimed.
claim_handoff_Unmarked(k, a) ==
    /\ task[k] = NoTask /\ a \in Stored \ stale
    /\ ~entries[a].claimed /\ ~entries[a].uploading
    /\ ToStep(k, [pc |-> "terminal", a |-> a, paths |-> paths_for(a, entries[a])])
    /\ UNCHANGED <<aFiles, stale, faults, artHist, unlucky, entries>>

(* handoff: claim, write to the terminal, release on failure               *)
claim_handoff(k, a) ==
    /\ task[k] = NoTask /\ a \in Stored \ stale
    /\ ~entries[a].claimed /\ ~entries[a].uploading
    /\ entries' = [entries EXCEPT ![a].claimed = TRUE]
    /\ ToStep(k, [pc |-> "terminal", a |-> a, paths |-> paths_for(a, entries[a])])
    /\ UNCHANGED <<aFiles, stale, faults, artHist, unlucky>>

HandoffWrites(k) ==
    /\ task[k].pc = "terminal"
    /\ handed' = [handed EXCEPT ![task[k].a] = @ + 1]
    /\ ToIdle(k)
    /\ UNCHANGED <<entries, aFiles, stale, shut, gone, created, faults, unlucky>>

(* the terminal is not alive, or the write fails                           *)
HandoffFails(k) ==
    /\ task[k].pc = "terminal"
    /\ ToStep(k, [pc |-> "release", a |-> task[k].a])
    /\ UNCHANGED <<entries, aFiles, stale, faults, artHist, unlucky>>

release_handoff(k) ==
    LET a == task[k].a IN
    /\ task[k].pc = "release"
    /\ entries' = IF a \in Stored THEN [entries EXCEPT ![a].claimed = FALSE] ELSE entries
    /\ ToIdle(k)
    /\ UNCHANGED <<aFiles, stale, faults, artHist, unlucky>>
-----------------------------------------------------------------------------
(* dispose_all: the entries are taken, then the root directory is removed  *)
dispose_all ==
    /\ ~shut /\ shut' = TRUE
    /\ entries' = <<>>
    /\ UNCHANGED <<aFiles, stale, task, gone, faults, created, handed, unlucky>>

RootRemoved ==
    /\ shut /\ ~gone /\ gone' = TRUE
    /\ aFiles' = {}
    /\ UNCHANGED <<entries, stale, task, shut, faults, created, handed, unlucky>>

ArtifactExpires(a) ==
    /\ a \in created \ stale
    /\ stale' = stale \cup {a}
    /\ UNCHANGED <<entries, aFiles, task, faults, artHist, unlucky>>

ArtNext ==
    \/ \E k \in Tasks, a \in Artifacts : CreateWrites(k, a)
    \/ \E k \in Tasks : CreateInserts(k)
    \/ \E k \in Tasks, a \in Artifacts : UploadReserves(k, a)
    \/ \E k \in Tasks : UploadWrites(k)
    \/ \E k \in Tasks : UploadFails(k)
    \/ \E k \in Tasks : UploadAttaches(k)
    \/ \E k \in Tasks, ok \in BOOLEAN : UploadDiscards(k, ok)
    \/ \E k \in Tasks, a \in Artifacts : DeleteTakes(k, a)
    \/ \E k \in Tasks, a \in Artifacts : ExpiredTakes(k, a)
    \/ \E k \in Tasks, ok \in BOOLEAN : RemoveFiles(k, ok)
    \/ \E k \in Tasks : RestoreEntry(k)
    \/ \E k \in Tasks, a \in Artifacts : claim_handoff(k, a)
    \/ \E k \in Tasks : HandoffWrites(k)
    \/ \E k \in Tasks : HandoffFails(k)
    \/ \E k \in Tasks : release_handoff(k)
    \/ dispose_all
    \/ RootRemoved
    \/ \E a \in Artifacts : ArtifactExpires(a)

ArtSpec == ArtInit /\ [][ArtNext]_artVars
-----------------------------------------------------------------------------
(* Artifacts: types; an artifact is never claimed while its PNG uploads.   *)
ArtTypeOK ==
    /\ Stored \subseteq created /\ created \subseteq Artifacts
    /\ \A a \in Stored : entries[a] \in [png : BOOLEAN, uploading : BOOLEAN, claimed : BOOLEAN]
    /\ aFiles \subseteq Artifacts \X {"json", "png"}
    /\ faults \in 0..MaxFaults

(* The one permitted terminal write happens at most once, whatever uploads,*)
(* deletions, sweeps and failed removals do around it (claim_handoff,      *)
(* release_handoff, the entries put back by delete and sweep_expired).     *)
OneHandoff == \A a \in Artifacts : handed[a] <= 1

Busy(a) == \E k \in Tasks : task[k] # NoTask /\ task[k].a = a

(* When no task works on an artifact, its files are on disk exactly when   *)
(* it has an entry, except where a removal failed: an upload that loses    *)
(* against a deletion or an expiry takes its PNG with it.                  *)
NoOrphanFile ==
    \A a \in created : ~Busy(a) /\ a \notin unlucky /\ ~shut =>
        {f \in aFiles : f[1] = a} = IF a \in Stored THEN paths_for(a, entries[a]) ELSE {}

(* An upload reservation does not outlive its upload, so that the artifact *)
(* can still be handed off; except where a removal failed.                 *)
ReservationEnds ==
    \A a \in Stored : entries[a].uploading /\ a \notin unlucky =>
        \E k \in Tasks : task[k].pc \in {"write", "attach"} /\ task[k].a = a

(* The terminal is given paths of files that exist, unless the artifact    *)
(* expired, the server shut down or a removal failed in between: no        *)
(* deletion comes between the claim and the write.                         *)
HandoffNamesFiles ==
    \A k \in Tasks : task[k].pc = "terminal" =>
        task[k].paths \subseteq aFiles \/ task[k].a \in stale \cup unlucky \/ shut

(* Every artifact is accounted for: its files, its reservation and its one *)
(* handoff (browser_debug/store.rs and its API).                           *)
ArtifactsAccounted ==
    ArtTypeOK /\ OneHandoff /\ NoOrphanFile /\ ReservationEnds /\ HandoffNamesFiles
=============================================================================
