---------------------------- MODULE FsTransfers ----------------------------
(***************************************************************************)
(* File transfers over the WebSocket (server/src/api/ws.rs, server/src/fs).*)
(* Each connection has a reader loop that handles one message at a time;   *)
(* what several connections, other programs and the clock do to the disk   *)
(* interleaves with the stages of a handler.  A transfer is a write        *)
(* (guarded by the modification time the client read), an upload, an       *)
(* encrypted put, bound to an OPAQUE session, or an encrypted save         *)
(* (fs:put_save).  A chunk is one unit long;                               *)
(* the n-th chunk of transfer b is the number n in a body tagged b, so a   *)
(* file shows who wrote it and whether it is whole.                        *)
(***************************************************************************)
EXTENDS Naturals, Sequences, FiniteSets

CONSTANTS
  NoFile,         \* no file, transfer, session, time or view
  Dropped,        \* the correlation of a header that was refused
  Conns,          \* connections
  Files,          \* names in the target directory
  Sids,           \* OPAQUE session ids
  Idents,         \* OPAQUE identifiers
  SizeCap,        \* FS_WRITE_MAX, MAX_UPLOAD_BYTES: chunks a transfer may declare
  KeyCap,         \* live logins and keys of a connection (16 in the code)
  MaxTime,        \* bound: seconds that pass
  MaxRoot,        \* bound: directories that take the target's place
  MaxBegun,       \* bound: transfers a connection begins
  MaxEdits,       \* bound: edits by other programs
  Targeted,       \* bound: the names transfers and edits use
  FsMenus         \* the message kinds a behaviour uses, one set chosen at the start

ASSUME FsAssumption ==
  /\ {SizeCap, KeyCap} \subseteq Nat \ {0}
  /\ {MaxTime, MaxRoot, MaxBegun, MaxEdits} \subseteq Nat

VARIABLES
  fsmenu,         \* the message kinds of this behaviour
  fsRoot,           \* identity of the directory the target path names now
  dirs,           \* identity -> name -> file or NoFile
  now,            \* the clock, in seconds (mtimes are seconds)
  edits,          \* edits made by other programs so far
  wsconn,         \* connection -> its reader's local state
  registrations   \* identifier -> the connection whose envelope is stored, or NoFile

fsvars == <<fsmenu, fsRoot, dirs, now, edits, wsconn, registrations>>

Kinds == {"write", "upload", "put"}
IdleJob == [at |-> "idle"]
Whole(x) == [by |-> x.by, chunks |-> [i \in 1 .. x.want |-> i]]

(* An in-flight transfer: the identity its target had when it was bound,   *)
(* the directory its temporary file was made in, declared and received     *)
(* chunks, the expected mtime (NoFile when none) and what the client saw.  *)
NewTransfer(c, k, f, n, sid, expect, saw) ==
  [kind |-> k, by |-> <<c, wsconn[c].begun + 1>>, file |-> f, root |-> fsRoot,
   dir |-> 0, want |-> n, have |-> <<>>, stamp |-> 0, sid |-> sid,
   expect |-> expect, saw |-> saw]

FsInit ==
  /\ fsmenu \in FsMenus
  /\ fsRoot = 1 /\ now = 0 /\ edits = 0
  /\ dirs = [r \in 1 .. MaxRoot + 1 |-> [f \in Files |->
               IF r = 1 THEN [body |-> [by |-> <<"edit", 0>>, chunks |-> <<>>], mtime |-> 0]
               ELSE NoFile]]
  /\ wsconn = [c \in Conns |->
       [open |-> TRUE, xfers |-> [k \in Kinds |-> NoFile], pending |-> NoFile,
        keys |-> {}, logins |-> {}, view |-> NoFile, begun |-> 0, job |-> IdleJob]]
  /\ registrations = [i \in Idents |-> NoFile]

OnlyConn(c, new) ==
  /\ wsconn' = [wsconn EXCEPT ![c] = new]
  /\ UNCHANGED <<fsmenu, fsRoot, dirs, now, edits, registrations>>
Reads(c, kind) == wsconn[c].open /\ wsconn[c].job = IdleJob /\ wsconn[c].pending = NoFile /\ kind \in fsmenu
Works(c, at) == wsconn[c].open /\ wsconn[c].job.at = at
Answer(c) == [wsconn[c] EXCEPT !.job = IdleJob]     \* the handler sends its result
AtJob(c, j) == [wsconn[c] EXCEPT !.job = j]

(* The sandbox: an existing path resolves to a file under the target, a    *)
(* new one only needs its directory, which the target root always is.      *)
validate_target(f) == dirs[fsRoot][f] # NoFile
validate_new_target_path(f) == f \in Files

(***************************************************************************)
(* Reading: the modification time is taken before the bytes are.           *)
(***************************************************************************)
do_fs_read(c, f) ==
  /\ Reads(c, "write") /\ validate_target(f)
  /\ OnlyConn(c, AtJob(c, [at |-> "bytes", file |-> f, mtime |-> dirs[fsRoot][f].mtime]))

read_file(c) ==
  /\ Works(c, "bytes")
  /\ LET f == dirs[fsRoot][wsconn[c].job.file] IN
     OnlyConn(c, IF f = NoFile THEN Answer(c)
                 ELSE [Answer(c) EXCEPT !.view =
                   [file |-> wsconn[c].job.file, mtime |-> wsconn[c].job.mtime, body |-> f.body]])

(***************************************************************************)
(* Beginning a transfer binds it to the identity of the target directory;  *)
(* the temporary file is made by path, a step later.                       *)
(***************************************************************************)
FsWriteBegin(c, n) ==
  /\ Reads(c, "write") /\ wsconn[c].view # NoFile /\ wsconn[c].begun < MaxBegun
  /\ n <= SizeCap
  /\ LET v == wsconn[c].view IN
     /\ validate_target(v.file)
     /\ OnlyConn(c, AtJob(c, [at |-> "temp",
          x |-> NewTransfer(c, "write", v.file, n, NoFile, v.mtime, v.body)]))

do_upload_begin(c, f, n) ==
  /\ Reads(c, "upload") /\ wsconn[c].begun < MaxBegun
  /\ n <= SizeCap /\ validate_new_target_path(f)
  /\ OnlyConn(c, AtJob(c, [at |-> "temp", x |-> NewTransfer(c, "upload", f, n, NoFile, NoFile, NoFile)]))

do_enc_put_begin(c, f, n, sid) ==
  /\ Reads(c, "put") /\ wsconn[c].begun < MaxBegun
  /\ sid \in wsconn[c].keys
  /\ n <= SizeCap /\ wsconn[c].xfers["put"] = NoFile
  /\ \E guard \in BOOLEAN:
       LET v == wsconn[c].view
           guarded == guard /\ v # NoFile /\ v.file = f IN
       OnlyConn(c, AtJob(c, [at |-> "temp",
         x |-> NewTransfer(c, "put", f, n, sid, IF guarded THEN v.mtime ELSE NoFile,
                           IF guarded THEN v.body ELSE NoFile)]))

(* The temporary file: an IO error ends the transfer before it is kept;    *)
(* an upload begun under an id in use replaces the one before it.          *)
KeepTransfer(c) ==
  /\ Works(c, "temp")
  /\ \/ OnlyConn(c, Answer(c))
     \/ LET x == wsconn[c].job.x IN
        OnlyConn(c, [Answer(c) EXCEPT
          !.xfers[x.kind] = [x EXCEPT !.dir = fsRoot, !.stamp = now], !.begun = @ + 1])

(***************************************************************************)
(* A chunk is a text header and, right behind it, a binary frame (a write  *)
(* may also send it as text).  The header leaves a correlation for the     *)
(* frame; a header that is refused leaves none, and the frame is dropped.  *)
(***************************************************************************)
Drop(c, k) == [wsconn[c] EXCEPT !.xfers[k] = NoFile]
NextSeq(x) == Len(x.have) + 1
Append1(x, n) == [x EXCEPT !.have = Append(@, n), !.stamp = now]
FitsWrite(x) == Len(x.have) + 1 <= x.want
append_chunk(x) == Len(x.have) + 1 <= (IF x.want > SizeCap THEN x.want ELSE SizeCap)

FsWriteChunk(c, n) ==
  /\ Reads(c, "write") /\ wsconn[c].xfers["write"] # NoFile
  /\ LET x == wsconn[c].xfers["write"] IN
     \/ n # NextSeq(x) /\ OnlyConn(c, Drop(c, "write"))
     \/ n = NextSeq(x) /\ ~FitsWrite(x) /\ OnlyConn(c, Drop(c, "write"))
     \/ n = NextSeq(x) /\ FitsWrite(x)
        /\ OnlyConn(c, [wsconn[c] EXCEPT !.xfers["write"] = Append1(x, n)])

(* The binary header: unknown transfers and chunks out of order leave no   *)
(* correlation (out of order also aborts); puts are checked by the frame.  *)
ChunkHeader(c, k, n) ==
  /\ Reads(c, k)
  /\ LET x == wsconn[c].xfers[k]
         at(p) == [wsconn[c] EXCEPT !.pending = p, !.job = [at |-> "frame", kind |-> k, seq |-> n]] IN
     \/ x = NoFile /\ k # "put" /\ OnlyConn(c, at(Dropped))
     \/ x # NoFile /\ k # "put" /\ n # NextSeq(x)
        /\ OnlyConn(c, [at(Dropped) EXCEPT !.xfers[k] = NoFile])
     \/ k = "put" /\ OnlyConn(c, at([kind |-> k, seq |-> n]))
     \/ x # NoFile /\ k # "put" /\ n = NextSeq(x) /\ OnlyConn(c, at([kind |-> k, seq |-> n]))

TakePending(c) == [Answer(c) EXCEPT !.pending = NoFile]     \* pending_binary.take()

(* The frame carries the chunk its header announced; it is applied to the  *)
(* transfer the correlation names, if that is still there.                 *)
Frame(c) ==
  /\ Works(c, "frame")
  /\ LET p == wsconn[c].pending
         n == wsconn[c].job.seq
         k == p.kind
         x == wsconn[c].xfers[k]
         gone == [TakePending(c) EXCEPT !.xfers[k] = NoFile] IN
     \/ p = Dropped /\ OnlyConn(c, TakePending(c))
     \/ p # Dropped /\ x = NoFile /\ OnlyConn(c, TakePending(c))
     \/ p # Dropped /\ x # NoFile /\ k = "put" /\ p.seq # NextSeq(x) /\ OnlyConn(c, gone)
     \/ p # Dropped /\ x # NoFile /\ k = "write" /\ ~FitsWrite(x) /\ OnlyConn(c, gone)
     \/ p # Dropped /\ x # NoFile /\ k # "write" /\ p.seq = NextSeq(x) /\ ~append_chunk(x) /\ OnlyConn(c, gone)
     \/ p # Dropped /\ x # NoFile /\ (k = "put" => p.seq = NextSeq(x))
        /\ (IF k = "write" THEN FitsWrite(x) ELSE append_chunk(x))
        /\ OnlyConn(c, [TakePending(c) EXCEPT !.xfers[k] = Append1(x, n)])

(***************************************************************************)
(* Committing: the session's transfer is removed first, then checked,      *)
(* revalidated against the target's identity and persisted through a       *)
(* directory handle: open the bound directory, compare the modification    *)
(* time, rename, and read the new modification time back.                  *)
(***************************************************************************)
Complete(x) == Len(x.have) = x.want

Commits(c, k, ok) ==
  /\ Reads(c, k) /\ wsconn[c].xfers[k] # NoFile
  /\ LET x == wsconn[c].xfers[k] IN
     \/ ~ok /\ OnlyConn(c, Drop(c, k))
     \/ ok /\ OnlyConn(c, [Drop(c, k) EXCEPT !.job = [at |-> "revalidate", x |-> x]])

HasKey(c, sid) == sid \in wsconn[c].keys

FsWriteCommit(c) == Commits(c, "write", Complete(wsconn[c].xfers["write"]))
FsUploadCommit(c) == Commits(c, "upload", TRUE)      \* the length is checked after revalidation
FsPutCommit(c) ==
  LET x == wsconn[c].xfers["put"] IN Commits(c, "put", HasKey(c, x.sid) /\ Complete(x))

(* fs:put_save resolves and binds at its header and carries the whole text *)
(* in the frame behind it; the key is looked up again for the frame.       *)
FsPutSave(c, f, sid) ==
  /\ Reads(c, "save") /\ wsconn[c].begun < MaxBegun
  /\ HasKey(c, sid) /\ validate_target(f)
  /\ OnlyConn(c, [wsconn[c] EXCEPT
       !.begun = @ + 1, !.pending = [kind |-> "save", seq |-> 1],
       !.job = [at |-> "save",
                x |-> [NewTransfer(c, "save", f, 1, sid, NoFile, NoFile) EXCEPT !.have = <<1>>]]])

handle_enc_put_save_binary(c) ==
  /\ Works(c, "save")
  /\ LET x == wsconn[c].job.x
         taken == [wsconn[c] EXCEPT !.pending = NoFile] IN
     /\ HasKey(c, x.sid)
     /\ OnlyConn(c, [taken EXCEPT !.job = [at |-> "revalidate", x |-> x]])

revalidate_bound_path(c) ==
  /\ Works(c, "revalidate")
  /\ LET x == wsconn[c].job.x
         same == fsRoot = x.root
         there == IF x.kind \in {"upload", "put"} THEN validate_new_target_path(x.file)
                  ELSE validate_target(x.file) IN
     \/ ~(same /\ there) /\ OnlyConn(c, Answer(c))
     \/ same /\ there /\ x.kind = "upload" /\ ~Complete(x) /\ OnlyConn(c, Answer(c))
     \/ same /\ there /\ (x.kind = "upload" => Complete(x))
        /\ OnlyConn(c, AtJob(c, [at |-> "open", x |-> x]))

\* Mutant: a reinitialised sandbox does not end the transfers of the old root.
SameRoot_Unchecked(x) == TRUE

(* open_parent with the expected identity; an encrypted transfer is        *)
(* decrypted before it is written, which fails on a wrong key.             *)
SameRoot(x) == fsRoot = x.root
decrypt_blob_fails(x) == x.sid # NoFile     \* possible for every encrypted transfer

open_parent(c) ==
  /\ Works(c, "open")
  /\ LET x == wsconn[c].job.x IN
     \/ ~SameRoot(x) /\ OnlyConn(c, Answer(c))
     \/ decrypt_blob_fails(x) /\ OnlyConn(c, Answer(c))
     \/ SameRoot(x) /\ OnlyConn(c, AtJob(c, [at |-> "check", x |-> x, fd |-> fsRoot]))

check_expected_mtime(x, fd) ==
  x.expect = NoFile \/ (dirs[fd][x.file] # NoFile /\ dirs[fd][x.file].mtime = x.expect)

CheckMtime(c) ==
  /\ Works(c, "check")
  /\ LET x == wsconn[c].job.x
         fd == wsconn[c].job.fd IN
     \/ ~check_expected_mtime(x, fd) /\ OnlyConn(c, Answer(c))
     \/ check_expected_mtime(x, fd)
        /\ OnlyConn(c, AtJob(c, [wsconn[c].job EXCEPT !.at = "rename",
                                  !.x.stamp = IF x.sid # NoFile THEN now ELSE @,
                                  !.x.dir = IF x.sid # NoFile THEN fd ELSE @]))

(* renameat finds the temporary file only in the directory it was made in. *)
rename_at(c) ==
  /\ Works(c, "rename")
  /\ LET x == wsconn[c].job.x
         fd == wsconn[c].job.fd IN
     \/ OnlyConn(c, Answer(c))
     \/ /\ x.dir = fd
        /\ dirs' = [dirs EXCEPT ![fd][x.file] = [body |-> [by |-> x.by, chunks |-> x.have], mtime |-> x.stamp]]
        /\ wsconn' = [wsconn EXCEPT ![c].job = [at |-> "stat", x |-> x, fd |-> fd]]
        /\ UNCHANGED <<fsmenu, fsRoot, now, edits, registrations>>

(* The answer's new_mtime: whatever the name has after the rename.         *)
stat_mtime_after_rename(c) ==
  /\ Works(c, "stat")
  /\ LET x == wsconn[c].job.x
         f == dirs[wsconn[c].job.fd][x.file] IN
     OnlyConn(c, [Answer(c) EXCEPT !.view =
       IF x.kind = "write" /\ f # NoFile
       THEN [file |-> x.file, mtime |-> f.mtime, body |-> Whole(x)] ELSE @])

(***************************************************************************)
(* fs:op: creating tests that the name is free and then truncates it;      *)
(* renaming replaces its destination; deleting removes.                    *)
(***************************************************************************)
create_file(c, f) ==
  /\ Reads(c, "op") /\ dirs[fsRoot][f] = NoFile
  /\ OnlyConn(c, AtJob(c, [at |-> "create", file |-> f]))

PutFile(c, r, f, v) ==
  /\ dirs' = [dirs EXCEPT ![r][f] = v]
  /\ wsconn' = [wsconn EXCEPT ![c] = Answer(c)]
  /\ UNCHANGED <<fsmenu, fsRoot, now, edits, registrations>>

CreateTruncates(c) ==
  /\ Works(c, "create")
  /\ PutFile(c, fsRoot, wsconn[c].job.file,
             [body |-> [by |-> <<"edit", 0>>, chunks |-> <<>>], mtime |-> now])

fs_delete(c, f) ==
  /\ Reads(c, "op") /\ dirs[fsRoot][f] # NoFile
  /\ PutFile(c, fsRoot, f, NoFile)

fs_rename(c, f, g) ==
  /\ Reads(c, "op") /\ dirs[fsRoot][f] # NoFile /\ f # g
  /\ dirs' = [dirs EXCEPT ![fsRoot][f] = NoFile, ![fsRoot][g] = dirs[fsRoot][f]]
  /\ UNCHANGED <<fsmenu, fsRoot, now, edits, wsconn, registrations>>

(***************************************************************************)
(* OPAQUE: a registration is refused when the identifier is taken, unless  *)
(* the client asks to overwrite; the envelope is computed off the reader   *)
(* and stored later.  Keys belong to the connection and die with it.       *)
(***************************************************************************)
AuthRegisterFinish(c, i, overwrite) ==
  /\ Reads(c, "auth")
  /\ overwrite \/ registrations[i] = NoFile
  /\ OnlyConn(c, AtJob(c, [at |-> "register", ident |-> i, overwrite |-> overwrite]))

handle_register_finish(c) ==
  /\ Works(c, "register")
  /\ \/ OnlyConn(c, Answer(c))
     \/ /\ registrations' = [registrations EXCEPT ![wsconn[c].job.ident] = c]
        /\ wsconn' = [wsconn EXCEPT ![c] = Answer(c)]
        /\ UNCHANGED <<fsmenu, fsRoot, dirs, now, edits>>

AuthLoginStart(c, sid) ==
  /\ Reads(c, "auth") /\ Cardinality(wsconn[c].logins) < KeyCap
  /\ sid \notin wsconn[c].logins \cup wsconn[c].keys
  /\ OnlyConn(c, [wsconn[c] EXCEPT !.logins = @ \cup {sid}])

AuthLoginFinish(c, sid) ==
  /\ Reads(c, "auth") /\ sid \in wsconn[c].logins
  /\ Cardinality(wsconn[c].keys) < KeyCap
  /\ \E good \in BOOLEAN:
       OnlyConn(c, [wsconn[c] EXCEPT !.logins = @ \ {sid},
                                     !.keys = IF good THEN @ \cup {sid} ELSE @])

AuthSessionRemove(c, sid) ==
  /\ Reads(c, "auth") /\ sid \in wsconn[c].keys
  /\ OnlyConn(c, [wsconn[c] EXCEPT !.keys = @ \ {sid}])

(* The connection ends between messages: its temporary files, keys and     *)
(* half-done logins go with the reader's locals.                           *)
CloseConnection(c) ==
  /\ wsconn[c].open /\ wsconn[c].job = IdleJob
  /\ OnlyConn(c, [wsconn[c] EXCEPT !.open = FALSE, !.xfers = [k \in Kinds |-> NoFile],
                                   !.pending = NoFile, !.keys = {}, !.logins = {}, !.view = NoFile])

(***************************************************************************)
(* The rest of the machine.                                                *)
(***************************************************************************)
ExternalEdit(f) ==
  /\ "edit" \in fsmenu /\ edits < MaxEdits /\ edits' = edits + 1
  /\ dirs' = [dirs EXCEPT ![fsRoot][f] = [body |-> [by |-> <<"edit", edits + 1>>, chunks |-> <<>>], mtime |-> now]]
  /\ UNCHANGED <<fsmenu, fsRoot, now, wsconn, registrations>>

ReplaceTarget ==
  /\ "replace" \in fsmenu /\ fsRoot <= MaxRoot /\ fsRoot' = fsRoot + 1
  /\ dirs' = [dirs EXCEPT ![fsRoot + 1] = [f \in Files |-> [body |-> [by |-> <<"edit", 0>>, chunks |-> <<>>], mtime |-> now]]]
  /\ UNCHANGED <<fsmenu, now, edits, wsconn, registrations>>

ClockTick ==
  /\ "tick" \in fsmenu /\ now < MaxTime /\ now' = now + 1
  /\ UNCHANGED <<fsmenu, fsRoot, dirs, edits, wsconn, registrations>>

FsNext ==
  \/ \E c \in Conns: \/ read_file(c) \/ KeepTransfer(c) \/ FsWriteCommit(c) \/ FsUploadCommit(c) \/ FsPutCommit(c)
                     \/ handle_enc_put_save_binary(c) \/ Frame(c) \/ revalidate_bound_path(c)
                     \/ open_parent(c) \/ CheckMtime(c) \/ rename_at(c) \/ stat_mtime_after_rename(c)
                     \/ CreateTruncates(c) \/ handle_register_finish(c) \/ CloseConnection(c)
  \/ \E c \in Conns, f \in Targeted: do_fs_read(c, f)
  \/ \E c \in Conns, f \in Files: create_file(c, f) \/ fs_delete(c, f)
  \/ \E c \in Conns, f, g \in Files: fs_rename(c, f, g)
  \/ \E c \in Conns, n \in 1 .. SizeCap + 1: FsWriteBegin(c, n) \/ FsWriteChunk(c, n)
  \/ \E c \in Conns, n \in 1 .. SizeCap, f \in Targeted: do_upload_begin(c, f, n)
  \/ \E c \in Conns, n \in 1 .. SizeCap, f \in Targeted, s \in Sids: do_enc_put_begin(c, f, n, s)
  \/ \E c \in Conns, k \in Kinds, n \in 1 .. SizeCap + 1: ChunkHeader(c, k, n)
  \/ \E c \in Conns, f \in Targeted, s \in Sids: FsPutSave(c, f, s)
  \/ \E c \in Conns, i \in Idents, o \in BOOLEAN: AuthRegisterFinish(c, i, o)
  \/ \E c \in Conns, s \in Sids: AuthLoginStart(c, s) \/ AuthLoginFinish(c, s) \/ AuthSessionRemove(c, s)
  \/ \E f \in Targeted: ExternalEdit(f)
  \/ ReplaceTarget
  \/ ClockTick
FsSpec == FsInit /\ [][FsNext]_fsvars

(***************************************************************************)
(* Properties                                                              *)
(***************************************************************************)
Bodies == [by : (Conns \X Nat) \cup ({"edit"} \X Nat), chunks : Seq(Nat)]
FsTypeOK ==
  /\ fsRoot \in 1 .. MaxRoot + 1 /\ now \in 0 .. MaxTime /\ edits \in 0 .. MaxEdits
  /\ \A r \in DOMAIN dirs, f \in Files: dirs[r][f] = NoFile \/ dirs[r][f].body \in Bodies
  /\ \A c \in Conns: /\ wsconn[c].keys \subseteq Sids /\ wsconn[c].logins \subseteq Sids
                     /\ Cardinality(wsconn[c].keys) <= KeyCap
                     /\ wsconn[c].begun \in 0 .. MaxBegun
  /\ registrations \in [Idents -> Conns \cup {NoFile}]

(* No reader ever finds a part of a transfer, a chunk twice, or chunks of  *)
(* two transfers under a name: what is there is an edit or the chunks of   *)
(* one transfer, in order and as many as it declared (the seq and size     *)
(* checks of writes, uploads and puts).                                    *)
WholeFiles ==
  \A r \in DOMAIN dirs, f \in Files: dirs[r][f] # NoFile =>
    LET b == dirs[r][f].body IN
    /\ \A i \in 1 .. Len(b.chunks): b.chunks[i] = i
    /\ \A c \in Conns: wsconn[c].job.at = "stat" /\ wsconn[c].job.x.by = b.by
                         => b = Whole(wsconn[c].job.x)

(* A transfer bound to one directory never appears in the directory that   *)
(* took its place, however late it commits (persist_temp's identity check  *)
(* on the opened handle, not the revalidation before it).                  *)
CommitKeepsBinding ==
  \A c \in Conns: wsconn[c].job.at \in {"check", "rename", "stat"} =>
    wsconn[c].job.fd = wsconn[c].job.x.root

(* An encrypted transfer whose session was removed after it began is never *)
(* stored: the key is looked up again when it commits (fs:put_commit).     *)
RemovedKeyNotUsed ==
  \A c \in Conns: wsconn[c].job.at \in {"revalidate", "open", "check", "rename", "stat"} =>
    wsconn[c].job.x.sid \in wsconn[c].keys \cup {NoFile}

(* Chunked writes, uploads and encrypted puts of several sockets store     *)
(* whole files, in the directory they were bound to, under a key that      *)
(* still stands (ws.rs, fs/ops.rs, upload.rs).                             *)
TransfersAreWhole == FsTypeOK /\ WholeFiles /\ CommitKeepsBinding /\ RemovedKeyNotUsed
=============================================================================
