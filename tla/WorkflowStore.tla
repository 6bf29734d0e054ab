---------------------------- MODULE WorkflowStore ----------------------------
(***************************************************************************)
(* The workflow service: work items, work sessions, notes and the activity *)
(* history, and the HTTP handlers that change them                         *)
(* (server/src/workflow: store, service, model; api/workflow).             *)
(*                                                                         *)
(* A handler runs some reads (the replay check, the version check, the     *)
(* checks of the model) as store calls of their own and then commits in    *)
(* one transaction, which checks again.  Other handlers run in between.    *)
(* Titles, bodies and summaries are left out: they are checked for length  *)
(* and stored.                                                             *)
(***************************************************************************)
EXTENDS Integers, FiniteSets

CONSTANTS
    Menus,         \* sets of requests; clients send those of one, again and again
    Callers,       \* handlers that may run at the same time
    ItemIds, WorkIds, NoteIds,   \* the UUIDs the server may draw
    ObsIds,        \* ids of observation events, which are not UUIDs
    MaxNow,        \* bound on the clock
    PageLimit,     \* events asked for per page
    MaxOverview    \* MAX_OVERVIEW_ITEMS

ASSUME StoreBounds == MaxNow \in Nat \ {0} /\ PageLimit \in Nat \ {0} /\ MaxOverview \in Nat

VARIABLES
    items, works, notes,   \* the tables, by id
    events,                \* workflow_events: set of [id, at, item, work, kind]
    calls,                 \* the handler between its checks and its commit
    made,                  \* pairs of a request id and a resource it created
    menu,                  \* the requests of this behaviour
    now,                   \* the server's clock
    reader                 \* a client that pages through the history

tables  == <<items, works, notes, events, made>>
wsVars == <<tables, menu, calls, now, reader>>

None == "none"
ItemKinds      == {"plan", "phase", "task"}
ItemStatuses   == {"backlog", "next", "in_progress", "blocked", "done", "canceled"}
WorkStatuses   == {"running", "ended", "abandoned"}
NoRow == [ver |-> 0]
NoRequest == [op |-> "idle"]
NoCursor == [id |-> 0]

\* Reading the history, purging it and observing terminals have no body.
Asked(op) == \E q \in menu : q.op = op
Bodyless == {"read", "purge", "observe"}

(************************** Rules of the data model *************************)

validate_item_transition(from, to) ==
    \/ from = to
    \/ from = "backlog"     /\ to \in {"next", "in_progress", "canceled"}
    \/ from = "next"        /\ to \in {"backlog", "in_progress", "canceled"}
    \/ from = "in_progress" /\ to \in ItemStatuses
    \/ from = "blocked"     /\ to \in {"in_progress", "canceled"}
    \/ from \in {"done", "canceled"} /\ to = "in_progress"

validate_session_transition(from, to) == from = to \/ from = "running"

\* Plan: no parent.  Phase: below a plan.  Task: alone, below a plan or phase.
validate_item_hierarchy(kind, parentKind) ==
    \/ kind = "plan"  /\ parentKind = None
    \/ kind = "phase" /\ parentKind = "plan"
    \/ kind = "task"  /\ parentKind \in {None, "plan", "phase"}

ItemExists(i) == items[i] # NoRow
WorkExists(w) == works[w] # NoRow
NoteExists(n) == notes[n] # NoRow
Fresh(ids, table) == {x \in ids : table[x] = NoRow}
ParentKind(p) == IF p = None THEN None ELSE items[p].kind

\* A stored row's next updated_at: never the same and never backwards.
NextVersion(row, at) == IF at > row.ver THEN at ELSE row.ver + 1

\* A delete cascades: items to their descendants and notes, while the work
\* sessions of a deleted item keep running without it.
Below(i) == {j \in ItemIds : ItemExists(j) /\ items[j].parent = i}
Subtree(i) == {i} \cup Below(i) \cup UNION {Below(j) : j \in Below(i)}

Event(q, at, i, w) == [id |-> q.rid, at |-> at, item |-> i, work |-> w, kind |-> q.op]

\* record_event_tx: INSERT OR IGNORE by id.
record_event(e) ==
    events' = IF \E f \in events : f.id = e.id THEN events ELSE events \cup {e}

(********************** First part of a handler: reads **********************)

Replayed(q) == \E e \in events : e.id = q.rid

\* The checks a handler makes before its transaction.
MayCreateItem(q) ==
    q.parent # None => ItemExists(q.parent) /\ items[q.parent].project = q.project
MayStart(q) == q.item # None => ItemExists(q.item) /\ items[q.item].project = q.project
MayPatch(q) ==
    /\ ItemExists(q.item) /\ items[q.item].ver = q.expected
    /\ validate_item_transition(items[q.item].status, q.status)
MayDelete(q) == ItemExists(q.item) /\ items[q.item].ver = q.expected
MayEnd(q) ==
    /\ WorkExists(q.work) /\ validate_session_transition(works[q.work].status, q.status)
    /\ q.status = "ended" => q.at >= works[q.work].start
MayNote(q) ==
    /\ q.item # None \/ q.work # None
    /\ q.item # None => ItemExists(q.item)
    /\ q.work # None => WorkExists(q.work)
MayDeleteNote(q) == NoteExists(q.note) /\ notes[q.note].ver = q.expected

Passes(q) ==
    CASE q.op = "create"  -> MayCreateItem(q) /\ validate_item_hierarchy(q.kind, ParentKind(q.parent))
      [] q.op = "patch"   -> MayPatch(q)
      [] q.op = "delete"  -> MayDelete(q)
      [] q.op = "start"   -> MayStart(q)
      [] q.op = "end"     -> MayEnd(q)
      [] q.op = "note"    -> MayNote(q)
      [] q.op = "unnote"  -> MayDeleteNote(q)

\* A request whose id is in the history is answered from the current rows; one
\* that fails a check is refused.  Neither changes anything, so only a
\* request that reaches its transaction is a step.
Check(c, q) ==
    /\ calls[c] = NoRequest /\ q.op \notin Bodyless
    /\ ~Replayed(q) /\ Passes(q)
    /\ calls' = [calls EXCEPT ![c] = [op |-> q.op, req |-> q, at |-> now]]
    /\ UNCHANGED <<tables, menu, now, reader>>

(***************** Second part of a handler: the transaction ****************)

Returns(c) == calls' = [calls EXCEPT ![c] = NoRequest] /\ UNCHANGED <<menu, now, reader>>
RolledBack(c) == Returns(c) /\ UNCHANGED tables
Running(c, op) == calls[c].op = op

\* create_item_tx.  The id is drawn by this handler, so the look-up of an
\* earlier item under the same request id never finds one.
CreateChecks(q) ==
    /\ q.parent # None => /\ ItemExists(q.parent)
                          /\ items[q.parent].project = q.project
                          /\ items[q.parent].tree = q.tree
    /\ validate_item_hierarchy(q.kind, ParentKind(q.parent))

create_item(c) ==
    /\ Running(c, "create")
    /\ LET q == calls[c].req IN
       \/ /\ CreateChecks(q)
          /\ \E i \in Fresh(ItemIds, items) :
               /\ items' = [items EXCEPT ![i] =
                     [ver |-> calls[c].at, kind |-> q.kind, parent |-> q.parent,
                      project |-> q.project, tree |-> q.tree, status |-> "backlog"]]
               /\ made' = made \cup {<<q.rid, i>>}
               /\ record_event(Event(q, calls[c].at, i, None))
          /\ UNCHANGED <<works, notes>> /\ Returns(c)
       \/ /\ ~CreateChecks(q) /\ RolledBack(c)

\* Mutant: the expected version is not compared.
CasHolds_Always(row, q) == TRUE

\* The version and transition checks of update_item_tx_cas.
CasHolds(row, q) == row.ver = q.expected
PatchChecks(q) ==
    /\ ItemExists(q.item) /\ CasHolds(items[q.item], q)
    /\ validate_item_transition(items[q.item].status, q.status)

update_item(c) ==
    /\ Running(c, "patch")
    /\ LET q == calls[c].req IN
       \/ /\ PatchChecks(q)
          /\ items' = [items EXCEPT ![q.item] =
                [@ EXCEPT !.status = q.status, !.ver = NextVersion(items[q.item], calls[c].at),
                          !.tree = IF q.tree = None THEN @ ELSE q.tree]]
          /\ record_event(Event(q, calls[c].at, q.item, None))
          /\ UNCHANGED <<works, notes, made>> /\ Returns(c)
       \/ /\ ~PatchChecks(q) /\ RolledBack(c)

delete_item(c) ==
    /\ Running(c, "delete")
    /\ LET q == calls[c].req IN
       \/ /\ ItemExists(q.item) /\ CasHolds(items[q.item], q)
          /\ LET gone == Subtree(q.item) IN
             /\ items' = [i \in ItemIds |-> IF i \in gone THEN NoRow ELSE items[i]]
             /\ works' = [w \in WorkIds |-> IF WorkExists(w) /\ works[w].item \in gone
                                            THEN [works[w] EXCEPT !.item = None] ELSE works[w]]
             /\ notes' = [n \in NoteIds |-> IF NoteExists(n) /\ notes[n].item \in gone
                                            THEN NoRow ELSE notes[n]]
          /\ record_event(Event(q, calls[c].at, q.item, None))
          /\ UNCHANGED made /\ Returns(c)
       \/ /\ ~(ItemExists(q.item) /\ CasHolds(items[q.item], q)) /\ RolledBack(c)

StartChecks(q) ==
    q.item # None => /\ ItemExists(q.item)
                     /\ items[q.item].project = q.project /\ items[q.item].tree = q.tree

start_session(c) ==
    /\ Running(c, "start")
    /\ LET q == calls[c].req IN
       \/ /\ StartChecks(q)
          /\ \E w \in Fresh(WorkIds, works) :
               /\ works' = [works EXCEPT ![w] =
                     [ver |-> calls[c].at, item |-> q.item, status |-> "running",
                      start |-> q.at, end |-> 0]]
               /\ made' = made \cup {<<q.rid, w>>}
               /\ record_event(Event(q, calls[c].at, None, w))
          /\ UNCHANGED <<items, notes>> /\ Returns(c)
       \/ /\ ~StartChecks(q) /\ RolledBack(c)

\* The transition check update_session_status_tx makes in the transaction.
EndChecks(q) ==
    /\ WorkExists(q.work) /\ validate_session_transition(works[q.work].status, q.status)
    /\ q.status = "ended" => q.at >= works[q.work].start

update_session_status(c) ==
    /\ Running(c, "end")
    /\ LET q == calls[c].req IN
       \/ /\ EndChecks(q)
          /\ works' = [works EXCEPT ![q.work] =
                [@ EXCEPT !.status = q.status, !.ver = NextVersion(works[q.work], calls[c].at),
                          !.end = IF q.status = "ended" THEN q.at ELSE @]]
          /\ record_event(Event(q, calls[c].at, None, q.work))
          /\ UNCHANGED <<items, notes, made>> /\ Returns(c)
       \/ /\ ~EndChecks(q) /\ RolledBack(c)

create_note(c) ==
    /\ Running(c, "note")
    /\ LET q == calls[c].req IN
       \/ /\ MayNote(q)
          /\ \E n \in Fresh(NoteIds, notes) :
               /\ notes' = [notes EXCEPT ![n] =
                     [ver |-> calls[c].at, item |-> q.item, work |-> q.work, deleted |-> 0]]
               /\ made' = made \cup {<<q.rid, n>>}
               /\ record_event(Event(q, calls[c].at, q.item, q.work))
          /\ UNCHANGED <<items, works>> /\ Returns(c)
       \/ /\ ~MayNote(q) /\ RolledBack(c)

\* A note already soft-deleted is left alone and records no event.
soft_delete_note(c) ==
    /\ Running(c, "unnote")
    /\ LET q == calls[c].req IN
       \/ /\ NoteExists(q.note) /\ CasHolds(notes[q.note], q) /\ notes[q.note].deleted = 0
          /\ notes' = [notes EXCEPT ![q.note] =
                [@ EXCEPT !.deleted = calls[c].at, !.ver = calls[c].at]]
          /\ record_event(Event(q, calls[c].at, notes[q.note].item, notes[q.note].work))
          /\ UNCHANGED <<items, works, made>> /\ Returns(c)
       \/ /\ ~(NoteExists(q.note) /\ CasHolds(notes[q.note], q) /\ notes[q.note].deleted = 0)
          /\ RolledBack(c)

(**************************** Retention and paging **************************)

\* The process of the observation worker adds events of its own (see
\* WorkflowLinks); their ids are built from the session and the terminal.
RecordObservation ==
    /\ Asked("observe") /\ \E o \in ObsIds : ~\E e \in events : e.id = o
    /\ LET o == CHOOSE o \in ObsIds : ~\E e \in events : e.id = o IN
       events' = events \cup {[id |-> o, at |-> now, item |-> None, work |-> None, kind |-> "observed"]}
    /\ UNCHANGED <<items, works, notes, made, menu, calls, now, reader>>

\* purge_history_before, and purge_expired with the retention as its cutoff.
Purged(t) == {n \in NoteIds : NoteExists(n) /\ notes[n].deleted # 0 /\ notes[n].deleted < t}
PurgeBefore(t) ==
    /\ Asked("purge")
    /\ events' = {e \in events : e.at >= t}
    /\ notes' = [n \in NoteIds |-> IF n \in Purged(t) THEN NoRow ELSE notes[n]]
    /\ <<events, notes>>' # <<events, notes>>
    /\ reader' = [reader EXCEPT !.base = @ \cap events']
    /\ UNCHANGED <<items, works, made, menu, calls, now>>

\* Keyset order of list_events_keyset: recorded_at, then id, descending.
Newer(e, f) == e.at > f.at \/ (e.at = f.at /\ e.id > f.id)

\* Mutant: the cursor has no tie-break: events of its instant are skipped.
Rest_TieSkips(cur) == {e \in events : cur = NoCursor \/ e.at < cur.at}

Rest(cur) == {e \in events : cur = NoCursor \/ Newer(cur, e)}
Page(cur) == {e \in Rest(cur) : Cardinality({f \in Rest(cur) : Newer(f, e)}) < PageLimit}
Oldest(es) == CHOOSE e \in es : \A f \in es : f = e \/ Newer(f, e)

StartReading ==
    /\ Asked("read") /\ reader.pc = "idle" /\ events # {}
    /\ reader' = [pc |-> "reading", cursor |-> NoCursor, seen |-> {}, base |-> events]
    /\ UNCHANGED <<tables, menu, calls, now>>

\* GET /api/workflow/events.  cursor::decode refuses a cursor whose id is not
\* a UUID, which is what the id of an observation event is.
ReadPage ==
    /\ reader.pc = "reading"
    /\ LET cur == reader.cursor
           page == Page(cur)
           more == Rest(cur) # page
       IN reader' = IF cur # NoCursor /\ cur.id \in ObsIds
                    THEN [reader EXCEPT !.pc = "refused"]
                    ELSE [reader EXCEPT !.pc = IF more THEN "reading" ELSE "done",
                                        !.cursor = IF more THEN Oldest(page) ELSE NoCursor,
                                        !.seen = @ \cup page]
    /\ UNCHANGED <<tables, menu, calls, now>>

Clock ==
    /\ now < MaxNow /\ now' = now + 1
    /\ UNCHANGED <<tables, menu, calls, reader>>

WSInit ==
    /\ menu \in Menus
    /\ items = [i \in ItemIds |-> NoRow] /\ works = [w \in WorkIds |-> NoRow]
    /\ notes = [n \in NoteIds |-> NoRow] /\ events = {} /\ made = {}
    /\ calls = [c \in Callers |-> NoRequest] /\ now = 1
    /\ reader = [pc |-> "idle", cursor |-> NoCursor, seen |-> {}, base |-> {}]

(******************************** Overview **********************************)

\* The items an overview may be built from: the first MaxOverview in the
\* order of list_items (most recently updated first; ties either way).
Present == {i \in ItemIds : ItemExists(i)}
Listings ==
    {S \in SUBSET Present :
        /\ Cardinality(S) = IF Cardinality(Present) < MaxOverview THEN Cardinality(Present) ELSE MaxOverview
        /\ \A x \in S, y \in Present \ S : items[x].ver >= items[y].ver}
Truncated(S) == Cardinality(Present) > Cardinality(S)

\* build_node reaches an item only through its parents.
Shown(S) ==
    {i \in S : LET p == items[i].parent IN
        p = None \/ (p \in S /\ LET g == items[p].parent IN g = None \/ g \in S)}
Tasks(S, i) == {j \in Shown(S) \cap (Subtree(i) \ {i}) : items[j].kind = "task"}
ItemProgress(S, i) ==
    [total |-> Cardinality(Tasks(S, i)),
     completed |-> Cardinality({j \in Tasks(S, i) : items[j].status = "done"})]

WSNext ==
  \/ \E c \in Callers, q \in menu : Check(c, q)
  \/ \E c \in Callers : create_item(c)
  \/ \E c \in Callers : update_item(c)
  \/ \E c \in Callers : delete_item(c)
  \/ \E c \in Callers : start_session(c)
  \/ \E c \in Callers : update_session_status(c)
  \/ \E c \in Callers : create_note(c)
  \/ \E c \in Callers : soft_delete_note(c)
  \/ RecordObservation
  \/ \E t \in 2..MaxNow : PurgeBefore(t)
  \/ StartReading \/ ReadPage \/ Clock
WSSpec == WSInit /\ [][WSNext]_wsVars

(******************************* Properties *********************************)

\* Types of the tables and of the handlers in flight.
WorkflowTypeOK ==
    /\ \A i \in Present : items[i].kind \in ItemKinds /\ items[i].status \in ItemStatuses
    /\ \A w \in WorkIds : WorkExists(w) => works[w].status \in WorkStatuses
    /\ now \in 1..MaxNow
    /\ reader.pc \in {"idle", "reading", "done", "refused"}

\* The tree stays sound however creations, moves and deletions interleave:
\* parents exist and have the right kind, no path is deeper than three, and
\* sessions and notes name items and sessions that exist.
TreeIsSound ==
    /\ \A i \in Present : LET p == items[i].parent IN
          (p # None => p \in Present) /\ validate_item_hierarchy(items[i].kind, ParentKind(p))
    /\ \A w \in WorkIds : WorkExists(w) => works[w].item \in Present \cup {None}
    /\ \A n \in NoteIds : NoteExists(n) =>
          /\ notes[n].item \in Present \cup {None}
          /\ notes[n].work # None => WorkExists(notes[n].work)

\* No lost update: an item changes only through a handler that named the
\* version it replaces, and its version moves forward even when a handler
\* that read the clock early commits late.
NoLostItemUpdate ==
    [][\A i \in ItemIds :
         (ItemExists(i) /\ items'[i] # items[i] /\ items'[i] # NoRow) =>
            /\ items'[i].ver > items[i].ver
            /\ \E c \in Callers : Running(c, "patch") /\ calls[c].req.item = i
                                   /\ calls[c].req.expected = items[i].ver]_wsVars

\* A work session ends one way: of an end and an abandon that race, one wins.
OneEnding ==
    [][\A w \in WorkIds :
         (WorkExists(w) /\ works[w].status # "running") => works'[w].status = works[w].status]_wsVars

\* A reader that follows the cursors sees every event that was there when it
\* began and is still there, whatever was recorded or purged meanwhile.
ReaderMissesNothing ==
    reader.pc = "done" => reader.base \subseteq reader.seen

\* The overview says when it left something out: an overview that is not
\* flagged shows every item, and its progress counts every task of a plan.
OverviewIsHonest ==
    \A S \in Listings : ~Truncated(S) =>
       /\ Shown(S) = Present
       /\ \A i \in Present : items[i].kind # "task" =>
             ItemProgress(S, i).total = Cardinality({j \in Subtree(i) \ {i} : items[j].kind = "task"})

\* Only a deleted note, or the note of a deleted item, disappears.
NotesAreKept ==
    [][\A n \in NoteIds :
         (NoteExists(n) /\ notes'[n] = NoRow) =>
            notes[n].deleted # 0 \/ (notes[n].item # None /\ items'[notes[n].item] = NoRow)]_wsVars

\* Retries with the same request id return the resource of the first one.
RequestOnce == \A p, q \in made : p[1] = q[1] => p = q

\* The workflow tables stay sound and what is read from them is complete, whatever
\* handlers interleave (workflow/store, workflow/api).
WorkflowIsSound == WorkflowTypeOK /\ TreeIsSound /\ ReaderMissesNothing /\ OverviewIsHonest

\* No handler undoes another's work: items by version, endings once, notes until deleted.
WorkIsKept == NoLostItemUpdate /\ OneEnding /\ NotesAreKept
=============================================================================
