---------------------------- MODULE SessionStore ----------------------------
(***************************************************************************)
(* What the session store promises whoever calls it: the store as a state  *)
(* machine whose operations arrive in any order and with any incarnation,  *)
(* late ones included.  The persist worker, the manager's direct fallback, *)
(* restore_sessions and the port-forward manager all write to the one      *)
(* store, so nothing here assumes their order.                             *)
(***************************************************************************)
EXTENDS SessionTable

CONSTANTS Incs,     \* incarnations a caller may name
          Totals    \* total_written of a scrollback snapshot

ASSUME IncsAssumption == Incs \subseteq Nat \ {0}
ASSUME TotalsAssumption == Totals \subseteq Nat

VARIABLES db,       \* the entry of each id
          removed   \* history: the highest incarnation ever deleted, per id

vars == <<db, removed>>

Init == /\ db = [id \in Ids |-> EmptyEntry]
        /\ removed = [id \in Ids |-> 0]

\* One transaction on one id that deletes nothing.
Write(id, e) == /\ db' = [db EXCEPT ![id] = e]
                /\ UNCHANGED removed

Save(id) == \E inc \in Incs, name \in Names \cup {NoName}, unavailable \in BOOLEAN :
               Write(id, save_session(db[id], inc, name, unavailable))

MarkDead(id) == \E inc \in Incs : Write(id, mark_session_dead(db[id], inc))

MarkUnavailable(id) ==
  \E inc \in Incs : Write(id, mark_session_target_unavailable(db[id], inc))

SaveBuffer(id) ==
  \E inc \in Incs, total \in Totals : Write(id, save_buffer(db[id], inc, total))

Rename(id) == \E inc \in Incs, name \in Names \cup {NoName} :
                 Write(id, rename_session(db[id], inc, name))

Delete(id) == \E inc \in Incs :
                /\ db' = [db EXCEPT ![id] = delete_session(db[id], inc)]
                /\ removed' = [removed EXCEPT ![id] = MaxNat(removed[id], inc)]

\* cleanup_dead_sessions runs one transaction over every dead row.
CleanupDead ==
  /\ db' = [id \in Ids |-> cleanup_dead(db[id])]
  /\ removed' = [id \in Ids |-> IF HasRow(db[id]) /\ ~db[id].alive
                                THEN MaxNat(removed[id], db[id].inc) ELSE removed[id]]

SavePort(id) ==
  \E inc \in Incs, p \in Ports : Write(id, save_detected_port(db[id], inc, p))

DeletePort(id) ==
  \E inc \in Incs, p \in Ports : Write(id, delete_detected_port(db[id], inc, p))

DeletePorts(id) ==
  \E inc \in Incs : Write(id, delete_detected_ports_for_session(db[id], inc))

\* cleanup_expired drops the buffers that have aged out, whichever they are.
CleanupExpired ==
  \E aged \in SUBSET Ids :
    /\ db' = [id \in Ids |-> IF id \in aged THEN cleanup_expired(db[id]) ELSE db[id]]
    /\ UNCHANGED removed

Next == \/ \E id \in Ids : \/ Save(id) \/ MarkDead(id) \/ MarkUnavailable(id)
                           \/ SaveBuffer(id) \/ Rename(id) \/ Delete(id)
                           \/ SavePort(id) \/ DeletePort(id) \/ DeletePorts(id)
        \/ CleanupDead
        \/ CleanupExpired

Spec == Init /\ [][Next]_vars

-----------------------------------------------------------------------------

\* Every table keeps its column types whatever is asked of it.
TypeOK == /\ db \in [Ids -> Entry]
          /\ removed \in [Ids -> Nat]

\* A removed incarnation never comes back: whatever SessionCreated, rename or
\* snapshot of it arrives after the delete, the row the id has is a newer one.
\* The watermark may be cleared by then; the UPSERT guard must carry it on.
NoResurrection == \A id \in Ids : HasRow(db[id]) => db[id].inc > removed[id]

\* A target-unavailable row is offered to restore_sessions: no late exit of the
\* same incarnation, and no older watermark, hides the retained identity.
RetainedIsLoadable ==
  \A id \in Ids : HasRow(db[id]) /\ db[id].unavail => Loadable(db[id])

\* Scrollback belongs to a row (the foreign key cascades) and was written by
\* that row's incarnation or one before it: a late flush of a replaced session
\* never overwrites its successor's, nor outlives the row.
BufferHasOwner ==
  \A id \in Ids : db[id].buf.by # 0 => HasRow(db[id]) /\ db[id].buf.by <= db[id].inc

\* No port record of a removed incarnation is left below the watermark.
PortsAboveWatermark ==
  \A id \in Ids, p \in Ports : db[id].ports[p] # 0 => db[id].ports[p] > db[id].removal

\* The mark that seeds the next run's allocator (max_session_incarnation) never
\* falls, so no incarnation the database has seen is ever handed out again.
HighWaterNeverFalls ==
  [][\A id \in Ids : max_session_incarnation(db'[id]) >= max_session_incarnation(db[id])]_vars

\* While a row keeps its incarnation, target_unavailable is never taken back:
\* only a newer incarnation or the row's removal ends the retained state.
UnavailableIsSticky ==
  [][\A id \in Ids : HasRow(db[id]) /\ db[id].unavail /\ db'[id].inc = db[id].inc
                       => db'[id].unavail]_vars

\* The three tables agree whatever order the callers' transactions arrive in:
\* columns keep their types, a retained row is offered to the next restore, a
\* scrollback has its row, and no port record is left under the watermark.
TablesAgree == TypeOK /\ RetainedIsLoadable /\ BufferHasOwner /\ PortsAboveWatermark

\* No late or repeated call takes the store back: the mark that seeds the next
\* run's allocator never falls and target_unavailable is never withdrawn.
StoreMovesForward == HighWaterNeverFalls /\ UnavailableIsSticky
=============================================================================
