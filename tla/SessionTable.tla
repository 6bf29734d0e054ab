---------------------------- MODULE SessionTable ----------------------------
(***************************************************************************)
(* The SQLite rows that server/src/persistence/mod.rs keeps for one        *)
(* terminal id, and one operator per SQL transaction on them.  An entry e  *)
(* gathers what the four tables hold for the id:                           *)
(*   sessions          e.inc (0: no row), e.alive, e.unavail, e.name       *)
(*   session_removals  e.removal (0: no watermark)                         *)
(*   session_buffers   e.buf (by 0: no buffer row); by names the           *)
(*                     incarnation whose bytes they are (not a column)     *)
(*   persisted_ports   e.ports, the incarnation of each port's row or 0    *)
(* The connection mutex makes each operator one atomic step.  The columns  *)
(* nothing is decided on (command, cwd, env, size, timestamps) are left    *)
(* out, as is the failure of a statement, which SQLite rolls back.         *)
(***************************************************************************)
EXTENDS Naturals

CONSTANTS Ids,      \* terminal ids
          Names,    \* display names a session can have
          Ports,    \* TCP ports the detector can see
          NoName    \* a row's NULL name

ASSUME NoNameAssumption == NoName \notin Names

NoBuffer == [by |-> 0, total |-> 0]

Entry == [inc: Nat, alive: BOOLEAN, unavail: BOOLEAN, name: Names \cup {NoName},
          removal: Nat, buf: [by: Nat, total: Nat], ports: [Ports -> Nat]]

\* A database in which the id was never seen: migrations only, no rows.
EmptyEntry == [inc |-> 0, alive |-> FALSE, unavail |-> FALSE, name |-> NoName,
               removal |-> 0, buf |-> NoBuffer, ports |-> [p \in Ports |-> 0]]

HasRow(e) == e.inc # 0

MaxNat(m, n) == IF m >= n THEN m ELSE n

(* Mutants of the transactions below, each a plausible slip in the SQL.   *)

\* The UPSERT's WHERE excluded.incarnation >= sessions.incarnation is missing.
save_session_AnyOrder(e, inc, name, unavailable) ==
  IF inc <= e.removal THEN e
  ELSE [e EXCEPT !.inc = inc, !.alive = TRUE, !.name = name, !.unavail = unavailable,
                 !.removal = 0]

\* A repeated SessionCreated overwrites target_unavailable.
save_session_Overwrites(e, inc, name, unavailable) ==
  IF inc <= e.removal \/ inc < e.inc THEN e
  ELSE [e EXCEPT !.inc = inc, !.alive = TRUE, !.name = name, !.unavail = unavailable,
                 !.removal = 0]

\* The EXISTS check on the row's incarnation is missing.
save_buffer_AnyOwner(e, inc, total) == [e EXCEPT !.buf = [by |-> inc, total |-> total]]

(***************************************************************************)
(* SessionCreated and SessionTargetUnavailableUpsert: an incarnation at or *)
(* below the watermark is ignored, the UPSERT never goes back to an older  *)
(* incarnation and keeps target_unavailable when it repeats one, and a     *)
(* newer incarnation clears the watermark.                                 *)
(***************************************************************************)
save_session(e, inc, name, unavailable) ==
  IF inc <= e.removal THEN e
  ELSE LET upserted == IF inc >= e.inc
                       THEN [e EXCEPT !.inc = inc, !.alive = TRUE, !.name = name,
                                      !.unavail = unavailable \/ (e.inc = inc /\ e.unavail)]
                       ELSE e
       IN  [upserted EXCEPT !.removal = 0]

mark_session_dead(e, inc) ==
  IF HasRow(e) /\ e.inc = inc /\ ~e.unavail THEN [e EXCEPT !.alive = FALSE] ELSE e

mark_session_target_unavailable(e, inc) ==
  IF HasRow(e) /\ e.inc = inc THEN [e EXCEPT !.alive = TRUE, !.unavail = TRUE] ELSE e

\* Only the incarnation that owns the row may replace its scrollback.
save_buffer(e, inc, total) ==
  IF HasRow(e) /\ e.inc = inc THEN [e EXCEPT !.buf = [by |-> inc, total |-> total]] ELSE e

\* load_sessions offers the row to restore_sessions.
Loadable(e) == HasRow(e) /\ e.alive /\ ~(e.removal >= e.inc)

\* The UPDATE of a rename matches the row: the reply is whether it does.
Renames(e, inc) == HasRow(e) /\ e.inc = inc /\ ~(e.removal >= e.inc)

rename_session(e, inc, name) == IF Renames(e, inc) THEN [e EXCEPT !.name = name] ELSE e

(***************************************************************************)
(* delete_session_in_transaction: raise the watermark, then drop the       *)
(* buffer unless a newer row owns it, the ports and the row up to it.      *)
(***************************************************************************)
delete_session(e, inc) ==
  LET mark   == MaxNat(e.removal, inc)
      newer  == HasRow(e) /\ e.inc > mark
      ports  == [p \in Ports |-> IF e.ports[p] <= mark THEN 0 ELSE e.ports[p]]
  IN  IF newer
      THEN [e EXCEPT !.removal = mark, !.ports = ports]
      ELSE [EmptyEntry EXCEPT !.removal = mark, !.ports = ports]

\* cleanup_dead_sessions, the part of its transaction that concerns one id.
cleanup_dead(e) == IF HasRow(e) /\ ~e.alive THEN delete_session(e, e.inc) ELSE e

save_detected_port(e, inc, p) ==
  IF inc > e.removal /\ inc >= e.ports[p] THEN [e EXCEPT !.ports[p] = inc] ELSE e

delete_detected_port(e, inc, p) ==
  IF e.ports[p] = inc THEN [e EXCEPT !.ports[p] = 0] ELSE e

delete_detected_ports_for_session(e, inc) ==
  [e EXCEPT !.ports = [p \in Ports |-> IF e.ports[p] = inc THEN 0 ELSE e.ports[p]]]

\* cleanup_expired: the buffer's updated_at is past the TTL; the row stays.
cleanup_expired(e) == [e EXCEPT !.buf = NoBuffer]

\* The id's share of max_session_incarnation, which seeds the allocator.
max_session_incarnation(e) == MaxNat(e.inc, e.removal)
=============================================================================
