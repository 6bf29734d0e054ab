--------------------------- MODULE TerminalStream ---------------------------
(***************************************************************************)
(* From a PTY to a terminal on the screen: the reader thread of            *)
(* pty/manager.rs (process_chunk), the shell lifecycle observer of         *)
(* pty/shell_lifecycle.rs, the scrollback buffer, the broadcast of         *)
(* pty/event_sink.rs and, per connection of api/ws.rs, the output pump and *)
(* the attach handler that share the pty_order lock.                       *)
(* The PTY's bytes are tokens: "text" is visible text, "half" the first    *)
(* byte of a character whose rest comes later, "alt" the switch to the     *)
(* alternate buffer, A B E C D the lifecycle markers with a valid nonce    *)
(* and "bad" a marker that does not verify (it stays visible).             *)
(***************************************************************************)
EXTENDS Naturals, Sequences, FiniteSets, SequencesExt

CONSTANTS
  Viewers,        \* connections
  ChunkMenu,      \* what one read of the PTY may return
  ScrollCap,      \* capacity of the scrollback buffer
  BusCap,         \* messages a broadcast receiver may be behind
  WireCap,        \* PTY_CHAN_CAP: messages queued for a connection's writer
  MaxChunks,      \* bound: reads of the PTY
  MaxAttach,      \* bound: attaches of a client
  MaxSockets      \* bound: connections a client makes

ASSUME StreamAssumption == {ScrollCap, BusCap, WireCap} \subseteq Nat \ {0}

VARIABLES
  shell,           \* ShellLifecycle.state
  published,      \* published_editing
  lifeEvents,         \* pending_lifecycle_events
  since,          \* visible_output_since_boundary
  total,          \* ScrollbackBuffer.total_written
  decoded,        \* visible bytes that were decoded and sent
  todo,           \* what process_chunk still has to do with its chunk
  chunks,         \* reads so far
  bus,            \* viewer -> messages its broadcast receiver holds
  wire,           \* viewer -> messages queued for its writer
  order,          \* viewer -> stage of the attach that holds pty_order, or "free"
  viewer          \* viewer -> what the client has been shown

streamvars == <<shell, published, lifeEvents, since, total, decoded, todo, chunks, bus, wire, order, viewer>>

Quiet == [at |-> "read"]
Output(a, b) == [kind |-> "output", from |-> a, to |-> b]
Lifecycle(s) == [kind |-> "lifecycle", state |-> s]

StreamInit ==
  /\ shell = "unverified" /\ published = FALSE /\ lifeEvents = <<>> /\ since = FALSE
  /\ total = 0 /\ decoded = 0 /\ todo = Quiet /\ chunks = 0
  /\ bus = [v \in Viewers |-> <<>>]
  /\ wire = [v \in Viewers |-> <<>>]
  /\ order = [v \in Viewers |-> "free"]
  /\ viewer = [v \in Viewers |-> [attached |-> FALSE, upto |-> 0, offset |-> 0, gap |-> FALSE,
                                  told |-> "unverified", lagged |-> FALSE, attaches |-> 0, sockets |-> 1]]

(***************************************************************************)
(* ShellLifecycle: each marker moves the state or resets it; the result is *)
(* the new state, the event (or none) and whether the marker is consumed.  *)
(***************************************************************************)
handle(s, m) ==
  CASE m = "A" /\ s \in {"unverified", "finished"} -> [state |-> "prompt", event |-> <<>>, valid |-> TRUE]
    [] m = "B" /\ s = "prompt" -> [state |-> "editing", event |-> <<"editing">>, valid |-> TRUE]
    [] m = "E" /\ s = "editing" -> [state |-> "submitted", event |-> <<"submitted">>, valid |-> TRUE]
    [] m = "C" /\ s = "submitted" -> [state |-> "opaque", event |-> <<"opaque">>, valid |-> TRUE]
    [] m = "D" /\ s = "opaque" -> [state |-> "finished", event |-> <<"finished">>, valid |-> TRUE]
    [] m = "D" /\ s \in {"prompt", "editing", "submitted"} ->
         [state |-> "unverified", event |-> <<"unverified">>, valid |-> TRUE]
    [] OTHER -> [state |-> "unverified", event |-> <<"unverified">>, valid |-> FALSE]

Markers == {"A", "B", "E", "C", "D", "bad"}

(* feed_visible over a chunk: markers are taken out unless they do not     *)
(* verify, everything else is visible.                                     *)
feed_visible(s, chunk) ==
  FoldLeft(LAMBDA acc, tok:
             IF tok \in Markers
             THEN LET h == handle(acc.state, tok) IN
                  [state |-> h.state, events |-> acc.events \o h.event,
                   visible |-> IF h.valid THEN acc.visible ELSE Append(acc.visible, "text")]
             ELSE [acc EXCEPT !.visible = Append(@, IF tok = "alt" THEN "text" ELSE tok)],
           [state |-> s, events |-> <<>>, visible |-> <<>>], chunk)

(* observe_alternate_buffer looks at the whole chunk before it is fed, and *)
(* its reset is reported first.                                            *)
Observe(chunk) ==
  LET alt == Contains(chunk, "alt")
      fed == feed_visible(IF alt THEN "unverified" ELSE shell, chunk) IN
  [fed EXCEPT !.events = IF alt THEN <<"unverified">> \o @ ELSE @]

(***************************************************************************)
(* process_chunk, stage by stage: the lifecycle lock, the published flag,  *)
(* the buffer lock, then the broadcasts.                                   *)
(***************************************************************************)
StreamRest == <<bus, wire, order, viewer>>

process_chunk(chunk) ==
  /\ todo.at = "read" /\ chunks < MaxChunks
  /\ chunks' = chunks + 1
  /\ LET o == Observe(chunk) IN
     /\ shell' = o.state
     /\ todo' = [at |-> "flag", visible |-> o.visible, events |-> o.events]
  /\ UNCHANGED <<published, lifeEvents, since, total, decoded, StreamRest>>

ClearPublished ==
  /\ todo.at = "flag"
  /\ published' = (published /\ \A i \in DOMAIN todo.events: todo.events[i] = "editing")
  /\ lifeEvents' = lifeEvents \o todo.events
  /\ todo' = [at |-> "push", visible |-> todo.visible]
  /\ UNCHANGED <<shell, since, total, decoded, chunks, StreamRest>>

push ==
  /\ todo.at = "push"
  /\ total' = total + Len(todo.visible)
  /\ todo' = [at |-> "send", visible |-> todo.visible]
  /\ UNCHANGED <<shell, published, lifeEvents, since, decoded, chunks, StreamRest>>

(* Utf8StreamDecoder: an unfinished character is held back.                *)
DecodedTo(visible) == IF visible # <<>> /\ Last(visible) = "half" THEN total - 1 ELSE total

(* How many pending events the output just sent lets through: an editing   *)
(* boundary waits until prompt text has been sent since the last reset.    *)
ready_count(sent) ==
  LET fresh(i) == \E j \in 1 .. i - 1: lifeEvents[j] = "unverified"
      held == {i \in DOMAIN lifeEvents: lifeEvents[i] = "editing" /\ ~sent /\ (fresh(i) \/ ~since)} IN
  IF held = {} THEN Len(lifeEvents) ELSE (CHOOSE i \in held: \A j \in held: i <= j) - 1

Deliver(v, msgs) ==
  LET all == bus[v] \o msgs IN
  IF Len(all) > BusCap THEN SubSeq(all, Len(all) - BusCap + 1, Len(all)) ELSE all

send_visible_output_then_lifecycle ==
  /\ todo.at = "send"
  /\ LET to == DecodedTo(todo.visible)
         sent == to > decoded
         n == ready_count(sent)
         out == (IF sent THEN <<Output(decoded + 1, to)>> ELSE <<>>)
                  \o [i \in 1 .. n |-> Lifecycle(lifeEvents[i])] IN
     \/ /\ ~sent /\ todo.visible # <<>>          \* nothing but a partial character
        /\ todo' = Quiet
        /\ UNCHANGED <<lifeEvents, since, decoded, bus, viewer>>
     \/ /\ sent \/ todo.visible = <<>>
        /\ decoded' = to
        /\ lifeEvents' = SubSeq(lifeEvents, n + 1, Len(lifeEvents))
        /\ since' = ((since \/ sent) /\ ~\E i \in DOMAIN lifeEvents: i <= n + 1 /\ lifeEvents[i] = "unverified")
        /\ bus' = [v \in Viewers |-> Deliver(v, out)]
        /\ viewer' = [v \in Viewers |-> [viewer[v] EXCEPT !.lagged = @ \/ Len(bus[v] \o out) > BusCap]]
        /\ todo' = IF \E i \in 1 .. n: lifeEvents[i] = "editing" THEN [at |-> "publish"] ELSE Quiet
  /\ UNCHANGED <<shell, published, total, chunks, wire, order>>

SetPublished ==
  /\ todo.at = "publish"
  /\ published' = TRUE /\ todo' = Quiet
  /\ UNCHANGED <<shell, lifeEvents, since, total, decoded, chunks, StreamRest>>

(***************************************************************************)
(* A connection: the pump moves messages to the writer's channel under     *)
(* pty_order; terminal:attach takes the lock, reads buffer and lifecycle   *)
(* at one boundary and sends the replay and then the editing state.        *)
(***************************************************************************)
SourceKept == UNCHANGED <<shell, published, lifeEvents, since, total, decoded, todo, chunks>>

\* Mutant: the pump does not wait for the attach that holds the order lock.
pump_pty_Unordered(v) ==
  /\ bus[v] # <<>> /\ Len(wire[v]) < WireCap
  /\ wire' = [wire EXCEPT ![v] = Append(@, Head(bus[v]))]
  /\ bus' = [bus EXCEPT ![v] = Tail(@)]
  /\ SourceKept /\ UNCHANGED <<order, viewer>>

pump_pty(v) ==
  /\ bus[v] # <<>> /\ order[v] = "free" /\ Len(wire[v]) < WireCap
  /\ wire' = [wire EXCEPT ![v] = Append(@, Head(bus[v]))]
  /\ bus' = [bus EXCEPT ![v] = Tail(@)]
  /\ SourceKept /\ UNCHANGED <<order, viewer>>

TermAttach(v) ==
  /\ order[v] = "free" /\ viewer[v].attaches < MaxAttach
  /\ order' = [order EXCEPT ![v] = "locked"]
  /\ viewer' = [viewer EXCEPT ![v].attaches = @ + 1]
  /\ SourceKept /\ UNCHANGED <<bus, wire>>

read_replay(from) ==
  LET start == IF total > ScrollCap THEN total - ScrollCap ELSE 0 IN
  IF from = 0 \/ from < start \/ from > total
  THEN [kind |-> "replay", from |-> start + 1, to |-> total, reset |-> TRUE]
  ELSE [kind |-> "replay", from |-> from + 1, to |-> total, reset |-> FALSE]

attach_editing_generation == published /\ shell = "editing"

get_attach_snapshot(v) ==
  /\ order[v] = "locked" /\ Len(wire[v]) < WireCap
  /\ wire' = [wire EXCEPT ![v] = Append(@, read_replay(viewer[v].offset))]
  /\ order' = [order EXCEPT ![v] = IF attach_editing_generation THEN "editing" ELSE "free"]
  /\ SourceKept /\ UNCHANGED <<bus, viewer>>

AttachLifecycle(v) ==
  /\ order[v] = "editing" /\ Len(wire[v]) < WireCap
  /\ wire' = [wire EXCEPT ![v] = Append(@, Lifecycle("editing"))]
  /\ order' = [order EXCEPT ![v] = "free"]
  /\ SourceKept /\ UNCHANGED <<bus, viewer>>

(* The client (TerminalPanel.tsx): text before the first replay of a       *)
(* connection is suppressed, that replay resets the lifecycle, a later one *)
(* is ignored, and lifecycle events are always followed.  Messages carry   *)
(* no offset: the client counts from the replay's by the length of what it *)
(* writes.                                                                 *)
ShownBytes(w, m) ==
       CASE m.kind = "replay" /\ ~w.attached ->
              [w EXCEPT !.attached = TRUE, !.offset = m.to, !.told = "unverified",
                        !.gap = IF m.reset THEN FALSE ELSE @ \/ (m.from <= m.to /\ m.from > w.upto + 1),
                        !.upto = IF m.reset \/ (m.from <= m.to /\ m.to > @) THEN m.to ELSE @]
         [] m.kind = "output" /\ w.attached ->
              [w EXCEPT !.gap = @ \/ m.from > w.upto + 1,
                        !.offset = @ + (m.to - m.from + 1),
                        !.upto = IF m.to > @ THEN m.to ELSE @]
         [] m.kind = "lifecycle" -> [w EXCEPT !.told = m.state]
         [] OTHER -> w

(* The connection drops and the client makes another: queued messages are  *)
(* gone, a new receiver starts, and the next attach names the offset.      *)
Reconnect(v) ==
  /\ viewer[v].sockets < MaxSockets /\ order[v] = "free"
  /\ bus' = [bus EXCEPT ![v] = <<>>]
  /\ wire' = [wire EXCEPT ![v] = <<>>]
  /\ viewer' = [viewer EXCEPT ![v] = [@ EXCEPT !.attached = FALSE, !.told = "unverified", !.lagged = FALSE,
                                               !.sockets = @ + 1]]
  /\ SourceKept /\ UNCHANGED order

ClientShows(v) ==
  /\ wire[v] # <<>>
  /\ wire' = [wire EXCEPT ![v] = Tail(@)]
  /\ viewer' = [viewer EXCEPT ![v] = ShownBytes(@, Head(wire[v]))]
  /\ SourceKept /\ UNCHANGED <<bus, order>>

StreamNext ==
  \/ \E c \in ChunkMenu: process_chunk(c)
  \/ ClearPublished \/ push \/ send_visible_output_then_lifecycle \/ SetPublished
  \/ \E v \in Viewers: \/ pump_pty(v) \/ TermAttach(v) \/ get_attach_snapshot(v)
                       \/ AttachLifecycle(v) \/ ClientShows(v) \/ Reconnect(v)
StreamSpec == StreamInit /\ [][StreamNext]_streamvars

(***************************************************************************)
(* Properties                                                              *)
(***************************************************************************)
LifeStates == {"unverified", "prompt", "editing", "submitted", "opaque", "finished"}
StreamTypeOK ==
  /\ shell \in LifeStates /\ published \in BOOLEAN /\ since \in BOOLEAN
  /\ lifeEvents \in Seq(LifeStates) /\ decoded <= total /\ chunks \in 0 .. MaxChunks
  /\ \A v \in Viewers: /\ Len(bus[v]) <= BusCap /\ Len(wire[v]) <= WireCap
                       /\ order[v] \in {"free", "locked", "editing"}

(* A terminal that attached and whose receiver never lagged shows every    *)
(* byte up to the last one it shows: live output neither overtakes the     *)
(* replay nor falls between the snapshot and the stream (TermAttach takes  *)
(* the lock the pump sends under; the receiver exists before the attach).  *)
NoOutputGap ==
  \A v \in Viewers: (viewer[v].attached /\ ~viewer[v].lagged /\ viewer[v].sockets = 1) => ~viewer[v].gap

(* docs/system-architecture.md:2193: "If requested offset within buffer:   *)
(* return delta (new bytes since offset)".  A client that reconnects with  *)
(* its stored offset has no hole in what it shows.                         *)
ReconnectNoGap ==
  \A v \in Viewers: viewer[v].attached /\ ~viewer[v].lagged => ~viewer[v].gap

(* Once everything queued has been shown, a client that attached and never *)
(* lagged believes in an edit line only while the shell has one, whichever *)
(* of the reader's stages the attach fell between (the lifecycle, the      *)
(* published flag and the broadcast are set one after the other): inline   *)
(* suggestions are never stuck on over a running command.                  *)
EditingNotStuck ==
  \A v \in Viewers:
    (/\ viewer[v].attached /\ ~viewer[v].lagged /\ todo.at = "read"
     /\ bus[v] = <<>> /\ wire[v] = <<>> /\ order[v] = "free")
    => (viewer[v].told = "editing" => shell = "editing")

(* What a viewer shows is what the shell wrote, without holes, and its     *)
(* edit line is not stuck (manager.rs process_chunk and attach, ws.rs      *)
(* pump_pty, TerminalPanel.tsx).                                           *)
StreamIsFaithful == StreamTypeOK /\ NoOutputGap /\ EditingNotStuck
=============================================================================
