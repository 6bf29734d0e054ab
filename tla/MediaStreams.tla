---------------------------- MODULE MediaStreams ----------------------------
(***************************************************************************)
(* Media tickets (server/src/fs/media_ticket.rs, media_session.rs and the  *)
(* handlers of api/fs_video.rs, fs_image.rs, media_stream_response.rs):    *)
(* a browser asks for a ticket to one file version, bound to a cookie      *)
(* session, and streams with it.  Every handler awaits the disk between    *)
(* the steps below; logouts, edits and expiries happen in between, while   *)
(* a workspace switch waits for the handlers that hold the context guard.  *)
(***************************************************************************)
EXTENDS Integers, FiniteSets

CONSTANTS Browsers, Actors,
          Handlers,      \* requests the server may work on at once
          IssueKinds,    \* kinds of media tickets are asked for
          Roots,         \* workspaces that can be configured
          TicketIdle, SessionIdle, MediaAbsolute,    \* lifetimes
          FileSize,      \* bytes of the media file
          RangeWishes,   \* [first, last]: a Range header, None where absent
          None,
          MediaQuotas    \* bounds: the tickets, clock ticks, edits and reloads of a run

ASSUME MediaAssumption ==
    /\ IsFiniteSet(Handlers) /\ Roots # {}
    /\ {TicketIdle, SessionIdle, MediaAbsolute, FileSize} \subseteq Nat
    /\ TicketIdle <= MediaAbsolute /\ SessionIdle <= MediaAbsolute
    /\ RangeWishes \subseteq [first : Nat \cup {None}, last : Nat \cup {None}]
    /\ MediaQuotas \subseteq [tickets : Nat, now : Nat, edits : Nat, reloads : Nat]

VARIABLES mSessions,     \* token -> [actor, idle, abs]
          mTickets,      \* ticket -> [kind, root, ver, ses, actor, idle, abs, gen]
          mGen,          \* MediaTicketInner.generation
          mIssued,       \* tickets issued so far: the fresh random tokens
          mNow,
          mediaRoot,          \* the configured workspace
          disk,          \* version of the file in each workspace, 0 = missing
          jar,           \* each browser's media session cookie
          who,           \* whom each browser is logged in as
          known,         \* the tickets each browser was given
          handler,       \* what each request is doing
          ended,         \* history: tickets and sessions revoked
          born,          \* history: when a ticket and its session were issued
          mQuota         \* the bounds of this run

mediaVars == <<mSessions, mTickets, mGen, mIssued, mNow, mediaRoot, disk, jar, who, known,
               handler, ended, born, mQuota>>
mStore == <<mSessions, mTickets>>
mClient == <<jar, who, known>>
mWorld == <<mGen, mNow, mediaRoot, mQuota>>

NoHandler == [pc |-> "idle"]
MediaKinds == {"video", "image"}

MediaInit ==
    /\ mSessions = <<>> /\ mTickets = <<>> /\ mGen = 0 /\ mIssued = 0 /\ mNow = 0
    /\ mediaRoot = CHOOSE r \in Roots : TRUE
    /\ mQuota \in MediaQuotas
    /\ disk = [r \in Roots |-> 1]
    /\ jar = [b \in Browsers |-> None] /\ who = [b \in Browsers |-> None]
    /\ known = [b \in Browsers |-> {}]
    /\ handler = [h \in Handlers |-> NoHandler]
    /\ ended = {} /\ born = <<>>
-----------------------------------------------------------------------------
(* MediaTicketStore                                                        *)

Lesser(a, b) == IF a < b THEN a ELSE b
Only(f, keep) == [x \in keep |-> f[x]]
MapPut(f, x, v) == [y \in DOMAIN f \cup {x} |-> IF y = x THEN v ELSE f[y]]

session_expired(s) == mNow >= s.idle \/ mNow >= s.abs
ticket_expired(t) == mNow >= t.idle \/ mNow >= t.abs

(* prune_expired: sessions first, then the tickets without one             *)
PrunedSessions == Only(mSessions, {s \in DOMAIN mSessions : ~session_expired(mSessions[s])})
PrunedTickets == Only(mTickets, {t \in DOMAIN mTickets :
                                    /\ ~ticket_expired(mTickets[t])
                                    /\ mTickets[t].ses \in DOMAIN PrunedSessions})

binding_matches_live_session(t) ==
    /\ t.ses \in DOMAIN PrunedSessions
    /\ PrunedSessions[t.ses].actor = t.actor
session_matches(t, token) == token = t.ses /\ binding_matches_live_session(t)

Touched(t) == LET ses == mTickets[t].ses IN
    /\ mSessions' = [PrunedSessions EXCEPT ![ses].idle =
                        Lesser(mNow + SessionIdle, PrunedSessions[ses].abs)]
    /\ mTickets' = [PrunedTickets EXCEPT ![t].idle =
                        Lesser(mNow + TicketIdle, mTickets[t].abs)]

(* issue_bound: reuse the cookie's session if it is this actor's, else a   *)
(* new one; the ticket is bound to it.  Random tokens never collide.       *)
issue_bound(h) ==
    LET q == handler[h]
        t == mIssued + 1
        reusable == q.cookie \in DOMAIN PrunedSessions
                    /\ PrunedSessions[q.cookie].actor = q.actor
        ses == IF reusable THEN q.cookie ELSE t
        held == IF reusable
                THEN [PrunedSessions[ses] EXCEPT
                          !.idle = Lesser(mNow + SessionIdle, PrunedSessions[ses].abs)]
                ELSE [actor |-> q.actor, idle |-> mNow + SessionIdle,
                      abs |-> mNow + MediaAbsolute]
    IN /\ mSessions' = MapPut(PrunedSessions, ses, held)
       /\ mTickets' = MapPut(PrunedTickets, t,
              [kind |-> q.kind, root |-> q.root, ver |-> q.ver, ses |-> ses,
               actor |-> q.actor, idle |-> mNow + TicketIdle,
               abs |-> mNow + MediaAbsolute, gen |-> q.gen])
       /\ mIssued' = t
       /\ born' = MapPut(born, t, mNow)
       /\ handler' = [handler EXCEPT ![h] = [pc |-> "reply", b |-> q.b, t |-> t, ses |-> ses]]

\* Mutant: the tickets of the session are dropped, the session stays.
revoke_session_for_actor_TicketsOnly(b) ==
    LET ses == jar[b]
        mine == ses \in DOMAIN mSessions /\ mSessions[ses].actor = who[b]
    IN IF mine
       THEN /\ mTickets' = Only(mTickets, {t \in DOMAIN mTickets : mTickets[t].ses # ses})
            /\ ended' = ended \cup {<<"session", ses>>}
            /\ UNCHANGED mSessions
       ELSE UNCHANGED <<mSessions, mTickets, ended>>

(* revoke_session_for_actor, for the cookie the request carries            *)
revoke_session_for_actor(b) ==
    LET ses == jar[b]
        mine == ses \in DOMAIN mSessions /\ mSessions[ses].actor = who[b]
        bound == {t \in DOMAIN mTickets : mTickets[t].ses = ses}
    IN IF mine
       THEN /\ mSessions' = Only(mSessions, DOMAIN mSessions \ {ses})
            /\ mTickets' = Only(mTickets, DOMAIN mTickets \ bound)
            /\ ended' = ended \cup {<<"session", ses>>}
       ELSE UNCHANGED <<mSessions, mTickets, ended>>

(* revoke_all: both maps are emptied and the generation moves on           *)
revoke_all ==
    /\ mTickets' = <<>> /\ mSessions' = <<>>
    /\ mGen' = mGen + 1
    /\ ended' = ended \cup {<<"session", s>> : s \in DOMAIN mSessions}
-----------------------------------------------------------------------------
(* issue_ticket of fs_video.rs and fs_image.rs                             *)

Holding(h) == handler[h].pc \in {"resolve", "issue", "open", "finalize"}

IssueStart(h, b, k) ==
    /\ handler[h] = NoHandler /\ who[b] # None
    /\ mIssued + Cardinality({g \in Handlers : handler[g].pc \in {"resolve", "issue"}})
          < mQuota.tickets
    /\ handler' = [handler EXCEPT ![h] =
          [pc |-> "resolve", b |-> b, actor |-> who[b], cookie |-> jar[b], kind |-> k,
           gen |-> mGen]]
    /\ UNCHANGED <<mStore, mClient, mWorld, mIssued, disk, ended, born>>

(* resolve and open_regular_file: NotFound when the file is missing        *)
IssueOpen(h) ==
    /\ handler[h].pc = "resolve"
    /\ handler' = [handler EXCEPT ![h] =
          IF disk[mediaRoot] = 0 THEN NoHandler
          ELSE [b |-> @.b, actor |-> @.actor, cookie |-> @.cookie, kind |-> @.kind,
                gen |-> @.gen, pc |-> "issue", root |-> mediaRoot, ver |-> disk[mediaRoot]]]
    /\ UNCHANGED <<mStore, mClient, mWorld, mIssued, disk, ended, born>>

(* ContextChanged when the generation moved since the handler read it      *)
IssueTicket(h) ==
    /\ handler[h].pc = "issue"
    /\ IF handler[h].gen = mGen THEN issue_bound(h)
       ELSE /\ mSessions' = PrunedSessions /\ mTickets' = PrunedTickets
            /\ handler' = [handler EXCEPT ![h] = NoHandler]
            /\ UNCHANGED <<mIssued, born>>
    /\ UNCHANGED <<mClient, mWorld, disk, ended>>

(* The browser stores the Set-Cookie of the answer, whenever it arrives.   *)
IssueReply(h) ==
    /\ handler[h].pc = "reply"
    /\ jar' = [jar EXCEPT ![handler[h].b] = handler[h].ses]
    /\ known' = [known EXCEPT ![handler[h].b] = @ \cup {handler[h].t}]
    /\ handler' = [handler EXCEPT ![h] = NoHandler]
    /\ UNCHANGED <<mStore, mWorld, mIssued, disk, who, ended, born>>
-----------------------------------------------------------------------------
(* respond of media_stream_response.rs                                     *)

(* By the cookie's session, or, from an allowed origin, by the ticket      *)
(* alone: authorize_bound, authorize_ticket.                               *)
authorize(t, k, cookie, ticketOnly) ==
    IF t \notin DOMAIN PrunedTickets \/ mTickets[t].kind # k THEN None
    ELSE IF session_matches(mTickets[t], cookie) THEN "cookie"
    ELSE IF ticketOnly /\ binding_matches_live_session(mTickets[t]) THEN "ticket"
    ELSE None

StreamStart(h, b, t, k, ticketOnly) ==
    LET mode == authorize(t, k, jar[b], ticketOnly) IN
    /\ handler[h] = NoHandler /\ t \in known[b]
    /\ mSessions' = PrunedSessions /\ mTickets' = PrunedTickets
    /\ handler' = [handler EXCEPT ![h] =
          IF mode = None THEN NoHandler
          ELSE [pc |-> "open", t |-> t, kind |-> k, mode |-> mode, cookie |-> jar[b],
                ticket |-> mTickets[t]]]
    /\ UNCHANGED <<mClient, mWorld, mIssued, disk, ended, born>>

(* open_revalidated: the same file version at the same place, else the     *)
(* ticket is revoked (410)                                                 *)
StreamOpen(h) ==
    LET q == handler[h]
        same == q.ticket.root = mediaRoot /\ q.ticket.ver = disk[mediaRoot]
    IN /\ q.pc = "open"
       /\ IF same
          THEN /\ handler' = [handler EXCEPT ![h].pc = "finalize"]
               /\ UNCHANGED mTickets
          ELSE /\ handler' = [handler EXCEPT ![h] = NoHandler]
               /\ mTickets' = Only(mTickets, {t \in DOMAIN mTickets :
                                  ~(t = q.t /\ mTickets[t].kind = q.kind)})
       /\ UNCHANGED <<mSessions, mClient, mWorld, mIssued, disk, ended, born>>

\* Mutant: the last byte of an open range is one past the end of the file.
parse_single_range_PastEnd(w) ==
    IF FileSize = 0 THEN None
    ELSE IF w.first = None
         THEN IF w.last = None \/ w.last = 0 THEN None
              ELSE <<FileSize - Lesser(w.last, FileSize), FileSize - 1>>
    ELSE LET end == IF w.last = None THEN FileSize ELSE Lesser(w.last, FileSize - 1)
         IN IF w.first >= FileSize \/ w.first > end THEN None ELSE <<w.first, end>>

(* parse_single_range: inclusive bounds, or None for 416                   *)
parse_single_range(w) ==
    IF FileSize = 0 THEN None
    ELSE IF w.first = None
         THEN IF w.last = None \/ w.last = 0 THEN None
              ELSE <<FileSize - Lesser(w.last, FileSize), FileSize - 1>>
    ELSE LET end == IF w.last = None THEN FileSize - 1 ELSE Lesser(w.last, FileSize - 1)
         IN IF w.first >= FileSize \/ w.first > end THEN None ELSE <<w.first, end>>

(* finalize_bound_and_touch / finalize_ticket_and_touch                    *)
finalize_holds(q) ==
    /\ q.t \in DOMAIN PrunedTickets
    /\ mTickets[q.t].kind = q.kind
    /\ mTickets[q.t].ses = q.ticket.ses
    /\ IF q.mode = "cookie" THEN session_matches(mTickets[q.t], q.cookie)
       ELSE binding_matches_live_session(mTickets[q.t])

(* A wish that cannot be satisfied is answered before the ticket is        *)
(* finalized, so it neither extends nor ends it.                           *)
StreamUnsatisfiable(h, w) ==
    /\ handler[h].pc = "finalize" /\ parse_single_range(w) = None
    /\ handler' = [handler EXCEPT ![h] = NoHandler]
    /\ UNCHANGED <<mStore, mClient, mWorld, mIssued, disk, ended, born>>

StreamFinalize(h, w) ==
    LET q == handler[h] IN
    /\ q.pc = "finalize" /\ parse_single_range(w) # None
    /\ IF finalize_holds(q)
       THEN /\ Touched(q.t)
            /\ handler' = [handler EXCEPT ![h] =
                  [pc |-> "sent", t |-> q.t, ses |-> q.ticket.ses, root |-> q.ticket.root,
                   wish |-> w, bytes |-> parse_single_range(w)]]
       ELSE /\ mSessions' = PrunedSessions /\ mTickets' = PrunedTickets
            /\ handler' = [handler EXCEPT ![h] = NoHandler]
    /\ UNCHANGED <<mClient, mWorld, mIssued, disk, ended, born>>

(* stream_body: the body is read after the handler gave the guard back     *)
StreamSent(h) ==
    /\ handler[h].pc = "sent"
    /\ handler' = [handler EXCEPT ![h] = NoHandler]
    /\ UNCHANGED <<mStore, mClient, mWorld, mIssued, disk, ended, born>>
-----------------------------------------------------------------------------
(* Revocation, and the world around                                        *)

(* revoke_ticket: only for the actor and session the ticket is bound to    *)
RevokeTicket(b, t, k) ==
    /\ who[b] # None /\ jar[b] # None /\ t \in known[b]
    /\ LET mine == /\ t \in DOMAIN PrunedTickets
                   /\ mTickets[t].kind = k /\ mTickets[t].actor = who[b]
                   /\ session_matches(mTickets[t], jar[b])
       IN /\ mTickets' = IF mine THEN Only(PrunedTickets, DOMAIN PrunedTickets \ {t})
                         ELSE PrunedTickets
          /\ ended' = IF mine THEN ended \cup {<<"ticket", t>>} ELSE ended
    /\ mSessions' = PrunedSessions
    /\ UNCHANGED <<mClient, mWorld, mIssued, disk, handler, born>>

(* logout: the media session of this actor goes, both cookies are cleared  *)
Logout(b) ==
    /\ who[b] # None
    /\ revoke_session_for_actor(b)
    /\ who' = [who EXCEPT ![b] = None]
    /\ jar' = [jar EXCEPT ![b] = None]
    /\ UNCHANGED <<mWorld, mIssued, disk, known, handler, born>>

revoke_current_session(b) ==
    /\ who[b] # None
    /\ revoke_session_for_actor(b)
    /\ jar' = [jar EXCEPT ![b] = None]
    /\ UNCHANGED <<mWorld, mIssued, disk, who, known, handler, born>>

Login(b, a) ==
    /\ who[b] = None
    /\ who' = [who EXCEPT ![b] = a]
    /\ UNCHANGED <<mStore, mWorld, mIssued, disk, jar, known, handler, ended, born>>

(* switch_workspace, reload_config, cache_clear: the write side of         *)
(* workspace_context_guard waits for the handlers that hold the read side  *)
SwitchWorkspace(r) ==
    /\ mGen < mQuota.reloads /\ \A h \in Handlers : ~Holding(h)
    /\ revoke_all
    /\ mediaRoot' = r
    /\ UNCHANGED <<mNow, mIssued, disk, mClient, handler, born, mQuota>>

EditFile(r, v) ==
    /\ mQuota.edits > 0 /\ r = mediaRoot /\ v # disk[r] /\ (v = 0 \/ v > disk[r])
    /\ disk' = [disk EXCEPT ![r] = v]
    /\ UNCHANGED <<mStore, mClient, mWorld, mIssued, handler, ended, born>>

MediaTick ==
    /\ mNow < mQuota.now
    /\ mNow' = mNow + 1
    /\ UNCHANGED <<mStore, mClient, mGen, mediaRoot, mIssued, disk, handler, ended, born,
                   mQuota>>

MediaNext ==
    \/ \E h \in Handlers, b \in Browsers, k \in IssueKinds : IssueStart(h, b, k)
    \/ \E h \in Handlers : IssueOpen(h)
    \/ \E h \in Handlers : IssueTicket(h)
    \/ \E h \in Handlers : IssueReply(h)
    \/ \E h \in Handlers, b \in Browsers, t \in 1..mQuota.tickets, k \in MediaKinds, o \in BOOLEAN :
          StreamStart(h, b, t, k, o)
    \/ \E h \in Handlers : StreamOpen(h)
    \/ \E h \in Handlers, w \in RangeWishes : StreamUnsatisfiable(h, w)
    \/ \E h \in Handlers, w \in RangeWishes : StreamFinalize(h, w)
    \/ \E h \in Handlers : StreamSent(h)
    \/ \E b \in Browsers, t \in 1..mQuota.tickets, k \in MediaKinds : RevokeTicket(b, t, k)
    \/ \E b \in Browsers : Logout(b)
    \/ \E b \in Browsers : revoke_current_session(b)
    \/ \E b \in Browsers, a \in Actors : Login(b, a)
    \/ \E r \in Roots : SwitchWorkspace(r)
    \/ \E r \in Roots, v \in 0..mQuota.edits + 1 : EditFile(r, v)
    \/ MediaTick

MediaSpec == MediaInit /\ [][MediaNext]_mediaVars
-----------------------------------------------------------------------------
(* Media tickets: types; a deadline never lies past the absolute lifetime. *)
MediaTypeOK ==
    /\ \A s \in DOMAIN mSessions : mSessions[s].actor \in Actors
                                   /\ mSessions[s].idle <= mSessions[s].abs
    /\ \A t \in DOMAIN mTickets : mTickets[t].idle <= mTickets[t].abs
    /\ jar \in [Browsers -> 1..mQuota.tickets \cup {None}]
    /\ mIssued \in 0..mQuota.tickets

(* A stored ticket hangs on a stored session of the same actor, and was    *)
(* issued in the workspace context of now: nothing a logout or a switch    *)
(* revoked is left behind (revoke_session_for_actor, revoke_all,           *)
(* prune_expired).                                                         *)
TicketsAreBound ==
    \A t \in DOMAIN mTickets :
        /\ mTickets[t].ses \in DOMAIN mSessions
        /\ mSessions[mTickets[t].ses].actor = mTickets[t].actor
        /\ mTickets[t].gen = mGen

(* A body is sent only for a ticket and a session that nothing revoked up  *)
(* to the last await of respond, that are within the absolute lifetime,    *)
(* and for a ticket of the workspace that is still configured.             *)
ServedIsGranted ==
    [][\A h \in Handlers : LET q == handler'[h] IN
          handler[h].pc = "finalize" /\ q.pc = "sent" =>
             /\ <<"ticket", q.t>> \notin ended
             /\ <<"session", q.ses>> \notin ended
             /\ mNow < born[q.t] + MediaAbsolute
             /\ mNow < born[q.ses] + MediaAbsolute
             /\ q.root = mediaRoot]_mediaVars

(* The bytes sent are the wished ones that exist: not empty, never past    *)
(* the end (parse_single_range at its edges).                              *)
BodyIsTheWish ==
    \A h \in Handlers : handler[h].pc = "sent" =>
        LET w == handler[h].wish
            wished == {i \in 0..(FileSize - 1) :
                          IF w.first = None THEN i >= FileSize - w.last
                          ELSE i >= w.first /\ (w.last # None => i <= w.last)}
        IN handler[h].bytes[1]..handler[h].bytes[2] = wished /\ wished # {}

(* What the media store holds and sends is bound to a live session and to  *)
(* the bytes asked for (fs/media_ticket.rs, api/media_stream_response.rs). *)
MediaIsBound == MediaTypeOK /\ TicketsAreBound /\ BodyIsTheWish
=============================================================================
