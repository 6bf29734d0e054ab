---------------------------- MODULE BrowserChild ----------------------------
(***************************************************************************)
(* The native browser-debug child (src-tauri/src/browser_debug/            *)
(* controller.rs, protocol.rs).  A lifecycle command runs under the        *)
(* lifecycle lock on its own thread; navigation, page-load and relay       *)
(* callbacks of the webview run on the window's thread and take only the   *)
(* state lock.  The webview itself is external.                            *)
(***************************************************************************)
EXTENDS Integers, Sequences, FiniteSets, SequencesExt

CONSTANTS Pages,        \* URLs the child may try to load
          OriginOf,     \* page -> origin
          Approved,     \* origins the session's NavigationPolicy allows
          Nothing,
          RequestCap,   \* request ids remembered
          MaxChildren, MaxNavigations, MaxCommands, MaxScripts   \* bounds

(* Nothing is none of the records that stand beside it: what is active, the *)
(* child, credentials.                                                     *)
ASSUME ChildAssumption ==
  /\ RequestCap \in Nat \ {0} /\ MaxNavigations \in Nat /\ MaxScripts \in Nat
  /\ LET Urls  == Pages \cup {Nothing}
         Creds == [session : Nat, gen : Nat, req : Nat \X {"c"}]
         Docs  == [url : Urls, cred : Creds \cup {Nothing}]
     IN Nothing \notin Creds \cup [session : Nat, url : Urls, pending : Urls, doc : Docs] \cup
          [session : Nat, url : Pages, gen : Nat, connect : Nat \X {"c"},
           ids : Seq(Nat \X {"c", "r"}), relay : BOOLEAN]

VARIABLES act,          \* ControllerState.active
          child,        \* the webview: [session, url, pending, doc]
          childLife,         \* who holds the lifecycle lock, and where it is
          loads,        \* Finished events not yet delivered: [session, url]
          scripts,      \* scripts handed to webview.eval, in order
          relays,       \* messages of the page not yet delivered
          children, navigations, commands,
          moved         \* history: sessions whose replay moved the committed page

childVars == <<act, child, childLife, loads, scripts, relays, children, navigations, commands,
               moved>>
webview == <<loads, scripts, relays>>
spent == <<children, navigations, commands, moved>>

NoChildLife == [pc |-> "free"]
NoDoc == [url |-> Nothing, cred |-> Nothing]
policy_allows(u) == u # Nothing /\ OriginOf[u] \in Approved

ChildInit ==
    /\ act = Nothing /\ child = Nothing /\ childLife = NoChildLife
    /\ loads = {} /\ scripts = <<>> /\ relays = {}
    /\ children = 0 /\ navigations = 0 /\ commands = 0 /\ moved = {}

(* The credentials of a generation: the nonce and request id are random,   *)
(* so session and generation stand for the nonce.                          *)
Cred(a) == [session |-> a.session, gen |-> a.gen, req |-> a.connect]
Live(session) == act # Nothing /\ act.session = session

(* remember_request: the oldest id other than the connect id goes first    *)
remember_request(ids, connect, id) ==
    LET all == Append(ids, id)
        others == {i \in 1..Len(all) : all[i] # connect}
    IN IF Len(all) <= RequestCap THEN all
       ELSE RemoveAt(all, IF others = {} THEN 1
                          ELSE CHOOSE i \in others : \A j \in others : i <= j)
-----------------------------------------------------------------------------
(* create                                                                  *)

CreateStart(u) ==
    /\ childLife = NoChildLife /\ children < MaxChildren
    /\ policy_allows(u) /\ act = Nothing
    /\ children' = children + 1
    /\ child' = Nothing     \* a stale child is closed first
    /\ act' = [session |-> children + 1, url |-> u, gen |-> 0, connect |-> <<0, "c">>,
               ids |-> <<<<0, "c">>>>, relay |-> FALSE]
    /\ childLife' = [pc |-> "add", session |-> children + 1, target |-> u]
    /\ UNCHANGED <<webview, navigations, commands, moved>>

CreateAdds ==
    /\ childLife.pc = "add"
    /\ child' = [session |-> childLife.session, url |-> Nothing, pending |-> childLife.target,
                 doc |-> NoDoc]
    /\ childLife' = [childLife EXCEPT !.pc = "relay"]
    /\ UNCHANGED <<act, webview, spent>>

(* add_child, set_zoom, the security hook or show fails: the child is      *)
(* closed if it can be, and the state is cleared either way                *)
CreateFails(closed) ==
    /\ childLife.pc \in {"add", "relay", "show"}
    /\ child' = IF closed THEN Nothing ELSE child
    /\ act' = Nothing
    /\ childLife' = NoChildLife
    /\ UNCHANGED <<webview, spent>>

CreateRelay(installed) ==
    /\ childLife.pc = "relay"
    /\ act' = IF act = Nothing THEN act ELSE [act EXCEPT !.relay = installed]
    /\ childLife' = [childLife EXCEPT !.pc = "replay"]
    /\ UNCHANGED <<child, webview, spent>>

(* select_replay_url, from the state and the child's URL of this moment    *)
CreateSelects ==
    /\ childLife.pc = "replay"
    /\ childLife' = [pc |-> "check", session |-> childLife.session, gen |-> act.gen,
                     url |-> IF act.url # childLife.target THEN act.url
                             ELSE IF child.url # Nothing THEN child.url ELSE act.url]
    /\ UNCHANGED <<act, child, webview, spent>>

(* page_loaded_replay: dropped if a navigation moved the generation on     *)
CreateReplays ==
    LET u == childLife.url
        current == /\ Live(childLife.session) /\ policy_allows(u)
                   /\ child.url \in {Nothing, u} /\ act.gen = childLife.gen
    IN /\ childLife.pc = "check"
       /\ act' = IF current THEN [act EXCEPT !.url = u] ELSE act
       /\ childLife' = IF current THEN [pc |-> "eval", session |-> childLife.session, cred |-> Cred(act)]
                       ELSE [pc |-> "show", session |-> childLife.session]
       /\ moved' = IF act' # act THEN moved \cup {childLife.session} ELSE moved
       /\ UNCHANGED <<child, webview, children, navigations, commands>>

(* the script is dispatched after the state lock was released              *)
CreateEvals ==
    /\ childLife.pc = "eval" /\ Len(scripts) < MaxScripts
    /\ scripts' = Append(scripts, childLife.cred)
    /\ childLife' = [pc |-> "show", session |-> childLife.session]
    /\ UNCHANGED <<act, child, loads, relays, spent>>

CreateShows ==
    /\ childLife.pc = "show"
    /\ childLife' = NoChildLife
    /\ UNCHANGED <<act, child, webview, spent>>

(* destroy, clear_profile, cleanup_on_main_close: an error of close keeps  *)
(* the state                                                               *)
destroy(closed) ==
    /\ childLife = NoChildLife
    /\ child' = IF closed THEN Nothing ELSE child
    /\ act' = IF closed \/ child = Nothing THEN Nothing ELSE act
    /\ UNCHANGED <<childLife, webview, spent>>

(* dispatch_command: a new request id, remembered                          *)
dispatch_command ==
    /\ childLife = NoChildLife /\ child # Nothing /\ act # Nothing /\ commands < MaxCommands
    /\ commands' = commands + 1
    /\ act' = [act EXCEPT !.ids = remember_request(@, act.connect, <<commands + 1, "r">>)]
    /\ UNCHANGED <<child, childLife, webview, children, navigations, moved>>
-----------------------------------------------------------------------------
(* Callbacks                                                               *)

(* navigation_requested, for the page's own navigations, redirects and the *)
(* navigate command: an approved one renews the credentials                *)
navigation_requested(u) ==
    /\ child # Nothing /\ navigations < MaxNavigations
    /\ navigations' = navigations + 1
    /\ IF Live(child.session) /\ policy_allows(u)
       THEN LET connect == <<act.gen + 1, "c">> IN
            /\ act' = [act EXCEPT !.gen = @ + 1, !.connect = connect, !.url = u,
                                  !.ids = remember_request(<<>>, connect, connect)]
            /\ child' = [child EXCEPT !.pending = u]
       ELSE UNCHANGED <<act, child>>
    /\ UNCHANGED <<childLife, webview, children, commands, moved>>

\* Mutant: a load event is not compared with the page the controller committed.
page_loaded_StalePage(e) ==
    LET current == /\ Live(e.session) /\ policy_allows(e.url)
                   /\ child # Nothing /\ child.session = e.session
    IN /\ e \in loads /\ (current => Len(scripts) < MaxScripts)
       /\ loads' = loads \ {e}
       /\ scripts' = IF current THEN Append(scripts, Cred(act)) ELSE scripts
       /\ UNCHANGED <<act, child, childLife, relays, spent>>

(* page_loaded on a Finished event                                         *)
page_loaded(e) ==
    LET current == /\ Live(e.session) /\ policy_allows(e.url)
                   /\ child # Nothing /\ child.session = e.session
                   /\ child.url = e.url /\ act.url = e.url
    IN /\ e \in loads /\ (current => Len(scripts) < MaxScripts)
       /\ loads' = loads \ {e}
       /\ scripts' = IF current THEN Append(scripts, Cred(act)) ELSE scripts
       /\ UNCHANGED <<act, child, childLife, relays, spent>>

(* parse_relay and accept_relay: AcceptedRelay or a rejection              *)
parse_relay(m) == m.kind \in {"ready", "navigation", "error", "selection"}
accepts(m) ==
    /\ parse_relay(m)
    /\ Live(m.session)
    /\ m.cred.gen = act.gen /\ m.cred.session = act.session
    /\ m.cred.req \in ToSet(act.ids)
    /\ OriginOf[m.source] = OriginOf[act.url]
    /\ m.kind = "navigation" => policy_allows(m.source)

RelayArrives(m) ==
    /\ m \in relays
    /\ relays' = relays \ {m}
    /\ UNCHANGED <<act, child, childLife, loads, scripts, spent>>
-----------------------------------------------------------------------------
(* The webview                                                             *)

(* The document of an approved navigation replaces the one before.         *)
WebviewCommits ==
    /\ child # Nothing /\ child.pending # Nothing
    /\ child' = [child EXCEPT !.url = child.pending, !.pending = Nothing,
                              !.doc = [url |-> child.pending, cred |-> Nothing]]
    /\ loads' = loads \cup {[session |-> child.session, url |-> child.pending]}
    /\ UNCHANGED <<act, childLife, scripts, relays, spent>>

(* eval runs in whatever document the child shows by then                  *)
ScriptRuns ==
    /\ scripts # <<>>
    /\ scripts' = Tail(scripts)
    /\ child' = IF child # Nothing /\ child.session = Head(scripts).session
                   /\ child.doc # NoDoc
                THEN [child EXCEPT !.doc.cred = Head(scripts)] ELSE child
    /\ UNCHANGED <<act, childLife, loads, relays, spent>>

(* The bridge in the page answers with the credentials it was given.       *)
PageSends(kind) ==
    /\ child # Nothing /\ child.doc.cred # Nothing /\ relays = {}
    /\ relays' = {[session |-> child.session, cred |-> child.doc.cred, kind |-> kind,
                   source |-> child.url]}
    /\ UNCHANGED <<act, child, childLife, loads, scripts, spent>>

ChildNext ==
    \/ \E u \in Pages : CreateStart(u)
    \/ CreateAdds
    \/ \E c \in BOOLEAN : CreateFails(c)
    \/ \E i \in BOOLEAN : CreateRelay(i)
    \/ CreateSelects
    \/ CreateReplays
    \/ CreateEvals
    \/ CreateShows
    \/ \E c \in BOOLEAN : destroy(c)
    \/ dispatch_command
    \/ \E u \in Pages : navigation_requested(u)
    \/ \E e \in loads : page_loaded(e)
    \/ \E m \in relays : RelayArrives(m)
    \/ WebviewCommits
    \/ ScriptRuns
    \/ \E kind \in {"ready", "navigation", "console"} : PageSends(kind)

ChildSpec == ChildInit /\ [][ChildNext]_childVars
-----------------------------------------------------------------------------
(* Browser child: types; the remembered request ids are bounded and the    *)
(* connect id is never the one dropped.                                    *)
ChildTypeOK ==
    /\ act # Nothing => /\ act.url \in Pages /\ act.gen \in 0..MaxNavigations
                        /\ Len(act.ids) \in 1..RequestCap
                        /\ act.connect \in ToSet(act.ids)
    /\ child # Nothing => child.url \in Pages \cup {Nothing}
    /\ Len(scripts) <= MaxScripts

(* The current credentials are only ever in a document of the committed    *)
(* origin, however page loads and scripts interleave with later            *)
(* navigations (page_loaded_inner, navigation_requested), unless creation's*)
(* replay moved the committed page.                                        *)
CredentialsStayHome ==
    child # Nothing /\ act # Nothing /\ child.doc.cred = Cred(act) =>
        OriginOf[child.doc.url] = OriginOf[act.url] \/ act.session \in moved

(* What the main window is told comes from the child that exists now and   *)
(* from an approved page: a child that was closed, or replaced by a new    *)
(* one, is no longer heard (accept_relay against destroy and create).      *)
HeardIsShown ==
    \A m \in relays : accepts(m) =>
        /\ child # Nothing /\ child.session = m.session
        /\ policy_allows(act.url)

(* With the lifecycle lock free, a browser that is active has its own      *)
(* child: failed creations and failed closes leave no state without one.   *)
ActiveHasChild ==
    childLife = NoChildLife /\ act # Nothing => child # Nothing /\ child.session = act.session

(* The bridge between the main window and the child carries nothing from   *)
(* or to a page that is not the approved one (browser_debug/controller.rs).*)
BridgeIsConfined == ChildTypeOK /\ CredentialsStayHome /\ HeardIsShown /\ ActiveHasChild
=============================================================================
