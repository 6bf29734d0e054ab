------------------------------ MODULE FsWatch ------------------------------
(***************************************************************************)
(* Directory subscriptions (server/src/fs/mod.rs, fs/watcher.rs and the    *)
(* subscribe handler and event pump of api/ws.rs).  Watchers are shared    *)
(* and reference counted per directory; each subscription has a broadcast  *)
(* receiver, a pump task and a place in its connection's bounded channel.  *)
(* A directory's contents are a version number; event v tells the change   *)
(* that made version v.                                                    *)
(***************************************************************************)
EXTENDS Naturals, Sequences, FiniteSets, Functions

CONSTANTS
  Clients,        \* connections
  WatchKeys,      \* project, target and root of a watcher
  BroadcastCap,   \* events a receiver may be behind
  ChanCap,        \* FS_CHAN_CAP: events queued for a connection's writer
  MaxSubs,        \* bound: subscriptions made
  MaxVersion,     \* bound: changes of a directory
  MaxReinit       \* bound: workspace switches

ASSUME WatchAssumption == {BroadcastCap, ChanCap, MaxSubs} \subseteq Nat \ {0} /\ MaxVersion \in Nat

VARIABLES
  treever,        \* key -> version of the directory
  rawEvents,            \* key -> changes the watcher saw and has not broadcast (debounce)
  watchers,       \* key -> [gen, refcount]; refcount 0: no watcher
  subs,           \* subscription ids registered in FsSubsystem
  next_sub_id,
  sub,            \* id -> its key, connection, receiver and pump
  fschan,         \* connection -> events queued for its writer
  online,         \* connections whose reader runs
  reinits

watchvars == <<treever, rawEvents, watchers, subs, next_sub_id, sub, fschan, online, reinits>>

WatchInit ==
  /\ treever = [k \in WatchKeys |-> 0]
  /\ rawEvents = [k \in WatchKeys |-> <<>>]
  /\ watchers = [k \in WatchKeys |-> [gen |-> 0, refcount |-> 0]]
  /\ subs = {} /\ next_sub_id = 1 /\ sub = <<>>
  /\ fschan = [c \in Clients |-> <<>>]
  /\ online = Clients /\ reinits = 0

(* FsWatcherManager::release over a bag of keys: a watcher nobody needs    *)
(* is dropped, with the changes it had not broadcast.                      *)
release(ids) ==
  LET left(k) == watchers[k].refcount - Cardinality({i \in ids: sub[i].key = k}) IN
  /\ watchers' = [k \in WatchKeys |-> [watchers[k] EXCEPT !.refcount = left(k)]]
  /\ rawEvents' = [k \in WatchKeys |-> IF left(k) = 0 THEN <<>> ELSE rawEvents[k]]
  /\ subs' = subs \ ids

\* Mutant: a subscription that is already gone is released again.
unsubscribe_tree_Always(i) == release({i})

unsubscribe_tree(i) == release({i} \cap subs)

Busy_(c) == \E i \in DOMAIN sub: sub[i].conn = c /\ sub[i].at \in {"registered", "listed"}

(* subscribe_with_key, under the FsSubsystem lock: join the watcher or     *)
(* start one, which may fail and then leaves nothing behind.               *)
subscribe_with_key(c, k) ==
  /\ c \in online /\ ~Busy_(c) /\ next_sub_id <= MaxSubs
  /\ watchers' = [watchers EXCEPT ![k] =
       IF @.refcount > 0 THEN [gen |-> @.gen, refcount |-> @.refcount + 1]
       ELSE [gen |-> @.gen + 1, refcount |-> 1]]
  /\ next_sub_id' = next_sub_id + 1
  /\ subs' = subs \cup {next_sub_id}
  /\ sub' = Append(sub, [conn |-> c, key |-> k, gen |-> watchers'[k].gen, at |-> "registered",
                         rx |-> <<>>, lagged |-> FALSE, snap |-> 0, told |-> {}])
  /\ UNCHANGED <<treever, rawEvents, fschan, online, reinits>>

(* The snapshot is read after the subscription exists; when it fails, the  *)
(* guard gives the registration back.                                      *)
tree_snapshot(i) ==
  /\ sub[i].at = "registered"
  /\ sub' = [sub EXCEPT ![i].at = "listed", ![i].snap = treever[sub[i].key]]
  /\ UNCHANGED <<treever, rawEvents, watchers, subs, next_sub_id, fschan, online, reinits>>

FsSubscriptionGuardDrop(i) ==
  /\ sub[i].at \in {"registered", "listed"}
  /\ sub' = [sub EXCEPT ![i].at = "gone"]
  /\ unsubscribe_tree(i)
  /\ UNCHANGED <<treever, next_sub_id, fschan, online, reinits>>

(* The snapshot is sent and the pump starts.                               *)
do_fs_subscribe(i) ==
  /\ sub[i].at = "listed"
  /\ sub' = [sub EXCEPT ![i].at = "pumping"]
  /\ UNCHANGED <<treever, rawEvents, watchers, subs, next_sub_id, fschan, online, reinits>>

(***************************************************************************)
(* Events: a change is seen by the watcher, broadcast after the debounce   *)
(* and pumped into the connection's channel.                               *)
(***************************************************************************)
ChangeTree(k) ==
  /\ treever[k] < MaxVersion
  /\ treever' = [treever EXCEPT ![k] = @ + 1]
  /\ rawEvents' = [rawEvents EXCEPT ![k] = IF watchers[k].refcount > 0 THEN Append(@, treever'[k]) ELSE @]
  /\ UNCHANGED <<watchers, subs, next_sub_id, sub, fschan, online, reinits>>

(* A receiver exists from the subscription to the end of the pump, and     *)
(* hears the watcher it subscribed to.                                     *)
Listening(i, k) == /\ sub[i].key = k /\ sub[i].gen = watchers[k].gen
                   /\ sub[i].at \in {"registered", "listed", "pumping"}
Tail_(s, n) == IF Len(s) > n THEN SubSeq(s, Len(s) - n + 1, Len(s)) ELSE s

Broadcast(k) ==
  /\ rawEvents[k] # <<>>
  /\ rawEvents' = [rawEvents EXCEPT ![k] = <<>>]
  /\ sub' = [i \in DOMAIN sub |->
       IF Listening(i, k)
       THEN [sub[i] EXCEPT !.rx = Tail_(@ \o rawEvents[k], BroadcastCap),
                           !.lagged = @ \/ Len(sub[i].rx \o rawEvents[k]) > BroadcastCap]
       ELSE sub[i]]
  /\ UNCHANGED <<treever, watchers, subs, next_sub_id, fschan, online, reinits>>

(* The pump's try_send; a full channel ends the subscription, with a       *)
(* notice to the client.                                                   *)
PumpSends(i) ==
  /\ sub[i].at = "pumping" /\ sub[i].rx # <<>> /\ Len(fschan[sub[i].conn]) < ChanCap
  /\ fschan' = [fschan EXCEPT ![sub[i].conn] = Append(@, <<i, Head(sub[i].rx)>>)]
  /\ sub' = [sub EXCEPT ![i].rx = Tail(@)]
  /\ UNCHANGED <<treever, rawEvents, watchers, subs, next_sub_id, online, reinits>>

PumpOverflows(i) ==
  /\ sub[i].at = "pumping" /\ sub[i].rx # <<>> /\ Len(fschan[sub[i].conn]) >= ChanCap
  /\ sub' = [sub EXCEPT ![i].at = "notice"]
  /\ UNCHANGED <<treever, rawEvents, watchers, subs, next_sub_id, fschan, online, reinits>>

(* The pump ends after the notice, or when its watcher is gone and the     *)
(* receiver is drained; either way it gives its registration back.         *)
Closed_(i) == watchers[sub[i].key].refcount = 0 \/ watchers[sub[i].key].gen # sub[i].gen

PumpEnds(i) ==
  /\ \/ sub[i].at = "notice"
     \/ sub[i].at = "pumping" /\ sub[i].rx = <<>> /\ Closed_(i)
  /\ sub' = [sub EXCEPT ![i].at = IF @ = "notice" THEN "overflowed" ELSE "gone"]
  /\ unsubscribe_tree(i)
  /\ UNCHANGED <<treever, next_sub_id, fschan, online, reinits>>

WriterSends(c) ==
  /\ fschan[c] # <<>>
  /\ fschan' = [fschan EXCEPT ![c] = Tail(@)]
  /\ sub' = [sub EXCEPT ![Head(fschan[c])[1]].told = @ \cup {Head(fschan[c])[2]}]
  /\ UNCHANGED <<treever, rawEvents, watchers, subs, next_sub_id, online, reinits>>

(* fs:unsubscribe_tree aborts the pump, wherever it is, and unregisters.   *)
FsUnsubTree(i) ==
  /\ sub[i].conn \in online /\ ~Busy_(sub[i].conn) /\ sub[i].at \in {"pumping", "notice"}
  /\ sub' = [sub EXCEPT ![i].at = "gone"]
  /\ unsubscribe_tree(i)
  /\ UNCHANGED <<treever, next_sub_id, fschan, online, reinits>>

(* The end of the reader: every pump it started is aborted and each        *)
(* subscription unregistered, whatever its pump had done.                  *)
PumpsOf(c) == {i \in DOMAIN sub: sub[i].conn = c /\ sub[i].at # "gone"}

Cleanup(c) ==
  /\ c \in online /\ ~Busy_(c)
  /\ online' = online \ {c}
  /\ sub' = [i \in DOMAIN sub |-> IF i \in PumpsOf(c) THEN [sub[i] EXCEPT !.at = "gone"] ELSE sub[i]]
  /\ release(PumpsOf(c) \cap subs)
  /\ fschan' = [fschan EXCEPT ![c] = <<>>]
  /\ UNCHANGED <<treever, next_sub_id, reinits>>

(* A workspace switch drops every subscription and its watcher at once.    *)
reinit_sandbox ==
  /\ reinits < MaxReinit /\ reinits' = reinits + 1
  /\ release(subs)
  /\ UNCHANGED <<treever, next_sub_id, sub, fschan, online>>

WatchNext ==
  \/ \E c \in Clients, k \in WatchKeys: subscribe_with_key(c, k)
  \/ \E i \in DOMAIN sub: \/ tree_snapshot(i) \/ FsSubscriptionGuardDrop(i) \/ do_fs_subscribe(i)
       \/ PumpSends(i) \/ PumpOverflows(i) \/ PumpEnds(i) \/ FsUnsubTree(i)
  \/ \E k \in WatchKeys: ChangeTree(k) \/ Broadcast(k)
  \/ \E c \in Clients: WriterSends(c) \/ Cleanup(c)
  \/ reinit_sandbox
WatchSpec == WatchInit /\ [][WatchNext]_watchvars

(***************************************************************************)
(* Properties                                                              *)
(***************************************************************************)
WatchTypeOK ==
  /\ treever \in [WatchKeys -> 0 .. MaxVersion]
  /\ next_sub_id \in 1 .. MaxSubs + 1 /\ Len(sub) = next_sub_id - 1
  /\ subs \subseteq DOMAIN sub /\ online \subseteq Clients
  /\ \A c \in Clients: Len(fschan[c]) <= ChanCap
  /\ \A i \in DOMAIN sub: Len(sub[i].rx) <= BroadcastCap

(* A watcher counts exactly its registered subscriptions, through aborted  *)
(* pumps, overflows, failed snapshots, workspace switches and any order of *)
(* the several releases a subscription may see (release, unsubscribe_tree):*)
(* a watcher is neither dropped under a subscriber nor kept for nobody.    *)
RefcountIsExact ==
  \A k \in WatchKeys: watchers[k].refcount = Cardinality({i \in subs: sub[i].key = k})

(* No registration outlives the handler and the pump that own it: each has *)
(* a task that will still release it, on a connection that is up.          *)
NoLeakedSubscription ==
  \A i \in subs: sub[i].conn \in online /\ sub[i].at \in {"registered", "listed", "pumping", "notice"}

(* A client whose subscription is registered and never lagged misses no    *)
(* change: each one after its snapshot is told, queued, or not yet         *)
(* broadcast (the snapshot is taken after subscribing, not before).        *)
NoSilentGap ==
  \A i \in subs: (sub[i].at = "pumping" /\ ~sub[i].lagged) =>
    \A v \in sub[i].snap + 1 .. treever[sub[i].key]:
      \/ v \in sub[i].told \cup Range(sub[i].rx) \cup Range(rawEvents[sub[i].key])
      \/ <<i, v>> \in Range(fschan[sub[i].conn])

(* Every subscription is counted, owned and told (watcher.rs, ws.rs).      *)
WatchersAreExact == WatchTypeOK /\ RefcountIsExact /\ NoLeakedSubscription /\ NoSilentGap
=============================================================================
