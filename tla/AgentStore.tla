----------------------------- MODULE AgentStore -----------------------------
(* The agent store: items (skills, commands, hooks, subagents, MCP servers)   *)
(* kept in one directory and distributed to the agent directories of projects *)
(* by symlink or copy (distributor.rs), absorbed from them, imported          *)
(* (importer.rs) and removed (store.rs). Requests take no lock: each is a     *)
(* sequence of file operations that others, the user's editor and a crash of  *)
(* the server may interrupt.                                                  *)
EXTENDS Integers, FiniteSets

CONSTANTS Catalogues, \* the item names a store may hold, with the category of each
          Slots,      \* project and agent pairs an item is shipped to
          MaxRequests,\* requests made
          MaxContent, \* contents ever written by users and repositories
          MaxFaults   \* failed file operations and crashes

VARIABLES kindOf,     \* the catalogue: category of every item name
          store,      \* content of every path of the store
          slot,       \* what stands at an item's place in a project
          mcp,        \* the servers of a project's MCP configuration
          reqs,       \* the requests
          written,    \* the number of contents so far
          discarded,  \* contents a remove or unship request deleted
          raced,      \* items two parties touched at once
          agentFaults
asVars == <<kindOf, store, slot, mcp, reqs, written, discarded, raced, agentFaults>>

Requests == 1..MaxRequests
Items   == DOMAIN kindOf
Absent  == 0
Torn == 0 - 1
Exts    == {"bare", "md"}
FileItems   == {i \in Items : kindOf[i] # "mcp"}
NoSlot  == [kind |-> "none", v |-> Absent]
Unused  == [pc |-> "unused"]
Running == {q \in Requests : reqs[q].pc \notin {"unused", "done"}}
Importing == {q \in Running : reqs[q].pc = "importing"}
On(i)   == {q \in Running : reqs[q].item = i}

(* Where resolve_ship_paths, import_from_repo, get and remove look for an item.*)
ship_ext(i)    == IF kindOf[i] = "command" THEN "md" ELSE "bare"
import_ext(i)  == IF kindOf[i] \in {"command", "subagent"} THEN "md" ELSE "bare"
get_ext(i)     == CASE kindOf[i] = "command"  -> IF store[i]["md"] # Absent THEN "md" ELSE "bare"
                    [] kindOf[i] = "subagent" -> IF store[i]["bare"] # Absent THEN "bare" ELSE "md"
                    [] OTHER                  -> "bare"
remove_exts(i) == IF kindOf[i] = "command" THEN {"md", "bare"} ELSE {"bare"}
get(i)         == store[i][get_ext(i)] # Absent
Source(i)      == store[i][ship_ext(i)]

ASInit ==
  /\ kindOf \in Catalogues
  /\ store = [i \in Items |-> [e \in Exts |-> Absent]]
  /\ slot = [i \in FileItems |-> [s \in Slots |-> NoSlot]]
  /\ mcp = [s \in Slots |-> {}]
  /\ reqs = [q \in Requests |-> Unused]
  /\ written = 0 /\ discarded = {} /\ raced = {} /\ agentFaults = 0

(* What an action leaves alone.                                                *)
SameFiles == UNCHANGED <<store, slot, mcp>>
SameUser  == UNCHANGED <<kindOf, written, raced>>
Keeps     == UNCHANGED <<discarded, agentFaults>>
To(q, pc) == reqs' = [reqs EXCEPT ![q].pc = pc]
Ended(q, ok)  == IF kindOf[reqs[q].item] = "mcp"
                 THEN [pc |-> "done", op |-> reqs[q].op, item |-> reqs[q].item, at |-> reqs[q].at, ok |-> ok]
                 ELSE [pc |-> "done", ok |-> FALSE, item |-> reqs[q].item]
AgentAnswers(q, ok) == reqs' = [reqs EXCEPT ![q] = Ended(q, ok)]
StorePut(i, e, v)  == store' = [store EXCEPT ![i][e] = v]
Place(i, s, k, v) == slot' = [slot EXCEPT ![i][s] = [kind |-> k, v |-> v]]
CopyMayFail == agentFaults < MaxFaults /\ agentFaults' = agentFaults + 1

(* A user writes a file of their own in a project, or edits a copied one.      *)
UserWrites(i, s) ==
  /\ written < MaxContent /\ slot[i][s].kind # "link"
  /\ written' = written + 1
  /\ Place(i, s, "copy", written + 1)
  /\ raced' = IF On(i) = {} THEN raced ELSE raced \union {i}
  /\ discarded' = discarded \union {slot[i][s].v}   \* the user replaced it
  /\ UNCHANGED <<kindOf, store, mcp, reqs, agentFaults>>

(* The HTTP handlers: method and force are given or defaulted.                 *)
Ops(i) == IF kindOf[i] = "mcp" THEN {"ship", "unship"}
                               ELSE {"ship", "unship", "absorb", "import", "remove"}
Start(q, i, s, op, method, force) ==
  /\ reqs[q].pc = "unused" /\ \A p \in 1..(q - 1) : reqs[p].pc # "unused"
  /\ op \in Ops(i)
  /\ (method = "copy") => op = "ship" /\ kindOf[i] # "mcp"
  /\ force => op = "unship"
  /\ reqs' = [reqs EXCEPT ![q] = [pc |-> op, op |-> op, item |-> i, at |-> s, method |-> method,
                                   force |-> force, ok |-> FALSE, v |-> Absent, seen |-> {}]]
  /\ raced' = IF \E p \in Running : reqs[p].item = i \/ {kindOf[i], kindOf[reqs[p].item]} = {"mcp"}
              THEN raced \union {i} ELSE raced
  /\ SameFiles /\ Keeps /\ UNCHANGED <<kindOf, written>>

IsAt(q, pc) == reqs[q].pc = pc /\ kindOf[reqs[q].item] # "mcp"
I(q) == reqs[q].item
S(q) == reqs[q].at
There(q) == slot[I(q)][S(q)]

(* ship looks at the target first: a store symlink is success, anything else   *)
(* an error (check_existing_target); then it links or copies.                  *)
ShipLooks(q) ==
  /\ IsAt(q, "ship")
  /\ CASE There(q).kind = "none" -> To(q, "place")
       [] There(q).kind = "link" -> AgentAnswers(q, TRUE)
       [] OTHER                  -> AgentAnswers(q, FALSE)
  /\ SameFiles /\ SameUser /\ Keeps
(* symlink fails on an existing name; its source is not looked at.             *)
ShipLinks(q) ==
  /\ IsAt(q, "place") /\ reqs[q].method = "symlink"
  /\ IF There(q).kind = "none" THEN Place(I(q), S(q), "link", Absent) /\ AgentAnswers(q, TRUE)
                               ELSE AgentAnswers(q, FALSE) /\ UNCHANGED slot
  /\ UNCHANGED <<store, mcp>> /\ SameUser /\ Keeps
(* copy_recursive follows a link that appeared meanwhile and truncates the     *)
(* store's own file.                                                           *)
ShipCopies(q) ==
  /\ IsAt(q, "place") /\ reqs[q].method = "copy"
  /\ IF Source(I(q)) = Absent
     THEN AgentAnswers(q, FALSE) /\ UNCHANGED <<store, slot>>
     ELSE /\ AgentAnswers(q, TRUE)
          /\ IF There(q).kind = "link"
             THEN StorePut(I(q), ship_ext(I(q)), Torn) /\ UNCHANGED slot
             ELSE Place(I(q), S(q), "copy", Source(I(q))) /\ UNCHANGED store
  /\ UNCHANGED mcp /\ SameUser /\ Keeps
ShipCopyFails(q) ==
  /\ IsAt(q, "place") /\ reqs[q].method = "copy" /\ There(q).kind = "none"
  /\ Source(I(q)) # Absent /\ CopyMayFail
  /\ Place(I(q), S(q), "copy", Torn) /\ AgentAnswers(q, FALSE)
  /\ UNCHANGED <<store, mcp, discarded>> /\ SameUser

(* content_differs: a file without a source is taken as unmodified, a          *)
(* directory without one as modified.                                          *)
content_differs(i, v) ==
  IF Source(i) = Absent THEN kindOf[i] = "skill" ELSE v # Source(i)
Unship(q) ==
  /\ IsAt(q, "unship")
  /\ CASE There(q).kind = "none" -> AgentAnswers(q, TRUE) /\ UNCHANGED <<slot, discarded>>
       [] There(q).kind = "link" -> /\ AgentAnswers(q, TRUE) /\ Place(I(q), S(q), "none", Absent)
                                    /\ UNCHANGED discarded
       [] OTHER -> IF content_differs(I(q), There(q).v) /\ ~reqs[q].force
                   THEN AgentAnswers(q, FALSE) /\ UNCHANGED <<slot, discarded>>
                   ELSE /\ AgentAnswers(q, TRUE) /\ Place(I(q), S(q), "none", Absent)
                        /\ discarded' = discarded \union {There(q).v}
  /\ UNCHANGED <<store, mcp, agentFaults>> /\ SameUser

(* absorb: copy to the store, remove the original, ship a symlink.             *)
AbsorbChecks(q) ==
  /\ IsAt(q, "absorb")
  /\ IF There(q).kind = "copy" /\ Source(I(q)) = Absent
     THEN To(q, "copying") /\ StorePut(I(q), ship_ext(I(q)), Torn)
     ELSE AgentAnswers(q, FALSE) /\ UNCHANGED store
  /\ UNCHANGED <<slot, mcp>> /\ SameUser /\ Keeps
AbsorbCopies(q) ==
  /\ IsAt(q, "copying") /\ There(q).kind = "copy"
  /\ StorePut(I(q), ship_ext(I(q)), There(q).v) /\ To(q, "removing")
  /\ UNCHANGED <<slot, mcp>> /\ SameUser /\ Keeps
CopyCleansUp(q) ==
  /\ StorePut(I(q), ship_ext(I(q)), Absent) /\ AgentAnswers(q, FALSE)
  /\ UNCHANGED <<slot, mcp, discarded>> /\ SameUser

\* Mutant: the error of the copy is swallowed and the source removed.
AbsorbCopyFails_Ignored(q) ==
  /\ IsAt(q, "copying") /\ CopyMayFail /\ To(q, "removing")
  /\ SameFiles /\ SameUser /\ UNCHANGED discarded

AbsorbCopyFails(q) == IsAt(q, "copying") /\ CopyMayFail /\ CopyCleansUp(q)
AbsorbSourceGone(q) ==
  IsAt(q, "copying") /\ There(q).kind # "copy" /\ CopyCleansUp(q) /\ UNCHANGED agentFaults
AbsorbRemoves(q) ==
  /\ IsAt(q, "removing") /\ There(q).kind # "none"
  /\ Place(I(q), S(q), "none", Absent)
  /\ reqs' = [reqs EXCEPT ![q] = [@ EXCEPT !.pc = "ship", !.method = "symlink"]]
  /\ UNCHANGED <<store, mcp>> /\ SameUser /\ Keeps
AbsorbRemoveFails(q) ==
  /\ IsAt(q, "removing") /\ AgentAnswers(q, FALSE)
  /\ \/ There(q).kind = "none" /\ UNCHANGED agentFaults
     \/ There(q).kind # "none" /\ CopyMayFail
  /\ SameFiles /\ SameUser /\ UNCHANGED discarded

(* import_from_repo: an existing item is refused; a failed copy stays.         *)
ImportChecks(q) ==
  /\ IsAt(q, "import") /\ written < MaxContent
  /\ IF store[I(q)][import_ext(I(q))] # Absent
     THEN AgentAnswers(q, FALSE) /\ UNCHANGED <<store, written>>
     ELSE /\ reqs' = [reqs EXCEPT ![q] = [@ EXCEPT !.pc = "importing", !.v = written + 1]]
          /\ StorePut(I(q), import_ext(I(q)), Torn) /\ written' = written + 1
  /\ UNCHANGED <<kindOf, slot, mcp, raced>> /\ Keeps
ImportCopies(q) ==
  /\ IsAt(q, "importing")
  /\ \/ /\ StorePut(I(q), import_ext(I(q)), reqs[q].v) /\ AgentAnswers(q, TRUE)
        /\ UNCHANGED <<discarded, agentFaults>>
     \/ /\ CopyMayFail /\ AgentAnswers(q, FALSE) /\ UNCHANGED store
        /\ discarded' = discarded \union {reqs[q].v}
  /\ UNCHANGED <<slot, mcp>> /\ SameUser

(* AgentStoreService::remove: get must find the item; removals ignore errors.  *)
RemoveItem(q) ==
  /\ IsAt(q, "remove")
  /\ IF ~get(I(q)) THEN AgentAnswers(q, FALSE) /\ UNCHANGED <<store, discarded>>
     ELSE /\ AgentAnswers(q, TRUE)
          /\ store' = [store EXCEPT ![I(q)] =
                         [e \in Exts |-> IF e \in remove_exts(I(q)) THEN Absent ELSE @[e]]]
          /\ discarded' = discarded \union {store[I(q)][e] : e \in remove_exts(I(q))}
  /\ UNCHANGED <<slot, mcp, agentFaults>> /\ SameUser

(* ship_mcp_server and unship_mcp_server read the configuration and write it   *)
(* back whole.                                                                 *)
McpReads(q) ==
  /\ reqs[q].pc \in {"ship", "unship"} /\ kindOf[I(q)] = "mcp"
  /\ reqs' = [reqs EXCEPT ![q] = [@ EXCEPT !.pc = "mcp", !.seen = mcp[S(q)]]]
  /\ SameFiles /\ SameUser /\ Keeps
McpWrites(q) ==
  /\ reqs[q].pc = "mcp"
  /\ mcp' = [mcp EXCEPT ![S(q)] = IF reqs[q].op = "ship" THEN reqs[q].seen \union {I(q)}
                                                        ELSE reqs[q].seen \ {I(q)}]
  /\ AgentAnswers(q, TRUE)
  /\ UNCHANGED <<store, slot>> /\ SameUser /\ Keeps

(* The server stops: its requests end where they are.                          *)
Dies ==
  /\ Running # {} /\ CopyMayFail
  /\ reqs' = [q \in Requests |-> IF q \in Running THEN Ended(q, FALSE) ELSE reqs[q]]
  /\ discarded' = discarded \union {reqs[q].v : q \in Importing}
  /\ SameFiles /\ SameUser

ASNext ==
  \/ \E i \in FileItems, s \in Slots : UserWrites(i, s)
  \/ \E q \in Requests, i \in Items, s \in Slots, op \in {"ship", "unship", "absorb", "import", "remove"},
        m \in {"symlink", "copy"}, f \in BOOLEAN : Start(q, i, s, op, m, f)
  \/ \E q \in Requests :
       \/ ShipLooks(q) \/ ShipLinks(q) \/ ShipCopies(q) \/ ShipCopyFails(q) \/ Unship(q)
       \/ AbsorbChecks(q) \/ AbsorbCopies(q) \/ AbsorbCopyFails(q) \/ AbsorbSourceGone(q)
       \/ AbsorbRemoves(q) \/ AbsorbRemoveFails(q)
       \/ ImportChecks(q) \/ ImportCopies(q) \/ RemoveItem(q) \/ McpReads(q) \/ McpWrites(q)
  \/ Dies
ASSpec == ASInit /\ [][ASNext]_asVars

-----------------------------------------------------------------------------
Contents == {Absent, Torn} \union 1..MaxContent
(* Types, and a link is only ever made at an item's place in a project.        *)
StoreOfItemsTypeOK ==
  /\ store \in [Items -> [Exts -> Contents]]
  /\ slot \in [FileItems -> [Slots -> [kind : {"none", "link", "copy"}, v : Contents]]]
  /\ mcp \in [Slots -> SUBSET (Items \ FileItems)]
  /\ \A i \in FileItems, s \in Slots : slot[i][s].kind = "link" => slot[i][s].v = Absent

(* A content written in a project or imported stays readable somewhere until   *)
(* a request to remove or unship it, or its author, discards it: also when an  *)
(* absorb fails or the server dies between its copy, its removal and its link. *)
(* Only parties that touch the same item at once can lose it.                  *)
Kept(i)  == {store[i][e] : e \in Exts} \union {slot[i][s].v : s \in Slots}
ContentKept ==
  raced = {} =>
    \A v \in 1..written :
      v \in discarded \/ (\E i \in FileItems : v \in Kept(i))
      \/ \E q \in Importing : reqs[q].v = v

(* A server whose shipping was the last acknowledged request on it stands in   *)
(* the project's configuration, and one unshipped does not.                    *)
McpAsAcknowledged ==
  raced \intersect (Items \ FileItems) = {} =>
    \A q \in Requests :
      (reqs[q].pc = "done" /\ reqs[q].ok /\ kindOf[reqs[q].item] = "mcp"
        /\ \A p \in Requests \ {q} : reqs[p].pc = "unused" \/ reqs[p].item # reqs[q].item)
      => ((reqs[q].op = "ship") <=> (reqs[q].item \in mcp[reqs[q].at]))

(* The agent store and the projects it ships to lose nothing and do as     *)
(* they answered (agent_store/distributor.rs, store.rs, importer.rs).       *)
AgentContentKept == StoreOfItemsTypeOK /\ ContentKept /\ McpAsAcknowledged
=============================================================================
