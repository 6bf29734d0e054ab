------------------------------ MODULE GitRewrite ------------------------------
(***************************************************************************)
(* The history actions of server/src/git/commit_file_ops.rs: dropping a    *)
(* commit, dropping some of its files, editing its message, reverting it,  *)
(* and picking or reverting some of its files; and the push of             *)
(* git/repository.rs.                                                      *)
(*                                                                         *)
(* A request is a chain of `git` processes.  Nothing locks the repository  *)
(* between two of them: another request, or a user at a terminal, may act  *)
(* after any step.  The preflight's reads are one step here, the commands  *)
(* that write are one step each.                                           *)
(*                                                                         *)
(* A commit's hash stands for its whole history, so a commit IS the        *)
(* sequence of the changes leading to it: its parent is Front(c), it is    *)
(* reachable from h iff it is a prefix of h, and two rewrites that give    *)
(* the same sequence give the same history.                                *)
(***************************************************************************)
EXTENDS Naturals, Sequences, SequencesExt

CONSTANTS
    GitReqs,      \* the HTTP requests, each served once
    GitDepth,     \* commits on the branch at the start
    MaxMeddling   \* bound: what happens besides the requests: commits, edits and aborts
                  \* of a user, pushes, git processes that fail by themselves (a hook)

VARIABLES
    repo,     \* the repository: HEAD, the branch, its upstream, the worktree
    gitReq,   \* what each request has done and read
    gitUsed   \* how much has happened besides the requests

gitVars == <<repo, gitReq, gitUsed>>

WholeCommit(i) == [id |-> i, form |-> "whole", reworded |-> FALSE]
PartialCommit(c) == [c EXCEPT !.form = "part"]
Inverted(c) == [c EXCEPT !.form = "inverse"]
Reworded(c) == [c EXCEPT !.reworded = TRUE]

FirstTip == [i \in 1..GitDepth |-> WholeCommit(i)]

\* The commits a client may name: those of the first listing, and today's.
KnownHashes == {SubSeq(FirstTip, 1, n) : n \in 1..GitDepth}
               \cup {SubSeq(repo.tip, 1, n) : n \in 1..Len(repo.tip)}

RewriteKinds == {"drop", "dropFiles", "reword"}
GitKinds == RewriteKinds \cup {"revert", "pickFiles", "revertFiles"}

NotAsked == [pc |-> "idle", kind |-> "drop", hash |-> <<>>, every |-> FALSE,
             head |-> <<>>, base |-> <<>>, before |-> <<>>, pub |-> <<>>,
             raced |-> FALSE, faulted |-> FALSE,
             answer |-> "none", recovery |-> FALSE, after |-> <<>>, stranded |-> FALSE]

GitInit ==
    /\ \E n \in 0..1 :
         repo = [tip |-> FirstTip, detached |-> FALSE, at |-> <<>>,
                 remote |-> SubSeq(FirstTip, 1, n),
                 dirty |-> FALSE, staged |-> FALSE, op |-> "none"]
    /\ gitReq = [r \in GitReqs |-> NotAsked]
    /\ gitUsed = 0

-----------------------------------------------------------------------------
(* What the git commands do to the repository.                             *)

HeadOf(g) == IF g.detached THEN g.at ELSE g.tip
MoveHead(g, c) == IF g.detached THEN [g EXCEPT !.at = c] ELSE [g EXCEPT !.tip = c]

\* A stopped rebase or revert leaves an unmerged index: checkout, apply and commit refuse it.
Unmerged(g) == g.op # "none"

Attach(g) == [g EXCEPT !.detached = FALSE, !.at = <<>>]
Detach(g, c) == [g EXCEPT !.detached = TRUE, !.at = c]

\* git reset --hard also ends a revert, not a rebase.
HardReset(g, c) == [MoveHead(g, c) EXCEPT !.dirty = FALSE, !.staged = FALSE,
                                          !.op = IF @ = "revert" THEN "none" ELSE @]

\* The commits of `tip` that are not in `upstream`'s history, nor repeat a change of it.
Common(t, u) == CHOOSE n \in 0..Len(t) : /\ n <= Len(u) /\ SubSeq(t, 1, n) = SubSeq(u, 1, n)
                                         /\ n = Len(t) \/ n = Len(u) \/ t[n + 1] # u[n + 1]
PickedOnto(t, u) ==
      LET n == Common(t, u)
      IN SelectSeq(SubSeq(t, n + 1, Len(t)), LAMBDA c : \A j \in n + 1..Len(u) : u[j] # c)

\* git rebase --onto <onto> <upstream> <branch>: refused on local changes or on an
\* operation in progress; it may stop on a conflict when it has commits to replay.
RebaseRefused(g) == g.dirty \/ g.staged \/ g.op # "none"
Rebased(g, onto, upstream) == [Attach(g) EXCEPT !.tip = onto \o PickedOnto(g.tip, upstream)]
RebaseStops(g, onto, upstream) ==
    IF PickedOnto(g.tip, upstream) = <<>> THEN {}
    ELSE {[Detach(g, onto) EXCEPT !.op = "rebase", !.dirty = TRUE]}

\* active_git_operation looks for rebase, merge and cherry-pick state; a revert in
\* progress leaves REVERT_HEAD, which it does not look for.
active_git_operation(g) == g.op = "rebase"
is_commit_reachable_from_head(g, hash) == IsPrefix(hash, HeadOf(g))

\* Mutant: a branch without a remote of its own counts as unpublished.
is_commit_pushed_Never(g, hash) == FALSE

is_commit_pushed(g, hash) == g.remote # <<>> /\ IsPrefix(hash, g.remote)
is_clean_worktree(g) == ~g.dirty /\ ~g.staged

first_parent(hash) == Front(hash)

\* A detached HEAD has no configured push destination.
resolve_push_target(g) == ~g.detached

-----------------------------------------------------------------------------
(* Requests.                                                               *)

Meddle == gitUsed < MaxMeddling /\ gitUsed' = gitUsed + 1

Serving(q) == q.pc \notin {"idle", "done"}

\* Request r leaves the repository as g and goes on as q; every other request being
\* served has then been raced.
GitStep(r, g, q) ==
    /\ repo' = g
    /\ gitReq' = [s \in GitReqs |->
                    IF s = r THEN q
                    ELSE IF Serving(gitReq[s]) /\ g # repo
                         THEN [gitReq[s] EXCEPT !.raced = TRUE]
                         ELSE gitReq[s]]

GitAnswers(q, g, answer, recovery) ==
    [q EXCEPT !.pc = "done", !.answer = answer, !.recovery = recovery,
              !.after = g.tip, !.stranded = g.detached]

GitEnds(r, g, answer) ==
    GitStep(r, g, GitAnswers(gitReq[r], g, answer, answer = "conflict" /\ active_git_operation(g)))

\* A git process of this request fails, leaving the repository as g.
GitFault(r, g) ==
    /\ Meddle
    /\ GitStep(r, g, [GitAnswers(gitReq[r], g, "error", FALSE) EXCEPT !.faulted = TRUE])

GitAsk(r, kind, hash, every) ==
    /\ gitReq[r].pc = "idle"
    /\ every => kind = "dropFiles"
    /\ GitStep(r, repo, [NotAsked EXCEPT
          !.pc = CASE kind \in RewriteKinds -> "preflight"
                   [] kind = "revert" -> "revert"
                   [] OTHER -> "apply_files",
          !.kind = kind, !.hash = hash, !.every = every,
          !.before = repo.tip, !.pub = repo.remote])
    /\ UNCHANGED gitUsed

\* The answer to a rebase --onto <onto> <upstream> <branch>.
RebaseAnswers(r, onto, upstream) ==
    \/ RebaseRefused(repo) /\ GitEnds(r, repo, "conflict")
    \/ ~RebaseRefused(repo) /\ GitEnds(r, Rebased(repo, onto, upstream), "ok")
    \/ /\ ~RebaseRefused(repo)
       /\ \E g \in RebaseStops(repo, onto, upstream) : GitEnds(r, g, "conflict")

RewriteBlocked(g, q) ==
    \/ active_git_operation(g)
    \/ g.detached
    \/ ~is_clean_worktree(g)
    \/ ~is_commit_reachable_from_head(g, q.hash)
    \/ is_commit_pushed(g, q.hash)
    \/ Len(q.hash) = 1 /\ q.kind # "reword"

preflight_history_rewrite(r) ==
    LET q == gitReq[r] IN
    /\ q.pc = "preflight"
    /\ UNCHANGED gitUsed
    /\ IF RewriteBlocked(repo, q)
         THEN GitStep(r, repo, GitAnswers(q, repo, "blocked", active_git_operation(repo)))
         ELSE GitStep(r, repo, [q EXCEPT !.pc = "read"])

\* The branch, HEAD and the parent are read again after the preflight.
ReadHead(r) ==
    LET q == gitReq[r] IN
    /\ q.pc = "read"
    /\ UNCHANGED gitUsed
    /\ IF repo.detached
         THEN GitEnds(r, repo, IF q.kind = "drop" THEN "blocked" ELSE "error")
         ELSE GitStep(r, repo,
                [q EXCEPT !.head = HeadOf(repo),
                          !.pc = CASE q.kind = "drop" -> "rewrite"
                                   [] q.kind = "reword" /\ HeadOf(repo) = q.hash -> "amend_head"
                                   [] OTHER -> "detach"])

\* drop_commit: a hard reset when the commit was HEAD, otherwise a rebase onto its parent.
drop_commit(r) ==
    LET q == gitReq[r] IN
    /\ q.pc = "rewrite"
    /\ UNCHANGED gitUsed
    /\ IF q.head = q.hash
         THEN GitEnds(r, HardReset(repo, first_parent(q.hash)), "ok")
         ELSE RebaseAnswers(r, first_parent(q.hash), q.hash)

\* drop_commit_files with paths the commit did not change: nothing to do.
DropNothing(r) ==
    /\ gitReq[r].pc = "detach" /\ gitReq[r].kind = "dropFiles" /\ ~gitReq[r].every
    /\ GitStep(r, repo, GitAnswers([gitReq[r] EXCEPT !.hash = <<>>], repo, "ok", FALSE))
    /\ UNCHANGED gitUsed

\* git checkout --detach <hash>
CheckoutDetach(r) ==
    LET q == gitReq[r] IN
    /\ q.pc = "detach"
    /\ \/ ~Unmerged(repo)
          /\ GitStep(r, Detach(repo, q.hash),
                     [q EXCEPT !.pc = IF q.kind = "reword" THEN "amend" ELSE "apply"])
          /\ UNCHANGED gitUsed
       \/ (repo.dirty \/ Unmerged(repo)) /\ GitEnds(r, repo, "error") /\ UNCHANGED gitUsed
       \/ GitFault(r, repo)

\* git apply --3way --reverse --index.
apply_patch(r) ==
    /\ gitReq[r].pc = "apply" /\ ~Unmerged(repo)
    /\ GitStep(r, [repo EXCEPT !.staged = TRUE], [gitReq[r] EXCEPT !.pc = "amend"])
    /\ UNCHANGED gitUsed

\* It fails, perhaps leaving an unmerged index, on which the `checkout <branch>` that
\* follows fails too; its result is ignored.
DropConflicts(r) ==
    /\ gitReq[r].pc = "apply"
    /\ UNCHANGED gitUsed
    /\ \/ repo.dirty /\ ~Unmerged(repo) /\ GitEnds(r, Attach(repo), "conflict")
       \/ (repo.dirty \/ Unmerged(repo)) /\ GitEnds(r, repo, "conflict")

\* drop_commit_files: the amended commit, or the parent itself when nothing is left of it.
AmendFiles(r) ==
    LET q == gitReq[r]
        old == HeadOf(repo)
        new == Append(Front(old), PartialCommit(Last(old)))
    IN
    /\ q.pc = "amend" /\ q.kind = "dropFiles"
    /\ \/ /\ q.every
          /\ GitStep(r, repo, [q EXCEPT !.base = first_parent(q.hash), !.pc = "place"])
          /\ UNCHANGED gitUsed
       \/ /\ ~q.every /\ ~Unmerged(repo)
          /\ GitStep(r, [MoveHead(repo, new) EXCEPT !.staged = FALSE], [q EXCEPT !.base = new, !.pc = "place"])
          /\ UNCHANGED gitUsed
       \/ ~q.every /\ ~Unmerged(repo) /\ GitFault(r, repo)
       \/ ~q.every /\ Unmerged(repo) /\ GitEnds(r, repo, "error") /\ UNCHANGED gitUsed

\* edit_commit_message: an amend that fails goes back to the branch.
AmendMessage(r) ==
    LET q == gitReq[r]
        old == HeadOf(repo)
        new == Append(Front(old), Reworded(Last(old)))
    IN
    /\ q.pc = "amend" /\ q.kind = "reword"
    /\ \/ /\ ~Unmerged(repo)
          /\ GitStep(r, [MoveHead(repo, new) EXCEPT !.staged = FALSE], [q EXCEPT !.base = new, !.pc = "place"])
          /\ UNCHANGED gitUsed
       \/ ~Unmerged(repo) /\ GitFault(r, Attach(repo))
       \/ Unmerged(repo) /\ GitEnds(r, repo, "error") /\ UNCHANGED gitUsed

\* git branch -f <branch> <base>, when the commit was HEAD; git refuses to move the
\* branch that is checked out.
ForceBranch(r) ==
    LET q == gitReq[r] IN
    /\ q.pc = "place" /\ q.kind = "dropFiles" /\ q.head = q.hash
    /\ UNCHANGED gitUsed
    /\ IF repo.detached
         THEN GitStep(r, [repo EXCEPT !.tip = q.base], [q EXCEPT !.pc = "return"])
         ELSE GitEnds(r, repo, "error")

\* git checkout <branch>
CheckoutBranch(r) ==
    LET q == gitReq[r]
        g == [Attach(repo) EXCEPT !.staged = FALSE]
    IN
    /\ q.pc = "return" \/ (q.pc = "place" /\ ~(q.kind = "dropFiles" /\ q.head = q.hash))
    /\ \/ /\ q.pc = "return" /\ ~Unmerged(repo)
          /\ GitEnds(r, g, "ok") /\ UNCHANGED gitUsed
       \/ /\ q.pc = "place" /\ ~Unmerged(repo)
          /\ GitStep(r, g, [q EXCEPT !.pc = "replay"]) /\ UNCHANGED gitUsed
       \/ (repo.dirty \/ Unmerged(repo)) /\ GitEnds(r, repo, "error") /\ UNCHANGED gitUsed
       \/ GitFault(r, repo)

\* git rebase --onto <base> <hash> <branch>, after some files or the message were replaced.
ReplayAfterFiles(r) ==
    /\ gitReq[r].pc = "replay" /\ gitReq[r].kind = "dropFiles"
    /\ RebaseAnswers(r, gitReq[r].base, gitReq[r].hash)
    /\ UNCHANGED gitUsed

ReplayAfterMessage(r) ==
    /\ gitReq[r].pc = "replay" /\ gitReq[r].kind = "reword"
    /\ RebaseAnswers(r, gitReq[r].base, gitReq[r].hash)
    /\ UNCHANGED gitUsed

\* git commit --amend -m, on HEAD itself.
edit_commit_message(r) ==
    LET q == gitReq[r]
        old == HeadOf(repo)
    IN
    /\ q.pc = "amend_head"
    /\ \/ ~Unmerged(repo)
          /\ GitEnds(r, [MoveHead(repo, Append(Front(old), Reworded(Last(old)))) EXCEPT !.staged = FALSE], "ok")
          /\ UNCHANGED gitUsed
       \/ Unmerged(repo) /\ GitEnds(r, repo, "error") /\ UNCHANGED gitUsed
       \/ GitFault(r, repo)

\* git revert --no-edit: no preflight but the operation in progress.
revert_commit(r) ==
    LET q == gitReq[r] IN
    /\ q.pc = "revert"
    /\ UNCHANGED gitUsed
    /\ \/ /\ active_git_operation(repo)
          /\ GitStep(r, repo, GitAnswers(q, repo, "blocked", TRUE))
       \/ /\ ~active_git_operation(repo) /\ repo.op = "none" /\ is_clean_worktree(repo)
          /\ GitEnds(r, MoveHead(repo, Append(HeadOf(repo), Inverted(Last(q.hash)))), "ok")
       \/ /\ ~active_git_operation(repo) /\ repo.op = "none" /\ is_clean_worktree(repo)
          /\ GitEnds(r, [repo EXCEPT !.op = "revert", !.dirty = TRUE], "conflict")
       \/ /\ ~active_git_operation(repo) /\ (repo.op # "none" \/ ~is_clean_worktree(repo))
          /\ GitEnds(r, repo, "conflict")

\* Some files of a commit are applied to the worktree and the index only; paths the
\* commit did not change are answered ok.
FilesApplied(r) ==
    \/ GitEnds(r, repo, "ok")
    \/ \E answer \in {"ok", "conflict"} : GitEnds(r, [repo EXCEPT !.dirty = TRUE], answer)

cherry_pick_commit_files(r) ==
    /\ gitReq[r].pc = "apply_files" /\ gitReq[r].kind = "pickFiles"
    /\ FilesApplied(r)
    /\ UNCHANGED gitUsed

revert_commit_files(r) ==
    /\ gitReq[r].pc = "apply_files" /\ gitReq[r].kind = "revertFiles"
    /\ FilesApplied(r)
    /\ UNCHANGED gitUsed

push_with_mode(force) ==
    /\ Meddle
    /\ resolve_push_target(repo)
    /\ force \/ IsPrefix(repo.remote, repo.tip)
    /\ repo' = [repo EXCEPT !.remote = repo.tip]
    /\ gitReq' = [s \in GitReqs |-> IF Serving(gitReq[s]) THEN [gitReq[s] EXCEPT !.raced = TRUE]
                                                           ELSE gitReq[s]]

-----------------------------------------------------------------------------
(* A user at a terminal in the same checkout.                              *)

UserActs(g) ==
    /\ Meddle
    /\ repo' = g
    /\ gitReq' = [s \in GitReqs |-> IF Serving(gitReq[s]) THEN [gitReq[s] EXCEPT !.raced = TRUE]
                                                           ELSE gitReq[s]]

UserCommits ==
    /\ repo.op = "none"
    /\ UserActs([MoveHead(repo, Append(HeadOf(repo), WholeCommit(GitDepth + 1 + gitUsed)))
                   EXCEPT !.dirty = FALSE, !.staged = FALSE])
UserEdits == ~repo.dirty /\ UserActs([repo EXCEPT !.dirty = TRUE])
\* rebase --abort, revert --abort
UserAborts == repo.op # "none" /\ UserActs([Attach(repo) EXCEPT !.op = "none", !.dirty = FALSE, !.staged = FALSE])

GitNext ==
    \/ \E r \in GitReqs :
         \/ \E k \in GitKinds, h \in KnownHashes, e \in BOOLEAN : GitAsk(r, k, h, e)
         \/ preflight_history_rewrite(r)
         \/ ReadHead(r)
         \/ drop_commit(r)
         \/ DropNothing(r)
         \/ CheckoutDetach(r)
         \/ apply_patch(r)
         \/ DropConflicts(r)
         \/ AmendFiles(r)
         \/ AmendMessage(r)
         \/ ForceBranch(r)
         \/ CheckoutBranch(r)
         \/ ReplayAfterFiles(r)
         \/ ReplayAfterMessage(r)
         \/ edit_commit_message(r)
         \/ revert_commit(r)
         \/ cherry_pick_commit_files(r)
         \/ revert_commit_files(r)
    \/ \E force \in BOOLEAN : push_with_mode(force)
    \/ UserCommits
    \/ UserEdits
    \/ UserAborts

GitSpec == GitInit /\ [][GitNext]_gitVars

-----------------------------------------------------------------------------
(* Properties.                                                             *)

\* The branch a request asks for: the commit gone, replaced or reverted, every other
\* commit kept in its order.
Wanted(q) ==
    LET later == SubSeq(q.before, Len(q.hash) + 1, Len(q.before))
        was == Last(q.hash)
    IN CASE q.answer # "ok" \/ q.hash = <<>> \/ q.kind \in {"pickFiles", "revertFiles"} -> q.before
         [] q.kind = "drop" \/ (q.kind = "dropFiles" /\ q.every) -> Front(q.hash) \o later
         [] q.kind = "dropFiles" -> Append(Front(q.hash), PartialCommit(was)) \o later
         [] q.kind = "reword" -> Append(Front(q.hash), Reworded(was)) \o later
         [] OTHER -> Append(q.before, Inverted(was))

\* A request that nobody raced leaves the branch exactly as asked when it answers ok,
\* and untouched when it answers anything else: no other commit is lost, reordered
\* or rewritten by the chain of detach, amend, branch -f, checkout and rebase.  (A
\* revert made on a detached HEAD does not touch the branch.)
RewriteIsExact ==
    \A r \in GitReqs :
        LET q == gitReq[r] IN
        q.pc = "done" /\ ~q.raced /\ ~(q.kind = "revert" /\ q.stranded) /\ ~q.faulted
            => q.after = Wanted(q)

\* A rewrite nobody raced never takes a published commit off the branch.
PublishedIsKept ==
    \A r \in GitReqs :
        LET q == gitReq[r] IN
        q.pc = "done" /\ ~q.raced /\ IsPrefix(q.pub, q.before) => IsPrefix(q.pub, q.after)

\* A rewrite nobody raced, whose git processes do not fail, leaves the user on the
\* branch, or in a rebase the answer says how to get out of.
NotStranded ==
    \A r \in GitReqs :
        LET q == gitReq[r] IN
        q.pc = "done" /\ q.kind \in RewriteKinds /\ ~q.raced /\ ~q.faulted
          /\ q.answer # "blocked" /\ q.stranded
            => q.recovery

GitTypeOK ==
    /\ repo.op \in {"none", "rebase", "revert"}
    /\ repo.detached \/ repo.at = <<>>
    /\ repo.op = "rebase" => repo.detached
    /\ Len(repo.tip) > 0
    /\ \A r \in GitReqs : gitReq[r].answer \in {"none", "ok", "blocked", "conflict", "error"}

\* Rewriting operations change what was asked and keep the rest of the history: what is
\* published, and a way back to the branch (commit_file_ops.rs, cli_fallback.rs).
HistoryIsKept == GitTypeOK /\ RewriteIsExact /\ PublishedIsKept /\ NotStranded
=============================================================================
