---------------------------- MODULE MCPtyManager ----------------------------
(* Instances of PtyManager for TLC.  A world is a mix of requests, failures   *)
(* and losses small enough for every interleaving of it to be explored; an    *)
(* instance starts in any of the worlds of its set.                           *)
EXTENDS PtyManager

CONSTANTS a, b, c1, c2

Same(policy) == [id \in Ids |-> policy]

\* One id created, killed, renamed and exiting, its renames failing in the store.
Rename == [menu |-> {"create", "kill", "exit", "output", "rename"}, policy |-> Same("always"),
           targeted |-> {}, failing |-> {"SessionRenamed"}, callers |-> {c1}, ids |-> {a}, fuel |-> 5]

\* Removals against creations, kills and the sweeper.
Remove == [menu |-> {"create", "kill", "remove", "exit", "sweep"}, policy |-> Same("on-failure"),
           targeted |-> {}, failing |-> {}, callers |-> {c1, c2}, ids |-> {a}, fuel |-> 5]

\* A session in a worktree that is lost, or whose process cannot be started.
Worktree == [menu |-> {"create", "exit", "lose", "fail", "sweep", "kill"}, policy |-> Same("always"),
             targeted |-> {a}, failing |-> {}, callers |-> {c1}, ids |-> {a}, fuel |-> 4]

\* Two callers dispose of two ids while the store fails.
Dispose == [menu |-> {"create", "dispose", "exit"}, policy |-> Same("always"), targeted |-> {},
            failing |-> {"SessionCreated", "SessionRemoved"},
            callers |-> {c1, c2}, ids |-> {a, b}, fuel |-> 4]

\* Crashes, and what restore finds: lost worktrees, failing starts, aged buffers.
Recovery == [menu |-> {"create", "exit", "remove", "output", "crash", "lose", "fail", "config", "expire"},
             policy |-> Same("always"), targeted |-> {a}, failing |-> {}, callers |-> {c1},
             ids |-> {a, b}, fuel |-> 4]

\* Calls, restarts and a shutdown, for liveness.
Progress == [menu |-> {"create", "kill", "remove", "dispose", "exit", "shutdown"},
             policy |-> Same("always"), targeted |-> {}, failing |-> {}, callers |-> {c1, c2},
             ids |-> {a}, fuel |-> 4]

\* Two calls for one id, for the suppressed exit.
Suppression == [menu |-> {"create", "kill"}, policy |-> Same("never"), targeted |-> {}, failing |-> {},
                callers |-> {c1}, ids |-> {a}, fuel |-> 3]

\* A session, and an orderly stop and start of the server.
Relaunch == [menu |-> {"create", "shutdown"}, policy |-> Same("never"), targeted |-> {}, failing |-> {},
             callers |-> {c1}, ids |-> {a}, fuel |-> 2]

SessionWorlds == {Rename, Remove, Worktree}
RecoveryWorlds == {Dispose, Recovery}
ProgressWorlds == {Progress}
SuppressionWorlds == {Suppression}
RelaunchWorlds == {Relaunch}
=============================================================================
