---------------------------- MODULE MCTerminals ----------------------------
(***************************************************************************)
(* What hangs on a terminal besides the session itself, for TLC: the       *)
(* output stream to its viewers, the ports and tunnels it exposes, the     *)
(* workflow store with its links to terminals, and the history rewrites of *)
(* its repository.  The parts share no state: a behaviour is one part's,   *)
(* chosen at the start, and the others rest.                               *)
(***************************************************************************)
EXTENDS TerminalStream, PortTunnels, WorkflowStore, WorkflowLinks, GitRewrite, TLC

CONSTANT Parts     \* the parts a run looks at
VARIABLE part

FewChunks == {<<"text">>, <<"half">>, <<"A">>, <<"B">>, <<"A", "text", "B">>, <<"E", "C">>,
              <<"D">>, <<"B", "alt">>}

OneId == [i \in 0..2 |-> 1]
Q(h, f, o, e, i, t, s) ==
  [hits |-> h, flips |-> f, polls |-> o, seeds |-> e, incs |-> i, tuns |-> t, shutdowns |-> s]
FewStories == {Q(2, 0, 0, 1, 1, 0, 0), Q(1, 0, 0, 1, 2, 0, 0), Q(3, 0, 0, 0, 1, 0, 0),
               Q(2, 0, 1, 0, 2, 0, 0), Q(1, 0, 1, 0, 1, 1, 0), Q(0, 1, 2, 0, 0, 1, 1),
               Q(0, 0, 0, 0, 0, 2, 1)}

Create(r, k, p, t) ==
  [op |-> "create", rid |-> r, kind |-> k, parent |-> p, project |-> "p", tree |-> t]
Patch(r, i, v, s, t) ==
  [op |-> "patch", rid |-> r, item |-> i, expected |-> v, status |-> s, tree |-> t]
Plan == Create(1, "plan", None, "a")
Delete == [op |-> "delete", rid |-> 6, item |-> "i1", expected |-> 1]
Note == [op |-> "note", rid |-> 12, item |-> "i1", work |-> None]
Unnote == [op |-> "unnote", rid |-> 13, note |-> "n1", expected |-> 1]
Start(i) == [op |-> "start", rid |-> 7, item |-> i, project |-> "p", tree |-> "a", at |-> 1]
Ending(r, s) == [op |-> "end", rid |-> r, work |-> "w1", status |-> s, at |-> 2]
EachWorkflow ==
  { {Plan, Create(2, "phase", "i1", "a"), Create(3, "task", "i2", "a"), Delete},
    {Plan, Patch(3, "i1", 1, "in_progress", None), Patch(4, "i1", 1, "next", "b"),
     Patch(5, "i1", 2, "done", None), Create(2, "task", "i1", "a")},
    {Plan, Start("i1"), Ending(8, "ended"), Ending(11, "abandoned"), Delete},
    {Plan, Note, Unnote, Delete, [op |-> "purge"]},
    {Plan, Create(2, "plan", None, "a"), [op |-> "read"], [op |-> "purge"], [op |-> "observe"]} }

Interchangeable == Permutations(GitReqs)

TerminalsInit ==
  /\ part \in Parts
  /\ StreamInit /\ PTInit /\ WSInit /\ WLInit /\ GitInit
  /\ part # "ports" => listening = {} /\ quota = CHOOSE q \in Quotas : TRUE
  /\ part # "workflow" => menu = CHOOSE m \in Menus : TRUE
  /\ part # "git" => repo.remote = <<>>

Stream   == part = "stream" /\ StreamNext /\ UNCHANGED <<part, ptVars, wsVars, wlVars, gitVars>>
PortPart == part = "ports" /\ PTNext /\ UNCHANGED <<part, streamvars, wsVars, wlVars, gitVars>>
Workflow == part = "workflow" /\ WSNext /\ UNCHANGED <<part, streamvars, ptVars, wlVars, gitVars>>
Links    == part = "links" /\ WLNext /\ UNCHANGED <<part, streamvars, ptVars, wsVars, gitVars>>
Rewrites == part = "git" /\ GitNext /\ UNCHANGED <<part, streamvars, ptVars, wsVars, wlVars>>

TerminalsNext == Stream \/ PortPart \/ Workflow \/ Links \/ Rewrites
TerminalsSpec ==
  TerminalsInit /\ [][TerminalsNext]_<<part, streamvars, ptVars, wsVars, wlVars, gitVars>>
=============================================================================
