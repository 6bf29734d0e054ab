---------------------------- MODULE NativeProofs ----------------------------
(***************************************************************************)
(* Proofs about three parts of the native app, for any number of rules,    *)
(* edits, identities, pages and attempts: the stored forwarding rules, the *)
(* running forwards and what the webview shows stay in step (RulesInStep), *)
(* an edit replaces what its author was shown (EditsReplaceWhatTheySaw),   *)
(* secrets and host keys stay where the user put them (SecretsConfined),   *)
(* and the browser child's credentials stay with the page they were made   *)
(* for (BridgeIsConfined). The three share no state, and each has sections *)
(* of its own.                                                             *)
(***************************************************************************)
EXTENDS SshRules, SshCredentials, BrowserChild,
        FiniteSetTheorems, SequenceTheorems, WellFoundedInduction, TLAPS

-----------------------------------------------------------------------------
(* Rules: types.                                                           *)

Definition == 0..(MaxEdits + 1)
KidOf      == [gen : Nat, st : {"absent", "off", "failed", "on"}, def : Definition]
RulesOf(f) == {r \in RuleIds : f[r] # NoRule}
RuleSets   == {f \in [RuleIds -> Definition] : Cardinality(RulesOf(f)) <= RuleLimit}
Shown      == [rev : Nat \ {0}, rules : RuleSets, cgen : Nat, rgen : [RuleIds -> Nat]]
HintOf     == [rev : Nat, runtime : BOOLEAN]
EditPcs    == {"sent", "reconcile", "hint", "snapshot", "remove", "removed", "reply", "done"}
EditOf     == [pc : EditPcs, op : {"create", "update", "delete"}, rule : RuleIds, rev : Nat \ {0},
               seen : RuleSets, cgen : Nat, rgen : Nat, oper : Nat, ok : BOOLEAN, answer : Shown]
FetchOf    == {NoFetch} \cup
              [st : {"asked", "answered"}, oper : Nat, hint : HintOf, snap : Shown]

StoreOK == /\ ruleStore \in [rev : Nat \ {0}, rules : RuleSets]
           /\ shownRev \in 1..ruleStore.rev
           /\ conn \in [gen : Nat, est : BOOLEAN, kids : [RuleIds -> KidOf]]
AppOK   == /\ edits \in [Edits -> {Unsent} \cup EditOf]
           /\ view \in Shown /\ operation \in Nat
           /\ hints \in Seq(HintOf) /\ trailing \in HintOf /\ fetch \in FetchOf
           /\ ruleGate \in 0..MaxEdits

-----------------------------------------------------------------------------
(* The inductive invariant.                                                *)

\* A revision stands for its rules: what anybody was shown is older, or is what is stored.
VersionOf(rev, rules) == /\ rev <= ruleStore.rev
                         /\ rev = ruleStore.rev => rules = ruleStore.rules
Versions == /\ VersionOf(view.rev, view.rules)
            /\ \A k \in InFlight : /\ VersionOf(edits[k].rev, edits[k].seen)
                                   /\ VersionOf(edits[k].answer.rev, edits[k].answer.rules)
            /\ fetch # NoFetch => VersionOf(fetch.snap.rev, fetch.snap.rules)

\* What runs is stored, at any time.
OnIsStored == \A r \in RuleIds : conn.kids[r].st = "on" =>
                conn.kids[r].def = ruleStore.rules[r] /\ conn.kids[r].def # NoRule

\* A delete under way has the gate, and has yet to remove a child that does not run; it
\* would put back what is stored, and the rule.
Deleting(k) == edits[k].pc \in {"remove", "removed"}
Deletes == \A k \in InFlight :
  /\ Deleting(k) => /\ ruleGate = k
                    /\ conn.kids[edits[k].rule].st # "on"
                    /\ \A r \in RuleIds \ {edits[k].rule} : edits[k].seen[r] = ruleStore.rules[r]

\* The revision hints carry lags behind the store only while a delete is under way, or
\* after one was left half done.
ShownLags == silent \/ shownRev = ruleStore.rev \/ \E k \in InFlight : Deleting(k)

\* Hints come in order, the one that waits before those on their way, the one being
\* fetched before that.
InOrder ==
  /\ \A i, j \in 1..Len(hints) : i <= j => hints[i].rev <= hints[j].rev
  /\ \A i \in 1..Len(hints) : /\ trailing.rev <= hints[i].rev /\ hints[i].rev <= shownRev
                              /\ hints[i].rev # 0
                              /\ fetch # NoFetch => fetch.hint.rev <= hints[i].rev
  /\ trailing.rev <= shownRev /\ (trailing.rev = 0 => trailing = NoHint)
  /\ fetch # NoFetch => /\ fetch.hint.rev \in 1..shownRev
                        /\ trailing # NoHint => fetch.hint.rev <= trailing.rev

\* Only the answer to the newest operation is shown, and it is not older than what is shown.
Answers ==
  /\ \A k \in InFlight : /\ edits[k].oper <= operation
                         /\ edits[k].oper = operation => view.rev = edits[k].rev
                         /\ edits[k].rev <= edits[k].answer.rev
                         /\ \A j \in InFlight : edits[j].oper = edits[k].oper => j = k
  /\ fetch # NoFetch => /\ fetch.oper <= operation
                        /\ fetch.oper = operation =>
                             /\ fetch.st = "answered" => view.rev <= fetch.snap.rev
                             /\ \A k \in InFlight : edits[k].oper # operation

\* The webview shows the newest revision, or somebody will tell it: an edit under way, a
\* hint on its way, one that waits, or one being fetched.
Telling(k) == edits[k].pc \in {"reconcile", "hint", "remove", "removed"}
Fetches == /\ fetch # NoFetch /\ fetch.hint.rev = ruleStore.rev
           /\ fetch.st = "answered" /\ isCurrent(fetch.oper) => fetch.snap.rev = ruleStore.rev
Informed == \/ silent \/ view.rev = ruleStore.rev
            \/ \E k \in InFlight : Telling(k)
            \/ \E i \in 1..Len(hints) : hints[i].rev = ruleStore.rev
            \/ trailing.rev = ruleStore.rev
            \/ Fetches

\* A hint waits only for somebody.
Waits == InFlight = {} /\ fetch = NoFetch => trailing = NoHint

RulesInv == /\ StoreOK /\ AppOK /\ Versions /\ OnIsStored /\ Deletes
            /\ ShownLags /\ InOrder /\ Answers /\ Informed /\ Waits

-----------------------------------------------------------------------------
(* Lemmas about the model's pieces.                                        *)

\* The two facts about sets of rules: one fewer, one that is replaced or for which there is room.
LEMMA RuleSetFacts ==
  ASSUME NEW f \in RuleSets, NEW r \in RuleIds, NEW d \in Definition
  PROVE  /\ [f EXCEPT ![r] = NoRule] \in RuleSets
         /\ (f[r] # NoRule \/ Cardinality(RulesOf(f)) < RuleLimit) => [f EXCEPT ![r] = d] \in RuleSets
<1>0. /\ f \in [RuleIds -> Definition] /\ NoRule \in Definition /\ IsFiniteSet(RulesOf(f))
      /\ Cardinality(RulesOf(f)) \in Nat /\ Cardinality(RulesOf(f)) <= RuleLimit /\ RuleLimit \in Nat
  <2>1. RulesOf(f) \subseteq RuleIds /\ IsFiniteSet(RuleIds)
    BY RulesAssumption DEF RulesOf
  <2>2. IsFiniteSet(RulesOf(f))
    BY <2>1, FS_Subset
  <2>3. Cardinality(RulesOf(f)) \in Nat
    BY <2>2, FS_CardinalityType
  <2> QED BY <2>2, <2>3, RulesAssumption DEF RuleSets, Definition, NoRule
<1>s. ASSUME NEW g \in [RuleIds -> Definition], RulesOf(g) \subseteq RulesOf(f)
      PROVE  g \in RuleSets
  <2>1. Cardinality(RulesOf(g)) <= Cardinality(RulesOf(f)) /\ IsFiniteSet(RulesOf(g))
    BY <1>0, <1>s, FS_Subset
  <2>2. Cardinality(RulesOf(g)) \in Nat
    BY <2>1, FS_CardinalityType
  <2> QED BY <1>0, <2>1, <2>2 DEF RuleSets
<1>1. [f EXCEPT ![r] = NoRule] \in RuleSets
  <2>1. /\ [f EXCEPT ![r] = NoRule] \in [RuleIds -> Definition]
        /\ RulesOf([f EXCEPT ![r] = NoRule]) \subseteq RulesOf(f)
    BY <1>0 DEF RulesOf
  <2> QED BY <1>s, <2>1
<1>2. ASSUME f[r] # NoRule PROVE [f EXCEPT ![r] = d] \in RuleSets
  <2>1. /\ [f EXCEPT ![r] = d] \in [RuleIds -> Definition]
        /\ RulesOf([f EXCEPT ![r] = d]) \subseteq RulesOf(f)
    BY <1>0, <1>2 DEF RulesOf
  <2> QED BY <1>s, <2>1
<1>3. ASSUME f[r] = NoRule, d # NoRule, Cardinality(RulesOf(f)) < RuleLimit
      PROVE  [f EXCEPT ![r] = d] \in RuleSets
  <2>1. /\ [f EXCEPT ![r] = d] \in [RuleIds -> Definition]
        /\ RulesOf([f EXCEPT ![r] = d]) = RulesOf(f) \cup {r}
        /\ r \notin RulesOf(f)
    BY <1>0, <1>3 DEF RulesOf
  <2>2. Cardinality(RulesOf(f) \cup {r}) = Cardinality(RulesOf(f)) + 1
    BY <1>0, <2>1, FS_AddElement
  <2>3. Cardinality(RulesOf(f) \cup {r}) <= RuleLimit
    BY <1>0, <1>3, <2>2
  <2> QED BY <2>1, <2>3 DEF RuleSets
<1>4. CASE d = NoRule
  BY <1>1, <1>4
<1> QED BY <1>1, <1>2, <1>3, <1>4

\* Edits under way.
LEMMA InFlightFacts ==
  ASSUME AppOK
  PROVE  /\ InFlight \subseteq Edits /\ Edits \subseteq Nat \ {0} /\ NoEdit \notin Edits
         /\ \A k \in InFlight : edits[k] \in EditOf
         /\ \A k \in Edits : edits[k].pc \notin {"unsent", "done"} => edits[k] \in EditOf /\ k \in InFlight
         /\ \A k \in Edits : edits[k].pc = "unsent" <=> edits[k] = Unsent
<1>1. Edits \subseteq Nat \ {0} /\ NoEdit \notin Edits
  BY RulesAssumption DEF Edits, NoEdit
<1>2. \A k \in Edits : edits[k] = Unsent \/ edits[k] \in EditOf
  BY DEF AppOK
<1>3. Unsent.pc = "unsent" /\ \A e \in EditOf : e.pc # "unsent"
  BY DEF Unsent, EditOf, EditPcs
<1> QED BY <1>1, <1>2, <1>3 DEF InFlight

\* An edit moves on and is otherwise the same.
SameEdit(e, f) == /\ e.op = f.op /\ e.rule = f.rule /\ e.rev = f.rev /\ e.seen = f.seen /\ e.cgen = f.cgen
                  /\ e.rgen = f.rgen /\ e.oper = f.oper /\ e.ok = f.ok /\ e.answer = f.answer

\* What a move of edit k leaves of the others.
Moved(k, pc) == /\ edits'[k].pc = pc /\ SameEdit(edits'[k], edits[k])
                /\ \A j \in Edits \ {k} : edits'[j] = edits[j]
                /\ InFlight' = IF pc = "done" THEN InFlight \ {k} ELSE InFlight

LEMMA GoesMoves ==
  ASSUME AppOK, NEW k \in InFlight, NEW pc \in EditPcs, Goes(k, pc)
  PROVE  Moved(k, pc) /\ edits' \in [Edits -> {Unsent} \cup EditOf]
<1>0. k \in Edits /\ edits[k] \in EditOf
  BY InFlightFacts
<1>1. edits' = [edits EXCEPT ![k] = [edits[k] EXCEPT !.pc = pc]]
  BY DEF Goes
<1> DEFINE e == [edits[k] EXCEPT !.pc = pc]
<1>2. e \in EditOf /\ e.pc = pc /\ SameEdit(e, edits[k])
  BY <1>0 DEF EditOf, SameEdit
<1> HIDE DEF e
<1>3. edits'[k] = e /\ \A j \in Edits \ {k} : edits'[j] = edits[j]
  BY <1>0, <1>1 DEF AppOK, e
<1>4. edits' \in [Edits -> {Unsent} \cup EditOf]
  BY <1>0, <1>1, <1>2 DEF AppOK, e
<1>5. InFlight' = IF pc = "done" THEN InFlight \ {k} ELSE InFlight
  <2>1. pc \notin {"unsent"}
    BY DEF EditPcs
  <2> QED BY <1>0, <1>2, <1>3, <2>1 DEF InFlight
<1> QED BY <1>2, <1>3, <1>4, <1>5 DEF Moved

\* Enabling the stored rules leaves only stored definitions on.
LEMMA EnabledFacts ==
  ASSUME NEW kids \in [RuleIds -> KidOf], StoreOK
  PROVE  /\ Enabled(kids) \in [RuleIds -> KidOf]
         /\ \A r \in RuleIds : Enabled(kids)[r].st = "on" =>
              Enabled(kids)[r].def = ruleStore.rules[r] /\ Enabled(kids)[r].def # NoRule
<1>1. ruleStore.rules \in [RuleIds -> Definition]
  BY DEF StoreOK, RuleSets
<1>2. ASSUME NEW r \in RuleIds
      PROVE  /\ Enabled(kids)[r] \in KidOf
             /\ Enabled(kids)[r].st = "on" =>
                  Enabled(kids)[r].def = ruleStore.rules[r] /\ Enabled(kids)[r].def # NoRule
  <2>1. CASE ruleStore.rules[r] = NoRule
    <3>1. Enabled(kids)[r] = NoChild
      BY <2>1 DEF Enabled
    <3>2. NoChild \in KidOf /\ NoChild.st # "on"
      BY RulesAssumption DEF NoChild, KidOf, NoRule, Definition
    <3> QED BY <3>1, <3>2
  <2>2. CASE ruleStore.rules[r] # NoRule /\ kids[r].st = "on" /\ kids[r].def = ruleStore.rules[r]
    <3>1. Enabled(kids)[r] = kids[r]
      BY <2>2 DEF Enabled
    <3> QED BY <2>2, <3>1
  <2>3. CASE ruleStore.rules[r] # NoRule /\ ~(kids[r].st = "on" /\ kids[r].def = ruleStore.rules[r])
    <3>1. PICK g \in Nat : Enabled(kids)[r] = [gen |-> g, st |-> "on", def |-> ruleStore.rules[r]]
      <4>1. kids[r].gen \in Nat
        BY DEF KidOf
      <4> QED BY <2>3, <4>1 DEF Enabled
    <3>2. [gen |-> g, st |-> "on", def |-> ruleStore.rules[r]] \in KidOf
      BY <1>1 DEF KidOf
    <3> QED BY <2>3, <3>1, <3>2
  <2> QED BY <2>1, <2>2, <2>3
<1>3. Enabled(kids) = [r \in RuleIds |-> Enabled(kids)[r]]
  BY DEF Enabled
<1> QED BY <1>2, <1>3

\* The hints, one more.
LEMMA HintSent ==
  ASSUME AppOK, NEW h \in HintOf, hints' = Append(hints, h)
  PROVE  /\ hints' \in Seq(HintOf) /\ Len(hints) \in Nat /\ Len(hints') = Len(hints) + 1
         /\ hints'[Len(hints')] = h
         /\ \A i \in 1..Len(hints) : hints'[i] = hints[i] /\ hints[i] \in HintOf /\ i \in 1..Len(hints')
         /\ \A i \in 1..Len(hints') : i \in 1..Len(hints) \/ i = Len(hints')
BY DEF AppOK

\* The hints, one fewer.
LEMMA HintTaken ==
  ASSUME AppOK, hints # <<>>, hints' = Tail(hints)
  PROVE  /\ hints' \in Seq(HintOf) /\ Head(hints) \in HintOf /\ Head(hints) = hints[1] /\ 1 \in 1..Len(hints)
         /\ \A i \in 1..Len(hints') : hints'[i] = hints[i + 1] /\ i + 1 \in 1..Len(hints)
         /\ \A i \in 1..Len(hints) : i = 1 \/ (i - 1 \in 1..Len(hints') /\ hints'[i - 1] = hints[i])
<1>1. hints \in Seq(HintOf)
  BY DEF AppOK
<1>2. Len(hints) \in Nat /\ Len(hints) # 0 /\ Len(hints') = Len(hints) - 1
  BY <1>1
<1> QED BY <1>1, <1>2

-----------------------------------------------------------------------------
(* Types.                                                                  *)

Typed == StoreOK /\ AppOK

\* What a fetch that is begun, dropped or put off leaves.
LEMMA FlushesTyped ==
  ASSUME AppOK, NEW h \in HintOf, NEW v, NEW busy, Flushes(h, v, busy)
  PROVE  /\ fetch' \in FetchOf /\ trailing' \in HintOf
         /\ \/ fetch' = NoFetch /\ trailing' = h /\ (h = NoHint \/ busy)
            \/ fetch' = NoFetch /\ trailing' = NoHint /\ ~Newer(h, v) /\ ~busy /\ h # NoHint
            \/ fetch' = Asked(h) /\ trailing' = NoHint /\ Newer(h, v) /\ ~busy /\ h # NoHint
<1>1. NoHint \in HintOf /\ Asked(h) \in FetchOf /\ NoFetch \in FetchOf
  BY DEF NoHint, HintOf, Asked, FetchOf, AppOK
<1> QED BY <1>1 DEF Flushes

\* Every step keeps the types.
LEMMA RulesTyped ==
  ASSUME Typed, RulesNext
  PROVE  Typed'
<1>0. /\ ruleStore \in [rev : Nat \ {0}, rules : RuleSets] /\ shownRev \in 1..ruleStore.rev
      /\ conn \in [gen : Nat, est : BOOLEAN, kids : [RuleIds -> KidOf]]
      /\ edits \in [Edits -> {Unsent} \cup EditOf]
      /\ view \in Shown /\ operation \in Nat
      /\ hints \in Seq(HintOf) /\ trailing \in HintOf /\ fetch \in FetchOf
      /\ ruleGate \in 0..MaxEdits
      /\ StoreOK /\ AppOK
  BY DEF Typed, StoreOK, AppOK
<1> USE DEF Typed
<1>h. \A x \in BOOLEAN : Hint(shownRev, x) \in HintOf
  BY <1>0 DEF Hint, HintOf
<1>i. /\ \A k \in Edits : edits[k].pc \in EditPcs \ {"done"} => k \in InFlight
      /\ \A k \in InFlight : edits[k] \in EditOf /\ k \in 0..MaxEdits
  BY <1>0, InFlightFacts, RulesAssumption DEF EditPcs, Edits
<1>e. ASSUME UNCHANGED <<ruleStore, shownRev, conn>>
      PROVE  StoreOK'
  BY <1>0, <1>e DEF StoreOK
<1>v. snapshot_inner \in Shown
  <2>1. Gens \in [RuleIds -> Nat]
    BY <1>0 DEF Gens, KidOf
  <2> QED BY <1>0, <2>1 DEF snapshot_inner, Shown
<1>g. ASSUME NEW k \in InFlight, NEW pc \in EditPcs, Goes(k, pc), UNCHANGED <<view, operation, trailing, fetch>>,
             hints' \in Seq(HintOf), ruleGate' \in 0..MaxEdits
      PROVE  AppOK'
  <2>1. edits' \in [Edits -> {Unsent} \cup EditOf]
    BY <1>0, <1>g, GoesMoves
  <2> QED BY <1>0, <1>g, <2>1 DEF AppOK
<1>s. ASSUME NEW rules \in RuleSets, ruleStore' = replace_rules(rules), conn' = conn,
             shownRev' \in {shownRev, ruleStore'.rev}
      PROVE  StoreOK'
  BY <1>0, <1>s DEF StoreOK, replace_rules
<1>k. ASSUME NEW kids \in [RuleIds -> KidOf], conn' \in {conn, [conn EXCEPT !.kids = kids]},
             UNCHANGED <<ruleStore, shownRev>>
      PROVE  StoreOK'
  BY <1>0, <1>k DEF StoreOK
<1>1. ASSUME NEW k \in Edits, EditStep(k) PROVE Typed'
  <2>1. ASSUME NEW op \in {"create", "update", "delete"}, NEW r \in RuleIds, SendEdit(k, op, r) PROVE Typed'
    <3> DEFINE e == [pc |-> "sent", op |-> op, rule |-> r, rev |-> view.rev, seen |-> view.rules,
                     cgen |-> view.cgen, rgen |-> view.rgen[r], oper |-> operation + 1, ok |-> FALSE,
                     answer |-> view]
    <3>1. e \in EditOf
      BY <1>0 DEF EditOf, EditPcs, Shown
    <3> HIDE DEF e
    <3>2. edits' = [edits EXCEPT ![k] = e]
      BY <2>1 DEF SendEdit, e
    <3>3. /\ UNCHANGED <<ruleStore, shownRev, conn, ruleGate, hints, view, fetch, trailing>>
          /\ operation' = operation + 1
      BY <2>1 DEF SendEdit
    <3> QED BY <1>0, <1>e, <3>1, <3>2, <3>3 DEF AppOK
  <2>2. CASE RefuseEdit(k) \/ StoreRefuses(k)
    <3>1. /\ edits[k].pc = "sent" /\ Goes(k, "reply")
          /\ UNCHANGED <<ruleStore, shownRev, conn, ruleGate, hints, view, operation, fetch, trailing>>
      BY <2>2 DEF RefuseEdit, StoreRefuses, Enters
    <3>2. k \in InFlight /\ "reply" \in EditPcs
      BY <1>i, <3>1 DEF EditPcs
    <3> QED BY <1>0, <1>e, <1>g, <3>1, <3>2
  <2>3. CASE CommitEdit(k)
    <3>1. /\ edits[k].pc = "sent" /\ edits[k].op # "delete" /\ Checks(k)
          /\ ruleStore' = replace_rules([ruleStore.rules EXCEPT ![edits[k].rule] = k])
          /\ shownRev' = ruleStore'.rev
          /\ UNCHANGED <<conn, ruleGate, hints, view, operation, fetch, trailing>>
      BY <2>3 DEF CommitEdit, Enters
    <3>2. PICK pc \in {"reconcile", "hint"} : Goes(k, pc)
      BY <2>3 DEF CommitEdit
    <3>3. k \in InFlight /\ pc \in EditPcs /\ edits[k] \in EditOf
      BY <1>i, <3>1, <3>2 DEF EditPcs
    <3>4. k \in Definition /\ edits[k].rule \in RuleIds
      BY <3>3, RulesAssumption DEF Edits, Definition, EditOf
    <3>5. ruleStore.rules[edits[k].rule] # NoRule \/ Cardinality(RulesOf(ruleStore.rules)) < RuleLimit
      <4>1. edits[k].op \in {"create", "update"}
        BY <3>1, <3>3 DEF EditOf
      <4>2. CASE edits[k].op = "create"
        BY <3>1, <4>2 DEF Checks, CreateChecks, Stored, RulesOf
      <4>3. CASE edits[k].op = "update"
        BY <3>1, <4>3 DEF Checks, UpdateChecks, Stored
      <4> QED BY <4>1, <4>2, <4>3
    <3>6. [ruleStore.rules EXCEPT ![edits[k].rule] = k] \in RuleSets
      <4>1. ruleStore.rules \in RuleSets
        BY <1>0
      <4> QED BY <3>4, <3>5, <4>1, RuleSetFacts
    <3>7. StoreOK'
      BY <1>s, <3>1, <3>6
    <3>8. AppOK'
      BY <1>0, <1>g, <3>1, <3>2, <3>3
    <3> QED BY <3>7, <3>8
  <2>4. CASE EditReconciles(k)
    <3>1. /\ edits[k].pc = "reconcile" /\ Goes(k, "hint")
          /\ conn' \in {conn, [conn EXCEPT !.kids = Enabled(conn.kids)]}
          /\ UNCHANGED <<ruleStore, shownRev, ruleGate, hints, view, operation, fetch, trailing>>
      BY <2>4 DEF EditReconciles
    <3>2. k \in InFlight /\ "hint" \in EditPcs
      BY <1>i, <3>1 DEF EditPcs
    <3>3. Enabled(conn.kids) \in [RuleIds -> KidOf]
      BY <1>0, EnabledFacts
    <3>4. StoreOK'
      BY <1>k, <3>1, <3>3
    <3>5. AppOK'
      BY <1>0, <1>g, <3>1, <3>2
    <3> QED BY <3>4, <3>5
  <2>5. CASE EditHints(k)
    <3>1. /\ edits[k].pc = "hint" /\ Goes(k, "snapshot")
          /\ hints' = Append(hints, Hint(shownRev, FALSE))
          /\ UNCHANGED <<ruleStore, shownRev, conn, ruleGate, view, operation, fetch, trailing>>
      BY <2>5 DEF EditHints, emit_collection_hint
    <3>2. k \in InFlight /\ "snapshot" \in EditPcs
      BY <1>i, <3>1 DEF EditPcs
    <3>3. hints' \in Seq(HintOf)
      BY <1>0, <1>h, <3>1, HintSent
    <3> QED BY <1>0, <1>e, <1>g, <3>1, <3>2, <3>3
  <2>6. CASE EditSnapshots(k)
    <3> DEFINE e == [edits[k] EXCEPT !.pc = "reply", !.ok = TRUE, !.answer = snapshot_inner]
    <3>1. /\ edits[k].pc = "snapshot" /\ edits' = [edits EXCEPT ![k] = e]
          /\ ruleGate' \in {ruleGate, NoEdit}
          /\ UNCHANGED <<ruleStore, shownRev, conn, hints, view, operation, fetch, trailing>>
      BY <2>6 DEF EditSnapshots
    <3>2. edits[k] \in EditOf
      BY <1>i, <3>1 DEF EditPcs
    <3>3. e \in EditOf
      BY <1>v, <3>2 DEF EditOf, EditPcs
    <3>4. ruleGate' \in 0..MaxEdits
      BY <1>0, <3>1, RulesAssumption DEF NoEdit
    <3> HIDE DEF e
    <3> QED BY <1>0, <1>e, <3>1, <3>3, <3>4 DEF AppOK
  <2>7. CASE DeleteCommits(k)
    <3>1. /\ edits[k].pc = "sent" /\ ruleGate' = k
          /\ ruleStore' = replace_rules([ruleStore.rules EXCEPT ![edits[k].rule] = NoRule])
          /\ UNCHANGED <<shownRev, conn, hints, view, operation, fetch, trailing>>
      BY <2>7 DEF DeleteCommits, Enters
    <3>2. PICK pc \in {"remove", "removed"} : Goes(k, pc)
      BY <2>7 DEF DeleteCommits
    <3>3. k \in InFlight /\ pc \in EditPcs /\ edits[k] \in EditOf /\ k \in 0..MaxEdits
      BY <1>i, <3>1, <3>2 DEF EditPcs
    <3>4. [ruleStore.rules EXCEPT ![edits[k].rule] = NoRule] \in RuleSets
      <4>1. edits[k].rule \in RuleIds /\ ruleStore.rules \in RuleSets /\ NoRule \in Definition
        BY <1>0, <3>3, RulesAssumption DEF EditOf, NoRule, Definition
      <4> QED BY <4>1, RuleSetFacts
    <3>5. StoreOK'
      BY <1>s, <3>1, <3>4
    <3>6. AppOK'
      BY <1>0, <1>g, <3>1, <3>2, <3>3
    <3> QED BY <3>5, <3>6
  <2>8. CASE DeleteRemoves(k)
    <3>1. /\ edits[k].pc = "remove" /\ Goes(k, "removed")
          /\ conn' = [conn EXCEPT !.kids[edits[k].rule] = NoChild]
          /\ UNCHANGED <<ruleStore, shownRev, ruleGate, hints, view, operation, fetch, trailing>>
      BY <2>8 DEF DeleteRemoves
    <3>2. k \in InFlight /\ "removed" \in EditPcs
      BY <1>i, <3>1 DEF EditPcs
    <3>3. NoChild \in KidOf
      BY RulesAssumption DEF NoChild, KidOf, Definition, NoRule
    <3>4. StoreOK'
      BY <1>0, <3>1, <3>3 DEF StoreOK
    <3>5. AppOK'
      BY <1>0, <1>g, <3>1, <3>2
    <3> QED BY <3>4, <3>5
  <2>9. CASE DeleteDone(k)
    <3>1. /\ edits[k].pc = "removed" /\ Goes(k, "hint") /\ shownRev' = ruleStore.rev
          /\ UNCHANGED <<ruleStore, conn, ruleGate, hints, view, operation, fetch, trailing>>
      BY <2>9 DEF DeleteDone
    <3>2. k \in InFlight /\ "hint" \in EditPcs
      BY <1>i, <3>1 DEF EditPcs
    <3>3. StoreOK'
      BY <1>0, <3>1 DEF StoreOK
    <3>4. AppOK'
      BY <1>0, <1>g, <3>1, <3>2
    <3> QED BY <3>3, <3>4
  <2>10. CASE DeleteRollsBack(k)
    <3>1. /\ edits[k].pc = "remove" /\ Goes(k, "reply") /\ ruleGate' = NoEdit
          /\ ruleStore' = replace_rules(edits[k].seen) /\ shownRev' = ruleStore'.rev
          /\ hints' = Append(hints, Hint(shownRev', FALSE))
          /\ UNCHANGED <<conn, view, operation, fetch, trailing>>
      BY <2>10 DEF DeleteRollsBack
    <3>2. k \in InFlight /\ "reply" \in EditPcs /\ edits[k] \in EditOf
      BY <1>i, <3>1 DEF EditPcs
    <3>3. StoreOK'
      <4>1. edits[k].seen \in RuleSets
        BY <3>2 DEF EditOf
      <4> QED BY <1>s, <3>1, <4>1
    <3>4. hints' \in Seq(HintOf)
      <4>1. Hint(shownRev', FALSE) \in HintOf
        BY <3>3 DEF StoreOK, Hint, HintOf
      <4> QED BY <1>0, <3>1, <4>1, HintSent
    <3>5. ruleGate' \in 0..MaxEdits
      BY <3>1, RulesAssumption DEF NoEdit
    <3> QED BY <1>0, <1>g, <3>1, <3>2, <3>3, <3>4, <3>5
  <2>11. CASE RollbackFails(k)
    <3>1. /\ edits[k].pc = "remove" /\ Goes(k, "reply") /\ ruleGate' = NoEdit
          /\ UNCHANGED <<ruleStore, shownRev, conn, hints, view, operation, fetch, trailing>>
      BY <2>11 DEF RollbackFails
    <3>2. k \in InFlight /\ "reply" \in EditPcs /\ ruleGate' \in 0..MaxEdits
      BY <1>i, <3>1, RulesAssumption DEF EditPcs, NoEdit
    <3> QED BY <1>0, <1>e, <1>g, <3>1, <3>2
  <2>12. CASE EditReturns(k)
    <3>1. /\ edits[k].pc = "reply" /\ Goes(k, "done")
          /\ view' \in {view, edits[k].answer}
          /\ UNCHANGED <<ruleStore, shownRev, conn, ruleGate, hints, operation>>
      BY <2>12 DEF EditReturns
    <3>2. k \in InFlight /\ "done" \in EditPcs /\ edits[k] \in EditOf
      BY <1>i, <3>1 DEF EditPcs
    <3>3. edits' \in [Edits -> {Unsent} \cup EditOf]
      BY <1>0, <3>1, <3>2, GoesMoves
    <3>4. fetch' \in FetchOf /\ trailing' \in HintOf
      <4>1. CASE fetch # NoFetch
        BY <1>0, <2>12, <4>1 DEF EditReturns
      <4>2. CASE Flushes(trailing, view', InFlight # {k})
        BY <1>0, <4>2, FlushesTyped
      <4> QED BY <2>12, <4>1, <4>2 DEF EditReturns
    <3>5. view' \in Shown
      BY <1>0, <3>1, <3>2 DEF EditOf
    <3> QED BY <1>0, <1>e, <3>1, <3>3, <3>4, <3>5 DEF AppOK
  <2> QED BY <1>1, <2>1, <2>2, <2>3, <2>4, <2>5, <2>6, <2>7, <2>8, <2>9, <2>10, <2>11, <2>12 DEF EditStep
<1>o. ASSUME hints' \in Seq(HintOf), UNCHANGED <<ruleGate, edits, view, operation, fetch, trailing>>
      PROVE  AppOK'
  BY <1>0, <1>o DEF AppOK
<1>r. ASSUME runtime_hint \/ hints' = hints, shownRev' = shownRev PROVE hints' \in Seq(HintOf)
  <2>1. CASE hints' = hints
    BY <1>0, <2>1
  <2>2. CASE runtime_hint
    BY <1>0, <1>h, <2>2, HintSent DEF runtime_hint
  <2> QED BY <1>r, <2>1, <2>2
<1>2. ASSUME NEW r \in RuleIds, RuleFails(r) PROVE Typed'
  <2>1. /\ conn' = [conn EXCEPT !.kids[r].st = "failed"] /\ runtime_hint
        /\ UNCHANGED <<ruleStore, shownRev, ruleGate, edits, view, operation, fetch, trailing>>
    BY <1>2 DEF RuleFails
  <2>2. conn' = [conn EXCEPT !.kids = [conn.kids EXCEPT ![r] = [conn.kids[r] EXCEPT !.st = "failed"]]]
    BY <2>1
  <2>3. [conn.kids[r] EXCEPT !.st = "failed"] \in KidOf
    BY <1>0 DEF KidOf
  <2>4. [conn.kids EXCEPT ![r] = [conn.kids[r] EXCEPT !.st = "failed"]] \in [RuleIds -> KidOf]
    BY <1>0, <2>3
  <2>5. StoreOK'
    BY <1>k, <2>1, <2>2, <2>4
  <2> QED BY <1>o, <1>r, <2>1, <2>5
<1>3. CASE ConnectionClears
  <2>1. /\ conn' = [gen |-> 0, est |-> FALSE, kids |-> [r \in RuleIds |-> NoChild]]
        /\ runtime_hint \/ UNCHANGED hints
        /\ UNCHANGED <<ruleStore, shownRev, ruleGate, edits, view, operation, fetch, trailing>>
    BY <1>3 DEF ConnectionClears
  <2>2. NoChild \in KidOf
    BY RulesAssumption DEF NoChild, KidOf, Definition, NoRule
  <2>3. StoreOK'
    BY <1>0, <2>1, <2>2 DEF StoreOK
  <2> QED BY <1>o, <1>r, <2>1, <2>3
<1>4. CASE ConnectionMade
  <2>1. /\ conn' = [gen |-> conn.gen + 1, est |-> TRUE, kids |-> Enabled(conn.kids)]
        /\ runtime_hint \/ UNCHANGED hints
        /\ UNCHANGED <<ruleStore, shownRev, ruleGate, edits, view, operation, fetch, trailing>>
    BY <1>4 DEF ConnectionMade
  <2>2. Enabled(conn.kids) \in [RuleIds -> KidOf]
    BY <1>0, EnabledFacts
  <2>3. StoreOK'
    BY <1>0, <2>1, <2>2 DEF StoreOK
  <2> QED BY <1>o, <1>r, <2>1, <2>3
<1>5. CASE handleHint
  <2>1. /\ hints # <<>> /\ hints' = Tail(hints)
        /\ UNCHANGED <<ruleStore, shownRev, conn, ruleGate, edits, view, operation>>
        /\ fetch' \in {fetch, Asked(Head(hints))} /\ trailing' \in {trailing, Head(hints)}
    BY <1>5 DEF handleHint
  <2>2. Head(hints) \in HintOf /\ hints' \in Seq(HintOf)
    BY <1>0, <2>1, HintTaken
  <2>3. Asked(Head(hints)) \in FetchOf
    BY <1>0, <2>2 DEF Asked, FetchOf
  <2> QED BY <1>0, <1>e, <2>1, <2>2, <2>3 DEF AppOK
<1>6. CASE FetchServed
  <2>1. /\ fetch.st = "asked" /\ fetch' = [fetch EXCEPT !.st = "answered", !.snap = snapshot_inner]
        /\ UNCHANGED <<ruleStore, shownRev, conn, ruleGate, edits, hints, view, operation, trailing>>
    BY <1>6 DEF FetchServed
  <2>2. fetch \in [st : {"asked", "answered"}, oper : Nat, hint : HintOf, snap : Shown]
    BY <1>0, <2>1 DEF FetchOf, NoFetch
  <2>3. fetch' \in FetchOf
    BY <1>v, <2>1, <2>2 DEF FetchOf
  <2> QED BY <1>0, <1>e, <2>1, <2>3 DEF AppOK
<1>7. CASE FetchReturns
  <2>1. /\ fetch.st = "answered"
        /\ view' \in {view, fetch.snap}
        /\ \E h \in {trailing, fetch.hint} : Flushes(h, view', InFlight # {})
        /\ UNCHANGED <<ruleStore, shownRev, conn, ruleGate, edits, hints, operation>>
    BY <1>7 DEF FetchReturns
  <2>2. fetch \in [st : {"asked", "answered"}, oper : Nat, hint : HintOf, snap : Shown]
    BY <1>0, <2>1 DEF FetchOf, NoFetch
  <2>3. fetch' \in FetchOf /\ trailing' \in HintOf
    BY <1>0, <2>1, <2>2, FlushesTyped
  <2>4. view' \in Shown
    BY <1>0, <2>1, <2>2
  <2> QED BY <1>0, <1>e, <2>1, <2>3, <2>4 DEF AppOK
<1> QED BY <1>1, <1>2, <1>3, <1>4, <1>5, <1>6, <1>7 DEF RulesNext

-----------------------------------------------------------------------------
(* What is stored and what runs.                                           *)

\* The store's next revision: what was shown before is older.
VersionsLast == \A rev \in Nat : \A rules : VersionOf(rev, rules) => VersionOf(rev, rules)'

LEMMA VersionsLasting ==
  ASSUME Typed, ruleStore' = ruleStore \/ \E rules : ruleStore' = replace_rules(rules)
  PROVE  VersionsLast
<1>1. ruleStore.rev \in Nat
  BY DEF Typed, StoreOK
<1>2. CASE ruleStore' = ruleStore
  BY <1>2 DEF VersionsLast, VersionOf
<1>3. CASE ruleStore'.rev = ruleStore.rev + 1
  BY <1>1, <1>3 DEF VersionsLast, VersionOf
<1> QED BY <1>2, <1>3 DEF replace_rules

\* The versions in hand.
LEMMA VersionTypes ==
  ASSUME Typed
  PROVE  /\ view.rev \in Nat /\ \A k \in InFlight : edits[k].rev \in Nat /\ edits[k].answer.rev \in Nat
         /\ fetch # NoFetch => fetch.snap.rev \in Nat
BY InFlightFacts DEF Typed, AppOK, Shown, EditOf, FetchOf

\* Versions and children are left alone but for the moves of an edit.
LEMMA VersionsMoved ==
  ASSUME Typed, Versions, VersionsLast, view' = view, fetch' = fetch,
         \A j \in InFlight' : j \in InFlight /\ SameEdit(edits'[j], edits[j])
  PROVE  Versions'
<1>1. \A j \in InFlight' : j \in InFlight /\ edits'[j].rev = edits[j].rev /\ edits'[j].seen = edits[j].seen
                           /\ edits'[j].answer = edits[j].answer
  BY DEF SameEdit
<1>2. VersionOf(view.rev, view.rules)' /\ (fetch # NoFetch => VersionOf(fetch.snap.rev, fetch.snap.rules)')
  BY VersionTypes DEF Versions, VersionsLast, VersionOf
<1>3. ASSUME NEW j \in InFlight'
      PROVE  VersionOf(edits[j].rev, edits[j].seen)' /\ VersionOf(edits[j].answer.rev, edits[j].answer.rules)'
  <2>1. j \in InFlight /\ VersionOf(edits[j].rev, edits[j].seen)
        /\ VersionOf(edits[j].answer.rev, edits[j].answer.rules)
    BY <1>1 DEF Versions
  <2>2. edits[j].rev \in Nat /\ edits[j].answer.rev \in Nat
    BY <2>1, VersionTypes
  <2>3. /\ edits'[j].rev = edits[j].rev /\ edits'[j].seen = edits[j].seen
        /\ edits'[j].answer = edits[j].answer
    BY <1>1
  <2> QED BY <2>1, <2>2, <2>3 DEF VersionsLast, VersionOf
<1> QED BY <1>2, <1>3 DEF Versions

\* While nobody has the gate no delete is under way.
LEMMA FreeGate ==
  ASSUME Typed, Deletes
  PROVE  /\ ruleGate = NoEdit => \A k \in InFlight : ~Deleting(k)
         /\ \A j, k \in InFlight : Deleting(j) /\ Deleting(k) => j = k
BY InFlightFacts DEF Typed, Deletes

Kept == Versions /\ OnIsStored /\ Deletes

\* The edits' steps.
LEMMA EditKept ==
  ASSUME Typed, Kept, NEW k \in Edits, EditStep(k)
  PROVE  Kept'
<1>0. /\ AppOK /\ StoreOK /\ Versions /\ OnIsStored /\ Deletes
      /\ conn.kids \in [RuleIds -> KidOf] /\ ruleStore.rules \in [RuleIds -> Definition]
      /\ \A j \in InFlight : edits[j] \in EditOf
      /\ edits[k].pc \notin {"unsent", "done"} => k \in InFlight
      /\ \A j \in InFlight : edits[j].rule \in RuleIds
  BY InFlightFacts DEF Typed, Kept, StoreOK, RuleSets, EditOf
<1>g. ASSUME NEW pc \in EditPcs, edits[k].pc \notin {"unsent", "done"}, Goes(k, pc)
      PROVE  Moved(k, pc) /\ \A j \in InFlight' : j \in InFlight /\ SameEdit(edits'[j], edits[j])
  <2>1. Moved(k, pc)
    BY <1>0, <1>g, GoesMoves
  <2>2. \A j \in InFlight' : j \in InFlight /\ j \in Edits
    BY <2>1, InFlightFacts, <1>0 DEF Moved
  <2>3. \A j \in Edits \ {k} : SameEdit(edits'[j], edits[j])
    BY <2>1 DEF Moved, SameEdit
  <2> QED BY <2>1, <2>2, <2>3 DEF Moved
<1>q. ASSUME NEW pc \in EditPcs \ {"remove", "removed"}, edits[k].pc \notin {"unsent", "done"}, Goes(k, pc),
             UNCHANGED <<ruleStore, conn, ruleGate, view, fetch>>
      PROVE  Kept'
  <2>1. Moved(k, pc) /\ \A j \in InFlight' : j \in InFlight /\ SameEdit(edits'[j], edits[j])
    BY <1>g, <1>q
  <2>2. Versions'
    BY <1>0, <1>q, <2>1, VersionsLasting, VersionsMoved
  <2>3. OnIsStored'
    BY <1>0, <1>q DEF OnIsStored
  <2>4. Deletes'
    <3>1. \A j \in InFlight' : Deleting(j)' => Deleting(j) /\ j # k
      BY <1>0, <1>q, <2>1, InFlightFacts DEF Deleting, Moved
    <3> QED BY <1>0, <1>q, <2>1, <3>1 DEF Deletes, SameEdit
  <2> QED BY <2>2, <2>3, <2>4 DEF Kept
<1>1. ASSUME NEW op, NEW r \in RuleIds, SendEdit(k, op, r) PROVE Kept'
  <2>1. /\ UNCHANGED <<ruleStore, conn, ruleGate, view, fetch>> /\ edits[k].pc = "unsent"
        /\ edits'[k].rev = view.rev /\ edits'[k].seen = view.rules /\ edits'[k].answer = view
        /\ edits'[k].pc = "sent"
        /\ \A j \in Edits \ {k} : edits'[j] = edits[j]
    BY <1>0, <1>1 DEF SendEdit, AppOK
  <2>2. \A j \in InFlight' : j = k \/ (j \in InFlight /\ edits'[j] = edits[j] /\ j # k)
    BY <2>1 DEF InFlight
  <2>3. Versions'
    BY <1>0, <2>1, <2>2 DEF Versions, VersionOf
  <2>4. OnIsStored'
    BY <1>0, <2>1 DEF OnIsStored
  <2>5. Deletes'
    BY <1>0, <2>1, <2>2 DEF Deletes, Deleting
  <2> QED BY <2>3, <2>4, <2>5 DEF Kept
<1>2. CASE RefuseEdit(k) \/ StoreRefuses(k)
  BY <1>q, <1>2 DEF RefuseEdit, StoreRefuses, Enters, EditPcs
<1>3. CASE CommitEdit(k)
  <2>1. /\ edits[k].pc = "sent" /\ edits[k].op # "delete" /\ Checks(k) /\ ruleGate = NoEdit
        /\ ruleStore' = replace_rules([ruleStore.rules EXCEPT ![edits[k].rule] = k])
        /\ UNCHANGED <<conn, ruleGate, view, fetch>>
        /\ \E pc \in {"reconcile", "hint"} : Goes(k, pc)
    BY <1>3 DEF CommitEdit, Enters
  <2>2. PICK pc \in {"reconcile", "hint"} : Goes(k, pc)
    BY <2>1
  <2>3. /\ pc \in EditPcs /\ k \in InFlight
        /\ Moved(k, pc) /\ \A j \in InFlight' : j \in InFlight /\ SameEdit(edits'[j], edits[j])
    BY <1>0, <1>g, <2>1, <2>2 DEF EditPcs
  <2>4. Versions'
    BY <1>0, <2>1, <2>3, VersionsLasting, VersionsMoved
  <2>5. conn.kids[edits[k].rule].st # "on"
    <3>1. edits[k].op \in {"create", "update"} /\ edits[k].rule \in RuleIds
      BY <1>0, <2>1, <2>3 DEF EditOf
    <3>2. CASE edits[k].op = "create"
      <4>1. ruleStore.rules[edits[k].rule] = NoRule
        BY <2>1, <3>1, <3>2 DEF Checks, CreateChecks, Stored
      <4> QED BY <1>0, <3>1, <4>1 DEF OnIsStored
    <3>3. CASE edits[k].op = "update"
      BY <2>1, <3>3 DEF Checks, UpdateChecks, rule_is_active, Quieted
    <3> QED BY <3>1, <3>2, <3>3
  <2>6. \A r \in RuleIds \ {edits[k].rule} : ruleStore'.rules[r] = ruleStore.rules[r]
    BY <1>0, <2>1 DEF replace_rules
  <2>7. OnIsStored'
    BY <1>0, <2>1, <2>5, <2>6 DEF OnIsStored
  <2>8. Deletes'
    <3>1. \A j \in InFlight' : ~Deleting(j)'
      BY <1>0, <2>1, <2>2, <2>3, FreeGate, InFlightFacts DEF Deleting, Moved
    <3> QED BY <3>1 DEF Deletes
  <2> QED BY <2>4, <2>7, <2>8 DEF Kept
<1>4. CASE EditReconciles(k)
  <2>1. /\ edits[k].pc = "reconcile" /\ Goes(k, "hint") /\ ruleGate = NoEdit
        /\ conn' \in {conn, [conn EXCEPT !.kids = Enabled(conn.kids)]}
        /\ UNCHANGED <<ruleStore, ruleGate, view, fetch>>
    BY <1>4 DEF EditReconciles
  <2>2. /\ "hint" \in EditPcs /\ k \in InFlight
        /\ Moved(k, "hint") /\ \A j \in InFlight' : j \in InFlight /\ SameEdit(edits'[j], edits[j])
    BY <1>0, <1>g, <2>1 DEF EditPcs
  <2>3. Versions'
    BY <1>0, <2>1, <2>2, VersionsLasting, VersionsMoved
  <2>4. OnIsStored'
    <3>1. conn'.kids \in {conn.kids, Enabled(conn.kids)}
      BY <1>0, <2>1 DEF StoreOK
    <3> QED BY <1>0, <2>1, <3>1, EnabledFacts DEF OnIsStored
  <2>5. Deletes'
    <3>1. \A j \in InFlight' : ~Deleting(j)'
      BY <1>0, <2>1, <2>2, FreeGate, InFlightFacts DEF Deleting, Moved
    <3> QED BY <3>1 DEF Deletes
  <2> QED BY <2>3, <2>4, <2>5 DEF Kept
<1>5. CASE EditHints(k)
  BY <1>q, <1>5 DEF EditHints, EditPcs
<1>6. CASE EditSnapshots(k)
  <2>1. /\ edits[k].pc = "snapshot"
        /\ ruleGate' = (IF ruleGate = k THEN NoEdit ELSE ruleGate)
        /\ UNCHANGED <<ruleStore, conn, view, fetch>>
    BY <1>6 DEF EditSnapshots
  <2>2. /\ k \in InFlight /\ edits'[k].pc = "reply"
        /\ edits'[k].rev = edits[k].rev /\ edits'[k].seen = edits[k].seen
        /\ edits'[k].answer = snapshot_inner
        /\ \A j \in Edits \ {k} : edits'[j] = edits[j]
    <3>1. k \in InFlight /\ edits[k] \in EditOf
      BY <1>0, <2>1
    <3>2. edits' = [edits EXCEPT ![k] = [edits[k] EXCEPT !.pc = "reply", !.ok = TRUE, !.answer = snapshot_inner]]
      BY <1>6 DEF EditSnapshots
    <3>3. edits'[k] = [edits[k] EXCEPT !.pc = "reply", !.ok = TRUE, !.answer = snapshot_inner]
      BY <1>0, <3>2 DEF AppOK
    <3> QED BY <1>0, <3>1, <3>2, <3>3 DEF AppOK, EditOf
  <2>3. \A j \in InFlight' : j \in InFlight /\ (j # k => edits'[j] = edits[j])
    BY <2>1, <2>2 DEF InFlight
  <2>4. Versions'
    <3>1. VersionOf(edits'[k].answer.rev, edits'[k].answer.rules)
      <4>1. ruleStore.rev \in Nat
        BY <1>0 DEF StoreOK
      <4> QED BY <2>2, <4>1 DEF VersionOf, snapshot_inner
    <3> QED BY <1>0, <2>1, <2>2, <2>3, <3>1 DEF Versions, VersionOf
  <2>5. OnIsStored'
    BY <1>0, <2>1 DEF OnIsStored
  <2>6. Deletes'
    <3>1. \A j \in InFlight' : Deleting(j)' => Deleting(j) /\ j # k
      BY <2>2, <2>3 DEF Deleting
    <3>2. \A j \in InFlight' : Deleting(j)' => ruleGate' = j
      BY <1>0, <2>1, <2>3, <3>1 DEF Deletes
    <3> QED BY <1>0, <2>1, <2>3, <3>1, <3>2 DEF Deletes
  <2> QED BY <2>4, <2>5, <2>6 DEF Kept
<1>7. CASE DeleteCommits(k)
  <2>1. /\ edits[k].pc = "sent" /\ DeleteChecks(k) /\ ruleGate = NoEdit /\ ruleGate' = k
        /\ ruleStore' = replace_rules([ruleStore.rules EXCEPT ![edits[k].rule] = NoRule])
        /\ UNCHANGED <<conn, view, fetch>>
        /\ \E pc \in {"remove", "removed"} : Goes(k, pc)
    BY <1>7 DEF DeleteCommits, Enters
  <2>2. PICK pc \in {"remove", "removed"} : Goes(k, pc)
    BY <2>1
  <2>3. /\ pc \in EditPcs /\ k \in InFlight
        /\ Moved(k, pc) /\ \A j \in InFlight' : j \in InFlight /\ SameEdit(edits'[j], edits[j])
    BY <1>0, <1>g, <2>1, <2>2 DEF EditPcs
  <2>4. Versions'
    BY <1>0, <2>1, <2>3, VersionsLasting, VersionsMoved
  <2>5. conn.kids[edits[k].rule].st # "on" /\ edits[k].seen = ruleStore.rules
    <3>1. ~rule_is_active(edits[k].rule) /\ ruleStore.rev = edits[k].rev
      BY <2>1 DEF DeleteChecks, UpdateChecks, check_rules_revision
    <3> QED BY <1>0, <2>3, <3>1 DEF rule_is_active, Quieted, Versions, VersionOf
  <2>6. \A r \in RuleIds \ {edits[k].rule} : ruleStore'.rules[r] = ruleStore.rules[r]
    BY <1>0, <2>1 DEF replace_rules
  <2>7. OnIsStored'
    BY <1>0, <2>1, <2>5, <2>6 DEF OnIsStored
  <2>8. Deletes'
    <3>1. \A j \in InFlight' : Deleting(j)' => j = k
      BY <1>0, <2>1, <2>2, <2>3, FreeGate, InFlightFacts DEF Deleting, Moved
    <3> QED BY <2>1, <2>3, <2>5, <2>6, <3>1 DEF Deletes, SameEdit
  <2> QED BY <2>4, <2>7, <2>8 DEF Kept
<1>8. CASE DeleteRemoves(k)
  <2>1. /\ edits[k].pc = "remove" /\ Goes(k, "removed")
        /\ conn' = [conn EXCEPT !.kids[edits[k].rule] = NoChild]
        /\ UNCHANGED <<ruleStore, ruleGate, view, fetch>>
    BY <1>8 DEF DeleteRemoves
  <2>2. /\ "removed" \in EditPcs /\ k \in InFlight /\ edits[k].rule \in RuleIds
        /\ Moved(k, "removed") /\ \A j \in InFlight' : j \in InFlight /\ SameEdit(edits'[j], edits[j])
    BY <1>0, <1>g, <2>1 DEF EditPcs
  <2>3. Versions'
    BY <1>0, <2>1, <2>2, VersionsLasting, VersionsMoved
  <2>4. \A r \in RuleIds : conn'.kids[r] = conn.kids[r] \/ conn'.kids[r].st # "on"
    BY <1>0, <2>1, <2>2 DEF StoreOK, NoChild
  <2>5. OnIsStored'
    BY <1>0, <2>1, <2>4 DEF OnIsStored
  <2>6. Deletes'
    <3>1. \A j \in InFlight' : Deleting(j)' => Deleting(j)
      BY <2>1, <2>2, InFlightFacts, <1>0 DEF Deleting, Moved
    <3> QED BY <1>0, <2>1, <2>2, <2>4, <3>1 DEF Deletes, SameEdit
  <2> QED BY <2>3, <2>5, <2>6 DEF Kept
<1>9. CASE DeleteDone(k)
  BY <1>q, <1>9 DEF DeleteDone, EditPcs
<1>10. CASE DeleteRollsBack(k)
  <2>1. /\ edits[k].pc = "remove" /\ Goes(k, "reply") /\ ruleGate' = NoEdit
        /\ ruleStore' = replace_rules(edits[k].seen)
        /\ UNCHANGED <<conn, view, fetch>>
    BY <1>10 DEF DeleteRollsBack
  <2>2. /\ "reply" \in EditPcs /\ k \in InFlight
        /\ Moved(k, "reply") /\ \A j \in InFlight' : j \in InFlight /\ SameEdit(edits'[j], edits[j])
    BY <1>0, <1>g, <2>1 DEF EditPcs
  <2>3. Versions'
    BY <1>0, <2>1, <2>2, VersionsLasting, VersionsMoved
  <2>4. Deleting(k)
    BY <2>1 DEF Deleting
  <2>5. OnIsStored'
    <3>1. /\ conn.kids[edits[k].rule].st # "on"
          /\ \A r \in RuleIds \ {edits[k].rule} : ruleStore'.rules[r] = ruleStore.rules[r]
      BY <1>0, <2>1, <2>2, <2>4 DEF Deletes, replace_rules
    <3> QED BY <1>0, <2>1, <3>1 DEF OnIsStored
  <2>6. Deletes'
    <3>1. \A j \in InFlight' : ~Deleting(j)'
      BY <1>0, <2>1, <2>2, <2>4, FreeGate, InFlightFacts DEF Deleting, Moved
    <3> QED BY <3>1 DEF Deletes
  <2> QED BY <2>3, <2>5, <2>6 DEF Kept
<1>11. CASE RollbackFails(k)
  <2>1. /\ edits[k].pc = "remove" /\ Goes(k, "reply") /\ ruleGate' = NoEdit
        /\ UNCHANGED <<ruleStore, conn, view, fetch>>
    BY <1>11 DEF RollbackFails
  <2>2. /\ "reply" \in EditPcs /\ k \in InFlight
        /\ Moved(k, "reply") /\ \A j \in InFlight' : j \in InFlight /\ SameEdit(edits'[j], edits[j])
    BY <1>0, <1>g, <2>1 DEF EditPcs
  <2>3. Versions'
    BY <1>0, <2>1, <2>2, VersionsLasting, VersionsMoved
  <2>4. OnIsStored' /\ Deleting(k)
    BY <1>0, <2>1 DEF OnIsStored, Deleting
  <2>5. Deletes'
    <3>1. \A j \in InFlight' : ~Deleting(j)'
      BY <1>0, <2>1, <2>2, <2>4, FreeGate, InFlightFacts DEF Deleting, Moved
    <3> QED BY <3>1 DEF Deletes
  <2> QED BY <2>3, <2>4, <2>5 DEF Kept
<1>12. CASE EditReturns(k)
  <2>1. /\ edits[k].pc = "reply" /\ Goes(k, "done") /\ view' \in {view, edits[k].answer}
        /\ UNCHANGED <<ruleStore, conn, ruleGate>>
        /\ fetch' = fetch \/ fetch' = NoFetch \/ \E h : fetch' = Asked(h)
    BY <1>12 DEF EditReturns, Flushes
  <2>2. /\ "done" \in EditPcs /\ k \in InFlight
        /\ Moved(k, "done") /\ \A j \in InFlight' : j \in InFlight /\ SameEdit(edits'[j], edits[j])
    BY <1>0, <1>g, <2>1 DEF EditPcs
  <2>3. Versions'
    <3>1. VersionOf(view'.rev, view'.rules) /\ (fetch' # NoFetch => VersionOf(fetch'.snap.rev, fetch'.snap.rules))
      BY <1>0, <2>1, <2>2 DEF Versions, Asked
    <3> QED BY <1>0, <2>1, <2>2, <3>1 DEF Versions, VersionOf, SameEdit
  <2>4. OnIsStored'
    BY <1>0, <2>1 DEF OnIsStored
  <2>5. Deletes'
    <3>1. \A j \in InFlight' : Deleting(j)' => Deleting(j)
      BY <1>0, <2>1, <2>2, InFlightFacts DEF Deleting, Moved
    <3> QED BY <1>0, <2>1, <2>2, <3>1 DEF Deletes, SameEdit
  <2> QED BY <2>3, <2>4, <2>5 DEF Kept
<1> QED BY <1>1, <1>2, <1>3, <1>4, <1>5, <1>6, <1>7, <1>8, <1>9, <1>10, <1>11, <1>12 DEF EditStep

\* The steps of the registry and of the webview.
LEMMA OtherKept ==
  ASSUME Typed, Kept,
         \/ \E r \in RuleIds : RuleFails(r)
         \/ ConnectionClears \/ ConnectionMade \/ handleHint \/ FetchServed \/ FetchReturns
  PROVE  Kept'
<1>0. /\ AppOK /\ StoreOK /\ Versions /\ OnIsStored /\ Deletes
      /\ conn.kids \in [RuleIds -> KidOf] /\ ruleStore.rev \in Nat
      /\ \A j \in InFlight : edits[j].rule \in RuleIds
  BY InFlightFacts DEF Typed, Kept, StoreOK, EditOf
<1>1. /\ UNCHANGED <<ruleStore, ruleGate, edits>> /\ InFlight' = InFlight
  BY DEF RuleFails, ConnectionClears, ConnectionMade, handleHint, FetchServed, FetchReturns, InFlight
<1>2. Versions'
  <2>1. view' = view \/ (fetch.st = "answered" /\ view' = fetch.snap)
    BY DEF RuleFails, ConnectionClears, ConnectionMade, handleHint, FetchServed, FetchReturns
  <2>2. \/ fetch' = fetch \/ fetch' = NoFetch \/ \E h : fetch' = Asked(h)
        \/ fetch.st = "asked" /\ fetch' = [fetch EXCEPT !.st = "answered", !.snap = snapshot_inner]
    BY DEF RuleFails, ConnectionClears, ConnectionMade, handleHint, FetchServed, FetchReturns, Flushes
  <2>3. VersionOf(view'.rev, view'.rules)
    BY <1>0, <2>1 DEF Versions, NoFetch
  <2>4. fetch' # NoFetch => VersionOf(fetch'.snap.rev, fetch'.snap.rules)
    <3>1. CASE fetch' = fetch \/ fetch' = NoFetch \/ \E h : fetch' = Asked(h)
      BY <1>0, <3>1 DEF Versions, Asked
    <3>2. CASE fetch.st = "asked" /\ fetch' = [fetch EXCEPT !.st = "answered", !.snap = snapshot_inner]
      <4>1. fetch \in [st : {"asked", "answered"}, oper : Nat, hint : HintOf, snap : Shown]
        BY <1>0, <3>2 DEF AppOK, FetchOf, NoFetch
      <4>2. fetch'.snap = snapshot_inner
        BY <3>2, <4>1
      <4> QED BY <1>0, <4>2 DEF VersionOf, snapshot_inner
    <3> QED BY <2>2, <3>1, <3>2
  <2> QED BY <1>0, <1>1, <2>3, <2>4 DEF Versions, VersionOf
<1>3. OnIsStored' /\ Deletes'
  <2>1. CASE \E r \in RuleIds : conn.kids[r].st = "on" /\ conn' = [conn EXCEPT !.kids[r].st = "failed"]
    <3>1. \A q \in RuleIds : conn'.kids[q] = conn.kids[q] \/ conn'.kids[q].st # "on"
      BY <1>0, <2>1 DEF StoreOK, KidOf
    <3> QED BY <1>0, <1>1, <3>1 DEF OnIsStored, Deletes, Deleting
  <2>2. CASE conn'.kids = [r \in RuleIds |-> NoChild]
    BY <1>0, <1>1, <2>2 DEF OnIsStored, Deletes, Deleting, NoChild
  <2>3. CASE ruleGate = NoEdit /\ conn'.kids = Enabled(conn.kids)
    <3>1. \A j \in InFlight' : ~Deleting(j)'
      BY <1>0, <1>1, <2>3, FreeGate DEF Deleting
    <3> QED BY <1>0, <1>1, <2>3, <3>1, EnabledFacts DEF OnIsStored, Deletes
  <2>4. CASE conn' = conn
    BY <1>0, <1>1, <2>4 DEF OnIsStored, Deletes, Deleting
  <2>5. CASE \E r \in RuleIds : RuleFails(r)
    BY <2>1, <2>5 DEF RuleFails
  <2>6. CASE ConnectionClears
    BY <2>2, <2>6 DEF ConnectionClears
  <2>7. CASE ConnectionMade
    BY <2>3, <2>7 DEF ConnectionMade
  <2>8. CASE handleHint \/ FetchServed \/ FetchReturns
    BY <2>4, <2>8 DEF handleHint, FetchServed, FetchReturns
  <2> QED BY <2>5, <2>6, <2>7, <2>8
<1> QED BY <1>2, <1>3 DEF Kept

-----------------------------------------------------------------------------
(* What the webview shows.                                                 *)

Flow == ShownLags /\ InOrder /\ Answers /\ Informed /\ Waits

\* Revisions are numbers, and the newest is the store's.
LEMMA RevFacts ==
  ASSUME Typed, Versions
  PROVE  /\ ruleStore.rev \in Nat /\ shownRev \in Nat /\ 1 <= shownRev /\ shownRev <= ruleStore.rev
         /\ view.rev \in Nat /\ view.rev <= ruleStore.rev /\ operation \in Nat
         /\ \A k \in InFlight : /\ edits[k].rev \in Nat /\ edits[k].answer.rev \in Nat /\ edits[k].oper \in Nat
                                /\ edits[k].answer.rev <= ruleStore.rev
         /\ fetch # NoFetch => /\ fetch.snap.rev \in Nat /\ fetch.snap.rev <= ruleStore.rev
                               /\ fetch.hint \in HintOf /\ fetch.hint.rev \in Nat /\ fetch.oper \in Nat
         /\ trailing.rev \in Nat
         /\ Len(hints) \in Nat /\ \A i \in 1..Len(hints) : hints[i] \in HintOf /\ hints[i].rev \in Nat
<1>1. \A k \in InFlight : edits[k] \in EditOf
  BY InFlightFacts DEF Typed
<1>2. \A i \in 1..Len(hints) : hints[i] \in HintOf
  BY DEF Typed, AppOK
<1>3. /\ ruleStore.rev \in Nat /\ shownRev \in Nat /\ 1 <= shownRev /\ shownRev <= ruleStore.rev
      /\ view.rev \in Nat /\ view.rev <= ruleStore.rev /\ operation \in Nat /\ trailing.rev \in Nat
  BY DEF Typed, StoreOK, AppOK, Versions, VersionOf, Shown, HintOf
<1>4. \A k \in InFlight : /\ edits[k].rev \in Nat /\ edits[k].answer.rev \in Nat /\ edits[k].oper \in Nat
                          /\ edits[k].answer.rev <= ruleStore.rev
  BY <1>1 DEF Versions, VersionOf, Shown, EditOf
<1>5. fetch # NoFetch => /\ fetch.snap.rev \in Nat /\ fetch.snap.rev <= ruleStore.rev
                         /\ fetch.hint \in HintOf /\ fetch.hint.rev \in Nat /\ fetch.oper \in Nat
  BY DEF Typed, AppOK, Versions, VersionOf, Shown, FetchOf, HintOf
<1>6. Len(hints) \in Nat /\ \A i \in 1..Len(hints) : hints[i] \in HintOf /\ hints[i].rev \in Nat
  <2>1. Len(hints) \in Nat
    BY DEF Typed, AppOK
  <2> QED BY <1>2, <2>1 DEF HintOf
<1> QED BY <1>3, <1>4, <1>5, <1>6

\* One more hint, of the revision hints now carry.
LEMMA OrderSent ==
  ASSUME Typed, Versions, InOrder, NEW b \in BOOLEAN, NEW s \in Nat, shownRev' = s, shownRev <= s,
         hints' = Append(hints, Hint(s, b)), UNCHANGED <<trailing, fetch>>
  PROVE  /\ InOrder'
         /\ \E i \in 1..Len(hints') : hints'[i].rev = s
         /\ \A v : (\E i \in 1..Len(hints) : hints[i].rev = v) => \E i \in 1..Len(hints') : hints'[i].rev = v
<1>0. Hint(s, b) \in HintOf /\ Hint(s, b).rev = s /\ AppOK
  BY DEF Hint, HintOf, Typed
<1>1. /\ Len(hints) \in Nat /\ Len(hints') = Len(hints) + 1 /\ hints'[Len(hints')].rev = s
      /\ \A i \in 1..Len(hints) : hints'[i] = hints[i] /\ hints[i].rev \in Nat /\ i \in 1..Len(hints')
      /\ \A i \in 1..Len(hints') : i \in 1..Len(hints) \/ i = Len(hints')
  BY <1>0, HintSent, RevFacts
<1>2. /\ 1 <= s /\ trailing.rev <= shownRev /\ trailing.rev \in Nat /\ shownRev \in Nat
      /\ fetch # NoFetch => fetch.hint.rev \in 1..shownRev
  BY RevFacts DEF InOrder
<1>3. \A i, j \in 1..Len(hints') : i <= j => hints'[i].rev <= hints'[j].rev
  <2>1. ASSUME NEW i \in 1..Len(hints'), NEW j \in 1..Len(hints'), i <= j
        PROVE  hints'[i].rev <= hints'[j].rev
    <3>1. CASE i \in 1..Len(hints) /\ j \in 1..Len(hints)
      BY <1>1, <2>1, <3>1 DEF InOrder
    <3>2. CASE i \in 1..Len(hints) /\ j = Len(hints')
      <4>1. hints[i].rev <= shownRev /\ hints[i].rev \in Nat /\ hints'[i] = hints[i]
        BY <1>1, <3>2 DEF InOrder
      <4> QED BY <1>1, <1>2, <3>2, <4>1
    <3>3. CASE i = Len(hints')
      BY <1>1, <2>1, <3>3
    <3> QED BY <1>1, <3>1, <3>2, <3>3
  <2> QED BY <2>1
<1>4. \A i \in 1..Len(hints') : /\ trailing'.rev <= hints'[i].rev /\ hints'[i].rev <= shownRev'
                                /\ hints'[i].rev # 0
                                /\ fetch' # NoFetch => fetch'.hint.rev <= hints'[i].rev
  <2>1. ASSUME NEW i \in 1..Len(hints)
        PROVE  /\ trailing.rev <= hints'[i].rev /\ hints'[i].rev <= s /\ hints'[i].rev # 0
               /\ fetch # NoFetch => fetch.hint.rev <= hints'[i].rev
    BY <1>1, <1>2 DEF InOrder
  <2>2. /\ trailing.rev <= s /\ s # 0
        /\ fetch # NoFetch => fetch.hint.rev <= s
    BY <1>2
  <2> QED BY <1>1, <2>1, <2>2
<1>5. /\ trailing'.rev <= shownRev' /\ (trailing'.rev = 0 => trailing' = NoHint)
      /\ fetch' # NoFetch => /\ fetch'.hint.rev \in 1..shownRev'
                             /\ trailing' # NoHint => fetch'.hint.rev <= trailing'.rev
  BY <1>2 DEF InOrder
<1>6. InOrder'
  BY <1>3, <1>4, <1>5 DEF InOrder
<1>7. Len(hints') \in 1..Len(hints')
  BY <1>1
<1> QED BY <1>1, <1>6, <1>7

\* No more hints.
LEMMA OrderSame ==
  ASSUME Typed, Versions, InOrder, shownRev' \in Nat, shownRev <= shownRev', UNCHANGED <<hints, trailing, fetch>>
  PROVE  InOrder'
<1>1. \A i \in 1..Len(hints) : hints[i].rev \in Nat
  BY RevFacts
<1>2. shownRev \in Nat /\ trailing.rev \in Nat
  BY RevFacts
<1> QED BY <1>1, <1>2 DEF InOrder

\* Hints that stay, or with one more, tell what they told.
HintsStay == \A v : (\E i \in 1..Len(hints) : hints[i].rev = v) => \E i \in 1..Len(hints') : hints'[i].rev = v

\* Answers on their way and shown, after the move of an edit.
LEMMA AnswersMoved ==
  ASSUME Answers, UNCHANGED <<view, operation, fetch>>,
         \A j \in InFlight' : j \in InFlight /\ SameEdit(edits'[j], edits[j])
  PROVE  Answers'
BY DEF Answers, SameEdit

\* The step of an edit that leaves the webview alone.
LEMMA QuietFlow ==
  ASSUME Typed, Versions, Flow, NEW k \in Edits, NEW pc \in EditPcs \ {"done"},
         edits[k].pc \notin {"unsent", "done"}, Moved(k, pc),
         UNCHANGED <<view, operation, fetch, trailing>>, HintsStay, InOrder',
         ruleStore' = ruleStore, shownRev' = shownRev \/ shownRev' = ruleStore.rev, silent' = silent,
         Telling(k) => \/ pc \in {"hint", "removed"}
                       \/ \E i \in 1..Len(hints') : hints'[i].rev = shownRev,
         Deleting(k) => pc = "removed" \/ (pc = "hint" /\ shownRev' = ruleStore.rev)
  PROVE  Flow'
<1>0. /\ AppOK /\ k \in InFlight /\ InFlight' = InFlight /\ edits'[k].pc = pc
      /\ \A j \in InFlight : j \in Edits /\ (j # k => edits'[j] = edits[j])
      /\ \A j \in InFlight' : j \in InFlight /\ SameEdit(edits'[j], edits[j])
      /\ ShownLags /\ InOrder /\ Answers /\ Informed /\ Waits
  <2>1. AppOK /\ k \in InFlight /\ \A j \in InFlight : j \in Edits
    BY InFlightFacts DEF Typed
  <2> QED BY <2>1 DEF Moved, SameEdit, Flow
<1>1. ShownLags'
  <2>1. ASSUME NEW j \in InFlight, Deleting(j) PROVE ShownLags'
    <3>1. CASE j # k
      BY <1>0, <2>1, <3>1 DEF ShownLags, Deleting
    <3>2. CASE j = k
      BY <1>0, <2>1, <3>2 DEF ShownLags, Deleting
    <3> QED BY <3>1, <3>2
  <2> QED BY <1>0, <2>1 DEF ShownLags
<1>2. Answers'
  BY <1>0, AnswersMoved
<1>3. Informed'
  <2>1. ASSUME NEW j \in InFlight, Telling(j), j # k PROVE Informed'
    BY <1>0, <2>1 DEF Informed, Telling
  <2>2. ASSUME Telling(k) PROVE Informed'
    <3>1. CASE pc \in {"hint", "removed"}
      BY <1>0, <3>1 DEF Informed, Telling
    <3>2. CASE \E i \in 1..Len(hints') : hints'[i].rev = shownRev
      <4>1. CASE silent
        BY <4>1 DEF Informed
      <4>2. CASE shownRev = ruleStore.rev
        BY <3>2, <4>2 DEF Informed
      <4>3. CASE \E j \in InFlight : Deleting(j) /\ j # k
        BY <2>1, <4>3 DEF Deleting, Telling
      <4>4. CASE Deleting(k)
        <5>1. CASE pc = "removed"
          BY <3>1, <5>1
        <5>2. CASE pc = "hint"
          BY <3>1, <5>2
        <5> QED BY <4>4, <5>1, <5>2
      <4> QED BY <1>0, <4>1, <4>2, <4>3, <4>4 DEF ShownLags
    <3> QED BY <2>2, <3>1, <3>2
  <2>3. CASE silent \/ view.rev = ruleStore.rev \/ trailing.rev = ruleStore.rev \/ Fetches
    BY <2>3 DEF Informed, Fetches, isCurrent
  <2>4. CASE \E i \in 1..Len(hints) : hints[i].rev = ruleStore.rev
    BY <2>4 DEF Informed, HintsStay
  <2> QED BY <1>0, <2>1, <2>2, <2>3, <2>4 DEF Informed
<1>4. Waits'
  BY <1>0 DEF Waits
<1> QED BY <1>1, <1>2, <1>3, <1>4 DEF Flow

\* The step of an edit that makes a new revision: it, or a hint, will tell of it.
LEMMA NewRevFlow ==
  ASSUME Typed, Versions, Flow, NEW k \in Edits, NEW pc \in EditPcs \ {"done"},
         edits[k].pc \notin {"unsent", "done"}, Moved(k, pc),
         UNCHANGED <<view, operation, fetch, trailing>>, InOrder',
         \/ pc \in {"reconcile", "hint", "remove", "removed"}
         \/ \E i \in 1..Len(hints') : hints'[i].rev = ruleStore'.rev,
         shownRev' = ruleStore'.rev \/ pc \in {"remove", "removed"}
  PROVE  Flow'
<1>0. /\ AppOK /\ k \in InFlight /\ InFlight' = InFlight /\ edits'[k].pc = pc
      /\ \A j \in InFlight' : j \in InFlight /\ SameEdit(edits'[j], edits[j])
      /\ ShownLags /\ InOrder /\ Answers /\ Informed /\ Waits
  <2>1. AppOK /\ k \in InFlight /\ \A j \in InFlight : j \in Edits
    BY InFlightFacts DEF Typed
  <2> QED BY <2>1 DEF Moved, SameEdit, Flow
<1>1. ShownLags'
  BY <1>0 DEF ShownLags, Deleting
<1>2. Answers'
  BY <1>0, AnswersMoved
<1>3. Informed'
  BY <1>0 DEF Informed, Telling
<1>4. Waits'
  BY <1>0 DEF Waits
<1> QED BY <1>0, <1>1, <1>2, <1>3, <1>4 DEF Flow

\* What a flush of the hint that waits, or was being fetched, leaves.
LEMMA Flushed ==
  ASSUME Typed, Versions, InOrder, NEW h \in HintOf, NEW v \in Shown, NEW busy, Flushes(h, v, busy),
         h = trailing \/ (fetch # NoFetch /\ h = fetch.hint),
         view' = v, v.rev <= ruleStore.rev, UNCHANGED <<hints, shownRev, ruleStore, silent, operation>>,
         busy => InFlight' # {}, ~busy => InFlight' = {}
  PROVE  /\ InOrder' /\ Waits' /\ (h.rev = ruleStore.rev => Informed')
         /\ fetch' # NoFetch => fetch'.oper = operation /\ fetch'.st = "asked" /\ InFlight' = {}
<1>0. AppOK
  BY DEF Typed
<1>1. \/ fetch' = NoFetch /\ trailing' = h /\ (h = NoHint \/ busy)
      \/ fetch' = NoFetch /\ trailing' = NoHint /\ ~Newer(h, v) /\ ~busy /\ h # NoHint
      \/ fetch' = Asked(h) /\ trailing' = NoHint /\ Newer(h, v) /\ ~busy /\ h # NoHint
  BY <1>0, FlushesTyped
<1>2. /\ h.rev \in Nat /\ h.rev <= shownRev /\ (h.rev = 0 => h = NoHint)
      /\ \A i \in 1..Len(hints) : h.rev <= hints[i].rev
      /\ shownRev \in Nat /\ ruleStore.rev \in Nat /\ v.rev \in Nat
      /\ \A i \in 1..Len(hints) : hints[i].rev \in Nat
      /\ shownRev <= ruleStore.rev
  <2>1. /\ shownRev \in Nat /\ ruleStore.rev \in Nat /\ v.rev \in Nat /\ h.rev \in Nat
        /\ \A i \in 1..Len(hints) : hints[i].rev \in Nat
        /\ shownRev <= ruleStore.rev
    BY RevFacts DEF HintOf, Shown
  <2>2. CASE h = trailing
    BY <2>1, <2>2 DEF InOrder
  <2>3. CASE fetch # NoFetch /\ h = fetch.hint
    BY <2>1, <2>3 DEF InOrder
  <2> QED BY <2>1, <2>2, <2>3
<1>3. /\ Asked(h).hint = h /\ Asked(h).oper = operation /\ Asked(h).st = "asked"
      /\ Asked(h) # NoFetch /\ NoHint.rev = 0
  <2>1. Asked(h).st = "asked" /\ NoFetch.st = "none"
    BY DEF Asked, NoFetch
  <2> QED BY <2>1 DEF Asked, NoHint
<1>4. /\ fetch' # NoFetch => /\ fetch' = Asked(h) /\ trailing' = NoHint /\ InFlight' = {} /\ h # NoHint
      /\ trailing' = h \/ trailing' = NoHint
  BY <1>1
<1>5. InOrder'
  <2>1. \A i, j \in 1..Len(hints') : i <= j => hints'[i].rev <= hints'[j].rev
    BY DEF InOrder
  <2>2. \A i \in 1..Len(hints') : /\ trailing'.rev <= hints'[i].rev /\ hints'[i].rev <= shownRev'
                                  /\ hints'[i].rev # 0
                                  /\ fetch' # NoFetch => fetch'.hint.rev <= hints'[i].rev
    <3>1. \A i \in 1..Len(hints) : hints[i].rev <= shownRev /\ hints[i].rev # 0
      BY DEF InOrder
    <3> QED BY <1>2, <1>3, <1>4, <3>1
  <2>3. trailing'.rev <= shownRev' /\ (trailing'.rev = 0 => trailing' = NoHint)
    BY <1>2, <1>3, <1>4
  <2>4. fetch' # NoFetch => /\ fetch'.hint.rev \in 1..shownRev'
                            /\ trailing' # NoHint => fetch'.hint.rev <= trailing'.rev
    BY <1>2, <1>3, <1>4
  <2> QED BY <2>1, <2>2, <2>3, <2>4 DEF InOrder
<1>6. Waits'
  BY <1>1, <1>3 DEF Waits
<1>7. ASSUME h.rev = ruleStore.rev PROVE Informed'
  <2>1. CASE trailing' = h
    BY <1>7, <2>1 DEF Informed
  <2>2. CASE ~Newer(h, v)
    <3>1. view'.rev = ruleStore'.rev
      BY <1>2, <1>7, <2>2 DEF Newer
    <3> QED BY <3>1 DEF Informed
  <2>3. CASE fetch' = Asked(h)
    BY <1>3, <1>7, <2>3 DEF Informed, Fetches
  <2> QED BY <1>1, <2>1, <2>2, <2>3
<1> QED BY <1>3, <1>4, <1>5, <1>6, <1>7

\* An edit is sent: no older answer will be shown.
LEMMA SentFlow ==
  ASSUME Typed, Versions, Flow, NEW k \in Edits, NEW op, NEW r \in RuleIds, SendEdit(k, op, r)
  PROVE  Flow'
<1>0. AppOK /\ ShownLags /\ InOrder /\ Answers /\ Informed /\ Waits
  BY DEF Flow, Typed
<1>1. /\ edits[k].pc = "unsent" /\ operation' = operation + 1
      /\ edits'[k].pc = "sent" /\ edits'[k].rev = view.rev /\ edits'[k].oper = operation + 1
      /\ edits'[k].answer = view
      /\ \A j \in Edits \ {k} : edits'[j] = edits[j]
      /\ UNCHANGED <<ruleStore, shownRev, hints, view, fetch, trailing, silent>>
  BY <1>0 DEF SendEdit, AppOK
<1>2. /\ InFlight' = InFlight \cup {k} /\ k \notin InFlight
      /\ \A j \in InFlight : edits'[j] = edits[j] /\ j # k
  BY <1>1 DEF InFlight
<1>3. ShownLags'
  BY <1>0, <1>1, <1>2 DEF ShownLags, Deleting
<1>4. InOrder'
  BY <1>0, <1>1 DEF InOrder
<1>5. Answers'
  <2>1. /\ operation \in Nat /\ view.rev \in Nat
        /\ \A j \in InFlight : edits[j].oper \in Nat /\ edits[j].oper <= operation
                               /\ edits[j].rev <= edits[j].answer.rev
                               /\ \A i \in InFlight : edits[i].oper = edits[j].oper => i = j
        /\ fetch # NoFetch => fetch.oper \in Nat /\ fetch.oper <= operation
    BY <1>0, RevFacts DEF Answers
  <2>2. ASSUME NEW j \in InFlight'
        PROVE  /\ edits'[j].oper <= operation'
               /\ edits'[j].oper = operation' => view'.rev = edits'[j].rev
               /\ edits'[j].rev <= edits'[j].answer.rev
               /\ \A i \in InFlight' : edits'[i].oper = edits'[j].oper => i = j
    <3>1. CASE j = k
      BY <1>1, <1>2, <2>1, <3>1
    <3>2. CASE j \in InFlight
      BY <1>1, <1>2, <2>1, <3>2
    <3> QED BY <1>2, <3>1, <3>2
  <2>3. fetch' # NoFetch => fetch'.oper <= operation' /\ fetch'.oper # operation'
    BY <1>1, <2>1
  <2> QED BY <2>2, <2>3 DEF Answers
<1>6. Informed'
  <2>1. CASE Fetches
    <3>1. fetch # NoFetch /\ fetch'.oper # operation'
      BY <1>0, <1>1, <2>1, RevFacts DEF Answers, Fetches
    <3> QED BY <1>1, <2>1, <3>1 DEF Informed, Fetches, isCurrent
  <2>2. CASE \E j \in InFlight : Telling(j)
    BY <1>2, <2>2 DEF Informed, Telling
  <2> QED BY <1>0, <1>1, <2>1, <2>2 DEF Informed
<1>7. Waits'
  BY <1>2 DEF Waits
<1> QED BY <1>3, <1>4, <1>5, <1>6, <1>7 DEF Flow

\* An edit has read its answer: the newest revision, not older than its own.
LEMMA SnapshotFlow ==
  ASSUME Typed, Versions, Flow, NEW k \in Edits, EditSnapshots(k)
  PROVE  Flow'
<1>0. AppOK /\ ShownLags /\ InOrder /\ Answers /\ Informed /\ Waits
  BY DEF Flow, Typed
<1>1. /\ k \in InFlight /\ edits[k] \in EditOf /\ edits[k].pc = "snapshot"
      /\ UNCHANGED <<ruleStore, shownRev, hints, view, operation, fetch, trailing, silent>>
      /\ edits' = [edits EXCEPT ![k] = [edits[k] EXCEPT !.pc = "reply", !.ok = TRUE, !.answer = snapshot_inner]]
  BY <1>0, InFlightFacts DEF EditSnapshots
<1>2. /\ edits'[k].pc = "reply" /\ edits'[k].rev = edits[k].rev /\ edits'[k].oper = edits[k].oper
      /\ edits'[k].answer.rev = ruleStore.rev
      /\ \A j \in Edits \ {k} : edits'[j] = edits[j]
  <2>1. edits'[k] = [edits[k] EXCEPT !.pc = "reply", !.ok = TRUE, !.answer = snapshot_inner]
    BY <1>0, <1>1 DEF AppOK
  <2>2. snapshot_inner.rev = ruleStore.rev
    BY DEF snapshot_inner
  <2>3. \A j \in Edits \ {k} : edits'[j] = edits[j]
    BY <1>0, <1>1 DEF AppOK
  <2>4. PICK s : s = snapshot_inner
    OBVIOUS
  <2>5. /\ edits'[k].pc = "reply" /\ edits'[k].rev = edits[k].rev /\ edits'[k].oper = edits[k].oper
        /\ edits'[k].answer = s
    <3>1. \A e \in EditOf : LET f == [e EXCEPT !.pc = "reply", !.ok = TRUE, !.answer = s]
                           IN  f.pc = "reply" /\ f.rev = e.rev /\ f.oper = e.oper /\ f.answer = s
      BY DEF EditOf
    <3>2. PICK e \in EditOf : e = edits[k]
      BY <1>1
    <3>3. PICK f : f = [e EXCEPT !.pc = "reply", !.ok = TRUE, !.answer = s]
      OBVIOUS
    <3>4. edits'[k] = f
      BY <2>1, <2>4, <3>2, <3>3
    <3>5. f.pc = "reply" /\ f.rev = e.rev /\ f.oper = e.oper /\ f.answer = s
      BY <3>1, <3>3
    <3> QED BY <3>2, <3>4, <3>5
  <2> QED BY <2>2, <2>3, <2>4, <2>5
<1>3. InFlight' = InFlight /\ \A j \in InFlight \ {k} : edits'[j] = edits[j]
  BY <1>1, <1>2 DEF InFlight
<1>4. ShownLags'
  BY <1>0, <1>1, <1>3 DEF ShownLags, Deleting
<1>5. InOrder'
  BY <1>0, <1>1 DEF InOrder
<1>6. Answers'
  <2>1. edits[k].rev <= ruleStore.rev
    BY <1>1 DEF Versions, VersionOf
  <2>2. \A j \in InFlight : /\ edits'[j].oper = edits[j].oper /\ edits'[j].rev = edits[j].rev
                            /\ edits'[j].rev <= edits'[j].answer.rev
    BY <1>0, <1>2, <1>3, <2>1 DEF Answers
  <2> QED BY <1>0, <1>1, <1>3, <2>2 DEF Answers
<1>7. Informed'
  <2>1. \A j \in InFlight : Telling(j) => Telling(j)'
    BY <1>1, <1>3 DEF Telling
  <2>2. Fetches => Fetches'
    BY <1>1 DEF Fetches, isCurrent
  <2> QED BY <1>0, <1>1, <1>3, <2>1, <2>2 DEF Informed
<1>8. Waits'
  BY <1>0, <1>1, <1>3 DEF Waits
<1> QED BY <1>4, <1>5, <1>6, <1>7, <1>8 DEF Flow

\* An edit's answer is taken, if it is not overtaken, and the hint that waited is looked at.
LEMMA ReturnFlow ==
  ASSUME Typed, Versions, Flow, NEW k \in Edits, EditReturns(k)
  PROVE  Flow'
<1>0. AppOK /\ ShownLags /\ InOrder /\ Answers /\ Informed /\ Waits
  BY DEF Flow, Typed
<1>1. /\ k \in InFlight /\ edits[k] \in EditOf /\ edits[k].pc = "reply" /\ Goes(k, "done")
      /\ UNCHANGED <<ruleStore, shownRev, hints, operation, silent>>
      /\ \A j \in InFlight : edits[j] \in EditOf
  BY <1>0, InFlightFacts DEF EditReturns
<1>2. /\ InFlight' = InFlight \ {k}
      /\ \A j \in InFlight' : j \in InFlight /\ j # k /\ edits'[j] = edits[j]
  <2>1. Moved(k, "done")
    BY <1>0, <1>1, GoesMoves DEF EditPcs
  <2> QED BY <2>1, <1>0, InFlightFacts DEF Moved
<1>3. /\ view' = view \/ (edits[k].oper = operation /\ view' = edits[k].answer)
      /\ view' \in Shown /\ view.rev <= view'.rev /\ view'.rev <= ruleStore.rev
  <2>1. view' = view \/ (edits[k].oper = operation /\ view' = edits[k].answer)
    BY DEF EditReturns, isCurrent
  <2>2. view.rev <= ruleStore.rev /\ edits[k].answer.rev <= ruleStore.rev /\ view.rev \in Nat
    BY <1>1, RevFacts
  <2>3. edits[k].oper = operation => view.rev <= edits[k].answer.rev
    BY <1>0, <1>1 DEF Answers
  <2>4. view \in Shown /\ edits[k].answer \in Shown
    BY <1>0, <1>1 DEF AppOK, EditOf
  <2> QED BY <2>1, <2>2, <2>3, <2>4
<1>4. ShownLags'
  BY <1>0, <1>1, <1>2 DEF ShownLags, Deleting
<1>5. \A j \in InFlight' : Telling(j)' <=> Telling(j)
  BY <1>2 DEF Telling
<1>6. ~Telling(k)
  BY <1>1 DEF Telling
<1>7. \/ silent \/ view'.rev = ruleStore.rev \/ (\E j \in InFlight' : Telling(j)')
      \/ (\E i \in 1..Len(hints) : hints[i].rev = ruleStore.rev)
      \/ trailing.rev = ruleStore.rev \/ Fetches
  <2>1. view.rev = ruleStore.rev => view'.rev = ruleStore.rev
    BY <1>1, <1>3, RevFacts DEF Shown
  <2>2. \A j \in InFlight : Telling(j) => j \in InFlight' /\ Telling(j)'
    BY <1>2, <1>5, <1>6
  <2> QED BY <1>0, <2>1, <2>2 DEF Informed
<1>8. \A j \in InFlight' : /\ edits'[j].oper <= operation'
                           /\ edits'[j].oper = operation' => view'.rev = edits'[j].rev
                           /\ edits'[j].rev <= edits'[j].answer.rev
                           /\ \A i \in InFlight' : edits'[i].oper = edits'[j].oper => i = j
  BY <1>0, <1>1, <1>2, <1>3 DEF Answers
<1>9. CASE fetch # NoFetch
  <2>1. UNCHANGED <<fetch, trailing>>
    BY <1>9 DEF EditReturns
  <2>2. InOrder'
    BY <1>0, <1>1, <2>1 DEF InOrder
  <2>3. Waits'
    BY <1>9, <2>1 DEF Waits
  <2>4. Informed'
    <3>1. Fetches => Fetches'
      BY <1>1, <2>1 DEF Fetches, isCurrent
    <3> QED BY <1>1, <1>7, <2>1, <3>1 DEF Informed
  <2>5. Answers'
    <3>1. /\ fetch'.oper <= operation'
          /\ fetch'.oper = operation' => /\ fetch'.st = "answered" => view'.rev <= fetch'.snap.rev
                                         /\ \A j \in InFlight' : edits'[j].oper # operation'
      BY <1>0, <1>1, <1>2, <1>3, <1>9, <2>1 DEF Answers
    <3> QED BY <1>8, <3>1 DEF Answers
  <2> QED BY <1>4, <2>2, <2>3, <2>4, <2>5 DEF Flow
<1>10. CASE fetch = NoFetch
  <2>1. Flushes(trailing, view', InFlight # {k})
    BY <1>10 DEF EditReturns
  <2>2. /\ InFlight # {k} => InFlight' # {}
        /\ ~(InFlight # {k}) => InFlight' = {}
    BY <1>1, <1>2
  <2>3. PICK v \in Shown : view' = v
    BY <1>3
  <2>4. PICK h \in HintOf : h = trailing
    BY <1>0 DEF AppOK
  <2>5. PICK b : b = (InFlight # {k})
    OBVIOUS
  <2>6. Flushes(h, v, b)
    BY <2>1, <2>3, <2>4, <2>5
  <2>7. /\ InOrder' /\ Waits' /\ (h.rev = ruleStore.rev => Informed')
        /\ fetch' # NoFetch => fetch'.oper = operation /\ fetch'.st = "asked" /\ InFlight' = {}
    BY <1>0, <1>1, <1>3, <2>2, <2>3, <2>4, <2>5, <2>6, Flushed
  <2>8. Informed'
    <3>1. ~Fetches
      BY <1>10 DEF Fetches
    <3> QED BY <1>1, <1>7, <2>4, <2>7, <3>1 DEF Informed
  <2>9. Answers'
    <3>1. operation' = operation /\ operation \in Nat
      BY <1>0, <1>1 DEF AppOK
    <3> QED BY <1>8, <2>7, <3>1 DEF Answers
  <2> QED BY <1>4, <2>7, <2>8, <2>9 DEF Flow
<1> QED BY <1>9, <1>10

\* The steps of an edit.
LEMMA EditFlow ==
  ASSUME Typed, Kept, Flow, NEW k \in Edits, EditStep(k)
  PROVE  Flow'
<1>0. /\ AppOK /\ Versions /\ InOrder /\ ShownLags /\ Deletes
      /\ edits[k].pc \notin {"unsent", "done"} => k \in InFlight
      /\ ruleStore.rev \in Nat /\ shownRev \in Nat /\ shownRev <= ruleStore.rev
  <2>1. AppOK /\ Versions /\ InOrder /\ ShownLags /\ Deletes
    BY DEF Typed, Kept, Flow
  <2> QED BY <2>1, InFlightFacts, RevFacts
<1>g. ASSUME NEW pc \in EditPcs, edits[k].pc \notin {"unsent", "done"}, Goes(k, pc)
      PROVE  Moved(k, pc)
  BY <1>0, <1>g, GoesMoves
<1>h. hints' = hints => HintsStay
  BY DEF HintsStay
<1>r. \A rules : replace_rules(rules).rev = ruleStore.rev + 1
  BY DEF replace_rules
<1>1. ASSUME NEW op, NEW r \in RuleIds, SendEdit(k, op, r) PROVE Flow'
  BY <1>0, <1>1, SentFlow
<1>2. CASE RefuseEdit(k) \/ StoreRefuses(k)
  <2>1. /\ edits[k].pc = "sent" /\ Goes(k, "reply")
        /\ UNCHANGED <<ruleStore, shownRev, hints, view, operation, fetch, trailing, silent>>
    BY <1>2 DEF RefuseEdit, StoreRefuses, Enters
  <2>2. "reply" \in EditPcs \ {"done"} /\ ~Telling(k) /\ ~Deleting(k) /\ Moved(k, "reply")
    BY <1>g, <2>1 DEF EditPcs, Telling, Deleting
  <2>3. InOrder'
    BY <1>0, <2>1, OrderSame
  <2> QED BY <1>0, <1>h, <2>1, <2>2, <2>3, QuietFlow
<1>3. CASE CommitEdit(k)
  <2>1. /\ edits[k].pc = "sent" /\ ruleStore'.rev = ruleStore.rev + 1 /\ shownRev' = ruleStore'.rev
        /\ UNCHANGED <<hints, view, operation, fetch, trailing, silent>>
        /\ \E pc \in {"reconcile", "hint"} : Goes(k, pc)
    BY <1>3, <1>r DEF CommitEdit, Enters
  <2>2. PICK pc \in {"reconcile", "hint"} : Goes(k, pc)
    BY <2>1
  <2>3. pc \in EditPcs \ {"done"} /\ Moved(k, pc)
    BY <1>g, <2>1, <2>2 DEF EditPcs
  <2>4. InOrder'
    BY <1>0, <2>1, OrderSame
  <2> QED BY <1>0, <2>1, <2>3, <2>4, NewRevFlow
<1>4. CASE EditReconciles(k)
  <2>1. /\ edits[k].pc = "reconcile" /\ Goes(k, "hint")
        /\ UNCHANGED <<ruleStore, shownRev, hints, view, operation, fetch, trailing, silent>>
    BY <1>4 DEF EditReconciles
  <2>2. "hint" \in EditPcs \ {"done"} /\ ~Deleting(k) /\ Moved(k, "hint")
    BY <1>g, <2>1 DEF EditPcs, Deleting
  <2>3. InOrder'
    BY <1>0, <2>1, OrderSame
  <2> QED BY <1>0, <1>h, <2>1, <2>2, <2>3, QuietFlow
<1>5. CASE EditHints(k)
  <2>1. /\ edits[k].pc = "hint" /\ Goes(k, "snapshot") /\ hints' = Append(hints, Hint(shownRev, FALSE))
        /\ UNCHANGED <<ruleStore, shownRev, view, operation, fetch, trailing, silent>>
    BY <1>5 DEF EditHints, emit_collection_hint
  <2>2. "snapshot" \in EditPcs \ {"done"} /\ ~Deleting(k) /\ Moved(k, "snapshot")
    BY <1>g, <2>1 DEF EditPcs, Deleting
  <2>3. PICK s \in Nat : s = shownRev
    BY <1>0
  <2>4. hints' = Append(hints, Hint(s, FALSE)) /\ shownRev' = s /\ shownRev <= s
    BY <1>0, <2>1, <2>3
  <2>5. /\ InOrder' /\ \E i \in 1..Len(hints') : hints'[i].rev = s
        /\ HintsStay
    <3>1. /\ InOrder' /\ \E i \in 1..Len(hints') : hints'[i].rev = s
          /\ \A v : (\E i \in 1..Len(hints) : hints[i].rev = v) => \E i \in 1..Len(hints') : hints'[i].rev = v
      BY <1>0, <2>1, <2>3, <2>4, OrderSent
    <3> QED BY <3>1 DEF HintsStay
  <2> QED BY <1>0, <2>1, <2>2, <2>3, <2>5, QuietFlow
<1>6. CASE EditSnapshots(k)
  BY <1>0, <1>6, SnapshotFlow
<1>7. CASE DeleteCommits(k)
  <2>1. /\ edits[k].pc = "sent" /\ ruleStore'.rev = ruleStore.rev + 1
        /\ UNCHANGED <<shownRev, hints, view, operation, fetch, trailing, silent>>
        /\ \E pc \in {"remove", "removed"} : Goes(k, pc)
    BY <1>7, <1>r DEF DeleteCommits, Enters
  <2>2. PICK pc \in {"remove", "removed"} : Goes(k, pc)
    BY <2>1
  <2>3. pc \in EditPcs \ {"done"} /\ Moved(k, pc)
    BY <1>g, <2>1, <2>2 DEF EditPcs
  <2>4. InOrder'
    BY <1>0, <2>1, OrderSame
  <2> QED BY <1>0, <2>1, <2>2, <2>3, <2>4, NewRevFlow
<1>8. CASE DeleteRemoves(k)
  <2>1. /\ edits[k].pc = "remove" /\ Goes(k, "removed")
        /\ UNCHANGED <<ruleStore, shownRev, hints, view, operation, fetch, trailing, silent>>
    BY <1>8 DEF DeleteRemoves
  <2>2. "removed" \in EditPcs \ {"done"} /\ Moved(k, "removed")
    BY <1>g, <2>1 DEF EditPcs
  <2>3. InOrder'
    BY <1>0, <2>1, OrderSame
  <2> QED BY <1>0, <1>h, <2>1, <2>2, <2>3, QuietFlow
<1>9. CASE DeleteDone(k)
  <2>1. /\ edits[k].pc = "removed" /\ Goes(k, "hint") /\ shownRev' = ruleStore.rev
        /\ UNCHANGED <<ruleStore, hints, view, operation, fetch, trailing, silent>>
    BY <1>9 DEF DeleteDone
  <2>2. "hint" \in EditPcs \ {"done"} /\ Moved(k, "hint")
    BY <1>g, <2>1 DEF EditPcs
  <2>3. InOrder'
    BY <1>0, <2>1, OrderSame
  <2> QED BY <1>0, <1>h, <2>1, <2>2, <2>3, QuietFlow
<1>10. CASE DeleteRollsBack(k)
  <2>1. /\ edits[k].pc = "remove" /\ Goes(k, "reply") /\ ruleStore'.rev = ruleStore.rev + 1
        /\ shownRev' = ruleStore'.rev /\ hints' = Append(hints, Hint(shownRev', FALSE))
        /\ UNCHANGED <<view, operation, fetch, trailing, silent>>
    BY <1>10, <1>r DEF DeleteRollsBack
  <2>2. "reply" \in EditPcs \ {"done"} /\ Moved(k, "reply")
    BY <1>g, <2>1 DEF EditPcs
  <2>3. PICK s \in Nat : s = ruleStore.rev + 1
    BY <1>0
  <2>4. hints' = Append(hints, Hint(s, FALSE)) /\ shownRev' = s /\ shownRev <= s /\ ruleStore'.rev = s
    BY <1>0, <2>1, <2>3
  <2>5. InOrder' /\ \E i \in 1..Len(hints') : hints'[i].rev = s
    BY <1>0, <2>1, <2>4, OrderSent
  <2> QED BY <1>0, <2>1, <2>2, <2>4, <2>5, NewRevFlow
<1>11. CASE RollbackFails(k)
  <2>1. /\ edits[k].pc = "remove" /\ Goes(k, "reply") /\ silent' = TRUE
        /\ UNCHANGED <<ruleStore, shownRev, hints, view, operation, fetch, trailing>>
    BY <1>11 DEF RollbackFails
  <2>2. Moved(k, "reply")
    BY <1>g, <2>1 DEF EditPcs
  <2>3. InOrder'
    BY <1>0, <2>1, OrderSame
  <2>4. /\ InFlight' = InFlight
        /\ \A j \in InFlight' : j \in InFlight /\ SameEdit(edits'[j], edits[j])
    BY <1>0, <2>2, InFlightFacts DEF Moved, SameEdit
  <2>5. Answers'
    BY <2>1, <2>4, AnswersMoved DEF Flow
  <2>6. ShownLags' /\ Informed' /\ Waits'
    BY <2>1, <2>4 DEF ShownLags, Informed, Waits, Flow
  <2> QED BY <2>3, <2>5, <2>6 DEF Flow
<1>12. CASE EditReturns(k)
  BY <1>0, <1>12, ReturnFlow
<1> QED BY <1>1, <1>2, <1>3, <1>4, <1>5, <1>6, <1>7, <1>8, <1>9, <1>10, <1>11, <1>12 DEF EditStep

\* A hint that the registry sends, or that the throttle swallows.
LEMMA RegistryFlow ==
  ASSUME Typed, Versions, Flow, runtime_hint \/ UNCHANGED hints,
         UNCHANGED <<ruleStore, shownRev, edits, view, operation, fetch, trailing, silent>>
  PROVE  Flow'
<1>0. ShownLags /\ InOrder /\ Answers /\ Informed /\ Waits /\ InFlight' = InFlight /\ shownRev \in Nat
  BY RevFacts DEF Flow, InFlight
<1>1. InOrder' /\ HintsStay
  <2>1. CASE runtime_hint
    <3>1. PICK s \in Nat : s = shownRev
      BY <1>0
    <3>2. hints' = Append(hints, Hint(s, TRUE)) /\ shownRev' = s /\ shownRev <= s
      BY <2>1, <3>1 DEF runtime_hint
    <3>3. /\ InOrder'
          /\ \A v : (\E i \in 1..Len(hints) : hints[i].rev = v) => \E i \in 1..Len(hints') : hints'[i].rev = v
      BY <1>0, <3>2, OrderSent
    <3> QED BY <3>3 DEF HintsStay
  <2>2. CASE UNCHANGED hints
    BY <1>0, <2>2 DEF InOrder, HintsStay
  <2> QED BY <2>1, <2>2
<1>2. ShownLags'
  BY <1>0 DEF ShownLags, Deleting
<1>3. Answers'
  BY <1>0 DEF Answers
<1>4. Informed'
  <2>1. (\E i \in 1..Len(hints) : hints[i].rev = ruleStore.rev)
           => \E i \in 1..Len(hints') : hints'[i].rev = ruleStore.rev
    BY <1>1 DEF HintsStay
  <2> QED BY <1>0, <2>1 DEF Informed, Telling, Fetches, isCurrent
<1>5. Waits'
  BY <1>0 DEF Waits
<1> QED BY <1>1, <1>2, <1>3, <1>4, <1>5 DEF Flow

\* A hint arrives: it is old, it waits, or a fetch is begun.
LEMMA HintFlow ==
  ASSUME Typed, Versions, Flow, handleHint
  PROVE  Flow'
<1>0. /\ AppOK /\ ShownLags /\ InOrder /\ Answers /\ Informed /\ Waits
      /\ UNCHANGED <<ruleStore, shownRev, edits, view, operation, silent>> /\ InFlight' = InFlight
  BY DEF Flow, Typed, handleHint, InFlight
<1>1. PICK h \in HintOf : h = Head(hints)
  BY <1>0, HintTaken DEF handleHint
<1>2. /\ hints # <<>> /\ hints' = Tail(hints)
      /\ \/ ~Newer(h, view) /\ UNCHANGED <<fetch, trailing>>
         \/ Newer(h, view) /\ (InFlight # {} \/ fetch # NoFetch) /\ trailing' = h /\ fetch' = fetch
         \/ Newer(h, view) /\ InFlight = {} /\ fetch = NoFetch /\ fetch' = Asked(h) /\ trailing' = trailing
  BY <1>1 DEF handleHint
<1>3. /\ h = hints[1] /\ 1 \in 1..Len(hints) /\ Len(hints') \in Nat
      /\ \A i \in 1..Len(hints') : hints'[i] = hints[i + 1] /\ i + 1 \in 1..Len(hints)
      /\ \A i \in 1..Len(hints) : i = 1 \/ (i - 1 \in 1..Len(hints') /\ hints'[i - 1] = hints[i])
  <2>1. Len(hints') \in Nat
    BY <1>0, <1>2, HintTaken
  <2> QED BY <1>0, <1>1, <1>2, <2>1, HintTaken
<1>4. /\ h.rev \in Nat /\ h.rev # 0 /\ h.rev <= shownRev /\ trailing.rev <= h.rev
      /\ fetch # NoFetch => fetch.hint.rev <= h.rev
      /\ \A i \in 1..Len(hints) : h.rev <= hints[i].rev
  BY <1>0, <1>3, RevFacts DEF InOrder
<1>5. /\ Asked(h).hint = h /\ Asked(h).oper = operation /\ Asked(h).st = "asked" /\ Asked(h) # NoFetch
  <2>1. Asked(h).st = "asked" /\ NoFetch.st = "none"
    BY DEF Asked, NoFetch
  <2> QED BY <2>1 DEF Asked
<1>6. /\ trailing' = trailing \/ trailing' = h
      /\ fetch' = fetch \/ (fetch' = Asked(h) /\ fetch = NoFetch /\ InFlight = {} /\ trailing' = trailing)
  BY <1>2
<1>7. ShownLags'
  BY <1>0 DEF ShownLags, Deleting
<1>8. InOrder'
  <2>1. \A i, j \in 1..Len(hints') : i <= j => hints'[i].rev <= hints'[j].rev
    <3>1. ASSUME NEW i \in 1..Len(hints'), NEW j \in 1..Len(hints'), i <= j
          PROVE  hints'[i].rev <= hints'[j].rev
      <4>1. i + 1 \in 1..Len(hints) /\ j + 1 \in 1..Len(hints) /\ i + 1 <= j + 1
        BY <1>3, <3>1
      <4> QED BY <1>0, <1>3, <4>1 DEF InOrder
    <3> QED BY <3>1
  <2>2. ASSUME NEW i \in 1..Len(hints')
        PROVE  /\ trailing'.rev <= hints'[i].rev /\ hints'[i].rev <= shownRev'
               /\ hints'[i].rev # 0
               /\ fetch' # NoFetch => fetch'.hint.rev <= hints'[i].rev
    <3>1. i + 1 \in 1..Len(hints) /\ hints'[i] = hints[i + 1]
      BY <1>3
    <3>2. /\ trailing.rev <= hints'[i].rev /\ hints'[i].rev <= shownRev /\ hints'[i].rev # 0
          /\ fetch # NoFetch => fetch.hint.rev <= hints'[i].rev
          /\ h.rev <= hints'[i].rev
      BY <1>0, <1>4, <3>1 DEF InOrder
    <3> QED BY <1>0, <1>5, <1>6, <3>2
  <2>3. trailing'.rev <= shownRev' /\ (trailing'.rev = 0 => trailing' = NoHint)
    BY <1>0, <1>4, <1>6 DEF InOrder
  <2>4. fetch' # NoFetch => fetch'.hint.rev \in 1..shownRev'
    <3>1. shownRev \in Nat
      BY RevFacts
    <3> QED BY <1>0, <1>4, <1>5, <1>6, <3>1 DEF InOrder
  <2>5. fetch' # NoFetch /\ trailing' # NoHint => fetch'.hint.rev <= trailing'.rev
    <3>1. CASE fetch' = fetch
      BY <1>0, <1>4, <1>6, <3>1 DEF InOrder
    <3>2. CASE fetch = NoFetch /\ InFlight = {} /\ trailing' = trailing
      BY <1>0, <3>2 DEF Waits
    <3> QED BY <1>6, <3>1, <3>2
  <2> QED BY <2>1, <2>2, <2>3, <2>4, <2>5 DEF InOrder
<1>9. Answers'
  <2>1. \A k \in InFlight' : /\ edits'[k].oper <= operation'
                             /\ edits'[k].oper = operation' => view'.rev = edits'[k].rev
                             /\ edits'[k].rev <= edits'[k].answer.rev
                             /\ \A j \in InFlight' : edits'[j].oper = edits'[k].oper => j = k
    BY <1>0 DEF Answers
  <2>2. CASE fetch' = fetch
    BY <1>0, <2>1, <2>2 DEF Answers
  <2>3. CASE fetch' = Asked(h) /\ InFlight = {}
    <3>1. operation \in Nat
      BY <1>0 DEF AppOK
    <3> QED BY <1>0, <1>5, <2>1, <2>3, <3>1 DEF Answers
  <2> QED BY <1>6, <2>2, <2>3
<1>10. Informed'
  <2>1. CASE silent \/ view.rev = ruleStore.rev \/ \E k \in InFlight : Telling(k)
    BY <1>0, <2>1 DEF Informed, Telling
  <2>2. ASSUME NEW i \in 1..Len(hints), hints[i].rev = ruleStore.rev PROVE Informed'
    <3>1. CASE i = 1
      <4>1. h.rev = ruleStore.rev
        BY <1>3, <2>2, <3>1
      <4>2. CASE ~Newer(h, view)
        <5>1. view.rev \in Nat /\ view.rev <= ruleStore.rev
          BY RevFacts
        <5>2. view.rev = ruleStore.rev
          BY <1>4, <4>1, <4>2, <5>1 DEF Newer
        <5> QED BY <2>1, <5>2
      <4>3. CASE trailing' = h
        BY <1>0, <4>1, <4>3 DEF Informed
      <4>4. CASE fetch' = Asked(h)
        BY <1>0, <1>5, <4>1, <4>4 DEF Informed, Fetches
      <4> QED BY <1>2, <4>2, <4>3, <4>4
    <3>2. CASE i # 1
      <4>1. i - 1 \in 1..Len(hints') /\ hints'[i - 1].rev = ruleStore'.rev
        BY <1>0, <1>3, <2>2, <3>2
      <4> QED BY <4>1 DEF Informed
    <3> QED BY <3>1, <3>2
  <2>3. CASE trailing.rev = ruleStore.rev
    <3>1. trailing.rev = h.rev \/ trailing' = trailing
      <4>1. shownRev <= ruleStore.rev /\ shownRev \in Nat /\ ruleStore.rev \in Nat
        BY RevFacts
      <4> QED BY <1>4, <2>3, <4>1
    <3>2. h.rev = ruleStore.rev => Informed'
      BY <1>3, <2>2
    <3>3. trailing' = trailing => Informed'
      BY <1>0, <2>3 DEF Informed
    <3> QED BY <2>3, <3>1, <3>2, <3>3
  <2>4. CASE Fetches
    <3>1. fetch' = fetch
      BY <1>6, <2>4 DEF Fetches
    <3> QED BY <1>0, <2>4, <3>1 DEF Informed, Fetches, isCurrent
  <2> QED BY <1>0, <2>1, <2>2, <2>3, <2>4 DEF Informed
<1>11. Waits'
  <2>1. CASE InFlight = {} /\ fetch = NoFetch /\ fetch' = NoFetch
    <3>1. trailing' = trailing
      BY <1>2, <2>1
    <3> QED BY <1>0, <2>1, <3>1 DEF Waits
  <2>2. CASE InFlight # {} \/ fetch # NoFetch \/ fetch' # NoFetch
    BY <1>0, <1>5, <1>6, <2>2 DEF Waits
  <2> QED BY <2>1, <2>2
<1> QED BY <1>7, <1>8, <1>9, <1>10, <1>11 DEF Flow

\* A fetch is answered: with the newest revision.
LEMMA ServedFlow ==
  ASSUME Typed, Versions, Flow, FetchServed
  PROVE  Flow'
<1>0. /\ AppOK /\ ShownLags /\ InOrder /\ Answers /\ Informed /\ Waits
      /\ UNCHANGED <<ruleStore, shownRev, edits, hints, view, operation, trailing, silent>>
      /\ InFlight' = InFlight
  BY DEF Flow, Typed, FetchServed, InFlight
<1>1. fetch \in [st : {"asked", "answered"}, oper : Nat, hint : HintOf, snap : Shown]
  BY <1>0 DEF FetchServed, AppOK, FetchOf, NoFetch
<1>2. /\ fetch # NoFetch /\ fetch'.st = "answered" /\ fetch'.oper = fetch.oper /\ fetch'.hint = fetch.hint
      /\ fetch'.snap.rev = ruleStore.rev /\ fetch' # NoFetch
  <2>1. fetch' = [fetch EXCEPT !.st = "answered", !.snap = snapshot_inner]
    BY DEF FetchServed
  <2>2. PICK s : s = snapshot_inner
    OBVIOUS
  <2>3. fetch'.st = "answered" /\ fetch'.oper = fetch.oper /\ fetch'.hint = fetch.hint /\ fetch'.snap = s
    BY <1>1, <2>1, <2>2
  <2>4. s.rev = ruleStore.rev
    BY <2>2 DEF snapshot_inner
  <2>5. \A f : f.st # "none" => f # NoFetch
    BY DEF NoFetch
  <2> QED BY <1>1, <2>3, <2>4, <2>5
<1>3. ShownLags'
  BY <1>0 DEF ShownLags, Deleting
<1>4. InOrder'
  BY <1>0, <1>2 DEF InOrder
<1>5. Answers'
  <2>1. view.rev <= ruleStore.rev
    BY RevFacts
  <2> QED BY <1>0, <1>2, <2>1 DEF Answers
<1>6. Informed'
  BY <1>0, <1>2 DEF Informed, Telling, Fetches, isCurrent
<1>7. Waits'
  BY <1>2 DEF Waits
<1> QED BY <1>3, <1>4, <1>5, <1>6, <1>7 DEF Flow

\* A fetch returns: its answer is taken if it is not overtaken, else its hint waits again.
LEMMA FetchFlow ==
  ASSUME Typed, Versions, Flow, FetchReturns
  PROVE  Flow'
<1>0. /\ AppOK /\ ShownLags /\ InOrder /\ Answers /\ Informed /\ Waits
      /\ UNCHANGED <<ruleStore, shownRev, edits, hints, operation, silent>>
      /\ InFlight' = InFlight
  BY DEF Flow, Typed, FetchReturns, InFlight
<1>1. /\ fetch \in [st : {"asked", "answered"}, oper : Nat, hint : HintOf, snap : Shown]
      /\ fetch.st = "answered" /\ fetch # NoFetch
  BY <1>0 DEF FetchReturns, AppOK, FetchOf, NoFetch
<1>2. /\ view' = view \/ (fetch.oper = operation /\ view' = fetch.snap)
      /\ fetch.oper = operation => view' = fetch.snap
      /\ view' \in Shown /\ view.rev <= view'.rev /\ view'.rev <= ruleStore.rev
  <2>1. view' = IF fetch.oper = operation THEN fetch.snap ELSE view
    BY DEF FetchReturns, isCurrent
  <2>2. view.rev \in Nat /\ view.rev <= ruleStore.rev /\ fetch.snap.rev <= ruleStore.rev
    BY <1>1, RevFacts
  <2>3. fetch.oper = operation => view.rev <= fetch.snap.rev
    BY <1>0, <1>1 DEF Answers
  <2>4. view \in Shown /\ fetch.snap \in Shown
    BY <1>0, <1>1 DEF AppOK
  <2> QED BY <2>1, <2>2, <2>3, <2>4
<1>3. PICK h \in HintOf : h = IF trailing # NoHint \/ isCurrent(fetch.oper) THEN trailing ELSE fetch.hint
  BY <1>0, <1>1 DEF AppOK
<1>4. PICK v \in Shown : view' = v
  BY <1>2
<1>5. PICK b : b = (InFlight # {})
  OBVIOUS
<1>6. Flushes(h, v, b)
  BY <1>3, <1>4, <1>5 DEF FetchReturns
<1>7. b => InFlight' # {}
  BY <1>0, <1>5
<1>8. ~b => InFlight' = {}
  BY <1>0, <1>5
<1>9. /\ InOrder' /\ Waits' /\ (h.rev = ruleStore.rev => Informed')
      /\ fetch' # NoFetch => fetch'.oper = operation /\ fetch'.st = "asked" /\ InFlight' = {}
  <2>1. h = trailing \/ (fetch # NoFetch /\ h = fetch.hint)
    BY <1>1, <1>3
  <2> QED BY <1>0, <1>2, <1>4, <1>6, <1>7, <1>8, <2>1, Flushed
<1>10. ShownLags'
  BY <1>0 DEF ShownLags, Deleting
<1>11. Answers'
  <2>1. \A k \in InFlight' : /\ edits'[k].oper <= operation'
                             /\ edits'[k].oper = operation' => view'.rev = edits'[k].rev
                             /\ edits'[k].rev <= edits'[k].answer.rev
                             /\ \A j \in InFlight' : edits'[j].oper = edits'[k].oper => j = k
    BY <1>0, <1>1, <1>2 DEF Answers
  <2>2. operation' = operation /\ operation \in Nat
    BY <1>0 DEF AppOK
  <2> QED BY <1>9, <2>1, <2>2 DEF Answers
<1>12. Informed'
  <2>1. CASE silent \/ \E k \in InFlight : Telling(k)
    BY <1>0, <2>1 DEF Informed, Telling
  <2>2. CASE view.rev = ruleStore.rev
    <3>1. view'.rev = ruleStore.rev
      BY <1>2, <2>2, RevFacts DEF Shown
    <3> QED BY <1>0, <3>1 DEF Informed
  <2>3. CASE \E i \in 1..Len(hints) : hints[i].rev = ruleStore.rev
    BY <1>0, <2>3 DEF Informed
  <2>4. CASE trailing.rev = ruleStore.rev
    <3>1. ruleStore.rev \in Nat /\ ruleStore.rev # 0
      BY DEF Typed, StoreOK
    <3>2. trailing # NoHint
      BY <2>4, <3>1 DEF NoHint
    <3> QED BY <1>3, <1>9, <2>4, <3>2
  <2>5. CASE Fetches
    <3>1. fetch.hint.rev = ruleStore.rev /\ (fetch.oper = operation => fetch.snap.rev = ruleStore.rev)
      BY <1>1, <2>5 DEF Fetches, isCurrent
    <3>2. CASE fetch.oper = operation
      BY <1>0, <1>2, <3>1, <3>2 DEF Informed
    <3>3. CASE fetch.oper # operation
      <4>1. trailing # NoHint => trailing.rev = ruleStore.rev
        <5>1. /\ shownRev <= ruleStore.rev /\ shownRev \in Nat /\ ruleStore.rev \in Nat
              /\ trailing.rev \in Nat
          BY RevFacts
        <5>2. trailing # NoHint => ruleStore.rev <= trailing.rev /\ trailing.rev <= shownRev
          BY <1>0, <1>1, <3>1 DEF InOrder
        <5> QED BY <5>1, <5>2
      <4>2. h.rev = ruleStore.rev
        BY <1>3, <3>1, <3>3, <4>1 DEF isCurrent
      <4> QED BY <1>9, <4>2
    <3> QED BY <3>2, <3>3
  <2> QED BY <1>0, <2>1, <2>2, <2>3, <2>4, <2>5 DEF Informed
<1> QED BY <1>9, <1>10, <1>11, <1>12 DEF Flow

-----------------------------------------------------------------------------
(* Rules: the theorems.                                                    *)

\* A connection is up, and nothing is under way.
LEMMA RulesStart ==
  ASSUME RulesInit
  PROVE  RulesInv
<1>1. PICK held \in {S \in SUBSET RuleIds : Cardinality(S) <= RuleLimit} :
        /\ ruleStore = [rev |-> 1, rules |-> [r \in RuleIds |-> IF r \in held THEN Earlier ELSE NoRule]]
        /\ conn = [gen |-> 1, est |-> TRUE, kids |-> [r \in RuleIds |->
                     IF r \in held THEN [gen |-> 1, st |-> "on", def |-> Earlier] ELSE NoChild]]
  BY DEF RulesInit
<1>2. /\ shownRev = 1 /\ ruleGate = NoEdit /\ edits = [k \in Edits |-> Unsent] /\ hints = <<>>
      /\ view = [rev |-> 1, rules |-> ruleStore.rules, cgen |-> 1, rgen |-> Gens]
      /\ operation = 0 /\ fetch = NoFetch /\ trailing = NoHint /\ silent = FALSE
  BY DEF RulesInit
<1>3. Earlier \in Definition /\ NoRule \in Definition /\ Earlier # NoRule
  BY RulesAssumption DEF Earlier, Definition, NoRule
<1>4. ruleStore.rules \in RuleSets /\ ruleStore.rev = 1
  <2>1. ruleStore.rules = [r \in RuleIds |-> IF r \in held THEN Earlier ELSE NoRule]
    BY <1>1
  <2>2. ruleStore.rules \in [RuleIds -> Definition]
    BY <1>3, <2>1
  <2>3. RulesOf(ruleStore.rules) = held
    BY <1>3, <2>1 DEF RulesOf
  <2> QED BY <1>1, <2>2, <2>3 DEF RuleSets
<1>5. conn.kids \in [RuleIds -> KidOf]
  <2>1. NoChild \in KidOf /\ [gen |-> 1, st |-> "on", def |-> Earlier] \in KidOf
    BY <1>3 DEF NoChild, KidOf
  <2>2. conn.kids = [r \in RuleIds |->
          IF r \in held THEN [gen |-> 1, st |-> "on", def |-> Earlier] ELSE NoChild]
    BY <1>1
  <2> QED BY <2>1, <2>2
<1>6. StoreOK
  <2>1. conn = [gen |-> 1, est |-> TRUE, kids |-> conn.kids]
    BY <1>1
  <2>2. ruleStore = [rev |-> 1, rules |-> ruleStore.rules]
    BY <1>1
  <2>3. ruleStore \in [rev : Nat \ {0}, rules : RuleSets]
    <3>1. 1 \in Nat \ {0}
      OBVIOUS
    <3> QED BY <1>4, <2>2, <3>1
  <2>4. conn \in [gen : Nat, est : BOOLEAN, kids : [RuleIds -> KidOf]]
    <3>1. PICK kids \in [RuleIds -> KidOf] : kids = conn.kids
      BY <1>5
    <3>2. conn = [gen |-> 1, est |-> TRUE, kids |-> kids]
      BY <2>1, <3>1
    <3>3. [gen |-> 1, est |-> TRUE, kids |-> kids] \in [gen : Nat, est : BOOLEAN, kids : [RuleIds -> KidOf]]
      OBVIOUS
    <3> QED BY <3>2, <3>3
  <2>5. shownRev \in 1..ruleStore.rev
    BY <1>2, <1>4
  <2> QED BY <2>3, <2>4, <2>5 DEF StoreOK
<1>7. AppOK
  <2>1. Gens \in [RuleIds -> Nat]
    BY <1>5 DEF Gens, KidOf
  <2>2. view \in Shown
    BY <1>2, <1>4, <2>1 DEF Shown
  <2>3. NoHint \in HintOf /\ NoFetch \in FetchOf
    BY DEF NoHint, HintOf, FetchOf
  <2>4. ruleGate \in 0..MaxEdits
    BY <1>2, RulesAssumption DEF NoEdit
  <2> QED BY <1>2, <2>2, <2>3, <2>4 DEF AppOK
<1>8. InFlight = {}
  BY <1>2 DEF InFlight, Unsent
<1>9. Versions
  BY <1>2, <1>4, <1>8 DEF Versions, VersionOf
<1>10. OnIsStored
  BY <1>1, <1>3 DEF OnIsStored, NoChild
<1>11. Deletes /\ Waits
  BY <1>2, <1>8 DEF Deletes, Waits
<1>12. ShownLags /\ Informed
  BY <1>2, <1>4 DEF ShownLags, Informed
<1>13. InOrder /\ Answers
  BY <1>2, <1>8 DEF InOrder, Answers, NoHint
<1> QED BY <1>6, <1>7, <1>9, <1>10, <1>11, <1>12, <1>13 DEF RulesInv

\* Every step keeps it.
LEMMA RulesStep ==
  ASSUME RulesInv, [RulesNext]_ruleVars
  PROVE  RulesInv'
<1>0. Typed /\ Kept /\ Flow /\ Versions
  BY DEF RulesInv, Typed, Kept, Flow
<1>1. CASE RulesNext
  <2>1. Typed'
    BY <1>0, <1>1, RulesTyped
  <2>2. Kept'
    BY <1>0, <1>1, EditKept, OtherKept DEF RulesNext
  <2>3. Flow'
    <3>1. ASSUME NEW k \in Edits, EditStep(k) PROVE Flow'
      BY <1>0, <3>1, EditFlow
    <3>2. CASE (\E r \in RuleIds : RuleFails(r)) \/ ConnectionClears \/ ConnectionMade
      <4>1. /\ runtime_hint \/ UNCHANGED hints
            /\ UNCHANGED <<ruleStore, shownRev, edits, view, operation, fetch, trailing, silent>>
        BY <3>2 DEF RuleFails, ConnectionClears, ConnectionMade
      <4> QED BY <1>0, <4>1, RegistryFlow
    <3>3. CASE handleHint
      BY <1>0, <3>3, HintFlow
    <3>4. CASE FetchServed
      BY <1>0, <3>4, ServedFlow
    <3>5. CASE FetchReturns
      BY <1>0, <3>5, FetchFlow
    <3> QED BY <1>1, <3>1, <3>2, <3>3, <3>4, <3>5 DEF RulesNext
  <2> QED BY <2>1, <2>2, <2>3 DEF RulesInv, Typed, Kept, Flow
<1>2. CASE UNCHANGED ruleVars
  <2>1. InFlight' = InFlight
    BY <1>2 DEF ruleVars, InFlight
  <2>2. StoreOK' /\ AppOK'
    BY <1>2 DEF ruleVars, RulesInv, StoreOK, AppOK
  <2>3. Versions' /\ OnIsStored' /\ Deletes'
    BY <1>2, <2>1 DEF ruleVars, RulesInv, Versions, VersionOf, OnIsStored, Deletes, Deleting
  <2>4. ShownLags' /\ InOrder' /\ Answers'
    BY <1>2, <2>1 DEF ruleVars, RulesInv, ShownLags, Deleting, InOrder, Answers
  <2>5. Informed' /\ Waits'
    BY <1>2, <2>1 DEF ruleVars, RulesInv, Informed, Telling, Fetches, isCurrent, Waits
  <2> QED BY <2>2, <2>3, <2>4, <2>5 DEF RulesInv
<1> QED BY <1>1, <1>2

\* The inductive invariant: revisions stand for their rules, what runs is stored, a
\* delete under way has its gate, and whoever has yet to learn of the newest revision
\* will be told (the commands of manager.rs, the adapter's hints and fetches).
THEOREM RulesInvariant == RulesSpec => []RulesInv
<1>1. RulesInit => RulesInv
  BY RulesStart
<1>2. RulesInv /\ [RulesNext]_ruleVars => RulesInv'
  BY RulesStep
<1> QED BY <1>1, <1>2, PTL DEF RulesSpec

\* Rule edits, the running forwards and the webview stay in step, for any number of
\* rules and edits: a scope's rules never pass the limit, a running forward serves a
\* stored definition, and the webview ends up showing what is stored.
THEOREM RulesKeepInStep == RulesSpec => []RulesInStep
<1>1. ASSUME RulesInv PROVE RulesInStep
  <2>0. StoreOK /\ AppOK /\ Typed /\ Versions /\ OnIsStored /\ Informed /\ Waits
    BY <1>1 DEF RulesInv, Typed
  <2>1. RulesTypeOK
    <3>1. ruleStore.rules \in RuleSets /\ Stored = RulesOf(ruleStore.rules)
      BY <2>0 DEF StoreOK, Stored, RulesOf
    <3>2. ruleStore.rules \in [RuleIds -> 0..(MaxEdits + 1)] /\ Cardinality(Stored) <= RuleLimit
      BY <3>1 DEF RuleSets, Definition
    <3>3. fetch.st \in {"none", "asked", "answered"}
      BY <2>0 DEF AppOK, FetchOf, NoFetch
    <3> QED BY <2>0, <3>2, <3>3 DEF RulesTypeOK, StoreOK, AppOK
  <2>2. RunningIsStored
    BY <2>0 DEF RunningIsStored, OnIsStored
  <2>3. ViewCatchesUp
    <3>1. ASSUME InFlight = {}, fetch = NoFetch, hints = <<>>, ~silent
          PROVE  view.rev = ruleStore.rev /\ view.rules = ruleStore.rules
      <4>1. trailing = NoHint /\ ruleStore.rev # 0
        BY <2>0, <3>1 DEF Waits, StoreOK
      <4>2. view.rev = ruleStore.rev
        BY <2>0, <3>1, <4>1 DEF Informed, Fetches, NoHint
      <4> QED BY <2>0, <4>2 DEF Versions, VersionOf
    <3> QED BY <3>1 DEF ViewCatchesUp
  <2> QED BY <2>1, <2>2, <2>3 DEF RulesInStep
<1> QED BY <1>1, RulesInvariant, PTL

\* An edit that commits replaces exactly the rules its author was shown: its revision is
\* the store's, and a revision stands for its rules (check_rules_revision).
THEOREM EditsSeeWhatTheyReplace == RulesSpec => EditsReplaceWhatTheySaw
<1> DEFINE Sees == \A k \in Edits : (edits[k].pc = "sent" /\ ruleStore' # ruleStore
                                       /\ edits'[k].pc \notin {"sent", "unsent"})
                                     => edits[k].seen = ruleStore.rules
<1>1. ASSUME RulesInv, [RulesNext]_ruleVars PROVE [Sees]_ruleVars
  <2>0. AppOK /\ Versions /\ Edits \subseteq Nat
    BY <1>1, InFlightFacts DEF RulesInv
  <2>1. ASSUME NEW k \in Edits, edits[k].pc = "sent", ruleStore' # ruleStore,
               edits'[k].pc \notin {"sent", "unsent"}
        PROVE  edits[k].seen = ruleStore.rules
    <3>1. PICK j \in Edits : CommitEdit(j) \/ DeleteCommits(j) \/ DeleteRollsBack(j)
      <4>1. RulesNext
        BY <1>1, <2>1 DEF ruleVars
      <4>2. PICK j \in Edits : EditStep(j)
        BY <2>1, <4>1 DEF RulesNext, RuleFails, ConnectionClears, ConnectionMade, handleHint,
                          FetchServed, FetchReturns
      <4> QED BY <2>1, <4>2 DEF EditStep, SendEdit, RefuseEdit, StoreRefuses, EditReconciles, EditHints,
                                EditSnapshots, DeleteRemoves, DeleteDone, RollbackFails, EditReturns
    <3>2. j = k
      <4>1. \E pc : Goes(j, pc)
        BY <3>1 DEF CommitEdit, DeleteCommits, DeleteRollsBack
      <4> QED BY <2>0, <2>1, <4>1 DEF Goes, AppOK
    <3>3. CommitEdit(k) \/ DeleteCommits(k)
      BY <2>1, <3>1, <3>2 DEF DeleteRollsBack
    <3>4. k \in InFlight /\ edits[k] \in EditOf
      BY <2>0, <2>1, InFlightFacts
    <3>5. ruleStore.rev = edits[k].rev
      BY <3>3, <3>4 DEF CommitEdit, DeleteCommits, Checks, CreateChecks, UpdateChecks, DeleteChecks,
                        check_rules_revision, EditOf
    <3> QED BY <2>0, <3>4, <3>5 DEF Versions, VersionOf
  <2> QED BY <2>1
<1>2. RulesSpec => [][Sees]_ruleVars
  BY <1>1, RulesInvariant, PTL DEF RulesSpec
<1> QED BY <1>2 DEF EditsReplaceWhatTheySaw

-----------------------------------------------------------------------------
(* Credentials: types and the inductive invariant.                         *)

RecordOf  == [n : Nat, secret : Secrets, exp : Int, rejected : BOOLEAN]
LeaseOf   == [id : Idents, n : Nat, secret : Secrets, saved : BOOLEAN, exp : Int]
StagedOf  == [n : Nat \ {0}, secret : Secrets, id : Idents, remember : BOOLEAN]
TrustOf   == [rev : Nat, keys : SUBSET HostKeys]
TryPcs    == {"transport", "resolve", "auth", "save"}
AttemptOf == [pc : TryPcs, id : Idents, trust : TrustOf, live : LeaseOf \cup {NoLease},
              given : StagedOf \cup {NotStaged}, uses : LeaseOf \cup {NoLease}]
ChalOf    == [gen : Nat, rev : Nat, key : HostKeys, exp : Int]

CredTypes ==
  /\ profile \in Idents \cup {Absent} /\ vault \in [Idents -> RecordOf \cup {NoRec}]
  /\ quarantine \subseteq Idents /\ staged \in StagedOf \cup {NotStaged}
  /\ link \in {"down", "handshake", "up", "lost"}
  /\ attempt \in AttemptOf \cup {NoTry} /\ lease \in LeaseOf \cup {NoLease}
  /\ trusted \in TrustOf /\ serverTakes \in Secrets /\ pending \in BOOLEAN
  /\ cclock \in Nat /\ attempts \in Nat /\ stagings \in Nat

\* A session has the lease of the attempt that made it; an attempt is for the stored
\* profile, and goes on with the session's lease, or with what was typed for it.
Tries == attempt # NoTry =>
  /\ link \in {"handshake", "lost"} /\ attempt.id = profile /\ attempt.live = lease
  /\ attempt.given # NotStaged => lease = NoLease
  /\ attempt.pc \in {"auth", "save"} => /\ attempt.given # NotStaged => attempt.uses = Given
                                        /\ lease # NoLease => attempt.uses = lease
  /\ attempt.pc \in {"transport", "resolve"} => attempt.uses = NoLease
Sessions == link \in {"down", "handshake"} => lease = NoLease

\* All that is kept is of the stored profile, unless a failed cleanup was reported.
OfProfile == ~pending =>
  /\ \A i \in Idents : vault[i] # NoRec => i = profile
  /\ staged # NotStaged => staged.id = profile
  /\ attempt # NoTry => /\ attempt.given # NotStaged => attempt.given.id = profile
                        /\ attempt.uses # NoLease => attempt.uses.id = profile

\* A record's number is its own, and names the identity a lease made of it is for. While
\* nothing of the attempt's number was saved, nothing has that number.
IsSaved(l) == l # NoLease /\ l.saved
Names(l)   == IsSaved(l) => /\ l.n <= attempts /\ l.n \notin refused
                            /\ \A j \in Idents : vault[j] # NoRec /\ vault[j].n = l.n => j = l.id
Numbers ==
  /\ \A i, j \in Idents : vault[i] # NoRec /\ vault[j] # NoRec /\ vault[i].n = vault[j].n => i = j
  /\ \A i \in Idents : vault[i] # NoRec => vault[i].n <= attempts
  /\ refused \subseteq 0..attempts
  /\ Names(lease) /\ (attempt # NoTry => Names(attempt.uses))
  /\ link # "down" /\ lease = NoLease => /\ attempts \notin refused
                                         /\ \A i \in Idents : vault[i] # NoRec => vault[i].n < attempts

\* A record the server refused is marked, or its identity is in quarantine.
Refusals == \A i \in Idents : vault[i] # NoRec /\ vault[i].n \in refused => vault[i].rejected \/ i \in quarantine

\* What is staged is unused, or given to the attempt under way.
UsedOnce == /\ usedUp \subseteq 0..stagings
            /\ staged # NotStaged =>
                 /\ staged.n \in 1..stagings
                 /\ \/ staged.n \notin usedUp
                    \/ attempt # NoTry /\ link = "handshake" /\ attempt.given = staged

\* A revision stands for its keys; a challenge was issued for an endpoint without one.
Trusts == /\ \A c \in challenges : /\ c \in ChalOf /\ c.rev <= trusted.rev
                                   /\ c.rev = trusted.rev => trusted.keys = {}
          /\ attempt # NoTry => /\ attempt.trust.rev <= trusted.rev
                                /\ attempt.trust.rev = trusted.rev => attempt.trust = trusted
          /\ Cardinality(trusted.keys) <= 1

CredInv == CredTypes /\ Tries /\ Sessions /\ OfProfile /\ Numbers /\ Refusals /\ UsedOnce /\ Trusts

-----------------------------------------------------------------------------
(* Credentials: lemmas.                                                    *)

\* What stands for nothing is none of the records.
LEMMA NoneOfThem ==
  /\ NoRec \notin RecordOf /\ NoLease \notin LeaseOf /\ NotStaged \notin StagedOf /\ NoTry \notin AttemptOf
  /\ NoTry.pc = "none" /\ Absent \notin Idents
<1>1. \A r \in RecordOf : DOMAIN r = {"n", "secret", "exp", "rejected"}
  BY DEF RecordOf
<1>2. \A l \in LeaseOf : DOMAIN l = {"id", "n", "secret", "saved", "exp"}
  BY DEF LeaseOf
<1>3. DOMAIN NoRec = {"n"} /\ DOMAIN NoLease = {"n"}
  BY DEF NoRec, NoLease
<1>4. NotStaged \notin StagedOf
  BY DEF NotStaged, StagedOf
<1>5. NoTry \notin AttemptOf /\ NoTry.pc = "none"
  BY DEF NoTry, AttemptOf, TryPcs
<1>6. Absent \notin Idents
  BY CredAssumption DEF Absent
<1>7. "secret" \notin {"n"}
  OBVIOUS
<1> QED BY <1>1, <1>2, <1>3, <1>4, <1>5, <1>6, <1>7

\* An attempt moves on.
LEMMA TryMoves ==
  ASSUME NEW a \in AttemptOf, NEW pc \in TryPcs, NEW u \in LeaseOf \cup {NoLease}
  PROVE  /\ [a EXCEPT !.pc = pc, !.uses = u] \in AttemptOf
         /\ [a EXCEPT !.pc = pc, !.uses = u].pc = pc /\ [a EXCEPT !.pc = pc, !.uses = u].uses = u
         /\ [a EXCEPT !.pc = pc, !.uses = u].id = a.id /\ [a EXCEPT !.pc = pc, !.uses = u].trust = a.trust
         /\ [a EXCEPT !.pc = pc, !.uses = u].live = a.live /\ [a EXCEPT !.pc = pc, !.uses = u].given = a.given
         /\ [a EXCEPT !.pc = pc] = [a EXCEPT !.pc = pc, !.uses = a.uses]
BY DEF AttemptOf

\* Commands leave the attempt alone.
LEMMA QuietTries ==
  ASSUME CredInv, UNCHANGED <<attempt, lease>>, link' = link \/ (link = "up" /\ link' = "lost"),
         attempt # NoTry => profile' = profile
  PROVE  Tries' /\ Sessions'
<1>1. Given' = Given
  BY DEF Given, Lease
<1> QED BY <1>1 DEF CredInv, Tries, Sessions

\* The commands and the world.
Command == \/ \E i \in Idents : create_connection(i) \/ update_connection(i)
           \/ delete_connection \/ forget_credential \/ purge_scope
           \/ \E s \in Secrets, r \in BOOLEAN : load_connection_password(s, r)
           \/ \E c \in challenges : approve_connection_host(c)
           \/ SessionLost \/ Tick \/ sweep_expired \/ \E s \in Secrets : Rotates(s)

\* The stored profile is not edited while an attempt is under way.
LEMMA CommandTypes ==
  ASSUME CredInv, Command
  PROVE  CredTypes' /\ Tries' /\ Sessions'
<1>0. CredTypes /\ Tries
  BY DEF CredInv
<1>1. /\ UNCHANGED <<attempt, lease, attempts>> /\ (link' = link \/ (link = "up" /\ link' = "lost"))
      /\ profile' \in Idents \cup {Absent} /\ quarantine' \subseteq Idents
      /\ link' \in {"down", "handshake", "up", "lost"}
  BY <1>0, NoneOfThem DEF Command, create_connection, update_connection, delete_connection, ForgetAfterCommit,
     forget_credential, purge_scope, load_connection_password, approve_connection_host,
     SessionLost, Tick, sweep_expired, Rotates, CredTypes
<1>2. vault' \in [Idents -> RecordOf \cup {NoRec}]
  BY <1>0 DEF Command, create_connection, update_connection, delete_connection, ForgetAfterCommit,
     forget_credential, purge_scope, load_connection_password, approve_connection_host,
     SessionLost, Tick, sweep_expired, Rotates, CredTypes, Without
<1>3. staged' \in StagedOf \cup {NotStaged} /\ stagings' \in Nat /\ cclock' \in Nat
  BY <1>0 DEF Command, create_connection, update_connection, delete_connection, ForgetAfterCommit,
     forget_credential, purge_scope, load_connection_password, approve_connection_host,
     SessionLost, Tick, sweep_expired, Rotates, CredTypes, StagedOf
<1>4. trusted' \in TrustOf
  BY <1>0 DEF Command, create_connection, update_connection, delete_connection,
     forget_credential, purge_scope, load_connection_password, approve_connection_host,
     SessionLost, Tick, sweep_expired, Rotates,
     CredTypes, TrustOf, CredInv, Trusts, ChalOf
<1>5. serverTakes' \in Secrets /\ pending' \in BOOLEAN
  BY <1>0, Zenon DEF Command, create_connection, update_connection, delete_connection, ForgetAfterCommit,
     forget_credential, purge_scope, load_connection_password, approve_connection_host,
     SessionLost, Tick, sweep_expired, Rotates, CredTypes
<1>6. attempt # NoTry => profile' = profile
  BY <1>0, NoneOfThem DEF Command, create_connection, update_connection, delete_connection,
     forget_credential, purge_scope, load_connection_password, approve_connection_host,
     SessionLost, Tick, sweep_expired, Rotates,
     Tries, CredTypes, AttemptOf
<1>7. Tries' /\ Sessions'
  BY <1>1, <1>6, QuietTries
<1>8. attempt' \in AttemptOf \cup {NoTry} /\ lease' \in LeaseOf \cup {NoLease} /\ attempts' \in Nat
  BY <1>0, <1>1 DEF CredTypes
<1> QED BY <1>1, <1>2, <1>3, <1>4, <1>5, <1>7, <1>8 DEF CredTypes

\* A command deletes records, and lifts a quarantine only with the record.
LEMMA CommandVault ==
  ASSUME CredInv, Command
  PROVE  /\ UNCHANGED <<refused, attempts, attempt, lease, usedUp>>
         /\ \A i \in Idents : vault'[i] = NoRec \/ (vault'[i] = vault[i] /\ (i \in quarantine => i \in quarantine'))
<1>0. vault \in [Idents -> RecordOf \cup {NoRec}]
  BY DEF CredInv, CredTypes
<1>1. UNCHANGED <<refused, attempts, attempt, lease, usedUp>>
  BY DEF Command, create_connection, update_connection, delete_connection, forget_credential, purge_scope,
     load_connection_password, approve_connection_host, SessionLost, Tick, sweep_expired, Rotates
<1>2. CASE (\E i \in Idents : update_connection(i)) \/ delete_connection \/ forget_credential
  BY <1>0, <1>2 DEF update_connection, delete_connection, forget_credential, ForgetAfterCommit, Without
<1>3. CASE \/ \E i \in Idents : create_connection(i)
           \/ purge_scope \/ SessionLost \/ Tick \/ sweep_expired
           \/ \E s \in Secrets : Rotates(s)
  BY <1>0, <1>3 DEF create_connection, purge_scope, SessionLost, Tick, sweep_expired, Rotates
<1>4. CASE \/ \E s \in Secrets, r \in BOOLEAN : load_connection_password(s, r)
           \/ \E c \in challenges : approve_connection_host(c)
  BY <1>4 DEF load_connection_password, approve_connection_host
<1> QED BY <1>1, <1>2, <1>3, <1>4 DEF Command

LEMMA CommandNumbers ==
  ASSUME CredInv, Command
  PROVE  Numbers' /\ Refusals'
<1>0. /\ UNCHANGED <<refused, attempts, attempt, lease>>
      /\ \A i \in Idents : vault'[i] = NoRec \/ (vault'[i] = vault[i] /\ (i \in quarantine => i \in quarantine'))
  BY CommandVault
<1>1. link' = link \/ (link = "up" /\ link' = "lost")
  BY DEF Command, create_connection, update_connection, delete_connection, forget_credential, purge_scope,
     load_connection_password, approve_connection_host, SessionLost, Tick, sweep_expired, Rotates
<1>2. Refusals'
  BY <1>0 DEF CredInv, Refusals
<1>3. \A l : Names(l) => Names(l)'
  BY <1>0 DEF Names, IsSaved
<1>4. Numbers'
  BY <1>0, <1>1, <1>3 DEF CredInv, Numbers, Names, IsSaved
<1> QED BY <1>2, <1>4

LEMMA CommandStaged ==
  ASSUME CredInv, Command
  PROVE  UsedOnce'
<1>0. UNCHANGED <<attempt, usedUp>> /\ stagings \in Nat /\ UsedOnce
  BY CommandVault DEF CredInv, CredTypes
<1>1. CASE \E s \in Secrets, r \in BOOLEAN : load_connection_password(s, r)
  <2>1. staged'.n = stagings + 1 /\ stagings' = stagings + 1
    BY <1>1 DEF load_connection_password
  <2> QED BY <1>0, <2>1 DEF UsedOnce
<1>2. CASE staged' = NotStaged /\ stagings' = stagings
  BY <1>0, <1>2 DEF UsedOnce
<1>3. CASE staged' = staged /\ stagings' = stagings /\ (link' = link \/ link = "up")
  BY <1>0, <1>3 DEF UsedOnce, CredInv, Tries
<1> QED BY <1>1, <1>2, <1>3 DEF Command, create_connection, update_connection, delete_connection, forget_credential,
     purge_scope, approve_connection_host,
     SessionLost, Tick, sweep_expired, Rotates, ForgetAfterCommit

LEMMA CommandTrust ==
  ASSUME CredInv, Command
  PROVE  Trusts'
<1>0. attempt' = attempt /\ Trusts
  BY CommandVault DEF CredInv
<1>1. CASE \E c \in challenges : approve_connection_host(c)
  <2>1. PICK c \in challenges : approve_connection_host(c)
    BY <1>1
  <2>2. /\ c.key \in HostKeys /\ trusted.keys = {} /\ trusted.rev \in Nat
        /\ trusted' = [rev |-> trusted.rev + 1, keys |-> trusted.keys \cup {c.key}]
        /\ challenges' \subseteq challenges
    BY <1>0, <2>1 DEF approve_connection_host, approve, Trusts, ChalOf, CredInv, CredTypes, TrustOf
  <2>3. trusted'.rev = trusted.rev + 1 /\ trusted'.keys = {c.key}
    BY <2>2
  <2>4. Cardinality(trusted'.keys) <= 1
    <3>1. Cardinality({c.key}) = 1
      BY FS_Singleton
    <3> QED BY <2>3, <3>1
  <2>5. \A d \in challenges' : d \in ChalOf /\ d.rev <= trusted'.rev /\ d.rev # trusted'.rev
    BY <1>0, <2>2, <2>3 DEF Trusts, ChalOf
  <2>6. attempt # NoTry => attempt.trust.rev <= trusted'.rev /\ attempt.trust.rev # trusted'.rev
    <3>1. attempt # NoTry => attempt.trust.rev \in Nat
      BY DEF CredInv, CredTypes, AttemptOf, TrustOf
    <3> QED BY <1>0, <2>2, <2>3, <3>1 DEF Trusts
  <2> QED BY <1>0, <2>4, <2>5, <2>6 DEF Trusts
<1>2. CASE trusted' = trusted /\ challenges' \subseteq challenges
  BY <1>0, <1>2 DEF Trusts
<1> QED BY <1>1, <1>2 DEF Command, create_connection, update_connection, delete_connection, forget_credential,
     purge_scope, load_connection_password, SessionLost, Tick, sweep_expired, Rotates

LEMMA CommandProfile ==
  ASSUME CredInv, Command
  PROVE  OfProfile'
<1>0. /\ attempt' = attempt /\ OfProfile /\ Tries /\ Absent \notin Idents
      /\ vault \in [Idents -> RecordOf \cup {NoRec}]
      /\ staged # NotStaged => staged.id \in Idents
      /\ profile \in Idents \cup {Absent} /\ (attempt # NoTry => attempt.id \in Idents)
  BY CommandVault, NoneOfThem DEF CredInv, CredTypes, StagedOf, AttemptOf
<1>1. CASE \E i \in Idents : create_connection(i)
  BY <1>0, <1>1 DEF create_connection, OfProfile, Tries
<1>2. CASE (\E i \in Idents : update_connection(i)) \/ delete_connection
  <2>1. PICK next \in Idents \cup {Absent} : ForgetAfterCommit(next)
    BY <1>2 DEF update_connection, delete_connection
  <2>2. attempt = NoTry
    BY <1>0, <1>2 DEF update_connection, delete_connection, Tries
  <2> QED BY <1>0, <2>1, <2>2 DEF ForgetAfterCommit, OfProfile, Without
<1>3. CASE forget_credential
  BY <1>0, <1>3 DEF forget_credential, OfProfile, Without
<1>4. CASE \E s \in Secrets, r \in BOOLEAN : load_connection_password(s, r)
  BY <1>0, <1>4 DEF load_connection_password, OfProfile
<1>5. CASE purge_scope \/ sweep_expired
  BY <1>0, <1>5 DEF purge_scope, sweep_expired, OfProfile
<1>6. CASE \/ \E c \in challenges : approve_connection_host(c)
           \/ SessionLost \/ Tick \/ \E s \in Secrets : Rotates(s)
  BY <1>0, <1>6 DEF approve_connection_host, SessionLost, Tick, Rotates, OfProfile
<1> QED BY <1>1, <1>2, <1>3, <1>4, <1>5, <1>6 DEF Command

LEMMA CommandsAllowed ==
  ASSUME CredInv, Command
  PROVE  CredInv'
<1>1. CredTypes' /\ Tries' /\ Sessions'
  BY CommandTypes
<1> QED BY <1>1, CommandNumbers, CommandStaged, CommandTrust, CommandProfile DEF CredInv

-----------------------------------------------------------------------------
(* Credentials: the attempt.                                               *)

\* What an attempt leaves alone, whatever it does.
TryFrame == UNCHANGED <<profile, trusted, serverTakes, cclock, attempts, stagings, usedUp, pending>>

\* The facts about the state an attempt is in.
LEMMA TryFacts ==
  ASSUME CredInv, attempt # NoTry
  PROVE  /\ attempt \in AttemptOf /\ attempt.id \in Idents /\ attempt.trust \in TrustOf
         /\ attempt.given \in StagedOf \cup {NotStaged} /\ attempt.uses \in LeaseOf \cup {NoLease}
         /\ attempt.live \in LeaseOf \cup {NoLease} /\ attempt.pc \in TryPcs
         /\ attempt.id = profile /\ attempt.live = lease /\ link \in {"handshake", "lost"}
BY DEF CredInv, CredTypes, Tries, AttemptOf

LEMMA ConnectAllowed ==
  ASSUME CredInv, connect_connection
  PROVE  CredInv'
<1>1. /\ attempt = NoTry /\ lease = NoLease /\ link = "down" /\ link' = "handshake" /\ attempts' = attempts + 1
      /\ usedUp' = usedUp \cup {staged.n} /\ attempts \in Nat /\ stagings \in Nat /\ profile \in Idents
      /\ UNCHANGED <<profile, vault, quarantine, staged, lease, trusted, challenges, serverTakes, cclock,
                     stagings, vaultFaults, refused, pending>>
  BY DEF connect_connection, CredInv, CredTypes, Tries, Sessions
<1>2. PICK a : a = Try(NoLease)
  OBVIOUS
<1>3. /\ a \in AttemptOf /\ a.pc = "transport" /\ a.id = profile /\ a.trust = trusted
      /\ a.live = NoLease /\ a.given = staged /\ a.uses = NoLease
  BY <1>1, <1>2 DEF Try, AttemptOf, TryPcs, CredInv, CredTypes
<1>4. attempt' = a
  BY <1>2 DEF connect_connection
<1>5. CredTypes'
  BY <1>1, <1>3, <1>4 DEF CredInv, CredTypes
<1>6. Tries' /\ Sessions'
  BY <1>1, <1>3, <1>4 DEF Tries, Sessions
<1>7. OfProfile'
  BY <1>1, <1>3, <1>4 DEF CredInv, OfProfile
<1>8. Numbers' /\ Refusals'
  <2>1. vault \in [Idents -> RecordOf \cup {NoRec}] /\ \A i \in Idents : vault[i] # NoRec => vault[i].n \in Nat
    BY DEF CredInv, CredTypes, RecordOf
  <2>2. Names(lease)' /\ Names(attempt.uses)'
    BY <1>1, <1>3, <1>4 DEF Names, IsSaved
  <2> QED BY <1>1, <2>1, <2>2 DEF CredInv, Numbers, Refusals
<1>9. UsedOnce'
  <2>1. staged # NotStaged => staged.n \in 1..stagings
    BY DEF CredInv, UsedOnce
  <2>2. staged.n \in 0..stagings
    BY <1>1, <2>1 DEF NotStaged
  <2> QED BY <1>1, <1>3, <1>4, <2>1, <2>2, NoneOfThem DEF CredInv, UsedOnce
<1>10. Trusts'
  BY <1>1, <1>3, <1>4 DEF CredInv, Trusts, CredTypes, TrustOf
<1> QED BY <1>5, <1>6, <1>7, <1>8, <1>9, <1>10 DEF CredInv

LEMMA ReconnectAllowed ==
  ASSUME CredInv, reconnect_v2_connection
  PROVE  CredInv'
<1>1. /\ attempt = NoTry /\ link = "lost" /\ profile \in Idents
      /\ UNCHANGED <<profile, vault, quarantine, staged, link, lease, trusted, challenges, serverTakes,
                     cclock, attempts, stagings, vaultFaults, refused, usedUp, pending>>
  BY DEF reconnect_v2_connection, CredInv, CredTypes
<1>2. PICK a : a = Try(lease)
  OBVIOUS
<1>3. /\ a \in AttemptOf /\ a.pc = "transport" /\ a.id = profile /\ a.trust = trusted
      /\ a.live = lease /\ a.uses = NoLease /\ (a.given # NotStaged => lease = NoLease /\ a.given = staged)
  BY <1>1, <1>2 DEF Try, AttemptOf, TryPcs, CredInv, CredTypes
<1>4. attempt' = a
  BY <1>2 DEF reconnect_v2_connection
<1>5. CredTypes'
  BY <1>1, <1>3, <1>4 DEF CredInv, CredTypes
<1>6. Tries' /\ Sessions'
  BY <1>1, <1>3, <1>4 DEF Tries, Sessions
<1>7. OfProfile'
  BY <1>1, <1>3, <1>4 DEF CredInv, OfProfile
<1>8. Numbers' /\ Refusals'
  <2>1. Names(lease)' /\ Names(attempt.uses)'
    BY <1>1, <1>3, <1>4 DEF Names, IsSaved, CredInv, Numbers
  <2> QED BY <1>1, <2>1 DEF CredInv, Numbers, Refusals
<1>9. UsedOnce'
  BY <1>1 DEF CredInv, UsedOnce
<1>10. Trusts'
  BY <1>1, <1>3, <1>4 DEF CredInv, Trusts, CredTypes, TrustOf
<1> QED BY <1>5, <1>6, <1>7, <1>8, <1>9, <1>10 DEF CredInv

\* An attempt goes on: its credential is one it may use, and the vault may lose a record.
LEMMA MovesOn ==
  ASSUME CredInv, attempt # NoTry, NEW pc \in TryPcs, NEW u \in LeaseOf \cup {NoLease},
         attempt' = [attempt EXCEPT !.pc = pc, !.uses = u],
         pc \in {"transport", "resolve"} => u = NoLease,
         pc \in {"auth", "save"} => /\ attempt.given # NotStaged => u = Given
                                    /\ lease # NoLease => u = lease,
         Names(u), ~pending /\ u # NoLease => u.id = profile,
         vault' \in [Idents -> RecordOf \cup {NoRec}], \A i \in Idents : vault'[i] \in {NoRec, vault[i]},
         TryFrame, UNCHANGED <<quarantine, link, lease, staged, challenges, refused>>
  PROVE  CredInv'
<1>1. PICK a : a = [attempt EXCEPT !.pc = pc, !.uses = u]
  OBVIOUS
<1>2. /\ a \in AttemptOf /\ a.pc = pc /\ a.uses = u /\ a.id = attempt.id /\ a.trust = attempt.trust
      /\ a.live = attempt.live /\ a.given = attempt.given
  <2>1. attempt \in AttemptOf
    BY TryFacts
  <2> QED BY <1>1, <2>1 DEF AttemptOf
<1>3. attempt' = a
  BY <1>1
<1>4. CredTypes'
  BY <1>2, <1>3 DEF CredInv, CredTypes, TryFrame
<1>5. Given' = Given
  BY <1>2, <1>3 DEF Given, Lease
<1>6. Tries' /\ Sessions'
  BY <1>2, <1>3, <1>5 DEF CredInv, Tries, Sessions, TryFrame
<1>7. OfProfile'
  BY <1>2, <1>3 DEF CredInv, OfProfile, TryFrame
<1>8. \A l : Names(l) => Names(l)'
  BY DEF Names, IsSaved, TryFrame
<1>9. Names(attempt.uses)'
  BY <1>2, <1>3, <1>8
<1>10. Numbers'
  BY <1>8, <1>9 DEF CredInv, Numbers, TryFrame
<1>11. Refusals'
  BY DEF CredInv, Refusals
<1>12. UsedOnce'
  BY <1>2, <1>3, NoneOfThem DEF CredInv, UsedOnce, TryFrame
<1>13. Trusts'
  BY <1>2, <1>3 DEF CredInv, Trusts, TryFrame
<1> QED BY <1>4, <1>6, <1>7, <1>10, <1>11, <1>12, <1>13 DEF CredInv

\* An attempt ends: what every end has in common.
LEMMA Ending ==
  ASSUME CredInv, attempt # NoTry, attempt' = NoTry, staged' = Cleaned,
         link' \in {"down", "up"}, lease' \in LeaseOf \cup {NoLease}, link' = "down" => lease' = NoLease, TryFrame
  PROVE  Tries' /\ Sessions' /\ UsedOnce' /\ staged' \in {NotStaged, staged}
<1>1. Tries' /\ Sessions'
  BY DEF Tries, Sessions
<1>2. staged' \in {NotStaged, staged}
  BY DEF Cleaned
<1>3. UsedOnce'
  BY DEF CredInv, UsedOnce, Cleaned, TryFrame
<1> QED BY <1>1, <1>2, <1>3

\* The connection is down again, and the vault as it was.
LEMMA EndsDown ==
  ASSUME CredInv, attempt # NoTry, Down, TryFrame, UNCHANGED <<vault, quarantine, refused>>, Trusts'
  PROVE  CredInv'
<1>1. /\ link' = "down" /\ attempt' = NoTry /\ lease' = NoLease /\ staged' = Cleaned
  BY DEF Down, Ends
<1>2. Tries' /\ Sessions' /\ UsedOnce' /\ staged' \in {NotStaged, staged}
  BY <1>1, Ending
<1>3. CredTypes'
  BY <1>1, <1>2 DEF CredInv, CredTypes, TryFrame
<1>4. OfProfile'
  BY <1>1, <1>2 DEF CredInv, OfProfile, TryFrame
<1>5. Numbers' /\ Refusals'
  <2>1. Names(lease)'
    BY <1>1 DEF Names, IsSaved
  <2> QED BY <1>1, <2>1 DEF CredInv, Numbers, Refusals, TryFrame
<1> QED BY <1>2, <1>3, <1>4, <1>5 DEF CredInv

\* Trust stays sound when nothing is issued and the attempt is over.
LEMMA TrustRests ==
  ASSUME CredInv, UNCHANGED <<trusted, challenges>>, attempt' = NoTry
  PROVE  Trusts'
BY DEF CredInv, Trusts

LEMMA DisconnectAllowed ==
  ASSUME CredInv, disconnect_connection
  PROVE  CredInv'
<1>0. UNCHANGED <<vault, quarantine, refused, trusted, challenges>> /\ attempt' = NoTry /\ TryFrame
  BY DEF disconnect_connection, TryFrame
<1>1. Trusts'
  BY <1>0, TrustRests
<1>2. CASE attempt # NoTry
  <2>1. Down
    BY <1>2 DEF disconnect_connection, Down, Ends
  <2> QED BY <1>0, <1>1, <1>2, <2>1, EndsDown
<1>3. CASE attempt = NoTry
  <2>1. link' = "down" /\ lease' = NoLease /\ staged' = staged
    BY <1>3 DEF disconnect_connection
  <2>2. CredTypes' /\ Tries' /\ Sessions'
    BY <1>0, <1>3, <2>1 DEF CredInv, CredTypes, Tries, Sessions, TryFrame
  <2>3. OfProfile' /\ UsedOnce'
    BY <1>0, <1>3, <2>1 DEF CredInv, OfProfile, UsedOnce, TryFrame
  <2>4. Names(lease)'
    BY <2>1 DEF Names, IsSaved
  <2>5. Numbers' /\ Refusals'
    BY <1>0, <2>1, <2>4 DEF CredInv, Numbers, Refusals, TryFrame
  <2> QED BY <1>1, <2>2, <2>3, <2>5 DEF CredInv
<1> QED BY <1>2, <1>3

LEMMA TransportAllowed ==
  ASSUME CredInv, attempt # NoTry, NEW k \in HostKeys, Transport(k)
  PROVE  CredInv'
<1>0. UNCHANGED <<vault, quarantine, refused>> /\ TryFrame /\ attempt.pc = "transport"
  BY DEF Transport, TryFrame
<1>1. CASE inspect_trust(attempt.trust, k) = "trusted"
  <2>1. attempt' = [attempt EXCEPT !.pc = "resolve"] /\ UNCHANGED <<link, lease, staged, challenges>>
    BY <1>1 DEF Transport
  <2>2. attempt \in AttemptOf /\ attempt.uses = NoLease
    BY <1>0, TryFacts DEF CredInv, Tries
  <2>3. attempt' = [attempt EXCEPT !.pc = "resolve", !.uses = NoLease]
    BY <2>1, <2>2, TryMoves DEF TryPcs
  <2>4. Names(NoLease)
    BY DEF Names, IsSaved
  <2>5. vault' \in [Idents -> RecordOf \cup {NoRec}] /\ \A i \in Idents : vault'[i] \in {NoRec, vault[i]}
    BY <1>0 DEF CredInv, CredTypes
  <2>6. "resolve" \in TryPcs /\ NoLease \in LeaseOf \cup {NoLease}
    BY DEF TryPcs
  <2> QED BY <1>0, <2>1, <2>3, <2>4, <2>5, <2>6, MovesOn
<1>2. CASE inspect_trust(attempt.trust, k) # "trusted"
  <2>1. /\ Down
        /\ challenges' = IF inspect_trust(attempt.trust, k) = "unknown" /\ attempt.live = NoLease
                         THEN issue_or_repeat(k) ELSE challenges
    BY <1>2 DEF Transport
  <2>2. attempt' = NoTry
    BY <2>1 DEF Down, Ends
  <2>3. CASE challenges' = challenges
    BY <1>0, <2>1, <2>2, <2>3, EndsDown, TrustRests DEF TryFrame
  <2>4. CASE inspect_trust(attempt.trust, k) = "unknown" /\ challenges' = issue_or_repeat(k)
    <3>1. attempt.trust.keys = {}
      BY <2>4 DEF inspect_trust
    <3>2. PICK c : c = [gen |-> attempts, rev |-> attempt.trust.rev, key |-> k, exp |-> cclock + ChallengeTtl]
      OBVIOUS
    <3>3. challenges' \subseteq challenges \cup {c}
      BY <2>4, <3>2 DEF issue_or_repeat
    <3>4. attempts \in Nat /\ cclock + ChallengeTtl \in Int /\ attempt.trust.rev \in Nat
      BY CredAssumption, TryFacts DEF CredInv, CredTypes, TrustOf
    <3>5. c \in ChalOf /\ c.rev = attempt.trust.rev
      BY <3>2, <3>4 DEF ChalOf
    <3>6. /\ attempt.trust.rev <= trusted.rev /\ (attempt.trust.rev = trusted.rev => attempt.trust = trusted)
          /\ trusted' = trusted
      BY <1>0 DEF CredInv, Trusts, TryFrame
    <3>7. Trusts'
      BY <2>2, <3>1, <3>3, <3>5, <3>6 DEF CredInv, Trusts
    <3> QED BY <1>0, <2>1, <3>7, EndsDown
  <2> QED BY <2>1, <2>3, <2>4
<1> QED BY <1>1, <1>2

LEMMA UnreachableAllowed ==
  ASSUME CredInv, attempt # NoTry, Unreachable
  PROVE  CredInv'
<1>0. UNCHANGED <<vault, quarantine, refused, trusted, challenges>> /\ TryFrame
  BY DEF Unreachable, TryFrame
<1>1. CASE link = "lost"
  <2>1. attempt' = NoTry /\ UNCHANGED <<link, lease, staged>>
    BY <1>1 DEF Unreachable
  <2>2. CredTypes' /\ Tries' /\ Sessions'
    BY <1>0, <2>1 DEF CredInv, CredTypes, Tries, Sessions, TryFrame
  <2>3. OfProfile' /\ UsedOnce'
    BY <1>0, <1>1, <2>1 DEF CredInv, OfProfile, UsedOnce, TryFrame
  <2>4. Names(lease)'
    BY <1>0, <2>1 DEF CredInv, Numbers, Names, IsSaved, TryFrame
  <2>5. Numbers' /\ Refusals'
    BY <1>0, <2>1, <2>4 DEF CredInv, Numbers, Refusals, TryFrame
  <2> QED BY <1>0, <2>1, <2>2, <2>3, <2>5, TrustRests DEF CredInv
<1>2. CASE link # "lost"
  <2>1. Down /\ attempt' = NoTry
    BY <1>2 DEF Unreachable, Down, Ends
  <2> QED BY <1>0, <2>1, EndsDown, TrustRests
<1> QED BY <1>1, <1>2

LEMMA ResolveAllowed ==
  ASSUME CredInv, attempt # NoTry, resolve_credentials
  PROVE  CredInv'
<1>0. /\ attempt.pc = "resolve" /\ attempt.live = NoLease /\ lease = NoLease
      /\ UNCHANGED <<quarantine, refused, trusted, challenges>> /\ TryFrame
  BY TryFacts DEF resolve_credentials, TryFrame
<1>1. "auth" \in TryPcs
  BY DEF TryPcs
<1>2. vault \in [Idents -> RecordOf \cup {NoRec}] /\ attempt.id \in Idents /\ attempt.id = profile
  BY TryFacts DEF CredInv, CredTypes
<1>3. vault' \in [Idents -> RecordOf \cup {NoRec}] /\ \A i \in Idents : vault'[i] \in {NoRec, vault[i]}
  BY <1>2 DEF resolve_credentials, Without
<1>4. \/ attempt.given # NotStaged /\ Uses(Given)
      \/ /\ attempt.given = NotStaged /\ attempt.id \notin quarantine
         /\ Saved(attempt.id) /\ Uses(FromVault)
      \/ attempt.given = NotStaged /\ Uses(NoLease)
  BY DEF resolve_credentials
<1>5. CASE attempt.given # NotStaged /\ Uses(Given)
  <2>1. PICK u : u = Given
    OBVIOUS
  <2>2. attempt' = [attempt EXCEPT !.pc = "auth", !.uses = u] /\ UNCHANGED <<link, lease, staged>>
    BY <1>5, <2>1 DEF Uses
  <2>3. attempt.given \in StagedOf
    BY <1>5, TryFacts
  <2>4. u \in LeaseOf /\ ~u.saved /\ u.id = attempt.given.id
    BY <2>1, <2>3 DEF Given, Lease, StagedOf, LeaseOf, NeverExp
  <2>5. Names(u) /\ (~pending => u.id = profile)
    BY <1>5, <2>4 DEF Names, IsSaved, CredInv, OfProfile
  <2> QED BY <1>0, <1>1, <1>3, <2>1, <2>2, <2>4, <2>5, MovesOn
<1>6. CASE /\ attempt.given = NotStaged /\ attempt.id \notin quarantine
           /\ Saved(attempt.id) /\ Uses(FromVault)
  <2>1. PICK u : u = FromVault
    OBVIOUS
  <2>2. attempt' = [attempt EXCEPT !.pc = "auth", !.uses = u] /\ UNCHANGED <<link, lease, staged>>
    BY <1>6, <2>1 DEF Uses
  <2>3. vault[attempt.id] # NoRec /\ ~vault[attempt.id].rejected /\ vault[attempt.id] \in RecordOf
    BY <1>2, <1>6 DEF Saved
  <2>4. /\ u \in LeaseOf /\ u.saved /\ u.id = attempt.id /\ u.n = vault[attempt.id].n
    BY <1>2, <2>1, <2>3 DEF FromVault, Lease, RecordOf, LeaseOf
  <2>5. u.n \notin refused
    BY <1>2, <1>6, <2>3, <2>4 DEF CredInv, Refusals
  <2>6. Names(u)
    BY <1>2, <2>3, <2>4, <2>5 DEF Names, IsSaved, CredInv, Numbers
  <2> QED BY <1>0, <1>1, <1>2, <1>3, <1>6, <2>2, <2>4, <2>6, MovesOn
<1>7. CASE attempt.given = NotStaged /\ Uses(NoLease)
  <2>1. attempt' = [attempt EXCEPT !.pc = "auth", !.uses = NoLease] /\ UNCHANGED <<link, lease, staged>>
    BY <1>7 DEF Uses
  <2>2. Names(NoLease) /\ NoLease \in LeaseOf \cup {NoLease}
    BY DEF Names, IsSaved
  <2> QED BY <1>0, <1>1, <1>3, <1>7, <2>1, <2>2, MovesOn
<1> QED BY <1>4, <1>5, <1>6, <1>7

LEMMA ResolveLiveAllowed ==
  ASSUME CredInv, attempt # NoTry, resolve_live_credentials
  PROVE  CredInv'
<1>0. /\ attempt.pc = "resolve" /\ attempt.live # NoLease /\ lease # NoLease /\ attempt.live = lease
      /\ UNCHANGED <<vault, quarantine, refused, trusted, challenges>> /\ TryFrame
  BY TryFacts DEF resolve_live_credentials, TryFrame
<1>1. CASE LiveOk
  <2>1. attempt' = [attempt EXCEPT !.pc = "auth", !.uses = lease] /\ UNCHANGED <<link, lease, staged>>
    BY <1>0, <1>1 DEF resolve_live_credentials, Uses
  <2>2. lease.id = profile /\ lease \in LeaseOf /\ "auth" \in TryPcs
    BY <1>0, <1>1, TryFacts DEF LiveOk, TryPcs
  <2>3. attempt.given = NotStaged /\ Names(lease)
    BY <1>0 DEF CredInv, Tries, Numbers
  <2>4. vault' \in [Idents -> RecordOf \cup {NoRec}] /\ \A i \in Idents : vault'[i] \in {NoRec, vault[i]}
    BY <1>0 DEF CredInv, CredTypes
  <2>5. PICK u : u = lease
    OBVIOUS
  <2>6. /\ u \in LeaseOf \cup {NoLease} /\ attempt' = [attempt EXCEPT !.pc = "auth", !.uses = u]
        /\ Names(u) /\ u.id = profile
    BY <2>1, <2>2, <2>3, <2>5
  <2> QED BY <1>0, <2>1, <2>2, <2>3, <2>4, <2>5, <2>6, MovesOn
<1>2. CASE ~LiveOk
  <2>1. Down /\ attempt' = NoTry
    BY <1>0, <1>2 DEF resolve_live_credentials, Down, Ends
  <2> QED BY <1>0, <2>1, EndsDown, TrustRests
<1> QED BY <1>1, <1>2

LEMMA AcceptedAllowed ==
  ASSUME CredInv, attempt # NoTry, Accepted
  PROVE  CredInv'
<1>0. /\ attempt.pc = "auth" /\ TryFrame
      /\ UNCHANGED <<vault, quarantine, link, lease, staged, challenges, refused>>
  BY DEF Accepted, TryFrame
<1>1. PICK u : u = attempt.uses
  OBVIOUS
<1>2. attempt \in AttemptOf /\ u \in LeaseOf \cup {NoLease} /\ "save" \in TryPcs
  BY <1>1, TryFacts DEF TryPcs
<1>3. attempt' = [attempt EXCEPT !.pc = "save", !.uses = u]
  <2>1. attempt' = [attempt EXCEPT !.pc = "save"]
    BY DEF Accepted
  <2> QED BY <1>1, <1>2, <2>1, TryMoves
<1>4. Names(u) /\ (attempt.given # NotStaged => u = Given) /\ (lease # NoLease => u = lease)
  BY <1>0, <1>1 DEF CredInv, Numbers, Tries
<1>5. ~pending /\ u # NoLease => u.id = profile
  BY <1>1 DEF CredInv, OfProfile
<1>6. vault' \in [Idents -> RecordOf \cup {NoRec}] /\ \A i \in Idents : vault'[i] \in {NoRec, vault[i]}
  BY <1>0 DEF CredInv, CredTypes
<1> QED BY <1>0, <1>2, <1>3, <1>4, <1>5, <1>6, MovesOn

\* The server's refusal: the record is out of use, whichever call into the vault fails.
LEMMA RefusedAllowed ==
  ASSUME CredInv, attempt # NoTry, Refused
  PROVE  CredInv'
<1>0. /\ attempt.pc = "auth" /\ Down /\ TryFrame /\ UNCHANGED <<trusted, challenges>>
      /\ link' = "down" /\ attempt' = NoTry /\ lease' = NoLease /\ staged' = Cleaned
  BY DEF Refused, TryFrame, Down, Ends
<1>1. Trusts'
  BY <1>0, TrustRests
<1>2. CASE UNCHANGED <<vault, quarantine, refused>>
  BY <1>0, <1>1, <1>2, EndsDown
<1>3. CASE /\ attempt.uses # NoLease /\ attempt.uses.saved
           /\ mark_saved_credential_rejected(attempt.uses.id) /\ refused' = refused \cup {attempt.uses.n}
  <2>1. PICK j, n : j = attempt.uses.id /\ n = attempt.uses.n
    OBVIOUS
  <2>2. j \in Idents /\ n \in Nat
    BY <1>3, <2>1, TryFacts DEF LeaseOf
  <2>3. n <= attempts /\ (\A i \in Idents : vault[i] # NoRec /\ vault[i].n = n => i = j)
    BY <1>3, <2>1 DEF CredInv, Numbers, Names, IsSaved
  <2>4. vault \in [Idents -> RecordOf \cup {NoRec}] /\ quarantine \subseteq Idents /\ attempts \in Nat
    BY DEF CredInv, CredTypes
  <2>5. mark_saved_credential_rejected(j) /\ refused' = refused \cup {n}
    BY <1>3, <2>1
  <2>6. /\ vault' \in [Idents -> RecordOf \cup {NoRec}] /\ quarantine' \subseteq Idents
        /\ \A i \in Idents : vault'[i] # NoRec =>
             /\ vault[i] # NoRec /\ vault'[i].n = vault[i].n /\ (vault[i].rejected => vault'[i].rejected)
             /\ i = j => j \in quarantine'
             /\ i \in quarantine => i \in quarantine'
    <3>1. CASE vault' = [vault EXCEPT ![j].rejected = TRUE] /\ vault[j] # NoRec /\ quarantine' = quarantine \cup {j}
      <4>1. vault[j] \in RecordOf
        BY <2>2, <2>4, <3>1
      <4>2. PICK r : r = [vault[j] EXCEPT !.rejected = TRUE]
        OBVIOUS
      <4>3. r \in RecordOf /\ r.n = vault[j].n /\ r.rejected
        BY <4>1, <4>2 DEF RecordOf
      <4>4. vault' = [vault EXCEPT ![j] = r]
        BY <3>1, <4>2
      <4> QED BY <2>2, <2>4, <3>1, <4>3, <4>4
    <3>2. CASE vault' = vault /\ quarantine' = quarantine \cup {j}
      BY <2>2, <2>4, <3>2
    <3>3. CASE vault' = Without(j) /\ quarantine' = quarantine \ {j}
      BY <2>2, <2>4, <3>3 DEF Without
    <3> QED BY <2>5, <3>1, <3>2, <3>3 DEF mark_saved_credential_rejected
  <2>7. Tries' /\ Sessions' /\ UsedOnce' /\ staged' \in {NotStaged, staged}
    BY <1>0, Ending
  <2>8. CredTypes'
    BY <1>0, <2>6, <2>7 DEF CredInv, CredTypes, TryFrame
  <2>9. OfProfile'
    BY <1>0, <2>6, <2>7 DEF CredInv, OfProfile, TryFrame
  <2>10. Numbers'
    <3>1. Names(lease)' /\ link' = "down" /\ attempt' = NoTry /\ attempts' = attempts
      BY <1>0 DEF Names, IsSaved, TryFrame
    <3>2. refused' \subseteq 0..attempts
      BY <2>2, <2>3, <2>4, <2>5 DEF CredInv, Numbers
    <3> QED BY <2>6, <3>1, <3>2 DEF CredInv, Numbers
  <2>11. Refusals'
    BY <2>3, <2>5, <2>6 DEF CredInv, Refusals
  <2> QED BY <1>1, <2>7, <2>8, <2>9, <2>10, <2>11 DEF CredInv
<1> QED BY <1>2, <1>3 DEF Refused

\* The session is made, and what the user asked to remember has a number of its own.
LEMMA SaveAllowed ==
  ASSUME CredInv, attempt # NoTry, Save
  PROVE  CredInv'
<1>0. attempt.pc = "save" /\ TryFrame /\ UNCHANGED <<trusted, challenges, refused>>
  BY DEF Save, TryFrame
<1>1. PICK l : l = attempt.uses
  OBVIOUS
<1>2. /\ l \in LeaseOf \cup {NoLease} /\ Names(l) /\ (lease # NoLease => l = lease)
      /\ attempt.given \in StagedOf \cup {NotStaged} /\ link \in {"handshake", "lost"}
  BY <1>0, <1>1, TryFacts DEF CredInv, Numbers, Tries
<1>3. /\ vault \in [Idents -> RecordOf \cup {NoRec}] /\ quarantine \subseteq Idents /\ attempts \in Nat /\ cclock \in Nat
      /\ RememberFor \in Nat
  BY CredAssumption DEF CredInv, CredTypes
<1>4. CASE UNCHANGED <<vault, quarantine>> /\ Ends("up", l)
  <2>1. link' = "up" /\ attempt' = NoTry /\ lease' = l /\ staged' = Cleaned
    BY <1>4 DEF Ends
  <2>2. Tries' /\ Sessions' /\ UsedOnce' /\ staged' \in {NotStaged, staged}
    BY <1>0, <1>2, <2>1, Ending
  <2>3. CredTypes'
    BY <1>0, <1>2, <1>4, <2>1, <2>2 DEF CredInv, CredTypes, TryFrame
  <2>4. OfProfile'
    BY <1>0, <1>4, <2>1, <2>2 DEF CredInv, OfProfile, TryFrame
  <2>5. Names(lease)'
    BY <1>0, <1>2, <1>4, <2>1 DEF Names, IsSaved, TryFrame
  <2>6. Numbers' /\ Refusals'
    BY <1>0, <1>2, <1>4, <2>1, <2>5 DEF CredInv, Numbers, Refusals, TryFrame
  <2> QED BY <1>0, <2>1, <2>2, <2>3, <2>4, <2>6, TrustRests DEF CredInv
<1>5. CASE /\ attempt.given # NotStaged /\ vault' = [vault EXCEPT ![l.id] = Record(attempts, l.secret)]
           /\ quarantine' = quarantine \ {l.id} /\ Ends("up", [l EXCEPT !.exp = Record(attempts, l.secret).exp])
  <2>1. attempt.given \in StagedOf /\ l = Given /\ lease = NoLease
    BY <1>0, <1>1, <1>2, <1>5 DEF CredInv, Tries
  <2>2. l \in LeaseOf /\ ~l.saved /\ l.id = attempt.given.id
    BY <2>1 DEF Given, Lease, StagedOf, LeaseOf, NeverExp
  <2>3. PICK r : r = Record(attempts, l.secret)
    OBVIOUS
  <2>4. r \in RecordOf /\ r.n = attempts /\ ~r.rejected /\ r.exp \in Int
    BY <1>3, <2>2, <2>3 DEF Record, RecordOf, LeaseOf
  <2>5. PICK m : m = [l EXCEPT !.exp = r.exp]
    OBVIOUS
  <2>6. m \in LeaseOf /\ ~m.saved
    BY <2>2, <2>4, <2>5 DEF LeaseOf
  <2>7. PICK j : j = l.id
    OBVIOUS
  <2>8. /\ j \in Idents /\ vault' = [vault EXCEPT ![j] = r] /\ quarantine' = quarantine \ {j}
        /\ link' = "up" /\ attempt' = NoTry /\ lease' = m /\ staged' = Cleaned
    BY <1>5, <2>2, <2>3, <2>5, <2>7 DEF Ends, LeaseOf
  <2>9. Tries' /\ Sessions' /\ UsedOnce' /\ staged' \in {NotStaged, staged}
    BY <1>0, <2>6, <2>8, Ending
  <2>10. CredTypes'
    BY <1>0, <1>3, <2>4, <2>6, <2>8, <2>9 DEF CredInv, CredTypes, TryFrame
  <2>11. OfProfile'
    <3>1. ~pending => j = profile
      BY <1>5, <2>2, <2>7 DEF CredInv, OfProfile
    <3> QED BY <1>0, <1>3, <2>8, <2>9, <3>1 DEF CredInv, OfProfile, TryFrame
  <2>12. /\ attempts \notin refused /\ \A i \in Idents : vault[i] # NoRec => vault[i].n \in Nat /\ vault[i].n < attempts
    BY <1>2, <1>3, <2>1 DEF CredInv, Numbers, RecordOf
  <2>13. Numbers'
    <3>1. Names(lease)' /\ lease' # NoLease /\ attempts' = attempts /\ refused' = refused
      BY <1>0, <2>6, <2>8, NoneOfThem DEF Names, IsSaved, TryFrame
    <3>2. \A i \in Idents : vault'[i] = IF i = j THEN r ELSE vault[i]
      BY <1>3, <2>8
    <3> QED BY <1>3, <2>4, <2>8, <2>12, <3>1, <3>2 DEF CredInv, Numbers
  <2>14. Refusals'
    BY <1>0, <1>3, <2>4, <2>8, <2>12 DEF CredInv, Refusals
  <2> QED BY <1>0, <2>8, <2>9, <2>10, <2>11, <2>13, <2>14, TrustRests DEF CredInv
<1> QED BY <1>1, <1>4, <1>5 DEF Save

-----------------------------------------------------------------------------
(* Credentials: the theorems.                                              *)

LEMMA CredInitially == CredInit => CredInv
<1> SUFFICES ASSUME CredInit PROVE CredInv
  OBVIOUS
<1>1. PICK ks \in SUBSET HostKeys : Cardinality(ks) <= 1 /\ trusted = [rev |-> 0, keys |-> ks]
  BY DEF CredInit
<1>2. trusted \in TrustOf /\ Cardinality(trusted.keys) <= 1
  BY <1>1 DEF TrustOf
<1>3. CredTypes
  BY <1>2 DEF CredInit, CredTypes
<1>4. Tries /\ Sessions /\ OfProfile /\ Refusals /\ UsedOnce
  BY DEF CredInit, Tries, Sessions, OfProfile, Refusals, UsedOnce
<1>5. Numbers
  BY DEF CredInit, Numbers, Names, IsSaved
<1>6. Trusts
  BY <1>2 DEF CredInit, Trusts
<1> QED BY <1>3, <1>4, <1>5, <1>6 DEF CredInv

LEMMA CredStep == CredInv /\ [CredNext]_cvars => CredInv'
<1> SUFFICES ASSUME CredInv, [CredNext]_cvars PROVE CredInv'
  OBVIOUS
<1>1. CASE Command
  BY <1>1, CommandsAllowed
<1>2. CASE connect_connection \/ disconnect_connection \/ reconnect_v2_connection
  BY <1>2, ConnectAllowed, DisconnectAllowed, ReconnectAllowed
<1>3. CASE \E k \in HostKeys : attempt # NoTry /\ Transport(k)
  BY <1>3, TransportAllowed
<1>4. CASE attempt # NoTry /\ (Unreachable \/ resolve_credentials \/ resolve_live_credentials)
  BY <1>4, UnreachableAllowed, ResolveAllowed, ResolveLiveAllowed
<1>5. CASE attempt # NoTry /\ (Refused \/ Accepted \/ Save)
  BY <1>5, RefusedAllowed, AcceptedAllowed, SaveAllowed
<1>6. CASE UNCHANGED cvars
  <2>1. Given' = Given
    BY <1>6 DEF cvars, Given, Lease
  <2>2. \A l : Names(l) <=> Names(l)'
    BY <1>6 DEF cvars, Names, IsSaved
  <2>3. Names(lease)' /\ (attempt' # NoTry => Names(attempt.uses)')
    BY <1>6, <2>2 DEF cvars, CredInv, Numbers
  <2>4. CredTypes' /\ Tries' /\ Sessions' /\ OfProfile'
    BY <1>6, <2>1 DEF cvars, CredInv, CredTypes, Tries, Sessions, OfProfile
  <2>5. Numbers' /\ Refusals' /\ UsedOnce' /\ Trusts'
    BY <1>6, <2>3 DEF cvars, CredInv, Numbers, Refusals, UsedOnce, Trusts
  <2> QED BY <2>4, <2>5 DEF CredInv
<1> QED BY <1>1, <1>2, <1>3, <1>4, <1>5, <1>6 DEF CredNext, Command

\* In every state, a record has a number of its own and is out of use once the server
\* refused it, what is kept is of the stored profile unless a failed cleanup was
\* reported, and an approval is for the keys it was shown (manager.rs, credential_vault.rs).
THEOREM CredInvariant == CredSpec => []CredInv
BY CredInitially, CredStep, PTL DEF CredSpec

\* Secrets and host keys stay where the user put them, for every set of identities, keys
\* and secrets and every failing vault: with the profile's identity, for one attempt when
\* they were typed, and never again once the server refused them.
THEOREM SecretsStayConfined == CredSpec => []SecretsConfined
<1>1. CredInv => SecretsConfined
  <2> SUFFICES ASSUME CredInv PROVE SecretsConfined
    OBVIOUS
  <2>1. CredTypeOK
    BY NoneOfThem DEF CredInv, CredTypes, CredTypeOK, TrustOf, AttemptOf, TryPcs
  <2>2. RefusedNotReused
    BY NoneOfThem DEF CredInv, Numbers, Names, IsSaved, RefusedNotReused
  <2>3. VaultFollowsProfile /\ SecretKeepsIdentity
    BY NoneOfThem DEF CredInv, OfProfile, VaultFollowsProfile, SecretKeepsIdentity
  <2>4. OneKeyPerEndpoint /\ StagedUsedOnce
    BY DEF CredInv, Trusts, UsedOnce, OneKeyPerEndpoint, StagedUsedOnce
  <2> QED BY <2>1, <2>2, <2>3, <2>4 DEF SecretsConfined
<1> QED BY <1>1, CredInvariant, PTL
-----------------------------------------------------------------------------
(* Browser child: types and the inductive invariant.                       *)

Urls    == Pages \cup {Nothing}
ReqOf   == Nat \X {"c", "r"}
CredOf  == [session : Nat, gen : Nat, req : Nat \X {"c"}]
ActOf   == [session : Nat, url : Pages, gen : Nat, connect : Nat \X {"c"}, ids : Seq(ReqOf), relay : BOOLEAN]
DocOf   == [url : Urls, cred : CredOf \cup {Nothing}]
ChildOf == [session : Nat, url : Urls, pending : Urls, doc : DocOf]
Held    == childLife.pc \in {"add", "relay", "replay", "check", "eval", "show"}

BridgeTypes ==
  /\ act \in ActOf \cup {Nothing} /\ child \in ChildOf \cup {Nothing}
  /\ \/ childLife = NoChildLife
     \/ childLife \in [pc : {"add", "relay", "replay"}, session : {children}, target : Pages]
     \/ childLife \in [pc : {"check"}, session : {children}, gen : Nat, url : Pages]
     \/ childLife \in [pc : {"eval"}, session : {children}, cred : CredOf]
     \/ childLife \in [pc : {"show"}, session : {children}]
  /\ scripts \in Seq(CredOf) /\ Len(scripts) <= MaxScripts
  /\ children \in Nat /\ navigations \in 0..MaxNavigations /\ commands \in Nat

\* Sessions are numbered: the one that is active is the newest, and a child is its child.
Newest == /\ act # Nothing => /\ act.session = children /\ act.gen <= navigations /\ policy_allows(act.url)
                              /\ Len(act.ids) \in 1..RequestCap /\ act.connect \in ToSet(act.ids)
          /\ child # Nothing => child.session <= children
          /\ \A m \in relays : m.session \in 0..children

\* Creation holds the lifecycle lock until its child is there, or the state is cleared.
Alone == /\ Held => act # Nothing
         /\ act # Nothing /\ childLife.pc # "add" => child # Nothing /\ child.session = children
         /\ childLife.pc = "add" => /\ child = Nothing /\ childLife.target = act.url
                                    /\ \A m \in relays : m.session # children

\* Credentials are of the active session's generations so far, or of older sessions.
UpToNow(c) == c.session <= children /\ (act # Nothing /\ c.session = children => c.gen <= act.gen)
Issued == /\ \A i \in 1..Len(scripts) : UpToNow(scripts[i])
          /\ childLife.pc = "eval" => UpToNow(childLife.cred)
          /\ child # Nothing /\ child.doc.cred # Nothing =>
               UpToNow(child.doc.cred) /\ child.doc.cred.session = child.session

\* The document is the one of the URL the webview shows.
DocumentShown == child # Nothing => /\ child.url = child.doc.url
                                    /\ child.url = Nothing => child.doc = NoDoc

\* The current credentials, in a script on its way, in creation's hands or in a document,
\* are for the committed page; a navigation under way leads there.
OnTheWay(c) == (\E i \in 1..Len(scripts) : scripts[i] = c) \/ (childLife.pc = "eval" /\ childLife.cred = c)
AtHome == act # Nothing /\ child # Nothing /\ act.session \notin moved =>
  /\ child.pending \in {Nothing, act.url}
  /\ OnTheWay(Cred(act)) => child.doc = NoDoc \/ child.doc.url = act.url
  /\ child.doc.cred = Cred(act) => child.doc.url = act.url

ChildInv == BridgeTypes /\ Newest /\ Alone /\ Issued /\ DocumentShown /\ AtHome

-----------------------------------------------------------------------------
(* Browser child: lemmas.                                                  *)

\* Nothing is not a record.
LEMMA NothingIsNoRecord ==
  Nothing \notin CredOf /\ Nothing \notin ActOf /\ Nothing \notin ChildOf
BY ChildAssumption DEF CredOf, ActOf, Urls, ReqOf, ChildOf, DocOf

\* Every non-empty set of naturals has a least element.
LEMMA LeastOfRelation ==
  ASSUME NEW R, IsWellFoundedOn(R, Nat), \A x, y \in Nat : y < x => <<y, x>> \in R,
         NEW T \in SUBSET Nat, T # {}
  PROVE  \E x \in T : \A y \in T : x <= y
<1>1. PICK x \in T : \A y \in T : ~ (<<y, x>> \in R)
  BY WFMin
<1>2. ASSUME NEW y \in T PROVE x <= y
  <2>1. x \in Nat /\ y \in Nat
    OBVIOUS
  <2>2. ~(y < x)
    BY <1>1, <2>1, Zenon
  <2> QED BY <2>1, <2>2
<1> QED BY <1>2

LEMMA LeastIndex ==
  ASSUME NEW T \in SUBSET Nat, T # {}
  PROVE  \E x \in T : \A y \in T : x <= y
<1>1. \A x, y \in Nat : y < x => <<y, x>> \in OpToRel(<, Nat)
  BY DEF OpToRel
<1> QED BY <1>1, LeastOfRelation, NatLessThanWellFounded, Zenon

\* What is left of a sequence, one element shorter.
LEMMA OneRemoved ==
  ASSUME NEW S, NEW s \in Seq(S), NEW i \in 1..Len(s)
  PROVE  /\ RemoveAt(s, i) \in Seq(S) /\ Len(RemoveAt(s, i)) = Len(s) - 1
         /\ \A j \in 1..Len(s) : j # i => \E k \in 1..Len(RemoveAt(s, i)) : RemoveAt(s, i)[k] = s[j]
<1> DEFINE a == SubSeq(s, 1, i - 1)
           b == SubSeq(s, i + 1, Len(s))
           t == RemoveAt(s, i)
<1>0. Len(s) \in Nat /\ i \in Nat /\ 1 <= i /\ i <= Len(s) /\ \A k \in 1..Len(s) : s[k] \in S
  OBVIOUS
<1>1. a \in Seq(S) /\ Len(a) = i - 1 /\ \A k \in 1..(i - 1) : a[k] = s[k]
  BY <1>0
<1>2. b \in Seq(S) /\ Len(b) = Len(s) - i /\ \A k \in 1..(Len(s) - i) : b[k] = s[i + k]
  BY <1>0
<1>3. t = a \o b
  BY DEF RemoveAt
<1> HIDE DEF a, b, t
<1>4. t \in Seq(S) /\ Len(t) = Len(s) - 1
  <2>1. t \in Seq(S) /\ Len(t) = Len(a) + Len(b)
    BY <1>1, <1>2, <1>3, ConcatProperties
  <2> QED BY <1>0, <1>1, <1>2, <2>1
<1>5. /\ \A k \in 1..Len(a) : t[k] = a[k]
      /\ \A k \in 1..Len(b) : t[Len(a) + k] = b[k]
  BY <1>0, <1>1, <1>2, <1>3
<1>6. ASSUME NEW j \in 1..Len(s), j # i PROVE \E k \in 1..Len(t) : t[k] = s[j]
  <2>1. CASE j < i
    <3>1. j \in 1..(i - 1) /\ j \in 1..Len(t)
      BY <1>0, <1>4, <2>1
    <3> QED BY <1>1, <1>5, <3>1
  <2>2. CASE j > i
    <3>1. j - i \in 1..(Len(s) - i) /\ j - 1 \in 1..Len(t) /\ Len(a) + (j - i) = j - 1 /\ i + (j - i) = j
      BY <1>0, <1>1, <1>4, <2>2
    <3> QED BY <1>2, <1>5, <3>1
  <2> QED BY <1>6, <2>1, <2>2
<1> QED BY <1>4, <1>6 DEF t

\* The remembered request ids stay bounded, and the connect id stays among them.
LEMMA RememberFacts ==
  ASSUME NEW ids \in Seq(ReqOf), NEW connect \in ReqOf, NEW id \in ReqOf, Len(ids) <= RequestCap,
         connect \in ToSet(ids) \/ id = connect
  PROVE  LET r == remember_request(ids, connect, id)
         IN  r \in Seq(ReqOf) /\ Len(r) \in 1..RequestCap /\ connect \in ToSet(r)
<1> DEFINE all    == Append(ids, id)
           others == {i \in 1..Len(all) : all[i] # connect}
           first  == IF others = {} THEN 1 ELSE CHOOSE i \in others : \A j \in others : i <= j
           r      == remember_request(ids, connect, id)
<1>0. RequestCap \in Nat \ {0} /\ Len(ids) \in Nat
  BY ChildAssumption
<1>1. /\ all \in Seq(ReqOf) /\ Len(all) = Len(ids) + 1
      /\ \A i \in 1..Len(ids) : all[i] = ids[i] /\ i \in 1..Len(all)
      /\ all[Len(all)] = id /\ Len(all) \in 1..Len(all)
  BY <1>0
<1>2. r = IF Len(all) <= RequestCap THEN all ELSE RemoveAt(all, first)
  BY DEF remember_request
<1>3. \E i \in 1..Len(all) : all[i] = connect
  BY <1>1 DEF ToSet
<1>4. first \in 1..Len(all) /\ (all[first] = connect => others = {})
  <2>1. CASE others = {}
    BY <1>0, <1>1, <2>1
  <2>2. CASE others # {}
    <3>1. others \in SUBSET Nat
      OBVIOUS
    <3>2. \E i \in others : \A j \in others : i <= j
      BY <2>2, <3>1, LeastIndex
    <3>3. first \in others
      BY <2>2, <3>2
    <3> QED BY <2>2, <3>3
  <2> QED BY <2>1, <2>2
<1>5. others = {} => \A i \in 1..Len(all) : all[i] = connect
  OBVIOUS
<1> HIDE DEF all, others, first
<1>6. CASE Len(all) <= RequestCap
  BY <1>0, <1>1, <1>2, <1>3, <1>6 DEF ToSet
<1>7. CASE ~(Len(all) <= RequestCap)
  <2>1. r = RemoveAt(all, first)
    BY <1>2, <1>7
  <2>2. /\ r \in Seq(ReqOf) /\ Len(r) = Len(all) - 1
        /\ \A j \in 1..Len(all) : j # first => \E k \in 1..Len(r) : r[k] = all[j]
    BY <1>1, <1>4, <2>1, OneRemoved
  <2>3. Len(r) \in 1..RequestCap
    BY <1>0, <1>1, <1>7, <2>2
  <2>4. \E j \in 1..Len(all) : j # first /\ all[j] = connect
    <3>1. CASE others = {}
      <4>1. \E j \in 1..Len(all) : j # first
        BY <1>0, <1>1, <1>4, <1>7
      <4> QED BY <1>5, <3>1, <4>1
    <3>2. CASE others # {}
      BY <1>3, <1>4, <3>2
    <3> QED BY <3>1, <3>2
  <2>5. connect \in ToSet(r)
    BY <2>2, <2>4 DEF ToSet
  <2> QED BY <2>2, <2>3, <2>5
<1> QED BY <1>6, <1>7

-----------------------------------------------------------------------------
(* Browser child: the steps.                                               *)

\* What the types say of a state.
LEMMA ChildFacts ==
  ASSUME ChildInv
  PROVE  /\ children \in Nat /\ navigations \in Nat
         /\ Held => childLife.session = children /\ act # Nothing
         /\ ~Held => childLife = NoChildLife
         /\ childLife.pc \in {"add", "relay", "replay"} => childLife.target \in Pages
         /\ childLife.pc = "check" => childLife.url \in Pages
         /\ childLife.pc = "eval" => childLife.cred \in CredOf
         /\ act # Nothing => act \in ActOf /\ act.session = children
         /\ child # Nothing => child \in ChildOf /\ child.session \in Nat
         /\ \A i \in 1..Len(scripts) : scripts[i] \in CredOf
         /\ NoChildLife.pc = "free"
BY DEF ChildInv, BridgeTypes, Newest, Alone, Held, NoChildLife, ChildOf, ActOf

\* Steps that leave what is active, the child and the webview alone, or forget relays.
LEMMA LifeMoves ==
  ASSUME ChildInv, UNCHANGED <<act, child, scripts, children, navigations, commands, moved>>,
         relays' \subseteq relays, childLife.pc # "add",
         \/ childLife' = childLife \/ childLife' = NoChildLife
         \/ childLife' = [pc |-> "show", session |-> children] /\ act # Nothing
         \/ childLife' \in [pc : {"check"}, session : {children}, gen : Nat, url : Pages] /\ act # Nothing
  PROVE  ChildInv'
<1>1. /\ childLife'.pc # "add" /\ (Held' => act # Nothing)
      /\ childLife'.pc = "eval" => childLife' = childLife
  BY ChildFacts DEF Held, NoChildLife
<1>2. BridgeTypes'
  BY DEF ChildInv, BridgeTypes
<1>3. Newest'
  BY DEF ChildInv, Newest, policy_allows
<1>4. Alone'
  BY <1>1 DEF ChildInv, Alone, Held
<1>5. Issued'
  BY <1>1 DEF ChildInv, Issued, UpToNow
<1>6. DocumentShown'
  BY DEF ChildInv, DocumentShown
<1>7. AtHome'
  BY <1>1 DEF ChildInv, AtHome, OnTheWay, Cred
<1> QED BY <1>2, <1>3, <1>4, <1>5, <1>6, <1>7 DEF ChildInv

\* The state is cleared, and perhaps the child closed.
LEMMA Cleared ==
  ASSUME ChildInv, act' = Nothing, child' = child \/ child' = Nothing, childLife' = NoChildLife,
         UNCHANGED <<scripts, relays, children, navigations, commands, moved>>
  PROVE  ChildInv'
<1>1. childLife'.pc = "free"
  BY DEF NoChildLife
<1>2. BridgeTypes'
  BY DEF ChildInv, BridgeTypes
<1>3. Newest'
  BY DEF ChildInv, Newest
<1>4. Alone'
  BY <1>1 DEF Alone, Held
<1>5. Issued'
  BY <1>1 DEF ChildInv, Issued, UpToNow
<1>6. DocumentShown'
  BY DEF ChildInv, DocumentShown
<1>7. AtHome'
  BY DEF AtHome
<1> QED BY <1>2, <1>3, <1>4, <1>5, <1>6, <1>7 DEF ChildInv

\* The active record gets another relay flag or other request ids, and no other change.
LEMMA SameCredentials ==
  ASSUME ChildInv, act # Nothing, act' \in ActOf, act'.session = act.session, act'.url = act.url,
         act'.gen = act.gen, act'.connect = act.connect,
         Len(act'.ids) \in 1..RequestCap, act'.connect \in ToSet(act'.ids),
         UNCHANGED <<child, scripts, relays, children, navigations, moved>>, commands' \in Nat,
         childLife.pc # "add",
         childLife' = childLife \/ childLife' \in [pc : {"replay"}, session : {children}, target : Pages]
  PROVE  ChildInv'
<1>1. childLife'.pc # "add" /\ (childLife'.pc = "eval" => childLife' = childLife)
  OBVIOUS
<1>2. BridgeTypes'
  BY DEF ChildInv, BridgeTypes
<1>3. Newest'
  BY DEF ChildInv, Newest, policy_allows
<1>4. Alone'
  <2>1. act' # Nothing
    BY NothingIsNoRecord
  <2> QED BY <1>1, <2>1 DEF ChildInv, Alone, Held
<1>5. Issued'
  BY <1>1 DEF ChildInv, Issued, UpToNow
<1>6. DocumentShown'
  BY DEF ChildInv, DocumentShown
<1>7. AtHome'
  <2>1. Cred(act') = Cred(act)
    BY DEF Cred
  <2> QED BY <1>1, <2>1 DEF ChildInv, AtHome, OnTheWay
<1> QED BY <1>2, <1>3, <1>4, <1>5, <1>6, <1>7 DEF ChildInv

\* create: a new session, at its first page, without a child.
LEMMA CreateStarts ==
  ASSUME ChildInv, NEW u \in Pages, CreateStart(u)
  PROVE  ChildInv'
<1>1. /\ childLife = NoChildLife /\ act = Nothing /\ policy_allows(u)
      /\ children' = children + 1 /\ child' = Nothing
      /\ childLife' = [pc |-> "add", session |-> children + 1, target |-> u]
      /\ UNCHANGED <<scripts, relays, navigations, commands, moved>>
      /\ act' = [session |-> children + 1, url |-> u, gen |-> 0, connect |-> <<0, "c">>,
                 ids |-> <<<<0, "c">>>>, relay |-> FALSE]
  BY DEF CreateStart, webview
<1>2. /\ act' \in ActOf /\ act'.session = children + 1 /\ act'.url = u /\ act'.gen = 0
      /\ act'.connect = <<0, "c">> /\ act'.ids = <<<<0, "c">>>>
  <2>1. <<0, "c">> \in Nat \X {"c"} /\ <<<<0, "c">>>> \in Seq(ReqOf) /\ children + 1 \in Nat
    BY ChildFacts DEF ReqOf
  <2>2. PICK c, q : c = <<0, "c">> /\ q = <<<<0, "c">>>>
    OBVIOUS
  <2>3. act' = [session |-> children + 1, url |-> u, gen |-> 0, connect |-> c, ids |-> q, relay |-> FALSE]
    BY <1>1, <2>2
  <2> QED BY <2>1, <2>2, <2>3 DEF ActOf
<1>3. /\ childLife'.pc = "add" /\ childLife'.target = u /\ children \in Nat /\ navigations \in Nat
  BY <1>1, ChildFacts
<1>4. BridgeTypes'
  <2>1. childLife' \in [pc : {"add", "relay", "replay"}, session : {children'}, target : Pages]
    BY <1>1
  <2>2. act' \in ActOf \cup {Nothing} /\ child' \in ChildOf \cup {Nothing} /\ children' \in Nat
    BY <1>1, <1>2, <1>3
  <2>3. /\ scripts' \in Seq(CredOf) /\ Len(scripts') <= MaxScripts
        /\ navigations' \in 0..MaxNavigations /\ commands' \in Nat
    BY <1>1 DEF ChildInv, BridgeTypes
  <2> QED BY <2>1, <2>2, <2>3 DEF BridgeTypes
<1>5. Newest'
  <2>1. Len(act'.ids) \in 1..RequestCap /\ act'.connect \in ToSet(act'.ids)
    BY <1>2, ChildAssumption DEF ToSet
  <2>2. policy_allows(act'.url)
    BY <1>1, <1>2
  <2>3. \A m \in relays' : m.session \in 0..children'
    BY <1>1, <1>3 DEF ChildInv, Newest
  <2> QED BY <1>1, <1>2, <1>3, <2>1, <2>2, <2>3 DEF Newest, policy_allows
<1>6. Alone'
  <2>1. act' # Nothing
    BY <1>2, NothingIsNoRecord
  <2>2. \A m \in relays' : m.session # children'
    BY <1>1, <1>3 DEF ChildInv, Newest
  <2> QED BY <1>1, <1>2, <1>3, <2>1, <2>2 DEF Alone
<1>7. Issued'
  <2>1. \A i \in 1..Len(scripts) : scripts[i].session \in Nat /\ scripts[i].session <= children
    BY ChildFacts DEF ChildInv, Issued, UpToNow, CredOf
  <2> QED BY <1>1, <1>3, <2>1 DEF Issued, UpToNow
<1>8. DocumentShown' /\ AtHome'
  BY <1>1 DEF DocumentShown, AtHome
<1> QED BY <1>4, <1>5, <1>6, <1>7, <1>8 DEF ChildInv

\* add_child: the child, on its way to the target.
LEMMA CreateAddsChild ==
  ASSUME ChildInv, CreateAdds
  PROVE  ChildInv'
<1>1. /\ childLife.pc = "add" /\ childLife.session = children /\ childLife.target \in Pages
      /\ act # Nothing /\ act \in ActOf /\ childLife.target = act.url /\ children \in Nat
      /\ act.session = children
      /\ childLife \in [pc : {"add", "relay", "replay"}, session : {children}, target : Pages]
  <2>1. childLife.pc = "add"
    BY DEF CreateAdds
  <2>2. childLife \in [pc : {"add", "relay", "replay"}, session : {children}, target : Pages]
    BY <2>1 DEF ChildInv, BridgeTypes, NoChildLife
  <2> QED BY <2>1, <2>2, ChildFacts DEF Held, ChildInv, Alone
<1>2. /\ child' = [session |-> children, url |-> Nothing, pending |-> act.url, doc |-> NoDoc]
      /\ childLife' = [childLife EXCEPT !.pc = "relay"]
      /\ UNCHANGED <<act, scripts, relays, children, navigations, commands, moved>>
  BY <1>1 DEF CreateAdds, webview, spent
<1>3. /\ childLife' \in [pc : {"add", "relay", "replay"}, session : {children}, target : Pages]
      /\ childLife'.pc = "relay"
  BY <1>1, <1>2
<1>4. /\ child' \in ChildOf /\ child' # Nothing /\ child'.session = children /\ child'.url = Nothing
      /\ child'.pending = act.url /\ child'.doc = NoDoc
  <2>1. NoDoc \in DocOf
    BY DEF NoDoc, DocOf, Urls
  <2>2. PICK d : d = NoDoc
    OBVIOUS
  <2>3. child' = [session |-> children, url |-> Nothing, pending |-> act.url, doc |-> d]
    BY <1>2, <2>2
  <2>4. child' \in ChildOf
    BY <1>1, <2>1, <2>2, <2>3 DEF ChildOf, Urls, ActOf
  <2> QED BY <2>2, <2>3, <2>4, NothingIsNoRecord
<1>5. BridgeTypes'
  BY <1>2, <1>3, <1>4 DEF ChildInv, BridgeTypes
<1>6. Newest'
  BY <1>1, <1>2, <1>4 DEF ChildInv, Newest, policy_allows
<1>7. Alone'
  BY <1>1, <1>2, <1>3, <1>4 DEF Alone
<1>d. child'.doc.cred = Nothing /\ child'.doc.url = Nothing
  BY <1>4 DEF NoDoc
<1>8. Issued'
  BY <1>2, <1>3, <1>d DEF ChildInv, Issued, UpToNow
<1>9. DocumentShown'
  BY <1>4, <1>d DEF DocumentShown
<1>10. AtHome'
  <2>1. Cred(act) \in CredOf
    BY <1>1 DEF Cred, CredOf, ActOf
  <2>2. child'.doc.cred # Cred(act)'
    BY <1>2, <1>d, <2>1, NothingIsNoRecord DEF Cred
  <2> QED BY <1>2, <1>4, <2>2 DEF AtHome
<1> QED BY <1>5, <1>6, <1>7, <1>8, <1>9, <1>10 DEF ChildInv

\* page_loaded_replay: the credentials of now, for the page the child shows or will show,
\* or the committed page moves.
LEMMA CreateReplaysPage ==
  ASSUME ChildInv, CreateReplays
  PROVE  ChildInv'
<1> DEFINE u == childLife.url
           current == /\ Live(childLife.session) /\ policy_allows(u)
                      /\ child.url \in {Nothing, u} /\ act.gen = childLife.gen
<1>0. /\ childLife.pc = "check" /\ childLife.session = children /\ u \in Pages
      /\ act # Nothing /\ act \in ActOf /\ act.session = children /\ children \in Nat
      /\ child # Nothing /\ child \in ChildOf /\ child.session = children
  <2>1. childLife.pc = "check"
    BY DEF CreateReplays
  <2> QED BY <2>1, ChildFacts DEF Held, ChildInv, Alone
<1>1. CASE ~current
  <2>1. /\ act' = act /\ childLife' = [pc |-> "show", session |-> children]
        /\ UNCHANGED <<child, scripts, relays, children, navigations, commands>>
    BY <1>0, <1>1 DEF CreateReplays, webview
  <2>2. moved' = moved
    BY <2>1 DEF CreateReplays
  <2> QED BY <1>0, <2>1, <2>2, LifeMoves
<1>2. CASE current
  <2>1. /\ act' = [act EXCEPT !.url = u] /\ policy_allows(u) /\ child.url \in {Nothing, u}
        /\ childLife' = [pc |-> "eval", session |-> children, cred |-> Cred(act)]
        /\ UNCHANGED <<child, scripts, relays, children, navigations, commands>>
        /\ moved' = IF act' # act THEN moved \cup {children} ELSE moved
    BY <1>0, <1>2 DEF CreateReplays, webview
  <2> HIDE DEF u, current
  <2>2. /\ act' \in ActOf /\ act'.session = act.session /\ act'.url = u /\ act'.gen = act.gen
        /\ act'.connect = act.connect /\ act'.ids = act.ids
        /\ u # act.url => act' # act
        /\ Cred(act)' = Cred(act)
    <3>1. /\ act' \in ActOf /\ act'.session = act.session /\ act'.url = u /\ act'.gen = act.gen
          /\ act'.connect = act.connect /\ act'.ids = act.ids
      BY <1>0, <2>1 DEF ActOf
    <3> QED BY <3>1 DEF Cred
  <2>3. PICK c \in CredOf : c = Cred(act) /\ c.session = children /\ c.gen = act.gen
    <3>1. Cred(act) \in CredOf
      BY <1>0 DEF Cred, CredOf, ActOf
    <3>2. Cred(act).session = act.session /\ Cred(act).gen = act.gen
      BY DEF Cred
    <3> QED BY <1>0, <3>1, <3>2
  <2>4. childLife' \in [pc : {"eval"}, session : {children}, cred : CredOf] /\ childLife'.cred = c
        /\ childLife'.pc = "eval"
    BY <2>1, <2>3
  <2>5. act.gen \in Nat /\ act' # Nothing
    BY <1>0, <2>2, NothingIsNoRecord DEF ActOf
  <2>6. BridgeTypes'
    BY <2>1, <2>2, <2>4 DEF ChildInv, BridgeTypes
  <2>7. Newest'
    BY <1>0, <2>1, <2>2 DEF ChildInv, Newest, policy_allows
  <2>8. Alone'
    BY <1>0, <2>1, <2>4, <2>5 DEF Alone
  <2>9. Issued'
    <3>1. UpToNow(c)'
      BY <1>0, <2>1, <2>2, <2>3, <2>5 DEF UpToNow
    <3> QED BY <1>0, <2>1, <2>2, <2>4, <3>1 DEF ChildInv, Issued, UpToNow
  <2>10. DocumentShown'
    BY <2>1 DEF ChildInv, DocumentShown
  <2>11. AtHome'
    <3>1. CASE u # act.url
      BY <1>0, <2>1, <2>2, <3>1 DEF AtHome
    <3>2. CASE u = act.url
      <4>1. child.doc = NoDoc \/ child.doc.url = act.url
        BY <1>0, <2>1, <3>2 DEF ChildInv, DocumentShown
      <4>2. act.session \notin moved =>
              child.pending \in {Nothing, act.url} /\ (child.doc.cred = Cred(act) => child.doc.url = act.url)
        BY <1>0 DEF ChildInv, AtHome
      <4>3. moved \subseteq moved'
        BY <2>1
      <4> QED BY <2>1, <2>2, <3>2, <4>1, <4>2, <4>3 DEF AtHome
    <3> QED BY <3>1, <3>2
  <2> QED BY <2>6, <2>7, <2>8, <2>9, <2>10, <2>11 DEF ChildInv
<1> QED BY <1>1, <1>2

\* Scripts, one more.
LEMMA ScriptSent ==
  ASSUME scripts \in Seq(CredOf), NEW c \in CredOf, scripts' = Append(scripts, c), Len(scripts) < MaxScripts
  PROVE  /\ scripts' \in Seq(CredOf) /\ Len(scripts') <= MaxScripts
         /\ \A i \in 1..Len(scripts') : (i \in 1..Len(scripts) /\ scripts'[i] = scripts[i]) \/ scripts'[i] = c
<1>1. scripts' \in Seq(CredOf) /\ Len(scripts') = Len(scripts) + 1 /\ Len(scripts) \in Nat
  OBVIOUS
<1>2. \A i \in 1..Len(scripts') : (i \in 1..Len(scripts) /\ scripts'[i] = scripts[i]) \/ scripts'[i] = c
  OBVIOUS
<1> QED BY <1>1, <1>2, ChildAssumption

\* eval: the credentials taken at the replay.
LEMMA CreateEvalsScript ==
  ASSUME ChildInv, CreateEvals
  PROVE  ChildInv'
<1>1. /\ childLife.pc = "eval" /\ childLife.cred \in CredOf /\ act # Nothing /\ children \in Nat
      /\ childLife' = [pc |-> "show", session |-> children]
      /\ scripts' = Append(scripts, childLife.cred) /\ Len(scripts) < MaxScripts
      /\ UNCHANGED <<act, child, relays, children, navigations, commands, moved>>
  <2>1. childLife.pc = "eval"
    BY DEF CreateEvals
  <2> QED BY <2>1, ChildFacts DEF CreateEvals, spent, Held
<1>2. /\ scripts' \in Seq(CredOf) /\ Len(scripts') <= MaxScripts
      /\ \A i \in 1..Len(scripts') : \/ i \in 1..Len(scripts) /\ scripts'[i] = scripts[i]
                                     \/ scripts'[i] = childLife.cred
  BY <1>1, ScriptSent DEF ChildInv, BridgeTypes
<1>3. childLife'.pc = "show"
  BY <1>1
<1>4. BridgeTypes'
  BY <1>1, <1>2 DEF ChildInv, BridgeTypes
<1>5. Newest'
  BY <1>1 DEF ChildInv, Newest, policy_allows
<1>6. Alone'
  BY <1>1, <1>3 DEF ChildInv, Alone, Held
<1>7. Issued'
  BY <1>1, <1>2, <1>3 DEF ChildInv, Issued, UpToNow
<1>8. DocumentShown'
  BY <1>1 DEF ChildInv, DocumentShown
<1>9. AtHome'
  <2>1. \A c : OnTheWay(c)' => OnTheWay(c)
    BY <1>1, <1>2, <1>3 DEF OnTheWay
  <2> QED BY <1>1, <2>1 DEF ChildInv, AtHome, Cred
<1> QED BY <1>4, <1>5, <1>6, <1>7, <1>8, <1>9 DEF ChildInv

\* page_loaded: the credentials of now, for the committed page, which the child shows.
LEMMA PageLoads ==
  ASSUME ChildInv, NEW e \in loads, page_loaded(e)
  PROVE  ChildInv'
<1>0. /\ UNCHANGED <<act, child, childLife, relays, children, navigations, commands, moved>>
      /\ \/ scripts' = scripts
         \/ /\ scripts' = Append(scripts, Cred(act)) /\ Len(scripts) < MaxScripts
            /\ act # Nothing /\ child # Nothing /\ child.url = act.url
  BY DEF page_loaded, spent, Live
<1>1. CASE scripts' = scripts
  <2>1. BridgeTypes' /\ Newest' /\ Alone'
    BY <1>0, <1>1 DEF ChildInv, BridgeTypes, Newest, Alone, Held, policy_allows
  <2>2. Issued' /\ DocumentShown' /\ AtHome'
    BY <1>0, <1>1 DEF ChildInv, Issued, UpToNow, DocumentShown, AtHome, OnTheWay, Cred
  <2> QED BY <2>1, <2>2 DEF ChildInv
<1>2. CASE scripts' = Append(scripts, Cred(act)) /\ Len(scripts) < MaxScripts
           /\ act # Nothing /\ child # Nothing /\ child.url = act.url
  <2>1. /\ Cred(act) \in CredOf /\ Cred(act).session = children /\ Cred(act).gen = act.gen /\ act.gen \in Nat
        /\ act.session = children /\ children \in Nat
    <3>1. act \in ActOf /\ act.session = children /\ children \in Nat
      BY <1>2, ChildFacts
    <3>2. Cred(act).session = act.session /\ Cred(act).gen = act.gen
      BY DEF Cred
    <3>3. Cred(act) \in CredOf
      BY <3>1 DEF Cred, CredOf, ActOf
    <3> QED BY <3>1, <3>2, <3>3 DEF ActOf
  <2>2. PICK c \in CredOf : c = Cred(act)
    BY <2>1
  <2>3. /\ scripts' \in Seq(CredOf) /\ Len(scripts') <= MaxScripts
        /\ \A i \in 1..Len(scripts') : (i \in 1..Len(scripts) /\ scripts'[i] = scripts[i]) \/ scripts'[i] = c
    BY <1>2, <2>2, ScriptSent DEF ChildInv, BridgeTypes
  <2>4. BridgeTypes' /\ Newest' /\ Alone' /\ DocumentShown'
    <3>1. BridgeTypes'
      BY <1>0, <2>3 DEF ChildInv, BridgeTypes
    <3> QED BY <1>0, <3>1 DEF ChildInv, Newest, Alone, Held, DocumentShown, policy_allows
  <2>5. Issued'
    <3>1. UpToNow(c)
      BY <2>1, <2>2 DEF UpToNow
    <3> QED BY <1>0, <2>3, <3>1 DEF ChildInv, Issued, UpToNow
  <2>6. AtHome'
    <3>1. child.doc.url = act.url
      BY <1>2 DEF ChildInv, DocumentShown
    <3> QED BY <1>0, <3>1 DEF ChildInv, AtHome, Cred
  <2> QED BY <2>4, <2>5, <2>6 DEF ChildInv
<1> QED BY <1>0, <1>1, <1>2

\* navigation_requested: new credentials, which nobody has, for the page it leads to.
LEMMA Navigates ==
  ASSUME ChildInv, NEW u \in Pages, navigation_requested(u)
  PROVE  ChildInv'
<1>0. /\ child # Nothing /\ navigations < MaxNavigations /\ navigations' = navigations + 1
      /\ UNCHANGED <<childLife, scripts, relays, children, commands, moved>>
      /\ navigations \in Nat /\ navigations' \in 0..MaxNavigations
      /\ childLife.pc # "add"
  <2>1. childLife.pc # "add" /\ navigations \in Nat /\ navigations < MaxNavigations
    BY ChildFacts DEF navigation_requested, ChildInv, Alone
  <2> QED BY <2>1, ChildAssumption DEF navigation_requested, webview
<1>1. CASE UNCHANGED <<act, child>>
  <2>1. BridgeTypes'
    BY <1>0, <1>1 DEF ChildInv, BridgeTypes
  <2>2. act # Nothing => act.gen \in Nat
    BY ChildFacts DEF ActOf
  <2>3. Newest'
    BY <1>0, <1>1, <2>2 DEF ChildInv, Newest, policy_allows
  <2>4. Alone' /\ Issued' /\ DocumentShown' /\ AtHome'
    BY <1>0, <1>1 DEF ChildInv, Alone, Held, Issued, UpToNow, DocumentShown, AtHome, OnTheWay, Cred
  <2> QED BY <2>1, <2>3, <2>4 DEF ChildInv
<1>2. CASE Live(child.session) /\ policy_allows(u)
  <2>1. /\ act # Nothing /\ act \in ActOf /\ act.session = children /\ children \in Nat
        /\ child \in ChildOf /\ child.session = children /\ act.gen \in Nat
    BY <1>0, <1>2, ChildFacts DEF Live, ActOf
  <2>2. PICK c \in Nat \X {"c"} : c = <<act.gen + 1, "c">>
    <3>1. act.gen + 1 \in Nat
      BY <2>1
    <3> QED BY <3>1
  <2>3. PICK ids : ids = remember_request(<<>>, c, c)
    OBVIOUS
  <2>4. /\ act' = [act EXCEPT !.gen = @ + 1, !.connect = c, !.url = u, !.ids = ids]
        /\ child' = [child EXCEPT !.pending = u]
    BY <1>2, <2>2, <2>3 DEF navigation_requested
  <2>5. ids \in Seq(ReqOf) /\ Len(ids) \in 1..RequestCap /\ c \in ToSet(ids)
    <3>1. c \in ReqOf /\ <<>> \in Seq(ReqOf) /\ Len(<<>>) <= RequestCap
      BY ChildAssumption DEF ReqOf
    <3> QED BY <2>3, <3>1, RememberFacts
  <2>6. /\ act' \in ActOf /\ act'.session = children /\ act'.gen = act.gen + 1 /\ act'.connect = c
        /\ act'.url = u /\ act'.ids = ids
    BY <2>1, <2>2, <2>4, <2>5 DEF ActOf
  <2>7. /\ child' \in ChildOf /\ child'.session = children /\ child'.url = child.url /\ child'.doc = child.doc
        /\ child'.pending = u
    BY <2>1, <2>4 DEF ChildOf, Urls
  <2>8. act' # Nothing /\ child' # Nothing
    BY <2>6, <2>7, NothingIsNoRecord
  <2>9. BridgeTypes'
    BY <1>0, <2>6, <2>7 DEF ChildInv, BridgeTypes
  <2>10. Newest'
    <3>1. act'.gen <= navigations'
      BY <1>0, <2>1, <2>6 DEF ChildInv, Newest
    <3>2. policy_allows(act'.url) /\ Len(act'.ids) \in 1..RequestCap /\ act'.connect \in ToSet(act'.ids)
      BY <1>2, <2>5, <2>6
    <3> QED BY <1>0, <2>1, <2>6, <2>7, <3>1, <3>2 DEF ChildInv, Newest, policy_allows
  <2>11. Alone'
    BY <1>0, <2>6, <2>7, <2>8 DEF Alone
  <2>12. Issued'
    <3>1. \A d \in CredOf : UpToNow(d) => UpToNow(d)' /\ d # Cred(act)'
      <4>1. ASSUME NEW d \in CredOf, UpToNow(d) PROVE UpToNow(d)'
        BY <1>0, <2>1, <2>6, <4>1 DEF UpToNow, CredOf
      <4>2. ASSUME NEW d \in CredOf, UpToNow(d) PROVE d # Cred(act)'
        <5>1. Cred(act)'.session = children /\ Cred(act)'.gen = act.gen + 1
          BY <2>6 DEF Cred
        <5> QED BY <2>1, <4>2, <5>1 DEF UpToNow, CredOf
      <4> QED BY <4>1, <4>2
    <3> QED BY <1>0, <2>1, <2>7, <3>1, ChildFacts DEF ChildInv, Issued, ChildOf, DocOf
  <2>13. DocumentShown'
    BY <1>0, <2>7 DEF ChildInv, DocumentShown
  <2>14. AtHome'
    <3>1. \A d \in CredOf : UpToNow(d) => d # Cred(act)'
      <4>1. Cred(act)'.session = children /\ Cred(act)'.gen = act.gen + 1
        BY <2>6 DEF Cred
      <4> QED BY <2>1, <4>1 DEF UpToNow, CredOf
    <3>0. PICK c1 : c1 = Cred(act)'
      OBVIOUS
    <3>2. ~OnTheWay(c1)'
      BY <1>0, <3>0, <3>1, ChildFacts DEF ChildInv, Issued, OnTheWay
    <3>3. child'.doc.cred # Cred(act)'
      <4>1. child.doc.cred = Nothing \/ (child.doc.cred \in CredOf /\ UpToNow(child.doc.cred))
        BY <1>0, <2>1 DEF ChildInv, Issued, ChildOf, DocOf
      <4>2. Cred(act)' \in CredOf
        BY <2>6 DEF Cred, CredOf, ActOf
      <4> QED BY <2>7, <3>1, <4>1, <4>2, NothingIsNoRecord
    <3>4. child'.pending = act'.url
      BY <2>6, <2>7
    <3> QED BY <3>0, <3>2, <3>3, <3>4 DEF AtHome, OnTheWay
  <2> QED BY <2>9, <2>10, <2>11, <2>12, <2>13, <2>14 DEF ChildInv
<1> QED BY <1>1, <1>2 DEF navigation_requested

\* The document of a navigation: no credentials yet.
LEMMA DocumentCommits ==
  ASSUME ChildInv, WebviewCommits
  PROVE  ChildInv'
<1>0. /\ child # Nothing /\ child \in ChildOf /\ child.pending # Nothing
      /\ child' = [child EXCEPT !.url = child.pending, !.pending = Nothing,
                                !.doc = [url |-> child.pending, cred |-> Nothing]]
      /\ UNCHANGED <<act, childLife, scripts, relays, children, navigations, commands, moved>>
  BY ChildFacts DEF WebviewCommits, spent
<1>1. PICK d \in DocOf : d = [url |-> child.pending, cred |-> Nothing]
  BY <1>0 DEF DocOf, ChildOf
<1>2. /\ child' \in ChildOf /\ child' # Nothing /\ child'.session = child.session
      /\ child'.url = child.pending /\ child'.pending = Nothing /\ child'.doc = d
      /\ d.url = child.pending /\ d.cred = Nothing
  <2>1. child' = [child EXCEPT !.url = child.pending, !.pending = Nothing, !.doc = d]
    BY <1>0, <1>1
  <2>2. /\ child' \in ChildOf /\ child'.session = child.session
        /\ child'.url = child.pending /\ child'.pending = Nothing /\ child'.doc = d
    BY <1>0, <1>1, <2>1 DEF ChildOf, Urls
  <2> QED BY <1>1, <2>2, NothingIsNoRecord
<1>3. BridgeTypes'
  BY <1>0, <1>2 DEF ChildInv, BridgeTypes
<1>4. Newest'
  BY <1>0, <1>2 DEF ChildInv, Newest, policy_allows
<1>5. Alone'
  BY <1>0, <1>2 DEF ChildInv, Alone, Held
<1>6. Issued'
  BY <1>0, <1>2 DEF ChildInv, Issued, UpToNow
<1>7. DocumentShown'
  BY <1>0, <1>2 DEF DocumentShown
<1>8. AtHome'
  <2>1. act # Nothing => Cred(act) # Nothing
    <3>1. act # Nothing => Cred(act) \in CredOf
      BY ChildFacts DEF Cred, CredOf, ActOf
    <3> QED BY <3>1, NothingIsNoRecord
  <2> QED BY <1>0, <1>2, <2>1 DEF ChildInv, AtHome, Cred
<1> QED BY <1>3, <1>4, <1>5, <1>6, <1>7, <1>8 DEF ChildInv

\* eval: the oldest script runs in the document of now, if it is its child's.
LEMMA ScriptIsRun ==
  ASSUME ChildInv, ScriptRuns
  PROVE  ChildInv'
<1>0. /\ scripts # <<>> /\ scripts' = Tail(scripts)
      /\ UNCHANGED <<act, childLife, relays, children, navigations, commands, moved>>
      /\ \/ child' = child
         \/ /\ child # Nothing /\ child.session = Head(scripts).session /\ child.doc # NoDoc
            /\ child' = [child EXCEPT !.doc.cred = Head(scripts)]
  BY DEF ScriptRuns, spent
<1>1. PICK c \in CredOf : c = Head(scripts) /\ c = scripts[1] /\ 1 \in 1..Len(scripts)
  <2>1. Head(scripts) \in CredOf /\ Head(scripts) = scripts[1] /\ 1 \in 1..Len(scripts)
    BY <1>0 DEF ChildInv, BridgeTypes
  <2> QED BY <2>1
<1>2. /\ scripts' \in Seq(CredOf) /\ Len(scripts') <= MaxScripts
      /\ \A i \in 1..Len(scripts') : i + 1 \in 1..Len(scripts) /\ scripts'[i] = scripts[i + 1]
  <2>1. scripts \in Seq(CredOf) /\ Len(scripts) <= MaxScripts /\ Len(scripts) \in Nat /\ scripts # <<>>
    BY <1>0 DEF ChildInv, BridgeTypes
  <2>2. scripts' \in Seq(CredOf) /\ Len(scripts') = Len(scripts) - 1
    BY <1>0, <2>1
  <2>3. \A i \in 1..Len(scripts') : i + 1 \in 1..Len(scripts) /\ scripts'[i] = scripts[i + 1]
    BY <1>0, <2>1, <2>2
  <2> QED BY <2>1, <2>2, <2>3, ChildAssumption
<1>3. /\ child # Nothing <=> child' # Nothing
      /\ child' \in ChildOf \cup {Nothing}
      /\ child # Nothing => /\ child'.session = child.session /\ child'.url = child.url
                            /\ child'.pending = child.pending /\ child'.doc.url = child.doc.url
                            /\ child'.doc = child.doc \/ /\ child'.doc.cred = c /\ child.doc # NoDoc
                                                         /\ c.session = child.session
  <2>1. CASE child' = child
    BY <2>1 DEF ChildInv, BridgeTypes
  <2>2. CASE /\ child # Nothing /\ child.session = c.session /\ child.doc # NoDoc
             /\ child' = [child EXCEPT !.doc.cred = c]
    <3>1. child \in ChildOf /\ child.doc \in DocOf
      BY <2>2, ChildFacts DEF ChildOf
    <3>2. PICK d : d = [child.doc EXCEPT !.cred = c]
      OBVIOUS
    <3>3. d \in DocOf /\ d.cred = c /\ d.url = child.doc.url
      BY <3>1, <3>2 DEF DocOf
    <3>4. child' = [child EXCEPT !.doc = d]
      BY <2>2, <3>2
    <3>5. /\ child' \in ChildOf /\ child'.session = child.session /\ child'.url = child.url
          /\ child'.pending = child.pending /\ child'.doc = d
      BY <3>1, <3>3, <3>4 DEF ChildOf
    <3> QED BY <2>2, <3>3, <3>5, NothingIsNoRecord
  <2> QED BY <1>0, <1>1, <2>1, <2>2
<1>4. \A x : OnTheWay(x)' => OnTheWay(x)
  BY <1>0, <1>2 DEF OnTheWay
<1>5. UpToNow(c) /\ OnTheWay(c)
  BY <1>1 DEF ChildInv, Issued, OnTheWay
<1>6. BridgeTypes'
  BY <1>0, <1>2, <1>3 DEF ChildInv, BridgeTypes
<1>7. Newest'
  BY <1>0, <1>3 DEF ChildInv, Newest, policy_allows
<1>8. Alone'
  BY <1>0, <1>3 DEF ChildInv, Alone, Held
<1>9. Issued'
  <2>1. \A x : UpToNow(x) => UpToNow(x)'
    BY <1>0 DEF UpToNow
  <2>2. \A i \in 1..Len(scripts') : UpToNow(scripts'[i])
    BY <1>2 DEF ChildInv, Issued
  <2>3. child' # Nothing /\ child'.doc.cred # Nothing =>
          UpToNow(child'.doc.cred) /\ child'.doc.cred.session = child'.session
    BY <1>3, <1>5 DEF ChildInv, Issued
  <2> QED BY <1>0, <2>1, <2>2, <2>3 DEF ChildInv, Issued, UpToNow
<1>10. DocumentShown'
  <2>1. child # Nothing /\ child.url = Nothing => child.doc = NoDoc
    BY DEF ChildInv, DocumentShown
  <2>2. child # Nothing => child.url = child.doc.url
    BY DEF ChildInv, DocumentShown
  <2> QED BY <1>3, <2>1, <2>2 DEF DocumentShown
<1>11. AtHome'
  <2>1. ASSUME act # Nothing, child # Nothing, act.session \notin moved
        PROVE  /\ child'.pending \in {Nothing, act.url}
               /\ OnTheWay(Cred(act))' => child'.doc = NoDoc \/ child'.doc.url = act.url
               /\ child'.doc.cred = Cred(act) => child'.doc.url = act.url
    <3>1. /\ child.pending \in {Nothing, act.url}
          /\ OnTheWay(Cred(act)) => child.doc = NoDoc \/ child.doc.url = act.url
          /\ child.doc.cred = Cred(act) => child.doc.url = act.url
      BY <2>1 DEF ChildInv, AtHome
    <3>2. PICK x : x = Cred(act)
      OBVIOUS
    <3>3. Cred(act)' = Cred(act)
      BY <1>0 DEF Cred
    <3>4. OnTheWay(Cred(act))' => OnTheWay(Cred(act))
      BY <1>4, <3>2, <3>3 DEF OnTheWay
    <3>5. child'.doc = child.doc \/ (child'.doc.cred = c /\ child.doc # NoDoc)
      BY <1>3, <2>1
    <3> QED BY <1>3, <1>5, <2>1, <3>1, <3>4, <3>5
  <2> QED BY <1>0, <1>3, <2>1 DEF AtHome, Cred
<1> QED BY <1>6, <1>7, <1>8, <1>9, <1>10, <1>11 DEF ChildInv

\* A relay of the page the child shows.
LEMMA PageIsHeard ==
  ASSUME ChildInv, NEW kind, PageSends(kind)
  PROVE  ChildInv'
<1>0. /\ child # Nothing /\ UNCHANGED <<act, child, childLife, scripts, children, navigations, commands, moved>>
      /\ \A m \in relays' : m.session = child.session
      /\ child.session \in 0..children
  BY ChildFacts DEF PageSends, spent, ChildInv, Newest
<1>1. childLife.pc # "add"
  BY <1>0 DEF ChildInv, Alone
<1>2. BridgeTypes' /\ Alone' /\ Issued'
  BY <1>0, <1>1 DEF ChildInv, BridgeTypes, Alone, Held, Issued, UpToNow
<1>3. Newest'
  BY <1>0 DEF ChildInv, Newest, policy_allows
<1>4. DocumentShown' /\ AtHome'
  BY <1>0 DEF ChildInv, DocumentShown, AtHome, OnTheWay, Cred
<1> QED BY <1>2, <1>3, <1>4 DEF ChildInv

\* A relay is taken off: before its child is there the old ones may still be.
LEMMA RelayTaken ==
  ASSUME ChildInv, NEW m \in relays, RelayArrives(m)
  PROVE  ChildInv'
<1>0. /\ relays' \subseteq relays
      /\ UNCHANGED <<act, child, childLife, scripts, children, navigations, commands, moved>>
  BY DEF RelayArrives, spent
<1>1. BridgeTypes' /\ Alone' /\ Issued'
  BY <1>0 DEF ChildInv, BridgeTypes, Alone, Held, Issued, UpToNow
<1>2. Newest'
  BY <1>0 DEF ChildInv, Newest, policy_allows
<1>3. DocumentShown' /\ AtHome'
  BY <1>0 DEF ChildInv, DocumentShown, AtHome, OnTheWay, Cred
<1> QED BY <1>1, <1>2, <1>3 DEF ChildInv

\* The other steps of creation, and the other commands.
LEMMA CommandsKeep ==
  ASSUME ChildInv,
         \/ \E c \in BOOLEAN : CreateFails(c) \/ destroy(c)
         \/ \E i \in BOOLEAN : CreateRelay(i)
         \/ CreateSelects \/ CreateShows \/ dispatch_command
  PROVE  ChildInv'
<1>1. CASE \E c \in BOOLEAN : CreateFails(c)
  <2>1. /\ act' = Nothing /\ (child' = child \/ child' = Nothing) /\ childLife' = NoChildLife
        /\ UNCHANGED <<scripts, relays, children, navigations, commands, moved>>
    BY <1>1 DEF CreateFails, webview, spent
  <2> QED BY <2>1, Cleared
<1>2. CASE \E c \in BOOLEAN : destroy(c)
  <2>1. /\ childLife' = childLife /\ childLife = NoChildLife
        /\ UNCHANGED <<scripts, relays, children, navigations, commands, moved>>
        /\ \/ act' = Nothing /\ (child' = child \/ child' = Nothing)
           \/ act' = act /\ child' = child
    BY <1>2 DEF destroy, webview, spent
  <2>2. childLife.pc # "add" /\ relays' \subseteq relays
    BY <2>1 DEF NoChildLife
  <2> QED BY <2>1, <2>2, Cleared, LifeMoves
<1>3. CASE \E i \in BOOLEAN : CreateRelay(i)
  <2>1. PICK i \in BOOLEAN : CreateRelay(i)
    BY <1>3
  <2>2. /\ childLife.pc = "relay" /\ childLife' = [childLife EXCEPT !.pc = "replay"]
        /\ act' = (IF act = Nothing THEN act ELSE [act EXCEPT !.relay = i])
        /\ UNCHANGED <<child, scripts, relays, children, navigations, commands, moved>>
    BY <2>1 DEF CreateRelay, webview, spent
  <2>3. act # Nothing /\ act \in ActOf /\ act' = [act EXCEPT !.relay = i]
    BY <2>2, ChildFacts DEF Held
  <2>4. /\ act' \in ActOf /\ act'.session = act.session /\ act'.url = act.url /\ act'.gen = act.gen
        /\ act'.connect = act.connect /\ act'.ids = act.ids
    BY <2>3 DEF ActOf
  <2>5. childLife' \in [pc : {"replay"}, session : {children}, target : Pages]
    <3>1. childLife \in [pc : {"add", "relay", "replay"}, session : {children}, target : Pages]
      BY <2>2 DEF ChildInv, BridgeTypes, NoChildLife
    <3> QED BY <2>2, <3>1
  <2>6. Len(act'.ids) \in 1..RequestCap /\ act'.connect \in ToSet(act'.ids) /\ commands' \in Nat
    BY <2>2, <2>3, <2>4 DEF ChildInv, Newest, BridgeTypes
  <2> QED BY <2>2, <2>3, <2>4, <2>5, <2>6, SameCredentials
<1>4. CASE CreateSelects
  <2>1. /\ childLife.pc = "replay" /\ UNCHANGED <<act, child, scripts, relays, children, navigations, commands, moved>>
    BY <1>4 DEF CreateSelects, webview, spent
  <2>2. /\ act # Nothing /\ act \in ActOf /\ childLife.session = children
        /\ child # Nothing /\ child \in ChildOf
    BY <2>1, ChildFacts DEF Held, ChildInv, Alone
  <2>3. PICK u \in Pages : childLife' = [pc |-> "check", session |-> children, gen |-> act.gen, url |-> u]
    <3>1. act.url \in Pages /\ (child.url # Nothing => child.url \in Pages)
      BY <2>2 DEF ActOf, ChildOf, Urls
    <3> QED BY <1>4, <2>2, <3>1 DEF CreateSelects
  <2>4. childLife' \in [pc : {"check"}, session : {children}, gen : Nat, url : Pages]
    BY <2>2, <2>3 DEF ActOf
  <2>5. childLife.pc # "add" /\ relays' \subseteq relays
    BY <2>1
  <2> QED BY <2>1, <2>2, <2>4, <2>5, LifeMoves
<1>5. CASE CreateShows
  <2>1. /\ childLife.pc = "show" /\ childLife' = NoChildLife
        /\ UNCHANGED <<act, child, scripts, relays, children, navigations, commands, moved>>
    BY <1>5 DEF CreateShows, webview, spent
  <2>2. childLife.pc # "add" /\ relays' \subseteq relays
    BY <2>1
  <2> QED BY <2>1, <2>2, LifeMoves
<1>6. CASE dispatch_command
  <2>1. /\ childLife = NoChildLife /\ act # Nothing /\ commands' = commands + 1
        /\ act' = [act EXCEPT !.ids = remember_request(@, act.connect, <<commands + 1, "r">>)]
        /\ UNCHANGED <<child, childLife, scripts, relays, children, navigations, moved>>
    BY <1>6 DEF dispatch_command, webview
  <2>2. act \in ActOf /\ commands' \in Nat /\ childLife.pc # "add"
    BY <2>1, ChildFacts DEF ChildInv, BridgeTypes
  <2>3. PICK ids : ids = remember_request(act.ids, act.connect, <<commands + 1, "r">>)
    OBVIOUS
  <2>4. ids \in Seq(ReqOf) /\ Len(ids) \in 1..RequestCap /\ act.connect \in ToSet(ids)
    <3>1. PICK id \in ReqOf : id = <<commands + 1, "r">>
      BY <2>1, <2>2 DEF ReqOf
    <3>2. act.ids \in Seq(ReqOf) /\ act.connect \in ReqOf
      BY <2>2 DEF ActOf, ReqOf
    <3>3. Len(act.ids) <= RequestCap /\ act.connect \in ToSet(act.ids)
      BY <2>1 DEF ChildInv, Newest
    <3> QED BY <2>3, <3>1, <3>2, <3>3, RememberFacts
  <2>5. /\ act' \in ActOf /\ act'.session = act.session /\ act'.url = act.url /\ act'.gen = act.gen
        /\ act'.connect = act.connect /\ act'.ids = ids
    <3>1. act' = [act EXCEPT !.ids = ids]
      BY <2>1, <2>3
    <3> QED BY <2>2, <2>4, <3>1 DEF ActOf
  <2> QED BY <2>1, <2>2, <2>4, <2>5, SameCredentials
<1> QED BY <1>1, <1>2, <1>3, <1>4, <1>5, <1>6

-----------------------------------------------------------------------------
(* Browser child: the theorems.                                            *)

\* The inductive invariant: sessions are numbered, creation holds the lock until its
\* child is there, and the credentials of the committed generation are on their way to
\* the committed page or in it (page_loaded, navigation_requested, page_loaded_replay).
THEOREM ChildInvariant == ChildSpec => []ChildInv
<1>1. ChildInit => ChildInv
  <2> SUFFICES ASSUME ChildInit PROVE ChildInv
    OBVIOUS
  <2>1. /\ act = Nothing /\ child = Nothing /\ childLife = NoChildLife /\ childLife.pc = "free"
        /\ scripts = <<>> /\ relays = {} /\ children = 0 /\ navigations = 0 /\ commands = 0
    BY DEF ChildInit, NoChildLife
  <2>2. BridgeTypes
    BY <2>1, ChildAssumption DEF BridgeTypes
  <2> QED BY <2>1, <2>2 DEF ChildInv, Newest, Alone, Held, Issued, DocumentShown, AtHome
<1>2. ChildInv /\ [ChildNext]_childVars => ChildInv'
  <2> SUFFICES ASSUME ChildInv, [ChildNext]_childVars PROVE ChildInv'
    OBVIOUS
  <2>1. CASE ChildNext
    BY <2>1, CreateStarts, CreateAddsChild, CreateReplaysPage, CreateEvalsScript, PageLoads, Navigates,
       DocumentCommits, ScriptIsRun, PageIsHeard, RelayTaken, CommandsKeep DEF ChildNext
  <2>2. CASE UNCHANGED childVars
    <3>1. BridgeTypes' /\ Newest' /\ Alone'
      BY <2>2 DEF childVars, ChildInv, BridgeTypes, Newest, policy_allows, Alone, Held
    <3>2. Issued' /\ DocumentShown' /\ AtHome'
      BY <2>2 DEF childVars, ChildInv, Issued, UpToNow, DocumentShown, AtHome, OnTheWay, Cred
    <3> QED BY <3>1, <3>2 DEF ChildInv
  <2> QED BY <2>1, <2>2
<1> QED BY <1>1, <1>2, PTL DEF ChildSpec

\* The bridge carries nothing from or to a page that is not the approved one, for any
\* pages, origins, policies, limits of request ids and interleaving of callbacks with the
\* lifecycle commands (accept_relay, page_loaded, create, destroy).
THEOREM BridgeStaysConfined == ChildSpec => []BridgeIsConfined
<1>1. ASSUME ChildInv PROVE BridgeIsConfined
  <2>0. BridgeTypes /\ Newest /\ Alone /\ Issued /\ AtHome
    BY <1>1 DEF ChildInv
  <2>1. ChildTypeOK
    <3>1. act # Nothing => act.url \in Pages /\ act.gen \in 0..MaxNavigations
      <4>1. act # Nothing => act.url \in Pages /\ act.gen \in Nat
        BY <1>1, ChildFacts DEF ActOf
      <4>2. navigations \in 0..MaxNavigations /\ (act # Nothing => act.gen <= navigations)
        BY <2>0 DEF BridgeTypes, Newest
      <4> QED BY <4>1, <4>2, ChildAssumption
    <3>2. act # Nothing => Len(act.ids) \in 1..RequestCap /\ act.connect \in ToSet(act.ids)
      BY <2>0 DEF Newest
    <3>3. child # Nothing => child.url \in Pages \cup {Nothing}
      BY <1>1, ChildFacts DEF ChildOf, Urls
    <3> QED BY <2>0, <3>1, <3>2, <3>3 DEF ChildTypeOK, BridgeTypes
  <2>2. CredentialsStayHome
    BY <2>0 DEF CredentialsStayHome, AtHome
  <2>3. HeardIsShown
    BY <2>0 DEF HeardIsShown, accepts, Live, Newest, Alone
  <2>4. ActiveHasChild
    <3>1. NoChildLife.pc # "add"
      BY DEF NoChildLife
    <3> QED BY <2>0, <3>1 DEF ActiveHasChild, Newest, Alone
  <2> QED BY <2>1, <2>2, <2>3, <2>4 DEF BridgeIsConfined
<1> QED BY <1>1, ChildInvariant, PTL
=============================================================================
