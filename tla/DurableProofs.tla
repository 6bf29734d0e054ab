---------------------------- MODULE DurableProofs ----------------------------
(***************************************************************************)
(* Proofs about what is stored beside the sessions.  First the contained   *)
(* store of the SSH scope: whatever crashes and fails, acknowledged        *)
(* documents survive, version 1 has its copy, and nothing goes back in     *)
(* time.  Then what hangs on a terminal: a workflow link names a terminal  *)
(* of this life, never shows a live one as ended and, once every           *)
(* observation is applied, says that it is live; port entries, rows and    *)
(* tunnels follow the incarnations that own them; for any number of        *)
(* sessions, incarnations, crashes, ports and tunnels and any capacity of  *)
(* the channel and the port map.                                           *)
(***************************************************************************)
EXTENDS SshStore, WorkflowLinks, PortTunnels, FiniteSetTheorems, SequenceTheorems, TLAPS

-----------------------------------------------------------------------------
(* The scope store: types and the inductive invariant.                     *)

Steps == {"mark", "backup", "commit", "drop", "unmark"}
TmpOf == [u : Nat \ {0}, torn : BOOLEAN]
BakOf == [u : Nat \ {0}, id : Nat \ {0}]
ComOf == [u : Nat \ {0}, old : Nat, torn : BOOLEAN]
DiskOf == {x \in [base : Nat, tmp : SUBSET TmpOf, bak : SUBSET BakOf, com : SUBSET ComOf] :
             IsFiniteSet(x.bak) /\ IsFiniteSet(x.com)}
WorkOf == [step : Steps, doc : StoreDocs, u : Nat \ {0}, old : Nat]

\* What a document may say.
ProfilesOf == [v : {1, 2}, rev : Nat]
TrustsOf   == [rev : Nat, entries : SUBSET Endpoints]
MetaOf     == {m \in [seen : Nat, orphaned : Nat \cup {Never}] : m.orphaned # Never => m.orphaned >= m.seen}
BodyOf(d)  == CASE d \in {"profiles", "rollback", "rmeta"}  -> ProfilesOf
                [] d \in {"trust", "backup", "quarantine"}  -> TrustsOf
                [] d = "meta"                               -> MetaOf
                [] d = "identity"                           -> [id : Nat]
Bodies == ProfilesOf \cup TrustsOf \cup MetaOf \cup [id : Nat]
PlanOf == {p \in [doc : StoreDocs, val : Bodies] : p.val \in BodyOf(p.doc)} \cup {Expired, Deleted}

\* The replacements so far are numbered without gaps.
Written == {u \in Txns : body[u] # NoBody}
Filled  == Written = 1..(NextTxn - 1) /\ NextTxn \in 1..(MaxTxn + 1)

ScopeTypes ==
  /\ storeDisk \in [StoreDocs -> DiskOf] /\ body \in [Txns -> Bodies \cup {NoBody}] /\ Filled
  /\ acked \in [StoreDocs -> Nat] /\ work \in {Idle} \cup WorkOf
  /\ plan \in Seq(PlanOf) /\ todo \subseteq StoreDocs
  /\ scopeDir \in BOOLEAN /\ leased \in BOOLEAN /\ bornV1 \in BOOLEAN
  /\ tomb \in {"none", "clean", "torn"} /\ storePhase \in {"open", "recover", "stuck"}
  /\ day \in Nat /\ faultAt \in Nat /\ storeFaults \in Nat /\ storeCrashes \in Nat

\* The files of a document: what a name of it, or an answer about it, refers to.
Files(d) == {storeDisk[d].base, acked[d]} \cup {b.id : b \in storeDisk[d].bak} \cup {t.u : t \in storeDisk[d].tmp}
Replacement(d, f) == f \in 1..(NextTxn - 1) /\ body[f] \in BodyOf(d)
FilesOk(d) ==
  /\ storeDisk[d].base # 0 => Replacement(d, storeDisk[d].base)
  /\ acked[d] # 0 => Replacement(d, acked[d])
  /\ \A b \in storeDisk[d].bak : Replacement(d, b.id) /\ b.u < NextTxn
  /\ \A t \in storeDisk[d].tmp : Replacement(d, t.u)
  /\ \A c \in storeDisk[d].com : c.u < NextTxn
FilesAreWritten ==
  /\ \A d \in StoreDocs : FilesOk(d)
  /\ work # Idle => /\ Replacement(work.doc, work.u)
                    /\ work.old # 0 => Replacement(work.doc, work.old)

\* A file that may stand for the one that was acknowledged.
AtLeast(d, f) == /\ f >= acked[d]
                 /\ d = "trust" /\ acked[d] # 0 => body[f].rev >= body[acked[d]].rev

\* The replacement under way is the plan's first; what it replaces is not lost.
AtWork ==
  work # Idle =>
    /\ storePhase = "open" /\ plan # <<>> /\ Head(plan) = W(work.doc, body[work.u])
    /\ work.u = NextTxn - 1
    /\ work.step \in {"mark", "backup"} => storeDisk[work.doc].base = work.old
    /\ work.step = "backup" => work.old # 0
    /\ work.step = "commit" => /\ storeDisk[work.doc].base = 0
                               /\ work.old # 0 => [u |-> work.u, id |-> work.old] \in storeDisk[work.doc].bak
    /\ work.step \in {"drop", "unmark"} => storeDisk[work.doc].base = work.u
    /\ IF work.old = 0 THEN acked[work.doc] = 0 ELSE AtLeast(work.doc, work.old)
    /\ acked[work.doc] < work.u

\* A document is away only while it is being replaced, or until open() recovers it.
Away(d) == \/ work # Idle /\ work.doc = d /\ work.step = "commit"
           \/ storePhase = "recover" /\ d \in todo
           \/ storePhase = "stuck"
Survives ==
  /\ \A d \in StoreDocs : acked[d] # 0 =>
       IF storeDisk[d].base # 0 THEN AtLeast(d, storeDisk[d].base)
       ELSE Away(d) /\ \E b \in storeDisk[d].bak : AtLeast(d, b.id)
  /\ storePhase = "recover" => \A d \in StoreDocs : HasArtifacts(storeDisk[d]) => d \in todo
  /\ storePhase # "open" => plan = <<>>

\* A plan replaces the trust document once, at its end, by a later revision; a purge for
\* age comes right after the metadata that calls for it.
Due(m) == day >= m.seen + RetentionDays
Plans ==
  \A i \in 1..Len(plan) :
    /\ plan[i].doc = "trust" =>
         /\ i = Len(plan)
         /\ acked["trust"] # 0 => plan[i].val.rev > body[acked["trust"]].rev
    /\ plan[i] = Expired =>
         IF i = 1 THEN work = Idle /\ (acked["meta"] # 0 => Due(body[acked["meta"]]))
         ELSE plan[i - 1].doc = "meta" /\ Due(plan[i - 1].val)

ScopeInv == ScopeTypes /\ FilesAreWritten /\ AtWork /\ Survives /\ Plans

\* The version 1 document and its copy: while they differ from what the profiles may say,
\* the profiles are still the first file.
CopyDocs == {"rollback", "rmeta"}
Copied   == Exists("rollback") /\ Exists("rmeta")
NewProfiles == (\E f \in Files("profiles") : f \notin {0, 1}) \/ (work # Idle /\ work.doc = "profiles")
CopiesPlanned(ps, busy) ==
  \A i \in 1..Len(ps) :
    /\ ps[i].doc = "profiles" => \A d \in CopyDocs : Exists(d) \/ \E j \in 1..(i - 1) : ps[j].doc = d
    /\ ps[i].doc = "rollback" => i = 1
    /\ ps[i].doc = "rmeta" => i = 1 \/ (i = 2 /\ ps[1].doc = "rollback")
    /\ ps[i].doc \in CopyDocs => ~Exists(ps[i].doc) \/ (i = 1 /\ busy)
Migrated ==
  bornV1 =>
    /\ NextTxn > 1 /\ body[1] = V1 /\ acked["profiles"] # 0
    /\ NewProfiles => Copied
    /\ CopiesPlanned(plan, work # Idle)
    /\ work # Idle /\ work.doc \in CopyDocs => work.old = 0

\* A scope that was never version 1 has no copy, and nothing in it is version 1.
NoOldFormat(ps) ==
  \A i \in 1..Len(ps) : /\ ps[i].doc \notin CopyDocs
                        /\ ps[i].doc = "profiles" => ps[i].val.v = 2 /\ ps[i].val.rev > 0
Unborn ==
  ~bornV1 =>
    /\ \A d \in CopyDocs : storeDisk[d].base = 0 /\ storeDisk[d].tmp = {} /\ storeDisk[d].bak = {}
    /\ \A f \in Files("profiles") : f # 0 => body[f].v = 2
    /\ NoOldFormat(plan)
    /\ work # Idle => work.doc \notin CopyDocs /\ (work.old # 0 /\ work.doc = "profiles" => body[work.old].v = 2)
MigInv == Migrated /\ Unborn


-----------------------------------------------------------------------------
(* The scope store: lemmas.                                                *)

LEMMA DocNames ==
  /\ StoreDocs = {"identity", "profiles", "trust", "meta", "rollback", "rmeta", "backup", "quarantine"}
  /\ \A d \in StoreDocs : InScope(d) <=> d \in {"profiles", "trust", "meta", "rollback", "rmeta"}
  /\ Expired.doc = "expired" /\ Deleted.doc = "deleted" /\ Expired # Deleted
<1>1. ToSet(ScopeDocs) = {"profiles", "trust", "meta", "rollback", "rmeta"}
  BY DEF ToSet, ScopeDocs
<1> DEFINE AllDocs == {"identity", "profiles", "trust", "meta", "rollback", "rmeta", "backup", "quarantine"}
<1>2. ScopeDocs \in Seq(AllDocs) /\ RootDocs \in Seq(AllDocs) /\ Len(ScopeDocs) = 5 /\ Len(RootDocs) = 2
  BY DEF ScopeDocs, RootDocs
<1>3. PICK s : s = <<"identity">> \o ScopeDocs \o RootDocs
  OBVIOUS
<1>4. /\ Len(s) = 8 /\ DOMAIN s = 1..8 /\ s[1] = "identity" /\ s[2] = "profiles" /\ s[3] = "trust" /\ s[4] = "meta"
      /\ s[5] = "rollback" /\ s[6] = "rmeta" /\ s[7] = "backup" /\ s[8] = "quarantine"
  BY <1>2, <1>3 DEF ScopeDocs, RootDocs
<1>5. ToSet(s) = {s[i] : i \in 1..8}
  BY <1>4 DEF ToSet
<1>6. StoreDocs = {"identity", "profiles", "trust", "meta", "rollback", "rmeta", "backup", "quarantine"}
  <2>1. StoreDocs = {s[i] : i \in 1..8}
    BY <1>3, <1>5 DEF StoreDocs
  <2>2. 1..8 = {1, 2, 3, 4, 5, 6, 7, 8}
    OBVIOUS
  <2>3. {s[i] : i \in {1, 2, 3, 4, 5, 6, 7, 8}} = {s[1], s[2], s[3], s[4], s[5], s[6], s[7], s[8]}
    OBVIOUS
  <2> QED BY <1>4, <2>1, <2>2, <2>3
<1> QED BY <1>1, <1>6 DEF InScope, Expired, Deleted

LEMMA BodyNames ==
  /\ BodyOf("profiles") = ProfilesOf /\ BodyOf("rollback") = ProfilesOf /\ BodyOf("rmeta") = ProfilesOf
  /\ BodyOf("trust") = TrustsOf /\ BodyOf("backup") = TrustsOf /\ BodyOf("quarantine") = TrustsOf
  /\ BodyOf("meta") = MetaOf /\ BodyOf("identity") = [id : Nat]
  /\ \A d \in StoreDocs : BodyOf(d) \subseteq Bodies
  /\ NoBody \notin Bodies
<1>1. /\ BodyOf("profiles") = ProfilesOf /\ BodyOf("rollback") = ProfilesOf /\ BodyOf("rmeta") = ProfilesOf
      /\ BodyOf("trust") = TrustsOf /\ BodyOf("backup") = TrustsOf /\ BodyOf("quarantine") = TrustsOf
      /\ BodyOf("meta") = MetaOf /\ BodyOf("identity") = [id : Nat]
  BY DEF BodyOf
<1>2. \A d \in StoreDocs : BodyOf(d) \subseteq Bodies
  BY <1>1, DocNames DEF Bodies
<1>3. DOMAIN NoBody = {"v"} /\ "rev" \notin {"v"} /\ "seen" \notin {"v"} /\ "id" \notin {"v"}
  BY DEF NoBody
<1>4. /\ \A b \in ProfilesOf : DOMAIN b = {"v", "rev"}
      /\ \A b \in TrustsOf : DOMAIN b = {"rev", "entries"}
      /\ \A b \in MetaOf : DOMAIN b = {"seen", "orphaned"}
      /\ \A b \in [id : Nat] : DOMAIN b = {"id"}
  BY DEF ProfilesOf, TrustsOf, MetaOf
<1>5. NoBody \notin Bodies
  BY <1>3, <1>4 DEF Bodies
<1> QED BY <1>1, <1>2, <1>5

LEMMA IdleIsNone == Idle \notin WorkOf /\ Idle.step = "idle"
<1>1. DOMAIN Idle = {"step"} /\ "doc" \notin {"step"}
  BY DEF Idle
<1>2. \A w \in WorkOf : DOMAIN w = {"step", "doc", "u", "old"}
  BY DEF WorkOf
<1> QED BY <1>1, <1>2 DEF Idle

\* A replacement takes the next number.
LEMMA NumberTaken ==
  ASSUME Filled, body \in [Txns -> Bodies \cup {NoBody}], NextTxn <= MaxTxn,
         NEW v \in Bodies, body' = [body EXCEPT ![NextTxn] = v]
  PROVE  /\ Filled' /\ NextTxn' = NextTxn + 1 /\ body' \in [Txns -> Bodies \cup {NoBody}]
         /\ body'[NextTxn] = v /\ \A f \in 1..(NextTxn - 1) : body'[f] = body[f]
<1>0. MaxTxn \in Nat /\ NextTxn \in 1..(MaxTxn + 1) /\ Txns = 1..MaxTxn
  BY StoreAssumption DEF Filled, Txns
<1>1. PICK k : k = NextTxn
  OBVIOUS
<1>2. k \in 1..MaxTxn /\ Written = 1..(k - 1) /\ body' = [body EXCEPT ![k] = v]
  BY <1>0, <1>1 DEF Filled
<1>3. \A u \in Txns : body'[u] = IF u = k THEN v ELSE body[u]
  BY <1>2
<1>4. Written' = 1..k
  <2>1. Written' = {u \in Txns : body'[u] # NoBody} /\ Written = {u \in Txns : body[u] # NoBody}
    BY DEF Written, Txns, NoBody
  <2>2. k \in Txns /\ v # NoBody
    BY <1>0, <1>2, BodyNames
  <2>4. (1..(k - 1)) \cup {k} = 1..k
    BY <1>2
  <2>3. Written' = Written \cup {k}
    BY <1>3, <2>1, <2>2
  <2> QED BY <1>2, <2>2, <2>3, <2>4
<1>5. Cardinality(1..k) = k
  BY <1>2, FS_Interval
<1>6. NextTxn' = k + 1
  BY <1>4, <1>5 DEF NextTxn, Written
<1> QED BY <1>0, <1>1, <1>2, <1>3, <1>4, <1>6 DEF Filled

LEMMA NumbersStay ==
  ASSUME body' = body
  PROVE  NextTxn' = NextTxn /\ Written' = Written /\ (Filled => Filled')
BY DEF NextTxn, Written, Filled

\* What the artifacts of a document prove.
LEMMA Verdicts ==
  ASSUME NEW x \in DiskOf, Verdict(x) # "error"
  PROVE  \/ Verdict(x) = "keep" /\ (x.base # 0 \/ x.bak = {})
         \/ Verdict(x) = "backup" /\ x.base = 0 /\ \E b \in x.bak : x.bak = {b} /\ b = CHOOSE e \in x.bak : TRUE
         \/ Verdict(x) = "forward" /\ x.base = 0 /\ x.bak = {} /\
            \E m \in x.com : m = (CHOOSE c \in x.com : TRUE) /\ m.old = 0 /\ [u |-> m.u, torn |-> FALSE] \in x.tmp
<1>0. /\ x.base \in Nat /\ IsFiniteSet(x.bak) /\ IsFiniteSet(x.com)
      /\ x.bak \subseteq BakOf /\ x.com \subseteq ComOf
  BY DEF DiskOf
<1>1. ~(Cardinality(x.bak) > 1) /\ ~(Cardinality(x.com) > 1)
  BY DEF Verdict
<1>2. CASE x.com = {}
  BY <1>1, <1>2 DEF Verdict
<1>3. CASE x.com # {}
  <2>1. PICK m : m = (CHOOSE c \in x.com : TRUE)
    OBVIOUS
  <2>2. m \in x.com /\ m.u # 0
    BY <1>0, <1>3, <2>1 DEF ComOf
  <2>3. Verdict(x) = LET ours == \A b \in x.bak : b.u = m.u /\ b.id = m.old IN
          CASE m.torn \/ ~ours                          -> "error"
            [] x.base = m.u                             -> "keep"
            [] x.base # 0 /\ x.base = m.old /\ x.bak = {} -> "keep"
            [] x.base = 0 /\ x.bak # {}                 -> "backup"
            [] x.base = 0 /\ x.bak = {} /\ m.old = 0 /\ [u |-> m.u, torn |-> FALSE] \in x.tmp -> "forward"
            [] OTHER                                    -> "error"
    BY <1>1, <1>3, <2>1 DEF Verdict
  <2>4. CASE Verdict(x) = "keep"
    BY <2>2, <2>3, <2>4
  <2>5. CASE Verdict(x) = "backup"
    <3>1. x.base = 0 /\ x.bak # {}
      BY <2>2, <2>3, <2>5
    <3>2. PICK b : b = CHOOSE e \in x.bak : TRUE
      OBVIOUS
    <3>3. b \in x.bak
      BY <3>1, <3>2
    <3>4. \A c \in x.bak : c = b
      <4> SUFFICES ASSUME NEW c \in x.bak, c # b PROVE FALSE
        OBVIOUS
      <4>1. {b, c} \subseteq x.bak
        BY <3>3
      <4>2. Cardinality({b} \cup {c}) = Cardinality({b}) + 1 /\ Cardinality({b}) = 1 /\ IsFiniteSet({b})
        BY FS_Singleton, FS_AddElement
      <4>3. Cardinality({b, c}) <= Cardinality(x.bak) /\ {b, c} = {b} \cup {c}
        BY <1>0, <4>1, FS_Subset
      <4>4. Cardinality(x.bak) \in Nat
        BY <1>0, FS_CardinalityType
      <4> QED BY <1>1, <4>2, <4>3, <4>4
    <3> QED BY <2>5, <3>1, <3>2, <3>3, <3>4
  <2>6. CASE Verdict(x) = "forward"
    BY <2>1, <2>2, <2>3, <2>6
  <2>7. Verdict(x) \in {"error", "keep", "backup", "forward"}
    BY <2>3
  <2> QED BY <2>4, <2>5, <2>6, <2>7
<1> QED BY <1>2, <1>3

\* The settled document: its file is one it had, and it needs no backup.
LEMMA SettledFacts ==
  ASSUME NEW x \in DiskOf, Verdict(x) # "error"
  PROVE  /\ Settled(x) \in DiskOf /\ Settled(x).bak = {} /\ Settled(x).com = x.com /\ Settled(x).tmp \subseteq x.tmp
         /\ IF x.base # 0 THEN Settled(x).base = x.base
            ELSE IF x.bak # {} THEN \E b \in x.bak : x.bak = {b} /\ Settled(x).base = b.id
            ELSE Settled(x).base = 0 \/ \E t \in x.tmp : Settled(x).base = t.u
<1>0. /\ x.base \in Nat /\ x.tmp \subseteq TmpOf /\ x.bak \subseteq BakOf /\ x.com \subseteq ComOf
      /\ IsFiniteSet({}) /\ IsFiniteSet(x.com) /\ x \in [base : Nat, tmp : SUBSET TmpOf, bak : SUBSET BakOf, com : SUBSET ComOf]
  BY FS_EmptySet DEF DiskOf
<1>1. CASE Verdict(x) = "keep" /\ (x.base # 0 \/ x.bak = {})
  <2>1. Settled(x) = [x EXCEPT !.bak = {}]
    BY <1>1 DEF Settled
  <2> QED BY <1>0, <1>1, <2>1 DEF DiskOf
<1>2. CASE Verdict(x) = "backup" /\ x.base = 0 /\ \E b \in x.bak : x.bak = {b} /\ b = CHOOSE e \in x.bak : TRUE
  <2>1. PICK b \in x.bak : x.bak = {b} /\ b = CHOOSE e \in x.bak : TRUE
    BY <1>2
  <2>2. Settled(x) = [x EXCEPT !.base = b.id, !.bak = {}]
    BY <1>2, <2>1 DEF Settled
  <2>3. b.id \in Nat
    BY <1>0 DEF BakOf
  <2> QED BY <1>0, <1>2, <2>1, <2>2, <2>3 DEF DiskOf
<1>3. CASE /\ Verdict(x) = "forward" /\ x.base = 0 /\ x.bak = {}
           /\ \E m \in x.com : m = (CHOOSE c \in x.com : TRUE) /\ m.old = 0 /\ [u |-> m.u, torn |-> FALSE] \in x.tmp
  <2>1. PICK m \in x.com : m = (CHOOSE c \in x.com : TRUE) /\ [u |-> m.u, torn |-> FALSE] \in x.tmp
    BY <1>3
  <2>2. Settled(x) = [x EXCEPT !.base = m.u, !.tmp = {t \in x.tmp : t.u # m.u}]
    BY <1>3, <2>1 DEF Settled
  <2>3. m.u \in Nat /\ [u |-> m.u, torn |-> FALSE].u = m.u
    BY <1>0 DEF ComOf
  <2>4. Settled(x).base = m.u /\ Settled(x).tmp \subseteq x.tmp
    BY <1>0, <2>2
  <2> QED BY <1>0, <1>3, <2>1, <2>2, <2>3, <2>4 DEF DiskOf
<1> QED BY <1>1, <1>2, <1>3, Verdicts

LEMMA Widen == \A a, b \in Nat : b >= a => \A g \in 1..(a - 1) : g \in 1..(b - 1)
OBVIOUS

\* What holds of a file while the replacements only grow.
LEMMA ReplacementsStay ==
  ASSUME NextTxn \in Nat, NextTxn' \in Nat, NextTxn' >= NextTxn,
         \A f \in 1..(NextTxn - 1) : body'[f] = body[f],
         NEW d, NEW f, Replacement(d, f)
  PROVE  Replacement(d, f)' /\ body'[f] = body[f]
<1>1. f \in 1..(NextTxn - 1) /\ body[f] \in BodyOf(d)
  BY DEF Replacement
<1>2. BodyOf(d)' = BodyOf(d)
  BY DEF BodyOf, ProfilesOf, TrustsOf, MetaOf
<1>3. \A g \in 1..(NextTxn - 1) : g \in 1..(NextTxn' - 1)
  BY Widen
<1> QED BY <1>1, <1>2, <1>3 DEF Replacement

\* The number of the next replacement, and the files of a document.
LEMMA FilesOfDocument ==
  ASSUME ScopeTypes, FilesAreWritten, NEW d \in StoreDocs
  PROVE  /\ NextTxn \in Nat \ {0} /\ storeDisk[d] \in DiskOf /\ acked[d] \in Nat
         /\ storeDisk[d].base \in Nat /\ (storeDisk[d].base # 0 => Replacement(d, storeDisk[d].base))
         /\ acked[d] # 0 => Replacement(d, acked[d])
         /\ storeDisk[d].tmp \subseteq TmpOf /\ storeDisk[d].bak \subseteq BakOf /\ storeDisk[d].com \subseteq ComOf
         /\ \A b \in storeDisk[d].bak : Replacement(d, b.id) /\ b.u < NextTxn
         /\ \A t \in storeDisk[d].tmp : Replacement(d, t.u)
         /\ \A c \in storeDisk[d].com : c.u < NextTxn
<1>1. /\ NextTxn \in Nat \ {0} /\ storeDisk[d] \in DiskOf /\ acked[d] \in Nat
      /\ storeDisk[d].base \in Nat /\ storeDisk[d].tmp \subseteq TmpOf /\ storeDisk[d].bak \subseteq BakOf
      /\ storeDisk[d].com \subseteq ComOf
  <2>1. NextTxn \in 1..(MaxTxn + 1) /\ MaxTxn \in Nat
    BY StoreAssumption DEF ScopeTypes, Filled
  <2> QED BY <2>1 DEF ScopeTypes, DiskOf
<1> QED BY <1>1 DEF FilesAreWritten, FilesOk

\* When nothing is written, the numbers and what they stand for stay.
LEMMA BodyStays ==
  ASSUME body' = body
  PROVE  /\ NextTxn' = NextTxn /\ Written' = Written /\ (Filled => Filled')
         /\ \A d, f : Replacement(d, f)' <=> Replacement(d, f)
<1>1. NextTxn' = NextTxn
  BY NumbersStay
<1>2. ASSUME NEW d PROVE BodyOf(d)' = BodyOf(d)
  BY DEF BodyOf, ProfilesOf, TrustsOf, MetaOf
<1> QED BY <1>1, <1>2, NumbersStay DEF Replacement

\* One document changes on disk.
LEMMA OneDocument ==
  ASSUME ScopeTypes, NEW e \in StoreDocs, NEW y \in DiskOf, storeDisk' = [storeDisk EXCEPT ![e] = y]
  PROVE  /\ storeDisk' \in [StoreDocs -> DiskOf] /\ storeDisk'[e] = y
         /\ \A d \in StoreDocs : d # e => storeDisk'[d] = storeDisk[d]
BY DEF ScopeTypes

\* While the store is open and quiet, a document that was acknowledged is in its place.
LEMMA ReadyKeeps ==
  ASSUME ScopeInv, storePhase = "open", work = Idle, NEW d \in StoreDocs, acked[d] # 0
  PROVE  storeDisk[d].base # 0 /\ AtLeast(d, storeDisk[d].base)
<1>1. ~Away(d)
  BY DEF Away
<1> QED BY <1>1 DEF ScopeInv, Survives

-----------------------------------------------------------------------------
(* The scope store: calls of an operation.                                 *)

\* A call changes nothing but the plan.
LEMMA PlanStarts ==
  ASSUME ScopeInv, Ready, plan' \in Seq(PlanOf), Plans',
         UNCHANGED <<storeDisk, body, scopeDir, tomb, storePhase, work, todo, acked, leased, bounds>>
  PROVE  ScopeInv'
<1>0. work = Idle /\ storePhase = "open" /\ plan = <<>>
  BY DEF Ready
<1>1. ScopeTypes'
  BY BodyStays DEF ScopeInv, ScopeTypes, bounds
<1>2. FilesAreWritten'
  BY BodyStays DEF ScopeInv, FilesAreWritten, FilesOk
<1>3. AtWork'
  BY <1>0 DEF AtWork
<1>4. Survives'
  BY <1>0 DEF ScopeInv, Survives, Away, AtLeast, HasArtifacts
<1> QED BY <1>1, <1>2, <1>3, <1>4 DEF ScopeInv

\* Plans without a trust document or a purge for age, and with one at their end.
Plain(ps) == ps \in Seq(PlanOf) /\ \A i \in 1..Len(ps) : ps[i].doc \notin {"trust", "expired"}
PlainItem(p) == p \in PlanOf /\ p.doc \notin {"trust", "expired"}

LEMMA PlainOne ==
  ASSUME NEW p, PlainItem(p)
  PROVE  Plain(<<p>>)
<1>1. <<p>> \in Seq(PlanOf) /\ Len(<<p>>) = 1 /\ <<p>>[1] = p
  BY DEF PlainItem
<1> QED BY <1>1 DEF Plain, PlainItem

LEMMA PlainNone == Plain(<<>>)
BY DEF Plain

LEMMA PlainConcat ==
  ASSUME NEW s, NEW t, Plain(s), Plain(t)
  PROVE  Plain(s \o t)
<1>1. /\ s \in Seq(PlanOf) /\ t \in Seq(PlanOf) /\ s \o t \in Seq(PlanOf)
      /\ Len(s) \in Nat /\ Len(t) \in Nat /\ Len(s \o t) = Len(s) + Len(t)
      /\ \A i \in 1..(Len(s) + Len(t)) : (s \o t)[i] = IF i <= Len(s) THEN s[i] ELSE t[i - Len(s)]
  BY ConcatProperties, LenProperties DEF Plain
<1>2. ASSUME NEW i \in 1..(Len(s) + Len(t)) PROVE (s \o t)[i].doc \notin {"trust", "expired"}
  <2>1. CASE i <= Len(s)
    BY <1>1, <2>1 DEF Plain
  <2>2. CASE ~(i <= Len(s))
    <3>1. (i - Len(s)) \in 1..Len(t)
      BY <1>1, <2>2
    <3> QED BY <1>1, <2>2, <3>1 DEF Plain
  <2> QED BY <2>1, <2>2
<1> QED BY <1>1, <1>2 DEF Plain

LEMMA PlainIsSound ==
  ASSUME Plain(plan)
  PROVE  Plans
<1>1. ASSUME NEW i \in 1..Len(plan) PROVE plan[i].doc # "trust" /\ plan[i] # Expired
  BY DocNames DEF Plain
<1> QED BY <1>1 DEF Plans

\* A document of a plan.
LEMMA PlannedDocument ==
  ASSUME NEW d \in StoreDocs, NEW x, x \in BodyOf(d)
  PROVE  /\ W(d, x) \in PlanOf /\ W(d, x).doc = d /\ W(d, x).val = x
         /\ d # "trust" => PlainItem(W(d, x))
<1>1. W(d, x) \in PlanOf /\ W(d, x).doc = d /\ W(d, x).val = x
  BY BodyNames DEF W, PlanOf
<1>2. d # "expired"
  BY DocNames
<1> QED BY <1>1, <1>2 DEF PlainItem

\* What the documents read as.
LEMMA DocumentsRead ==
  ASSUME ScopeInv, Ready
  PROVE  /\ profilesNow \in ProfilesOf /\ trustNow \in TrustsOf /\ metaNow \in MetaOf
         /\ Exists("backup") => Read("backup") \in TrustsOf
         /\ acked["trust"] # 0 => trustNow.rev >= body[acked["trust"]].rev
<1> USE DEF ScopeInv
<1>1. \A d \in StoreDocs : Exists(d) => Read(d) \in BodyOf(d)
  BY FilesOfDocument DEF Exists, Read, Replacement
<1>2. {"profiles", "trust", "meta", "backup"} \subseteq StoreDocs
  BY DocNames
<1>3. Profiles(2, 0) \in ProfilesOf
  BY DEF Profiles, ProfilesOf
<1>4. Trust(0, {}) \in TrustsOf
  BY DEF Trust, TrustsOf
<1>5. Meta(day, Never) \in MetaOf
  BY DEF Meta, MetaOf, ScopeTypes
<1>6. acked["trust"] # 0 => trustNow = body[storeDisk["trust"].base] /\ AtLeast("trust", storeDisk["trust"].base)
  BY <1>2, ReadyKeeps DEF trustNow, Exists, Read, Ready
<1> QED BY <1>1, <1>2, <1>3, <1>4, <1>5, <1>6, BodyNames DEF profilesNow, trustNow, metaNow, AtLeast

LEMMA MigrationIsPlain ==
  ASSUME ScopeInv, Ready
  PROVE  Plain(Migration) /\ Plain(ensure_metadata)
<1>1. V1 \in ProfilesOf /\ migrate_v1 \in ProfilesOf
  BY DEF V1, migrate_v1, Profiles, ProfilesOf
<1>2. {"rollback", "rmeta", "profiles", "meta"} \subseteq StoreDocs
  BY DocNames
<1>3. PlainItem(W("rollback", V1)) /\ PlainItem(W("rmeta", V1)) /\ PlainItem(W("profiles", migrate_v1))
  BY <1>1, <1>2, BodyNames, PlannedDocument
<1>4. Plain(<<W("rollback", V1), W("rmeta", V1)>>)
  <2>1. <<W("rollback", V1), W("rmeta", V1)>> = <<W("rollback", V1)>> \o <<W("rmeta", V1)>>
    OBVIOUS
  <2> QED BY <1>3, <2>1, PlainOne, PlainConcat
<1>5. Plain(<<W("profiles", migrate_v1)>>)
  BY <1>3, PlainOne
<1>6. Plain(IF Exists("rollback") THEN <<>> ELSE <<W("rollback", V1), W("rmeta", V1)>>)
  BY <1>4, PlainNone
<1>7. Plain(Migration)
  BY <1>5, <1>6, PlainConcat, PlainNone DEF Migration
<1>8. Meta(day, Never) \in MetaOf
  BY DEF Meta, MetaOf, ScopeInv, ScopeTypes
<1>9. PlainItem(W("meta", Meta(day, Never)))
  BY <1>2, <1>8, BodyNames, PlannedDocument
<1>10. Plain(ensure_metadata)
  BY <1>9, PlainOne, PlainNone DEF ensure_metadata
<1> QED BY <1>7, <1>10

LEMMA PlainCall ==
  ASSUME ScopeInv, NEW ps, Plain(ps), Begin(ps)
  PROVE  ScopeInv'
<1>1. /\ Ready /\ plan' = ps
      /\ UNCHANGED <<storeDisk, body, scopeDir, tomb, storePhase, work, todo, acked, leased, bounds>>
  BY DEF Begin
<1>2. plan' \in Seq(PlanOf) /\ Plans'
  <2>1. \A i \in 1..Len(plan') : plan'[i].doc # "trust" /\ plan'[i] # Expired
    BY <1>1, DocNames DEF Plain
  <2> QED BY <1>1, <2>1 DEF Plans, Plain
<1> QED BY <1>1, <1>2, PlanStarts

\* A plan that ends in the trust document, at a later revision.
LEMMA TrustCall ==
  ASSUME ScopeInv, NEW ps, Plain(ps), NEW x \in TrustsOf,
         acked["trust"] # 0 => x.rev > body[acked["trust"]].rev, Begin(ps \o <<W("trust", x)>>)
  PROVE  ScopeInv'
<1>0. "trust" \in StoreDocs /\ x \in BodyOf("trust")
  BY DocNames, BodyNames
<1>1. PICK qs : qs = ps \o <<W("trust", x)>>
  OBVIOUS
<1>2. /\ Ready /\ plan' = qs
      /\ UNCHANGED <<storeDisk, body, scopeDir, tomb, storePhase, work, todo, acked, leased, bounds>>
  BY <1>1 DEF Begin
<1>3. W("trust", x) \in PlanOf /\ W("trust", x).doc = "trust" /\ W("trust", x).val = x
  BY <1>0, PlannedDocument
<1>4. /\ ps \in Seq(PlanOf) /\ <<W("trust", x)>> \in Seq(PlanOf) /\ qs \in Seq(PlanOf)
      /\ Len(ps) \in Nat /\ Len(qs) = Len(ps) + 1
      /\ \A i \in 1..(Len(ps) + 1) : qs[i] = IF i <= Len(ps) THEN ps[i] ELSE W("trust", x)
  BY <1>1, <1>3, ConcatProperties, LenProperties DEF Plain
<1>5. ASSUME NEW i \in 1..Len(qs)
      PROVE  IF i <= Len(ps) THEN qs[i].doc # "trust" /\ qs[i] # Expired
             ELSE i = Len(qs) /\ qs[i].doc = "trust" /\ qs[i].val = x /\ qs[i] # Expired
  BY <1>3, <1>4, DocNames DEF Plain
<1>6. body' = body /\ acked' = acked
  BY <1>2
<1>7. Plans'
  BY <1>2, <1>4, <1>5, <1>6 DEF Plans
<1> QED BY <1>2, <1>4, <1>7, PlanStarts

\* A plan that ends in the metadata and, when that calls for it, the purge.
LEMMA ReconcileCall ==
  ASSUME ScopeInv, NEW ps, Plain(ps), NEW m \in MetaOf, NEW q, q = <<>> \/ (q = <<Expired>> /\ Due(m)),
         Begin(ps \o <<W("meta", m)>> \o q)
  PROVE  ScopeInv'
<1>0. "meta" \in StoreDocs /\ m \in BodyOf("meta")
  BY DocNames, BodyNames
<1>1. PICK rs : rs = ps \o <<W("meta", m)>>
  OBVIOUS
<1>2. PICK qs : qs = rs \o q
  OBVIOUS
<1>3. /\ Ready /\ plan' = qs
      /\ UNCHANGED <<storeDisk, body, scopeDir, tomb, storePhase, work, todo, acked, leased, bounds>>
  BY <1>1, <1>2 DEF Begin
<1>4. W("meta", m) \in PlanOf /\ W("meta", m).doc = "meta" /\ W("meta", m).val = m /\ PlainItem(W("meta", m))
  BY <1>0, PlannedDocument
<1>5. /\ ps \in Seq(PlanOf) /\ <<W("meta", m)>> \in Seq(PlanOf) /\ rs \in Seq(PlanOf) /\ Plain(rs)
      /\ Len(ps) \in Nat /\ Len(rs) = Len(ps) + 1 /\ rs[Len(rs)] = W("meta", m)
  <2>1. <<W("meta", m)>> \in Seq(PlanOf) /\ ps \in Seq(PlanOf) /\ Len(<<W("meta", m)>>) = 1
    BY <1>4 DEF Plain
  <2>2. rs \in Seq(PlanOf) /\ Len(rs) = Len(ps) + 1 /\ Len(ps) \in Nat
        /\ \A i \in 1..(Len(ps) + 1) : rs[i] = IF i <= Len(ps) THEN ps[i] ELSE <<W("meta", m)>>[i - Len(ps)]
    BY <1>1, <2>1, ConcatProperties, LenProperties
  <2> QED BY <1>1, <1>4, <2>1, <2>2, PlainOne, PlainConcat
<1>6. CASE q = <<>>
  <2>1. qs = rs
    BY <1>2, <1>5, <1>6, EmptySeq, ConcatProperties, ConcatEmptySeq
  <2> QED BY <1>1, <1>2, <1>5, <2>1, PlainCall
<1>7. CASE q = <<Expired>> /\ Due(m)
  <2>1. Expired \in PlanOf /\ q \in Seq(PlanOf) /\ Len(q) = 1 /\ q[1] = Expired
    BY <1>7 DEF PlanOf
  <2>2. /\ qs \in Seq(PlanOf) /\ Len(qs) = Len(rs) + 1
        /\ \A i \in 1..(Len(rs) + 1) : qs[i] = IF i <= Len(rs) THEN rs[i] ELSE Expired
    <3>1. qs \in Seq(PlanOf) /\ Len(qs) = Len(rs) + Len(q)
          /\ \A i \in 1..(Len(rs) + Len(q)) : qs[i] = IF i <= Len(rs) THEN rs[i] ELSE q[i - Len(rs)]
      BY <1>2, <1>5, <2>1, ConcatProperties
    <3>2. Len(rs) \in Nat /\ \A i \in 1..(Len(rs) + 1) : ~(i <= Len(rs)) => i - Len(rs) = 1
      BY <1>5
    <3> QED BY <2>1, <3>1, <3>2
  <2>3. ASSUME NEW i \in 1..Len(qs)
        PROVE  /\ qs[i].doc # "trust"
               /\ qs[i] = Expired => i # 1 /\ qs[i - 1].doc = "meta" /\ qs[i - 1].val = m
    <3>1. CASE i <= Len(rs)
      <4>1. qs[i] = rs[i] /\ i \in 1..Len(rs)
        BY <1>5, <2>2, <3>1
      <4> QED BY <1>5, <4>1, DocNames DEF Plain
    <3>2. CASE i = Len(rs) + 1
      <4>1. qs[i] = Expired /\ i - 1 = Len(rs) /\ i # 1 /\ qs[i - 1] = rs[Len(rs)]
        BY <1>5, <2>2, <3>2
      <4> QED BY <1>4, <1>5, <4>1, DocNames
    <3> QED BY <1>5, <2>2, <3>1, <3>2
  <2>4. day' = day
    BY <1>3 DEF bounds
  <2>5. Plans'
    BY <1>3, <1>7, <2>3, <2>4 DEF Plans, Due
  <2> QED BY <1>3, <2>2, <2>5, PlanStarts
<1> QED BY <1>6, <1>7

LEMMA ConfigCalls ==
  ASSUME ScopeInv, load_scope_config \/ replace_config \/ purge_if_deleted
  PROVE  ScopeInv'
<1>0. Ready
  BY DEF load_scope_config, replace_config, purge_if_deleted, Begin
<1>1. Plain(Migration) /\ Plain(ensure_metadata)
  BY <1>0, MigrationIsPlain
<1>2. CASE load_scope_config
  BY <1>1, <1>2, PlainCall DEF load_scope_config
<1>3. CASE replace_config
  <2>1. profilesNow.rev \in Nat
    BY <1>0, DocumentsRead DEF ProfilesOf
  <2>2. Profiles(2, profilesNow.rev + 1) \in ProfilesOf
    BY <2>1 DEF Profiles, ProfilesOf
  <2>3. Plain(<<W("profiles", Profiles(2, profilesNow.rev + 1))>>)
    BY <2>2, DocNames, BodyNames, PlannedDocument, PlainOne
  <2>4. Plain(Migration \o ensure_metadata \o <<W("profiles", Profiles(2, profilesNow.rev + 1))>>)
    <3>1. Plain(Migration \o ensure_metadata)
      BY <1>1, PlainConcat
    <3> QED BY <2>3, <3>1, PlainConcat
  <2> QED BY <1>3, <2>4, PlainCall DEF replace_config
<1>4. CASE purge_if_deleted
  <2>1. Deleted \in PlanOf /\ Deleted.doc = "deleted"
    BY DocNames DEF PlanOf
  <2>2. Plain(<<Deleted>>)
    BY <2>1, PlainOne DEF PlainItem
  <2>3. Plain(Migration \o <<Deleted>>)
    BY <1>1, <2>2, PlainConcat
  <2> QED BY <1>4, <2>3, PlainCall DEF purge_if_deleted
<1> QED BY <1>2, <1>3, <1>4

LEMMA NextRevision ==
  ASSUME ScopeInv, Ready, NEW es \in SUBSET Endpoints
  PROVE  /\ trustNow \in TrustsOf /\ trustNow.rev \in Nat /\ trustNow.entries \subseteq Endpoints
         /\ Trust(trustNow.rev + 1, es) \in TrustsOf
         /\ acked["trust"] # 0 => Trust(trustNow.rev + 1, es).rev > body[acked["trust"]].rev
<1>0. trustNow \in TrustsOf /\ trustNow.rev \in Nat /\ trustNow.entries \subseteq Endpoints
  BY DocumentsRead DEF TrustsOf
<1>1. Trust(trustNow.rev + 1, es) \in TrustsOf /\ Trust(trustNow.rev + 1, es).rev = trustNow.rev + 1
  BY <1>0 DEF Trust, TrustsOf
<1>2. ASSUME acked["trust"] # 0 PROVE body[acked["trust"]].rev \in Nat /\ trustNow.rev >= body[acked["trust"]].rev
  <2>1. Replacement("trust", acked["trust"])
    BY <1>2, FilesOfDocument, DocNames DEF ScopeInv
  <2>2. body[acked["trust"]] \in TrustsOf
    BY <2>1, BodyNames DEF Replacement
  <2>3. trustNow.rev >= body[acked["trust"]].rev
    BY <1>2, DocumentsRead
  <2> QED BY <2>2, <2>3 DEF TrustsOf
<1> QED BY <1>0, <1>1, <1>2

LEMMA TrustCalls ==
  ASSUME ScopeInv, NEW h \in Endpoints, replace_trust(h) \/ repair_remove_endpoint(h)
  PROVE  ScopeInv'
<1>0. Ready
  BY DEF replace_trust, repair_remove_endpoint, Begin
<1>1. trustNow \in TrustsOf /\ trustNow.rev \in Nat /\ trustNow.entries \subseteq Endpoints
  BY <1>0, NextRevision
<1>2. ASSUME NEW es \in SUBSET Endpoints
      PROVE  /\ Trust(trustNow.rev + 1, es) \in TrustsOf
             /\ acked["trust"] # 0 => Trust(trustNow.rev + 1, es).rev > body[acked["trust"]].rev
  BY <1>0, <1>2, NextRevision
<1>3. CASE replace_trust(h)
  <2>1. Plain(ensure_metadata)
    BY <1>0, MigrationIsPlain
  <2>2. trustNow.entries \cup {h} \in SUBSET Endpoints
    BY <1>1
  <2> QED BY <1>2, <1>3, <2>1, <2>2, TrustCall DEF replace_trust
<1>4. CASE repair_remove_endpoint(h)
  <2>1. trustNow.entries \ {h} \in SUBSET Endpoints /\ {h} \in SUBSET Endpoints
    BY <1>1
  <2>2. Trust(trustNow.rev, {h}) \in TrustsOf
    BY <1>1 DEF Trust, TrustsOf
  <2>3. Plain(<<W("backup", trustNow)>>) /\ Plain(<<W("quarantine", Trust(trustNow.rev, {h}))>>)
    BY <1>1, <2>2, DocNames, BodyNames, PlannedDocument, PlainOne
  <2>4. Plain(IF h \in trustNow.entries THEN <<W("quarantine", Trust(trustNow.rev, {h}))>> ELSE <<>>)
    BY <2>3, PlainNone
  <2>5. Plain(<<W("backup", trustNow)>>
              \o (IF h \in trustNow.entries THEN <<W("quarantine", Trust(trustNow.rev, {h}))>> ELSE <<>>))
    BY <2>3, <2>4, PlainConcat
  <2> QED BY <1>2, <1>4, <2>1, <2>5, TrustCall DEF repair_remove_endpoint
<1> QED BY <1>3, <1>4

LEMMA RestoreCall ==
  ASSUME ScopeInv, repair_restore_backup
  PROVE  ScopeInv'
<1>0. Ready
  BY DEF repair_restore_backup, Begin
<1>1. Read("backup") \in TrustsOf
  BY <1>0, DocumentsRead DEF repair_restore_backup
<1>2. Read("backup").entries \in SUBSET Endpoints
  BY <1>1 DEF TrustsOf
<1>3. PICK x : x = Trust(trustNow.rev + 1, Read("backup").entries)
  OBVIOUS
<1>4. Begin(<<>> \o <<W("trust", x)>>)
  <2>1. <<>> \o <<W("trust", x)>> = <<W("trust", x)>>
    OBVIOUS
  <2> QED BY <1>3, <2>1 DEF repair_restore_backup
<1> QED BY <1>0, <1>2, <1>3, <1>4, NextRevision, PlainNone, TrustCall

LEMMA ReconciledMeta ==
  ASSUME ScopeInv, Ready, NEW known \in BOOLEAN
  PROVE  reconcile(metaNow, known) \in MetaOf
<1>1. day \in Nat /\ metaNow \in MetaOf /\ metaNow.seen \in Nat
  BY DocumentsRead DEF ScopeInv, ScopeTypes, MetaOf
<1>2. Later(day, metaNow.seen) \in Nat /\ Later(day, metaNow.seen) >= metaNow.seen
  BY <1>1 DEF Later
<1>3. Meta(Later(day, metaNow.seen), Never) \in MetaOf
  BY <1>2 DEF Meta, MetaOf
<1>4. Meta(metaNow.seen, Later(day, metaNow.seen)) \in MetaOf
  BY <1>1, <1>2 DEF Meta, MetaOf
<1> QED BY <1>1, <1>3, <1>4 DEF reconcile

LEMMA ReconcileIsPlanned ==
  ASSUME ScopeInv, NEW known \in BOOLEAN, reconcile_known_scope(known)
  PROVE  ScopeInv'
<1>0. Ready /\ Plain(Migration)
  BY MigrationIsPlain DEF reconcile_known_scope, Begin
<1>1. day \in Nat /\ RetentionDays \in Nat /\ metaNow \in MetaOf /\ metaNow.seen \in Nat
  BY <1>0, DocumentsRead, StoreAssumption DEF ScopeInv, ScopeTypes, MetaOf
<1>2. PICK m : m = reconcile(metaNow, known)
  OBVIOUS
<1>3. m \in MetaOf
  BY <1>0, <1>2, ReconciledMeta
<1>4. is_purge_eligible(m) => Due(m)
  BY <1>1, <1>3 DEF is_purge_eligible, Due, MetaOf, Never
<1>5. Begin(Migration \o <<W("meta", m)>> \o (IF is_purge_eligible(m) THEN <<Expired>> ELSE <<>>))
  BY <1>2 DEF reconcile_known_scope
<1>6. CASE is_purge_eligible(m)
  <2>1. PICK q : q = <<Expired>>
    OBVIOUS
  <2>2. Begin(Migration \o <<W("meta", m)>> \o q)
    BY <1>5, <1>6, <2>1
  <2> QED BY <1>0, <1>3, <1>4, <1>6, <2>1, <2>2, ReconcileCall
<1>7. CASE ~is_purge_eligible(m)
  <2>1. PICK q : q = <<>>
    OBVIOUS
  <2>2. Begin(Migration \o <<W("meta", m)>> \o q)
    BY <1>5, <1>7, <2>1
  <2> QED BY <1>0, <1>3, <2>1, <2>2, ReconcileCall
<1> QED BY <1>6, <1>7

\* Between operations: the directory, the lease, the calendar and the tombstone.
LEMMA QuietSteps ==
  ASSUME ScopeInv, OpenScope \/ Lease \/ NextDay \/ PurgeDelete \/ UNCHANGED svars
  PROVE  ScopeInv'
<1>1. CASE UNCHANGED svars
  <2>1. UNCHANGED <<storeDisk, body, scopeDir, tomb, storePhase, plan, work, todo, acked, leased>>
        /\ UNCHANGED <<asked, bornV1, day, faultAt, storeFaults, storeCrashes>>
    BY <1>1 DEF svars
  <2>2. ScopeTypes'
    BY <2>1, BodyStays DEF ScopeInv, ScopeTypes
  <2>3. FilesAreWritten'
    BY <2>1, BodyStays DEF ScopeInv, FilesAreWritten, FilesOk
  <2>4. AtWork'
    BY <2>1, BodyStays DEF ScopeInv, AtWork, AtLeast
  <2>5. Survives'
    BY <2>1 DEF ScopeInv, Survives, Away, AtLeast, HasArtifacts
  <2>6. Plans'
    BY <2>1 DEF ScopeInv, Plans, Due
  <2> QED BY <2>2, <2>3, <2>4, <2>5, <2>6 DEF ScopeInv
<1>2. CASE OpenScope \/ Lease \/ NextDay \/ PurgeDelete
  <2>1. /\ Ready /\ UNCHANGED <<storeDisk, body, storePhase, plan, work, todo, acked, asked, bornV1,
                                faultAt, storeFaults, storeCrashes>>
        /\ work = Idle /\ plan = <<>> /\ storePhase = "open"
    BY <1>2 DEF OpenScope, Lease, NextDay, PurgeDelete, Ready, bounds
  <2>2. scopeDir' \in BOOLEAN /\ leased' \in BOOLEAN /\ tomb' \in {"none", "clean", "torn"} /\ day' \in Nat
    <3>1. scopeDir \in BOOLEAN /\ leased \in BOOLEAN /\ tomb \in {"none", "clean", "torn"} /\ day \in Nat
      BY DEF ScopeInv, ScopeTypes
    <3>2. CASE OpenScope
      BY <3>1, <3>2 DEF OpenScope, bounds
    <3>3. CASE Lease
      BY <3>1, <3>3 DEF Lease, bounds
    <3>4. CASE NextDay
      BY <3>1, <3>4 DEF NextDay
    <3>5. CASE PurgeDelete
      BY <3>1, <3>5 DEF PurgeDelete, bounds
    <3> QED BY <1>2, <3>2, <3>3, <3>4, <3>5
  <2>3. ScopeTypes'
    BY <2>1, <2>2, BodyStays DEF ScopeInv, ScopeTypes
  <2>4. FilesAreWritten'
    BY <2>1, BodyStays DEF ScopeInv, FilesAreWritten, FilesOk
  <2>5. AtWork'
    BY <2>1 DEF AtWork
  <2>6. Survives'
    BY <2>1 DEF ScopeInv, Survives, Away, AtLeast, HasArtifacts
  <2>7. Plans'
    BY <2>1 DEF Plans
  <2> QED BY <2>3, <2>4, <2>5, <2>6, <2>7 DEF ScopeInv
<1> QED BY <1>1, <1>2

-----------------------------------------------------------------------------
(* The scope store: the steps of a replacement.                            *)

\* What staging writes: the next number, and its file on one document.
LEMMA StagingWrites ==
  ASSUME ScopeInv, NEW torn \in BOOLEAN, Staging, StageAs(torn)
  PROVE  /\ work = Idle /\ storePhase = "open" /\ Head(plan).doc \in StoreDocs /\ plan # <<>>
         /\ Head(plan) = W(Head(plan).doc, Head(plan).val) /\ Head(plan) \in PlanOf
         /\ Head(plan).val \in BodyOf(Head(plan).doc) /\ Head(plan) = plan[1] /\ 1 \in 1..Len(plan)
         /\ NextTxn \in Nat \ {0} /\ NextTxn' = NextTxn + 1 /\ Filled' /\ body' \in [Txns -> Bodies \cup {NoBody}]
         /\ body'[NextTxn] = Head(plan).val
         /\ \A d, f : Replacement(d, f) => Replacement(d, f)' /\ body'[f] = body[f]
         /\ storeDisk' \in [StoreDocs -> DiskOf]
         /\ \A d \in StoreDocs :
              /\ storeDisk'[d].base = storeDisk[d].base /\ storeDisk'[d].bak = storeDisk[d].bak
              /\ storeDisk'[d].com = storeDisk[d].com
              /\ storeDisk'[d].tmp = IF d = Head(plan).doc THEN storeDisk[d].tmp \cup {[u |-> NextTxn, torn |-> torn]}
                                     ELSE storeDisk[d].tmp
<1>1. PICK p : p = Head(plan)
  OBVIOUS
<1>2. /\ work = Idle /\ storePhase = "open" /\ p.doc \in StoreDocs /\ plan # <<>> /\ NextTxn <= MaxTxn
      /\ plan \in Seq(PlanOf)
  BY <1>1 DEF Staging, ScopeInv, ScopeTypes
<1>3. p \in PlanOf /\ p = plan[1] /\ 1 \in 1..Len(plan)
  BY <1>1, <1>2
<1>4. p \in [doc : StoreDocs, val : Bodies] /\ p.val \in BodyOf(p.doc)
  BY <1>2, <1>3, DocNames DEF PlanOf
<1>5. p = W(p.doc, p.val)
  BY <1>4 DEF W
<1>6. body' = [body EXCEPT ![NextTxn] = p.val] /\ p.val \in Bodies
  BY <1>1, <1>4 DEF StageAs
<1>7. /\ NextTxn \in Nat \ {0} /\ NextTxn' = NextTxn + 1 /\ Filled' /\ body' \in [Txns -> Bodies \cup {NoBody}]
      /\ body'[NextTxn] = p.val /\ \A f \in 1..(NextTxn - 1) : body'[f] = body[f]
  <2>1. Filled /\ body \in [Txns -> Bodies \cup {NoBody}]
    BY DEF ScopeInv, ScopeTypes
  <2>2. NextTxn \in 1..(MaxTxn + 1) /\ MaxTxn \in Nat
    BY <2>1, StoreAssumption DEF Filled
  <2>3. /\ NextTxn' = NextTxn + 1 /\ Filled' /\ body' \in [Txns -> Bodies \cup {NoBody}]
        /\ body'[NextTxn] = p.val /\ \A f \in 1..(NextTxn - 1) : body'[f] = body[f]
    BY <1>2, <1>6, <2>1, NumberTaken
  <2>4. NextTxn \in Nat \ {0}
    BY <2>2
  <2> QED BY <2>3, <2>4
<1>8. \A d, f : Replacement(d, f) => Replacement(d, f)' /\ body'[f] = body[f]
  <2>1. NextTxn \in Nat /\ NextTxn' \in Nat /\ NextTxn' >= NextTxn
    BY <1>7
  <2> QED BY <1>7, <2>1, ReplacementsStay
<1>9. PICK n : n = NextTxn
  OBVIOUS
<1>10. PICK x : x = storeDisk[p.doc]
  OBVIOUS
<1>11. PICK y : y = [x EXCEPT !.tmp = @ \cup {[u |-> n, torn |-> torn]}]
  OBVIOUS
<1>12. x \in DiskOf /\ n \in Nat \ {0}
  BY <1>2, <1>7, <1>9, <1>10 DEF ScopeInv, ScopeTypes
<1>13. y \in DiskOf /\ y.base = x.base /\ y.bak = x.bak /\ y.com = x.com /\ y.tmp = x.tmp \cup {[u |-> n, torn |-> torn]}
  <2>1. [u |-> n, torn |-> torn] \in TmpOf
    BY <1>12 DEF TmpOf
  <2>2. x \in [base : Nat, tmp : SUBSET TmpOf, bak : SUBSET BakOf, com : SUBSET ComOf]
    BY <1>12 DEF DiskOf
  <2>3. y.base = x.base /\ y.bak = x.bak /\ y.com = x.com /\ y.tmp = x.tmp \cup {[u |-> n, torn |-> torn]}
    BY <1>11, <2>2
  <2>4. y \in [base : Nat, tmp : SUBSET TmpOf, bak : SUBSET BakOf, com : SUBSET ComOf]
    BY <1>11, <2>1, <2>2
  <2> QED BY <1>12, <2>3, <2>4 DEF DiskOf
<1>14. storeDisk' = [storeDisk EXCEPT ![p.doc] = y]
  <2>1. storeDisk' = [storeDisk EXCEPT ![p.doc].tmp = @ \cup {[u |-> n, torn |-> torn]}]
    BY <1>1, <1>9 DEF StageAs
  <2> QED BY <1>10, <1>11, <2>1
<1>15. /\ storeDisk' \in [StoreDocs -> DiskOf] /\ storeDisk'[p.doc] = y
       /\ \A d \in StoreDocs : d # p.doc => storeDisk'[d] = storeDisk[d]
  BY <1>2, <1>13, <1>14, OneDocument DEF ScopeInv
<1>16. ASSUME NEW d \in StoreDocs
       PROVE  /\ storeDisk'[d].base = storeDisk[d].base /\ storeDisk'[d].bak = storeDisk[d].bak
              /\ storeDisk'[d].com = storeDisk[d].com
              /\ storeDisk'[d].tmp = IF d = p.doc THEN storeDisk[d].tmp \cup {[u |-> n, torn |-> torn]}
                                     ELSE storeDisk[d].tmp
  <2>1. CASE d = p.doc
    BY <1>10, <1>13, <1>15, <2>1
  <2>2. CASE d # p.doc
    BY <1>15, <2>2
  <2> QED BY <2>1, <2>2
<1> QED BY <1>1, <1>2, <1>3, <1>4, <1>5, <1>7, <1>8, <1>9, <1>15, <1>16

\* The files on disk and the answers, after staging.
LEMMA StagedFiles ==
  ASSUME ScopeInv, NEW torn \in BOOLEAN, Staging, StageAs(torn), acked' = acked,
         work' # Idle => /\ Replacement(work.doc, work.u)'
                         /\ work'.old # 0 => Replacement(work.doc, work.old)'
  PROVE  /\ FilesAreWritten' /\ \A e, n : e = Head(plan).doc /\ n = NextTxn => Replacement(e, n)'
         /\ \A d \in StoreDocs : \A f : AtLeast(d, f) /\ Replacement(d, f) /\ Replacement(d, acked[d]) => AtLeast(d, f)'
<1>0. PICK n, e : n = NextTxn /\ e = Head(plan).doc
  OBVIOUS
<1>1. /\ n \in Nat \ {0} /\ NextTxn' = n + 1 /\ e \in StoreDocs
      /\ body'[n] \in BodyOf(e) /\ \A d, f : Replacement(d, f) => Replacement(d, f)' /\ body'[f] = body[f]
      /\ \A d \in StoreDocs :
           /\ storeDisk'[d].base = storeDisk[d].base /\ storeDisk'[d].bak = storeDisk[d].bak
           /\ storeDisk'[d].com = storeDisk[d].com
           /\ storeDisk'[d].tmp = IF d = e THEN storeDisk[d].tmp \cup {[u |-> n, torn |-> torn]}
                                  ELSE storeDisk[d].tmp
  BY <1>0, StagingWrites
<1>2. Replacement(e, n)'
  <2>1. BodyOf(e)' = BodyOf(e)
    BY DEF BodyOf, ProfilesOf, TrustsOf, MetaOf
  <2>2. n \in 1..(NextTxn' - 1)
    BY <1>1
  <2> QED BY <1>1, <2>1, <2>2 DEF Replacement
<1>3. ASSUME NEW d \in StoreDocs
      PROVE  FilesOk(d)'
  <2>1. /\ storeDisk[d].base # 0 => Replacement(d, storeDisk[d].base)
        /\ acked[d] # 0 => Replacement(d, acked[d])
        /\ \A b \in storeDisk[d].bak : Replacement(d, b.id) /\ b.u < n /\ b.u \in Nat
        /\ \A t \in storeDisk[d].tmp : Replacement(d, t.u)
        /\ \A c \in storeDisk[d].com : c.u < n /\ c.u \in Nat
    BY <1>0, FilesOfDocument DEF ScopeInv, BakOf, ComOf
  <2>0. \A b, f : Replacement(b, f) => Replacement(b, f)'
    BY <1>1
  <2>7. n \in Nat /\ NextTxn' = n + 1
    BY <1>1
  <2>8. /\ storeDisk'[d].bak = storeDisk[d].bak /\ storeDisk'[d].com = storeDisk[d].com
        /\ storeDisk'[d].tmp = IF d = e THEN storeDisk[d].tmp \cup {[u |-> n, torn |-> torn]}
                               ELSE storeDisk[d].tmp
    BY <1>1
  <2>2. storeDisk'[d].base # 0 => Replacement(d, storeDisk[d].base)'
    <3>1. PICK b : b = storeDisk[d].base
      OBVIOUS
    <3>2. storeDisk'[d].base = b
      BY <1>1, <3>1
    <3> QED BY <1>1, <2>1, <3>1, <3>2
  <2>3. acked'[d] # 0 => Replacement(d, acked[d])'
    <3>1. PICK b : b = acked[d]
      OBVIOUS
    <3> QED BY <1>1, <2>1, <3>1
  <2>4. \A b \in storeDisk'[d].bak : Replacement(d, b.id)' /\ b.u < NextTxn'
    BY <2>0, <2>1, <2>7, <2>8
  <2>5. \A t \in storeDisk'[d].tmp : Replacement(d, t.u)'
    <3>1. [u |-> n, torn |-> torn].u = n
      OBVIOUS
    <3> QED BY <1>2, <2>0, <2>1, <2>8, <3>1
  <2>6. \A c \in storeDisk'[d].com : c.u < NextTxn'
    BY <2>1, <2>7, <2>8
  <2> QED BY <2>2, <2>3, <2>4, <2>5, <2>6 DEF FilesOk
<1>4. FilesAreWritten'
  BY <1>3 DEF FilesAreWritten
<1>5. ASSUME NEW d \in StoreDocs, NEW f, AtLeast(d, f), Replacement(d, f), Replacement(d, acked[d]) PROVE AtLeast(d, f)'
  <2>1. body'[f] = body[f]
    BY <1>1, <1>5
  <2>2. PICK a : a = acked[d]
    OBVIOUS
  <2>3. acked'[d] = a /\ body'[a] = body[a]
    BY <1>1, <1>5, <2>2
  <2> QED BY <1>5, <2>1, <2>2, <2>3 DEF AtLeast
<1>6. \A d, f : d = Head(plan).doc /\ f = NextTxn => Replacement(d, f)'
  BY <1>0, <1>2
<1> QED BY <1>4, <1>5, <1>6

LEMMA Staged ==
  ASSUME ScopeInv, StoreStage \/ StageError
  PROVE  ScopeInv'
<1>1. PICK torn \in BOOLEAN : /\ Staging /\ StageAs(torn)
                              /\ torn = FALSE => StoreStage
                              /\ torn = TRUE => StageError
  BY DEF StoreStage, StageError
<1>2. PICK n, p, o : n = NextTxn /\ p = Head(plan) /\ o = storeDisk[p.doc].base
  OBVIOUS
<1>3. /\ work = Idle /\ storePhase = "open" /\ p.doc \in StoreDocs /\ plan # <<>> /\ p = W(p.doc, p.val)
      /\ p.val \in BodyOf(p.doc) /\ p = plan[1] /\ 1 \in 1..Len(plan) /\ p \in PlanOf
  BY <1>1, <1>2, StagingWrites
<1>4. /\ n \in Nat \ {0} /\ NextTxn' = n + 1 /\ Filled' /\ body' \in [Txns -> Bodies \cup {NoBody}]
      /\ body'[n] = p.val /\ storeDisk' \in [StoreDocs -> DiskOf]
      /\ \A d \in StoreDocs :
           /\ storeDisk'[d].base = storeDisk[d].base /\ storeDisk'[d].bak = storeDisk[d].bak
           /\ storeDisk'[d].com = storeDisk[d].com
           /\ storeDisk'[d].tmp = IF d = p.doc THEN storeDisk[d].tmp \cup {[u |-> n, torn |-> torn]}
                                  ELSE storeDisk[d].tmp
  BY <1>1, <1>2, StagingWrites
<1>5. \A d, f : Replacement(d, f) => Replacement(d, f)' /\ body'[f] = body[f]
  BY <1>1, StagingWrites
<1>6. /\ UNCHANGED <<scopeDir, tomb, storePhase, todo, acked, leased, asked, bornV1, day, storeCrashes>>
      /\ faultAt' \in Nat /\ storeFaults' \in Nat
      /\ \/ work' = [step |-> "mark", doc |-> p.doc, u |-> n, old |-> o] /\ plan' = plan
         \/ work' = Idle /\ plan' = <<>>
  <2>1. faultAt \in Nat /\ storeFaults \in Nat
    BY DEF ScopeInv, ScopeTypes
  <2>2. CASE StoreStage
    BY <1>2, <2>1, <2>2 DEF StoreStage, bounds
  <2>3. CASE StageError
    BY <1>2, <1>3, <1>4, <2>1, <2>3 DEF StageError, StoreFault
  <2> QED BY <1>1, <2>2, <2>3
<1>7. /\ o \in Nat /\ (o # 0 => Replacement(p.doc, o)) /\ (acked[p.doc] # 0 => o # 0 /\ AtLeast(p.doc, o))
      /\ acked[p.doc] \in Nat /\ (acked[p.doc] # 0 => acked[p.doc] < n /\ Replacement(p.doc, acked[p.doc]))
  <2>1. /\ o \in Nat /\ (o # 0 => Replacement(p.doc, o)) /\ acked[p.doc] \in Nat
        /\ (acked[p.doc] # 0 => Replacement(p.doc, acked[p.doc]))
    BY <1>2, <1>3, FilesOfDocument DEF ScopeInv
  <2>2. acked[p.doc] # 0 => o # 0 /\ AtLeast(p.doc, o)
    BY <1>2, <1>3, ReadyKeeps
  <2>3. acked[p.doc] # 0 => acked[p.doc] < n
    BY <1>2, <1>4, <2>1 DEF Replacement
  <2> QED BY <2>1, <2>2, <2>3
<1>8. work' # Idle => /\ work' \in WorkOf /\ work'.doc = p.doc /\ work'.u = n /\ work'.old = o /\ work'.step = "mark"
                      /\ plan' = plan
  BY <1>3, <1>4, <1>6, <1>7 DEF WorkOf, Steps
<1>9. ScopeTypes'
  <2>1. work' \in {Idle} \cup WorkOf
    BY <1>8
  <2>2. plan' \in Seq(PlanOf)
    <3>1. plan \in Seq(PlanOf) /\ <<>> \in Seq(PlanOf)
      BY DEF ScopeInv, ScopeTypes
    <3>2. plan' = plan \/ plan' = <<>>
      BY <1>6
    <3> QED BY <3>1, <3>2
  <2> QED BY <1>4, <1>6, <2>1, <2>2 DEF ScopeInv, ScopeTypes
<1>10. \A d, f : d = Head(plan).doc /\ f = NextTxn => Replacement(d, f)'
  <2>1. BodyOf(p.doc)' = BodyOf(p.doc)
    BY DEF BodyOf, ProfilesOf, TrustsOf, MetaOf
  <2>2. n \in 1..(NextTxn' - 1)
    BY <1>4
  <2> QED BY <1>2, <1>3, <1>4, <2>1, <2>2 DEF Replacement
<1>11. work' # Idle => /\ Replacement(work.doc, work.u)'
                       /\ work'.old # 0 => Replacement(work.doc, work.old)'
  <2>1. Replacement(p.doc, n)' /\ (o # 0 => Replacement(p.doc, o)')
    BY <1>2, <1>5, <1>7, <1>10
  <2> QED BY <1>8, <2>1
<1>12. /\ FilesAreWritten'
       /\ \A d \in StoreDocs : \A f : AtLeast(d, f) /\ Replacement(d, f) /\ Replacement(d, acked[d]) => AtLeast(d, f)'
  BY <1>1, <1>6, <1>11, StagedFiles
<1>13. AtWork'
  <2> SUFFICES ASSUME work' # Idle PROVE AtWork'
    BY DEF AtWork
  <2>1. storePhase' = "open" /\ plan' # <<>> /\ work'.u = NextTxn' - 1 /\ storeDisk'[work'.doc].base = work'.old
    <3>1. storePhase' = "open" /\ plan' # <<>>
      BY <1>3, <1>6, <1>8
    <3>2. work'.u = n /\ n = NextTxn' - 1
      BY <1>4, <1>8
    <3>3. storeDisk'[work'.doc].base = work'.old
      BY <1>2, <1>3, <1>4, <1>8
    <3> QED BY <3>1, <3>2, <3>3
  <2>2. Head(plan') = W(work'.doc, body'[work'.u])
    BY <1>2, <1>3, <1>4, <1>8
  <2>3. IF work'.old = 0 THEN acked'[work'.doc] = 0 ELSE AtLeast(work.doc, work.old)'
    <3>1. CASE o = 0
      BY <1>6, <1>7, <1>8, <3>1
    <3>2. CASE o # 0
      <4>1. CASE acked[p.doc] = 0
        BY <1>6, <1>7, <1>8, <3>2, <4>1 DEF AtLeast
      <4>2. CASE acked[p.doc] # 0
        <5>1. AtLeast(p.doc, o)'
          BY <1>3, <1>7, <1>12, <4>2
        <5> QED BY <1>8, <3>2, <5>1
      <4> QED BY <4>1, <4>2
    <3> QED BY <3>1, <3>2
  <2>4. acked'[work'.doc] < work'.u
    BY <1>4, <1>6, <1>7, <1>8
  <2> QED BY <1>8, <2>1, <2>2, <2>3, <2>4 DEF AtWork
<1>14. Survives'
  <2>1. ASSUME NEW d \in StoreDocs, acked'[d] # 0
        PROVE  storeDisk'[d].base # 0 /\ AtLeast(d, storeDisk[d].base)'
    <3>1. PICK b : b = storeDisk[d].base
      OBVIOUS
    <3>2. acked[d] # 0 /\ b # 0 /\ AtLeast(d, b) /\ storeDisk'[d].base = b
      BY <1>3, <1>4, <1>6, <2>1, <3>1, ReadyKeeps
    <3>3. Replacement(d, b) /\ Replacement(d, acked[d])
      BY <3>1, <3>2, FilesOfDocument DEF ScopeInv
    <3>4. AtLeast(d, b)'
      BY <1>12, <3>2, <3>3
    <3> QED BY <3>2, <3>4
  <2>2. storePhase' = "open"
    BY <1>3, <1>6
  <2> QED BY <2>1, <2>2 DEF Survives
<1>15. Plans'
  <2>1. CASE plan' = <<>>
    BY <2>1 DEF Plans
  <2>2. CASE plan' = plan
    <3>1. p # Expired
      BY <1>3, DocNames DEF PlanOf
    <3>2. day' = day /\ acked' = acked
      BY <1>6
    <3>3. acked["trust"] # 0 => body'[acked["trust"]] = body[acked["trust"]]
      <4>1. acked["trust"] # 0 => Replacement("trust", acked["trust"])
        BY DocNames, FilesOfDocument DEF ScopeInv
      <4> QED BY <1>5, <4>1
    <3> QED BY <1>3, <2>2, <3>1, <3>2, <3>3 DEF ScopeInv, Plans, Due
  <2> QED BY <1>6, <2>1, <2>2
<1> QED BY <1>9, <1>12, <1>13, <1>14, <1>15 DEF ScopeInv

\* The replacement under way, and what it is at least as late as.
LEMMA Working ==
  ASSUME ScopeInv, work # Idle
  PROVE  /\ work \in WorkOf /\ work.doc \in StoreDocs /\ work.step \in Steps /\ work.u \in Nat \ {0} /\ work.old \in Nat
         /\ storePhase = "open" /\ plan \in Seq(PlanOf) /\ plan # <<>> /\ 1 \in 1..Len(plan)
         /\ plan[1] = W(work.doc, body[work.u]) /\ Head(plan) = plan[1]
         /\ work.u = NextTxn - 1 /\ Replacement(work.doc, work.u) /\ (work.old # 0 => Replacement(work.doc, work.old))
         /\ storeDisk[work.doc] \in DiskOf
         /\ acked[work.doc] < work.u /\ acked[work.doc] \in Nat
         /\ acked[work.doc] # 0 => work.old # 0 /\ AtLeast(work.doc, work.old) /\ AtLeast(work.doc, work.u)
<1>1. work \in WorkOf
  BY DEF ScopeInv, ScopeTypes
<1>2. work.doc \in StoreDocs /\ work.step \in Steps /\ work.u \in Nat \ {0} /\ work.old \in Nat
  BY <1>1 DEF WorkOf
<1>3. storePhase = "open" /\ plan \in Seq(PlanOf) /\ plan # <<>> /\ 1 \in 1..Len(plan) /\ Head(plan) = plan[1]
  BY DEF ScopeInv, ScopeTypes, AtWork
<1>4. /\ Head(plan) = W(work.doc, body[work.u]) /\ work.u = NextTxn - 1 /\ acked[work.doc] < work.u
      /\ IF work.old = 0 THEN acked[work.doc] = 0 ELSE AtLeast(work.doc, work.old)
  BY DEF ScopeInv, AtWork
<1>5. Replacement(work.doc, work.u) /\ (work.old # 0 => Replacement(work.doc, work.old))
  BY DEF ScopeInv, FilesAreWritten
<1>6. storeDisk[work.doc] \in DiskOf /\ acked[work.doc] \in Nat /\ (acked[work.doc] # 0 => Replacement(work.doc, acked[work.doc]))
  BY <1>2, FilesOfDocument DEF ScopeInv
<1>7. ASSUME acked[work.doc] # 0 PROVE AtLeast(work.doc, work.u)
  <2>1. work.u >= acked[work.doc]
    BY <1>2, <1>4, <1>6
  <2>2. ASSUME work.doc = "trust" PROVE body[work.u].rev >= body[acked[work.doc]].rev
    <3>1. plan[1].doc = "trust" /\ plan[1].val = body[work.u]
      BY <1>3, <1>4, <2>2 DEF W
    <3>2. body[work.u].rev > body[acked["trust"]].rev
      BY <1>3, <1>7, <2>2, <3>1 DEF ScopeInv, Plans
    <3>3. body[work.u] \in TrustsOf /\ body[acked["trust"]] \in TrustsOf
      BY <1>5, <1>6, <1>7, <2>2, BodyNames DEF Replacement
    <3>4. body[work.u].rev \in Nat /\ body[acked["trust"]].rev \in Nat
      BY <3>3 DEF TrustsOf
    <3> QED BY <2>2, <3>2, <3>4
  <2> QED BY <2>1, <2>2 DEF AtLeast
<1> QED BY <1>1, <1>2, <1>3, <1>4, <1>5, <1>6, <1>7

\* A step of the replacement w on its document, from x to y, or the end of one that failed.
DocStep(w, x, y) ==
  /\ w = work /\ x = storeDisk[w.doc] /\ y \in DiskOf
  /\ storeDisk' = [storeDisk EXCEPT ![w.doc] = y]
  /\ UNCHANGED <<body, scopeDir, tomb, storePhase, todo, acked, leased, asked, bornV1, day, storeCrashes>>
  /\ faultAt' \in Nat /\ storeFaults' \in Nat
  /\ y.base \in {0, w.old, w.u} /\ y.tmp \subseteq x.tmp
  /\ \A b \in y.bak : b \in x.bak \/ (b = [u |-> w.u, id |-> w.old] /\ w.old # 0)
  /\ \A c \in y.com : c \in x.com \/ c.u = w.u
  /\ \/ /\ work' \in WorkOf /\ work'.doc = w.doc /\ work'.u = w.u /\ work'.old = w.old /\ plan' = plan
        /\ acked[w.doc] # 0 /\ y.base = 0 => work'.step = "commit" /\ [u |-> w.u, id |-> w.old] \in y.bak
     \/ work' = Idle /\ plan' = <<>> /\ (acked[w.doc] # 0 => y.base # 0)

LEMMA StepOnDocument ==
  ASSUME ScopeInv, work # Idle, NEW w, NEW x, NEW y, DocStep(w, x, y)
  PROVE  ScopeTypes' /\ FilesAreWritten' /\ Survives' /\ Plans'
<1> USE DEF DocStep
<1>1. PICK e : e = w.doc
  OBVIOUS
<1>2. /\ e \in StoreDocs /\ w.u \in Nat \ {0} /\ w.old \in Nat /\ x \in DiskOf /\ storePhase = "open"
      /\ Replacement(e, w.u) /\ (w.old # 0 => Replacement(e, w.old))
      /\ plan \in Seq(PlanOf) /\ 1 \in 1..Len(plan) /\ plan[1] = W(e, body[w.u])
      /\ acked[e] # 0 => w.old # 0 /\ AtLeast(e, w.old) /\ AtLeast(e, w.u)
  BY <1>1, Working
<1>3. w.u < NextTxn
  <2>1. w.u = NextTxn - 1
    BY Working
  <2>2. NextTxn \in 1..(MaxTxn + 1) /\ MaxTxn \in Nat
    BY StoreAssumption DEF ScopeInv, ScopeTypes, Filled
  <2> QED BY <2>1, <2>2
<1>4. /\ storeDisk' \in [StoreDocs -> DiskOf] /\ storeDisk'[e] = y
      /\ \A d \in StoreDocs : d # e => storeDisk'[d] = storeDisk[d]
  BY <1>1, <1>2, OneDocument DEF ScopeInv
<1>5. NextTxn' = NextTxn /\ (Filled => Filled') /\ \A d, f : Replacement(d, f)' <=> Replacement(d, f)
  BY BodyStays
<1>6. Idle \notin WorkOf
  BY IdleIsNone
<1>7. ScopeTypes'
  <2>1. plan \in Seq(PlanOf) /\ <<>> \in Seq(PlanOf)
    BY <1>2
  <2>2. plan' \in Seq(PlanOf) /\ work' \in {Idle} \cup WorkOf
    BY <2>1
  <2> QED BY <1>4, <1>5, <2>2 DEF ScopeInv, ScopeTypes
<1>8. FilesAreWritten'
  <2>1. ASSUME NEW d \in StoreDocs PROVE FilesOk(d)'
    <3>1. FilesOk(d)
      BY DEF ScopeInv, FilesAreWritten
    <3>2. CASE d # e
      BY <1>4, <1>5, <3>1, <3>2 DEF FilesOk
    <3>3. CASE d = e
      <4>1. y.base # 0 => Replacement(e, y.base)
        BY <1>2, <3>1, <3>3 DEF FilesOk
      <4>2. \A b \in y.bak : Replacement(e, b.id) /\ b.u < NextTxn
        BY <1>1, <1>2, <1>3, <3>1, <3>3 DEF FilesOk
      <4>3. \A t \in y.tmp : Replacement(e, t.u)
        BY <1>1, <1>2, <3>1, <3>3 DEF FilesOk
      <4>4. \A c \in y.com : c.u < NextTxn
        BY <1>1, <1>3, <3>1, <3>3 DEF FilesOk
      <4>5. acked'[e] # 0 => Replacement(e, acked[e])'
        BY <1>5, <3>1, <3>3 DEF FilesOk
      <4>6. storeDisk'[e].base # 0 => Replacement(e, storeDisk[e].base)'
        BY <1>4, <1>5, <4>1
      <4> QED BY <1>4, <1>5, <3>3, <4>2, <4>3, <4>4, <4>5, <4>6 DEF FilesOk
    <3> QED BY <3>2, <3>3
  <2>2. work' # Idle => /\ Replacement(work.doc, work.u)'
                        /\ work'.old # 0 => Replacement(work.doc, work.old)'
    <3>1. work' # Idle => work'.doc = e /\ work'.u = w.u /\ work'.old = w.old
      BY <1>1
    <3>2. Replacement(e, w.u)' /\ (w.old # 0 => Replacement(e, w.old)')
      BY <1>2, <1>5
    <3> QED BY <3>1, <3>2
  <2> QED BY <2>1, <2>2 DEF FilesAreWritten
<1>9. Survives'
  <2>1. ASSUME NEW d \in StoreDocs, acked'[d] # 0
        PROVE  IF storeDisk'[d].base # 0 THEN AtLeast(d, storeDisk[d].base)'
               ELSE Away(d)' /\ \E b \in storeDisk'[d].bak : AtLeast(d, b.id)'
    <3>1. CASE d # e
      <4>1. acked[d] # 0 /\ ~Away(d)
        BY <1>1, <1>2, <2>1, <3>1 DEF Away
      <4>2. storeDisk[d].base # 0 /\ AtLeast(d, storeDisk[d].base)
        BY <4>1 DEF ScopeInv, Survives
      <4> QED BY <1>4, <3>1, <4>2 DEF AtLeast
    <3>2. CASE d = e
      <4>1. acked[e] # 0 /\ w.old # 0 /\ AtLeast(e, w.old) /\ AtLeast(e, w.u)
        BY <1>2, <2>1, <3>2
      <4>2. CASE y.base # 0
        BY <1>4, <3>2, <4>1, <4>2 DEF AtLeast
      <4>3. CASE y.base = 0
        <5>1. work' \in WorkOf /\ work'.step = "commit" /\ [u |-> w.u, id |-> w.old] \in y.bak /\ work'.doc = e
          BY <1>1, <4>1, <4>3
        <5>2. [u |-> w.u, id |-> w.old].id = w.old
          OBVIOUS
        <5>3. AtLeast(e, w.old)'
          BY <4>1 DEF AtLeast
        <5>4. Away(e)'
          BY <1>6, <5>1 DEF Away
        <5> QED BY <1>4, <3>2, <4>3, <5>1, <5>2, <5>3, <5>4
      <4> QED BY <4>2, <4>3
    <3> QED BY <3>1, <3>2
  <2>2. storePhase' = "open"
    BY <1>2
  <2> QED BY <2>1, <2>2 DEF Survives
<1>10. Plans'
  <2>1. CASE plan' = <<>>
    BY <2>1 DEF Plans
  <2>2. CASE plan' = plan
    <3>1. plan[1] # Expired
      BY <1>2, DocNames DEF W
    <3> QED BY <2>2, <3>1 DEF ScopeInv, Plans, Due
  <2> QED BY <2>1, <2>2
<1> QED BY <1>7, <1>8, <1>9, <1>10

\* The edits a step makes on its document.
LEMMA Edits ==
  ASSUME NEW x \in DiskOf, work \in WorkOf
  PROVE  /\ NoStage(x) \in DiskOf /\ NoStage(x).base = x.base /\ NoStage(x).bak = x.bak /\ NoStage(x).com = x.com
         /\ NoStage(x).tmp = {t \in x.tmp : t.u # work.u}
         /\ NoCopy(x) \in DiskOf /\ NoCopy(x).base = x.base /\ NoCopy(x).tmp = x.tmp /\ NoCopy(x).com = x.com
         /\ NoCopy(x).bak = {b \in x.bak : b.u # work.u}
         /\ NoMarker(x) \in DiskOf /\ NoMarker(x).base = x.base /\ NoMarker(x).tmp = x.tmp /\ NoMarker(x).bak = x.bak
         /\ NoMarker(x).com = {c \in x.com : c.u # work.u}
         /\ Committed(x) \in DiskOf /\ Committed(x).base = work.u /\ Committed(x).bak = x.bak /\ Committed(x).com = x.com
         /\ Committed(x).tmp = {t \in x.tmp : t.u # work.u}
         /\ Restored(x) \in DiskOf /\ Restored(x).base = work.old /\ Restored(x).tmp = x.tmp /\ Restored(x).com = x.com
         /\ Restored(x).bak = {b \in x.bak : b.u # work.u}
<1>0. /\ x \in [base : Nat, tmp : SUBSET TmpOf, bak : SUBSET BakOf, com : SUBSET ComOf]
      /\ IsFiniteSet(x.bak) /\ IsFiniteSet(x.com) /\ work.u \in Nat /\ work.old \in Nat
  BY DEF DiskOf, WorkOf
<1>1. IsFiniteSet({b \in x.bak : b.u # work.u}) /\ IsFiniteSet({c \in x.com : c.u # work.u})
  BY <1>0, FS_Subset
<1>2. /\ NoStage(x) \in DiskOf /\ NoStage(x).base = x.base /\ NoStage(x).bak = x.bak /\ NoStage(x).com = x.com
      /\ NoStage(x).tmp = {t \in x.tmp : t.u # work.u}
  BY <1>0 DEF NoStage, DiskOf
<1>3. /\ NoCopy(x) \in DiskOf /\ NoCopy(x).base = x.base /\ NoCopy(x).tmp = x.tmp /\ NoCopy(x).com = x.com
      /\ NoCopy(x).bak = {b \in x.bak : b.u # work.u}
  BY <1>0, <1>1 DEF NoCopy, DiskOf
<1>4. /\ NoMarker(x) \in DiskOf /\ NoMarker(x).base = x.base /\ NoMarker(x).tmp = x.tmp /\ NoMarker(x).bak = x.bak
      /\ NoMarker(x).com = {c \in x.com : c.u # work.u}
  BY <1>0, <1>1 DEF NoMarker, DiskOf
<1>5. /\ Committed(x) \in DiskOf /\ Committed(x).base = work.u /\ Committed(x).bak = x.bak /\ Committed(x).com = x.com
      /\ Committed(x).tmp = {t \in x.tmp : t.u # work.u}
  BY <1>0, <1>2 DEF Committed, DiskOf
<1>6. /\ Restored(x) \in DiskOf /\ Restored(x).base = work.old /\ Restored(x).tmp = x.tmp /\ Restored(x).com = x.com
      /\ Restored(x).bak = {b \in x.bak : b.u # work.u}
  BY <1>0, <1>3 DEF Restored, DiskOf
<1> QED BY <1>2, <1>3, <1>4, <1>5, <1>6

LEMMA OtherStepsOnDocument ==
  ASSUME ScopeInv, work # Idle, Mark \/ Backup \/ StoreCommits \/ DropBackup
  PROVE  AtWork' /\ \E w, x, y : DocStep(w, x, y) /\ (w.old = 0 /\ x.base # 0 => y.base # 0)
<1>1. PICK w, x : w = work /\ x = storeDisk[w.doc]
  OBVIOUS
<1>2. /\ w \in WorkOf /\ w.doc \in StoreDocs /\ w.u \in Nat \ {0} /\ w.old \in Nat /\ x \in DiskOf
      /\ storePhase = "open" /\ plan # <<>> /\ Head(plan) = W(w.doc, body[w.u]) /\ w.u = NextTxn - 1
      /\ acked[w.doc] < w.u /\ (acked[w.doc] # 0 => w.old # 0)
  BY <1>1, Working
<1>3. /\ w.step \in {"mark", "backup"} => x.base = w.old
      /\ w.step = "backup" => w.old # 0
      /\ w.step = "commit" => x.base = 0 /\ (w.old # 0 => [u |-> w.u, id |-> w.old] \in x.bak)
      /\ w.step \in {"drop", "unmark"} => x.base = w.u
      /\ IF w.old = 0 THEN acked[w.doc] = 0 ELSE AtLeast(w.doc, w.old)
  BY <1>1 DEF ScopeInv, AtWork
<1>4. /\ x.base \in Nat /\ x.tmp \subseteq TmpOf /\ x.bak \subseteq BakOf /\ x.com \subseteq ComOf
      /\ x \in [base : Nat, tmp : SUBSET TmpOf, bak : SUBSET BakOf, com : SUBSET ComOf]
      /\ IsFiniteSet(x.bak) /\ IsFiniteSet(x.com)
  BY <1>2 DEF DiskOf
<1>5. UNCHANGED <<body, scopeDir, tomb, storePhase, plan, todo, acked, leased, bounds>>
  BY DEF Mark, Backup, StoreCommits, DropBackup, Step
<1>6. PICK y \in DiskOf :
        /\ storeDisk' = [storeDisk EXCEPT ![w.doc] = y] /\ y.tmp \subseteq x.tmp
        /\ \A b \in y.bak : b \in x.bak \/ (b = [u |-> w.u, id |-> w.old] /\ w.old # 0)
        /\ \A c \in y.com : c \in x.com \/ c.u = w.u
        /\ \/ w.step = "mark" /\ w.old = 0 /\ work' = [w EXCEPT !.step = "commit"] /\ y.base = 0
           \/ w.step = "mark" /\ w.old # 0 /\ work' = [w EXCEPT !.step = "backup"] /\ y.base = w.old
           \/ w.step = "backup" /\ w.old # 0 /\ work' = [w EXCEPT !.step = "commit"]
                /\ y.base = 0 /\ [u |-> w.u, id |-> w.old] \in y.bak
           \/ w.step = "commit" /\ work' = [w EXCEPT !.step = "drop"] /\ y.base = w.u
           \/ w.step = "drop" /\ work' = [w EXCEPT !.step = "unmark"] /\ y.base = w.u
  <2>1. CASE Mark
    <3>1. PICK m : m = Marker(FALSE)
      OBVIOUS
    <3>2. m \in ComOf /\ m.u = w.u
      BY <1>1, <1>2, <3>1 DEF Marker, ComOf
    <3>3. PICK y : y = [x EXCEPT !.com = @ \cup {m}]
      OBVIOUS
    <3>4. y.base = x.base /\ y.tmp = x.tmp /\ y.bak = x.bak /\ y.com = x.com \cup {m}
          /\ y \in [base : Nat, tmp : SUBSET TmpOf, bak : SUBSET BakOf, com : SUBSET ComOf]
      BY <1>4, <3>2, <3>3
    <3>5. IsFiniteSet(x.com \cup {m})
      BY <1>4, FS_AddElement
    <3>6. y \in DiskOf
      BY <1>4, <3>4, <3>5 DEF DiskOf
    <3>7. /\ storeDisk' = [storeDisk EXCEPT ![w.doc] = y] /\ w.step = "mark"
          /\ work' = [w EXCEPT !.step = IF w.old = 0 THEN "commit" ELSE "backup"]
      BY <1>1, <2>1, <3>1, <3>3 DEF Mark, Step, Here
    <3> QED BY <1>3, <3>2, <3>4, <3>6, <3>7
  <2>2. CASE Backup
    <3>1. PICK m : m = [u |-> w.u, id |-> w.old]
      OBVIOUS
    <3>2. PICK y : y = [x EXCEPT !.base = 0, !.bak = @ \cup {m}]
      OBVIOUS
    <3>3. /\ storeDisk' = [storeDisk EXCEPT ![w.doc] = y] /\ w.step = "backup" /\ w.old # 0
          /\ work' = [w EXCEPT !.step = "commit"]
      BY <1>1, <1>3, <2>2, <3>1, <3>2 DEF Backup, Step, Here
    <3>4. m \in BakOf
      BY <1>2, <3>1, <3>3 DEF BakOf
    <3>5. y.base = 0 /\ y.tmp = x.tmp /\ y.bak = x.bak \cup {m} /\ y.com = x.com
          /\ y \in [base : Nat, tmp : SUBSET TmpOf, bak : SUBSET BakOf, com : SUBSET ComOf]
      BY <1>4, <3>2, <3>4
    <3>6. IsFiniteSet(x.bak \cup {m})
      BY <1>4, FS_AddElement
    <3>7. y \in DiskOf
      BY <1>4, <3>5, <3>6 DEF DiskOf
    <3> QED BY <3>1, <3>3, <3>5, <3>7
  <2>3. CASE StoreCommits
    <3>1. PICK y : y = Committed(x)
      OBVIOUS
    <3>2. /\ storeDisk' = [storeDisk EXCEPT ![w.doc] = y] /\ w.step = "commit" /\ work' = [w EXCEPT !.step = "drop"]
      BY <1>1, <2>3, <3>1 DEF StoreCommits, Step, Here
    <3>3. y \in DiskOf /\ y.base = w.u /\ y.bak = x.bak /\ y.com = x.com /\ y.tmp \subseteq x.tmp
      BY <1>1, <1>2, <3>1, Edits
    <3> QED BY <3>2, <3>3
  <2>4. CASE DropBackup
    <3>1. PICK y : y = NoCopy(x)
      OBVIOUS
    <3>2. /\ storeDisk' = [storeDisk EXCEPT ![w.doc] = y] /\ w.step = "drop" /\ work' = [w EXCEPT !.step = "unmark"]
      BY <1>1, <2>4, <3>1 DEF DropBackup, Step, Here
    <3>3. y \in DiskOf /\ y.base = x.base /\ y.bak \subseteq x.bak /\ y.com = x.com /\ y.tmp = x.tmp
      BY <1>1, <1>2, <3>1, Edits
    <3> QED BY <1>3, <3>2, <3>3
  <2> QED BY <2>1, <2>2, <2>3, <2>4
<1>7. /\ work' \in WorkOf /\ work'.doc = w.doc /\ work'.u = w.u /\ work'.old = w.old
      /\ \/ w.step = "mark" /\ w.old = 0 /\ work'.step = "commit"
         \/ w.step = "mark" /\ w.old # 0 /\ work'.step = "backup"
         \/ w.step = "backup" /\ work'.step = "commit"
         \/ w.step = "commit" /\ work'.step = "drop"
         \/ w.step = "drop" /\ work'.step = "unmark"
  <2>1. \A s \in Steps : /\ [w EXCEPT !.step = s] \in WorkOf /\ [w EXCEPT !.step = s].doc = w.doc
                         /\ [w EXCEPT !.step = s].u = w.u /\ [w EXCEPT !.step = s].old = w.old
                         /\ [w EXCEPT !.step = s].step = s
    BY <1>2 DEF WorkOf
  <2>2. PICK s \in Steps : /\ work' = [w EXCEPT !.step = s]
                           /\ \/ w.step = "mark" /\ w.old = 0 /\ s = "commit"
                              \/ w.step = "mark" /\ w.old # 0 /\ s = "backup"
                              \/ w.step = "backup" /\ s = "commit"
                              \/ w.step = "commit" /\ s = "drop"
                              \/ w.step = "drop" /\ s = "unmark"
    BY <1>6 DEF Steps
  <2> QED BY <2>1, <2>2
<1>8. y.base \in {0, w.old, w.u}
  BY <1>6
<1>9. acked[w.doc] # 0 /\ y.base = 0 => work'.step = "commit" /\ [u |-> w.u, id |-> w.old] \in y.bak
  BY <1>2, <1>6, <1>7
<1>10. faultAt' \in Nat /\ storeFaults' \in Nat
  BY <1>5 DEF ScopeInv, ScopeTypes, bounds
<1>11. DocStep(w, x, y)
  <2>1. UNCHANGED <<body, scopeDir, tomb, storePhase, todo, acked, leased, asked, bornV1, day, storeCrashes>>
        /\ plan' = plan
    BY <1>5 DEF bounds
  <2>2. /\ work' \in WorkOf /\ work'.doc = w.doc /\ work'.u = w.u /\ work'.old = w.old
        /\ acked[w.doc] # 0 /\ y.base = 0 => work'.step = "commit" /\ [u |-> w.u, id |-> w.old] \in y.bak
    BY <1>7, <1>9
  <2> QED BY <1>1, <1>6, <1>8, <1>10, <2>1, <2>2 DEF DocStep
<1>12. AtWork'
  <2>1. storeDisk'[w.doc] = y
    BY <1>2, <1>6 DEF ScopeInv, ScopeTypes
  <2>2. NextTxn' = NextTxn /\ body' = body /\ plan' = plan /\ acked' = acked /\ storePhase' = storePhase
    BY <1>5, BodyStays
  <2>3. IF w.old = 0 THEN acked'[w.doc] = 0 ELSE AtLeast(work.doc, work.old)'
    BY <1>3, <1>7, <2>2 DEF AtLeast
  <2>4. /\ work'.step \in {"mark", "backup"} => y.base = w.old
        /\ work'.step = "backup" => w.old # 0
        /\ work'.step = "commit" => y.base = 0 /\ (w.old # 0 => [u |-> w.u, id |-> w.old] \in y.bak)
        /\ work'.step \in {"drop", "unmark"} => y.base = w.u
    BY <1>6, <1>7
  <2> QED BY <1>2, <1>7, <2>1, <2>2, <2>3, <2>4 DEF AtWork
<1>13. w.old = 0 /\ x.base # 0 => y.base # 0
  BY <1>2, <1>3, <1>6
<1> QED BY <1>11, <1>12, <1>13

LEMMA OtherSteps ==
  ASSUME ScopeInv, work # Idle, Mark \/ Backup \/ StoreCommits \/ DropBackup
  PROVE  ScopeInv'
BY OtherStepsOnDocument, StepOnDocument DEF ScopeInv

LEMMA ErrorsOnDocument ==
  ASSUME ScopeInv, IoError
  PROVE  /\ work # Idle /\ work' = Idle
         /\ \E w, x, y : DocStep(w, x, y) /\ (w.old = 0 /\ x.base # 0 => y.base # 0)
<1>1. PICK w, x : w = work /\ x = storeDisk[w.doc]
  OBVIOUS
<1>2. /\ work # Idle /\ w \in WorkOf /\ w.doc \in StoreDocs /\ w.u \in Nat \ {0} /\ w.old \in Nat /\ x \in DiskOf
      /\ w.step \in Steps /\ (acked[w.doc] # 0 => w.old # 0)
  BY <1>1, Working DEF IoError
<1>3. /\ w.step \in {"mark", "backup"} => x.base = w.old
      /\ w.step = "commit" => x.base = 0
      /\ w.step \in {"drop", "unmark"} => x.base = w.u
  BY <1>1, <1>2 DEF ScopeInv, AtWork
<1>4. PICK y \in Broken : storeDisk' = [storeDisk EXCEPT ![w.doc] = y]
  BY <1>1 DEF IoError
<1>5. /\ y \in DiskOf /\ y.base \in {w.old, w.u} /\ y.tmp \subseteq x.tmp /\ y.bak \subseteq x.bak /\ y.com \subseteq x.com
      /\ w.step \in {"drop", "unmark"} => y.base = w.u
  <2>1. /\ NoStage(x) \in DiskOf /\ NoStage(x).base = x.base /\ NoStage(x).bak = x.bak /\ NoStage(x).com = x.com
        /\ NoStage(x).tmp \subseteq x.tmp
    BY <1>1, <1>2, Edits
  <2>2. /\ NoCopy(x) \in DiskOf /\ NoCopy(x).base = x.base /\ NoCopy(x).tmp = x.tmp /\ NoCopy(x).com = x.com
        /\ NoCopy(x).bak \subseteq x.bak
    BY <1>1, <1>2, Edits
  <2>3. /\ NoMarker(x) \in DiskOf /\ NoMarker(x).base = x.base /\ NoMarker(x).tmp = x.tmp /\ NoMarker(x).bak = x.bak
        /\ NoMarker(x).com \subseteq x.com
    BY <1>1, <1>2, Edits
  <2>4. ASSUME NEW z, z = x \/ z = Committed(x)
        PROVE  LET r == rollback_replacement(z) IN
               /\ r \in DiskOf /\ r.base = (IF w.old = 0 THEN z.base ELSE w.old)
               /\ r.tmp \subseteq x.tmp /\ r.bak \subseteq x.bak /\ r.com \subseteq x.com
    <3>1. z \in DiskOf /\ z.tmp \subseteq x.tmp /\ z.bak = x.bak /\ z.com = x.com
      BY <1>1, <1>2, <2>4, Edits
    <3>2. /\ Restored(z) \in DiskOf /\ Restored(z).base = w.old /\ Restored(z).tmp = z.tmp /\ Restored(z).com = z.com
          /\ Restored(z).bak \subseteq z.bak
      BY <1>1, <1>2, <3>1, Edits
    <3>3. rollback_replacement(z) = IF w.old = 0 THEN z ELSE Restored(z)
      BY <1>1 DEF rollback_replacement
    <3> QED BY <3>1, <3>2, <3>3
  <2>5. Committed(x).base = w.u
    BY <1>1, <1>2, Edits
  <2>6. CASE w.step = "mark"
    <3>1. y \in {x, NoStage(x)}
      BY <1>1, <2>6 DEF Broken, Here
    <3> QED BY <1>2, <1>3, <2>1, <2>6, <3>1
  <2>7. CASE w.step = "backup"
    <3>1. y = x
      BY <1>1, <2>7 DEF Broken, Here
    <3> QED BY <1>2, <1>3, <2>7, <3>1
  <2>8. CASE w.step = "commit"
    <3>1. y = rollback_replacement(x) \/ y = rollback_replacement(Committed(x))
      BY <1>1, <2>8 DEF Broken, Here
    <3> QED BY <1>3, <2>4, <2>5, <2>8, <3>1
  <2>9. CASE w.step = "drop"
    <3>1. y \in {x, NoCopy(x)}
      BY <1>1, <2>9 DEF Broken, Here
    <3> QED BY <1>2, <1>3, <2>2, <2>9, <3>1
  <2>10. CASE w.step = "unmark"
    <3>1. y \in {x, NoMarker(x)}
      BY <1>1, <2>10 DEF Broken, Here
    <3> QED BY <1>2, <1>3, <2>3, <2>10, <3>1
  <2> QED BY <1>2, <2>6, <2>7, <2>8, <2>9, <2>10 DEF Steps
<1>6. /\ UNCHANGED <<body, scopeDir, tomb, storePhase, todo, acked, leased, asked, bornV1, day, storeCrashes>>
      /\ work' = Idle /\ plan' = <<>> /\ faultAt' = w.u /\ storeFaults' = storeFaults + 1
  BY <1>1 DEF IoError, StoreFault
<1>7. faultAt' \in Nat /\ storeFaults' \in Nat
  BY <1>2, <1>6 DEF ScopeInv, ScopeTypes
<1>8. DocStep(w, x, y)
  <2>1. acked[w.doc] # 0 => y.base # 0
    BY <1>2, <1>5
  <2> QED BY <1>1, <1>4, <1>5, <1>6, <1>7, <2>1 DEF DocStep
<1>9. w.old = 0 /\ x.base # 0 => y.base # 0
  <2>1. w.step = "backup" => w.old # 0
    BY <1>1, <1>2 DEF ScopeInv, AtWork
  <2> QED BY <1>2, <1>3, <1>5, <2>1 DEF Steps
<1> QED BY <1>2, <1>6, <1>8, <1>9

LEMMA ErrorsKeepFiles ==
  ASSUME ScopeInv, IoError
  PROVE  ScopeInv'
<1>1. AtWork'
  BY ErrorsOnDocument DEF AtWork
<1> QED BY <1>1, ErrorsOnDocument, StepOnDocument DEF ScopeInv

\* A replacement that succeeds is acknowledged.
LEMMA Acknowledged ==
  ASSUME ScopeInv, work # Idle, NEW rest, Finished(rest), faultAt' \in Nat, storeFaults' \in Nat,
         rest = Tail(plan) \/ rest = <<W("profiles", V1)>>
  PROVE  ScopeInv'
<1>1. PICK w, e : w = work /\ e = w.doc
  OBVIOUS
<1>2. PICK x, y : x = storeDisk[e] /\ y = NoMarker(x)
  OBVIOUS
<1>3. /\ w \in WorkOf /\ e \in StoreDocs /\ w.u \in Nat \ {0} /\ x \in DiskOf /\ storePhase = "open"
      /\ plan \in Seq(PlanOf) /\ plan # <<>> /\ 1 \in 1..Len(plan) /\ plan[1] = W(e, body[w.u]) /\ Replacement(e, w.u)
  BY <1>1, <1>2, Working
<1>4. /\ w.step = "unmark" /\ storeDisk' = [storeDisk EXCEPT ![e] = y] /\ work' = Idle /\ plan' = rest
      /\ acked' = [acked EXCEPT ![e] = w.u]
      /\ UNCHANGED <<body, scopeDir, tomb, storePhase, todo, leased, asked, bornV1, day, storeCrashes>>
  BY <1>1, <1>2 DEF Finished, Here
<1>5. x.base = w.u
  BY <1>1, <1>2, <1>4 DEF ScopeInv, AtWork
<1>6. y \in DiskOf /\ y.base = w.u /\ y.tmp = x.tmp /\ y.bak = x.bak /\ y.com \subseteq x.com
  BY <1>1, <1>2, <1>3, <1>5, Edits
<1>7. /\ storeDisk' \in [StoreDocs -> DiskOf] /\ storeDisk'[e] = y
      /\ \A d \in StoreDocs : d # e => storeDisk'[d] = storeDisk[d]
  BY <1>3, <1>4, <1>6, OneDocument DEF ScopeInv
<1>8. /\ acked' \in [StoreDocs -> Nat] /\ acked'[e] = w.u /\ \A d \in StoreDocs : d # e => acked'[d] = acked[d]
  BY <1>3, <1>4 DEF ScopeInv, ScopeTypes
<1>9. NextTxn' = NextTxn /\ (Filled => Filled') /\ \A d, f : Replacement(d, f)' <=> Replacement(d, f)
  BY <1>4, BodyStays
<1>10. rest \in Seq(PlanOf)
  <2>1. Tail(plan) \in Seq(PlanOf)
    BY <1>3
  <2>2. V1 \in ProfilesOf
    BY DEF V1, Profiles, ProfilesOf
  <2>3. W("profiles", V1) \in PlanOf
    BY <2>2, DocNames, BodyNames, PlannedDocument
  <2>4. <<W("profiles", V1)>> \in Seq(PlanOf)
    BY <2>3
  <2> QED BY <2>1, <2>4
<1>11. ScopeTypes'
  BY <1>4, <1>7, <1>8, <1>9, <1>10 DEF ScopeInv, ScopeTypes
<1>12. FilesAreWritten'
  <2>1. ASSUME NEW d \in StoreDocs PROVE FilesOk(d)'
    <3>1. FilesOk(d)
      BY DEF ScopeInv, FilesAreWritten
    <3>2. CASE d # e
      BY <1>7, <1>8, <1>9, <3>1, <3>2 DEF FilesOk
    <3>3. CASE d = e
      <4>1. storeDisk'[e].base # 0 => Replacement(e, storeDisk[e].base)'
        BY <1>3, <1>6, <1>7, <1>9
      <4>2. acked'[e] # 0 => Replacement(e, acked[e])'
        BY <1>3, <1>8, <1>9
      <4>3. /\ \A b \in y.bak : Replacement(e, b.id) /\ b.u < NextTxn
            /\ \A t \in y.tmp : Replacement(e, t.u)
            /\ \A c \in y.com : c.u < NextTxn
        BY <1>2, <1>6, <3>1, <3>3 DEF FilesOk
      <4> QED BY <1>7, <1>9, <3>3, <4>1, <4>2, <4>3 DEF FilesOk
    <3> QED BY <3>2, <3>3
  <2> QED BY <1>4, <2>1 DEF FilesAreWritten
<1>13. AtWork'
  BY <1>4 DEF AtWork
<1>14. Survives'
  <2>1. ASSUME NEW d \in StoreDocs, acked'[d] # 0
        PROVE  storeDisk'[d].base # 0 /\ AtLeast(d, storeDisk[d].base)'
    <3>1. CASE d # e
      <4>1. acked[d] # 0 /\ ~Away(d)
        BY <1>1, <1>3, <1>8, <2>1, <3>1 DEF Away
      <4>2. storeDisk[d].base # 0 /\ AtLeast(d, storeDisk[d].base)
        BY <4>1 DEF ScopeInv, Survives
      <4> QED BY <1>4, <1>7, <1>8, <3>1, <4>2 DEF AtLeast
    <3>2. CASE d = e
      <4>1. storeDisk'[e].base = w.u /\ acked'[e] = w.u /\ w.u # 0 /\ w.u \in Nat
        BY <1>3, <1>6, <1>7, <1>8
      <4>2. e = "trust" => body[w.u].rev \in Nat
        <5>1. e = "trust" => body[w.u] \in TrustsOf
          BY <1>3, BodyNames DEF Replacement
        <5> QED BY <5>1 DEF TrustsOf
      <4>3. e = "trust" => body'[w.u].rev >= body'[w.u].rev
        BY <1>4, <4>2
      <4> QED BY <3>2, <4>1, <4>3 DEF AtLeast
    <3> QED BY <3>1, <3>2
  <2> QED BY <1>3, <1>4, <2>1 DEF Survives
<1>15. Plans'
  <2>1. CASE rest = <<W("profiles", V1)>>
    <3>1. Len(rest) = 1 /\ rest[1].doc = "profiles"
      BY <2>1 DEF W
    <3>2. \A i \in 1..Len(rest) : rest[i].doc # "trust" /\ rest[i] # Expired
      BY <3>1, DocNames
    <3> QED BY <1>4, <3>2 DEF Plans
  <2>2. CASE rest = Tail(plan)
    <3>1. Len(plan) \in Nat /\ Len(rest) = Len(plan) - 1 /\ \A i \in 1..Len(rest) : rest[i] = plan[i + 1] /\ i + 1 \in 2..Len(plan)
      BY <1>3, <2>2
    <3>2. ASSUME NEW i \in 1..Len(rest), rest[i].doc = "trust"
          PROVE  i = Len(rest) /\ (acked'["trust"] # 0 => rest[i].val.rev > body[acked'["trust"]].rev)
      <4>1. i + 1 = Len(plan) /\ (acked["trust"] # 0 => rest[i].val.rev > body[acked["trust"]].rev)
        BY <3>1, <3>2 DEF ScopeInv, Plans
      <4>2. e # "trust"
        <5>1. e = "trust" => plan[1].doc = "trust"
          BY <1>3 DEF W
        <5>2. plan[1].doc = "trust" => 1 = Len(plan)
          BY <1>3 DEF ScopeInv, Plans
        <5>3. 1 # Len(plan)
          BY <3>1, <4>1
        <5> QED BY <5>1, <5>2, <5>3
      <4>3. acked'["trust"] = acked["trust"]
        BY <1>8, <4>2, DocNames
      <4> QED BY <3>1, <4>1, <4>3
    <3>3. ASSUME NEW i \in 1..Len(rest), rest[i] = Expired
          PROVE  IF i = 1 THEN acked'["meta"] # 0 => Due(body[acked'["meta"]])
                 ELSE rest[i - 1].doc = "meta" /\ Due(rest[i - 1].val)
      <4>1. plan[i + 1] = Expired /\ i + 1 \in 1..Len(plan) /\ i + 1 # 1
        BY <3>1, <3>3
      <4>2. plan[i].doc = "meta" /\ Due(plan[i].val)
        <5>1. (i + 1) - 1 = i
          BY <3>1
        <5> QED BY <4>1, <5>1 DEF ScopeInv, Plans
      <4>3. CASE i = 1
        <5>1. e = "meta" /\ Due(body[w.u])
          BY <1>3, <4>2, <4>3 DEF W
        <5> QED BY <1>8, <4>3, <5>1
      <4>4. CASE i # 1
        <5>1. i - 1 \in 1..Len(rest) /\ (i - 1) + 1 = i
          BY <3>1, <4>4
        <5> QED BY <3>1, <4>2, <4>4, <5>1
      <4> QED BY <4>3, <4>4
    <3>4. \A m : Due(m)' <=> Due(m)
      BY <1>4 DEF Due
    <3>5. body' = body /\ plan' = rest /\ work' = Idle
      BY <1>4
    <3> QED BY <3>2, <3>3, <3>4, <3>5 DEF Plans
  <2> QED BY <2>1, <2>2
<1> QED BY <1>11, <1>12, <1>13, <1>14, <1>15 DEF ScopeInv

LEMMA Finishes ==
  ASSUME ScopeInv, work # Idle, Unmark \/ restore_v1_after_migration_failure
  PROVE  ScopeInv'
<1>1. CASE Unmark
  <2>1. faultAt' \in Nat /\ storeFaults' \in Nat
    BY <1>1 DEF Unmark, ScopeInv, ScopeTypes
  <2> QED BY <1>1, <2>1, Acknowledged DEF Unmark
<1>2. CASE restore_v1_after_migration_failure
  <2>1. faultAt' \in Nat /\ storeFaults' \in Nat
    BY <1>2, Working DEF restore_v1_after_migration_failure, StoreFault, ScopeInv, ScopeTypes
  <2> QED BY <1>2, <2>1, Acknowledged DEF restore_v1_after_migration_failure
<1> QED BY <1>1, <1>2

-----------------------------------------------------------------------------
(* The scope store: crashes, recovery and the purge.                       *)

\* A disk whose files are written, and where no acknowledged document is lost.
Kept(dk) ==
  /\ dk \in [StoreDocs -> DiskOf]
  /\ \A d \in StoreDocs :
       /\ dk[d].base # 0 => Replacement(d, dk[d].base)
       /\ \A b \in dk[d].bak : Replacement(d, b.id) /\ b.u < NextTxn
       /\ \A t \in dk[d].tmp : Replacement(d, t.u)
       /\ \A c \in dk[d].com : c.u < NextTxn
       /\ acked[d] # 0 => IF dk[d].base # 0 THEN AtLeast(d, dk[d].base)
                          ELSE \E b \in dk[d].bak : AtLeast(d, b.id)

LEMMA DiskIsKept ==
  ASSUME ScopeInv
  PROVE  Kept(storeDisk)
<1>1. storeDisk \in [StoreDocs -> DiskOf]
  BY DEF ScopeInv, ScopeTypes
<1> QED BY <1>1 DEF ScopeInv, FilesAreWritten, FilesOk, Survives, Kept

LEMMA RestartKeeps ==
  ASSUME ScopeInv, NEW dk, Kept(dk), Restart(dk)
  PROVE  ScopeInv'
<1>1. /\ storeDisk' = dk /\ storePhase' = "recover" /\ todo' = {d \in StoreDocs : HasArtifacts(dk[d])}
      /\ work' = Idle /\ plan' = <<>> /\ leased' = FALSE /\ storeCrashes' = storeCrashes + 1
      /\ UNCHANGED <<body, scopeDir, tomb, acked, asked, bornV1, day, faultAt, storeFaults>>
  BY DEF Restart
<1>2. NextTxn' = NextTxn /\ (Filled => Filled') /\ \A d, f : Replacement(d, f)' <=> Replacement(d, f)
  BY <1>1, BodyStays
<1>3. ScopeTypes'
  <2>1. storeDisk' \in [StoreDocs -> DiskOf] /\ todo' \subseteq StoreDocs
    BY <1>1 DEF Kept
  <2>2. plan' \in Seq(PlanOf) /\ storeCrashes' \in Nat
    BY <1>1 DEF ScopeInv, ScopeTypes
  <2> QED BY <1>1, <1>2, <2>1, <2>2 DEF ScopeInv, ScopeTypes
<1>4. FilesAreWritten'
  <2>1. ASSUME NEW d \in StoreDocs PROVE FilesOk(d)'
    <3>1. acked[d] # 0 => Replacement(d, acked[d])
      BY FilesOfDocument DEF ScopeInv
    <3> QED BY <1>1, <1>2, <3>1 DEF FilesOk, Kept
  <2> QED BY <1>1, <2>1 DEF FilesAreWritten
<1>5. AtWork'
  BY <1>1 DEF AtWork
<1>6. Survives'
  <2>1. ASSUME NEW d \in StoreDocs, acked'[d] # 0
        PROVE  IF storeDisk'[d].base # 0 THEN AtLeast(d, storeDisk[d].base)'
               ELSE Away(d)' /\ \E b \in storeDisk'[d].bak : AtLeast(d, b.id)'
    <3>1. IF dk[d].base # 0 THEN AtLeast(d, dk[d].base) ELSE \E b \in dk[d].bak : AtLeast(d, b.id)
      BY <1>1, <2>1 DEF Kept
    <3>2. CASE dk[d].base # 0
      BY <1>1, <3>1, <3>2 DEF AtLeast
    <3>3. CASE dk[d].base = 0
      <4>1. PICK b \in dk[d].bak : AtLeast(d, b.id)
        BY <3>1, <3>3
      <4>2. AtLeast(d, b.id)'
        BY <1>1, <4>1 DEF AtLeast
      <4>3. HasArtifacts(dk[d])
        BY <4>1 DEF HasArtifacts
      <4>4. Away(d)'
        BY <1>1, <4>3 DEF Away
      <4> QED BY <1>1, <3>3, <4>1, <4>2, <4>4
    <3> QED BY <3>2, <3>3
  <2>2. \A d \in StoreDocs : HasArtifacts(storeDisk[d])' => d \in todo'
    BY <1>1 DEF HasArtifacts
  <2> QED BY <1>1, <2>1, <2>2 DEF Survives
<1>7. Plans'
  BY <1>1 DEF Plans
<1> QED BY <1>3, <1>4, <1>5, <1>6, <1>7 DEF ScopeInv

LEMMA Crashes ==
  ASSUME ScopeInv, Crash
  PROVE  ScopeInv'
<1>1. Kept(storeDisk)
  BY DiskIsKept
<1>2. CASE Restart(storeDisk)
  <2>1. PICK dk : dk = storeDisk
    OBVIOUS
  <2> QED BY <1>1, <1>2, <2>1, RestartKeeps
<1>3. CASE work.step = "mark" /\ Restart([storeDisk EXCEPT ![work.doc].com = @ \cup {Marker(TRUE)}])
  <2>0. work # Idle
    BY <1>3, IdleIsNone
  <2>1. PICK w, x, m : w = work /\ x = storeDisk[w.doc] /\ m = Marker(TRUE)
    OBVIOUS
  <2>2. /\ w \in WorkOf /\ w.doc \in StoreDocs /\ w.u \in Nat \ {0} /\ w.old \in Nat /\ x \in DiskOf
        /\ w.u = NextTxn - 1 /\ NextTxn \in Nat
    BY <2>0, <2>1, Working, FilesOfDocument DEF ScopeInv
  <2>3. m \in ComOf /\ m.u < NextTxn
    BY <2>1, <2>2 DEF Marker, ComOf
  <2>4. PICK y : y = [x EXCEPT !.com = @ \cup {m}]
    OBVIOUS
  <2>5. y \in DiskOf /\ y.base = x.base /\ y.tmp = x.tmp /\ y.bak = x.bak /\ y.com = x.com \cup {m}
    <3>1. x \in [base : Nat, tmp : SUBSET TmpOf, bak : SUBSET BakOf, com : SUBSET ComOf]
          /\ IsFiniteSet(x.bak) /\ IsFiniteSet(x.com \cup {m})
      BY <2>2, FS_AddElement DEF DiskOf
    <3>2. y.base = x.base /\ y.tmp = x.tmp /\ y.bak = x.bak /\ y.com = x.com \cup {m}
          /\ y \in [base : Nat, tmp : SUBSET TmpOf, bak : SUBSET BakOf, com : SUBSET ComOf]
      BY <2>3, <2>4, <3>1
    <3> QED BY <3>1, <3>2 DEF DiskOf
  <2>6. PICK dk : dk = [storeDisk EXCEPT ![w.doc] = y]
    OBVIOUS
  <2>7. Restart(dk)
    <3>1. dk = [storeDisk EXCEPT ![work.doc].com = @ \cup {Marker(TRUE)}]
      BY <2>1, <2>4, <2>6
    <3> QED BY <1>3, <3>1
  <2>8. /\ dk \in [StoreDocs -> DiskOf] /\ dk[w.doc] = y
        /\ \A d \in StoreDocs : d # w.doc => dk[d] = storeDisk[d]
    BY <2>2, <2>5, <2>6 DEF Kept, ScopeInv, ScopeTypes
  <2>9. Kept(dk)
    <3>1. ASSUME NEW d \in StoreDocs
          PROVE  dk[d].base = storeDisk[d].base /\ dk[d].bak = storeDisk[d].bak /\ dk[d].tmp = storeDisk[d].tmp
                 /\ \A c \in dk[d].com : c \in storeDisk[d].com \/ c = m
      <4>1. CASE d = w.doc
        BY <2>1, <2>5, <2>8, <4>1
      <4>2. CASE d # w.doc
        BY <2>8, <4>2
      <4> QED BY <4>1, <4>2
    <3> QED BY <1>1, <2>3, <2>8, <3>1 DEF Kept
  <2> QED BY <2>7, <2>9, RestartKeeps
<1> QED BY <1>2, <1>3 DEF Crash

\* A document whose file is settled is not lost.
LEMMA SettledIsKept ==
  ASSUME ScopeInv, NEW e \in StoreDocs, Verdict(storeDisk[e]) # "error", NEW y \in DiskOf,
         y.base = Settled(storeDisk[e]).base, y.bak = {},
         y.tmp \subseteq Settled(storeDisk[e]).tmp, y.com \subseteq storeDisk[e].com
  PROVE  /\ Kept([storeDisk EXCEPT ![e] = y])
         /\ acked[e] # 0 => y.base # 0
<1>1. PICK x, s : x = storeDisk[e] /\ s = Settled(x)
  OBVIOUS
<1>2. /\ x \in DiskOf /\ (x.base # 0 => Replacement(e, x.base))
      /\ \A b \in x.bak : Replacement(e, b.id) /\ b.u < NextTxn
      /\ \A t \in x.tmp : Replacement(e, t.u)
      /\ \A c \in x.com : c.u < NextTxn
  BY <1>1, FilesOfDocument DEF ScopeInv
<1>3. /\ s.tmp \subseteq x.tmp
      /\ IF x.base # 0 THEN s.base = x.base
         ELSE IF x.bak # {} THEN \E b \in x.bak : x.bak = {b} /\ s.base = b.id
         ELSE s.base = 0 \/ \E t \in x.tmp : s.base = t.u
  BY <1>1, <1>2, SettledFacts
<1>4. acked[e] # 0 => IF x.base # 0 THEN AtLeast(e, x.base) ELSE \E b \in x.bak : AtLeast(e, b.id) /\ b \in BakOf
  BY <1>1, <1>2 DEF ScopeInv, Survives, DiskOf
<1>5. acked[e] # 0 => AtLeast(e, s.base) /\ s.base # 0
  BY <1>3, <1>4 DEF BakOf
<1>6. s.base # 0 => Replacement(e, s.base)
  BY <1>2, <1>3
<1>7. PICK dk : dk = [storeDisk EXCEPT ![e] = y]
  OBVIOUS
<1>8. /\ dk \in [StoreDocs -> DiskOf] /\ dk[e] = y /\ \A d \in StoreDocs : d # e => dk[d] = storeDisk[d]
  BY <1>7 DEF ScopeInv, ScopeTypes
<1>9. Kept(dk)
  <2>1. Kept(storeDisk)
    BY DiskIsKept
  <2> QED BY <1>1, <1>2, <1>3, <1>5, <1>6, <1>8, <2>1 DEF Kept
<1> QED BY <1>1, <1>5, <1>7, <1>9

\* Between the documents: the store is recovered one by one.
LEMMA Recovers ==
  ASSUME ScopeInv, NEW e \in StoreDocs, RecoverDoc(e) \/ RecoverCrash(e)
  PROVE  ScopeInv'
<1>1. PICK x, s : x = storeDisk[e] /\ s = Settled(x)
  OBVIOUS
<1>2. storePhase = "recover" /\ e \in todo /\ Verdict(x) # "error" /\ x \in DiskOf
  BY <1>1 DEF RecoverDoc, RecoverCrash, Recovering, ScopeInv, ScopeTypes
<1>3. /\ s \in DiskOf /\ s.bak = {} /\ s.com = x.com
      /\ s \in [base : Nat, tmp : SUBSET TmpOf, bak : SUBSET BakOf, com : SUBSET ComOf]
  BY <1>1, <1>2, SettledFacts DEF DiskOf
<1>4. CASE RecoverCrash(e)
  <2>1. PICK ts \in SUBSET s.tmp : Restart([storeDisk EXCEPT ![e] = [s EXCEPT !.tmp = ts]])
    BY <1>1, <1>4 DEF RecoverCrash
  <2>2. PICK y : y = [s EXCEPT !.tmp = ts]
    OBVIOUS
  <2>3. y \in DiskOf /\ y.base = s.base /\ y.bak = {} /\ y.tmp = ts /\ y.com = x.com
    BY <1>3, <2>2 DEF DiskOf
  <2>4. PICK dk : dk = [storeDisk EXCEPT ![e] = y]
    OBVIOUS
  <2>5. Kept(dk)
    BY <1>1, <1>2, <2>1, <2>3, <2>4, SettledIsKept
  <2> QED BY <2>1, <2>2, <2>4, <2>5, RestartKeeps
<1>5. CASE RecoverDoc(e)
  <2>1. PICK y : y = recover_document_artifacts(x)
    OBVIOUS
  <2>2. y \in DiskOf /\ y.base = s.base /\ y.bak = {} /\ y.tmp = {} /\ y.com = {}
    <3>1. y = [s EXCEPT !.tmp = {}, !.com = {}]
      BY <1>1, <2>1 DEF recover_document_artifacts
    <3>2. IsFiniteSet({})
      BY FS_EmptySet
    <3> QED BY <1>3, <3>1, <3>2 DEF DiskOf
  <2>3. PICK dk : dk = [storeDisk EXCEPT ![e] = y]
    OBVIOUS
  <2>4. Kept(dk) /\ (acked[e] # 0 => y.base # 0)
    BY <1>1, <1>2, <2>2, <2>3, SettledIsKept
  <2>5. /\ storeDisk' = dk /\ todo' = todo \ {e}
        /\ UNCHANGED <<body, scopeDir, tomb, storePhase, plan, work, acked, leased, bounds>>
    BY <1>1, <1>5, <2>1, <2>3 DEF RecoverDoc
  <2>6. /\ dk \in [StoreDocs -> DiskOf] /\ dk[e] = y /\ \A d \in StoreDocs : d # e => dk[d] = storeDisk[d]
    BY <2>2, <2>3 DEF ScopeInv, ScopeTypes
  <2>7. NextTxn' = NextTxn /\ (Filled => Filled') /\ \A d, f : Replacement(d, f)' <=> Replacement(d, f)
    BY <2>5, BodyStays
  <2>8. work = Idle /\ plan = <<>>
    BY <1>2 DEF ScopeInv, AtWork, Survives
  <2>9. ScopeTypes'
    <3>1. storeDisk' \in [StoreDocs -> DiskOf] /\ todo' \subseteq StoreDocs
      BY <2>5, <2>6 DEF ScopeInv, ScopeTypes
    <3> QED BY <2>5, <2>7, <3>1 DEF ScopeInv, ScopeTypes, bounds
  <2>10. FilesAreWritten'
    <3>1. ASSUME NEW d \in StoreDocs PROVE FilesOk(d)'
      <4>1. acked[d] # 0 => Replacement(d, acked[d])
        BY FilesOfDocument DEF ScopeInv
      <4> QED BY <2>4, <2>5, <2>7, <4>1 DEF FilesOk, Kept
    <3> QED BY <2>5, <2>8, <3>1 DEF FilesAreWritten
  <2>11. AtWork'
    BY <2>5, <2>8 DEF AtWork
  <2>12. Survives'
    <3>1. ASSUME NEW d \in StoreDocs, acked'[d] # 0
          PROVE  IF storeDisk'[d].base # 0 THEN AtLeast(d, storeDisk[d].base)'
                 ELSE Away(d)' /\ \E b \in storeDisk'[d].bak : AtLeast(d, b.id)'
      <4>1. IF dk[d].base # 0 THEN AtLeast(d, dk[d].base) ELSE \E b \in dk[d].bak : AtLeast(d, b.id)
        BY <2>4, <2>5, <3>1 DEF Kept
      <4>2. CASE dk[d].base # 0
        BY <2>5, <4>1, <4>2 DEF AtLeast
      <4>3. CASE dk[d].base = 0
        <5>1. d # e
          BY <2>4, <2>5, <2>6, <3>1, <4>3
        <5>2. storeDisk[d].base = 0 /\ acked[d] # 0
          BY <2>5, <2>6, <3>1, <4>3, <5>1
        <5>3. Away(d)
          BY <5>2 DEF ScopeInv, Survives
        <5>4. d \in todo' /\ storePhase' = "recover"
          BY <1>2, <2>5, <2>8, <5>1, <5>3 DEF Away
        <5>5. \E b \in storeDisk'[d].bak : AtLeast(d, b.id)'
          BY <2>5, <4>1, <4>3 DEF AtLeast
        <5> QED BY <2>5, <4>3, <5>4, <5>5 DEF Away
      <4> QED BY <4>2, <4>3
    <3>2. \A d \in StoreDocs : HasArtifacts(storeDisk[d])' => d \in todo'
      <4>1. ASSUME NEW d \in StoreDocs, HasArtifacts(storeDisk[d])' PROVE d \in todo'
        <5>1. d # e
          BY <2>2, <2>5, <2>6, <4>1 DEF HasArtifacts
        <5>2. HasArtifacts(storeDisk[d])
          BY <2>5, <2>6, <4>1, <5>1 DEF HasArtifacts
        <5> QED BY <1>2, <2>5, <5>1, <5>2 DEF ScopeInv, Survives
      <4> QED BY <4>1
    <3> QED BY <2>5, <2>8, <3>1, <3>2 DEF Survives
  <2>13. Plans'
    BY <2>5, <2>8 DEF Plans
  <2> QED BY <2>9, <2>10, <2>11, <2>12, <2>13 DEF ScopeInv
<1> QED BY <1>4, <1>5

\* Documents that go, and the answers about them with them.
LEMMA DocumentsGo ==
  ASSUME ScopeInv, work = Idle, plan' = <<>>, work' = Idle, body' = body, storePhase' = "open",
         storePhase = "open" \/ todo = {}, storePhase # "stuck",
         NEW gone, storeDisk' = [d \in StoreDocs |-> IF d \in gone THEN Empty ELSE storeDisk[d]],
         DOMAIN acked' = StoreDocs,
         \A d \in StoreDocs : IF d \in gone THEN acked'[d] = 0 ELSE acked'[d] = acked[d] \/ acked'[d] = 0,
         UNCHANGED <<leased, day, faultAt, storeFaults, storeCrashes>>,
         acked' \in [StoreDocs -> Nat], todo' = todo, scopeDir' \in BOOLEAN, bornV1' \in BOOLEAN,
         tomb' \in {"none", "clean", "torn"}
  PROVE  ScopeInv'
<1>1. NextTxn' = NextTxn /\ (Filled => Filled') /\ \A d, f : Replacement(d, f)' <=> Replacement(d, f)
  BY BodyStays
<1>2. Empty \in DiskOf /\ Empty.base = 0 /\ Empty.tmp = {} /\ Empty.bak = {} /\ Empty.com = {}
  BY FS_EmptySet DEF Empty, DiskOf
<1>3. ScopeTypes'
  <2>1. storeDisk' \in [StoreDocs -> DiskOf]
    BY <1>2 DEF ScopeInv, ScopeTypes
  <2>2. plan' \in Seq(PlanOf)
    OBVIOUS
  <2> QED BY <1>1, <2>1, <2>2 DEF ScopeInv, ScopeTypes
<1>4. FilesAreWritten'
  <2>1. ASSUME NEW d \in StoreDocs PROVE FilesOk(d)'
    <3>1. FilesOk(d)
      BY DEF ScopeInv, FilesAreWritten
    <3>2. CASE d \in gone
      <4>1. storeDisk'[d] = Empty /\ acked'[d] = 0
        BY <3>2
      <4> QED BY <1>2, <4>1 DEF FilesOk
    <3>3. CASE d \notin gone
      <4>1. storeDisk'[d] = storeDisk[d] /\ (acked'[d] = acked[d] \/ acked'[d] = 0)
        BY <3>3
      <4> QED BY <1>1, <3>1, <4>1 DEF FilesOk
    <3> QED BY <3>2, <3>3
  <2> QED BY <2>1 DEF FilesAreWritten
<1>5. AtWork'
  BY DEF AtWork
<1>6. Survives'
  <2>1. ASSUME NEW d \in StoreDocs, acked'[d] # 0
        PROVE  storeDisk'[d].base # 0 /\ AtLeast(d, storeDisk[d].base)'
    <3>1. storeDisk'[d] = storeDisk[d] /\ acked'[d] = acked[d] /\ acked[d] # 0
      BY <2>1
    <3>2. ~Away(d)
      BY DEF Away
    <3>3. storeDisk[d].base # 0 /\ AtLeast(d, storeDisk[d].base)
      BY <3>1, <3>2 DEF ScopeInv, Survives
    <3> QED BY <3>1, <3>3 DEF AtLeast
  <2> QED BY <2>1 DEF Survives
<1>7. Plans'
  BY DEF Plans
<1> QED BY <1>3, <1>4, <1>5, <1>6, <1>7 DEF ScopeInv

LEMMA Opens ==
  ASSUME ScopeInv, OpenDone \/ OpenError
  PROVE  ScopeInv'
<1>1. storePhase = "recover" /\ work = Idle /\ plan = <<>>
  <2>1. storePhase = "recover"
    BY DEF OpenDone, OpenError, Recovering
  <2> QED BY <2>1 DEF ScopeInv, AtWork, Survives
<1>2. CASE OpenDone
  <2>1. /\ todo = {} /\ storeDisk' = discard_incomplete_v1_rollback_artifacts
        /\ acked' = [d \in StoreDocs |-> IF storeDisk'[d] = storeDisk[d] THEN acked[d] ELSE 0]
        /\ tomb' = "none" /\ storePhase' = "open"
        /\ UNCHANGED <<body, scopeDir, plan, work, todo, leased, bounds>>
    BY <1>2 DEF OpenDone
  <2>2. PICK gone : gone = IF HalfRollback THEN {"rollback", "rmeta"} ELSE {}
    OBVIOUS
  <2>3. storeDisk' = [d \in StoreDocs |-> IF d \in gone THEN Empty ELSE storeDisk[d]]
    <3>1. storeDisk \in [StoreDocs -> DiskOf] /\ {"rollback", "rmeta"} \subseteq StoreDocs
      BY DocNames DEF ScopeInv, ScopeTypes
    <3> QED BY <2>1, <2>2, <3>1 DEF discard_incomplete_v1_rollback_artifacts
  <2>4. ASSUME NEW d \in StoreDocs
        PROVE  /\ IF d \in gone THEN acked'[d] = 0 ELSE acked'[d] = acked[d] \/ acked'[d] = 0
               /\ acked'[d] \in Nat
    <3>1. acked[d] \in Nat
      BY DEF ScopeInv, ScopeTypes
    <3>2. acked[d] # 0 => storeDisk[d].base # 0
      BY <1>1, <2>1 DEF ScopeInv, Survives, Away
    <3>3. Empty.base = 0
      BY DEF Empty
    <3> QED BY <2>1, <2>3, <3>1, <3>2, <3>3
  <2>5. acked' \in [StoreDocs -> Nat] /\ DOMAIN acked' = StoreDocs
    BY <2>1, <2>4
  <2>6. scopeDir' \in BOOLEAN /\ bornV1' \in BOOLEAN /\ tomb' \in {"none", "clean", "torn"}
    BY <2>1 DEF ScopeInv, ScopeTypes, bounds
  <2>7. UNCHANGED <<leased, day, faultAt, storeFaults, storeCrashes>> /\ work' = Idle /\ plan' = <<>>
    BY <1>1, <2>1 DEF bounds
  <2> QED BY <1>1, <2>1, <2>3, <2>4, <2>5, <2>6, <2>7, DocumentsGo
<1>3. CASE OpenError
  <2>1. /\ storePhase' = "stuck" /\ todo' = {}
        /\ UNCHANGED <<storeDisk, body, scopeDir, tomb, plan, work, acked, leased, bounds>>
    BY <1>3 DEF OpenError
  <2>2. ScopeTypes'
    BY <2>1, BodyStays DEF ScopeInv, ScopeTypes, bounds
  <2>3. FilesAreWritten'
    BY <2>1, BodyStays DEF ScopeInv, FilesAreWritten, FilesOk
  <2>4. AtWork'
    BY <1>1, <2>1 DEF AtWork
  <2>5. Survives'
    BY <1>1, <2>1 DEF ScopeInv, Survives, Away, AtLeast
  <2>6. Plans'
    BY <1>1, <2>1 DEF Plans
  <2> QED BY <2>2, <2>3, <2>4, <2>5, <2>6 DEF ScopeInv
<1> QED BY <1>2, <1>3

LEMMA IdentityLoads ==
  ASSUME ScopeInv, load_or_create_desktop_instance
  PROVE  ScopeInv'
<1>1. PICK x, s, y, e : /\ e = "identity" /\ x = storeDisk[e] /\ s = Settled(x)
                        /\ y = recover_document_artifacts(x)
  OBVIOUS
<1>2. /\ e \in StoreDocs /\ x \in DiskOf /\ Verdict(x) # "error" /\ storePhase = "open" /\ work = Idle /\ plan = <<>>
  BY <1>1, DocNames DEF load_or_create_desktop_instance, Ready, ScopeInv, ScopeTypes
<1>3. /\ s \in DiskOf /\ s.bak = {} /\ s.com = x.com
      /\ s \in [base : Nat, tmp : SUBSET TmpOf, bak : SUBSET BakOf, com : SUBSET ComOf]
  BY <1>1, <1>2, SettledFacts DEF DiskOf
<1>4. y \in DiskOf /\ y.base = s.base /\ y.bak = {} /\ y.tmp = {} /\ y.com = {}
  <2>1. y = [s EXCEPT !.tmp = {}, !.com = {}]
    BY <1>1 DEF recover_document_artifacts
  <2>2. IsFiniteSet({})
    BY FS_EmptySet
  <2> QED BY <1>3, <2>1, <2>2 DEF DiskOf
<1>5. PICK dk : dk = [storeDisk EXCEPT ![e] = y]
  OBVIOUS
<1>6. Kept(dk) /\ (acked[e] # 0 => y.base # 0)
  BY <1>1, <1>2, <1>4, <1>5, SettledIsKept
<1>7. /\ storeDisk' = dk
      /\ plan' = (IF y.base # 0 THEN <<>> ELSE <<W("identity", [id |-> NextTxn])>>)
      /\ UNCHANGED <<body, scopeDir, tomb, storePhase, work, todo, acked, leased, bounds>>
  BY <1>1, <1>5 DEF load_or_create_desktop_instance
<1>8. /\ dk \in [StoreDocs -> DiskOf] /\ dk[e] = y /\ \A d \in StoreDocs : d # e => dk[d] = storeDisk[d]
  BY <1>2, <1>4, <1>5 DEF ScopeInv, ScopeTypes
<1>9. NextTxn' = NextTxn /\ (Filled => Filled') /\ \A d, f : Replacement(d, f)' <=> Replacement(d, f)
  BY <1>7, BodyStays
<1>10. Plain(plan')
  <2>1. NextTxn \in Nat
    BY <1>2, FilesOfDocument DEF ScopeInv
  <2>2. [id |-> NextTxn] \in BodyOf("identity")
    BY <2>1, BodyNames
  <2>3. PlainItem(W("identity", [id |-> NextTxn]))
    BY <2>2, DocNames, PlannedDocument
  <2> QED BY <1>7, <2>3, PlainOne, PlainNone
<1>11. ScopeTypes'
  <2>1. storeDisk' \in [StoreDocs -> DiskOf] /\ plan' \in Seq(PlanOf)
    BY <1>7, <1>8, <1>10 DEF Plain
  <2> QED BY <1>7, <1>9, <2>1 DEF ScopeInv, ScopeTypes, bounds
<1>12. FilesAreWritten'
  <2>1. ASSUME NEW d \in StoreDocs PROVE FilesOk(d)'
    <3>1. acked[d] # 0 => Replacement(d, acked[d])
      BY FilesOfDocument DEF ScopeInv
    <3> QED BY <1>6, <1>7, <1>9, <3>1 DEF FilesOk, Kept
  <2> QED BY <1>2, <1>7, <2>1 DEF FilesAreWritten
<1>13. AtWork'
  BY <1>2, <1>7 DEF AtWork
<1>14. Survives'
  <2>1. ASSUME NEW d \in StoreDocs, acked'[d] # 0
        PROVE  storeDisk'[d].base # 0 /\ AtLeast(d, storeDisk[d].base)'
    <3>1. dk[d].base # 0
      <4>1. CASE d = e
        BY <1>6, <1>7, <1>8, <2>1, <4>1
      <4>2. CASE d # e
        BY <1>2, <1>7, <1>8, <2>1, <4>2, ReadyKeeps
      <4> QED BY <4>1, <4>2
    <3>2. AtLeast(d, dk[d].base)
      BY <1>6, <1>7, <2>1, <3>1 DEF Kept
    <3> QED BY <1>7, <3>1, <3>2 DEF AtLeast
  <2>2. storePhase' = "open"
    BY <1>2, <1>7
  <2> QED BY <2>1, <2>2 DEF Survives
<1>15. Plans'
  <2>1. \A i \in 1..Len(plan') : plan'[i].doc # "trust" /\ plan'[i] # Expired
    BY <1>10, DocNames DEF Plain
  <2> QED BY <2>1 DEF Plans
<1> QED BY <1>11, <1>12, <1>13, <1>14, <1>15 DEF ScopeInv

LEMMA Purges ==
  ASSUME ScopeInv, PurgeRename
  PROVE  ScopeInv'
<1>1. /\ storePhase = "open" /\ work = Idle /\ plan' = <<>>
      /\ UNCHANGED <<body, storePhase, work, todo, leased, asked, day, faultAt, storeFaults, storeCrashes>>
  BY DEF PurgeRename
<1>2. /\ storeDisk \in [StoreDocs -> DiskOf] /\ acked \in [StoreDocs -> Nat] /\ scopeDir \in BOOLEAN /\ bornV1 \in BOOLEAN
      /\ tomb \in {"none", "clean", "torn"}
  BY DEF ScopeInv, ScopeTypes
<1>3. PICK gone : gone = IF leased \/ tomb # "none" THEN {} ELSE {d \in StoreDocs : InScope(d)}
  OBVIOUS
<1>4. CASE leased \/ tomb # "none"
  <2>1. UNCHANGED <<storeDisk, scopeDir, tomb, acked, bornV1>> /\ gone = {}
    BY <1>3, <1>4 DEF PurgeRename
  <2>2. storeDisk' = [d \in StoreDocs |-> IF d \in gone THEN Empty ELSE storeDisk[d]]
    BY <1>2, <2>1
  <2> QED BY <1>1, <1>2, <2>1, <2>2, DocumentsGo
<1>5. CASE ~(leased \/ tomb # "none")
  <2>1. /\ tomb' \in {"clean", "torn"} /\ storeDisk' = [d \in StoreDocs |-> IF InScope(d) THEN Empty ELSE storeDisk[d]]
        /\ acked' = [d \in StoreDocs |-> IF InScope(d) THEN 0 ELSE acked[d]]
        /\ scopeDir' = FALSE /\ bornV1' = FALSE
    BY <1>5 DEF PurgeRename
  <2>2. \A d \in StoreDocs : d \in gone <=> InScope(d)
    BY <1>3, <1>5
  <2>3. storeDisk' = [d \in StoreDocs |-> IF d \in gone THEN Empty ELSE storeDisk[d]]
    BY <2>1, <2>2
  <2>4. /\ acked' \in [StoreDocs -> Nat] /\ DOMAIN acked' = StoreDocs
        /\ \A d \in StoreDocs : IF d \in gone THEN acked'[d] = 0 ELSE acked'[d] = acked[d] \/ acked'[d] = 0
    BY <1>2, <2>1, <2>2
  <2> QED BY <1>1, <2>1, <2>3, <2>4, DocumentsGo
<1> QED BY <1>4, <1>5

-----------------------------------------------------------------------------
(* The scope store: theorems.                                              *)

LEMMA ScopeInitial ==
  ASSUME StoreInit
  PROVE  ScopeInv
<1>1. PICK old \in BOOLEAN :
        /\ body = [u \in Txns |-> IF old /\ u = 1 THEN V1 ELSE NoBody]
        /\ storeDisk = [d \in StoreDocs |-> IF old /\ d = "profiles" THEN [Empty EXCEPT !.base = 1] ELSE Empty]
        /\ acked = [d \in StoreDocs |-> IF old /\ d = "profiles" THEN 1 ELSE 0]
        /\ scopeDir = old /\ bornV1 = old
  BY DEF StoreInit
<1>2. /\ tomb = "none" /\ storePhase = "open" /\ plan = <<>> /\ work = Idle /\ todo = {}
      /\ leased = FALSE /\ day = 0 /\ faultAt = 0 /\ storeFaults = 0 /\ storeCrashes = 0
  BY DEF StoreInit
<1>3. MaxTxn \in Nat /\ Txns = 1..MaxTxn /\ 1 \in Txns
  BY StoreAssumption DEF Txns
<1>4. V1 \in ProfilesOf /\ V1 \in Bodies /\ V1 # NoBody /\ V1.v = 1
  BY BodyNames DEF V1, Profiles, ProfilesOf, Bodies
<1>5. Written = IF old THEN {1} ELSE {}
  BY <1>1, <1>3, <1>4 DEF Written
<1>6. Cardinality({1}) = 1 /\ Cardinality({}) = 0
  BY FS_Singleton, FS_EmptySet
<1>7. NextTxn = (IF old THEN 2 ELSE 1) /\ Filled
  <2>1. NextTxn = Cardinality(Written) + 1
    BY DEF NextTxn, Written
  <2>2. NextTxn = IF old THEN 2 ELSE 1
    BY <1>5, <1>6, <2>1
  <2>3. 1..1 = {1} /\ 1..0 = {} /\ 2 - 1 = 1 /\ 1 - 1 = 0
    OBVIOUS
  <2>4. Written = 1..(NextTxn - 1)
    BY <1>5, <2>2, <2>3
  <2>5. NextTxn \in 1..(MaxTxn + 1)
    BY <1>3, <2>2
  <2> QED BY <2>2, <2>4, <2>5 DEF Filled
<1>8. /\ Empty \in DiskOf /\ [Empty EXCEPT !.base = 1] \in DiskOf /\ [Empty EXCEPT !.base = 1].base = 1
      /\ Empty.base = 0 /\ Empty.tmp = {} /\ Empty.bak = {} /\ Empty.com = {}
      /\ [Empty EXCEPT !.base = 1].tmp = {} /\ [Empty EXCEPT !.base = 1].bak = {} /\ [Empty EXCEPT !.base = 1].com = {}
  BY FS_EmptySet DEF Empty, DiskOf
<1>9. ASSUME NEW d \in StoreDocs
      PROVE  /\ storeDisk[d] \in DiskOf /\ storeDisk[d].tmp = {} /\ storeDisk[d].bak = {} /\ storeDisk[d].com = {}
             /\ storeDisk[d].base = acked[d] /\ acked[d] \in Nat
             /\ acked[d] # 0 => old /\ d = "profiles" /\ acked[d] = 1
  BY <1>1, <1>8
<1>10. ScopeTypes
  <2>1. storeDisk \in [StoreDocs -> DiskOf] /\ acked \in [StoreDocs -> Nat]
    BY <1>1, <1>9
  <2>2. body \in [Txns -> Bodies \cup {NoBody}]
    BY <1>1, <1>4
  <2>3. plan \in Seq(PlanOf)
    BY <1>2
  <2> QED BY <1>1, <1>2, <1>7, <2>1, <2>2, <2>3 DEF ScopeTypes
<1>11. FilesAreWritten
  <2>1. old => Replacement("profiles", 1)
    <3>1. old => body[1] = V1
      BY <1>1, <1>3
    <3>2. old => 1 \in 1..(NextTxn - 1)
      BY <1>7
    <3> QED BY <1>4, <3>1, <3>2, BodyNames DEF Replacement
  <2> QED BY <1>2, <1>9, <2>1 DEF FilesAreWritten, FilesOk
<1>12. Survives
  <2>1. ASSUME NEW d \in StoreDocs, acked[d] # 0 PROVE storeDisk[d].base # 0 /\ AtLeast(d, storeDisk[d].base)
    <3>1. d = "profiles" /\ storeDisk[d].base = 1 /\ acked[d] = 1
      BY <1>9, <2>1
    <3> QED BY <3>1 DEF AtLeast
  <2> QED BY <1>2, <2>1 DEF Survives
<1> QED BY <1>2, <1>10, <1>11, <1>12 DEF ScopeInv, AtWork, Plans

LEMMA ScopeStep ==
  ASSUME ScopeInv, [StoreNext]_svars
  PROVE  ScopeInv'
<1>1. CASE StoreStage \/ StageError
  BY <1>1, Staged
<1>2. CASE work # Idle /\ (Mark \/ Backup \/ StoreCommits \/ DropBackup)
  BY <1>2, OtherSteps
<1>3. CASE work # Idle /\ Unmark
  BY <1>3, Finishes
<1>4. CASE restore_v1_after_migration_failure
  BY <1>4, Finishes DEF restore_v1_after_migration_failure
<1>5. CASE IoError
  BY <1>5, ErrorsKeepFiles
<1>6. CASE Crash
  BY <1>6, Crashes
<1>7. CASE OpenDone \/ OpenError
  BY <1>7, Opens
<1>8. CASE \E d \in StoreDocs : RecoverDoc(d) \/ RecoverCrash(d)
  BY <1>8, Recovers
<1>9. CASE load_scope_config \/ replace_config \/ purge_if_deleted
  BY <1>9, ConfigCalls
<1>10. CASE \E h \in Endpoints : replace_trust(h) \/ repair_remove_endpoint(h)
  BY <1>10, TrustCalls
<1>11. CASE repair_restore_backup
  BY <1>11, RestoreCall
<1>12. CASE load_or_create_desktop_instance
  BY <1>12, IdentityLoads
<1>13. CASE \E k \in BOOLEAN : reconcile_known_scope(k)
  BY <1>13, ReconcileIsPlanned
<1>14. CASE OpenScope \/ Lease \/ NextDay \/ PurgeDelete \/ UNCHANGED svars
  BY <1>14, QuietSteps
<1>15. CASE PurgeRename
  BY <1>15, Purges
<1> QED BY <1>1, <1>2, <1>3, <1>4, <1>5, <1>6, <1>7, <1>8, <1>9, <1>10, <1>11, <1>12, <1>13, <1>14, <1>15
        DEF StoreNext

\* The files of the scope store are what its operations say they are, whatever crashes and fails.
THEOREM ScopeInvariant == ScopeStoreSpec => []ScopeInv
<1>1. StoreInit => ScopeInv
  BY ScopeInitial
<1>2. ScopeInv /\ [StoreNext]_svars => ScopeInv'
  BY ScopeStep
<1> QED BY <1>1, <1>2, PTL DEF ScopeStoreSpec

\* A directory that goes, goes for a purge of which the plan's first item is the reason.
LEMMA PurgedWhenDue ==
  ASSUME ScopeInv, [StoreNext]_svars, scopeDir, ~scopeDir', Head(plan) = Expired
  PROVE  acked["meta"] # 0 => day >= body[acked["meta"]].seen + RetentionDays
<1>1. PurgeRename
  <2>1. CASE UNCHANGED svars
    BY <2>1 DEF svars
  <2>2. CASE StoreNext
    BY <2>2 DEF StoreNext, StoreStage, Mark, Backup, StoreCommits, DropBackup, Unmark, Step, Finished, IoError,
       StageError, restore_v1_after_migration_failure, Crash, Restart, OpenDone, OpenError, RecoverDoc, RecoverCrash,
       load_scope_config, replace_config, replace_trust, repair_remove_endpoint, repair_restore_backup,
       load_or_create_desktop_instance, OpenScope, Lease, reconcile_known_scope, purge_if_deleted, NextDay,
       PurgeDelete, Begin
  <2> QED BY <2>1, <2>2
<1>2. plan # <<>> /\ plan \in Seq(PlanOf)
  BY <1>1 DEF PurgeRename, ScopeInv, ScopeTypes
<1>3. 1 \in 1..Len(plan) /\ plan[1] = Expired
  BY <1>2
<1> QED BY <1>3 DEF ScopeInv, Plans, Due

LEMMA TrustAdvances ==
  ASSUME ScopeInv, [StoreNext]_svars, acked["trust"] # 0, acked'["trust"] \notin {0, acked["trust"]}
  PROVE  body[acked'["trust"]].rev > body[acked["trust"]].rev
<1>0. "trust" \in StoreDocs
  BY DocNames
<1>1. PICK rest : work # Idle /\ Finished(rest)
  <2>1. acked' # acked
    OBVIOUS
  <2>2. CASE UNCHANGED svars
    BY <2>1, <2>2 DEF svars
  <2>3. CASE OpenDone \/ PurgeRename
    <3>1. acked'["trust"] \in {0, acked["trust"]}
      BY <1>0, <2>3 DEF OpenDone, PurgeRename
    <3> QED BY <3>1
  <2>4. CASE StoreNext /\ ~(OpenDone \/ PurgeRename)
    BY <2>1, <2>4 DEF StoreNext, StoreStage, Mark, Backup, StoreCommits, DropBackup, Unmark, Step, IoError,
       StageError, restore_v1_after_migration_failure, Crash, Restart, OpenError, RecoverDoc, RecoverCrash,
       load_scope_config, replace_config, replace_trust, repair_remove_endpoint, repair_restore_backup,
       load_or_create_desktop_instance, OpenScope, Lease, reconcile_known_scope, purge_if_deleted, NextDay,
       PurgeDelete, Begin
  <2> QED BY <2>2, <2>3, <2>4
<1>2. work.doc = "trust" /\ acked'["trust"] = work.u
  <2>1. acked' = [acked EXCEPT ![work.doc] = work.u]
    BY <1>1 DEF Finished
  <2>2. acked \in [StoreDocs -> Nat]
    BY DEF ScopeInv, ScopeTypes
  <2> QED BY <1>0, <2>1, <2>2
<1>3. 1 \in 1..Len(plan) /\ plan[1] = W("trust", body[work.u])
  BY <1>1, <1>2, Working
<1>4. plan[1].doc = "trust" /\ plan[1].val = body[work.u]
  BY <1>3 DEF W
<1> QED BY <1>2, <1>3, <1>4 DEF ScopeInv, Plans

-----------------------------------------------------------------------------
(* The scope store: the version 1 document and its copy.                   *)

\* What a call of the profiles may add to the migration, and a call that leaves it alone.
Newer(ps) == ps \in Seq(PlanOf) /\ NoOldFormat(ps)
Aside(ps) == ps \in Seq(PlanOf) /\ \A i \in 1..Len(ps) : ps[i].doc \notin {"profiles", "rollback", "rmeta"}

LEMMA NewerOne ==
  ASSUME NEW p \in PlanOf, p.doc \notin CopyDocs, p.doc = "profiles" => p.val.v = 2 /\ p.val.rev > 0
  PROVE  Newer(<<p>>)
<1>1. <<p>> \in Seq(PlanOf) /\ Len(<<p>>) = 1 /\ <<p>>[1] = p
  OBVIOUS
<1> QED BY <1>1 DEF Newer, NoOldFormat

LEMMA NewerNone == Newer(<<>>)
BY DEF Newer, NoOldFormat

LEMMA NewerConcat ==
  ASSUME NEW s, NEW t, Newer(s), Newer(t)
  PROVE  Newer(s \o t)
<1>1. /\ s \in Seq(PlanOf) /\ t \in Seq(PlanOf) /\ s \o t \in Seq(PlanOf)
      /\ Len(s) \in Nat /\ Len(t) \in Nat /\ Len(s \o t) = Len(s) + Len(t)
      /\ \A i \in 1..(Len(s) + Len(t)) : (s \o t)[i] = IF i <= Len(s) THEN s[i] ELSE t[i - Len(s)]
  BY ConcatProperties, LenProperties DEF Newer
<1>2. ASSUME NEW i \in 1..(Len(s) + Len(t))
      PROVE  /\ (s \o t)[i].doc \notin CopyDocs
             /\ (s \o t)[i].doc = "profiles" => (s \o t)[i].val.v = 2 /\ (s \o t)[i].val.rev > 0
  <2>1. CASE i <= Len(s)
    BY <1>1, <2>1 DEF Newer, NoOldFormat
  <2>2. CASE ~(i <= Len(s))
    <3>1. (i - Len(s)) \in 1..Len(t)
      BY <1>1, <2>2
    <3> QED BY <1>1, <2>2, <3>1 DEF Newer, NoOldFormat
  <2> QED BY <2>1, <2>2
<1> QED BY <1>1, <1>2 DEF Newer, NoOldFormat

\* What a call that starts has to respect.
LEMMA MigrationStarts ==
  ASSUME ScopeInv, MigInv, Ready, bornV1 => CopiesPlanned(plan', FALSE), ~bornV1 => NoOldFormat(plan'),
         UNCHANGED <<storeDisk, body, scopeDir, tomb, storePhase, work, todo, acked, leased, bounds>>
  PROVE  MigInv'
<1>0. work = Idle /\ bornV1' = bornV1 /\ work' = work /\ body' = body /\ acked' = acked /\ storeDisk' = storeDisk
  BY DEF Ready, bounds
<1>1. NextTxn' = NextTxn
  BY <1>0, BodyStays
<1>2. Migrated'
  <2> SUFFICES ASSUME bornV1 PROVE Migrated'
    BY <1>0 DEF Migrated
  <2>1. /\ NextTxn > 1 /\ body[1] = V1 /\ acked["profiles"] # 0
        /\ NewProfiles => Copied
    BY DEF MigInv, Migrated
  <2>2. NewProfiles' <=> NewProfiles
    BY <1>0 DEF NewProfiles, Files
  <2>3. Copied' <=> Copied
    BY <1>0 DEF Copied, Exists
  <2>4. CopiesPlanned(plan, work # Idle)'
    BY <1>0 DEF CopiesPlanned, Exists
  <2> QED BY <1>0, <1>1, <2>1, <2>2, <2>3, <2>4 DEF Migrated
<1>3. Unborn'
  <2> SUFFICES ASSUME ~bornV1 PROVE Unborn'
    BY <1>0 DEF Unborn
  <2>1. /\ \A d \in CopyDocs : storeDisk[d].base = 0 /\ storeDisk[d].tmp = {} /\ storeDisk[d].bak = {}
        /\ \A f \in Files("profiles") : f # 0 => body[f].v = 2
    BY DEF MigInv, Unborn
  <2>2. Files("profiles")' = Files("profiles")
    BY <1>0 DEF Files
  <2>3. NoOldFormat(plan)'
    BY DEF NoOldFormat
  <2> QED BY <1>0, <2>1, <2>2, <2>3 DEF Unborn
<1> QED BY <1>2, <1>3 DEF MigInv

\* The live profiles while the store is quiet.
LEMMA LiveProfiles ==
  ASSUME ScopeInv, MigInv, Ready, MigrationOk
  PROVE  IF bornV1 /\ ~Copied
         THEN /\ ~Exists("rollback") /\ ~Exists("rmeta")
              /\ Migration = <<W("rollback", V1), W("rmeta", V1)>> \o <<W("profiles", migrate_v1)>>
         ELSE /\ Migration = <<>> \/ (bornV1 /\ Migration = <<>> \o <<W("profiles", migrate_v1)>>)
<1>1. CASE bornV1
  <2>1. /\ acked["profiles"] # 0 /\ "profiles" \in StoreDocs /\ body[1] = V1 /\ (NewProfiles => Copied)
    BY <1>1, DocNames DEF MigInv, Migrated
  <2>2. Exists("profiles") /\ profilesNow = body[storeDisk["profiles"].base]
    BY <2>1, ReadyKeeps DEF Ready, Exists, Read, profilesNow
  <2>3. profilesNow \in ProfilesOf /\ profilesNow.v \in {1, 2}
    BY DocumentsRead DEF ProfilesOf
  <2>4. ~NewProfiles => storeDisk["profiles"].base = 1
    BY <2>2 DEF NewProfiles, Files, Exists
  <2>5. ~NewProfiles => profilesNow.v = 1
    BY <2>1, <2>2, <2>4 DEF V1, Profiles
  <2>6. CASE Copied
    BY <1>1, <2>3, <2>6 DEF Migration, Copied
  <2>7. CASE ~Copied
    <3>1. profilesNow.v = 1 /\ ~HalfRollback
      BY <2>1, <2>5, <2>7 DEF MigrationOk
    <3>2. ~Exists("rollback") /\ ~Exists("rmeta")
      BY <2>7, <3>1 DEF HalfRollback, Copied
    <3> QED BY <1>1, <2>7, <3>1, <3>2 DEF Migration
  <2> QED BY <2>6, <2>7
<1>2. CASE ~bornV1
  <2>1. Exists("profiles") => profilesNow.v = 2
    BY <1>2 DEF MigInv, Unborn, Files, profilesNow, Exists, Read
  <2>2. ~Exists("profiles") => profilesNow.v = 2
    BY DEF profilesNow, Profiles
  <2> QED BY <1>2, <2>1, <2>2 DEF Migration
<1> QED BY <1>1, <1>2

LEMMA MigrationPlanned ==
  ASSUME ScopeInv, MigInv, Ready, MigrationOk, NEW t, Newer(t), plan' = Migration \o t,
         UNCHANGED <<storeDisk, body, scopeDir, tomb, storePhase, work, todo, acked, leased, bounds>>
  PROVE  MigInv'
<1>0. migrate_v1 \in ProfilesOf /\ V1 \in ProfilesOf /\ {"profiles", "rollback", "rmeta"} \subseteq StoreDocs
  BY DocNames DEF migrate_v1, V1, Profiles, ProfilesOf
<1>1. PICK p, r, m : p = W("profiles", migrate_v1) /\ r = W("rollback", V1) /\ m = W("rmeta", V1)
  OBVIOUS
<1>2. /\ p \in PlanOf /\ p.doc = "profiles" /\ r \in PlanOf /\ r.doc = "rollback" /\ m \in PlanOf /\ m.doc = "rmeta"
  BY <1>0, <1>1, BodyNames, PlannedDocument
<1>3. t \in Seq(PlanOf) /\ Len(t) \in Nat
  BY LenProperties DEF Newer
<1>4. CASE bornV1 /\ ~Copied
  <2>1. ~Exists("rollback") /\ ~Exists("rmeta") /\ Migration = <<r, m>> \o <<p>>
    BY <1>1, <1>4, LiveProfiles
  <2>2. PICK s : s = <<r, m, p>>
    OBVIOUS
  <2>3. s = <<r, m>> \o <<p>>
    BY <2>2
  <2>4. s \in Seq(PlanOf) /\ Len(s) = 3 /\ s[1] = r /\ s[2] = m /\ s[3] = p
    BY <1>2, <2>2
  <2>5. PICK q : q = s \o t
    OBVIOUS
  <2>6. /\ q \in Seq(PlanOf) /\ Len(q) = 3 + Len(t)
        /\ \A i \in 1..(3 + Len(t)) : q[i] = IF i <= 3 THEN s[i] ELSE t[i - 3]
    <3>1. /\ q \in Seq(PlanOf) /\ Len(q) = Len(s) + Len(t)
          /\ \A i \in 1..(Len(s) + Len(t)) : q[i] = IF i <= Len(s) THEN s[i] ELSE t[i - Len(s)]
      BY <1>3, <2>4, <2>5, ConcatProperties
    <3> QED BY <2>4, <3>1
  <2>7. q[1].doc = "rollback" /\ q[2].doc = "rmeta" /\ q[3].doc = "profiles"
    BY <1>2, <1>3, <2>4, <2>6
  <2>8. ASSUME NEW i \in 1..Len(q), i > 3 PROVE q[i].doc \notin CopyDocs
    <3>1. (i - 3) \in 1..Len(t) /\ q[i] = t[i - 3]
      BY <1>3, <2>6, <2>8
    <3> QED BY <3>1 DEF Newer, NoOldFormat
  <2>9. CopiesPlanned(q, FALSE)
    <3>1. ASSUME NEW i \in 1..Len(q) PROVE i = 1 \/ i = 2 \/ i >= 3
      BY <1>3, <2>6
    <3>2. ASSUME NEW i \in 1..Len(q), i = 3 \/ i > 3 PROVE \A d \in CopyDocs : \E j \in 1..(i - 1) : q[j].doc = d
      <4>1. 1 \in 1..(i - 1) /\ 2 \in 1..(i - 1)
        BY <3>2, <1>3, <2>6
      <4> QED BY <2>7, <4>1 DEF CopyDocs
    <3>3. ASSUME NEW i \in 1..Len(q)
          PROVE  /\ q[i].doc = "profiles" => \A d \in CopyDocs : Exists(d) \/ \E j \in 1..(i - 1) : q[j].doc = d
                 /\ q[i].doc = "rollback" => i = 1
                 /\ q[i].doc = "rmeta" => i = 1 \/ (i = 2 /\ q[1].doc = "rollback")
                 /\ q[i].doc \in CopyDocs => ~Exists(q[i].doc) \/ (i = 1 /\ FALSE)
      <4>1. CASE i = 1
        BY <2>1, <2>7, <4>1
      <4>2. CASE i = 2
        BY <2>1, <2>7, <4>2
      <4>3. CASE i = 3
        BY <2>7, <3>2, <4>3 DEF CopyDocs
      <4>4. CASE i > 3
        BY <2>8, <3>2, <4>4 DEF CopyDocs
      <4> QED BY <3>1, <4>1, <4>2, <4>3, <4>4
    <3> QED BY <3>3 DEF CopiesPlanned
  <2>10. plan' = q
    BY <2>1, <2>3, <2>5
  <2> QED BY <1>4, <2>9, <2>10, MigrationStarts
<1>5. CASE bornV1 /\ Copied
  <2>1. Migration = <<>> \/ Migration = <<>> \o <<p>>
    BY <1>1, <1>5, LiveProfiles
  <2>2. <<>> \o <<p>> = <<p>>
    OBVIOUS
  <2>3. PICK s : s = Migration
    OBVIOUS
  <2>4. s \in Seq(PlanOf) /\ Len(s) \in Nat /\ \A i \in 1..Len(s) : s[i].doc = "profiles"
    <3>1. CASE s = <<>>
      BY <3>1
    <3>2. CASE s = <<p>>
      BY <1>2, <3>2
    <3> QED BY <2>1, <2>2, <2>3, <3>1, <3>2
  <2>5. PICK q : q = s \o t
    OBVIOUS
  <2>6. /\ q \in Seq(PlanOf) /\ Len(q) = Len(s) + Len(t)
        /\ \A i \in 1..(Len(s) + Len(t)) : q[i] = IF i <= Len(s) THEN s[i] ELSE t[i - Len(s)]
    BY <1>3, <2>4, <2>5, ConcatProperties
  <2>7. ASSUME NEW i \in 1..Len(q) PROVE q[i].doc \notin CopyDocs
    <3>1. CASE i <= Len(s)
      <4>1. q[i].doc = "profiles"
        BY <1>3, <2>4, <2>6, <3>1
      <4> QED BY <4>1 DEF CopyDocs
    <3>2. CASE ~(i <= Len(s))
      <4>1. (i - Len(s)) \in 1..Len(t) /\ q[i] = t[i - Len(s)]
        BY <1>3, <2>4, <2>6, <3>2
      <4> QED BY <4>1 DEF Newer, NoOldFormat
    <3> QED BY <3>1, <3>2
  <2>8. CopiesPlanned(q, FALSE)
    BY <1>5, <2>7 DEF CopiesPlanned, CopyDocs, Copied
  <2> QED BY <1>5, <2>3, <2>5, <2>8, MigrationStarts
<1>6. CASE ~bornV1
  <2>1. Migration = <<>> /\ <<>> \o t = t
    BY <1>3, <1>6, LiveProfiles, ConcatEmptySeq
  <2> QED BY <1>6, <2>1, MigrationStarts DEF Newer
<1> QED BY <1>4, <1>5, <1>6

LEMMA AsideCall ==
  ASSUME ScopeInv, MigInv, Ready, Aside(plan'),
         UNCHANGED <<storeDisk, body, scopeDir, tomb, storePhase, work, todo, acked, leased, bounds>>
  PROVE  MigInv'
<1>1. CopiesPlanned(plan', FALSE) /\ NoOldFormat(plan')
  BY DEF Aside, CopiesPlanned, NoOldFormat, CopyDocs
<1> QED BY <1>1, MigrationStarts

\* The calls: what each adds to the migration.
LEMMA MigrationCalls ==
  ASSUME ScopeInv, MigInv,
         \/ load_scope_config \/ replace_config \/ purge_if_deleted
         \/ \E k \in BOOLEAN : reconcile_known_scope(k)
  PROVE  MigInv'
<1>0. Ready /\ MigrationOk
  BY DEF load_scope_config, replace_config, purge_if_deleted, reconcile_known_scope, Begin
<1>1. UNCHANGED <<storeDisk, body, scopeDir, tomb, storePhase, work, todo, acked, leased, bounds>>
  BY DEF load_scope_config, replace_config, purge_if_deleted, reconcile_known_scope, Begin
<1>2. Migration \in Seq(PlanOf) /\ ensure_metadata \in Seq(PlanOf)
  BY <1>0, MigrationIsPlain DEF Plain
<1>3. Newer(ensure_metadata)
  <2>1. W("meta", Meta(day, Never)).doc = "meta"
    BY DEF W
  <2>2. Meta(day, Never) \in MetaOf
    BY DEF Meta, MetaOf, ScopeInv, ScopeTypes
  <2>3. W("meta", Meta(day, Never)) \in PlanOf
    BY <2>2, DocNames, BodyNames, PlannedDocument
  <2>4. Newer(<<W("meta", Meta(day, Never))>>)
    BY <2>1, <2>3, NewerOne DEF CopyDocs
  <2> QED BY <2>4, NewerNone DEF ensure_metadata
<1>4. \E t : Newer(t) /\ plan' = Migration \o t
  <2>1. CASE load_scope_config
    <3>1. plan' = Migration
      BY <2>1 DEF load_scope_config, Begin
    <3>2. Migration \o <<>> = Migration
      BY <1>2, ConcatEmptySeq
    <3> QED BY <3>1, <3>2, NewerNone
  <2>2. CASE replace_config
    <3>1. PICK p : p = W("profiles", Profiles(2, profilesNow.rev + 1))
      OBVIOUS
    <3>2. profilesNow.rev \in Nat
      BY <1>0, DocumentsRead DEF ProfilesOf
    <3>3. Profiles(2, profilesNow.rev + 1) \in ProfilesOf
      BY <3>2 DEF Profiles, ProfilesOf
    <3>4. p \in PlanOf /\ p.doc = "profiles" /\ p.val = Profiles(2, profilesNow.rev + 1)
      BY <3>1, <3>3, DocNames, BodyNames, PlannedDocument
    <3>5. p.val.v = 2 /\ p.val.rev > 0
      BY <3>2, <3>4 DEF Profiles
    <3>6. Newer(<<p>>) /\ <<p>> \in Seq(PlanOf)
      BY <3>4, <3>5, NewerOne DEF CopyDocs
    <3>7. Newer(ensure_metadata \o <<p>>)
      BY <1>3, <3>6, NewerConcat
    <3>8. (Migration \o ensure_metadata) \o <<p>> = Migration \o (ensure_metadata \o <<p>>)
      BY <1>2, <3>6, ConcatAssociative
    <3>9. plan' = (Migration \o ensure_metadata) \o <<p>>
      BY <2>2, <3>1 DEF replace_config, Begin
    <3> QED BY <3>7, <3>8, <3>9
  <2>3. CASE purge_if_deleted
    <3>1. Deleted \in PlanOf /\ Deleted.doc = "deleted"
      BY DocNames DEF PlanOf
    <3>2. Newer(<<Deleted>>)
      BY <3>1, NewerOne DEF CopyDocs
    <3> QED BY <2>3, <3>2 DEF purge_if_deleted, Begin
  <2>4. ASSUME NEW k \in BOOLEAN, reconcile_known_scope(k) PROVE \E t : Newer(t) /\ plan' = Migration \o t
    <3>1. PICK m, q : m = reconcile(metaNow, k) /\ q = IF is_purge_eligible(m) THEN <<Expired>> ELSE <<>>
      OBVIOUS
    <3>2. plan' = (Migration \o <<W("meta", m)>>) \o q
      BY <2>4, <3>1 DEF reconcile_known_scope, Begin
    <3>3. Newer(q)
      <4>1. Expired \in PlanOf /\ Expired.doc = "expired"
        BY DocNames DEF PlanOf
      <4>2. Newer(<<Expired>>)
        BY <4>1, NewerOne DEF CopyDocs
      <4> QED BY <3>1, <4>2, NewerNone
    <3>4. m \in MetaOf
      BY <1>0, <3>1, ReconciledMeta
    <3>5. W("meta", m) \in PlanOf /\ W("meta", m).doc = "meta"
      BY <3>4, DocNames, BodyNames, PlannedDocument
    <3>6. Newer(<<W("meta", m)>>) /\ <<W("meta", m)>> \in Seq(PlanOf) /\ q \in Seq(PlanOf)
      BY <3>3, <3>5, NewerOne DEF CopyDocs, Newer
    <3>7. Newer(<<W("meta", m)>> \o q)
      BY <3>3, <3>6, NewerConcat
    <3>8. (Migration \o <<W("meta", m)>>) \o q = Migration \o (<<W("meta", m)>> \o q)
      BY <1>2, <3>6, ConcatAssociative
    <3> QED BY <3>2, <3>7, <3>8
  <2> QED BY <2>1, <2>2, <2>3, <2>4
<1> QED BY <1>0, <1>1, <1>4, MigrationPlanned

\* The trust document and its copies.
LEMMA AsideConcat ==
  ASSUME NEW s, NEW t, Aside(s), Aside(t)
  PROVE  Aside(s \o t)
<1>1. /\ s \in Seq(PlanOf) /\ t \in Seq(PlanOf) /\ s \o t \in Seq(PlanOf)
      /\ Len(s) \in Nat /\ Len(t) \in Nat /\ Len(s \o t) = Len(s) + Len(t)
      /\ \A i \in 1..(Len(s) + Len(t)) : (s \o t)[i] = IF i <= Len(s) THEN s[i] ELSE t[i - Len(s)]
  BY ConcatProperties, LenProperties DEF Aside
<1>2. ASSUME NEW i \in 1..(Len(s) + Len(t)) PROVE (s \o t)[i].doc \notin {"profiles", "rollback", "rmeta"}
  <2>1. CASE i <= Len(s)
    BY <1>1, <2>1 DEF Aside
  <2>2. CASE ~(i <= Len(s))
    <3>1. (i - Len(s)) \in 1..Len(t)
      BY <1>1, <2>2
    <3> QED BY <1>1, <2>2, <3>1 DEF Aside
  <2> QED BY <2>1, <2>2
<1> QED BY <1>1, <1>2 DEF Aside

LEMMA AsideOne ==
  ASSUME NEW d \in StoreDocs, d \notin {"profiles", "rollback", "rmeta"}, NEW x, x \in BodyOf(d)
  PROVE  Aside(<<W(d, x)>>)
<1>1. W(d, x) \in PlanOf /\ W(d, x).doc = d
  BY PlannedDocument
<1>2. <<W(d, x)>> \in Seq(PlanOf) /\ Len(<<W(d, x)>>) = 1 /\ <<W(d, x)>>[1] = W(d, x)
  BY <1>1
<1> QED BY <1>1, <1>2 DEF Aside

LEMMA TrustCallsAside ==
  ASSUME ScopeInv, MigInv,
         \/ \E h \in Endpoints : replace_trust(h) \/ repair_remove_endpoint(h)
         \/ repair_restore_backup
  PROVE  MigInv'
<1>0. /\ Ready /\ UNCHANGED <<storeDisk, body, scopeDir, tomb, storePhase, work, todo, acked, leased, bounds>>
  BY DEF replace_trust, repair_remove_endpoint, repair_restore_backup, Begin
<1>1. {"trust", "backup", "quarantine", "meta"} \subseteq StoreDocs
  BY DocNames
<1>2. ASSUME NEW es \in SUBSET Endpoints PROVE Aside(<<W("trust", Trust(trustNow.rev + 1, es))>>)
  <2>1. Trust(trustNow.rev + 1, es) \in TrustsOf
    BY <1>0, <1>2, NextRevision
  <2> QED BY <1>1, <2>1, BodyNames, AsideOne
<1>3. trustNow \in TrustsOf /\ trustNow.rev \in Nat /\ trustNow.entries \subseteq Endpoints
  BY <1>0, DocumentsRead DEF TrustsOf
<1>4. Aside(<<>>)
  BY DEF Aside
<1>5. CASE \E h \in Endpoints : replace_trust(h)
  <2>1. PICK h \in Endpoints : replace_trust(h)
    BY <1>5
  <2>2. plan' = ensure_metadata \o <<W("trust", Trust(trustNow.rev + 1, trustNow.entries \cup {h}))>>
    BY <2>1 DEF replace_trust, Begin
  <2>3. Aside(ensure_metadata)
    <3>1. Meta(day, Never) \in BodyOf("meta")
      BY BodyNames DEF Meta, MetaOf, ScopeInv, ScopeTypes
    <3>2. Aside(<<W("meta", Meta(day, Never))>>)
      BY <1>1, <3>1, AsideOne
    <3> QED BY <1>4, <3>2 DEF ensure_metadata
  <2>4. trustNow.entries \cup {h} \in SUBSET Endpoints
    BY <1>3
  <2>5. Aside(plan')
    BY <1>2, <2>2, <2>3, <2>4, AsideConcat
  <2> QED BY <1>0, <2>5, AsideCall
<1>6. CASE \E h \in Endpoints : repair_remove_endpoint(h)
  <2>1. PICK h \in Endpoints : repair_remove_endpoint(h)
    BY <1>6
  <2>2. PICK q : q = IF h \in trustNow.entries THEN <<W("quarantine", Trust(trustNow.rev, {h}))>> ELSE <<>>
    OBVIOUS
  <2>3. plan' = (<<W("backup", trustNow)>> \o q) \o <<W("trust", Trust(trustNow.rev + 1, trustNow.entries \ {h}))>>
    BY <2>1, <2>2 DEF repair_remove_endpoint, Begin
  <2>4. Trust(trustNow.rev, {h}) \in TrustsOf
    BY <1>3 DEF Trust, TrustsOf
  <2>5. Aside(<<W("backup", trustNow)>>) /\ Aside(<<W("quarantine", Trust(trustNow.rev, {h}))>>)
    BY <1>1, <1>3, <2>4, BodyNames, AsideOne
  <2>6. Aside(q)
    BY <1>4, <2>2, <2>5
  <2>7. trustNow.entries \ {h} \in SUBSET Endpoints
    BY <1>3
  <2>8. Aside(<<W("backup", trustNow)>> \o q)
    BY <2>5, <2>6, AsideConcat
  <2>9. Aside(plan')
    BY <1>2, <2>3, <2>7, <2>8, AsideConcat
  <2> QED BY <1>0, <2>9, AsideCall
<1>7. CASE repair_restore_backup
  <2>1. Read("backup") \in TrustsOf
    BY <1>0, <1>7, DocumentsRead DEF repair_restore_backup
  <2>2. Read("backup").entries \in SUBSET Endpoints
    BY <2>1 DEF TrustsOf
  <2>3. plan' = <<W("trust", Trust(trustNow.rev + 1, Read("backup").entries))>>
    BY <1>7 DEF repair_restore_backup, Begin
  <2>4. Aside(plan')
    BY <1>2, <2>2, <2>3
  <2> QED BY <1>0, <2>4, AsideCall
<1> QED BY <1>5, <1>6, <1>7

\* A file the profiles had, or that the replacement under way is about.
Inherited(f) ==
  f = 0 \/ f \in Files("profiles") \/ (work # Idle /\ work.doc = "profiles" /\ f \in {work.u, work.old})

\* A step that writes no replacement: the copy stays, and the profiles only take files they had.
CopyStays ==
  /\ bornV1' = bornV1 /\ body' = body
  /\ Copied => Copied'
  /\ \A f \in Files("profiles")' : Inherited(f)
  /\ ~bornV1 => \A d \in CopyDocs : storeDisk'[d].base = 0 /\ storeDisk'[d].tmp = {} /\ storeDisk'[d].bak = {}
  /\ acked["profiles"] # 0 => acked'["profiles"] # 0
  /\ work' # Idle => work # Idle /\ work'.doc = work.doc /\ work'.old = work.old
  /\ bornV1 => CopiesPlanned(plan, work # Idle)'
  /\ ~bornV1 => NoOldFormat(plan')

\* The replacement of the profiles under way: the copy is there, or there never was a version 1.
LEMMA ProfilesAtWork ==
  ASSUME ScopeInv, MigInv, work # Idle
  PROVE  /\ bornV1 /\ work.doc = "profiles" => Copied
         /\ ~bornV1 /\ work.doc = "profiles" => body[work.u].v = 2 /\ body[work.u].rev > 0
         /\ ~bornV1 /\ work.doc = "profiles" /\ work.old # 0 => body[work.old].v = 2
         /\ ~bornV1 => work.doc \notin CopyDocs
         /\ bornV1 /\ work.doc \in CopyDocs => work.old = 0
<1>1. 1 \in 1..Len(plan) /\ plan[1] = W(work.doc, body[work.u])
  BY Working
<1>2. plan[1].doc = work.doc /\ plan[1].val = body[work.u]
  BY <1>1 DEF W
<1> QED BY <1>1, <1>2 DEF MigInv, Migrated, Unborn, NewProfiles, NoOldFormat

LEMMA MigrationOnDisk ==
  ASSUME ScopeInv, MigInv, CopyStays
  PROVE  MigInv'
<1> USE DEF CopyStays
<1>1. NextTxn' = NextTxn
  BY BodyStays
<1>2. Migrated'
  <2> SUFFICES ASSUME bornV1 PROVE Migrated'
    BY DEF Migrated
  <2>1. /\ NextTxn > 1 /\ body[1] = V1 /\ acked["profiles"] # 0
        /\ NewProfiles => Copied
    BY DEF MigInv, Migrated
  <2>2. NewProfiles' => Copied
    <3> SUFFICES ASSUME NewProfiles' PROVE Copied
      OBVIOUS
    <3>1. CASE work' # Idle /\ work'.doc = "profiles"
      BY <3>1, ProfilesAtWork
    <3>2. ASSUME NEW f \in Files("profiles")', f \notin {0, 1} PROVE Copied
      <4>1. CASE f \in Files("profiles")
        BY <2>1, <3>2, <4>1 DEF NewProfiles
      <4>2. CASE work # Idle /\ work.doc = "profiles" /\ f \in {work.u, work.old}
        BY <4>2, ProfilesAtWork
      <4> QED BY <3>2, <4>1, <4>2 DEF Inherited
    <3> QED BY <3>1, <3>2 DEF NewProfiles
  <2>3. Copied => Copied'
    OBVIOUS
  <2>4. work' # Idle /\ work'.doc \in CopyDocs => work'.old = 0
    BY ProfilesAtWork
  <2> QED BY <1>1, <2>1, <2>2, <2>3, <2>4 DEF Migrated
<1>3. Unborn'
  <2> SUFFICES ASSUME ~bornV1 PROVE Unborn'
    BY DEF Unborn
  <2>1. ASSUME NEW f \in Files("profiles")', f # 0 PROVE body'[f].v = 2
    <3>1. CASE f \in Files("profiles")
      BY <2>1, <3>1 DEF MigInv, Unborn
    <3>2. CASE work # Idle /\ work.doc = "profiles" /\ f \in {work.u, work.old}
      <4>1. body[work.u].v = 2 /\ (work.old # 0 => body[work.old].v = 2)
        BY <3>2, ProfilesAtWork
      <4> QED BY <2>1, <3>2, <4>1
    <3> QED BY <2>1, <3>1, <3>2 DEF Inherited
  <2>2. work' # Idle => /\ work'.doc \notin CopyDocs
                        /\ work'.old # 0 /\ work'.doc = "profiles" => body'[work'.old].v = 2
    BY DEF MigInv, Unborn
  <2>3. NoOldFormat(plan)'
    BY DEF NoOldFormat
  <2> QED BY <2>1, <2>2, <2>3 DEF Unborn
<1> QED BY <1>2, <1>3 DEF MigInv

\* The steps of a replacement leave the copies that are there.
LEMMA StepsKeepCopy ==
  ASSUME ScopeInv, MigInv, NEW w, NEW x, NEW y, work # Idle, DocStep(w, x, y),
         w.doc \in CopyDocs /\ x.base # 0 => y.base # 0
  PROVE  MigInv'
<1> USE DEF DocStep
<1>1. PICK e : e = w.doc
  OBVIOUS
<1>2. e \in StoreDocs /\ "profiles" \in StoreDocs /\ CopyDocs \subseteq StoreDocs /\ "profiles" \notin CopyDocs
  BY <1>1, Working, DocNames DEF CopyDocs
<1>3. /\ storeDisk'[e] = y /\ \A d \in StoreDocs : d # e => storeDisk'[d] = storeDisk[d]
  BY <1>1, <1>2, OneDocument DEF ScopeInv
<1>4. \A d \in CopyDocs : Exists(d) => Exists(d)'
  BY <1>1, <1>2, <1>3 DEF Exists
<1>5. \A f \in Files("profiles")' : Inherited(f)
  <2>1. CASE e # "profiles"
    <3>1. storeDisk'["profiles"] = storeDisk["profiles"] /\ acked' = acked
      BY <1>2, <1>3, <2>1
    <3>2. Files("profiles")' = Files("profiles")
      BY <3>1 DEF Files
    <3> QED BY <3>2 DEF Inherited
  <2>2. CASE e = "profiles"
    <3>1. storeDisk'["profiles"] = y /\ x = storeDisk["profiles"] /\ acked' = acked
      BY <1>1, <1>3, <2>2
    <3>2. Inherited(y.base) /\ Inherited(w.old)
      BY <1>1, <2>2 DEF Inherited
    <3>3. \A b \in y.bak : Inherited(b.id)
      <4>1. [u |-> w.u, id |-> w.old].id = w.old
        OBVIOUS
      <4>2. \A b \in x.bak : Inherited(b.id)
        BY <3>1 DEF Inherited, Files
      <4> QED BY <3>2, <4>1, <4>2
    <3>4. \A t \in y.tmp : Inherited(t.u)
      BY <3>1 DEF Inherited, Files
    <3>5. Inherited(acked["profiles"])
      BY DEF Inherited, Files
    <3>6. Files("profiles")' = {y.base, acked["profiles"]} \cup {b.id : b \in y.bak} \cup {t.u : t \in y.tmp}
      BY <3>1 DEF Files
    <3> QED BY <3>2, <3>3, <3>4, <3>5, <3>6
  <2> QED BY <2>1, <2>2
<1>6. ~bornV1 => \A d \in CopyDocs : storeDisk'[d].base = 0 /\ storeDisk'[d].tmp = {} /\ storeDisk'[d].bak = {}
  <2>1. ~bornV1 => e \notin CopyDocs
    BY <1>1, ProfilesAtWork
  <2> QED BY <1>2, <1>3, <2>1 DEF MigInv, Unborn
<1>7. bornV1 => CopiesPlanned(plan, work # Idle)'
  <2>1. CASE plan' = <<>>
    BY <2>1 DEF CopiesPlanned
  <2>2. CASE plan' = plan /\ work' \in WorkOf
    <3>1. work' # Idle
      BY <2>2, IdleIsNone
    <3>2. plan[1].doc = e
      BY <1>1, Working DEF W
    <3> SUFFICES ASSUME bornV1 PROVE CopiesPlanned(plan, work # Idle)'
      OBVIOUS
    <3>3. CopiesPlanned(plan, TRUE)
      BY DEF MigInv, Migrated
    <3>4. ASSUME NEW i \in 1..Len(plan), NEW d \in CopyDocs, plan[i].doc = d, i # 1
          PROVE  ~Exists(d)'
      <4>1. d = "rmeta" /\ e = "rollback"
        BY <3>2, <3>3, <3>4 DEF CopiesPlanned, CopyDocs
      <4>2. ~Exists(d)
        BY <3>3, <3>4 DEF CopiesPlanned
      <4>3. d \in StoreDocs /\ d # e
        BY <1>2, <4>1
      <4> QED BY <1>3, <4>2, <4>3 DEF Exists
    <3>5. CopiesPlanned(plan, TRUE)'
      <4>1. \A d : d \in CopyDocs /\ Exists(d) => Exists(d)'
        BY <1>4
      <4> QED BY <2>2, <3>3, <3>4, <4>1 DEF CopiesPlanned
    <3> QED BY <3>1, <3>5 DEF CopiesPlanned
  <2> QED BY <2>1, <2>2
<1>8. ~bornV1 => NoOldFormat(plan')
  <2>1. NoOldFormat(<<>>)
    BY DEF NoOldFormat
  <2> QED BY <2>1 DEF MigInv, Unborn
<1>9. CopyStays
  <2>1. bornV1' = bornV1 /\ body' = body /\ acked' = acked
    OBVIOUS
  <2>2. work' # Idle => work'.doc = work.doc /\ work'.old = work.old
    OBVIOUS
  <2>3. Copied => Copied'
    BY <1>4 DEF Copied, CopyDocs
  <2> QED BY <1>5, <1>6, <1>7, <1>8, <2>1, <2>2, <2>3 DEF CopyStays
<1> QED BY <1>9, MigrationOnDisk

LEMMA ReplacingKeepsCopy ==
  ASSUME ScopeInv, MigInv, IoError \/ (work # Idle /\ (Mark \/ Backup \/ StoreCommits \/ DropBackup))
  PROVE  MigInv'
<1>1. PICK w, x, y : work # Idle /\ DocStep(w, x, y) /\ (w.old = 0 /\ x.base # 0 => y.base # 0)
  BY OtherStepsOnDocument, ErrorsOnDocument
<1>2. w = work
  BY <1>1 DEF DocStep
<1>3. w.doc \in CopyDocs => w.old = 0
  BY <1>1, <1>2, ProfilesAtWork
<1> QED BY <1>1, <1>3, StepsKeepCopy

\* The replacement succeeds: the plan goes on, or version 1 is written again.
LEMMA FinishKeepsCopy ==
  ASSUME ScopeInv, MigInv, work # Idle, NEW rest, Finished(rest),
         rest = Tail(plan) \/ (rest = <<W("profiles", V1)>> /\ Head(plan) = W("profiles", migrate_v1))
  PROVE  MigInv'
<1>1. PICK w, e : w = work /\ e = w.doc
  OBVIOUS
<1>2. PICK x, y : x = storeDisk[e] /\ y = NoMarker(x)
  OBVIOUS
<1>3. /\ w \in WorkOf /\ e \in StoreDocs /\ w.u \in Nat \ {0} /\ x \in DiskOf
      /\ plan \in Seq(PlanOf) /\ plan # <<>> /\ 1 \in 1..Len(plan) /\ plan[1] = W(e, body[w.u]) /\ Head(plan) = plan[1]
  BY <1>1, <1>2, Working
<1>4. /\ w.step = "unmark" /\ storeDisk' = [storeDisk EXCEPT ![e] = y] /\ work' = Idle /\ plan' = rest
      /\ acked' = [acked EXCEPT ![e] = w.u] /\ bornV1' = bornV1 /\ body' = body
  BY <1>1, <1>2 DEF Finished, Here
<1>5. x.base = w.u
  BY <1>1, <1>2, <1>4 DEF ScopeInv, AtWork
<1>6. y \in DiskOf /\ y.base = w.u /\ y.tmp = x.tmp /\ y.bak = x.bak
  BY <1>1, <1>2, <1>3, <1>5, Edits
<1>7. /\ storeDisk'[e] = y /\ \A d \in StoreDocs : d # e => storeDisk'[d] = storeDisk[d]
  BY <1>3, <1>4, <1>6, OneDocument DEF ScopeInv
<1>8. /\ acked'[e] = w.u /\ \A d \in StoreDocs : d # e => acked'[d] = acked[d]
  BY <1>3, <1>4 DEF ScopeInv, ScopeTypes
<1>9. "profiles" \in StoreDocs /\ CopyDocs \subseteq StoreDocs /\ "profiles" \notin CopyDocs
  BY DocNames DEF CopyDocs
<1>10. \A d \in CopyDocs : Exists(d)' <=> Exists(d)
  BY <1>2, <1>5, <1>6, <1>7, <1>9 DEF Exists
<1>11. e \in CopyDocs => Exists(e)
  BY <1>2, <1>3, <1>5 DEF Exists
<1>12. plan[1].doc = e
  BY <1>3 DEF W
<1>13. Copied => Copied'
  BY <1>10 DEF Copied, CopyDocs
<1>14. \A f \in Files("profiles")' : Inherited(f)
  <2>1. storeDisk'["profiles"].base = storeDisk["profiles"].base /\ storeDisk'["profiles"].bak = storeDisk["profiles"].bak
        /\ storeDisk'["profiles"].tmp = storeDisk["profiles"].tmp
    BY <1>2, <1>5, <1>6, <1>7, <1>9
  <2>2. Inherited(acked'["profiles"])
    <3>1. CASE e = "profiles"
      BY <1>1, <1>8, <3>1 DEF Inherited
    <3>2. CASE e # "profiles"
      BY <1>8, <1>9, <3>2 DEF Inherited, Files
    <3> QED BY <3>1, <3>2
  <2> QED BY <2>1, <2>2 DEF Inherited, Files
<1>15. ~bornV1 => \A d \in CopyDocs : storeDisk'[d].base = 0 /\ storeDisk'[d].tmp = {} /\ storeDisk'[d].bak = {}
  <2>1. ~bornV1 => e \notin CopyDocs
    BY <1>1, ProfilesAtWork
  <2> QED BY <1>7, <1>9, <2>1 DEF MigInv, Unborn
<1>16. acked["profiles"] # 0 => acked'["profiles"] # 0
  BY <1>3, <1>8, <1>9
<1>17. CASE rest = <<W("profiles", V1)>> /\ Head(plan) = W("profiles", migrate_v1)
  <2>1. plan[1].doc = "profiles" /\ plan[1].val = migrate_v1 /\ migrate_v1.rev = 0
    BY <1>3, <1>17 DEF W, migrate_v1, Profiles
  <2>2. bornV1
    BY <1>3, <2>1 DEF MigInv, Unborn, NoOldFormat
  <2>3. \A d \in CopyDocs : Exists(d)
    BY <1>3, <2>1, <2>2 DEF MigInv, Migrated, CopiesPlanned
  <2>4. \A i \in 1..Len(rest) : rest[i].doc = "profiles"
    BY <1>17 DEF W
  <2>5. CopiesPlanned(plan, work # Idle)'
    BY <1>4, <1>9, <1>10, <2>3, <2>4 DEF CopiesPlanned
  <2> QED BY <1>4, <1>13, <1>14, <1>15, <1>16, <2>2, <2>5, MigrationOnDisk DEF CopyStays
<1>18. CASE rest = Tail(plan)
  <2>1. Len(plan) \in Nat /\ Len(rest) = Len(plan) - 1 /\ \A i \in 1..Len(rest) : rest[i] = plan[i + 1] /\ i + 1 \in 2..Len(plan)
    BY <1>3, <1>18
  <2>2. ~bornV1 => NoOldFormat(rest)
    BY <2>1 DEF MigInv, Unborn, NoOldFormat
  <2>3. ASSUME bornV1, NEW i \in 1..Len(rest)
        PROVE  /\ rest[i].doc = "profiles" => \A d \in CopyDocs : Exists(d) \/ \E j \in 1..(i - 1) : rest[j].doc = d
               /\ rest[i].doc = "rollback" => i = 1
               /\ rest[i].doc = "rmeta" => i = 1 \/ (i = 2 /\ rest[1].doc = "rollback")
               /\ rest[i].doc \in CopyDocs => ~Exists(rest[i].doc)
    <3>6. CopiesPlanned(plan, TRUE)
      <4>1. CopiesPlanned(plan, work # Idle)
        BY <2>3 DEF MigInv, Migrated
      <4> QED BY <4>1 DEF CopiesPlanned
    <3>7. i + 1 \in 1..Len(plan) /\ i + 1 # 1 /\ rest[i] = plan[i + 1]
      BY <2>1, <2>3
    <3>1. CopiesPlanned(plan, TRUE) /\ i + 1 \in 1..Len(plan) /\ i + 1 # 1 /\ rest[i] = plan[i + 1]
      BY <3>6, <3>7
    <3>2. ASSUME rest[i].doc = "profiles", NEW d \in CopyDocs PROVE Exists(d) \/ \E j \in 1..(i - 1) : rest[j].doc = d
      <4>1. Exists(d) \/ \E j \in 1..((i + 1) - 1) : plan[j].doc = d
        BY <3>1, <3>2 DEF CopiesPlanned
      <4>2. ASSUME NEW j \in 1..((i + 1) - 1), plan[j].doc = d PROVE Exists(d) \/ \E k \in 1..(i - 1) : rest[k].doc = d
        <5>1. CASE j = 1
          BY <1>11, <1>12, <4>2, <5>1
        <5>2. CASE j # 1
          <6>1. j - 1 \in 1..(i - 1) /\ j - 1 \in 1..Len(rest) /\ (j - 1) + 1 = j
            BY <2>1, <5>2
          <6> QED BY <2>1, <4>2, <6>1
        <5> QED BY <5>1, <5>2
      <4> QED BY <4>1, <4>2
    <3>3. rest[i].doc # "rollback"
      BY <3>1 DEF CopiesPlanned
    <3>4. rest[i].doc = "rmeta" => i = 1
      BY <2>1, <3>1 DEF CopiesPlanned
    <3>5. rest[i].doc \in CopyDocs => ~Exists(rest[i].doc)
      BY <3>1 DEF CopiesPlanned
    <3> QED BY <3>2, <3>3, <3>4, <3>5
  <2>4. bornV1 => CopiesPlanned(plan, work # Idle)'
    <3>1. \A d \in CopyDocs : Exists(d)' <=> Exists(d)
      BY <1>10
    <3> QED BY <1>4, <2>3, <3>1 DEF CopiesPlanned
  <2> QED BY <1>4, <1>13, <1>14, <1>15, <1>16, <2>2, <2>4, MigrationOnDisk DEF CopyStays
<1> QED BY <1>17, <1>18

LEMMA FinishesKeepCopy ==
  ASSUME ScopeInv, MigInv, (work # Idle /\ Unmark) \/ restore_v1_after_migration_failure
  PROVE  MigInv'
<1>1. CASE work # Idle /\ Unmark
  BY <1>1, FinishKeepsCopy DEF Unmark
<1>2. CASE restore_v1_after_migration_failure
  BY <1>2, FinishKeepsCopy DEF restore_v1_after_migration_failure
<1> QED BY <1>1, <1>2

\* A disk that takes each file of the profiles and their copies from the one before.
Within(x, y) ==
  /\ y.bak \subseteq x.bak /\ y.tmp \subseteq x.tmp
  /\ y.base \in {0, x.base} \cup {b.id : b \in x.bak} \cup {t.u : t \in x.tmp}

LEMMA CopyOnDisk ==
  ASSUME ScopeInv, MigInv, bornV1' = bornV1, body' = body, work' = Idle, Aside(plan'), Copied => Copied',
         acked'["profiles"] = acked["profiles"],
         \A d \in {"profiles"} \cup CopyDocs : Within(storeDisk[d], storeDisk'[d])
  PROVE  MigInv'
<1>1. \A f \in Files("profiles")' : Inherited(f)
  BY DEF Within, Files, Inherited
<1>2. ~bornV1 => \A d \in CopyDocs : storeDisk'[d].base = 0 /\ storeDisk'[d].tmp = {} /\ storeDisk'[d].bak = {}
  BY DEF Within, MigInv, Unborn
<1>3. CopiesPlanned(plan, work # Idle)' /\ NoOldFormat(plan')
  BY DEF Aside, CopiesPlanned, NoOldFormat, CopyDocs
<1> QED BY <1>1, <1>2, <1>3, MigrationOnDisk DEF CopyStays

\* A file staged for the profiles comes after the copy.
LEMMA StagingKeepsCopy ==
  ASSUME ScopeInv, MigInv, StoreStage \/ StageError
  PROVE  MigInv'
<1>1. PICK torn \in BOOLEAN : Staging /\ StageAs(torn)
  BY DEF StoreStage, StageError
<1>2. PICK n, p, o : n = NextTxn /\ p = Head(plan) /\ o = storeDisk[p.doc].base
  OBVIOUS
<1>3. /\ work = Idle /\ p.doc \in StoreDocs /\ plan # <<>> /\ p = plan[1] /\ 1 \in 1..Len(plan)
      /\ n \in Nat \ {0} /\ NextTxn' = n + 1 /\ body'[n] = p.val
      /\ \A d \in StoreDocs :
           /\ storeDisk'[d].base = storeDisk[d].base /\ storeDisk'[d].bak = storeDisk[d].bak
           /\ storeDisk'[d].tmp = IF d = p.doc THEN storeDisk[d].tmp \cup {[u |-> n, torn |-> torn]}
                                  ELSE storeDisk[d].tmp
  BY <1>1, <1>2, StagingWrites
<1>4. \A d, f : Replacement(d, f) => body'[f] = body[f]
  BY <1>1, StagingWrites
<1>5. /\ acked' = acked /\ bornV1' = bornV1
      /\ \/ work' = [step |-> "mark", doc |-> p.doc, u |-> n, old |-> o] /\ plan' = plan
         \/ work' = Idle /\ plan' = <<>>
  <2>1. CASE StoreStage
    BY <1>2, <2>1 DEF StoreStage, bounds
  <2>2. CASE StageError
    BY <1>2, <1>3, <2>2 DEF StageError
  <2> QED BY <2>1, <2>2
<1>6. work' # Idle => work'.doc = p.doc /\ work'.old = o /\ plan' = plan
  BY <1>5
<1>7. "profiles" \in StoreDocs /\ CopyDocs \subseteq StoreDocs /\ "profiles" \notin CopyDocs
  BY DocNames DEF CopyDocs
<1>8. \A d \in StoreDocs : Exists(d)' <=> Exists(d)
  BY <1>3 DEF Exists
<1>9. ASSUME NEW f \in Files("profiles")'
      PROVE  f \in Files("profiles") \/ (p.doc = "profiles" /\ f = n)
  <2>1. [u |-> n, torn |-> torn].u = n
    OBVIOUS
  <2>2. CASE f \in {t.u : t \in storeDisk'["profiles"].tmp}
    <3>1. PICK t \in storeDisk'["profiles"].tmp : f = t.u
      BY <2>2
    <3>2. CASE t \in storeDisk["profiles"].tmp
      BY <3>1, <3>2 DEF Files
    <3>3. CASE t \notin storeDisk["profiles"].tmp
      <4>1. p.doc = "profiles" /\ t = [u |-> n, torn |-> torn]
        <5>1. PICK z : z = storeDisk["profiles"].tmp
          OBVIOUS
        <5>2. storeDisk'["profiles"].tmp = IF "profiles" = p.doc THEN z \cup {[u |-> n, torn |-> torn]} ELSE z
          BY <1>3, <1>7, <5>1
        <5> QED BY <3>1, <3>3, <5>1, <5>2
      <4> QED BY <2>1, <3>1, <4>1
    <3> QED BY <3>2, <3>3
  <2>3. CASE f \in {storeDisk'["profiles"].base, acked'["profiles"]} \cup {b.id : b \in storeDisk'["profiles"].bak}
    BY <1>3, <1>5, <1>7, <2>3 DEF Files
  <2> QED BY <1>9, <2>2, <2>3 DEF Files
<1>10. Migrated'
  <2> SUFFICES ASSUME bornV1 PROVE Migrated'
    BY <1>5 DEF Migrated
  <2>1. /\ NextTxn > 1 /\ body[1] = V1 /\ acked["profiles"] # 0
        /\ NewProfiles => Copied
    BY DEF MigInv, Migrated
  <2>2. NextTxn' > 1
    BY <1>2, <1>3, <2>1
  <2>3. body'[1] = V1
    <3>1. 1 \in 1..(NextTxn - 1)
      BY <1>2, <1>3, <2>1
    <3>2. body[1] \in BodyOf("profiles")
      BY <2>1, BodyNames DEF V1, Profiles, ProfilesOf
    <3> QED BY <1>4, <2>1, <3>1, <3>2 DEF Replacement
  <2>4. /\ \A i \in 1..Len(plan) :
             /\ plan[i].doc = "profiles" => \A d \in CopyDocs : Exists(d) \/ \E j \in 1..(i - 1) : plan[j].doc = d
             /\ plan[i].doc = "rollback" => i = 1
             /\ plan[i].doc = "rmeta" => i = 1 \/ (i = 2 /\ plan[1].doc = "rollback")
             /\ plan[i].doc \in CopyDocs => ~Exists(plan[i].doc)
    <3>1. CopiesPlanned(plan, work # Idle)
      BY DEF MigInv, Migrated
    <3> QED BY <1>3, <3>1 DEF CopiesPlanned
  <2>5. p.doc = "profiles" => Copied
    BY <1>3, <2>4 DEF Copied, CopyDocs
  <2>6. p.doc \in CopyDocs => o = 0
    BY <1>2, <1>3, <2>4 DEF Exists
  <2>7. NewProfiles' => Copied
    <3>1. CASE work' # Idle /\ work'.doc = "profiles"
      BY <1>6, <2>5, <3>1
    <3>2. ASSUME NEW f \in Files("profiles")', f \notin {0, 1} PROVE Copied
      BY <1>9, <2>1, <2>5, <3>2 DEF NewProfiles
    <3> QED BY <3>1, <3>2 DEF NewProfiles
  <2>8. Copied => Copied'
    BY <1>7, <1>8 DEF Copied, CopyDocs
  <2>9. CopiesPlanned(plan, work # Idle)'
    <3>1. CASE plan' = <<>>
      BY <3>1 DEF CopiesPlanned
    <3>2. CASE plan' = plan
      <4>1. \A d : d \in CopyDocs => (Exists(d)' <=> Exists(d))
        BY <1>7, <1>8
      <4> QED BY <2>4, <3>2, <4>1 DEF CopiesPlanned
    <3> QED BY <1>5, <3>1, <3>2
  <2> QED BY <1>5, <1>6, <2>1, <2>2, <2>3, <2>6, <2>7, <2>8, <2>9 DEF Migrated
<1>11. Unborn'
  <2> SUFFICES ASSUME ~bornV1 PROVE Unborn'
    BY <1>5 DEF Unborn
  <2>1. NoOldFormat(plan)
    BY DEF MigInv, Unborn
  <2>2. p.doc \notin CopyDocs /\ (p.doc = "profiles" => p.val.v = 2)
    BY <1>3, <2>1 DEF NoOldFormat
  <2>3. \A d \in CopyDocs : storeDisk'[d].base = 0 /\ storeDisk'[d].tmp = {} /\ storeDisk'[d].bak = {}
    BY <1>3, <1>7, <2>2 DEF MigInv, Unborn
  <2>4. ASSUME NEW f \in Files("profiles"), f # 0 PROVE body'[f].v = 2 /\ body[f].v = 2
    <3>1. body[f].v = 2
      BY <2>4 DEF MigInv, Unborn
    <3>2. Replacement("profiles", f)
      BY <1>7, <2>4 DEF ScopeInv, FilesAreWritten, FilesOk, Files
    <3> QED BY <1>4, <3>1, <3>2
  <2>5. ASSUME NEW f \in Files("profiles")', f # 0 PROVE body'[f].v = 2
    BY <1>3, <1>9, <2>2, <2>4, <2>5
  <2>6. NoOldFormat(plan)'
    <3>1. NoOldFormat(<<>>)
      BY DEF NoOldFormat
    <3> QED BY <1>5, <2>1, <3>1 DEF NoOldFormat
  <2>7. work' # Idle => /\ work'.doc \notin CopyDocs
                        /\ work'.old # 0 /\ work'.doc = "profiles" => body'[work'.old].v = 2
    <3>1. p.doc = "profiles" => o \in Files("profiles")
      BY <1>2 DEF Files
    <3> QED BY <1>6, <2>2, <2>4, <3>1
  <2> QED BY <2>3, <2>5, <2>6, <2>7 DEF Unborn
<1> QED BY <1>10, <1>11 DEF MigInv

\* Nothing is being replaced and no file is moved.
LEMMA CopyUntouched ==
  ASSUME ScopeInv, MigInv, bornV1' = bornV1, body' = body, work' = Idle, Aside(plan'), acked' = acked,
         \A d \in StoreDocs : /\ storeDisk'[d].base = storeDisk[d].base /\ storeDisk'[d].bak = storeDisk[d].bak
                              /\ storeDisk'[d].tmp = storeDisk[d].tmp
  PROVE  MigInv'
<1>1. {"profiles"} \cup CopyDocs \subseteq StoreDocs
  BY DocNames DEF CopyDocs
<1>2. \A d \in {"profiles"} \cup CopyDocs : Within(storeDisk[d], storeDisk'[d])
  BY <1>1 DEF Within
<1>3. Copied => Copied'
  BY <1>1 DEF Copied, CopyDocs, Exists
<1> QED BY <1>2, <1>3, CopyOnDisk

LEMMA CrashKeepsCopy ==
  ASSUME ScopeInv, MigInv, Crash
  PROVE  MigInv'
<1>1. /\ bornV1' = bornV1 /\ body' = body /\ work' = Idle /\ plan' = <<>> /\ acked' = acked
      /\ \/ storeDisk' = storeDisk
         \/ work.step = "mark" /\ storeDisk' = [storeDisk EXCEPT ![work.doc].com = @ \cup {Marker(TRUE)}]
  BY DEF Crash, Restart
<1>2. Aside(plan')
  BY <1>1 DEF Aside
<1>3. CASE storeDisk' = storeDisk
  BY <1>1, <1>2, <1>3, CopyUntouched
<1>4. CASE work.step = "mark" /\ storeDisk' = [storeDisk EXCEPT ![work.doc].com = @ \cup {Marker(TRUE)}]
  <2>1. work # Idle
    BY <1>4, IdleIsNone
  <2>2. work.doc \in StoreDocs
    BY <2>1, Working
  <2>3. storeDisk \in [StoreDocs -> DiskOf] /\ DiskOf \subseteq [base : Nat, tmp : SUBSET TmpOf, bak : SUBSET BakOf, com : SUBSET ComOf]
    BY DEF ScopeInv, ScopeTypes, DiskOf
  <2>4. PICK e, x, y : e = work.doc /\ x = storeDisk[e] /\ y = [x EXCEPT !.com = @ \cup {Marker(TRUE)}]
    OBVIOUS
  <2>5. y.base = x.base /\ y.bak = x.bak /\ y.tmp = x.tmp
    BY <2>2, <2>3, <2>4
  <2>6. storeDisk' = [storeDisk EXCEPT ![e] = y]
    BY <1>4, <2>4
  <2>7. \A d \in StoreDocs : /\ storeDisk'[d].base = storeDisk[d].base /\ storeDisk'[d].bak = storeDisk[d].bak
                             /\ storeDisk'[d].tmp = storeDisk[d].tmp
    BY <2>2, <2>3, <2>4, <2>5, <2>6
  <2> QED BY <1>1, <1>2, <2>7, CopyUntouched
<1> QED BY <1>1, <1>3, <1>4

\* A document that is settled keeps its file, or gets back one it had.
LEMMA SettledKeepsCopy ==
  ASSUME ScopeInv, MigInv, NEW e \in StoreDocs, Verdict(storeDisk[e]) # "error", NEW y,
         y.base = Settled(storeDisk[e]).base, y.bak = {}, y.tmp \subseteq Settled(storeDisk[e]).tmp,
         storeDisk' = [storeDisk EXCEPT ![e] = y],
         bornV1' = bornV1, body' = body, work' = Idle, Aside(plan'), acked' = acked
  PROVE  MigInv'
<1>1. PICK x, s : x = storeDisk[e] /\ s = Settled(x)
  OBVIOUS
<1>2. x \in DiskOf /\ storeDisk \in [StoreDocs -> DiskOf]
  BY <1>1 DEF ScopeInv, ScopeTypes
<1>3. /\ s.tmp \subseteq x.tmp
      /\ IF x.base # 0 THEN s.base = x.base
         ELSE IF x.bak # {} THEN \E b \in x.bak : x.bak = {b} /\ s.base = b.id
         ELSE s.base = 0 \/ \E t \in x.tmp : s.base = t.u
  BY <1>1, <1>2, SettledFacts
<1>4. y.base \in {0, x.base} \cup {b.id : b \in x.bak} \cup {t.u : t \in x.tmp}
  <2>1. y.base = s.base
    BY <1>1
  <2>2. CASE x.base # 0
    BY <1>3, <2>1, <2>2
  <2>3. CASE x.base = 0 /\ x.bak # {}
    BY <1>3, <2>1, <2>3
  <2>4. CASE x.base = 0 /\ x.bak = {}
    BY <1>3, <2>1, <2>4
  <2> QED BY <2>2, <2>3, <2>4
<1>5. Within(x, y) /\ (x.base # 0 => y.base # 0)
  BY <1>1, <1>3, <1>4 DEF Within
<1>6. /\ storeDisk'[e] = y /\ \A d \in StoreDocs : d # e => storeDisk'[d] = storeDisk[d]
  BY <1>2
<1>7. {"profiles"} \cup CopyDocs \subseteq StoreDocs
  BY DocNames DEF CopyDocs
<1>8. \A d \in {"profiles"} \cup CopyDocs : Within(storeDisk[d], storeDisk'[d])
  <2>1. ASSUME NEW d \in StoreDocs PROVE Within(storeDisk[d], storeDisk'[d])
    <3>1. CASE d = e
      BY <1>1, <1>5, <1>6, <3>1
    <3>2. CASE d # e
      BY <1>6, <3>2 DEF Within
    <3> QED BY <3>1, <3>2
  <2> QED BY <1>7, <2>1
<1>9. Copied => Copied'
  <2>1. \A d \in StoreDocs : Exists(d) => Exists(d)'
    BY <1>1, <1>5, <1>6 DEF Exists
  <2> QED BY <1>7, <2>1 DEF Copied, CopyDocs
<1> QED BY <1>8, <1>9, CopyOnDisk

LEMMA RecoveryKeepsCopy ==
  ASSUME ScopeInv, MigInv, NEW e \in StoreDocs, RecoverDoc(e) \/ RecoverCrash(e)
  PROVE  MigInv'
<1>1. PICK x, s : x = storeDisk[e] /\ s = Settled(x)
  OBVIOUS
<1>2. storePhase = "recover" /\ Verdict(x) # "error" /\ x \in DiskOf /\ work = Idle /\ plan = <<>>
  <2>1. storePhase = "recover" /\ Verdict(x) # "error" /\ x \in DiskOf
    BY <1>1 DEF RecoverDoc, RecoverCrash, Recovering, ScopeInv, ScopeTypes
  <2> QED BY <2>1 DEF ScopeInv, AtWork, Survives
<1>3. s.bak = {} /\ s \in [base : Nat, tmp : SUBSET TmpOf, bak : SUBSET BakOf, com : SUBSET ComOf]
  BY <1>1, <1>2, SettledFacts DEF DiskOf
<1>4. Aside(<<>>)
  BY DEF Aside
<1>5. CASE RecoverCrash(e)
  <2>1. PICK ts \in SUBSET s.tmp : Restart([storeDisk EXCEPT ![e] = [s EXCEPT !.tmp = ts]])
    BY <1>1, <1>5 DEF RecoverCrash
  <2>2. PICK y : y = [s EXCEPT !.tmp = ts]
    OBVIOUS
  <2>3. y.base = s.base /\ y.bak = {} /\ y.tmp \subseteq s.tmp
    BY <1>3, <2>2
  <2>4. /\ storeDisk' = [storeDisk EXCEPT ![e] = y] /\ bornV1' = bornV1 /\ body' = body /\ work' = Idle
        /\ plan' = <<>> /\ acked' = acked
    BY <2>1, <2>2 DEF Restart
  <2> QED BY <1>1, <1>2, <1>4, <2>3, <2>4, SettledKeepsCopy
<1>6. CASE RecoverDoc(e)
  <2>1. PICK y : y = recover_document_artifacts(x)
    OBVIOUS
  <2>2. y.base = s.base /\ y.bak = {} /\ y.tmp \subseteq s.tmp
    <3>1. y = [s EXCEPT !.tmp = {}, !.com = {}]
      BY <1>1, <2>1 DEF recover_document_artifacts
    <3> QED BY <1>3, <3>1
  <2>3. /\ storeDisk' = [storeDisk EXCEPT ![e] = y] /\ bornV1' = bornV1 /\ body' = body /\ work' = Idle
        /\ plan' = <<>> /\ acked' = acked
    BY <1>1, <1>2, <1>6, <2>1 DEF RecoverDoc, bounds
  <2> QED BY <1>1, <1>2, <1>4, <2>2, <2>3, SettledKeepsCopy
<1> QED BY <1>5, <1>6

\* Half a copy is discarded; a whole one is not.
LEMMA OpeningKeepsCopy ==
  ASSUME ScopeInv, MigInv, OpenDone \/ OpenError
  PROVE  MigInv'
<1>1. work = Idle /\ plan = <<>>
  <2>1. storePhase = "recover"
    BY DEF OpenDone, OpenError, Recovering
  <2> QED BY <2>1 DEF ScopeInv, AtWork, Survives
<1>2. Aside(<<>>)
  BY DEF Aside
<1>3. bornV1' = bornV1 /\ body' = body /\ work' = Idle /\ plan' = <<>>
  BY <1>1 DEF OpenDone, OpenError, bounds
<1>4. {"profiles"} \cup CopyDocs \subseteq StoreDocs /\ "profiles" \notin CopyDocs
  BY DocNames DEF CopyDocs
<1>5. CASE storeDisk' = storeDisk /\ acked'["profiles"] = acked["profiles"]
  <2>1. \A d \in {"profiles"} \cup CopyDocs : Within(storeDisk[d], storeDisk'[d])
    BY <1>5 DEF Within
  <2>2. Copied => Copied'
    BY <1>5 DEF Copied, Exists
  <2> QED BY <1>2, <1>3, <1>5, <2>1, <2>2, CopyOnDisk
<1>6. CASE OpenError
  BY <1>5, <1>6 DEF OpenError
<1>7. CASE OpenDone
  <2>1. /\ storeDisk' = discard_incomplete_v1_rollback_artifacts
        /\ acked' = [d \in StoreDocs |-> IF storeDisk'[d] = storeDisk[d] THEN acked[d] ELSE 0]
    BY <1>7 DEF OpenDone
  <2>2. CASE ~HalfRollback
    BY <1>4, <1>5, <2>1, <2>2 DEF discard_incomplete_v1_rollback_artifacts
  <2>3. CASE HalfRollback
    <3>1. storeDisk' = [storeDisk EXCEPT !["rollback"] = Empty, !["rmeta"] = Empty]
      BY <2>1, <2>3 DEF discard_incomplete_v1_rollback_artifacts
    <3>2. storeDisk \in [StoreDocs -> DiskOf]
      BY DEF ScopeInv, ScopeTypes
    <3>3. storeDisk'["profiles"] = storeDisk["profiles"] /\ \A d \in CopyDocs : storeDisk'[d] = Empty
      BY <1>4, <3>1, <3>2 DEF CopyDocs
    <3>4. acked'["profiles"] = acked["profiles"]
      BY <1>4, <2>1, <3>3
    <3>5. \A d \in {"profiles"} \cup CopyDocs : Within(storeDisk[d], storeDisk'[d])
      <4>1. Empty.base = 0 /\ Empty.tmp = {} /\ Empty.bak = {}
        BY DEF Empty
      <4> QED BY <3>3, <4>1 DEF Within
    <3>6. ~Copied
      BY <2>3 DEF HalfRollback, Copied, Exists
    <3> QED BY <1>2, <1>3, <3>4, <3>5, <3>6, CopyOnDisk
  <2> QED BY <2>2, <2>3
<1> QED BY <1>6, <1>7

LEMMA IdentityKeepsCopy ==
  ASSUME ScopeInv, MigInv, load_or_create_desktop_instance
  PROVE  MigInv'
<1>1. PICK x, s, y, e : /\ e = "identity" /\ x = storeDisk[e] /\ s = Settled(x)
                        /\ y = recover_document_artifacts(x)
  OBVIOUS
<1>2. e \in StoreDocs /\ x \in DiskOf /\ Verdict(x) # "error" /\ work = Idle
  BY <1>1, DocNames DEF load_or_create_desktop_instance, Ready, ScopeInv, ScopeTypes
<1>3. s.bak = {} /\ s \in [base : Nat, tmp : SUBSET TmpOf, bak : SUBSET BakOf, com : SUBSET ComOf]
  BY <1>1, <1>2, SettledFacts DEF DiskOf
<1>4. y.base = s.base /\ y.bak = {} /\ y.tmp \subseteq s.tmp
  <2>1. y = [s EXCEPT !.tmp = {}, !.com = {}]
    BY <1>1 DEF recover_document_artifacts
  <2> QED BY <1>3, <2>1
<1>5. /\ storeDisk' = [storeDisk EXCEPT ![e] = y] /\ bornV1' = bornV1 /\ body' = body /\ work' = Idle /\ acked' = acked
      /\ plan' = (IF y.base # 0 THEN <<>> ELSE <<W("identity", [id |-> NextTxn])>>)
  BY <1>1, <1>2 DEF load_or_create_desktop_instance, bounds
<1>6. Aside(plan')
  <2>1. NextTxn \in Nat
    BY <1>2, FilesOfDocument DEF ScopeInv
  <2>2. [id |-> NextTxn] \in BodyOf("identity")
    BY <2>1, BodyNames
  <2>3. Aside(<<W("identity", [id |-> NextTxn])>>)
    BY <2>2, DocNames, AsideOne
  <2>4. Aside(<<>>)
    BY DEF Aside
  <2> QED BY <1>5, <2>3, <2>4
<1> QED BY <1>1, <1>2, <1>4, <1>5, <1>6, SettledKeepsCopy

LEMMA QuietKeepsCopy ==
  ASSUME ScopeInv, MigInv, OpenScope \/ Lease \/ NextDay \/ PurgeDelete
  PROVE  MigInv'
<1>1. /\ work = Idle /\ plan = <<>>
      /\ UNCHANGED <<storeDisk, body, plan, work, acked, bornV1>>
  BY DEF OpenScope, Lease, NextDay, PurgeDelete, Ready, bounds
<1>2. Aside(plan')
  BY <1>1 DEF Aside
<1> QED BY <1>1, <1>2, CopyUntouched

\* The purge takes the copy with everything else, and the scope that comes after it is new.
LEMMA PurgeKeepsCopy ==
  ASSUME ScopeInv, MigInv, PurgeRename
  PROVE  MigInv'
<1>1. work = Idle /\ work' = Idle /\ plan' = <<>> /\ body' = body
  BY DEF PurgeRename
<1>2. CASE leased \/ tomb # "none"
  <2>1. UNCHANGED <<storeDisk, acked, bornV1>>
    BY <1>2 DEF PurgeRename
  <2>2. Aside(plan')
    BY <1>1 DEF Aside
  <2> QED BY <1>1, <2>1, <2>2, CopyUntouched
<1>3. CASE ~(leased \/ tomb # "none")
  <2>1. /\ storeDisk' = [d \in StoreDocs |-> IF InScope(d) THEN Empty ELSE storeDisk[d]]
        /\ acked' = [d \in StoreDocs |-> IF InScope(d) THEN 0 ELSE acked[d]]
        /\ bornV1' = FALSE
    BY <1>3 DEF PurgeRename
  <2>2. \A d \in {"profiles"} \cup CopyDocs : storeDisk'[d] = Empty /\ acked'[d] = 0
    BY <2>1, DocNames DEF CopyDocs
  <2>3. Empty.base = 0 /\ Empty.tmp = {} /\ Empty.bak = {}
    BY DEF Empty
  <2>4. \A f \in Files("profiles")' : f = 0
    BY <2>2, <2>3 DEF Files
  <2>5. NoOldFormat(plan')
    BY <1>1 DEF NoOldFormat
  <2>6. Unborn'
    BY <1>1, <2>2, <2>3, <2>4, <2>5 DEF Unborn
  <2>7. Migrated'
    BY <2>1 DEF Migrated
  <2> QED BY <2>6, <2>7 DEF MigInv
<1> QED BY <1>2, <1>3

LEMMA MigInitial ==
  ASSUME StoreInit
  PROVE  MigInv
<1>1. PICK old \in BOOLEAN :
        /\ body = [u \in Txns |-> IF old /\ u = 1 THEN V1 ELSE NoBody]
        /\ storeDisk = [d \in StoreDocs |-> IF old /\ d = "profiles" THEN [Empty EXCEPT !.base = 1] ELSE Empty]
        /\ acked = [d \in StoreDocs |-> IF old /\ d = "profiles" THEN 1 ELSE 0]
        /\ scopeDir = old /\ bornV1 = old
  BY DEF StoreInit
<1>2. plan = <<>> /\ work = Idle
  BY DEF StoreInit
<1>3. /\ "profiles" \in StoreDocs /\ CopyDocs \subseteq StoreDocs /\ "profiles" \notin CopyDocs
      /\ MaxTxn \in Nat /\ Txns = 1..MaxTxn /\ 1 \in Txns
  BY StoreAssumption, DocNames DEF Txns, CopyDocs
<1>4. /\ Empty.base = 0 /\ Empty.tmp = {} /\ Empty.bak = {}
      /\ [Empty EXCEPT !.base = 1].base = 1 /\ [Empty EXCEPT !.base = 1].tmp = {} /\ [Empty EXCEPT !.base = 1].bak = {}
  BY DEF Empty
<1>5. Migrated
  <2> SUFFICES ASSUME old PROVE Migrated
    BY <1>1 DEF Migrated
  <2>1. body[1] = V1 /\ acked["profiles"] = 1
    BY <1>1, <1>3
  <2>2. NextTxn > 1
    <3>1. 1 \in Written
      <4>1. V1 # NoBody
        BY BodyNames DEF V1, Profiles, ProfilesOf, Bodies
      <4> QED BY <1>3, <2>1, <4>1 DEF Written
    <3>2. Filled
      BY ScopeInitial DEF ScopeInv, ScopeTypes
    <3>3. NextTxn \in 1..(MaxTxn + 1) /\ 1 \in 1..(NextTxn - 1)
      BY <3>1, <3>2 DEF Filled
    <3> QED BY <1>3, <3>3
  <2>3. storeDisk["profiles"] = [Empty EXCEPT !.base = 1]
    BY <1>1, <1>3
  <2>4. ~NewProfiles
    BY <1>2, <1>4, <2>1, <2>3 DEF NewProfiles, Files
  <2>5. CopiesPlanned(plan, work # Idle)
    BY <1>2 DEF CopiesPlanned
  <2> QED BY <1>2, <2>1, <2>2, <2>4, <2>5 DEF Migrated
<1>6. Unborn
  <2> SUFFICES ASSUME ~old PROVE Unborn
    BY <1>1 DEF Unborn
  <2>1. \A d \in StoreDocs : storeDisk[d] = Empty /\ acked[d] = 0
    BY <1>1
  <2>2. \A f \in Files("profiles") : f = 0
    BY <1>3, <1>4, <2>1 DEF Files
  <2>3. NoOldFormat(plan)
    BY <1>2 DEF NoOldFormat
  <2> QED BY <1>2, <1>3, <1>4, <2>1, <2>2, <2>3 DEF Unborn
<1> QED BY <1>5, <1>6 DEF MigInv

LEMMA MigStep ==
  ASSUME ScopeInv, MigInv, [StoreNext]_svars
  PROVE  MigInv'
<1>1. CASE StoreStage \/ StageError
  BY <1>1, StagingKeepsCopy
<1>2. CASE IoError \/ (work # Idle /\ (Mark \/ Backup \/ StoreCommits \/ DropBackup))
  BY <1>2, ReplacingKeepsCopy
<1>3. CASE (work # Idle /\ Unmark) \/ restore_v1_after_migration_failure
  BY <1>3, FinishesKeepCopy
<1>4. CASE Crash
  BY <1>4, CrashKeepsCopy
<1>5. CASE OpenDone \/ OpenError
  BY <1>5, OpeningKeepsCopy
<1>6. CASE \E d \in StoreDocs : RecoverDoc(d) \/ RecoverCrash(d)
  BY <1>6, RecoveryKeepsCopy
<1>7. CASE load_scope_config \/ replace_config \/ purge_if_deleted \/ \E k \in BOOLEAN : reconcile_known_scope(k)
  BY <1>7, MigrationCalls
<1>8. CASE (\E h \in Endpoints : replace_trust(h) \/ repair_remove_endpoint(h)) \/ repair_restore_backup
  BY <1>8, TrustCallsAside
<1>9. CASE load_or_create_desktop_instance
  BY <1>9, IdentityKeepsCopy
<1>10. CASE OpenScope \/ Lease \/ NextDay \/ PurgeDelete
  BY <1>10, QuietKeepsCopy
<1>11. CASE PurgeRename
  BY <1>11, PurgeKeepsCopy
<1>12. CASE UNCHANGED svars
  <2>1. UNCHANGED <<storeDisk, body, plan, work, acked, bornV1>>
    BY <1>12 DEF svars
  <2>2. NextTxn' = NextTxn
    BY <2>1, BodyStays
  <2>3. Migrated'
    BY <2>1, <2>2 DEF MigInv, Migrated, NewProfiles, Copied, CopiesPlanned, Exists, Files
  <2>4. Unborn'
    BY <2>1 DEF MigInv, Unborn, NoOldFormat, Files
  <2> QED BY <2>3, <2>4 DEF MigInv
<1> QED BY <1>1, <1>2, <1>3, <1>4, <1>5, <1>6, <1>7, <1>8, <1>9, <1>10, <1>11, <1>12 DEF StoreNext

\* What a document says was acknowledged is on disk, or recovery brings it back.
LEMMA AckedOnDisk ==
  ASSUME ScopeInv
  PROVE  AckedSurvives
<1> SUFFICES ASSUME NEW d \in StoreDocs, acked[d] # 0
             PROVE  /\ storeDisk[d].base >= acked[d] \/ \E b \in storeDisk[d].bak : b.id >= acked[d]
                    /\ Ready => storeDisk[d].base >= acked[d]
  BY DEF AckedSurvives
<1>1. storeDisk[d].base >= acked[d] \/ \E b \in storeDisk[d].bak : b.id >= acked[d]
  BY DEF ScopeInv, Survives, AtLeast
<1>2. Ready => storeDisk[d].base >= acked[d]
  BY DEF Ready, ScopeInv, Survives, Away, AtLeast
<1> QED BY <1>1, <1>2

LEMMA FilesHaveNumbers ==
  ASSUME ScopeInv
  PROVE  StoreTypeOK
<1>1. /\ DOMAIN storeDisk = StoreDocs /\ DOMAIN acked = StoreDocs
      /\ storePhase \in {"open", "recover", "stuck"} /\ tomb \in {"none", "clean", "torn"}
      /\ scopeDir \in BOOLEAN /\ leased \in BOOLEAN
  BY DEF ScopeInv, ScopeTypes
<1>2. ASSUME NEW d \in StoreDocs
      PROVE  /\ storeDisk[d].base \in 0..(NextTxn - 1) /\ acked[d] \in 0..(NextTxn - 1)
             /\ \A f \in storeDisk[d].tmp \cup storeDisk[d].com \cup storeDisk[d].bak : f.u \in 1..(NextTxn - 1)
  <2>1. PICK n, x, a : n = NextTxn /\ x = storeDisk[d] /\ a = acked[d]
    OBVIOUS
  <2>2. /\ n \in Nat \ {0} /\ a \in Nat /\ x.base \in Nat
        /\ x.base # 0 => x.base \in 1..(n - 1)
        /\ a # 0 => a \in 1..(n - 1)
        /\ x.tmp \subseteq TmpOf /\ x.bak \subseteq BakOf /\ x.com \subseteq ComOf
        /\ \A b \in x.bak : b.u < n
        /\ \A t \in x.tmp : t.u \in 1..(n - 1)
        /\ \A c \in x.com : c.u < n
    BY <2>1, FilesOfDocument DEF ScopeInv, Replacement
  <2>3. x.base \in 0..(n - 1) /\ a \in 0..(n - 1)
    BY <2>2
  <2>4. ASSUME NEW f \in x.bak PROVE f.u \in 1..(n - 1)
    BY <2>2 DEF BakOf
  <2>5. ASSUME NEW f \in x.com PROVE f.u \in 1..(n - 1)
    BY <2>2 DEF ComOf
  <2> QED BY <2>1, <2>2, <2>3, <2>4, <2>5
<1> QED BY <1>1, <1>2 DEF StoreTypeOK

\* Whatever crashes and fails, and however often: every document that was acknowledged as
\* written is there or will be restored, and the profiles leave version 1 only when the
\* rollback copy is complete.
THEOREM AcknowledgedSurvives == ScopeStoreSpec => [](StoreTypeOK /\ AckedSurvives /\ RollbackCopyKept)
<1>1. StoreInit => ScopeInv /\ MigInv
  BY ScopeInitial, MigInitial
<1>2. ScopeInv /\ MigInv /\ [StoreNext]_svars => ScopeInv' /\ MigInv'
  BY ScopeStep, MigStep
<1>3. ScopeInv /\ MigInv => StoreTypeOK /\ AckedSurvives /\ RollbackCopyKept
  <2> SUFFICES ASSUME ScopeInv, MigInv PROVE StoreTypeOK /\ AckedSurvives /\ RollbackCopyKept
    OBVIOUS
  <2>1. RollbackCopyKept
    BY DEF MigInv, Migrated, NewProfiles, Files, Copied, RollbackCopyKept
  <2> QED BY <2>1, AckedOnDisk, FilesHaveNumbers
<1> QED BY <1>1, <1>2, <1>3, PTL DEF ScopeStoreSpec

\* Nothing in the store goes back in time: a scope is purged for its age only when it is due,
\* and a trust document that is acknowledged carries a later revision than the one before it.
THEOREM StoreIsMonotone == ScopeStoreSpec => StoreNeverGoesBack
<1>1. ScopeInv /\ [StoreNext]_svars =>
        [(scopeDir /\ ~scopeDir' /\ Head(plan) = Expired) =>
           (acked["meta"] # 0 => day >= body[acked["meta"]].seen + RetentionDays)]_svars
  BY PurgedWhenDue
<1>2. ScopeInv /\ [StoreNext]_svars =>
        [acked["trust"] # 0 /\ acked'["trust"] \notin {0, acked["trust"]}
           => body[acked'["trust"]].rev > body[acked["trust"]].rev]_svars
  BY TrustAdvances
<1> QED BY <1>1, <1>2, ScopeInvariant, PTL DEF ScopeStoreSpec, StoreNeverGoesBack, RetentionHolds, TrustRevisionAdvances

-----------------------------------------------------------------------------
(* The scope store: one error.                                             *)

\* Nothing was written after the error, if there was one.
NoneSince == faultAt = 0 \/ NextTxn = faultAt + 1

\* The marker, the backup and the staged file of a replacement.
MarkerOf(w) == [u |-> w.u, old |-> w.old, torn |-> FALSE]
BackupOf(w) == [u |-> w.u, id |-> w.old]
StagedOf(w) == [u |-> w.u, torn |-> FALSE]

\* What one replacement that stopped may leave of a document, with every way out of it.
Clean(x) == ~HasArtifacts(x)
Recoverable(x) ==
  \/ x.com = {} /\ x.bak = {}
  \/ \E c \in x.com : c.torn
  \/ \E c \in x.com : x.com = {c} /\ ~c.torn /\
       \/ x.bak = {} /\ x.base = c.old /\ c.old # 0
       \/ x.bak \subseteq {BackupOf(c)} /\ x.base = c.u
       \/ x.bak = {BackupOf(c)} /\ x.base = 0
       \/ x.bak = {} /\ x.base = 0 /\ c.old = 0 /\ StagedOf(c) \in x.tmp

\* The artifacts of a replacement that goes well, at each of its steps.
InPlace(w, x) ==
  /\ x.com = IF w.step = "mark" THEN {} ELSE {MarkerOf(w)}
  /\ x.bak \subseteq {BackupOf(w)}
  /\ w.step \in {"mark", "backup", "unmark"} => x.bak = {}
  /\ w.step = "commit" => x.bak = IF w.old = 0 THEN {} ELSE {BackupOf(w)}
  /\ x.tmp = IF w.step \in {"drop", "unmark"} THEN {} ELSE {StagedOf(w)}

Faults == faultAt < NextTxn /\ (storeFaults = 0 => faultAt = 0)
TornByFault ==
  tomb = "torn" \/ (\E d \in StoreDocs : \E t \in storeDisk[d].tmp : t.torn) => faultAt # 0
WholeMarkers == storePhase = "open" => \A d \in StoreDocs : \A c \in storeDisk[d].com : ~c.torn
LeftBehind ==
  /\ NoneSince => \A d \in StoreDocs :
       IF work # Idle /\ work.doc = d THEN InPlace(work, storeDisk[d]) ELSE Recoverable(storeDisk[d])
  /\ work # Idle /\ NoneSince => faultAt = 0
  /\ faultAt = 0 /\ storePhase = "open" =>
       \A d \in StoreDocs : (work # Idle => work.doc # d) => Clean(storeDisk[d])
FaultInv == Faults /\ TornByFault /\ WholeMarkers /\ LeftBehind /\ OneFaultRecovers

LEMMA CleanIsRecoverable ==
  ASSUME NEW x, Clean(x)
  PROVE  Recoverable(x) /\ x.tmp = {} /\ x.com = {} /\ x.bak = {}
BY DEF Clean, HasArtifacts, Recoverable

\* The verdict on a document with one whole marker and no backup but its own.
LEMMA MarkedVerdict ==
  ASSUME NEW x \in DiskOf, NEW c \in x.com, x.com = {c}, ~c.torn, x.bak \subseteq {BackupOf(c)}
  PROVE  /\ x.base = c.u \/ (x.base # 0 /\ x.base = c.old /\ x.bak = {}) => Verdict(x) = "keep"
         /\ x.base = 0 /\ x.bak # {} => Verdict(x) = "backup"
         /\ x.base = 0 /\ x.bak = {} /\ c.old = 0 /\ StagedOf(c) \in x.tmp => Verdict(x) = "forward" /\ Settled(x).base = c.u
<1>1. Cardinality({c}) = 1 /\ Cardinality({BackupOf(c)}) = 1 /\ Cardinality({}) = 0
  BY FS_Singleton, FS_EmptySet
<1>2. x.bak = {} \/ x.bak = {BackupOf(c)}
  OBVIOUS
<1>3. ~(Cardinality(x.bak) > 1) /\ ~(Cardinality(x.com) > 1) /\ x.com # {}
  BY <1>1, <1>2
<1>4. (CHOOSE m \in x.com : TRUE) = c
  OBVIOUS
<1>5. c.u # 0 /\ \A b \in x.bak : b.u = c.u /\ b.id = c.old
  BY DEF BackupOf, DiskOf, ComOf
<1>6. PICK m : m = (CHOOSE z \in x.com : TRUE)
  OBVIOUS
<1>7. m = c
  BY <1>4, <1>6
<1>8. Verdict(x) =
            CASE m.torn \/ ~(\A b \in x.bak : b.u = m.u /\ b.id = m.old) -> "error"
            [] x.base = m.u                             -> "keep"
            [] x.base # 0 /\ x.base = m.old /\ x.bak = {} -> "keep"
            [] x.base = 0 /\ x.bak # {}                 -> "backup"
            [] x.base = 0 /\ x.bak = {} /\ m.old = 0 /\ [u |-> m.u, torn |-> FALSE] \in x.tmp -> "forward"
            [] OTHER                                    -> "error"
  BY <1>3, <1>6 DEF Verdict
<1>9. x.base = c.u \/ (x.base # 0 /\ x.base = c.old /\ x.bak = {}) => Verdict(x) = "keep"
  BY <1>5, <1>7, <1>8
<1>10. x.base = 0 /\ x.bak # {} => Verdict(x) = "backup"
  BY <1>5, <1>7, <1>8
<1>11. ASSUME x.base = 0, x.bak = {}, c.old = 0, StagedOf(c) \in x.tmp
       PROVE  Verdict(x) = "forward" /\ Settled(x).base = c.u
  <2>1. Verdict(x) = "forward"
    BY <1>5, <1>7, <1>8, <1>11 DEF StagedOf
  <2>2. Settled(x) = [x EXCEPT !.base = c.u, !.tmp = {t \in x.tmp : t.u # c.u}]
    BY <1>6, <1>7, <2>1 DEF Settled
  <2>3. x \in [base : Nat, tmp : SUBSET TmpOf, bak : SUBSET BakOf, com : SUBSET ComOf]
    BY DEF DiskOf
  <2> QED BY <2>1, <2>2, <2>3
<1> QED BY <1>9, <1>10, <1>11

\* A document that one stopped replacement left is recovered unless its marker is torn.
LEMMA RecoverableHasVerdict ==
  ASSUME NEW x \in DiskOf, Recoverable(x), Verdict(x) = "error"
  PROVE  \E c \in x.com : c.torn
<1>1. CASE x.com = {} /\ x.bak = {}
  <2>1. Cardinality({}) = 0
    BY FS_EmptySet
  <2>2. ~(Cardinality(x.bak) > 1) /\ ~(Cardinality(x.com) > 1)
    BY <1>1, <2>1
  <2> QED BY <1>1, <2>2 DEF Verdict
<1>2. ASSUME NEW c \in x.com, x.com = {c}, ~c.torn, x.bak = {}, x.base = c.old, c.old # 0 PROVE FALSE
  BY <1>2, MarkedVerdict
<1>3. ASSUME NEW c \in x.com, x.com = {c}, ~c.torn, x.bak \subseteq {BackupOf(c)}, x.base = c.u PROVE FALSE
  BY <1>3, MarkedVerdict
<1>4. ASSUME NEW c \in x.com, x.com = {c}, ~c.torn, x.bak = {BackupOf(c)}, x.base = 0 PROVE FALSE
  BY <1>4, MarkedVerdict
<1>5. ASSUME NEW c \in x.com, x.com = {c}, ~c.torn, x.bak = {}, x.base = 0, c.old = 0, StagedOf(c) \in x.tmp PROVE FALSE
  BY <1>5, MarkedVerdict
<1> QED BY <1>1, <1>2, <1>3, <1>4, <1>5 DEF Recoverable

\* A recovery that stops half way leaves it recoverable.
LEMMA SettledIsRecoverable ==
  ASSUME NEW x \in DiskOf, Recoverable(x), Verdict(x) # "error",
         NEW y, y.com = x.com, y.bak = {}, y.base = Settled(x).base
  PROVE  Recoverable(y)
<1>0. /\ x.bak \subseteq BakOf /\ x.com \subseteq ComOf
      /\ IF x.base # 0 THEN y.base = x.base
         ELSE IF x.bak # {} THEN \E b \in x.bak : x.bak = {b} /\ y.base = b.id
         ELSE y.base = 0 \/ \E t \in x.tmp : y.base = t.u
  BY SettledFacts DEF DiskOf
<1>1. CASE (x.com = {} /\ x.bak = {}) \/ \E c \in x.com : c.torn
  BY <1>1 DEF Recoverable
<1>2. ASSUME NEW c \in x.com, x.com = {c}, ~c.torn, x.bak = {}, x.base = c.old, c.old # 0 PROVE Recoverable(y)
  BY <1>0, <1>2 DEF Recoverable
<1>3. ASSUME NEW c \in x.com, x.com = {c}, ~c.torn, x.bak \subseteq {BackupOf(c)}, x.base = c.u PROVE Recoverable(y)
  <2>1. c.u # 0
    BY <1>0 DEF ComOf
  <2> QED BY <1>0, <1>3, <2>1 DEF Recoverable
<1>4. ASSUME NEW c \in x.com, x.com = {c}, ~c.torn, x.bak = {BackupOf(c)}, x.base = 0 PROVE Recoverable(y)
  <2>1. y.base = c.old /\ c.old # 0
    BY <1>0, <1>4 DEF BackupOf, BakOf
  <2> QED BY <1>4, <2>1 DEF Recoverable
<1>5. ASSUME NEW c \in x.com, x.com = {c}, ~c.torn, x.bak = {}, x.base = 0, c.old = 0, StagedOf(c) \in x.tmp
      PROVE  Recoverable(y)
  <2>1. y.base = c.u
    BY <1>5, MarkedVerdict
  <2> QED BY <1>5, <2>1 DEF Recoverable
<1> QED BY <1>1, <1>2, <1>3, <1>4, <1>5 DEF Recoverable

\* The replacement under way goes from step to step.
LEMMA StepsInPlace ==
  ASSUME ScopeInv, work # Idle, NEW w, w = work, NEW x, x = storeDisk[w.doc], InPlace(w, x)
  PROVE  /\ Recoverable(x) /\ \A c \in x.com : ~c.torn
         /\ \A y \in Broken : Recoverable(y)
         /\ w.step = "unmark" => Clean(NoMarker(x))
<1>1. w \in WorkOf /\ x \in DiskOf /\ w.step \in Steps /\ w.u \in Nat \ {0} /\ w.old \in Nat
  BY Working
<1>2. /\ w.step \in {"mark", "backup"} => x.base = w.old
      /\ w.step = "backup" => w.old # 0
      /\ w.step = "commit" => x.base = 0
      /\ w.step \in {"drop", "unmark"} => x.base = w.u
  BY DEF ScopeInv, AtWork
<1>3. PICK c, b, t : c = MarkerOf(w) /\ b = BackupOf(w) /\ t = StagedOf(w)
  OBVIOUS
<1>4. /\ ~c.torn /\ c.u = w.u /\ c.old = w.old /\ BackupOf(c) = b /\ StagedOf(c) = t /\ b.u = w.u /\ t.u = w.u
  BY <1>3 DEF MarkerOf, BackupOf, StagedOf
<1>5. /\ x.com = IF w.step = "mark" THEN {} ELSE {c}
      /\ x.bak \subseteq {b}
      /\ w.step \in {"mark", "backup", "unmark"} => x.bak = {}
      /\ w.step = "commit" => x.bak = IF w.old = 0 THEN {} ELSE {b}
      /\ x.tmp = IF w.step \in {"drop", "unmark"} THEN {} ELSE {t}
  BY <1>3 DEF InPlace
<1>6. \A z : /\ z.com = {} /\ z.bak = {} => Recoverable(z)
             /\ z.com = {c} /\ z.bak = {} /\ z.base = w.old /\ w.old # 0 => Recoverable(z)
             /\ z.com = {c} /\ z.bak \subseteq {b} /\ z.base = w.u => Recoverable(z)
             /\ z.com = {c} /\ z.bak = {b} /\ z.base = 0 => Recoverable(z)
             /\ z.com = {c} /\ z.bak = {} /\ z.base = 0 /\ w.old = 0 /\ t \in z.tmp => Recoverable(z)
  BY <1>4 DEF Recoverable
<1>7. Recoverable(x)
  BY <1>1, <1>2, <1>5, <1>6 DEF Steps
<1>8. \A z \in x.com : ~z.torn
  BY <1>4, <1>5
<1>9. ASSUME NEW y \in Broken PROVE Recoverable(y)
  <2>1. CASE w.step = "mark"
    <3>1. y = x \/ y = NoStage(x)
      BY <2>1 DEF Broken, Here
    <3>2. y.com = {} /\ y.bak = {}
      BY <1>1, <1>5, <2>1, <3>1, Edits
    <3> QED BY <1>6, <3>2
  <2>2. CASE w.step = "backup"
    BY <1>7, <2>2 DEF Broken, Here
  <2>3. CASE w.step = "commit"
    <3>1. PICK z : y = rollback_replacement(z) /\ (z = x \/ z = Committed(x))
      BY <2>3 DEF Broken, Here
    <3>2. /\ z \in DiskOf /\ z.com = {c} /\ z.bak = x.bak
          /\ z = x \/ z.base = w.u
      BY <1>1, <1>5, <2>3, <3>1, Edits
    <3>3. CASE w.old = 0
      <4>1. y = z
        BY <3>1, <3>3 DEF rollback_replacement
      <4> QED BY <1>2, <1>5, <1>6, <2>3, <3>2, <3>3, <4>1
    <3>4. CASE w.old # 0
      <4>1. y = Restored(z)
        BY <3>1, <3>4 DEF rollback_replacement
      <4>2. y.com = {c} /\ y.base = w.old /\ y.bak = {k \in {b} : k.u # w.u}
        BY <1>1, <1>5, <2>3, <3>2, <3>4, <4>1, Edits
      <4>3. y.bak = {}
        BY <1>4, <4>2
      <4> QED BY <1>6, <3>4, <4>2, <4>3
    <3> QED BY <3>3, <3>4
  <2>4. CASE w.step = "drop"
    <3>1. y = x \/ y = NoCopy(x)
      BY <2>4 DEF Broken, Here
    <3>2. y.com = {c} /\ y.bak \subseteq {b} /\ y.base = w.u
      BY <1>1, <1>2, <1>5, <2>4, <3>1, Edits
    <3> QED BY <1>6, <3>2
  <2>5. CASE w.step = "unmark"
    <3>1. y = x \/ y = NoMarker(x)
      BY <2>5 DEF Broken, Here
    <3>2. CASE y = NoMarker(x)
      <4>1. y.com = {k \in {c} : k.u # w.u} /\ y.bak = {}
        BY <1>1, <1>5, <2>5, <3>2, Edits
      <4>2. y.com = {}
        BY <1>4, <4>1
      <4> QED BY <1>6, <4>1, <4>2
    <3> QED BY <1>7, <3>1, <3>2
  <2> QED BY <1>1, <2>1, <2>2, <2>3, <2>4, <2>5 DEF Steps
<1>10. ASSUME w.step = "unmark" PROVE Clean(NoMarker(x))
  <2>1. NoMarker(x).com = {k \in {c} : k.u # w.u} /\ NoMarker(x).bak = {} /\ NoMarker(x).tmp = {}
    BY <1>1, <1>5, <1>10, Edits
  <2>2. NoMarker(x).com = {}
    BY <1>4, <2>1
  <2> QED BY <2>1, <2>2 DEF Clean, HasArtifacts
<1> QED BY <1>7, <1>8, <1>9, <1>10

\* Everything but one document is as it was.
LEMMA DocumentChanges ==
  ASSUME ScopeInv, FaultInv, NEW e \in StoreDocs, NEW y, storeDisk' = [storeDisk EXCEPT ![e] = y],
         Faults', NoneSince' => NoneSince, faultAt' = 0 => faultAt = 0, tomb' = tomb,
         storePhase' = storePhase, storePhase # "stuck",
         work # Idle => work.doc = e, work' # Idle => work'.doc = e,
         (\E t \in y.tmp : t.torn) => faultAt' # 0,
         storePhase = "open" => \A c \in y.com : ~c.torn,
         NoneSince' => IF work' # Idle THEN InPlace(work', y) /\ faultAt' = 0 ELSE Recoverable(y),
         faultAt' = 0 /\ storePhase = "open" /\ work' = Idle => Clean(y)
  PROVE  FaultInv'
<1>1. /\ storeDisk'[e] = y /\ \A d \in StoreDocs : d # e => storeDisk'[d] = storeDisk[d]
  BY DEF ScopeInv, ScopeTypes
<1>2. TornByFault'
  BY <1>1 DEF FaultInv, TornByFault
<1>3. WholeMarkers'
  BY <1>1 DEF FaultInv, WholeMarkers
<1>4. LeftBehind'
  <2>1. ASSUME NoneSince', NEW d \in StoreDocs
        PROVE  IF work' # Idle /\ work'.doc = d THEN InPlace(work', storeDisk'[d]) ELSE Recoverable(storeDisk'[d])
    <3>1. CASE d = e
      BY <1>1, <2>1, <3>1
    <3>2. CASE d # e
      <4>1. Recoverable(storeDisk[d])
        BY <2>1, <3>2 DEF FaultInv, LeftBehind
      <4> QED BY <1>1, <3>2, <4>1
    <3> QED BY <3>1, <3>2
  <2>2. ASSUME faultAt' = 0, storePhase' = "open", NEW d \in StoreDocs, work' # Idle => work'.doc # d
        PROVE  Clean(storeDisk'[d])
    <3>1. CASE d = e
      BY <1>1, <2>2, <3>1
    <3>2. CASE d # e
      <4>1. Clean(storeDisk[d])
        BY <2>2, <3>2 DEF FaultInv, LeftBehind
      <4> QED BY <1>1, <3>2, <4>1
    <3> QED BY <3>1, <3>2
  <2> QED BY <2>1, <2>2 DEF LeftBehind
<1>5. OneFaultRecovers'
  BY DEF OneFaultRecovers
<1> QED BY <1>2, <1>3, <1>4, <1>5 DEF FaultInv

\* One error is all there is.
LEMMA OnlyOne ==
  ASSUME MaxStoreFault \in {0, 1}, ScopeInv, FaultInv, NEW u, StoreFault(u)
  PROVE  faultAt = 0 /\ faultAt' = u /\ storeFaults' = 1
BY DEF StoreFault, FaultInv, Faults, ScopeInv, ScopeTypes

LEMMA StagingLeaves ==
  ASSUME MaxStoreFault \in {0, 1}, ScopeInv, FaultInv, StoreStage \/ StageError
  PROVE  FaultInv'
<1>1. PICK torn \in BOOLEAN : Staging /\ StageAs(torn) /\ (torn = FALSE => StoreStage) /\ (torn = TRUE => StageError)
  BY DEF StoreStage, StageError
<1>2. PICK n, e, x, s : n = NextTxn /\ e = Head(plan).doc /\ x = storeDisk[e] /\ s = [u |-> n, torn |-> torn]
  OBVIOUS
<1>3. PICK y : y = [x EXCEPT !.tmp = @ \cup {s}]
  OBVIOUS
<1>4. work = Idle /\ storePhase = "open" /\ e \in StoreDocs /\ n \in Nat \ {0} /\ NextTxn' = n + 1
  BY <1>1, <1>2, StagingWrites
<1>5. storeDisk' = [storeDisk EXCEPT ![e] = y]
  <2>1. storeDisk' = [storeDisk EXCEPT ![e].tmp = @ \cup {s}]
    BY <1>1, <1>2 DEF StageAs
  <2> QED BY <1>2, <1>3, <2>1
<1>6. x \in DiskOf /\ x \in [base : Nat, tmp : SUBSET TmpOf, bak : SUBSET BakOf, com : SUBSET ComOf]
  BY <1>2, <1>4 DEF ScopeInv, ScopeTypes, DiskOf
<1>7. y.com = x.com /\ y.bak = x.bak /\ y.tmp = x.tmp \cup {s} /\ (s.torn <=> torn)
  BY <1>2, <1>3, <1>6
<1>8. /\ faultAt \in Nat /\ storeFaults \in Nat /\ faultAt < n /\ (storeFaults = 0 => faultAt = 0)
      /\ \A t \in x.tmp : t.torn => faultAt # 0
      /\ \A c \in x.com : ~c.torn
      /\ faultAt = 0 => Clean(x)
  BY <1>2, <1>4 DEF ScopeInv, ScopeTypes, FaultInv, Faults, TornByFault, WholeMarkers, LeftBehind
<1>9. faultAt = 0 => y.com = {} /\ y.bak = {} /\ y.tmp = {s}
  <2>1. faultAt = 0 => x.com = {} /\ x.bak = {} /\ x.tmp = {}
    BY <1>8, CleanIsRecoverable
  <2> QED BY <1>7, <2>1
<1>10. tomb' = tomb /\ storePhase' = storePhase
  BY <1>1 DEF StoreStage, StageError
<1>11. CASE StoreStage /\ torn = FALSE
  <2>1. PICK v : v = [step |-> "mark", doc |-> e, u |-> n, old |-> storeDisk[e].base]
    OBVIOUS
  <2>2. work' = v /\ faultAt' = faultAt /\ storeFaults' = storeFaults
    BY <1>2, <1>11, <2>1 DEF StoreStage, bounds
  <2>3. work' # Idle /\ v.doc = e /\ v.step = "mark"
    BY <2>1, <2>2 DEF Idle
  <2>4. Faults' /\ (NoneSince' => faultAt = 0)
    BY <1>4, <1>8, <2>2 DEF Faults, NoneSince
  <2>5. faultAt = 0 => InPlace(v, y)
    <3>1. StagedOf(v) = s
      BY <1>2, <1>11, <2>1 DEF StagedOf
    <3> QED BY <1>9, <2>3, <3>1 DEF InPlace
  <2>6. NoneSince' => NoneSince
    BY <2>4 DEF NoneSince
  <2>7. (\E t \in y.tmp : t.torn) => faultAt' # 0
    BY <1>7, <1>8, <1>11, <2>2
  <2>8. NoneSince' => IF work' # Idle THEN InPlace(work', y) /\ faultAt' = 0 ELSE Recoverable(y)
    BY <2>2, <2>3, <2>4, <2>5
  <2> QED BY <1>4, <1>5, <1>7, <1>8, <1>10, <2>2, <2>3, <2>4, <2>6, <2>7, <2>8, DocumentChanges
<1>12. CASE StageError /\ torn = TRUE
  <2>1. StoreFault(n) /\ work' = Idle
    BY <1>2, <1>4, <1>12 DEF StageError
  <2>2. faultAt = 0 /\ faultAt' = n /\ storeFaults' = 1
    BY <2>1, OnlyOne
  <2>3. Faults'
    BY <1>4, <2>2 DEF Faults
  <2>4. NoneSince /\ Recoverable(y)
    BY <1>9, <2>2 DEF NoneSince, Recoverable
  <2> QED BY <1>4, <1>5, <1>7, <1>8, <1>10, <2>1, <2>2, <2>3, <2>4, DocumentChanges
<1> QED BY <1>1, <1>11, <1>12

LEMMA StepLeaves ==
  ASSUME ScopeInv, FaultInv, work # Idle, Mark \/ Backup \/ StoreCommits \/ DropBackup
  PROVE  FaultInv'
<1>1. PICK w, x : w = work /\ x = storeDisk[w.doc]
  OBVIOUS
<1>2. /\ w \in WorkOf /\ w.doc \in StoreDocs /\ x \in DiskOf /\ storePhase = "open"
      /\ x \in [base : Nat, tmp : SUBSET TmpOf, bak : SUBSET BakOf, com : SUBSET ComOf]
  BY <1>1, Working DEF DiskOf
<1>3. PICK s, y :
        /\ storeDisk' = [storeDisk EXCEPT ![w.doc] = y] /\ work' = [w EXCEPT !.step = s]
        /\ \/ w.step = "mark" /\ s = (IF w.old = 0 THEN "commit" ELSE "backup") /\ y = [x EXCEPT !.com = @ \cup {MarkerOf(w)}]
           \/ w.step = "backup" /\ s = "commit" /\ y = [x EXCEPT !.base = 0, !.bak = @ \cup {BackupOf(w)}]
           \/ w.step = "commit" /\ s = "drop" /\ y = Committed(x)
           \/ w.step = "drop" /\ s = "unmark" /\ y = NoCopy(x)
  BY <1>1 DEF Mark, Backup, StoreCommits, DropBackup, Step, Here, Marker, MarkerOf, BackupOf
<1>4. body' = body /\ tomb' = tomb /\ storePhase' = storePhase /\ faultAt' = faultAt /\ storeFaults' = storeFaults
  BY DEF Mark, Backup, StoreCommits, DropBackup, Step, bounds
<1>5. PICK v : v = work'
  OBVIOUS
<1>6. v.step = s /\ v.doc = w.doc /\ v.u = w.u /\ v.old = w.old /\ v # Idle
  <2>1. v \in WorkOf
    BY <1>2, <1>3, <1>5 DEF WorkOf, Steps
  <2>2. v.step = s /\ v.doc = w.doc /\ v.u = w.u /\ v.old = w.old
    BY <1>2, <1>3, <1>5 DEF WorkOf
  <2> QED BY <2>1, <2>2, IdleIsNone
<1>7. MarkerOf(v) = MarkerOf(w) /\ BackupOf(v) = BackupOf(w) /\ StagedOf(v) = StagedOf(w) /\ ~MarkerOf(w).torn
      /\ BackupOf(w).u = w.u /\ StagedOf(w).u = w.u
  BY <1>6 DEF MarkerOf, BackupOf, StagedOf
<1>8. /\ y.tmp = IF w.step = "commit" THEN {t \in x.tmp : t.u # w.u} ELSE x.tmp
      /\ y.com = IF w.step = "mark" THEN x.com \cup {MarkerOf(w)} ELSE x.com
      /\ y.bak = IF w.step = "backup" THEN x.bak \cup {BackupOf(w)}
                 ELSE IF w.step = "drop" THEN {b \in x.bak : b.u # w.u} ELSE x.bak
  <2>1. CASE w.step \in {"mark", "backup"}
    BY <1>2, <1>3, <2>1
  <2>2. CASE w.step = "commit"
    <3>1. y = Committed(x) /\ work.u = w.u /\ work \in WorkOf
      BY <1>1, <1>2, <1>3, <2>2
    <3>2. y.com = x.com /\ y.bak = x.bak /\ y.tmp = {t \in x.tmp : t.u # w.u}
      BY <1>2, <3>1, Edits
    <3> QED BY <2>2, <3>2
  <2>3. CASE w.step = "drop"
    <3>1. y = NoCopy(x) /\ work.u = w.u /\ work \in WorkOf
      BY <1>1, <1>2, <1>3, <2>3
    <3>2. y.com = x.com /\ y.tmp = x.tmp /\ y.bak = {b \in x.bak : b.u # w.u}
      BY <1>2, <3>1, Edits
    <3> QED BY <2>3, <3>2
  <2> QED BY <1>3, <2>1, <2>2, <2>3
<1>9. w.step = "backup" => w.old # 0
  BY <1>1 DEF ScopeInv, AtWork
<1>10. InPlace(w, x) => InPlace(v, y)
  <2> SUFFICES ASSUME InPlace(w, x) PROVE InPlace(v, y)
    OBVIOUS
  <2>1. PICK c, b, t : c = MarkerOf(w) /\ b = BackupOf(w) /\ t = StagedOf(w)
    OBVIOUS
  <2>2. /\ x.com = IF w.step = "mark" THEN {} ELSE {c}
        /\ x.bak \subseteq {b}
        /\ w.step \in {"mark", "backup", "unmark"} => x.bak = {}
        /\ w.step = "commit" => x.bak = IF w.old = 0 THEN {} ELSE {b}
        /\ x.tmp = IF w.step \in {"drop", "unmark"} THEN {} ELSE {t}
    BY <2>1 DEF InPlace
  <2>3. b.u = w.u /\ t.u = w.u
    BY <1>7, <2>1
  <2>4. y.com = {c}
    BY <1>3, <1>8, <2>1, <2>2
  <2>5. y.bak = IF s = "unmark" \/ s = "backup" THEN {} ELSE IF s = "commit" THEN (IF w.old = 0 THEN {} ELSE {b}) ELSE x.bak
    <3>1. CASE w.step = "mark"
      BY <1>3, <1>8, <2>2, <3>1
    <3>2. CASE w.step = "backup"
      BY <1>3, <1>8, <1>9, <2>1, <2>2, <3>2
    <3>3. CASE w.step = "commit"
      BY <1>3, <1>8, <3>3
    <3>4. CASE w.step = "drop"
      <4>1. y.bak = {k \in x.bak : k.u # w.u}
        BY <1>8, <3>4
      <4>2. y.bak = {}
        BY <2>2, <2>3, <4>1
      <4> QED BY <1>3, <3>4, <4>2
    <3> QED BY <1>3, <3>1, <3>2, <3>3, <3>4
  <2>6. y.tmp = IF s \in {"drop", "unmark"} THEN {} ELSE {t}
    <3>1. CASE w.step = "commit"
      <4>1. y.tmp = {k \in {t} : k.u # w.u}
        BY <1>8, <2>2, <3>1
      <4>2. y.tmp = {}
        BY <2>3, <4>1
      <4> QED BY <1>3, <3>1, <4>2
    <3>2. CASE w.step # "commit"
      BY <1>3, <1>8, <2>2, <3>2
    <3> QED BY <3>1, <3>2
  <2>7. s # "mark" /\ s \in {"commit", "backup", "drop", "unmark"}
    BY <1>3
  <2> QED BY <1>6, <1>7, <2>1, <2>2, <2>4, <2>5, <2>6, <2>7 DEF InPlace
<1>11. NextTxn' = NextTxn
  BY <1>4, BodyStays
<1>12. Faults' /\ (NoneSince' <=> NoneSince)
  BY <1>4, <1>11 DEF FaultInv, Faults, NoneSince
<1>13. NoneSince => InPlace(w, x) /\ faultAt = 0
  BY <1>1, <1>2 DEF FaultInv, LeftBehind
<1>14. (\E t \in y.tmp : t.torn) => faultAt' # 0
  <2>1. y.tmp \subseteq x.tmp
    BY <1>8
  <2> QED BY <1>1, <1>2, <1>4, <2>1 DEF FaultInv, TornByFault
<1>15. \A c \in y.com : ~c.torn
  <2>1. \A c \in x.com : ~c.torn
    BY <1>1, <1>2 DEF FaultInv, WholeMarkers
  <2> QED BY <1>7, <1>8, <2>1
<1>16. NoneSince' => IF work' # Idle THEN InPlace(work', y) /\ faultAt' = 0 ELSE Recoverable(y)
  BY <1>4, <1>5, <1>6, <1>10, <1>12, <1>13
<1>17. work # Idle => work.doc = w.doc
  BY <1>1
<1>18. work' # Idle /\ work'.doc = w.doc
  BY <1>5, <1>6
<1> QED BY <1>2, <1>3, <1>4, <1>12, <1>14, <1>15, <1>16, <1>17, <1>18, DocumentChanges

\* The markers a failed replacement leaves are among those it had.
LEMMA ErrorsAddNoMarker ==
  ASSUME ScopeInv, work # Idle, NEW y \in Broken
  PROVE  y.com \subseteq Here.com
<1>1. PICK x : x = Here
  OBVIOUS
<1>2. x \in DiskOf /\ work \in WorkOf /\ work.step \in Steps
  BY <1>1, Working DEF Here
<1>3. \/ y = x \/ y = NoStage(x) \/ y = NoCopy(x) \/ y = NoMarker(x)
      \/ y = Committed(x) \/ y = Restored(x) \/ y = Restored(Committed(x))
  BY <1>1, <1>2 DEF Broken, Steps, rollback_replacement
<1>4. NoStage(x).com = x.com /\ NoCopy(x).com = x.com /\ NoMarker(x).com \subseteq x.com
  BY <1>2, Edits
<1>5. Committed(x) \in DiskOf /\ Committed(x).com = x.com /\ Restored(x).com = x.com
  BY <1>2, Edits
<1>6. Restored(Committed(x)).com = x.com
  BY <1>2, <1>5, Edits
<1> QED BY <1>1, <1>3, <1>4, <1>5, <1>6

LEMMA ErrorLeaves ==
  ASSUME MaxStoreFault \in {0, 1}, ScopeInv, FaultInv, IoError
  PROVE  FaultInv'
<1>1. PICK w, x : w = work /\ x = storeDisk[w.doc]
  OBVIOUS
<1>2. PICK y \in Broken : storeDisk' = [storeDisk EXCEPT ![w.doc] = y]
  BY <1>1 DEF IoError
<1>3. work # Idle /\ work' = Idle /\ StoreFault(w.u) /\ body' = body /\ tomb' = tomb /\ storePhase' = storePhase
  BY <1>1 DEF IoError
<1>4. w.doc \in StoreDocs /\ w.u \in Nat \ {0} /\ w.u = NextTxn - 1 /\ NextTxn \in Nat /\ storePhase = "open"
  BY <1>1, <1>3, Working, FilesOfDocument DEF ScopeInv
<1>5. faultAt = 0 /\ faultAt' = w.u /\ storeFaults' = 1
  BY <1>3, OnlyOne
<1>6. NoneSince /\ InPlace(w, x)
  BY <1>1, <1>3, <1>4, <1>5 DEF NoneSince, FaultInv, LeftBehind
<1>7. Recoverable(y)
  BY <1>1, <1>3, <1>6, StepsInPlace
<1>8. \A c \in y.com : ~c.torn
  <2>1. y.com \subseteq x.com
    BY <1>1, <1>3, ErrorsAddNoMarker DEF Here
  <2> QED BY <1>1, <1>4, <2>1 DEF FaultInv, WholeMarkers
<1>9. NextTxn' = NextTxn
  BY <1>3, BodyStays
<1>10. Faults'
  BY <1>4, <1>5, <1>9 DEF Faults
<1>11. faultAt' # 0
  BY <1>4, <1>5
<1> QED BY <1>1, <1>2, <1>3, <1>4, <1>5, <1>6, <1>7, <1>8, <1>10, <1>11, DocumentChanges

LEMMA FinishLeaves ==
  ASSUME MaxStoreFault \in {0, 1}, ScopeInv, FaultInv, work # Idle,
         Unmark \/ restore_v1_after_migration_failure
  PROVE  FaultInv'
<1>1. PICK w, x, y : w = work /\ x = storeDisk[w.doc] /\ y = NoMarker(x)
  OBVIOUS
<1>2. /\ w.doc \in StoreDocs /\ w.u \in Nat \ {0} /\ w.u = NextTxn - 1 /\ NextTxn \in Nat /\ storePhase = "open"
      /\ x \in DiskOf /\ w \in WorkOf
  BY <1>1, Working, FilesOfDocument DEF ScopeInv
<1>3. /\ w.step = "unmark" /\ storeDisk' = [storeDisk EXCEPT ![w.doc] = y] /\ work' = Idle
      /\ body' = body /\ tomb' = tomb /\ storePhase' = storePhase
  BY <1>1 DEF Unmark, restore_v1_after_migration_failure, Finished, Here
<1>4. (faultAt' = faultAt /\ storeFaults' = storeFaults) \/ StoreFault(w.u)
  BY <1>1 DEF Unmark, restore_v1_after_migration_failure
<1>5. NextTxn' = NextTxn
  BY <1>3, BodyStays
<1>6. y.tmp = x.tmp /\ y.com \subseteq x.com
  BY <1>1, <1>2, Edits
<1>7. NoneSince => Clean(y)
  <2>1. NoneSince => InPlace(w, x)
    BY <1>1, <1>2 DEF FaultInv, LeftBehind
  <2> QED BY <1>1, <1>3, <2>1, StepsInPlace
<1>8. Clean(y) => Recoverable(y)
  BY CleanIsRecoverable
<1>9. \A c \in y.com : ~c.torn
  BY <1>1, <1>2, <1>6 DEF FaultInv, WholeMarkers
<1>10. (\E t \in y.tmp : t.torn) => faultAt # 0
  BY <1>1, <1>2, <1>6 DEF FaultInv, TornByFault
<1>11. faultAt = 0 => NoneSince
  BY DEF NoneSince
<1>12. CASE faultAt' = faultAt /\ storeFaults' = storeFaults
  <2>1. Faults' /\ (NoneSince' <=> NoneSince)
    BY <1>5, <1>12 DEF FaultInv, Faults, NoneSince
  <2> QED BY <1>1, <1>2, <1>3, <1>7, <1>8, <1>9, <1>10, <1>11, <1>12, <2>1, DocumentChanges
<1>13. CASE StoreFault(w.u)
  <2>1. faultAt = 0 /\ faultAt' = w.u /\ storeFaults' = 1
    BY <1>13, OnlyOne
  <2>2. Faults' /\ faultAt' # 0
    BY <1>2, <1>5, <2>1 DEF Faults
  <2> QED BY <1>1, <1>2, <1>3, <1>7, <1>8, <1>9, <1>10, <1>11, <2>1, <2>2, DocumentChanges
<1> QED BY <1>4, <1>12, <1>13

\* The store is opened again on a disk of which every document can be recovered.
LEMMA RestartLeaves ==
  ASSUME ScopeInv, FaultInv, NEW dk, Restart(dk), NoneSince => \A d \in StoreDocs : Recoverable(dk[d]),
         \A d \in StoreDocs : dk[d].tmp \subseteq storeDisk[d].tmp
  PROVE  FaultInv'
<1>1. /\ storeDisk' = dk /\ storePhase' = "recover" /\ work' = Idle
      /\ UNCHANGED <<body, tomb, faultAt, storeFaults>>
  BY DEF Restart
<1>2. NextTxn' = NextTxn
  BY <1>1, BodyStays
<1>3. Faults' /\ (NoneSince' <=> NoneSince)
  BY <1>1, <1>2 DEF FaultInv, Faults, NoneSince
<1>4. TornByFault'
  BY <1>1 DEF FaultInv, TornByFault
<1>5. LeftBehind'
  BY <1>1, <1>3 DEF LeftBehind
<1>6. WholeMarkers' /\ OneFaultRecovers'
  BY <1>1 DEF WholeMarkers, OneFaultRecovers
<1> QED BY <1>3, <1>4, <1>5, <1>6 DEF FaultInv

LEMMA CrashLeaves ==
  ASSUME ScopeInv, FaultInv, Crash
  PROVE  FaultInv'
<1>1. NoneSince => \A d \in StoreDocs : Recoverable(storeDisk[d])
  <2> SUFFICES ASSUME NoneSince, NEW d \in StoreDocs PROVE Recoverable(storeDisk[d])
    OBVIOUS
  <2>1. CASE work # Idle /\ work.doc = d
    <3>1. InPlace(work, storeDisk[d])
      BY <2>1 DEF FaultInv, LeftBehind
    <3> QED BY <2>1, <3>1, StepsInPlace
  <2>2. CASE ~(work # Idle /\ work.doc = d)
    BY <2>2 DEF FaultInv, LeftBehind
  <2> QED BY <2>1, <2>2
<1>2. CASE Restart(storeDisk)
  <2>1. PICK dk : dk = storeDisk
    OBVIOUS
  <2> QED BY <1>1, <1>2, <2>1, RestartLeaves
<1>3. CASE work.step = "mark" /\ Restart([storeDisk EXCEPT ![work.doc].com = @ \cup {Marker(TRUE)}])
  <2>1. PICK e, x, m : e = work.doc /\ x = storeDisk[e] /\ m = Marker(TRUE)
    OBVIOUS
  <2>2. work # Idle
    BY <1>3, IdleIsNone
  <2>3. e \in StoreDocs /\ x \in [base : Nat, tmp : SUBSET TmpOf, bak : SUBSET BakOf, com : SUBSET ComOf] /\ m.torn
    BY <2>1, <2>2, Working DEF DiskOf, Marker
  <2>4. PICK y : y = [x EXCEPT !.com = @ \cup {m}]
    OBVIOUS
  <2>5. y.tmp = x.tmp /\ m \in y.com
    BY <2>3, <2>4
  <2>6. Recoverable(y)
    BY <2>3, <2>5 DEF Recoverable
  <2>7. PICK dk : dk = [storeDisk EXCEPT ![e] = y]
    OBVIOUS
  <2>8. Restart(dk)
    <3>1. dk = [storeDisk EXCEPT ![work.doc].com = @ \cup {Marker(TRUE)}]
      BY <2>1, <2>4, <2>7
    <3> QED BY <1>3, <3>1
  <2>9. dk[e] = y /\ \A d \in StoreDocs : d # e => dk[d] = storeDisk[d]
    BY <2>3, <2>7 DEF ScopeInv, ScopeTypes
  <2>10. \A d \in StoreDocs : dk[d].tmp \subseteq storeDisk[d].tmp
    <3>1. ASSUME NEW d \in StoreDocs PROVE dk[d].tmp \subseteq storeDisk[d].tmp
      BY <2>1, <2>5, <2>9
    <3> QED BY <3>1
  <2>11. NoneSince => \A d \in StoreDocs : Recoverable(dk[d])
    BY <1>1, <2>6, <2>9
  <2> QED BY <2>8, <2>10, <2>11, RestartLeaves
<1> QED BY <1>2, <1>3 DEF Crash

\* Recovery only removes, and what it has not removed yet it can remove again.
LEMMA RecoveryLeaves ==
  ASSUME ScopeInv, FaultInv, NEW e \in StoreDocs, RecoverDoc(e) \/ RecoverCrash(e)
  PROVE  FaultInv'
<1>1. PICK x, s : x = storeDisk[e] /\ s = Settled(x)
  OBVIOUS
<1>2. storePhase = "recover" /\ Verdict(x) # "error" /\ x \in DiskOf /\ work = Idle
  <2>1. storePhase = "recover" /\ Verdict(x) # "error" /\ x \in DiskOf
    BY <1>1 DEF RecoverDoc, RecoverCrash, Recovering, ScopeInv, ScopeTypes
  <2> QED BY <2>1 DEF ScopeInv, AtWork
<1>3. /\ s.bak = {} /\ s.com = x.com /\ s.tmp \subseteq x.tmp
      /\ s \in [base : Nat, tmp : SUBSET TmpOf, bak : SUBSET BakOf, com : SUBSET ComOf]
  BY <1>1, <1>2, SettledFacts DEF DiskOf
<1>4. NoneSince => \A d \in StoreDocs : Recoverable(storeDisk[d])
  BY <1>2 DEF FaultInv, LeftBehind
<1>5. CASE RecoverCrash(e)
  <2>1. PICK ts \in SUBSET s.tmp : Restart([storeDisk EXCEPT ![e] = [s EXCEPT !.tmp = ts]])
    BY <1>1, <1>5 DEF RecoverCrash
  <2>2. PICK y : y = [s EXCEPT !.tmp = ts]
    OBVIOUS
  <2>3. y.base = s.base /\ y.bak = {} /\ y.com = x.com /\ y.tmp \subseteq x.tmp
    BY <1>3, <2>2
  <2>4. PICK dk : dk = [storeDisk EXCEPT ![e] = y]
    OBVIOUS
  <2>5. dk[e] = y /\ \A d \in StoreDocs : d # e => dk[d] = storeDisk[d]
    BY <2>4 DEF ScopeInv, ScopeTypes
  <2>6. Recoverable(x) => Recoverable(y)
    BY <1>1, <1>2, <2>3, SettledIsRecoverable
  <2>7. NoneSince => \A d \in StoreDocs : Recoverable(dk[d])
    BY <1>1, <1>4, <2>5, <2>6
  <2>8. ASSUME NEW d \in StoreDocs PROVE dk[d].tmp \subseteq storeDisk[d].tmp
    BY <1>1, <2>3, <2>5
  <2>9. Restart(dk)
    BY <2>1, <2>2, <2>4
  <2> QED BY <2>7, <2>8, <2>9, RestartLeaves
<1>6. CASE RecoverDoc(e)
  <2>1. PICK y : y = recover_document_artifacts(x)
    OBVIOUS
  <2>2. y.tmp = {} /\ y.com = {} /\ y.bak = {}
    <3>1. y = [s EXCEPT !.tmp = {}, !.com = {}]
      BY <1>1, <2>1 DEF recover_document_artifacts
    <3> QED BY <1>3, <3>1
  <2>3. /\ storeDisk' = [storeDisk EXCEPT ![e] = y] /\ body' = body /\ work' = Idle /\ tomb' = tomb
        /\ storePhase' = storePhase /\ faultAt' = faultAt /\ storeFaults' = storeFaults
    BY <1>1, <1>2, <1>6, <2>1 DEF RecoverDoc, bounds
  <2>4. NextTxn' = NextTxn
    BY <2>3, BodyStays
  <2>5. Faults' /\ (NoneSince' <=> NoneSince)
    BY <2>3, <2>4 DEF FaultInv, Faults, NoneSince
  <2>6. Recoverable(y)
    BY <2>2 DEF Recoverable
  <2> QED BY <1>2, <2>2, <2>3, <2>5, <2>6, DocumentChanges
<1> QED BY <1>5, <1>6

LEMMA IdentityLeaves ==
  ASSUME ScopeInv, FaultInv, load_or_create_desktop_instance
  PROVE  FaultInv'
<1>1. PICK x, s, y, e : /\ e = "identity" /\ x = storeDisk[e] /\ s = Settled(x)
                        /\ y = recover_document_artifacts(x)
  OBVIOUS
<1>2. e \in StoreDocs /\ x \in DiskOf /\ Verdict(x) # "error" /\ work = Idle /\ storePhase = "open"
  BY <1>1, DocNames DEF load_or_create_desktop_instance, Ready, ScopeInv, ScopeTypes
<1>3. s.bak = {} /\ s \in [base : Nat, tmp : SUBSET TmpOf, bak : SUBSET BakOf, com : SUBSET ComOf]
  BY <1>1, <1>2, SettledFacts DEF DiskOf
<1>4. y.tmp = {} /\ y.com = {} /\ y.bak = {}
  <2>1. y = [s EXCEPT !.tmp = {}, !.com = {}]
    BY <1>1 DEF recover_document_artifacts
  <2> QED BY <1>3, <2>1
<1>5. /\ storeDisk' = [storeDisk EXCEPT ![e] = y] /\ body' = body /\ work' = Idle /\ tomb' = tomb
      /\ storePhase' = storePhase /\ faultAt' = faultAt /\ storeFaults' = storeFaults
  BY <1>1, <1>2 DEF load_or_create_desktop_instance, bounds
<1>6. NextTxn' = NextTxn
  BY <1>5, BodyStays
<1>7. Faults' /\ (NoneSince' <=> NoneSince)
  BY <1>5, <1>6 DEF FaultInv, Faults, NoneSince
<1>8. Recoverable(y) /\ Clean(y)
  BY <1>4 DEF Recoverable, Clean, HasArtifacts
<1> QED BY <1>2, <1>4, <1>5, <1>7, <1>8, DocumentChanges

\* Documents are deleted whole, as the store opens or a scope is purged.
LEMMA DocumentsEmptied ==
  ASSUME FaultInv, work = Idle, work' = Idle, UNCHANGED <<body, faultAt, storeFaults>>, storePhase' = "open",
         storePhase = "open" \/ \A d \in StoreDocs : Clean(storeDisk[d]),
         \A d \in StoreDocs : storeDisk'[d] = Empty \/ storeDisk'[d] = storeDisk[d],
         tomb' = "torn" => faultAt # 0
  PROVE  FaultInv'
<1>1. NextTxn' = NextTxn
  BY BodyStays
<1>2. Faults' /\ (NoneSince' <=> NoneSince)
  BY <1>1 DEF FaultInv, Faults, NoneSince
<1>3. Empty.tmp = {} /\ Empty.com = {} /\ Clean(Empty) /\ Recoverable(Empty)
  BY DEF Empty, Clean, HasArtifacts, Recoverable
<1>4. TornByFault'
  <2>1. ASSUME NEW d \in StoreDocs, NEW t \in storeDisk'[d].tmp, t.torn PROVE faultAt # 0
    BY <1>3, <2>1 DEF FaultInv, TornByFault
  <2> QED BY <2>1 DEF TornByFault
<1>5. WholeMarkers'
  <2>1. ASSUME NEW d \in StoreDocs, NEW c \in storeDisk'[d].com PROVE ~c.torn
    <3>1. storeDisk'[d] = storeDisk[d] /\ storeDisk[d].com # {}
      BY <1>3, <2>1
    <3>2. storePhase = "open"
      BY <3>1 DEF Clean, HasArtifacts
    <3> QED BY <2>1, <3>1, <3>2 DEF FaultInv, WholeMarkers
  <2> QED BY <2>1 DEF WholeMarkers
<1>6. LeftBehind'
  <2>1. ASSUME NoneSince', NEW d \in StoreDocs PROVE Recoverable(storeDisk'[d])
    <3>1. Recoverable(storeDisk[d])
      BY <1>2, <2>1 DEF FaultInv, LeftBehind
    <3> QED BY <1>3, <3>1
  <2>2. ASSUME faultAt' = 0, NEW d \in StoreDocs PROVE Clean(storeDisk'[d])
    <3>1. Clean(storeDisk[d])
      BY <2>2 DEF FaultInv, LeftBehind
    <3> QED BY <1>3, <3>1
  <2> QED BY <2>1, <2>2 DEF LeftBehind
<1>7. OneFaultRecovers'
  BY DEF OneFaultRecovers
<1> QED BY <1>2, <1>4, <1>5, <1>6, <1>7 DEF FaultInv

LEMMA OpenDoneLeaves ==
  ASSUME ScopeInv, FaultInv, OpenDone
  PROVE  FaultInv'
<1>1. /\ storePhase = "recover" /\ todo = {} /\ storePhase' = "open" /\ tomb' = "none"
      /\ storeDisk' = discard_incomplete_v1_rollback_artifacts
      /\ UNCHANGED <<body, work, faultAt, storeFaults>>
  BY DEF OpenDone, bounds
<1>2. work = Idle /\ \A d \in StoreDocs : Clean(storeDisk[d])
  BY <1>1 DEF ScopeInv, AtWork, Survives, Clean
<1>3. \A d \in StoreDocs : storeDisk'[d] = Empty \/ storeDisk'[d] = storeDisk[d]
  <2>1. storeDisk' = storeDisk \/ storeDisk' = [storeDisk EXCEPT !["rollback"] = Empty, !["rmeta"] = Empty]
    BY <1>1 DEF discard_incomplete_v1_rollback_artifacts
  <2> QED BY <2>1 DEF ScopeInv, ScopeTypes
<1> QED BY <1>1, <1>2, <1>3, DocumentsEmptied

\* A torn staged file makes the deleted scope unreadable, and only an I/O error tears one.
LEMMA PurgeLeaves ==
  ASSUME ScopeInv, FaultInv, PurgeRename
  PROVE  FaultInv'
<1>1. /\ storePhase = "open" /\ storePhase' = "open" /\ work = Idle /\ work' = Idle
      /\ UNCHANGED <<body, faultAt, storeFaults>>
  BY DEF PurgeRename
<1>2. \A d \in StoreDocs : storeDisk'[d] = Empty \/ storeDisk'[d] = storeDisk[d]
  BY DEF PurgeRename
<1>3. tomb' = "torn" => faultAt # 0
  <2>1. CASE tomb' = tomb
    BY <2>1 DEF FaultInv, TornByFault
  <2>2. CASE tomb' = IF \A d \in StoreDocs : InScope(d) => Parses(storeDisk[d]) THEN "clean" ELSE "torn"
    <3>1. ASSUME NEW d \in StoreDocs, ~Parses(storeDisk[d]) PROVE faultAt # 0
      <4>1. PICK f \in storeDisk[d].tmp \cup storeDisk[d].com : f.torn
        BY <3>1 DEF Parses
      <4>2. f \in storeDisk[d].tmp
        BY <1>1, <4>1 DEF FaultInv, WholeMarkers
      <4> QED BY <4>1, <4>2 DEF FaultInv, TornByFault
    <3> QED BY <2>2, <3>1
  <2> QED BY <2>1, <2>2 DEF PurgeRename
<1> QED BY <1>1, <1>2, <1>3, DocumentsEmptied

\* Half a rollback copy is found only while the live profiles are version 1.
LEMMA HalfCopyIsOld ==
  ASSUME ScopeInv, MigInv, storePhase = "recover", todo = {}, HalfRollback
  PROVE  live_profiles_are_valid_v1
<1>1. "profiles" \in StoreDocs /\ CopyDocs = {"rollback", "rmeta"}
  BY DocNames DEF CopyDocs
<1>2. CASE bornV1
  <2>1. acked["profiles"] # 0 /\ body[1] = V1 /\ ~NewProfiles
    BY <1>2 DEF MigInv, Migrated, Copied, HalfRollback, Exists
  <2>2. storeDisk["profiles"].base # 0
    BY <1>1, <2>1 DEF ScopeInv, Survives, Away, AtWork
  <2>3. storeDisk["profiles"].base = 1
    BY <2>1, <2>2 DEF NewProfiles, Files
  <2>4. V1.v = 1
    BY DEF V1, Profiles
  <2> QED BY <2>1, <2>3, <2>4 DEF live_profiles_are_valid_v1, Exists, Read
<1>3. CASE ~bornV1
  <2>1. storeDisk["rollback"].base = 0 /\ storeDisk["rmeta"].base = 0
    BY <1>1, <1>3 DEF MigInv, Unborn
  <2> QED BY <2>1 DEF HalfRollback, Exists
<1> QED BY <1>2, <1>3

LEMMA OpenErrorLeaves ==
  ASSUME ScopeInv, MigInv, FaultInv, OpenError
  PROVE  FaultInv'
<1>1. /\ storePhase = "recover" /\ storePhase' = "stuck"
      /\ UNCHANGED <<storeDisk, body, tomb, work, faultAt, storeFaults>>
  BY DEF OpenError, Recovering, bounds
<1>2. work = Idle
  BY <1>1 DEF ScopeInv, AtWork
<1>3. NextTxn' = NextTxn /\ NextTxn \in Nat /\ faultAt \in Nat
  BY <1>1, BodyStays, FilesOfDocument, DocNames DEF ScopeInv, ScopeTypes
<1>4. Faults' /\ (NoneSince' <=> NoneSince)
  BY <1>1, <1>3 DEF FaultInv, Faults, NoneSince
<1>5. TornByFault' /\ WholeMarkers'
  BY <1>1 DEF FaultInv, TornByFault, WholeMarkers
<1>6. LeftBehind'
  BY <1>1, <1>2, <1>4 DEF FaultInv, LeftBehind
<1>7. OneFaultRecovers'
  <2>1. ASSUME NEW d \in todo, Verdict(storeDisk[d]) = "error"
        PROVE  (\E c \in storeDisk[d].com : c.torn) \/ (faultAt # 0 /\ NextTxn > faultAt + 1)
    <3>1. d \in StoreDocs /\ storeDisk[d] \in DiskOf
      BY DEF ScopeInv, ScopeTypes
    <3>2. CASE NoneSince
      <4>1. Recoverable(storeDisk[d])
        BY <1>2, <3>1, <3>2 DEF FaultInv, LeftBehind
      <4> QED BY <2>1, <3>1, <4>1, RecoverableHasVerdict
    <3>3. CASE ~NoneSince
      BY <1>3, <3>3 DEF NoneSince, FaultInv, Faults
    <3> QED BY <3>2, <3>3
  <2>2. ASSUME todo = {}, ~ScopeOpens PROVE faultAt # 0 /\ tomb = "torn"
    <3>1. tomb = "torn"
      BY <1>1, <2>2, HalfCopyIsOld DEF ScopeOpens
    <3> QED BY <3>1 DEF FaultInv, TornByFault
  <2>3. \/ \E d \in todo : Verdict(storeDisk[d]) = "error"
        \/ todo = {} /\ ~ScopeOpens
    BY DEF OpenError
  <2>4. todo \subseteq StoreDocs
    BY DEF ScopeInv, ScopeTypes
  <2> QED BY <1>1, <1>3, <2>1, <2>2, <2>3, <2>4 DEF OneFaultRecovers
<1> QED BY <1>4, <1>5, <1>6, <1>7 DEF FaultInv

\* What calls the store, and what does not touch a document.
LEMMA DocumentsUntouched ==
  ASSUME FaultInv, UNCHANGED <<storeDisk, body, work, storePhase, faultAt, storeFaults>>,
         tomb' = tomb \/ (tomb' = "none" /\ storePhase = "open")
  PROVE  FaultInv'
<1>1. NextTxn' = NextTxn
  BY BodyStays
<1>2. Faults' /\ (NoneSince' <=> NoneSince)
  BY <1>1 DEF FaultInv, Faults, NoneSince
<1>3. TornByFault' /\ WholeMarkers'
  BY DEF FaultInv, TornByFault, WholeMarkers
<1>4. LeftBehind'
  BY <1>2 DEF FaultInv, LeftBehind
<1>5. OneFaultRecovers'
  BY <1>1 DEF FaultInv, OneFaultRecovers
<1> QED BY <1>2, <1>3, <1>4, <1>5 DEF FaultInv

LEMMA CallsLeave ==
  ASSUME FaultInv, NEW ps, Begin(ps)
  PROVE  FaultInv'
BY DocumentsUntouched DEF Begin, bounds

LEMMA FaultInitial ==
  ASSUME StoreInit
  PROVE  FaultInv
<1>1. work = Idle /\ storePhase = "open" /\ tomb = "none" /\ faultAt = 0 /\ storeFaults = 0
  BY DEF StoreInit
<1>2. NextTxn \in Nat \ {0}
  BY ScopeInitial, FilesOfDocument, DocNames DEF ScopeInv
<1>3. \A d \in StoreDocs : storeDisk[d].tmp = {} /\ storeDisk[d].com = {} /\ storeDisk[d].bak = {}
  <2>1. \A d \in StoreDocs : storeDisk[d] \in {Empty, [Empty EXCEPT !.base = 1]}
    BY DEF StoreInit
  <2> QED BY <2>1 DEF Empty
<1>4. \A d \in StoreDocs : Clean(storeDisk[d]) /\ Recoverable(storeDisk[d])
  BY <1>3 DEF Clean, HasArtifacts, Recoverable
<1>5. Faults
  BY <1>1, <1>2 DEF Faults
<1>6. TornByFault /\ WholeMarkers /\ OneFaultRecovers
  BY <1>1, <1>3 DEF TornByFault, WholeMarkers, OneFaultRecovers
<1>7. LeftBehind
  BY <1>1, <1>4 DEF LeftBehind
<1> QED BY <1>5, <1>6, <1>7 DEF FaultInv

LEMMA FaultStep ==
  ASSUME MaxStoreFault \in {0, 1}, ScopeInv, MigInv, FaultInv, [StoreNext]_svars
  PROVE  FaultInv'
<1>1. CASE StoreStage \/ StageError
  BY <1>1, StagingLeaves
<1>2. CASE work # Idle /\ (Mark \/ Backup \/ StoreCommits \/ DropBackup)
  BY <1>2, StepLeaves
<1>3. CASE IoError
  BY <1>3, ErrorLeaves
<1>4. CASE (work # Idle /\ Unmark) \/ restore_v1_after_migration_failure
  BY <1>4, FinishLeaves DEF restore_v1_after_migration_failure
<1>5. CASE Crash
  BY <1>5, CrashLeaves
<1>6. CASE \E d \in StoreDocs : RecoverDoc(d) \/ RecoverCrash(d)
  BY <1>6, RecoveryLeaves
<1>7. CASE OpenDone
  BY <1>7, OpenDoneLeaves
<1>8. CASE OpenError
  BY <1>8, OpenErrorLeaves
<1>9. CASE load_scope_config \/ replace_config \/ purge_if_deleted \/ \E k \in BOOLEAN : reconcile_known_scope(k)
  BY <1>9, CallsLeave DEF load_scope_config, replace_config, purge_if_deleted, reconcile_known_scope
<1>10. CASE (\E h \in Endpoints : replace_trust(h) \/ repair_remove_endpoint(h)) \/ repair_restore_backup
  BY <1>10, CallsLeave DEF replace_trust, repair_remove_endpoint, repair_restore_backup
<1>11. CASE load_or_create_desktop_instance
  BY <1>11, IdentityLeaves
<1>12. CASE OpenScope \/ Lease \/ NextDay \/ PurgeDelete \/ UNCHANGED svars
  BY <1>12, DocumentsUntouched DEF OpenScope, Lease, NextDay, PurgeDelete, Ready, bounds, svars
<1>13. CASE PurgeRename
  BY <1>13, PurgeLeaves
<1> QED BY <1>1, <1>2, <1>3, <1>4, <1>5, <1>6, <1>7, <1>8, <1>9, <1>10, <1>11, <1>12, <1>13 DEF StoreNext

\* With at most one I/O error, and however many crashes, the store keeps its whole promise: it
\* opens again unless a crash tore a marker, the error was followed by more replacements, or
\* what it tore is in a purged scope.
THEOREM OneErrorRecovers == MaxStoreFault \in {0, 1} => (ScopeStoreSpec => []StoreSurvives)
<1> SUFFICES ASSUME MaxStoreFault \in {0, 1} PROVE ScopeStoreSpec => []StoreSurvives
  OBVIOUS
<1>1. StoreInit => ScopeInv /\ MigInv /\ FaultInv
  BY ScopeInitial, MigInitial, FaultInitial
<1>2. ScopeInv /\ MigInv /\ FaultInv /\ [StoreNext]_svars => ScopeInv' /\ MigInv' /\ FaultInv'
  BY ScopeStep, MigStep, FaultStep
<1>3. ScopeInv /\ MigInv /\ FaultInv => StoreSurvives
  <2> SUFFICES ASSUME ScopeInv, MigInv, FaultInv PROVE StoreSurvives
    OBVIOUS
  <2>1. RollbackCopyKept
    BY DEF MigInv, Migrated, NewProfiles, Files, Copied, RollbackCopyKept
  <2> QED BY <2>1, AckedOnDisk, FilesHaveNumbers DEF FaultInv, StoreSurvives
<1> QED BY <1>1, <1>2, <1>3, PTL DEF ScopeStoreSpec

-----------------------------------------------------------------------------
(* Terminal links: a link and the rows of this server life.                *)

\* An observation of a terminal, as the channel carries it.
Observation == [kind : ObsKinds, inc : 0..MaxInc]

\* The kinds that say a terminal lives.
Births == {"created", "restarted"}

\* What was observed and is still on its way to the links.
Pending(o) ==
    \/ o # NoObs /\ (o = gateObs \/ o = supObs)
    \/ \E n \in 1..Len(obsQueue) : obsQueue[n] = o

\* Every variable has its type; what LinkTypeOK says of the channel's length
\* is joined by what it holds.
LinkTypes ==
    /\ LinkTypeOK
    /\ link \in [Works -> Row \cup {NoLink}]
    /\ linkCall \in [Works -> [op : {"link", "unlink"}, row : Row] \cup {NoCall}]
    /\ obsQueue \in Seq(Observation)
    /\ listed \in 0..MaxInc /\ floor \in 0..MaxInc /\ crashes \in Nat
    /\ skewed \in BOOLEAN

\* A terminal that is held is the last one handed out, in this life.
TermIsLast ==
    /\ floor <= topInc
    /\ IF term.life = "gone" THEN term.inc = 0
       ELSE term.inc = topInc /\ floor < topInc

\* No row is of an incarnation that was not handed out, and a request to link
\* read the terminal in this life.
RowsBehind ==
    \A w \in Works :
        /\ link[w].inc <= topInc /\ linkCall[w].row.inc <= topInc
        /\ linkCall[w].op = "link" => linkCall[w].row.inc > floor

\* An observation on its way is of this life; one without an incarnation
\* says the terminal was removed; none says of a live terminal that it ended.
ObsSound ==
    \A o \in Observation : Pending(o) =>
        /\ o.inc <= topInc
        /\ o.inc = 0 => skewed /\ o.kind = "removed"
        /\ o.inc # 0 => o.inc > floor
        /\ term.life = "live" /\ o.inc = term.inc => o.kind \in Births

\* Between the startup listing and the reconciliation the listing is right,
\* unless the run is skewed.
ListingHolds ==
    boot = "listed" =>
        /\ listed # 0 => floor < listed /\ listed <= topInc
        /\ ~skewed => listed = (IF term.life = "live" THEN term.inc ELSE 0)

\* A link to a live terminal says so or will be told.
LinkedOrTold ==
    boot = "up" /\ ~skewed /\ term.life = "live" =>
        \/ \A w \in Works : link[w] \in {NoLink, [state |-> "attached", inc |-> term.inc]}
        \/ \E o \in Observation : Pending(o) /\ o.inc = term.inc

LinkInv ==
    /\ LinkTypes /\ TermIsLast /\ RowsBehind /\ ObsSound /\ ListingHolds
    /\ LiveShownAttached /\ ActiveIsOfThisLife /\ LinkedOrTold

\* The observations a queue holds are observations; the channel takes one more
\* at its end, or loses it and the run is skewed.
LEMMA RecordFacts ==
    ASSUME NEW o \in Observation, obsQueue \in Seq(Observation), Len(obsQueue) <= ObsCap,
           skewed \in BOOLEAN, Record(o)
    PROVE  /\ obsQueue' \in Seq(Observation) /\ Len(obsQueue') <= ObsCap
           /\ skewed' \in BOOLEAN /\ (skewed => skewed')
           /\ \A n \in 1..Len(obsQueue') :
                 obsQueue'[n] = o \/ \E m \in 1..Len(obsQueue) : obsQueue[m] = obsQueue'[n]
           /\ ~skewed' => /\ \A m \in 1..Len(obsQueue) : \E n \in 1..Len(obsQueue') :
                                obsQueue'[n] = obsQueue[m]
                          /\ \E n \in 1..Len(obsQueue') : obsQueue'[n] = o
<1>1. CASE Len(obsQueue) < ObsCap
  <2>1. obsQueue' = Append(obsQueue, o) /\ skewed' = skewed
    BY <1>1 DEF Record
  <2>2. /\ Len(obsQueue') = Len(obsQueue) + 1
        /\ \A m \in 1..Len(obsQueue) : obsQueue'[m] = obsQueue[m]
        /\ obsQueue'[Len(obsQueue) + 1] = o
    BY <2>1
  <2>3. /\ obsQueue' \in Seq(Observation) /\ Len(obsQueue') <= ObsCap
        /\ \A m \in 1..Len(obsQueue) : m \in 1..Len(obsQueue')
        /\ \A n \in 1..Len(obsQueue') : n \in 1..Len(obsQueue) \/ n = Len(obsQueue) + 1
        /\ Len(obsQueue) + 1 \in 1..Len(obsQueue')
    BY <1>1, <2>1, <2>2, LinkBounds
  <2> QED BY <2>1, <2>2, <2>3
<1>2. CASE ~ (Len(obsQueue) < ObsCap)
  BY <1>2 DEF Record
<1> QED BY <1>1, <1>2

\* Initially no terminal lives and nothing is linked.
LEMMA LinkStart == WLInit => LinkInv
<1> SUFFICES ASSUME WLInit PROVE LinkInv
  OBVIOUS
<1> USE LinkBounds DEF WLInit
<1>0. obsQueue \in Seq(Observation) /\ Len(obsQueue) = 0
  OBVIOUS
<1>1. LinkTypes
  <2>1. LinkTypeOK
    BY <1>0 DEF LinkTypeOK, NoObs, NoLink, NoCall, Lives, Row
  <2>2. link \in [Works -> Row \cup {NoLink}]
    OBVIOUS
  <2>3. linkCall \in [Works -> [op : {"link", "unlink"}, row : Row] \cup {NoCall}]
    OBVIOUS
  <2>4. listed \in 0..MaxInc /\ floor \in 0..MaxInc /\ crashes \in Nat
    OBVIOUS
  <2>5. skewed \in BOOLEAN
    BY Zenon
  <2> QED BY <1>0, <2>1, <2>2, <2>3, <2>4, <2>5 DEF LinkTypes
<1>2. TermIsLast /\ RowsBehind /\ ListingHolds
  BY DEF TermIsLast, RowsBehind, ListingHolds, NoLink, NoCall
<1>3. ObsSound BY DEF ObsSound, Pending
<1>4. LiveShownAttached /\ ActiveIsOfThisLife /\ LinkedOrTold
  BY DEF LiveShownAttached, ActiveIsOfThisLife, LinkedOrTold, NoLink
<1> QED BY <1>1, <1>2, <1>3, <1>4 DEF LinkInv

\* What the manager's calls and tasks do to the terminal keeps the invariant.
LEMMA TerminalSteps ==
    ASSUME LinkInv,
           CreateTerminal \/ RemoveTerminal \/ Respawn \/ RespawnFails
    PROVE  LinkInv'
<1> USE LinkBounds DEF LinkInv
<1>1. CASE CreateTerminal
  <2> USE <1>1 DEF CreateTerminal, GateFree, Obs, linkVars, bootVars
  <2>1. LinkTypes'
    BY DEF LinkTypes, LinkTypeOK, Observation, ObsKinds, Lives, NoObs
  <2>2. TermIsLast' BY DEF LinkTypes, LinkTypeOK, TermIsLast
  <2>3. RowsBehind' BY DEF LinkTypes, LinkTypeOK, RowsBehind, Row, NoLink, NoCall
  <2>4. ObsSound' BY DEF LinkTypes, LinkTypeOK, ObsSound, Pending, Observation, TermIsLast, Births
  <2>5. ListingHolds' BY DEF ListingHolds
  <2>6. LiveShownAttached' BY DEF LiveShownAttached, RowsBehind, LinkTypes, LinkTypeOK, Row, NoLink
  <2>7. ActiveIsOfThisLife' BY DEF ActiveIsOfThisLife
  <2>8. LinkedOrTold' BY DEF LinkedOrTold, Pending, LinkTypes, LinkTypeOK, Observation, ObsKinds, NoObs
  <2> QED BY <2>1, <2>2, <2>3, <2>4, <2>5, <2>6, <2>7, <2>8
<1>2. CASE RemoveTerminal
  <2> USE <1>2 DEF RemoveTerminal, GateFree, Obs, linkVars
  <2>0. skewed \in BOOLEAN /\ skewed' \in BOOLEAN /\ (skewed => skewed')
        /\ term.life = "gone" => skewed'
    BY DEF LinkTypes
  <2>1. LinkTypes'
    BY DEF LinkTypes, LinkTypeOK, Observation, ObsKinds, Lives, NoObs
  <2>2. TermIsLast' BY DEF LinkTypes, LinkTypeOK, TermIsLast
  <2>3. RowsBehind' BY DEF RowsBehind
  <2>4. ObsSound'
    <3> SUFFICES ASSUME NEW o \in Observation, Pending(o)'
                 PROVE  /\ o.inc <= topInc
                        /\ o.inc = 0 => skewed' /\ o.kind = "removed"
                        /\ o.inc # 0 => o.inc > floor
      BY DEF ObsSound
    <3>1. CASE Pending(o)
      BY <3>1, <2>0 DEF ObsSound
    <3>2. CASE o = Obs("removed", term.inc)
      BY <3>2, <2>0 DEF LinkTypes, LinkTypeOK, Observation, TermIsLast
    <3> QED BY <3>1, <3>2 DEF Pending
  <2>5. ListingHolds' BY DEF ListingHolds
  <2>6. LiveShownAttached' BY DEF LiveShownAttached
  <2>7. ActiveIsOfThisLife' BY DEF ActiveIsOfThisLife
  <2>8. LinkedOrTold' BY DEF LinkedOrTold
  <2> QED BY <2>1, <2>2, <2>3, <2>4, <2>5, <2>6, <2>7, <2>8
<1>3. CASE Respawn
  <2> USE <1>3 DEF Respawn, GateFree, Obs, linkVars, StaleListing
  <2>0. skewed \in BOOLEAN /\ skewed' \in BOOLEAN /\ (skewed => skewed')
        /\ boot = "listed" => skewed'
    BY DEF LinkTypes
  <2>1. LinkTypes'
    BY DEF LinkTypes, LinkTypeOK, Observation, ObsKinds, Lives, NoObs
  <2>2. TermIsLast' BY DEF LinkTypes, LinkTypeOK, TermIsLast
  <2>3. RowsBehind' BY DEF LinkTypes, LinkTypeOK, RowsBehind, Row, NoLink, NoCall
  <2>4. ObsSound'
    <3> SUFFICES ASSUME NEW o \in Observation, Pending(o)'
                 PROVE  /\ o.inc <= topInc'
                        /\ o.inc = 0 => skewed' /\ o.kind = "removed"
                        /\ o.inc # 0 => o.inc > floor'
                        /\ term'.life = "live" /\ o.inc = term'.inc => o.kind \in Births
      BY DEF ObsSound
    <3>1. CASE Pending(o)
      BY <3>1, <2>0 DEF ObsSound, LinkTypes, LinkTypeOK, Observation, TermIsLast
    <3>2. CASE o = Obs("restarted", topInc + 1)
      BY <3>2, <2>0 DEF LinkTypes, LinkTypeOK, Observation, TermIsLast, Births
    <3> QED BY <3>1, <3>2 DEF Pending
  <2>5. ListingHolds' BY <2>0 DEF ListingHolds, LinkTypes, LinkTypeOK
  <2>6. LiveShownAttached' BY DEF LiveShownAttached, RowsBehind, LinkTypes, LinkTypeOK, Row, NoLink
  <2>7. ActiveIsOfThisLife' BY DEF ActiveIsOfThisLife
  <2>8. LinkedOrTold'
    <3>1. supObs' \in Observation /\ supObs' # NoObs /\ supObs'.inc = term'.inc
      BY DEF LinkTypes, LinkTypeOK, Observation, ObsKinds, NoObs
    <3> QED BY <3>1 DEF LinkedOrTold, Pending
  <2> QED BY <2>1, <2>2, <2>3, <2>4, <2>5, <2>6, <2>7, <2>8
<1>4. CASE RespawnFails
  <2> USE <1>4 DEF RespawnFails, Obs, linkVars, bootVars
  <2>1. LinkTypes'
    BY DEF LinkTypes, LinkTypeOK, Observation, ObsKinds, Lives, NoObs, TermIsLast
  <2>2. TermIsLast' BY DEF LinkTypes, LinkTypeOK, TermIsLast
  <2>3. RowsBehind' BY DEF LinkTypes, LinkTypeOK, RowsBehind, Row, NoLink, NoCall
  <2>4. ObsSound' BY DEF LinkTypes, LinkTypeOK, ObsSound, Pending, Observation, TermIsLast, Births
  <2>5. ListingHolds' BY DEF ListingHolds, LinkTypes, LinkTypeOK
  <2>6. LiveShownAttached' BY DEF LiveShownAttached, LinkTypes, LinkTypeOK
  <2>7. ActiveIsOfThisLife' BY DEF ActiveIsOfThisLife
  <2>8. LinkedOrTold' BY DEF LinkedOrTold, LinkTypes, LinkTypeOK
  <2> QED BY <2>1, <2>2, <2>3, <2>4, <2>5, <2>6, <2>7, <2>8
<1> QED BY <1>1, <1>2, <1>3, <1>4

\* Recording an observation keeps the invariant: what is recorded was already
\* pending, or is the end of the live terminal, which dies with it.
LEMMA RecordSteps ==
    ASSUME LinkInv,
           RecordGate \/ RecordSupervisor \/ \E k \in {"pending", "clean", "crash"} : ReaderExit(k)
    PROVE  LinkInv'
<1> USE LinkBounds DEF LinkInv
<1>0. /\ obsQueue \in Seq(Observation) /\ Len(obsQueue) <= ObsCap /\ skewed \in BOOLEAN
      /\ \A n \in 1..Len(obsQueue) : obsQueue[n] \in Observation
  BY DEF LinkTypes, LinkTypeOK
<1>1. ASSUME NEW o \in Observation, Record(o), Pending(o), UNCHANGED <<term, topInc, linkVars, boot, listed, floor, crashes>>,
             \/ o = gateObs /\ gateObs' = NoObs /\ supObs' = supObs
             \/ o = supObs /\ supObs' = NoObs /\ gateObs' = gateObs
      PROVE  LinkInv'
  <2> USE <1>1 DEF linkVars
  <2>0. /\ obsQueue' \in Seq(Observation) /\ Len(obsQueue') <= ObsCap
        /\ skewed' \in BOOLEAN /\ (skewed => skewed')
        /\ \A n \in 1..Len(obsQueue') :
              obsQueue'[n] = o \/ \E m \in 1..Len(obsQueue) : obsQueue[m] = obsQueue'[n]
        /\ ~skewed' => /\ \A m \in 1..Len(obsQueue) : \E n \in 1..Len(obsQueue') :
                             obsQueue'[n] = obsQueue[m]
                       /\ \E n \in 1..Len(obsQueue') : obsQueue'[n] = o
    BY <1>0, RecordFacts
  <2>1. LinkTypes' BY <2>0 DEF LinkTypes, LinkTypeOK
  <2>2. TermIsLast' BY DEF TermIsLast
  <2>3. RowsBehind' BY DEF RowsBehind
  <2>4. \A p \in Observation : Pending(p)' => Pending(p)
    BY <2>0 DEF Pending
  <2>5. ~skewed' => \A p \in Observation : Pending(p) => Pending(p)'
    BY <2>0 DEF Pending
  <2>6. ObsSound' BY <2>4, <2>0 DEF ObsSound
  <2>7. ListingHolds' BY <2>0 DEF ListingHolds
  <2>8. LiveShownAttached' BY <2>0 DEF LiveShownAttached
  <2>9. ActiveIsOfThisLife' BY DEF ActiveIsOfThisLife
  <2>10. LinkedOrTold' BY <2>5, <2>0 DEF LinkedOrTold
  <2> QED BY <2>1, <2>2, <2>3, <2>6, <2>7, <2>8, <2>9, <2>10
<1>2. CASE RecordGate
  <2>1. gateObs \in Observation /\ gateObs # NoObs
    BY <1>2 DEF RecordGate, LinkTypes, LinkTypeOK, Observation
  <2> QED BY <1>1, <1>2, <2>1 DEF RecordGate, Pending
<1>3. CASE RecordSupervisor
  <2>1. supObs \in Observation /\ supObs # NoObs
    BY <1>3 DEF RecordSupervisor, LinkTypes, LinkTypeOK, Observation
  <2> QED BY <1>1, <1>3, <2>1 DEF RecordSupervisor, Pending
<1>4. ASSUME NEW k \in {"pending", "clean", "crash"}, ReaderExit(k) PROVE LinkInv'
  <2> USE <1>4 DEF linkVars
  <2> DEFINE o == Obs(k, term.inc)
  <2>1. /\ o \in Observation /\ o.inc = topInc /\ o.inc # 0 /\ floor < topInc
        /\ term.life = "live" /\ term'.inc = term.inc
        /\ term'.life \in Lives \ {"gone", "live"}
        /\ term' \in [life : Lives, inc : 0..MaxInc]
        /\ UNCHANGED <<topInc, gateObs, supObs, link, linkCall, boot, listed, floor, crashes>>
    BY DEF ReaderExit, LinkTypes, LinkTypeOK, TermIsLast, Obs, Observation, ObsKinds, Lives
  <2>2. /\ obsQueue' \in Seq(Observation) /\ Len(obsQueue') <= ObsCap
        /\ skewed' \in BOOLEAN /\ (skewed => skewed') /\ (boot = "listed" => skewed')
        /\ \A n \in 1..Len(obsQueue') :
              obsQueue'[n] = o \/ \E m \in 1..Len(obsQueue) : obsQueue[m] = obsQueue'[n]
    <3> HIDE DEF o
    <3>1. CASE Len(obsQueue) < ObsCap
      <4>1. obsQueue' = Append(obsQueue, o) /\ skewed' = (skewed \/ boot = "listed")
        BY <3>1 DEF ReaderExit, o, StaleListing
      <4>2. /\ \A m \in 1..Len(obsQueue) : obsQueue'[m] = obsQueue[m]
            /\ obsQueue'[Len(obsQueue) + 1] = o /\ Len(obsQueue') = Len(obsQueue) + 1
            /\ obsQueue' \in Seq(Observation)
        BY <4>1, <1>0, <2>1
      <4>3. \A n \in 1..Len(obsQueue') : n \in 1..Len(obsQueue) \/ n = Len(obsQueue) + 1
        BY <4>2, <1>0
      <4>4. skewed' \in BOOLEAN /\ (skewed => skewed') /\ (boot = "listed" => skewed')
        BY <4>1, <1>0
      <4>5. \A m \in 1..Len(obsQueue) : obsQueue[m] = obsQueue'[m]
        BY <4>2
      <4>6. Len(obsQueue') <= ObsCap
        BY <4>2, <1>0, <3>1
      <4> QED BY <4>2, <4>3, <4>4, <4>5, <4>6
    <3>2. CASE ~ (Len(obsQueue) < ObsCap)
      BY <3>2, <1>0 DEF ReaderExit
    <3> QED BY <3>1, <3>2
  <2> HIDE DEF o
  <2>3. LinkTypes' BY <2>1, <2>2 DEF LinkTypes, LinkTypeOK
  <2>4. TermIsLast' BY <2>1 DEF TermIsLast
  <2>5. RowsBehind' BY <2>1 DEF RowsBehind
  <2>6. \A p \in Observation : Pending(p)' => Pending(p) \/ p = o
    BY <2>1, <2>2 DEF Pending
  <2>7. ObsSound' BY <2>1, <2>2, <2>6 DEF ObsSound, LinkTypes, LinkTypeOK
  <2>8. ListingHolds' BY <2>1, <2>2 DEF ListingHolds
  <2>9. LiveShownAttached' /\ ActiveIsOfThisLife' /\ LinkedOrTold'
    BY <2>1, <2>2 DEF LiveShownAttached, ActiveIsOfThisLife, LinkedOrTold
  <2> QED BY <2>3, <2>4, <2>5, <2>7, <2>8, <2>9
<1> QED BY <1>2, <1>3, <1>4

\* What an observation that is sound makes of a row: it is left alone, or takes
\* the observation's incarnation and a state of the table.
LEMMA ObservedFacts ==
    ASSUME NEW o \in Observation, NEW l \in Row
    PROVE  /\ Observed(o, l) \in Row /\ Observed(o, l) # NoLink
           /\ Observed(o, l).inc = IF o.inc = 0 THEN l.inc ELSE o.inc
           /\ o.kind \in Births => Observed(o, l).state = "attached"
           /\ Observed(o, l).state \in {"attached", "stale"} => o.kind # "removed"
BY DEF Observed, Observation, ObsKinds, Row, LinkStates, NoLink, Births

\* The worker applies the observation at the head of the channel, or a store
\* error loses it.
LEMMA WorkSteps ==
    ASSUME LinkInv, Work \/ WorkFails
    PROVE  LinkInv'
<1> USE LinkBounds DEF LinkInv
<1>0. /\ obsQueue \in Seq(Observation) /\ Len(obsQueue) \in Nat /\ Len(obsQueue) # 0
      /\ skewed \in BOOLEAN /\ obsQueue' = Tail(obsQueue) /\ Len(obsQueue) <= ObsCap
      /\ UNCHANGED <<termVars, linkCall, boot, listed, floor, crashes>>
  BY DEF LinkTypes, LinkTypeOK, Work, WorkFails, linkVars, bootVars
<1>1. PICK o \in Observation : o = Head(obsQueue) /\ o = obsQueue[1] /\ Pending(o)
  BY <1>0 DEF Pending
<1>2. /\ Len(obsQueue') = Len(obsQueue) - 1 /\ obsQueue' \in Seq(Observation)
      /\ \A n \in 1..Len(obsQueue') : obsQueue'[n] = obsQueue[n + 1] /\ n + 1 \in 1..Len(obsQueue)
      /\ \A n \in 1..Len(obsQueue) : n = 1 \/ (n - 1 \in 1..Len(obsQueue') /\ obsQueue'[n - 1] = obsQueue[n])
  BY <1>0
<1>3. \A p \in Observation : Pending(p)' => Pending(p)
  BY <1>0, <1>2 DEF Pending, termVars
<1>4. \A p \in Observation : Pending(p) => Pending(p)' \/ p = o
  BY <1>0, <1>1, <1>2 DEF Pending, termVars
<1>5. TermIsLast' BY <1>0 DEF TermIsLast, termVars
<1>6. CASE WorkFails
  <2>1. link' = link /\ skewed' = TRUE BY <1>6 DEF WorkFails, linkVars
  <2>2. LinkTypes' BY <1>0, <1>2, <2>1 DEF LinkTypes, LinkTypeOK, termVars
  <2>3. RowsBehind' BY <1>0, <2>1 DEF RowsBehind, termVars
  <2>4. ObsSound' BY <1>0, <1>3, <2>1 DEF ObsSound, termVars
  <2>5. ListingHolds' /\ LiveShownAttached' /\ ActiveIsOfThisLife' /\ LinkedOrTold'
    BY <1>0, <2>1 DEF ListingHolds, LiveShownAttached, ActiveIsOfThisLife, LinkedOrTold, termVars
  <2> QED BY <1>5, <2>2, <2>3, <2>4, <2>5
<1>7. CASE Work
  <2>0. /\ o.inc \in 0..MaxInc /\ o.inc <= topInc /\ (o.inc = 0 => skewed /\ o.kind = "removed")
        /\ (o.inc # 0 => o.inc > floor) /\ topInc \in 0..MaxInc
        /\ (term.life = "live" /\ o.inc = term.inc => o.kind \in Births)
        /\ skewed' = skewed /\ term \in [life : Lives, inc : 0..MaxInc]
    BY <1>7, <1>1 DEF ObsSound, Observation, LinkTypes, LinkTypeOK, Work, bootVars
  <2>1. \A w \in Works : link'[w] = IF link[w] = NoLink \/ TooOld(o, link[w]) THEN link[w] ELSE Observed(o, link[w])
    BY <1>7, <1>1 DEF Work, process_observation
  <2>2. \A w \in Works : link[w] # NoLink => link[w] \in Row
    BY DEF LinkTypes
  <2>3. \A w \in Works :
          \/ link'[w] = link[w] /\ (link[w] = NoLink \/ TooOld(o, link[w]))
          \/ /\ link[w] \in Row /\ ~ TooOld(o, link[w]) /\ link'[w] \in Row /\ link'[w] # NoLink
             /\ link'[w].inc = IF o.inc = 0 THEN link[w].inc ELSE o.inc
             /\ o.kind \in Births => link'[w].state = "attached"
             /\ link'[w].state \in {"attached", "stale"} => o.kind # "removed"
    BY <2>1, <2>2, ObservedFacts
  <2>4. LinkTypes'
    <3>1. link' \in [Works -> Row \cup {NoLink}]
      <4>1. link' = [w \in Works |-> link'[w]]
        BY <1>7 DEF Work, process_observation
      <4>2. \A w \in Works : link'[w] \in Row \cup {NoLink}
        BY <2>3 DEF LinkTypes
      <4> QED BY <4>1, <4>2
    <3> QED BY <1>0, <1>2, <2>0, <3>1 DEF LinkTypes, LinkTypeOK, termVars
  <2>5. RowsBehind'
    BY <1>0, <2>0, <2>3 DEF RowsBehind, termVars
  <2>6. ObsSound' BY <1>0, <1>3, <2>0 DEF ObsSound, termVars
  <2>7. ListingHolds' BY <1>0, <2>0 DEF ListingHolds, termVars
  <2>8. LiveShownAttached'
    BY <1>0, <2>0, <2>3 DEF LiveShownAttached, termVars
  <2>9. ActiveIsOfThisLife'
    BY <1>0, <2>0, <2>3 DEF ActiveIsOfThisLife, termVars
  <2>10. LinkedOrTold'
    <3> SUFFICES ASSUME boot = "up", ~skewed, term.life = "live",
                        \A p \in Observation : ~ (Pending(p)' /\ p.inc = term.inc)
                 PROVE  \A w \in Works : link'[w] \in {NoLink, [state |-> "attached", inc |-> term.inc]}
      BY <1>0, <2>0 DEF LinkedOrTold, termVars
    <3>1. \A w \in Works : link[w] \in Row => link[w].inc \in 1..MaxInc /\ link[w].inc <= term.inc /\ term.inc = topInc
      BY DEF RowsBehind, TermIsLast, Row
    <3>2. \A l \in Row : l.state = "attached" /\ l.inc = term.inc => l = [state |-> "attached", inc |-> term.inc]
      BY DEF Row
    <3>3. CASE o.inc = term.inc
      <4>1. o.kind \in Births /\ o.inc # 0 BY <3>3, <2>0
      <4>2. \A w \in Works : link[w] \in Row => ~TooOld(o, link[w])
        BY <3>1, <3>3, <2>0 DEF TooOld
      <4> QED BY <4>1, <4>2, <2>2, <2>3, <3>2, <3>3
    <3>4. CASE o.inc # term.inc
      <4>1. \A p \in Observation : ~ (Pending(p) /\ p.inc = term.inc)
        BY <3>4, <1>4
      <4>2. \A w \in Works : link[w] \in {NoLink, [state |-> "attached", inc |-> term.inc]}
        BY <4>1 DEF LinkedOrTold
      <4>3. o.inc # 0 /\ o.inc < term.inc
        BY <3>4, <2>0 DEF TermIsLast
      <4>4. \A w \in Works : link[w] \in Row => TooOld(o, link[w])
        BY <4>2, <4>3, <2>0 DEF TooOld, Row, NoLink
      <4> QED BY <4>2, <4>4, <2>3
    <3> QED BY <3>3, <3>4
  <2> QED BY <1>5, <2>4, <2>5, <2>6, <2>7, <2>8, <2>9, <2>10
<1> QED BY <1>6, <1>7


\* The requests: a lookup reads the terminal or the row, the write follows.
LEMMA RequestSteps ==
    ASSUME LinkInv, NEW w \in Works,
           LinkLookup(w) \/ UnlinkLookup(w) \/ link_resource(w) \/ unlink_resource(w)
    PROVE  LinkInv'
<1> USE LinkBounds DEF LinkInv
<1>0. /\ UNCHANGED <<termVars, obsQueue, boot, listed, floor, crashes>>
      /\ skewed \in BOOLEAN /\ skewed' \in BOOLEAN /\ (skewed => skewed')
  BY DEF LinkTypes, LinkLookup, UnlinkLookup, link_resource, unlink_resource, linkVars, bootVars
<1>1. TermIsLast' BY <1>0 DEF TermIsLast, termVars
<1>2. ObsSound' BY <1>0 DEF ObsSound, Pending, termVars
<1>3. ListingHolds' BY <1>0 DEF ListingHolds, termVars
<1>4. CASE LinkLookup(w)
  <2>1. /\ LookedUp \in Row /\ LookedUp.inc = topInc /\ floor < topInc
        /\ link' = link /\ skewed' = skewed
        /\ linkCall' = [linkCall EXCEPT ![w] = [op |-> "link", row |-> LookedUp]]
    BY <1>4 DEF LinkLookup, LookedUp, LinkTypes, LinkTypeOK, TermIsLast, Row, LinkStates, Lives, bootVars
  <2>2. LinkTypes' BY <1>0, <2>1 DEF LinkTypes, LinkTypeOK, termVars
  <2>3. RowsBehind' BY <1>0, <2>1 DEF RowsBehind, LinkTypes, LinkTypeOK, termVars
  <2>4. LiveShownAttached' /\ ActiveIsOfThisLife'
    BY <1>0, <2>1 DEF LiveShownAttached, ActiveIsOfThisLife, termVars
  <2>5. LinkedOrTold' BY <1>0, <2>1 DEF LinkedOrTold, Pending, termVars
  <2> QED BY <1>1, <1>2, <1>3, <2>2, <2>3, <2>4, <2>5
<1>5. CASE UnlinkLookup(w)
  <2>1. /\ link[w] \in Row /\ link' = link /\ skewed' = skewed
        /\ linkCall' = [linkCall EXCEPT ![w] = [op |-> "unlink", row |-> link[w]]]
    BY <1>5 DEF UnlinkLookup, LinkTypes, bootVars
  <2>2. LinkTypes' BY <1>0, <2>1 DEF LinkTypes, LinkTypeOK, termVars
  <2>3. RowsBehind' BY <1>0, <2>1 DEF RowsBehind, LinkTypes, LinkTypeOK, termVars
  <2>4. LiveShownAttached' /\ ActiveIsOfThisLife'
    BY <1>0, <2>1 DEF LiveShownAttached, ActiveIsOfThisLife, termVars
  <2>5. LinkedOrTold' BY <1>0, <2>1 DEF LinkedOrTold, Pending, termVars
  <2> QED BY <1>1, <1>2, <1>3, <2>2, <2>3, <2>4, <2>5
<1>6. CASE link_resource(w)
  <2> DEFINE row == linkCall[w].row
  <2>1. /\ row \in Row /\ row.inc <= topInc /\ floor < row.inc
        /\ link' = [link EXCEPT ![w] = row] /\ linkCall' = [linkCall EXCEPT ![w] = NoCall]
    BY <1>6 DEF link_resource, LinkTypes, RowsBehind, NoCall
  <2>7. row # LookedUp => skewed'
    BY <1>6, <1>0 DEF link_resource
  <2> HIDE DEF row
  <2>2. LinkTypes' BY <1>0, <2>1 DEF LinkTypes, LinkTypeOK, termVars
  <2>3. RowsBehind'
    BY <1>0, <2>1 DEF RowsBehind, LinkTypes, LinkTypeOK, termVars, NoCall, NoLink
  <2>4. LiveShownAttached'
    BY <1>0, <2>1, <2>7 DEF LiveShownAttached, LookedUp, LinkTypes, termVars
  <2>5. ActiveIsOfThisLife'
    BY <1>0, <2>1 DEF ActiveIsOfThisLife, LinkTypes, termVars
  <2>6. LinkedOrTold'
    BY <1>0, <2>1, <2>7 DEF LinkedOrTold, Pending, LookedUp, LinkTypes, termVars
  <2> QED BY <1>1, <1>2, <1>3, <2>2, <2>3, <2>4, <2>5, <2>6
<1>7. CASE unlink_resource(w)
  <2>1. /\ link' = [link EXCEPT ![w] = NoLink] /\ linkCall' = [linkCall EXCEPT ![w] = NoCall]
        /\ skewed' = skewed
    BY <1>7 DEF unlink_resource, bootVars
  <2>2. LinkTypes' BY <1>0, <2>1 DEF LinkTypes, LinkTypeOK, termVars
  <2>3. RowsBehind'
    BY <1>0, <2>1 DEF RowsBehind, LinkTypes, LinkTypeOK, termVars, NoCall, NoLink
  <2>4. LiveShownAttached' /\ ActiveIsOfThisLife'
    BY <1>0, <2>1 DEF LiveShownAttached, ActiveIsOfThisLife, LinkTypes, LinkTypeOK, TermIsLast, termVars, NoLink
  <2>5. LinkedOrTold'
    BY <1>0, <2>1 DEF LinkedOrTold, Pending, LinkTypes, termVars
  <2> QED BY <1>1, <1>2, <1>3, <2>2, <2>3, <2>4, <2>5
<1> QED BY <1>4, <1>5, <1>6, <1>7

\* The crash and the way back up to the reconciliation.
LEMMA RestartSteps ==
    ASSUME LinkInv,
           ServerCrash \/ (\E b \in BOOLEAN : RestoreTerminal(b)) \/ ListLive \/ Reconcile
    PROVE  LinkInv'
<1> USE LinkBounds DEF LinkInv
<1>1. CASE ServerCrash
  <2> USE <1>1 DEF ServerCrash
  <2>0. obsQueue' \in Seq(Observation) /\ Len(obsQueue') = 0
    OBVIOUS
  <2>1. LinkTypes' BY <2>0 DEF LinkTypes, LinkTypeOK, Lives
  <2>2. TermIsLast' BY DEF LinkTypes, LinkTypeOK, TermIsLast
  <2>3. RowsBehind' BY DEF LinkTypes, LinkTypeOK, RowsBehind, NoCall, NoLink
  <2>4. ObsSound' BY <2>0 DEF ObsSound, Pending
  <2>5. ListingHolds' /\ LiveShownAttached' /\ ActiveIsOfThisLife' /\ LinkedOrTold'
    BY DEF ListingHolds, LiveShownAttached, ActiveIsOfThisLife, LinkedOrTold
  <2> QED BY <2>1, <2>2, <2>3, <2>4, <2>5
<1>2. ASSUME NEW b \in BOOLEAN, RestoreTerminal(b) PROVE LinkInv'
  <2>0. /\ boot' = "restored" /\ UNCHANGED <<supObs, obsQueue, linkVars, listed, skewed, floor, crashes>>
        /\ \/ /\ topInc' = topInc + 1 /\ topInc < MaxInc /\ term' = [life |-> "live", inc |-> topInc + 1]
              /\ gateObs' = [kind |-> "created", inc |-> topInc + 1]
           \/ UNCHANGED <<topInc, term, gateObs>>
    BY <1>2 DEF RestoreTerminal, Obs
  <2>1. LinkTypes' BY <2>0 DEF LinkTypes, LinkTypeOK, Lives, linkVars, ObsKinds
  <2>2. TermIsLast' BY <2>0 DEF LinkTypes, LinkTypeOK, TermIsLast
  <2>3. RowsBehind' BY <2>0 DEF LinkTypes, LinkTypeOK, RowsBehind, Row, NoLink, NoCall, linkVars
  <2>4. ObsSound' BY <2>0 DEF LinkTypes, LinkTypeOK, ObsSound, Pending, Observation, TermIsLast, Births
  <2>5. ListingHolds' /\ ActiveIsOfThisLife' /\ LinkedOrTold'
    BY <2>0 DEF ListingHolds, ActiveIsOfThisLife, LinkedOrTold
  <2>6. LiveShownAttached' BY <2>0 DEF LiveShownAttached, RowsBehind, LinkTypes, LinkTypeOK, Row, NoLink, linkVars
  <2> QED BY <2>1, <2>2, <2>3, <2>4, <2>5, <2>6
<1>3. CASE ListLive
  <2> USE <1>3 DEF ListLive, termVars, linkVars
  <2>1. LinkTypes' BY DEF LinkTypes, LinkTypeOK
  <2>2. TermIsLast' BY DEF TermIsLast
  <2>3. RowsBehind' BY DEF RowsBehind
  <2>4. ObsSound' BY DEF ObsSound, Pending
  <2>5. ListingHolds' BY DEF ListingHolds, TermIsLast, LinkTypes, LinkTypeOK
  <2>6. LiveShownAttached' /\ ActiveIsOfThisLife' /\ LinkedOrTold'
    BY DEF LiveShownAttached, ActiveIsOfThisLife, LinkedOrTold
  <2> QED BY <2>1, <2>2, <2>3, <2>4, <2>5, <2>6
<1>4. CASE Reconcile
  <2> USE <1>4 DEF Reconcile, termVars
  <2>0. /\ skewed \in BOOLEAN /\ skewed' \in BOOLEAN /\ (skewed => skewed')
        /\ ~skewed' => listed = (IF term.life = "live" THEN term.inc ELSE 0)
        /\ listed # 0 => floor < listed /\ listed <= topInc
    BY DEF LinkTypes, LinkTypeOK, ListingHolds
  <2>1. /\ listed \in 0..MaxInc /\ topInc \in 0..MaxInc /\ floor \in 0..MaxInc
        /\ term \in [life : Lives, inc : 0..MaxInc]
    BY DEF LinkTypes, LinkTypeOK
  <2>2. \A w \in Works :
          \/ link[w] = NoLink /\ link'[w] = NoLink
          \/ link[w] \in Row /\ listed # 0 /\ link'[w] = [state |-> "attached", inc |-> listed]
          \/ /\ link[w] \in Row /\ listed = 0 /\ link'[w] \in Row /\ link'[w].inc = link[w].inc
             /\ link'[w].state \notin {"attached", "stale"}
    BY <2>1 DEF Reconciled, LinkTypes, Row, LinkStates, NoLink
  <2>3. LinkTypes'
    <3>1. link' \in [Works -> Row \cup {NoLink}]
      <4>1. link' = [w \in Works |-> link'[w]]
        OBVIOUS
      <4>2. \A w \in Works : link'[w] \in Row \cup {NoLink}
        BY <2>1, <2>2 DEF Row, LinkStates
      <4> QED BY <4>1, <4>2
    <3> QED BY <2>0, <3>1 DEF LinkTypes, LinkTypeOK
  <2>4. TermIsLast' BY DEF TermIsLast
  <2>5. RowsBehind' BY <2>0, <2>1, <2>2 DEF RowsBehind
  <2>6. ObsSound'
    <3>1. \A o \in Observation : Pending(o)' = Pending(o)
      BY DEF Pending
    <3> QED BY <2>0, <3>1 DEF ObsSound
  <2>7. ListingHolds' BY DEF ListingHolds
  <2>8. LiveShownAttached'
    <3> SUFFICES ASSUME NEW w \in Works, term.life = "live", link'[w].inc = term.inc, ~skewed'
                 PROVE  link'[w].state = "attached"
      BY DEF LiveShownAttached
    <3>1. listed = term.inc /\ term.inc # 0
      BY <2>0, <2>1 DEF TermIsLast
    <3> QED BY <3>1, <2>2, <2>1 DEF NoLink
  <2>9. ActiveIsOfThisLife'
    BY <2>0, <2>1, <2>2 DEF ActiveIsOfThisLife, NoLink
  <2>10. LinkedOrTold'
    <3> SUFFICES ASSUME term.life = "live", ~skewed', NEW w \in Works
                 PROVE  link'[w] \in {NoLink, [state |-> "attached", inc |-> term.inc]}
      BY DEF LinkedOrTold
    <3>1. listed = term.inc /\ term.inc # 0
      BY <2>0, <2>1 DEF TermIsLast
    <3> QED BY <3>1, <2>2
  <2> QED BY <2>3, <2>4, <2>5, <2>6, <2>7, <2>8, <2>9, <2>10
<1> QED BY <1>1, <1>2, <1>3, <1>4

\* A step that changes no variable keeps the invariant.
LEMMA RestingSteps == LinkInv /\ UNCHANGED wlVars => LinkInv'
<1> SUFFICES ASSUME LinkInv, UNCHANGED wlVars PROVE LinkInv'
  OBVIOUS
<1> USE DEF LinkInv, wlVars, termVars, linkVars, bootVars
<1>1. LinkTypes' /\ TermIsLast' /\ RowsBehind'
  BY DEF LinkTypes, LinkTypeOK, TermIsLast, RowsBehind
<1>2. ObsSound' BY DEF ObsSound, Pending
<1>3. ListingHolds' /\ LiveShownAttached' /\ ActiveIsOfThisLife'
  BY DEF ListingHolds, LiveShownAttached, ActiveIsOfThisLife
<1>4. LinkedOrTold' BY DEF LinkedOrTold, Pending
<1> QED BY <1>1, <1>2, <1>3, <1>4

\* The invariant says what LinksAreCurrent promises.
LEMMA LinksFollow == LinkInv => LinksAreCurrent
<1> SUFFICES ASSUME LinkInv PROVE LinksAreCurrent
  OBVIOUS
<1>1. LinkTypeOK /\ LiveShownAttached /\ ActiveIsOfThisLife
  BY DEF LinkInv, LinkTypes
<1>2. LiveIsLinked
  <2> SUFFICES ASSUME boot = "up", gateObs = NoObs, supObs = NoObs, obsQueue = <<>>, ~skewed,
                      term.life = "live"
               PROVE  \A w \in Works : link[w] \in {NoLink, [state |-> "attached", inc |-> term.inc]}
    BY DEF LiveIsLinked
  <2>1. \A o \in Observation : ~Pending(o)
    BY DEF Pending
  <2> QED BY <2>1 DEF LinkInv, LinkedOrTold
<1> QED BY <1>1, <1>2 DEF LinksAreCurrent

\* Every step of the terminals, the worker, the requests and the restart keeps
\* the invariant (PtySessionManager, process_observation_inner, session.rs,
\* reconcile_startup_terminal_links).
THEOREM LinkInvariant == WLSpec => []LinkInv
<1>1. LinkInv /\ [WLNext]_wlVars => LinkInv'
  <2> SUFFICES ASSUME LinkInv, [WLNext]_wlVars PROVE LinkInv'
    OBVIOUS
  <2>1. CASE CreateTerminal \/ RemoveTerminal \/ Respawn \/ RespawnFails
    BY <2>1, TerminalSteps
  <2>2. CASE RecordGate \/ RecordSupervisor \/ \E k \in {"pending", "clean", "crash"} : ReaderExit(k)
    BY <2>2, RecordSteps
  <2>3. CASE Work \/ WorkFails
    BY <2>3, WorkSteps
  <2>4. ASSUME NEW w \in Works,
               LinkLookup(w) \/ UnlinkLookup(w) \/ link_resource(w) \/ unlink_resource(w)
        PROVE  LinkInv'
    BY <2>4, RequestSteps
  <2>5. CASE ServerCrash \/ (\E b \in BOOLEAN : RestoreTerminal(b)) \/ ListLive \/ Reconcile
    BY <2>5, RestartSteps
  <2>6. CASE UNCHANGED wlVars
    BY <2>6, RestingSteps
  <2> QED BY <2>1, <2>2, <2>3, <2>4, <2>5, <2>6 DEF WLNext
<1> QED BY LinkStart, <1>1, PTL DEF WLSpec

\* Links name a terminal of this life, call a live terminal attached, and name
\* it once every observation is applied, whatever observations were late or
\* came out of order, unless one was lost or a listing was stale.
THEOREM LinksStayCurrent == WLSpec => []LinksAreCurrent
BY LinkInvariant, LinksFollow, PTL
-----------------------------------------------------------------------------
(* Ports and tunnels: what the managers' maps hold.                        *)

\* The shapes of entries, rows, the seeding, tunnels and cleanups.
Entry == [owner : Incs, up : BOOLEAN, grace : BOOLEAN, seeded : BOOLEAN]
AllRows == (Incs \cup {Nobody}) \X Ports
Seeding ==
    [pc : {"list"}] \cup [pc : {"load"}, live : SUBSET Incs]
    \cup [pc : {"apply"}, live : SUBSET Incs, loaded : SUBSET AllRows]
    \cup [pc : {"done"}, pruned : SUBSET AllRows]
TunnelCalls == {"unused", "captured", "refused", "starting", "started", "recheck", "done"}
Tunnel == [port : Ports \cup {0}, owner : Incs \cup {Nobody}, call : TunnelCalls,
           status : {"none", "starting", "ready", "failed", "stopped"},
           handle : BOOLEAN, marker : BOOLEAN, proc : {"none", "running", "exited"},
           stop : BOOLEAN, watcher : {"none", "on", "handle", "session", "gone"}]
Cleanup == [port : Ports, owner : Incs, pc : {"owned", "stopOwned", "free", "stopFree"},
            free : BOOLEAN, by : {"task", "poller"}, ids : SUBSET Tuns]

\* The registry, the map and the table have their types and the map its bound.
PortTypes ==
    /\ reg \subseteq Incs /\ unreg \subseteq Incs /\ hits \subseteq Incs \X Ports
    /\ pty \in [Incs -> {"unborn", "running", "eof"}]
    /\ ports \in [Tracked -> Entry] /\ Tracked \subseteq Ports /\ Cardinality(Tracked) <= MaxTracked
    /\ rows \subseteq AllRows /\ IsFiniteSet(rows)
    /\ seed \in Seeding /\ (seed.pc = "apply" => IsFiniteSet(seed.loaded))
    /\ DOMAIN lossWatch \subseteq Tuns

\* A registered incarnation runs: its hits are admitted in its life only.
RegisteredRuns == \A i \in reg : pty[i] = "running"

RegistryInv == PortTypes /\ RegisteredRuns /\ PortsEndWithSession /\ RowsFollowPorts

\* Where a tunnel stands in its creation and its end, under a shutdown s: a
\* stop that comes before the handle leaves a marker, a process without a
\* handle was told to stop, and a shutdown leaves nothing listed.
TunnelSound(x, s) ==
    /\ x.call \in {"unused", "captured", "starting"} => x.proc = "none"
    /\ x.call \in {"unused", "captured", "starting", "started"} => ~x.handle /\ x.watcher = "none"
    /\ x.call \in {"starting", "started"} => x.status # "none" \/ x.marker
    /\ x.watcher \in {"session", "gone"} => ~x.handle
    /\ x.proc = "running" /\ ~x.stop /\ x.call # "started" => x.handle /\ x.status # "none"
    /\ s \in {"waiting", "done"} => x.status = "none" /\ ~x.handle
    /\ s = "done" => x.call \notin {"starting", "started"}

TunnelInv ==
    /\ tun \in [Tuns -> Tunnel] /\ shutting \in {"no", "refusing", "waiting", "done"}
    /\ \A t \in Tuns : TunnelSound(tun[t], shutting)

\* Incarnation o has port p.
Owns(o, p) == p \in Tracked /\ ports[p].owner = o

\* A cleanup that will stop tunnel t, of port p and owner o.
Dooms(c, t, p, o) ==
    c.port = p /\ c.owner = o /\ (c.pc = "owned" \/ (c.pc = "stopOwned" /\ t \in c.ids))

\* A created tunnel of a terminal is on a port its owner still has, or a
\* cleanup has yet to stop it.
FollowsOrDoomed ==
    \A t \in Tuns :
        tun[t].call = "done" /\ tun[t].owner # Nobody /\ tun[t].status \in {"starting", "ready"} =>
            \/ Owns(tun[t].owner, tun[t].port)
            \/ \E c \in cleanups : Dooms(c, t, tun[t].port, tun[t].owner)

PortInv == RegistryInv /\ TunnelInv /\ cleanups \subseteq Cleanup /\ FollowsOrDoomed
-----------------------------------------------------------------------------
(* The registry, the map of ports and the table of rows                    *)

\* The tracked ports are finitely many.
LEMMA TrackedFinite ==
    ASSUME PortTypes
    PROVE  IsFiniteSet(Tracked) /\ Cardinality(Tracked) \in Nat
BY PortAssumption, FS_Subset, FS_CardinalityType DEF PortTypes

\* A step that leaves the map and the table alone.
LEMMA RegistrySame ==
    ASSUME RegistryInv, UNCHANGED portVars,
           reg' \subseteq Incs, unreg' \subseteq Incs, hits' \subseteq Incs \X Ports,
           pty' \in [Incs -> {"unborn", "running", "eof"}],
           \A i \in reg' : pty'[i] = "running",
           \A i \in Incs : pty'[i] = "eof" /\ i \notin unreg' => pty[i] = "eof" /\ i \notin unreg,
           seed' \in Seeding, seed'.pc = "apply" => IsFiniteSet(seed'.loaded),
           seed' = seed \/ seed.pc # "done",
           DOMAIN lossWatch' \subseteq Tuns
    PROVE  RegistryInv'
<1>1. PortTypes'
  BY DEF RegistryInv, PortTypes, portVars, Tracked
<1>2. RegisteredRuns' BY DEF RegisteredRuns
<1>3. PortsEndWithSession'
  BY DEF RegistryInv, PortsEndWithSession, portVars, Tracked
<1>4. RowsFollowPorts'
  BY DEF RegistryInv, RowsFollowPorts, portVars, Tracked
<1> QED BY <1>1, <1>2, <1>3, <1>4 DEF RegistryInv

\* A session that starts or ends, and a hit that is reported.
LEMMA SessionRegistry ==
    ASSUME RegistryInv, NEW i \in Incs,
           \/ register_session(i)
           \/ \E p \in Ports : scan_chunk(i, p)
           \/ \E eof \in BOOLEAN : UnregisterIdentity(i, eof)
    PROVE  RegistryInv'
<1>1. /\ reg \subseteq Incs /\ unreg \subseteq Incs /\ hits \subseteq Incs \X Ports
      /\ pty \in [Incs -> {"unborn", "running", "eof"}] /\ \A j \in reg : pty[j] = "running"
      /\ seed \in Seeding /\ (seed.pc = "apply" => IsFiniteSet(seed.loaded))
      /\ DOMAIN lossWatch \subseteq Tuns
  BY DEF RegistryInv, PortTypes, RegisteredRuns
<1>2. UNCHANGED portVars /\ seed' = seed /\ lossWatch' = lossWatch
  BY DEF register_session, scan_chunk, UnregisterIdentity, pollVars
<1>3. CASE register_session(i)
  <2>1. /\ pty' = [pty EXCEPT ![i] = "running"] /\ reg' = {j \in reg : IdOf[j] # IdOf[i]} \cup {i}
        /\ UNCHANGED <<unreg, hits>>
    BY <1>3 DEF register_session
  <2> QED BY <1>1, <1>2, <2>1, RegistrySame
<1>4. ASSUME NEW p \in Ports, scan_chunk(i, p) PROVE RegistryInv'
  <2>1. hits' = hits \cup {<<i, p>>} /\ UNCHANGED <<reg, pty, unreg>>
    BY <1>4 DEF scan_chunk
  <2> QED BY <1>1, <1>2, <2>1, RegistrySame
<1>5. ASSUME NEW eof \in BOOLEAN, UnregisterIdentity(i, eof) PROVE RegistryInv'
  <2>1. /\ reg' = reg \ {i} /\ pty' = (IF eof THEN [pty EXCEPT ![i] = "eof"] ELSE pty)
        /\ unreg' = unreg \cup {i} /\ hits' = hits
    BY <1>5 DEF UnregisterIdentity
  <2> QED BY <1>1, <1>2, <2>1, RegistrySame
<1> QED BY <1>3, <1>4, <1>5

\* A hit is admitted for a registered incarnation, with its row, while there
\* is room.
LEMMA HitRegistry ==
    ASSUME RegistryInv, NEW h \in hits, report_stdout_hit(h)
    PROVE  RegistryInv'
<1> DEFINE i == h[1]
           p == h[2]
           new == [owner |-> i, up |-> FALSE, grace |-> FALSE, seeded |-> FALSE]
           old == IF p \in Tracked THEN {ports[p].owner} ELSE {}
<1>1. /\ reg \subseteq Incs /\ unreg \subseteq Incs /\ hits \subseteq Incs \X Ports
      /\ pty \in [Incs -> {"unborn", "running", "eof"}] /\ \A j \in reg : pty[j] = "running"
      /\ seed \in Seeding /\ (seed.pc = "apply" => IsFiniteSet(seed.loaded))
      /\ DOMAIN lossWatch \subseteq Tuns /\ ports \in [Tracked -> Entry] /\ Tracked \subseteq Ports
      /\ rows \subseteq AllRows /\ IsFiniteSet(rows) /\ Cardinality(Tracked) <= MaxTracked
  BY DEF RegistryInv, PortTypes, RegisteredRuns
<1>2. i \in Incs /\ p \in Ports /\ hits' \subseteq Incs \X Ports
  BY <1>1 DEF report_stdout_hit
<1>3. UNCHANGED <<reg, pty, unreg, seed, lossWatch>>
  BY DEF report_stdout_hit, pollVars
<1>4. CASE ~Admits(i, p)
  <2>1. UNCHANGED portVars BY <1>4 DEF report_stdout_hit, portVars
  <2> QED BY <1>1, <1>2, <1>3, <2>1, RegistrySame
<1>5. CASE Admits(i, p)
  <2>1. ports' = Set(ports, p, new) /\ rows' = (rows \ {<<j, p>> : j \in old}) \cup {<<i, p>>}
    BY <1>5 DEF report_stdout_hit
  <2>2. new \in Entry /\ new.owner = i /\ ~new.seeded
    BY <1>2 DEF Entry
  <2> HIDE DEF new, i, p
  <2>3. /\ Tracked' = Tracked \cup {p} /\ ports'[p] = new
        /\ \A x \in Tracked \ {p} : ports'[x] = ports[x]
        /\ ports' = [x \in Tracked' |-> ports'[x]]
    BY <2>1 DEF Set, Tracked
  <2>4. i \in reg /\ pty[i] = "running" /\ (p \notin Tracked => Cardinality(Tracked) < MaxTracked)
    BY <1>1, <1>5 DEF Admits, Validated
  <2>5. PortTypes'
    <3>1. ports' \in [Tracked' -> Entry] /\ Tracked' \subseteq Ports
      BY <1>1, <1>2, <2>2, <2>3
    <3>2. Cardinality(Tracked') <= MaxTracked
      <4>1. IsFiniteSet(Tracked) /\ Cardinality(Tracked) \in Nat BY TrackedFinite DEF RegistryInv
      <4>2. Cardinality(Tracked \cup {p}) =
               IF p \in Tracked THEN Cardinality(Tracked) ELSE Cardinality(Tracked) + 1
        BY <4>1, FS_AddElement
      <4> QED BY <4>1, <4>2, <2>3, <2>4, <1>1, PortAssumption
    <3>3. rows' \subseteq AllRows
      BY <1>1, <1>2, <2>1 DEF AllRows
    <3>4. IsFiniteSet(rows')
      <4>1. IsFiniteSet(rows \ {<<j, p>> : j \in old}) BY <1>1, FS_Difference
      <4> QED BY <4>1, <2>1, FS_AddElement
    <3> QED BY <1>1, <1>2, <1>3, <3>1, <3>2, <3>3, <3>4 DEF PortTypes, Tracked
  <2>6. PortsEndWithSession'
    <3> SUFFICES ASSUME NEW j \in Incs, pty[j] = "eof", j \notin unreg
                 PROVE  /\ \A x \in Tracked' : ports'[x].owner = j => ports'[x].seeded
                        /\ \A x \in Ports : <<j, x>> \notin rows'
      BY <1>3 DEF PortsEndWithSession
    <3>1. j # i BY <2>4
    <3>2. /\ \A x \in Tracked : ports[x].owner = j => ports[x].seeded
          /\ \A x \in Ports : <<j, x>> \notin rows
      BY DEF RegistryInv, PortsEndWithSession
    <3> QED BY <3>1, <3>2, <2>1, <2>2, <2>3
  <2>7. RowsFollowPorts'
    <3>1. ASSUME NEW r \in rows', r[1] # Nobody PROVE r[2] \in Tracked' /\ ports'[r[2]].owner = r[1]
      <4>1. CASE r = <<i, p>>
        BY <4>1, <2>2, <2>3
      <4>2. CASE r # <<i, p>>
        <5>1. r \in rows /\ r \notin {<<j, p>> : j \in old} /\ r = <<r[1], r[2]>>
          BY <4>2, <2>1, <1>1 DEF AllRows
        <5>2. r[2] \in Tracked /\ ports[r[2]].owner = r[1]
          BY <5>1, <3>1 DEF RegistryInv, RowsFollowPorts
        <5>3. r[2] # p
          BY <5>1, <5>2
        <5> QED BY <5>2, <5>3, <2>3
      <4> QED BY <4>1, <4>2
    <3>2. ASSUME NEW x \in Tracked', ~ports'[x].seeded
          PROVE  \/ <<ports'[x].owner, x>> \in rows'
                 \/ seed.pc = "done" /\ <<ports'[x].owner, x>> \in seed.pruned
      <4>1. CASE x = p
        BY <4>1, <2>1, <2>2, <2>3
      <4>2. CASE x # p
        <5>1. x \in Tracked /\ ports'[x] = ports[x] BY <4>2, <2>3
        <5>2. \/ <<ports[x].owner, x>> \in rows
              \/ seed.pc = "done" /\ <<ports[x].owner, x>> \in seed.pruned
          BY <5>1, <3>2 DEF RegistryInv, RowsFollowPorts
        <5> QED BY <5>1, <5>2, <4>2, <2>1
      <4> QED BY <4>1, <4>2
    <3> QED BY <3>1, <3>2, <1>3 DEF RowsFollowPorts
  <2>8. RegisteredRuns' BY <1>3 DEF RegistryInv, RegisteredRuns
  <2> QED BY <2>5, <2>6, <2>7, <2>8 DEF RegistryInv
<1> QED BY <1>4, <1>5

\* Entries that leave the map take their rows along: gone are those of the
\* ports ps; no other entry loses its row.
LEMMA DropRegistry ==
    ASSUME RegistryInv, NEW ps \in SUBSET Tracked, NEW gone \in SUBSET rows,
           ports' = Drop(ports, ps), rows' = rows \ gone,
           \A r \in rows : r[1] # Nobody /\ r[2] \in ps => r \in gone,
           \A p \in Tracked \ ps : <<ports[p].owner, p>> \notin gone,
           unreg' \subseteq unreg,
           \A i \in unreg \ unreg' : /\ \A r \in rows : r[1] = i => r \in gone
                                     /\ \A p \in Tracked : ports[p].owner = i => p \in ps,
           UNCHANGED <<reg, pty, hits, seed, lossWatch>>
    PROVE  RegistryInv'
<1>1. /\ reg \subseteq Incs /\ unreg \subseteq Incs /\ hits \subseteq Incs \X Ports
      /\ pty \in [Incs -> {"unborn", "running", "eof"}] /\ \A j \in reg : pty[j] = "running"
      /\ seed \in Seeding /\ (seed.pc = "apply" => IsFiniteSet(seed.loaded))
      /\ DOMAIN lossWatch \subseteq Tuns /\ ports \in [Tracked -> Entry] /\ Tracked \subseteq Ports
      /\ rows \subseteq AllRows /\ IsFiniteSet(rows) /\ Cardinality(Tracked) <= MaxTracked
  BY DEF RegistryInv, PortTypes, RegisteredRuns
<1>2. /\ Tracked' = Tracked \ ps /\ \A x \in Tracked' : ports'[x] = ports[x]
      /\ ports' = [x \in Tracked' |-> ports'[x]]
  BY DEF Drop, Tracked
<1>3. PortTypes'
  <2>1. ports' \in [Tracked' -> Entry] /\ Tracked' \subseteq Ports
    BY <1>1, <1>2
  <2>2. Cardinality(Tracked') <= MaxTracked
    <3>1. IsFiniteSet(Tracked) /\ Cardinality(Tracked) \in Nat BY TrackedFinite DEF RegistryInv
    <3>2. Cardinality(Tracked') <= Cardinality(Tracked) /\ IsFiniteSet(Tracked')
      BY <3>1, <1>2, FS_Subset
    <3>3. Cardinality(Tracked') \in Nat BY <3>2, FS_CardinalityType
    <3> QED BY <3>1, <3>2, <3>3, <1>1, PortAssumption
  <2>3. IsFiniteSet(rows') /\ rows' \subseteq AllRows BY <1>1, FS_Difference
  <2> QED BY <1>1, <2>1, <2>2, <2>3 DEF PortTypes, Tracked
<1>4. PortsEndWithSession'
  <2> SUFFICES ASSUME NEW j \in Incs, pty[j] = "eof", j \notin unreg'
               PROVE  /\ \A x \in Tracked' : ports'[x].owner = j => ports'[x].seeded
                      /\ \A x \in Ports : <<j, x>> \notin rows'
    BY DEF PortsEndWithSession
  <2>1. CASE j \in unreg
    <3>1. \A x \in Tracked' : ports'[x].owner # j BY <2>1, <1>2
    <3>2. \A x \in Ports : <<j, x>> \in rows => <<j, x>> \in gone BY <2>1
    <3> QED BY <3>1, <3>2
  <2>2. CASE j \notin unreg
    <3>1. /\ \A x \in Tracked : ports[x].owner = j => ports[x].seeded
          /\ \A x \in Ports : <<j, x>> \notin rows
      BY <2>2 DEF RegistryInv, PortsEndWithSession
    <3> QED BY <3>1, <1>2
  <2> QED BY <2>1, <2>2
<1>5. RowsFollowPorts'
  <2>1. ASSUME NEW r \in rows', r[1] # Nobody PROVE r[2] \in Tracked' /\ ports'[r[2]].owner = r[1]
    <3>1. r \in rows /\ r[2] \notin ps BY <2>1
    <3>2. r[2] \in Tracked /\ ports[r[2]].owner = r[1]
      BY <3>1, <2>1 DEF RegistryInv, RowsFollowPorts
    <3> QED BY <3>1, <3>2, <1>2
  <2>2. ASSUME NEW x \in Tracked', ~ports'[x].seeded
        PROVE  \/ <<ports'[x].owner, x>> \in rows'
               \/ seed.pc = "done" /\ <<ports'[x].owner, x>> \in seed.pruned
    <3>1. x \in Tracked \ ps /\ ports'[x] = ports[x] BY <1>2
    <3>2. \/ <<ports[x].owner, x>> \in rows
          \/ seed.pc = "done" /\ <<ports[x].owner, x>> \in seed.pruned
      BY <3>1, <2>2 DEF RegistryInv, RowsFollowPorts
    <3> QED BY <3>1, <3>2
  <2> QED BY <2>1, <2>2 DEF RowsFollowPorts
<1>6. RegisteredRuns' BY <1>1 DEF RegisteredRuns
<1> QED BY <1>3, <1>4, <1>5, <1>6 DEF RegistryInv

\* An incarnation whose unregistration ends, or a port found lost, leaves the
\* map and the table.
LEMMA LossRegistry ==
    ASSUME RegistryInv,
           \/ \E i \in Incs : remove_session_ports(i)
           \/ \E k \in Ports \X Incs : report_lost(k)
    PROVE  RegistryInv'
<1>1. /\ reg \subseteq Incs /\ unreg \subseteq Incs /\ hits \subseteq Incs \X Ports
      /\ pty \in [Incs -> {"unborn", "running", "eof"}] /\ \A j \in reg : pty[j] = "running"
      /\ seed \in Seeding /\ (seed.pc = "apply" => IsFiniteSet(seed.loaded))
      /\ DOMAIN lossWatch \subseteq Tuns /\ rows \subseteq AllRows
  BY DEF RegistryInv, PortTypes, RegisteredRuns
<1>2. \A r \in rows : /\ r = <<r[1], r[2]>>
                      /\ r[1] # Nobody => r[2] \in Tracked /\ ports[r[2]].owner = r[1]
  BY <1>1 DEF RegistryInv, RowsFollowPorts, AllRows
<1>3. ASSUME NEW i \in Incs, remove_session_ports(i) PROVE RegistryInv'
  <2> DEFINE mine == {p \in Tracked : ports[p].owner = i}
             gone == {r \in rows : r[1] = i}
  <2>1. /\ unreg' = unreg \ {i} /\ ports' = Drop(ports, mine) /\ rows' = rows \ gone
        /\ UNCHANGED <<reg, pty, hits, seed, lossWatch>>
    BY <1>3 DEF remove_session_ports, pollVars
  <2>2. mine \in SUBSET Tracked /\ gone \in SUBSET rows OBVIOUS
  <2>3. \A r \in rows : r[1] # Nobody /\ r[2] \in mine => r \in gone BY <1>2
  <2>4. \A p \in Tracked \ mine : <<ports[p].owner, p>> \notin gone OBVIOUS
  <2>5. \A j \in unreg \ unreg' : /\ \A r \in rows : r[1] = j => r \in gone
                                  /\ \A p \in Tracked : ports[p].owner = j => p \in mine
    BY <2>1
  <2> HIDE DEF mine, gone
  <2> QED BY <2>1, <2>2, <2>3, <2>4, <2>5, DropRegistry
<1>4. ASSUME NEW k \in Ports \X Incs, report_lost(k) PROVE RegistryInv'
  <2> DEFINE lost == StillOwns(k) /\ (ports[k[1]].up \/ ~ports[k[1]].grace)
             gone == {<<k[2], k[1]>>} \cap rows
  <2>1. UNCHANGED <<reg, pty, hits, unreg, seed, lossWatch>>
    BY <1>4 DEF report_lost, sessionVars
  <2>2. CASE ~lost
    <3>1. UNCHANGED portVars BY <1>4, <2>2 DEF report_lost, portVars
    <3> QED BY <1>1, <2>1, <3>1, RegistrySame DEF RegistryInv, PortsEndWithSession
  <2>3. CASE lost
    <3>1. ports' = Drop(ports, {k[1]}) /\ rows' = rows \ gone
      BY <1>4, <2>3 DEF report_lost
    <3>2. k[1] \in Tracked /\ ports[k[1]].owner = k[2] /\ {k[1]} \in SUBSET Tracked /\ gone \in SUBSET rows
      BY <2>3 DEF StillOwns
    <3>3. \A r \in rows : r[1] # Nobody /\ r[2] \in {k[1]} => r \in gone BY <1>2, <3>2
    <3>4. \A p \in Tracked \ {k[1]} : <<ports[p].owner, p>> \notin gone OBVIOUS
    <3>5. unreg' \subseteq unreg /\ unreg \ unreg' = {} BY <2>1
    <3> HIDE DEF gone, lost
    <3> QED BY <2>1, <3>1, <3>2, <3>3, <3>4, <3>5, DropRegistry
  <2> QED BY <2>2, <2>3
<1> QED BY <1>3, <1>4

\* An entry that is confirmed or whose grace ends keeps its owner.
LEMMA EntryRegistry ==
    ASSUME RegistryInv,
           (\E p \in Ports : GraceExpires(p)) \/ (\E k \in Ports \X Incs : confirm_listen(k))
    PROVE  RegistryInv' /\ DOMAIN ports' = Tracked /\ \A p \in Tracked : ports'[p].owner = ports[p].owner
<1>1. /\ reg \subseteq Incs /\ unreg \subseteq Incs /\ hits \subseteq Incs \X Ports
      /\ pty \in [Incs -> {"unborn", "running", "eof"}] /\ \A j \in reg : pty[j] = "running"
      /\ seed \in Seeding /\ (seed.pc = "apply" => IsFiniteSet(seed.loaded))
      /\ DOMAIN lossWatch \subseteq Tuns /\ ports \in [Tracked -> Entry] /\ Tracked \subseteq Ports
      /\ rows \subseteq AllRows /\ IsFiniteSet(rows) /\ Cardinality(Tracked) <= MaxTracked
  BY DEF RegistryInv, PortTypes, RegisteredRuns
<1>2. UNCHANGED <<reg, pty, unreg, hits, rows, seed, lossWatch>>
  BY DEF GraceExpires, confirm_listen, sessionVars, pollVars
<1>3. /\ ports' \in [Tracked -> Entry]
      /\ \A p \in Tracked : ports'[p].owner = ports[p].owner /\ ports'[p].seeded = ports[p].seeded
  <2>1. ASSUME NEW p \in Ports, GraceExpires(p) PROVE <1>3!1 /\ <1>3!2
    <3>1. p \in Tracked /\ ports' = [ports EXCEPT ![p].grace = FALSE] BY <2>1 DEF GraceExpires
    <3> QED BY <1>1, <3>1 DEF Entry
  <2>2. ASSUME NEW k \in Ports \X Incs, confirm_listen(k) PROVE <1>3!1 /\ <1>3!2
    <3>1. CASE ~StillOwns(k)
      <4>1. ports' = ports BY <2>2, <3>1 DEF confirm_listen
      <4> QED BY <1>1, <4>1
    <3>2. CASE StillOwns(k)
      <4> DEFINE p == k[1]
      <4>1. p \in Tracked /\ ports' = [ports EXCEPT ![p].up = TRUE, ![p].grace = FALSE]
        BY <2>2, <3>2 DEF confirm_listen, StillOwns
      <4>2. ports' = [ports EXCEPT ![p] = [ports[p] EXCEPT !.up = TRUE, !.grace = FALSE]]
        BY <1>1, <4>1
      <4> DEFINE e == [ports[p] EXCEPT !.up = TRUE, !.grace = FALSE]
      <4>3. e \in Entry /\ e.owner = ports[p].owner /\ e.seeded = ports[p].seeded
        <5>1. ports[p] \in Entry BY <1>1, <4>1
        <5> QED BY <5>1 DEF Entry
      <4>4. ports' = [ports EXCEPT ![p] = e] BY <4>2
      <4> HIDE DEF p, e
      <4> QED BY <1>1, <4>1, <4>3, <4>4
    <3> QED BY <3>1, <3>2
  <2> QED BY <2>1, <2>2
<1>4. Tracked' = Tracked BY <1>3 DEF Tracked
<1>5. PortTypes'
  BY <1>1, <1>2, <1>3, <1>4 DEF PortTypes, Tracked
<1>6. PortsEndWithSession'
  BY <1>2, <1>3, <1>4 DEF RegistryInv, PortsEndWithSession
<1>7. RowsFollowPorts'
  BY <1>2, <1>3, <1>4 DEF RegistryInv, RowsFollowPorts
<1>8. RegisteredRuns' BY <1>1, <1>2 DEF RegisteredRuns
<1> QED BY <1>3, <1>4, <1>5, <1>6, <1>7, <1>8 DEF RegistryInv, Tracked

\* What the seeding inserts is of an incarnation that was live, and it fills
\* no more than the room there is; what it prunes it remembers.
LEMMA SeedRegistry ==
    ASSUME RegistryInv, SeedLists \/ SeedLoads \/ SeedApplies
    PROVE  RegistryInv' /\ Tracked \subseteq Tracked' /\ \A p \in Tracked : ports'[p] = ports[p]
<1>1. /\ reg \subseteq Incs /\ unreg \subseteq Incs /\ hits \subseteq Incs \X Ports
      /\ pty \in [Incs -> {"unborn", "running", "eof"}] /\ \A j \in reg : pty[j] = "running"
      /\ seed \in Seeding /\ (seed.pc = "apply" => IsFiniteSet(seed.loaded))
      /\ DOMAIN lossWatch \subseteq Tuns /\ ports \in [Tracked -> Entry] /\ Tracked \subseteq Ports
      /\ rows \subseteq AllRows /\ IsFiniteSet(rows) /\ Cardinality(Tracked) <= MaxTracked
  BY DEF RegistryInv, PortTypes, RegisteredRuns
<1>2. UNCHANGED <<reg, pty, unreg, hits, lossWatch>>
  BY DEF SeedLists, SeedLoads, SeedApplies, sessionVars, pollVars
<1>3. CASE SeedLists
  <2>1. seed' = [pc |-> "load", live |-> reg] /\ seed.pc = "list" /\ UNCHANGED portVars
    BY <1>3 DEF SeedLists
  <2>2. seed' \in Seeding /\ seed'.pc # "apply" BY <1>1, <2>1 DEF Seeding
  <2>3. RegistryInv' BY <1>1, <1>2, <2>1, <2>2, RegistrySame
  <2> QED BY <2>1, <2>3 DEF portVars, Tracked
<1>4. CASE SeedLoads
  <2>1. /\ seed' = [pc |-> "apply", live |-> seed.live, loaded |-> rows] /\ seed.pc = "load"
        /\ UNCHANGED portVars
    BY <1>4 DEF SeedLoads
  <2>2. seed' \in Seeding /\ IsFiniteSet(seed'.loaded) BY <1>1, <2>1 DEF Seeding
  <2>3. RegistryInv' BY <1>1, <1>2, <2>1, <2>2, RegistrySame
  <2> QED BY <2>1, <2>3 DEF portVars, Tracked
<1>5. CASE SeedApplies
  <2>1. seed.pc = "apply" /\ seed.live \subseteq Incs /\ seed.loaded \subseteq AllRows
        /\ IsFiniteSet(seed.loaded)
    BY <1>1, <1>5 DEF SeedApplies, Seeding
  <2> DEFINE stale == {r \in seed.loaded : r[1] \notin seed.live}
             live == {r \in seed.loaded \ stale : r[2] \notin Tracked}
  <2>2. PICK chosen \in SUBSET live, pruned \in SUBSET stale :
          /\ Cardinality(chosen) + Cardinality(Tracked) <= MaxTracked
          /\ ports' = [p \in Tracked \cup {r[2] : r \in chosen} |->
                          IF p \in Tracked THEN ports[p]
                          ELSE [owner |-> (CHOOSE r \in chosen : r[2] = p)[1],
                                up |-> FALSE, grace |-> TRUE, seeded |-> TRUE]]
          /\ rows' = rows \ pruned
          /\ seed' = [pc |-> "done", pruned |-> pruned]
    BY <1>5 DEF SeedApplies
  <2>3. chosen \subseteq seed.loaded /\ pruned \subseteq seed.loaded /\ \A r \in chosen : r[1] \in seed.live
    OBVIOUS
  <2> DEFINE new == {r[2] : r \in chosen}
  <2>4. new \subseteq Ports /\ IsFiniteSet(new) /\ Cardinality(new) <= Cardinality(chosen)
        /\ Cardinality(new) \in Nat /\ Cardinality(chosen) \in Nat
    <3>1. \A r \in chosen : r[2] \in Ports BY <2>1, <2>3 DEF AllRows
    <3>2. IsFiniteSet(chosen) BY <2>1, <2>3, FS_Subset
    <3> HIDE DEF live, stale
    <3>3. IsFiniteSet(new) /\ Cardinality(new) <= Cardinality(chosen)
      <4> DEFINE second == [r \in chosen |-> r[2]]
      <4>1. second \in Surjection(chosen, new)
        BY DEF Surjection
      <4> HIDE DEF new, second
      <4> QED BY <3>2, <4>1, FS_Surjection
    <3> QED BY <3>1, <3>2, <3>3, FS_CardinalityType
  <2> HIDE DEF stale, live
  <2>5. /\ Tracked' = Tracked \cup new
        /\ \A p \in Tracked : ports'[p] = ports[p]
        /\ \A p \in new \ Tracked : ports'[p] \in Entry /\ ports'[p].seeded
        /\ ports' = [p \in Tracked' |-> ports'[p]]
    <3>1. Tracked' = Tracked \cup new /\ ports' = [p \in Tracked' |-> ports'[p]]
      BY <2>2 DEF Tracked
    <3>2. \A p \in Tracked : ports'[p] = ports[p]
      BY <2>2
    <3>3. ASSUME NEW p \in new \ Tracked PROVE ports'[p] \in Entry /\ ports'[p].seeded
      <4> DEFINE r == CHOOSE x \in chosen : x[2] = p
      <4>1. r \in chosen OBVIOUS
      <4>2. ports'[p] = [owner |-> r[1], up |-> FALSE, grace |-> TRUE, seeded |-> TRUE]
        BY <2>2
      <4>3. r[1] \in Incs BY <2>1, <2>3, <4>1
      <4> HIDE DEF r
      <4> QED BY <4>2, <4>3 DEF Entry
    <3> QED BY <3>1, <3>2, <3>3
  <2> HIDE DEF new
  <2>6. PortTypes'
    <3>1. ports' \in [Tracked' -> Entry] /\ Tracked' \subseteq Ports
      BY <1>1, <2>4, <2>5
    <3>2. Cardinality(Tracked') <= MaxTracked
      <4>1. IsFiniteSet(Tracked) /\ Cardinality(Tracked) \in Nat BY TrackedFinite DEF RegistryInv
      <4>2. IsFiniteSet(Tracked \cup new) /\ IsFiniteSet(Tracked \cap new)
            /\ Cardinality(Tracked \cup new)
                 = Cardinality(Tracked) + Cardinality(new) - Cardinality(Tracked \cap new)
        BY <4>1, <2>4, FS_Union, FS_Intersection
      <4>3. Cardinality(Tracked \cup new) \in Nat /\ Cardinality(Tracked \cap new) \in Nat
        BY <4>2, FS_CardinalityType
      <4> QED BY <4>1, <4>2, <4>3, <2>2, <2>4, <2>5, PortAssumption
    <3>3. rows' \subseteq AllRows /\ IsFiniteSet(rows')
      BY <1>1, <2>2, FS_Difference
    <3>4. seed' \in Seeding /\ seed'.pc # "apply"
      BY <2>1, <2>2, <2>3 DEF Seeding
    <3> QED BY <1>1, <1>2, <3>1, <3>2, <3>3, <3>4 DEF PortTypes, Tracked
  <2>7. PortsEndWithSession'
    BY <1>2, <2>2, <2>5 DEF RegistryInv, PortsEndWithSession
  <2>8. RowsFollowPorts'
    <3>1. ASSUME NEW r \in rows', r[1] # Nobody PROVE r[2] \in Tracked' /\ ports'[r[2]].owner = r[1]
      BY <3>1, <2>2, <2>5 DEF RegistryInv, RowsFollowPorts
    <3>2. ASSUME NEW x \in Tracked', ~ports'[x].seeded
          PROVE  \/ <<ports'[x].owner, x>> \in rows'
                 \/ seed'.pc = "done" /\ <<ports'[x].owner, x>> \in seed'.pruned
      <4>1. x \in Tracked /\ ports'[x] = ports[x] BY <3>2, <2>5
      <4>2. <<ports[x].owner, x>> \in rows
        BY <4>1, <3>2, <2>1 DEF RegistryInv, RowsFollowPorts
      <4>3. seed'.pc = "done" /\ seed'.pruned = pruned BY <2>2
      <4> QED BY <4>1, <4>2, <4>3, <2>2
    <3> QED BY <3>1, <3>2 DEF RowsFollowPorts
  <2>9. RegisteredRuns' BY <1>1, <1>2 DEF RegisteredRuns
  <2> QED BY <2>5, <2>6, <2>7, <2>8, <2>9 DEF RegistryInv
<1> QED BY <1>3, <1>4, <1>5

\* What the tunnels do, and the poller between the ports, leaves it alone.
LEMMA RegistryRests ==
    ASSUME RegistryInv, UNCHANGED <<sessionVars, portVars, seed>>, DOMAIN lossWatch' \subseteq Tuns
    PROVE  RegistryInv'
<1>1. /\ reg \subseteq Incs /\ unreg \subseteq Incs /\ hits \subseteq Incs \X Ports
      /\ pty \in [Incs -> {"unborn", "running", "eof"}] /\ \A j \in reg : pty[j] = "running"
      /\ seed \in Seeding /\ (seed.pc = "apply" => IsFiniteSet(seed.loaded))
  BY DEF RegistryInv, PortTypes, RegisteredRuns
<1>2. UNCHANGED <<reg, pty, unreg, hits, portVars, seed>> BY DEF sessionVars
<1> QED BY <1>1, <1>2, RegistrySame
-----------------------------------------------------------------------------
(* The tunnels                                                             *)

\* The statuses of a tunnel in use.
Listed == {"starting", "ready"}

\* A stop takes a tunnel off the list and stops it through its handle, or
\* leaves a marker for its creator.
LEMMA StoppedSound ==
    ASSUME NEW x \in Tunnel, NEW s, TunnelSound(x, s)
    PROVE  /\ Stopped(x) \in Tunnel /\ TunnelSound(Stopped(x), s)
           /\ Stopped(x).status = "none" /\ Stopped(x).call = x.call
           /\ Stopped(x).port = x.port /\ Stopped(x).owner = x.owner
<1>1. CASE x.status = "none" /\ ~x.handle
  BY <1>1 DEF Stopped
<1>2. CASE ~ (x.status = "none" /\ ~x.handle)
  <2> DEFINE y == [x EXCEPT !.status = "none", !.handle = FALSE, !.marker = ~x.handle,
                            !.stop = x.stop \/ x.handle]
  <2>1. Stopped(x) = y
    BY <1>2 DEF Stopped
  <2>2. /\ y \in Tunnel /\ y.status = "none" /\ ~y.handle /\ y.marker = ~x.handle
        /\ y.stop = (x.stop \/ x.handle) /\ y.call = x.call /\ y.proc = x.proc
        /\ y.watcher = x.watcher /\ y.port = x.port /\ y.owner = x.owner
    BY DEF Tunnel
  <2> HIDE DEF y
  <2>3. TunnelSound(y, s)
    BY <2>2 DEF TunnelSound
  <2> QED BY <2>1, <2>2, <2>3
<1> QED BY <1>1, <1>2

\* What a step of tunnel t may change: no other tunnel, and t comes to be
\* created and listed only on a port its owner has.
Steady(t) ==
    /\ \A u \in Tuns \ {t} : tun'[u] = tun[u]
    /\ tun'[t].call = "done" /\ tun'[t].owner # Nobody /\ tun'[t].status \in Listed =>
          \/ Owns(tun'[t].owner, tun'[t].port)
          \/ /\ tun[t].call = "done" /\ tun[t].status \in Listed
             /\ tun'[t].port = tun[t].port /\ tun'[t].owner = tun[t].owner

\* A step of one tunnel.
LEMMA OneTunnel ==
    ASSUME TunnelInv, NEW t \in Tuns, NEW y \in Tunnel, TunnelSound(y, shutting),
           tun' = [tun EXCEPT ![t] = y], shutting' = shutting,
           y.call = "done" /\ y.owner # Nobody /\ y.status \in Listed =>
              \/ Owns(y.owner, y.port)
              \/ /\ tun[t].call = "done" /\ tun[t].status \in Listed
                 /\ y.port = tun[t].port /\ y.owner = tun[t].owner
    PROVE  TunnelInv' /\ Steady(t)
<1>1. tun' \in [Tuns -> Tunnel] /\ tun'[t] = y /\ \A u \in Tuns \ {t} : tun'[u] = tun[u]
  BY DEF TunnelInv
<1> QED BY <1>1 DEF TunnelInv, Steady

\* A tunnel that is stopped.
LEMMA StopTunnel ==
    ASSUME TunnelInv, NEW t \in Tuns, tun' = [tun EXCEPT ![t] = Stopped(tun[t])], shutting' = shutting
    PROVE  TunnelInv' /\ Steady(t)
<1>1. tun[t] \in Tunnel /\ TunnelSound(tun[t], shutting)
  BY DEF TunnelInv
<1>2. /\ Stopped(tun[t]) \in Tunnel /\ TunnelSound(Stopped(tun[t]), shutting)
      /\ Stopped(tun[t]).status = "none"
  BY <1>1, StoppedSound
<1> QED BY <1>2, OneTunnel DEF Listed

\* The steps of a creation up to the published handle.
LEMMA CreateTunnel ==
    ASSUME TunnelInv, PortTypes, NEW t \in Tuns,
           \/ \E p \in Ports : CreateCaptures(t, p)
           \/ CreateAdmitted(t) \/ DriverStarts(t) \/ DriverFails(t) \/ CreatePublishes(t)
    PROVE  TunnelInv' /\ Steady(t)
<1> DEFINE x == tun[t]
<1>1. x \in Tunnel /\ TunnelSound(x, shutting) /\ tun \in [Tuns -> Tunnel]
  BY DEF TunnelInv
<1>2. shutting' = shutting
  BY DEF CreateCaptures, CreateAdmitted, DriverStarts, DriverFails, CreatePublishes
<1>3. ASSUME NEW p \in Ports, CreateCaptures(t, p) PROVE TunnelInv' /\ Steady(t)
  <2> DEFINE o == IF p \in Tracked THEN ports[p].owner ELSE Nobody
             y == [x EXCEPT !.call = "captured", !.port = p, !.owner = o]
  <2>1. o \in Incs \cup {Nobody} /\ x.call = "unused"
    BY <1>3 DEF CreateCaptures, PortTypes, Entry
  <2>2. tun' = [tun EXCEPT ![t] = y]
    BY <1>1, <1>3 DEF CreateCaptures
  <2> HIDE DEF o
  <2>3. /\ y \in Tunnel /\ y.call = "captured" /\ y.status = x.status /\ y.handle = x.handle
        /\ y.marker = x.marker /\ y.proc = x.proc /\ y.stop = x.stop /\ y.watcher = x.watcher
    BY <1>1, <2>1 DEF Tunnel, TunnelCalls
  <2> HIDE DEF x, y
  <2>4. TunnelSound(y, shutting)
    BY <1>1, <2>1, <2>3 DEF TunnelSound
  <2> QED BY <1>2, <2>2, <2>3, <2>4, OneTunnel
<1>4. CASE CreateAdmitted(t)
  <2> DEFINE taken == \E u \in Tuns : tun[u].port = x.port /\ tun[u].status \in {"starting", "ready"}
             refused == shutting # "no" \/ taken
             y == IF refused THEN [x EXCEPT !.call = "refused"]
                  ELSE [x EXCEPT !.call = "starting", !.status = "starting"]
  <2>1. tun' = [tun EXCEPT ![t] = y] /\ x.call = "captured"
    BY <1>4 DEF CreateAdmitted
  <2>2. refused => shutting = shutting OBVIOUS
  <2>3. CASE refused
    <3>1. /\ y \in Tunnel /\ y.call = "refused" /\ y.status = x.status /\ y.handle = x.handle
          /\ y.marker = x.marker /\ y.proc = x.proc /\ y.stop = x.stop /\ y.watcher = x.watcher
      BY <1>1, <2>3 DEF Tunnel, TunnelCalls
    <3> HIDE DEF x, y
    <3>2. TunnelSound(y, shutting)
      BY <1>1, <2>1, <3>1 DEF TunnelSound
    <3> QED BY <1>2, <2>1, <3>1, <3>2, OneTunnel DEF x
  <2>4. CASE ~refused
    <3>1. /\ y \in Tunnel /\ y.call = "starting" /\ y.status = "starting" /\ y.handle = x.handle
          /\ y.marker = x.marker /\ y.proc = x.proc /\ y.stop = x.stop /\ y.watcher = x.watcher
      BY <1>1, <2>4 DEF Tunnel, TunnelCalls
    <3>2. shutting = "no" BY <2>4
    <3> HIDE DEF x, y
    <3>3. TunnelSound(y, shutting)
      BY <1>1, <2>1, <3>1, <3>2 DEF TunnelSound
    <3> QED BY <1>2, <2>1, <3>1, <3>3, OneTunnel DEF x
  <2> QED BY <2>3, <2>4
<1>5. CASE DriverStarts(t)
  <2> DEFINE y == [x EXCEPT !.call = "started", !.proc = "running"]
  <2>1. tun' = [tun EXCEPT ![t] = y] /\ x.call = "starting"
    BY <1>1, <1>5 DEF DriverStarts
  <2>2. /\ y \in Tunnel /\ y.call = "started" /\ y.status = x.status /\ y.handle = x.handle
        /\ y.marker = x.marker /\ y.proc = "running" /\ y.stop = x.stop /\ y.watcher = x.watcher
    BY <1>1 DEF Tunnel, TunnelCalls
  <2> HIDE DEF x, y
  <2>3. TunnelSound(y, shutting)
    BY <1>1, <2>1, <2>2 DEF TunnelSound
  <2> QED BY <1>2, <2>1, <2>2, <2>3, OneTunnel DEF x
<1>6. CASE DriverFails(t)
  <2> DEFINE y == [x EXCEPT !.call = "refused", !.marker = FALSE, !.status = "none"]
  <2>1. tun' = [tun EXCEPT ![t] = y] /\ x.call = "starting"
    BY <1>1, <1>6 DEF DriverFails
  <2>2. /\ y \in Tunnel /\ y.call = "refused" /\ y.status = "none" /\ y.handle = x.handle
        /\ ~y.marker /\ y.proc = x.proc /\ y.stop = x.stop /\ y.watcher = x.watcher
    BY <1>1 DEF Tunnel, TunnelCalls
  <2> HIDE DEF x, y
  <2>3. TunnelSound(y, shutting)
    BY <1>1, <2>1, <2>2 DEF TunnelSound
  <2> QED BY <1>2, <2>1, <2>2, <2>3, OneTunnel DEF x
<1>7. CASE CreatePublishes(t)
  <2> DEFINE y == Published(x)
  <2>1. tun' = [tun EXCEPT ![t] = y] /\ x.call = "started"
    BY <1>1, <1>7 DEF CreatePublishes
  <2>2. CASE x.marker
    <3>1. y = [x EXCEPT !.marker = FALSE, !.status = "none", !.stop = TRUE, !.call = "refused"]
      BY <2>2 DEF Published
    <3> HIDE DEF y
    <3>2. /\ y \in Tunnel /\ y.call = "refused" /\ y.status = "none" /\ y.handle = x.handle
          /\ ~y.marker /\ y.proc = x.proc /\ y.stop /\ y.watcher = x.watcher
      BY <1>1, <3>1 DEF Tunnel, TunnelCalls
    <3> HIDE DEF x
    <3>3. TunnelSound(y, shutting)
      BY <1>1, <2>1, <3>2 DEF TunnelSound
    <3> QED BY <1>2, <2>1, <3>2, <3>3, OneTunnel DEF x
  <2>3. CASE ~x.marker
    <3>1. y = [x EXCEPT !.handle = TRUE, !.watcher = "on", !.call = "recheck"]
      BY <2>3 DEF Published
    <3> HIDE DEF y
    <3>2. /\ y \in Tunnel /\ y.call = "recheck" /\ y.status = x.status /\ y.handle
          /\ y.marker = x.marker /\ y.proc = x.proc /\ y.stop = x.stop /\ y.watcher = "on"
      BY <1>1, <3>1 DEF Tunnel, TunnelCalls
    <3> HIDE DEF x
    <3>3. TunnelSound(y, shutting)
      BY <1>1, <2>1, <2>3, <3>2 DEF TunnelSound
    <3> QED BY <1>2, <2>1, <3>2, <3>3, OneTunnel DEF x
  <2> QED BY <2>2, <2>3
<1> QED BY <1>3, <1>4, <1>5, <1>6, <1>7

\* A published tunnel is compared with the port's owner of now.
LEMMA RecheckTunnel ==
    ASSUME TunnelInv, NEW t \in Tuns, CreateRechecks(t)
    PROVE  TunnelInv' /\ Steady(t)
<1> DEFINE x == tun[t]
           z == IF owner_changed(x) THEN Stopped(x) ELSE x
           y == [z EXCEPT !.call = "done"]
<1>1. x \in Tunnel /\ TunnelSound(x, shutting) /\ shutting' = shutting
  BY DEF TunnelInv, CreateRechecks
<1>2. x.call = "recheck" /\ tun' = [tun EXCEPT ![t] = y]
  BY DEF CreateRechecks
<1>3. /\ z \in Tunnel /\ TunnelSound(z, shutting) /\ z.call = "recheck"
      /\ z.port = x.port /\ z.owner = x.owner
      /\ owner_changed(x) => z.status = "none"
  BY <1>1, <1>2, StoppedSound
<1> HIDE DEF z
<1>4. /\ y \in Tunnel /\ y.call = "done" /\ y.status = z.status /\ y.handle = z.handle
      /\ y.marker = z.marker /\ y.proc = z.proc /\ y.stop = z.stop /\ y.watcher = z.watcher
      /\ y.port = z.port /\ y.owner = z.owner
  BY <1>3 DEF Tunnel, TunnelCalls
<1>5. TunnelSound(y, shutting)
  <2> HIDE DEF x, y
  <2> QED BY <1>3, <1>4 DEF TunnelSound
<1>6. y.owner # Nobody /\ y.status \in Listed => Owns(y.owner, y.port)
  BY <1>3, <1>4 DEF owner_changed, Owns, Listed
<1> HIDE DEF x, y
<1> QED BY <1>1, <1>2, <1>4, <1>5, <1>6, OneTunnel

\* cloudflared and its watcher.
LEMMA WatchTunnel ==
    ASSUME TunnelInv, NEW t \in Tuns,
           \/ UrlReady(t) \/ ProcessExits(t) \/ WatchEnds(t)
           \/ WatchDropsHandle(t) \/ WatchDropsSession(t)
    PROVE  TunnelInv' /\ Steady(t)
<1> DEFINE x == tun[t]
<1>1. x \in Tunnel /\ TunnelSound(x, shutting) /\ tun \in [Tuns -> Tunnel]
  BY DEF TunnelInv
<1>2. shutting' = shutting
  BY DEF UrlReady, ProcessExits, WatchEnds, WatchDropsHandle, WatchDropsSession
<1>3. CASE UrlReady(t)
  <2> DEFINE s == IF x.status = "starting" THEN "ready" ELSE x.status
             y == [x EXCEPT !.status = s]
  <2>1. tun' = [tun EXCEPT ![t] = y] BY <1>1, <1>3 DEF UrlReady
  <2>2. /\ y \in Tunnel /\ y.call = x.call /\ y.status = s /\ y.handle = x.handle
        /\ y.marker = x.marker /\ y.proc = x.proc /\ y.stop = x.stop /\ y.watcher = x.watcher
        /\ y.port = x.port /\ y.owner = x.owner
    BY <1>1 DEF Tunnel
  <2>3. TunnelSound(y, shutting)
    <3> HIDE DEF x, y
    <3> QED BY <1>1, <2>2 DEF TunnelSound
  <2>4. y.status \in Listed => x.status \in Listed BY <2>2 DEF Listed
  <2> HIDE DEF y
  <2> QED BY <1>2, <2>1, <2>2, <2>3, <2>4, OneTunnel
<1>4. CASE ProcessExits(t)
  <2> DEFINE y == [x EXCEPT !.proc = "exited"]
  <2>1. tun' = [tun EXCEPT ![t] = y] /\ x.proc = "running" BY <1>1, <1>4 DEF ProcessExits
  <2>2. /\ y \in Tunnel /\ y.call = x.call /\ y.status = x.status /\ y.handle = x.handle
        /\ y.marker = x.marker /\ y.proc = "exited" /\ y.stop = x.stop /\ y.watcher = x.watcher
        /\ y.port = x.port /\ y.owner = x.owner
    BY <1>1 DEF Tunnel
  <2>3. TunnelSound(y, shutting)
    <3> HIDE DEF x, y
    <3> QED BY <1>1, <2>1, <2>2 DEF TunnelSound
  <2> HIDE DEF y
  <2> QED BY <1>2, <2>1, <2>2, <2>3, OneTunnel
<1>5. CASE WatchEnds(t)
  <2> DEFINE s == IF x.status = "starting" THEN IF x.proc = "exited" THEN "stopped" ELSE "failed"
                  ELSE x.status
             y == [x EXCEPT !.watcher = "handle", !.status = s]
  <2>1. tun' = [tun EXCEPT ![t] = y] /\ x.watcher = "on" BY <1>1, <1>5 DEF WatchEnds
  <2>2. /\ y \in Tunnel /\ y.call = x.call /\ y.status = s /\ y.handle = x.handle
        /\ y.marker = x.marker /\ y.proc = x.proc /\ y.stop = x.stop /\ y.watcher = "handle"
        /\ y.port = x.port /\ y.owner = x.owner
    BY <1>1 DEF Tunnel
  <2>3. TunnelSound(y, shutting)
    <3> HIDE DEF x, y
    <3> QED BY <1>1, <2>1, <2>2 DEF TunnelSound
  <2>4. y.status \in Listed => x.status \in Listed BY <2>2 DEF Listed
  <2> HIDE DEF y
  <2> QED BY <1>2, <2>1, <2>2, <2>3, <2>4, OneTunnel
<1>6. CASE WatchDropsHandle(t)
  <2> DEFINE y == [x EXCEPT !.watcher = "session", !.handle = FALSE, !.stop = x.stop \/ x.handle]
  <2>1. tun' = [tun EXCEPT ![t] = y] /\ x.watcher = "handle" BY <1>1, <1>6 DEF WatchDropsHandle
  <2>2. /\ y \in Tunnel /\ y.call = x.call /\ y.status = x.status /\ ~y.handle
        /\ y.marker = x.marker /\ y.proc = x.proc /\ y.stop = (x.stop \/ x.handle)
        /\ y.watcher = "session" /\ y.port = x.port /\ y.owner = x.owner
    BY <1>1 DEF Tunnel
  <2>3. TunnelSound(y, shutting)
    <3> HIDE DEF x, y
    <3> QED BY <1>1, <2>1, <2>2 DEF TunnelSound
  <2> HIDE DEF y
  <2> QED BY <1>2, <2>1, <2>2, <2>3, OneTunnel
<1>7. CASE WatchDropsSession(t)
  <2> DEFINE y == [x EXCEPT !.watcher = "gone", !.status = "none"]
  <2>1. tun' = [tun EXCEPT ![t] = y] /\ x.watcher = "session" BY <1>1, <1>7 DEF WatchDropsSession
  <2>2. /\ y \in Tunnel /\ y.call = x.call /\ y.status = "none" /\ y.handle = x.handle
        /\ y.marker = x.marker /\ y.proc = x.proc /\ y.stop = x.stop /\ y.watcher = "gone"
    BY <1>1 DEF Tunnel
  <2>3. TunnelSound(y, shutting)
    <3> HIDE DEF x, y
    <3> QED BY <1>1, <2>1, <2>2 DEF TunnelSound
  <2> HIDE DEF y
  <2> QED BY <1>2, <2>1, <2>2, <2>3, OneTunnel DEF Listed
<1> QED BY <1>3, <1>4, <1>5, <1>6, <1>7

\* The shutdown marks or stops every tunnel, and leaves none listed.
LEMMA DisposeTunnels ==
    ASSUME TunnelInv, DisposeRefuses \/ DisposeStops \/ DisposeEnds
    PROVE  TunnelInv' /\ \A t \in Tuns : tun'[t] = tun[t] \/ tun'[t].status = "none"
<1>1. tun \in [Tuns -> Tunnel] /\ \A t \in Tuns : tun[t] \in Tunnel /\ TunnelSound(tun[t], shutting)
  BY DEF TunnelInv
<1>2. CASE DisposeRefuses
  <2>1. tun' = tun /\ shutting = "no" /\ shutting' = "refusing" BY <1>2 DEF DisposeRefuses
  <2> QED BY <1>1, <2>1 DEF TunnelInv, TunnelSound
<1>3. CASE DisposeStops
  <2>1. tun' = [t \in Tuns |-> Disposed(tun[t])] /\ shutting = "refusing" /\ shutting' = "waiting"
    BY <1>3 DEF DisposeStops
  <2>2. ASSUME NEW t \in Tuns
        PROVE  Disposed(tun[t]) \in Tunnel /\ TunnelSound(Disposed(tun[t]), "waiting")
               /\ Disposed(tun[t]).status = "none"
    <3> DEFINE x == tun[t]
               y == Disposed(x)
    <3>1. x \in Tunnel /\ TunnelSound(x, "refusing") BY <1>1, <2>1
    <3>2. /\ y \in Tunnel /\ y.call = x.call /\ y.status = "none" /\ ~y.handle
          /\ y.marker = (x.marker \/ (x.status # "none" /\ ~x.handle)) /\ y.proc = x.proc
          /\ y.stop = (x.stop \/ x.handle) /\ y.watcher = x.watcher
      BY <3>1 DEF Disposed, Tunnel
    <3> HIDE DEF x, y
    <3>3. TunnelSound(y, "waiting") BY <3>1, <3>2 DEF TunnelSound
    <3> QED BY <3>2, <3>3 DEF x, y
  <2> QED BY <2>1, <2>2 DEF TunnelInv
<1>4. CASE DisposeEnds
  <2>1. /\ tun' = [t \in Tuns |-> [tun[t] EXCEPT !.marker = FALSE, !.status = "none"]]
        /\ shutting = "waiting" /\ shutting' = "done"
        /\ \A t \in Tuns : tun[t].call \notin {"starting", "started"}
    BY <1>4 DEF DisposeEnds, InFlight
  <2>2. ASSUME NEW t \in Tuns
        PROVE  tun'[t] \in Tunnel /\ TunnelSound(tun'[t], "done") /\ tun'[t].status = "none"
    <3> DEFINE x == tun[t]
               y == [x EXCEPT !.marker = FALSE, !.status = "none"]
    <3>1. x \in Tunnel /\ TunnelSound(x, "waiting") /\ tun'[t] = y BY <1>1, <2>1
    <3>2. /\ y \in Tunnel /\ y.call = x.call /\ y.status = "none" /\ y.handle = x.handle
          /\ ~y.marker /\ y.proc = x.proc /\ y.stop = x.stop /\ y.watcher = x.watcher
      BY <3>1 DEF Tunnel
    <3>3. x.call \notin {"starting", "started"} BY <2>1
    <3> HIDE DEF x, y
    <3>4. TunnelSound(y, "done") BY <3>1, <3>2, <3>3 DEF TunnelSound
    <3> QED BY <3>1, <3>2, <3>4
  <2>3. tun' \in [Tuns -> Tunnel] BY <2>1, <2>2
  <2> QED BY <2>1, <2>2, <2>3 DEF TunnelInv
<1> QED BY <1>2, <1>3, <1>4
-----------------------------------------------------------------------------
(* A tunnel follows the owner of its port, or a cleanup has yet to stop it *)

\* The maps and the tunnels of a new server.
LEMMA PortStart ==
    ASSUME PTInit
    PROVE  PortInv
<1>1. /\ reg = {} /\ ports = <<>> /\ hits = {} /\ unreg = {} /\ cleanups = {}
      /\ rows = {<<Nobody, p>> : p \in Ports} /\ pty = [i \in Incs |-> "unborn"]
      /\ lossWatch = <<>> /\ seed = [pc |-> "list"] /\ tun = [t \in Tuns |-> NewTunnel]
      /\ shutting = "no"
  BY DEF PTInit
<1>2. Tracked = {} /\ ports \in [Tracked -> Entry] /\ DOMAIN lossWatch = {}
  BY <1>1 DEF Tracked
<1>3. IsFiniteSet(rows)
  <2> DEFINE f == [p \in Ports |-> <<Nobody, p>>]
  <2>1. f \in Surjection(Ports, rows)
    BY <1>1 DEF Surjection
  <2> HIDE DEF f
  <2> QED BY <2>1, FS_Surjection, PortAssumption
<1>4. PortTypes
  <2>1. Cardinality(Tracked) <= MaxTracked
    BY <1>2, FS_EmptySet, PortAssumption
  <2>2. seed \in Seeding /\ seed.pc # "apply"
    BY <1>1 DEF Seeding
  <2>3. rows \subseteq AllRows
    BY <1>1 DEF AllRows
  <2>4. pty \in [Incs -> {"unborn", "running", "eof"}]
    BY <1>1
  <2> QED BY <1>1, <1>2, <1>3, <2>1, <2>2, <2>3, <2>4 DEF PortTypes
<1>5. RegistryInv
  BY <1>1, <1>2, <1>4 DEF RegistryInv, RegisteredRuns, PortsEndWithSession, RowsFollowPorts
<1>6. TunnelInv
  <2>1. NewTunnel \in Tunnel /\ TunnelSound(NewTunnel, "no")
    BY DEF NewTunnel, Tunnel, TunnelCalls, TunnelSound
  <2> QED BY <1>1, <2>1 DEF TunnelInv
<1>7. FollowsOrDoomed
  <2>1. \A t \in Tuns : tun[t].call = "unused"
    BY <1>1 DEF NewTunnel
  <2> QED BY <2>1 DEF FollowsOrDoomed
<1> QED BY <1>1, <1>5, <1>6, <1>7 DEF PortInv

\* An entry changes hands only if a cleanup of its last owner begins.
LEMMA PortsMove ==
    ASSUME PortInv, RegistryInv', UNCHANGED tunVars,
           cleanups \subseteq cleanups', cleanups' \subseteq Cleanup,
           \A p \in Tracked :
              \/ p \in Tracked' /\ ports'[p].owner = ports[p].owner
              \/ \E c \in cleanups' : c.port = p /\ c.owner = ports[p].owner /\ c.pc = "owned"
    PROVE  PortInv'
<1>1. tun' = tun /\ shutting' = shutting BY DEF tunVars
<1>2. TunnelInv' BY <1>1 DEF PortInv, TunnelInv
<1>3. FollowsOrDoomed'
  <2> SUFFICES ASSUME NEW t \in Tuns, tun[t].call = "done", tun[t].owner # Nobody,
                      tun[t].status \in {"starting", "ready"}
               PROVE  \/ Owns(tun[t].owner, tun[t].port)'
                      \/ \E c \in cleanups' : Dooms(c, t, tun[t].port, tun[t].owner)
    BY <1>1 DEF FollowsOrDoomed
  <2>1. \/ Owns(tun[t].owner, tun[t].port)
        \/ \E c \in cleanups : Dooms(c, t, tun[t].port, tun[t].owner)
    BY DEF PortInv, FollowsOrDoomed
  <2>2. CASE Owns(tun[t].owner, tun[t].port)
    BY <1>1, <2>2 DEF Owns, Dooms
  <2> QED BY <2>1, <2>2
<1> QED BY <1>2, <1>3 DEF PortInv

\* One tunnel moves, and the ports and the cleanups rest.
LEMMA TunnelMoves ==
    ASSUME PortInv, RegistryInv', TunnelInv', NEW t \in Tuns, Steady(t), UNCHANGED <<ports, cleanups>>
    PROVE  PortInv'
<1>1. FollowsOrDoomed'
  <2> SUFFICES ASSUME NEW u \in Tuns, tun'[u].call = "done", tun'[u].owner # Nobody,
                      tun'[u].status \in {"starting", "ready"}
               PROVE  \/ Owns(tun'[u].owner, tun'[u].port)
                      \/ \E c \in cleanups : Dooms(c, u, tun'[u].port, tun'[u].owner)
    BY DEF FollowsOrDoomed, Owns, Dooms, Tracked
  <2>1. \/ Owns(tun'[u].owner, tun'[u].port)
        \/ /\ tun[u].call = "done" /\ tun[u].status \in {"starting", "ready"}
           /\ tun'[u].port = tun[u].port /\ tun'[u].owner = tun[u].owner
    BY DEF Steady, Listed
  <2> QED BY <2>1 DEF PortInv, FollowsOrDoomed
<1> QED BY <1>1 DEF PortInv

\* The steps of the terminals and of the registry, of the seeding, of the
\* poller over the ports, and of the host.
LEMMA RegistryStep ==
    ASSUME PortInv,
           \/ \E i \in Incs : register_session(i)
           \/ \E i \in Incs, p \in Ports : scan_chunk(i, p)
           \/ \E i \in Incs, eof \in BOOLEAN : UnregisterIdentity(i, eof)
           \/ SeedLists \/ SeedLoads \/ SeedApplies
           \/ \E p \in Ports : GraceExpires(p)
           \/ \E k \in Ports \X Incs : confirm_listen(k)
    PROVE  PortInv'
<1>1. RegistryInv /\ cleanups \subseteq Cleanup
  BY DEF PortInv
<1>2. UNCHANGED tunVars /\ cleanups' = cleanups
  BY DEF register_session, scan_chunk, UnregisterIdentity, SeedLists, SeedLoads, SeedApplies,
         GraceExpires, confirm_listen
<1>3. ASSUME RegistryInv', Tracked \subseteq Tracked',
             \A p \in Tracked : ports'[p].owner = ports[p].owner
      PROVE  PortInv'
  BY <1>1, <1>2, <1>3, PortsMove
<1>4. ASSUME NEW i \in Incs,
             \/ register_session(i)
             \/ \E p \in Ports : scan_chunk(i, p)
             \/ \E eof \in BOOLEAN : UnregisterIdentity(i, eof)
      PROVE  PortInv'
  <2>1. ports' = ports BY <1>4 DEF register_session, scan_chunk, UnregisterIdentity, portVars
  <2>2. RegistryInv' BY <1>1, <1>4, SessionRegistry
  <2> QED BY <1>3, <2>1, <2>2 DEF Tracked
<1>5. CASE SeedLists \/ SeedLoads \/ SeedApplies
  BY <1>1, <1>3, <1>5, SeedRegistry
<1>6. CASE (\E p \in Ports : GraceExpires(p)) \/ (\E k \in Ports \X Incs : confirm_listen(k))
  BY <1>1, <1>3, <1>6, EntryRegistry DEF Tracked
<1> QED BY <1>4, <1>5, <1>6

\* A port that changes hands or leaves the map begins the cleanup of its owner.
LEMMA OwnerLeaves ==
    ASSUME PortInv,
           \/ \E h \in hits : report_stdout_hit(h)
           \/ \E i \in Incs : remove_session_ports(i)
           \/ \E k \in Ports \X Incs : report_lost(k)
    PROVE  PortInv'
<1>1. /\ RegistryInv /\ cleanups \subseteq Cleanup /\ ports \in [Tracked -> Entry]
      /\ Tracked \subseteq Ports /\ hits \subseteq Incs \X Ports
      /\ \A p \in Tracked : ports[p].owner \in Incs
  BY DEF PortInv, RegistryInv, PortTypes, Entry
<1>2. ASSUME NEW h \in hits, report_stdout_hit(h) PROVE PortInv'
  <2> DEFINE p == h[2]
             c == [port |-> p, owner |-> ports[p].owner, pc |-> "owned", free |-> FALSE,
                   by |-> "task", ids |-> {}]
             new == [owner |-> h[1], up |-> FALSE, grace |-> FALSE, seeded |-> FALSE]
  <2>1. RegistryInv' /\ UNCHANGED tunVars /\ p \in Ports
    BY <1>1, <1>2, HitRegistry DEF report_stdout_hit
  <2>2. CASE ~Admits(h[1], p)
    <3>1. ports' = ports /\ cleanups' = cleanups BY <1>2, <2>2 DEF report_stdout_hit
    <3> QED BY <1>1, <2>1, <3>1, PortsMove DEF Tracked
  <2>3. CASE Admits(h[1], p) /\ p \notin Tracked
    <3>1. ports' = Set(ports, p, new) /\ cleanups' = cleanups
      BY <1>2, <2>3 DEF report_stdout_hit
    <3>2. Tracked \subseteq Tracked' /\ \A x \in Tracked : ports'[x] = ports[x]
      BY <2>3, <3>1 DEF Set, Tracked
    <3> QED BY <1>1, <2>1, <3>1, <3>2, PortsMove
  <2>4. CASE Admits(h[1], p) /\ p \in Tracked
    <3>1. ports' = Set(ports, p, new) /\ cleanups' = cleanups \cup {c}
      BY <1>2, <2>4 DEF report_stdout_hit
    <3>2. Tracked \subseteq Tracked' /\ \A x \in Tracked \ {p} : ports'[x] = ports[x]
      BY <2>4, <3>1 DEF Set, Tracked
    <3>3. c \in Cleanup /\ c.port = p /\ c.owner = ports[p].owner /\ c.pc = "owned"
      BY <1>1, <2>1, <2>4 DEF Cleanup
    <3> HIDE DEF c, p, new
    <3>4. cleanups \subseteq cleanups' /\ cleanups' \subseteq Cleanup /\ c \in cleanups'
      BY <1>1, <3>1, <3>3
    <3> QED BY <2>1, <3>2, <3>3, <3>4, PortsMove
  <2> QED BY <2>2, <2>3, <2>4
<1>3. ASSUME NEW i \in Incs, remove_session_ports(i) PROVE PortInv'
  <2> DEFINE mine == {p \in Tracked : ports[p].owner = i}
             new(p) == [port |-> p, owner |-> i, pc |-> "owned", free |-> TRUE,
                        by |-> "task", ids |-> {}]
  <2>1. RegistryInv' /\ UNCHANGED tunVars
    BY <1>1, <1>3, LossRegistry DEF remove_session_ports
  <2>2. ports' = Drop(ports, mine) /\ cleanups' = cleanups \cup {new(p) : p \in mine}
    BY <1>3 DEF remove_session_ports
  <2>3. \A p \in mine : /\ new(p) \in Cleanup /\ new(p).port = p
                        /\ new(p).owner = ports[p].owner /\ new(p).pc = "owned"
    BY <1>1 DEF Cleanup
  <2>4. Tracked' = Tracked \ mine /\ \A p \in Tracked' : ports'[p] = ports[p]
    BY <2>2 DEF Drop, Tracked
  <2> HIDE DEF mine, new
  <2>5. /\ cleanups \subseteq cleanups' /\ cleanups' \subseteq Cleanup
        /\ \A p \in mine : new(p) \in cleanups'
    BY <1>1, <2>2, <2>3
  <2> QED BY <2>1, <2>3, <2>4, <2>5, PortsMove
<1>4. ASSUME NEW k \in Ports \X Incs, report_lost(k) PROVE PortInv'
  <2> DEFINE lost == StillOwns(k) /\ (ports[k[1]].up \/ ~ports[k[1]].grace)
             c == [port |-> k[1], owner |-> k[2], pc |-> "owned", free |-> TRUE,
                   by |-> "poller", ids |-> {}]
  <2>1. RegistryInv' /\ UNCHANGED tunVars
    BY <1>1, <1>4, LossRegistry DEF report_lost
  <2>2. CASE ~lost
    <3>1. ports' = ports /\ cleanups' = cleanups BY <1>4, <2>2 DEF report_lost
    <3> QED BY <1>1, <2>1, <3>1, PortsMove DEF Tracked
  <2>3. CASE lost
    <3>1. ports' = Drop(ports, {k[1]}) /\ cleanups' = cleanups \cup {c}
      BY <1>4, <2>3 DEF report_lost
    <3>2. Tracked' = Tracked \ {k[1]} /\ \A p \in Tracked' : ports'[p] = ports[p]
      BY <3>1 DEF Drop, Tracked
    <3>3. c \in Cleanup /\ c.port = k[1] /\ c.owner = ports[k[1]].owner /\ c.pc = "owned"
      BY <2>3 DEF Cleanup, StillOwns
    <3> HIDE DEF c
    <3>4. cleanups \subseteq cleanups' /\ cleanups' \subseteq Cleanup /\ c \in cleanups'
      BY <1>1, <3>1, <3>3
    <3> QED BY <2>1, <3>2, <3>3, <3>4, PortsMove
  <2> QED BY <2>2, <2>3
<1> QED BY <1>2, <1>3, <1>4

\* A cleanup lists the tunnels of its port and owner before it stops them.
LEMMA CleanupStep ==
    ASSUME PortInv, NEW c \in cleanups, CleanupLists(c) \/ CleanupStops(c)
    PROVE  PortInv'
<1>1. /\ RegistryInv /\ TunnelInv /\ cleanups \subseteq Cleanup /\ c \in Cleanup
      /\ DOMAIN lossWatch \subseteq Tuns
  BY DEF PortInv, RegistryInv, PortTypes
<1>2. RegistryInv' /\ UNCHANGED <<ports, shutting>>
  <2>1. UNCHANGED <<sessionVars, portVars, pollVars, seed, shutting>>
    BY DEF CleanupLists, CleanupStops, tunVars
  <2>2. lossWatch' = lossWatch BY <2>1 DEF pollVars
  <2> QED BY <1>1, <2>1, <2>2, RegistryRests DEF portVars
<1>3. CASE CleanupLists(c)
  <2> DEFINE ids == OwnedBy(c.port, IF c.pc = "owned" THEN c.owner ELSE Nobody)
             pc == IF c.pc = "owned" THEN "stopOwned" ELSE "stopFree"
             d == [c EXCEPT !.pc = pc, !.ids = ids]
  <2>1. cleanups' = (cleanups \ {c}) \cup {d} /\ tun' = tun /\ c.pc \in {"owned", "free"}
    BY <1>3 DEF CleanupLists, tunVars
  <2>2. ids \subseteq Tuns BY DEF OwnedBy
  <2>3. /\ d \in Cleanup /\ d.port = c.port /\ d.owner = c.owner
        /\ d.ids = ids /\ d.pc = pc
    <3> HIDE DEF ids
    <3> QED BY <1>1, <2>2 DEF Cleanup
  <2>4. TunnelInv' BY <1>1, <1>2, <2>1 DEF TunnelInv
  <2>5. FollowsOrDoomed'
    <3> SUFFICES ASSUME NEW t \in Tuns, tun[t].call = "done", tun[t].owner # Nobody,
                        tun[t].status \in {"starting", "ready"},
                        ~Owns(tun[t].owner, tun[t].port)
                 PROVE  \E e \in cleanups' : Dooms(e, t, tun[t].port, tun[t].owner)
      BY <1>2, <2>1 DEF FollowsOrDoomed, Owns, Tracked
    <3>1. PICK e \in cleanups : Dooms(e, t, tun[t].port, tun[t].owner)
      BY DEF PortInv, FollowsOrDoomed
    <3>2. CASE e # c
      BY <2>1, <3>1, <3>2
    <3>3. CASE e = c
      <4>1. c.pc = "owned" /\ c.port = tun[t].port /\ c.owner = tun[t].owner
        BY <2>1, <3>1, <3>3 DEF Dooms
      <4>2. t \in ids /\ pc = "stopOwned"
        BY <4>1 DEF OwnedBy
      <4> HIDE DEF ids, pc, d
      <4> QED BY <2>1, <2>3, <4>1, <4>2 DEF Dooms
    <3> QED BY <3>2, <3>3
  <2>6. cleanups' \subseteq Cleanup BY <1>1, <2>1, <2>3
  <2> QED BY <1>2, <2>4, <2>5, <2>6 DEF PortInv
<1>4. CASE CleanupStops(c) /\ c.ids # {}
  <2>1. PICK t \in c.ids : /\ tun' = [tun EXCEPT ![t] = Stopped(tun[t])]
                           /\ cleanups' = (cleanups \ {c}) \cup {[c EXCEPT !.ids = c.ids \ {t}]}
    BY <1>4 DEF CleanupStops
  <2> DEFINE d == [c EXCEPT !.ids = c.ids \ {t}]
  <2>2. t \in Tuns /\ c.ids \subseteq Tuns /\ tun \in [Tuns -> Tunnel]
    BY <1>1 DEF Cleanup, TunnelInv
  <2>3. /\ d \in Cleanup /\ d.port = c.port /\ d.owner = c.owner
        /\ d.ids = c.ids \ {t} /\ d.pc = c.pc
    BY <1>1, <2>2 DEF Cleanup
  <2>4. TunnelInv' /\ Steady(t) BY <1>1, <1>2, <2>1, <2>2, StopTunnel
  <2>5. tun'[t].status = "none" /\ \A u \in Tuns \ {t} : tun'[u] = tun[u]
    <3>1. tun[t] \in Tunnel /\ TunnelSound(tun[t], shutting) BY <1>1, <2>2 DEF TunnelInv
    <3> QED BY <2>1, <2>2, <3>1, StoppedSound
  <2>6. cleanups' = (cleanups \ {c}) \cup {d} BY <2>1
  <2> HIDE DEF d
  <2>7. FollowsOrDoomed'
    <3> SUFFICES ASSUME NEW u \in Tuns, tun'[u].call = "done", tun'[u].owner # Nobody,
                        tun'[u].status \in {"starting", "ready"},
                        ~Owns(tun'[u].owner, tun'[u].port)
                 PROVE  \E e \in cleanups' : Dooms(e, u, tun'[u].port, tun'[u].owner)
      BY <1>2 DEF FollowsOrDoomed, Owns, Tracked
    <3>1. u # t /\ tun'[u] = tun[u] BY <2>5
    <3>2. PICK e \in cleanups : Dooms(e, u, tun[u].port, tun[u].owner)
      BY <3>1 DEF PortInv, FollowsOrDoomed
    <3>3. CASE e # c
      BY <2>6, <3>1, <3>2, <3>3
    <3>4. CASE e = c
      BY <2>3, <2>6, <3>1, <3>2, <3>4 DEF Dooms
    <3> QED BY <3>3, <3>4
  <2>8. cleanups' \subseteq Cleanup BY <1>1, <2>3, <2>6
  <2> QED BY <1>2, <2>4, <2>7, <2>8 DEF PortInv
<1>5. CASE CleanupStops(c) /\ c.ids = {}
  <2> DEFINE d == [c EXCEPT !.pc = "free"]
             next == IF c.pc = "stopOwned" /\ c.free THEN {d} ELSE {}
  <2>1. /\ cleanups' = (cleanups \ {c}) \cup next /\ tun' = tun
        /\ c.pc \in {"stopOwned", "stopFree"}
    BY <1>5 DEF CleanupStops
  <2>2. d \in Cleanup BY <1>1 DEF Cleanup
  <2>3. next \subseteq Cleanup BY <2>2
  <2> HIDE DEF next, d
  <2>4. TunnelInv' BY <1>1, <1>2, <2>1 DEF TunnelInv
  <2>5. FollowsOrDoomed'
    <3> SUFFICES ASSUME NEW t \in Tuns, tun[t].call = "done", tun[t].owner # Nobody,
                        tun[t].status \in {"starting", "ready"},
                        ~Owns(tun[t].owner, tun[t].port)
                 PROVE  \E e \in cleanups' : Dooms(e, t, tun[t].port, tun[t].owner)
      BY <1>2, <2>1 DEF FollowsOrDoomed, Owns, Tracked
    <3>1. PICK e \in cleanups : Dooms(e, t, tun[t].port, tun[t].owner)
      BY DEF PortInv, FollowsOrDoomed
    <3>2. e # c BY <1>5, <2>1, <3>1 DEF Dooms
    <3> QED BY <2>1, <3>1, <3>2
  <2>6. cleanups' \subseteq Cleanup BY <1>1, <2>1, <2>3
  <2> QED BY <1>2, <2>4, <2>5, <2>6 DEF PortInv
<1> QED BY <1>3, <1>4, <1>5

\* The poller between its reports, and the host.
LEMMA PollerStep ==
    ASSUME PortInv,
           \/ \E p \in Ports : HostFlips(p)
           \/ PollSamples \/ sync_ownerless_tunnel_ports \/ PollEnds
           \/ \E t \in Tuns : confirm_ownerless_tunnel_listen(t)
    PROVE  PortInv'
<1>1. RegistryInv /\ cleanups \subseteq Cleanup /\ DOMAIN lossWatch \subseteq Tuns
  BY DEF PortInv, RegistryInv, PortTypes
<1>2. UNCHANGED <<sessionVars, portVars, tunVars, cleanups, seed>>
  BY DEF HostFlips, PollSamples, sync_ownerless_tunnel_ports, PollEnds, confirm_ownerless_tunnel_listen
<1>3. DOMAIN lossWatch' \subseteq Tuns
  <2>1. CASE \/ \E p \in Ports : HostFlips(p)
             \/ PollSamples \/ PollEnds
    BY <1>1, <2>1 DEF HostFlips, PollSamples, PollEnds
  <2>2. CASE sync_ownerless_tunnel_ports
    BY <2>2 DEF sync_ownerless_tunnel_ports, Ownerless
  <2>3. CASE \E t \in Tuns : confirm_ownerless_tunnel_listen(t)
    BY <1>1, <2>3 DEF confirm_ownerless_tunnel_listen
  <2> QED BY <2>1, <2>2, <2>3
<1>4. RegistryInv' BY <1>1, <1>2, <1>3, RegistryRests
<1>5. ports' = ports /\ UNCHANGED tunVars /\ cleanups' = cleanups BY <1>2 DEF portVars
<1> QED BY <1>1, <1>4, <1>5, PortsMove DEF Tracked

\* The steps of one tunnel.
LEMMA TunnelStep ==
    ASSUME PortInv, NEW t \in Tuns,
           \/ stop_tunnel(t) \/ report_ownerless_tunnel_lost(t)
           \/ \E p \in Ports : CreateCaptures(t, p)
           \/ CreateAdmitted(t) \/ DriverStarts(t) \/ DriverFails(t) \/ CreatePublishes(t)
           \/ CreateRechecks(t)
           \/ UrlReady(t) \/ ProcessExits(t) \/ WatchEnds(t)
           \/ WatchDropsHandle(t) \/ WatchDropsSession(t)
    PROVE  PortInv'
<1>1. RegistryInv /\ TunnelInv /\ PortTypes /\ DOMAIN lossWatch \subseteq Tuns
  BY DEF PortInv, RegistryInv, PortTypes
<1>2. UNCHANGED <<sessionVars, portVars, cleanups, seed>>
  BY DEF stop_tunnel, report_ownerless_tunnel_lost, CreateCaptures, CreateAdmitted, DriverStarts,
         DriverFails, CreatePublishes, CreateRechecks, UrlReady, ProcessExits, WatchEnds,
         WatchDropsHandle, WatchDropsSession
<1>3. DOMAIN lossWatch' \subseteq Tuns
  <2>1. CASE report_ownerless_tunnel_lost(t)
    BY <1>1, <2>1 DEF report_ownerless_tunnel_lost, Drop
  <2>2. CASE ~report_ownerless_tunnel_lost(t)
    <3>1. lossWatch' = lossWatch
      BY <2>2 DEF stop_tunnel, CreateCaptures, CreateAdmitted, DriverStarts, DriverFails,
                  CreatePublishes, CreateRechecks, UrlReady, ProcessExits, WatchEnds,
                  WatchDropsHandle, WatchDropsSession, pollVars
    <3> QED BY <1>1, <3>1
  <2> QED BY <2>1, <2>2
<1>4. RegistryInv' BY <1>1, <1>2, <1>3, RegistryRests
<1>5. UNCHANGED <<ports, cleanups>> BY <1>2 DEF portVars
<1>6. TunnelInv' /\ Steady(t)
  <2>1. CASE stop_tunnel(t) \/ report_ownerless_tunnel_lost(t)
    <3>1. tun' = [tun EXCEPT ![t] = Stopped(tun[t])] /\ shutting' = shutting
      BY <2>1 DEF stop_tunnel, report_ownerless_tunnel_lost
    <3> QED BY <1>1, <3>1, StopTunnel
  <2>2. CASE \/ \E p \in Ports : CreateCaptures(t, p)
             \/ CreateAdmitted(t) \/ DriverStarts(t) \/ DriverFails(t) \/ CreatePublishes(t)
    BY <1>1, <2>2, CreateTunnel
  <2>3. CASE CreateRechecks(t)
    BY <1>1, <2>3, RecheckTunnel
  <2>4. CASE \/ UrlReady(t) \/ ProcessExits(t) \/ WatchEnds(t)
             \/ WatchDropsHandle(t) \/ WatchDropsSession(t)
    BY <1>1, <2>4, WatchTunnel
  <2> QED BY <2>1, <2>2, <2>3, <2>4
<1> QED BY <1>4, <1>5, <1>6, TunnelMoves

\* The shutdown of the tunnels.
LEMMA DisposeStep ==
    ASSUME PortInv, DisposeRefuses \/ DisposeStops \/ DisposeEnds
    PROVE  PortInv'
<1>1. RegistryInv /\ TunnelInv /\ DOMAIN lossWatch \subseteq Tuns
  BY DEF PortInv, RegistryInv, PortTypes
<1>2. UNCHANGED <<sessionVars, portVars, pollVars, cleanups, seed>>
  BY DEF DisposeRefuses, DisposeStops, DisposeEnds
<1>3. RegistryInv'
  BY <1>1, <1>2, RegistryRests DEF pollVars
<1>4. TunnelInv' /\ \A t \in Tuns : tun'[t] = tun[t] \/ tun'[t].status = "none"
  BY <1>1, DisposeTunnels
<1>5. FollowsOrDoomed'
  <2> SUFFICES ASSUME NEW t \in Tuns, tun'[t].call = "done", tun'[t].owner # Nobody,
                      tun'[t].status \in {"starting", "ready"}
               PROVE  \/ Owns(tun'[t].owner, tun'[t].port)
                      \/ \E c \in cleanups : Dooms(c, t, tun'[t].port, tun'[t].owner)
    BY <1>2 DEF FollowsOrDoomed, Owns, Tracked, portVars
  <2>1. tun'[t] = tun[t] BY <1>4
  <2> QED BY <2>1 DEF PortInv, FollowsOrDoomed
<1> QED BY <1>2, <1>3, <1>4, <1>5 DEF PortInv

\* Every step of the ports and the tunnels keeps the invariant.
LEMMA PortStep ==
    ASSUME PortInv, [PTNext]_ptVars
    PROVE  PortInv'
<1>1. CASE UNCHANGED ptVars
  <2>1. UNCHANGED <<sessionVars, portVars, tunVars, cleanups, seed, lossWatch>>
    BY <1>1 DEF ptVars, pollVars
  <2>2. RegistryInv' BY <2>1, RegistryRests DEF PortInv, RegistryInv, PortTypes
  <2>3. ports' = ports /\ UNCHANGED tunVars /\ cleanups' = cleanups BY <2>1 DEF portVars
  <2>4. cleanups \subseteq Cleanup BY DEF PortInv
  <2> QED BY <2>2, <2>3, <2>4, PortsMove DEF Tracked
<1>2. CASE PTNext
  <2>1. CASE \/ \E i \in Incs : register_session(i)
             \/ \E i \in Incs, p \in Ports : scan_chunk(i, p)
             \/ \E i \in Incs, eof \in BOOLEAN : UnregisterIdentity(i, eof)
             \/ SeedLists \/ SeedLoads \/ SeedApplies
             \/ \E p \in Ports : GraceExpires(p)
             \/ \E k \in Ports \X Incs : confirm_listen(k)
    BY <2>1, RegistryStep
  <2>2. CASE \/ \E h \in hits : report_stdout_hit(h)
             \/ \E i \in Incs : remove_session_ports(i)
             \/ \E k \in Ports \X Incs : report_lost(k)
    BY <2>2, OwnerLeaves
  <2>3. CASE \/ \E p \in Ports : HostFlips(p)
             \/ PollSamples \/ sync_ownerless_tunnel_ports \/ PollEnds
             \/ \E t \in Tuns : confirm_ownerless_tunnel_listen(t)
    BY <2>3, PollerStep
  <2>4. CASE \E c \in cleanups : CleanupLists(c) \/ CleanupStops(c)
    BY <2>4, CleanupStep
  <2>5. CASE \E t \in Tuns :
               \/ stop_tunnel(t) \/ report_ownerless_tunnel_lost(t)
               \/ \E p \in Ports : CreateCaptures(t, p)
               \/ CreateAdmitted(t) \/ DriverStarts(t) \/ DriverFails(t) \/ CreatePublishes(t)
               \/ CreateRechecks(t)
               \/ UrlReady(t) \/ ProcessExits(t) \/ WatchEnds(t)
               \/ WatchDropsHandle(t) \/ WatchDropsSession(t)
    BY <2>5, TunnelStep
  <2>6. CASE DisposeRefuses \/ DisposeStops \/ DisposeEnds
    BY <2>6, DisposeStep
  <2> QED BY <1>2, <2>1, <2>2, <2>3, <2>4, <2>5, <2>6 DEF PTNext
<1> QED BY <1>1, <1>2

\* What holds of the maps, the table, the tunnels and the cleanups under way
\* is the property the run checks.
LEMMA PortInvImplies ==
    ASSUME PortInv
    PROVE  PortsFollowOwners
<1>1. RegistryInv /\ TunnelInv /\ PortTypes BY DEF PortInv, RegistryInv
<1>2. PortTypeOK
  <2>1. \A p \in Tracked : ports[p].owner \in Incs BY <1>1 DEF PortTypes, Entry
  <2>2. \A t \in Tuns : tun[t].status \in {"none", "starting", "ready", "failed", "stopped"}
    BY <1>1 DEF TunnelInv, Tunnel
  <2>3. rows \subseteq (Incs \cup {Nobody}) \X Ports BY <1>1 DEF PortTypes, AllRows
  <2> QED BY <1>1, <2>1, <2>2, <2>3 DEF PortTypes, PortTypeOK
<1>3. NoOrphanTunnel
  <2> SUFFICES ASSUME NEW t \in Tuns, tun[t].proc = "running", ~tun[t].stop
               PROVE  \/ tun[t].handle /\ tun[t].status # "none"
                      \/ tun[t].call = "started" /\ (tun[t].status # "none" \/ tun[t].marker)
    BY DEF NoOrphanTunnel
  <2> QED BY <1>1 DEF TunnelInv, TunnelSound
<1>4. TunnelFollowsOwner
  BY DEF PortInv, FollowsOrDoomed, TunnelFollowsOwner, Owns, Dooms
<1>5. DisposedIsDown
  <2> SUFFICES ASSUME shutting = "done", NEW t \in Tuns
               PROVE  ~InFlight(t) /\ (tun[t].proc = "running" => tun[t].stop)
    BY DEF DisposedIsDown
  <2>1. TunnelSound(tun[t], "done") BY <1>1 DEF TunnelInv
  <2> QED BY <2>1 DEF TunnelSound, InFlight
<1> QED BY <1>1, <1>2, <1>3, <1>4, <1>5 DEF RegistryInv, PortsFollowOwners

\* The invariant of ports and tunnels: entries, rows and registered
\* incarnations agree, every tunnel stands where its creation and its stop
\* left it, and a created tunnel is on its owner's port or about to be stopped
\* (report_stdout_hit, create_tunnel, stop_by_port_for_owner, dispose_all).
THEOREM PortInvariant == PTSpec => []PortInv
<1>1. PTInit => PortInv BY PortStart
<1>2. PortInv /\ [PTNext]_ptVars => PortInv' BY PortStep
<1> QED BY <1>1, <1>2, PTL DEF PTSpec

\* Ports, rows and tunnels follow the terminals that own them, for every
\* number of ports, incarnations and tunnels and every order of their steps
\* (port_forward/manager.rs, tunnel/manager.rs).
THEOREM PortsKeepFollowing == PTSpec => []PortsFollowOwners
<1>1. PortInv => PortsFollowOwners BY PortInvImplies
<1> QED BY <1>1, PortInvariant, PTL
==============================================================================
