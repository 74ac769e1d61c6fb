---------------------------- MODULE EvidenceProofs ----------------------------
(***************************************************************************)
(* Theorems about Orchestrator and Retrieval, for any values of their      *)
(* constants: which documents a plan searches, and what is cited of them.  *)
(*                                                                         *)
(* Both build lists out of lists.  What a list keeps of another is said by *)
(* Selections, whose places are numbered by a count; what a merge does to  *)
(* a list is said as the property of all lists that the component builds:  *)
(* Lists, where no document comes twice, and OfParent, where the key of an *)
(* evidence is the block of its chunk.                                     *)
(***************************************************************************)
EXTENDS Orchestrator, Retrieval, FiniteSetTheorems, WellFoundedInduction, TLAPS

-----------------------------------------------------------------------------
(* Selections. *)

\* The number of a place counts the places up to it: the count orders a set of
\* n places and takes each value from 1 to n once.
LEMMA PlacesNumbered ==
    ASSUME NEW I \in SUBSET Nat, IsFiniteSet(I)
    PROVE  /\ Cardinality(I) \in Nat
           /\ \A n \in 1 .. Cardinality(I) :
                 /\ PlaceNumber(I, n) \in I
                 /\ Cardinality({k \in I : k <= PlaceNumber(I, n)}) = n
           /\ \A n, m \in 1 .. Cardinality(I) :
                 PlaceNumber(I, n) = PlaceNumber(I, m) => n = m
           /\ \A i \in I : \E n \in 1 .. Cardinality(I) : PlaceNumber(I, n) = i
<1> DEFINE UpTo(i) == {k \in I : k <= i}
           rank == [i \in I |-> Cardinality(UpTo(i))]
           N == 1 .. Cardinality(I)
<1>1. Cardinality(I) \in Nat /\ IsFiniteSet(N) /\ Cardinality(N) = Cardinality(I)
  BY FS_CardinalityType, FS_Interval
<1>2. \A i \in I : IsFiniteSet(UpTo(i)) /\ Cardinality(UpTo(i)) \in Nat
                   /\ Cardinality(UpTo(i)) <= Cardinality(I) /\ i \in UpTo(i)
  BY FS_Subset, FS_CardinalityType
<1>3. \A i \in I : Cardinality(UpTo(i)) # 0
  BY <1>2, FS_EmptySet
<1>4. ASSUME NEW i \in I, NEW j \in I, i < j PROVE Cardinality(UpTo(i)) # Cardinality(UpTo(j))
  <2>0. i \in Nat /\ j \in Nat /\ \A z \in I : z \in Nat
    OBVIOUS
  <2>1. UpTo(i) \subseteq UpTo(j) /\ j \in UpTo(j) /\ j \notin UpTo(i)
    <3>1. \A z \in I : z <= i => z <= j
      BY <1>4, <2>0
    <3>2. j <= j /\ ~(j <= i)
      BY <1>4, <2>0
    <3> QED
      BY <3>1, <3>2, Zenon
  <2> HIDE DEF UpTo
  <2> QED
    BY <1>2, <2>1, FS_Subset
<1>5. rank \in Injection(I, N)
  <2>1. \A i \in I : Cardinality(UpTo(i)) \in N
    <3> HIDE DEF UpTo
    <3> QED
      BY <1>1, <1>2, <1>3
  <2>2. \A i, j \in I : i = j \/ i < j \/ j < i
    OBVIOUS
  <2> HIDE DEF UpTo
  <2>3. \A i, j \in I : rank[i] = rank[j] => i = j
    BY <1>4, <2>2
  <2> QED
    BY <2>1, <2>3 DEF Injection, IsInjective
<1>6. rank \in Surjection(I, N)
  <2> HIDE DEF rank, N
  <2> QED
    BY <1>1, <1>5, FS_Injection
<1>7. ASSUME NEW n \in N
      PROVE  PlaceNumber(I, n) \in I /\ Cardinality(UpTo(PlaceNumber(I, n))) = n
  <2>1. \E i \in I : Cardinality(UpTo(i)) = n
    BY <1>6 DEF Surjection
  <2> QED
    BY <2>1 DEF PlaceNumber
<1>8. ASSUME NEW i \in I PROVE \E n \in N : PlaceNumber(I, n) = i
  <2>1. rank[i] \in N /\ Cardinality(UpTo(i)) = rank[i]
    BY <1>5 DEF Injection
  <2>2. PlaceNumber(I, rank[i]) \in I /\ rank[PlaceNumber(I, rank[i])] = rank[i]
    BY <1>7, <2>1
  <2> HIDE DEF rank
  <2>3. PlaceNumber(I, rank[i]) = i
    BY <1>5, <2>2 DEF Injection, IsInjective
  <2> QED
    BY <2>1, <2>3
<1> HIDE DEF rank
<1>9. ASSUME NEW n \in N, NEW m \in N, PlaceNumber(I, n) = PlaceNumber(I, m) PROVE n = m
  BY <1>7, <1>9
<1> QED
  BY <1>1, <1>7, <1>8, <1>9

\* What is selected comes from the places, each once, and from all of them.
LEMMA SelectedAt ==
    ASSUME NEW S, NEW s \in Seq(S), NEW I \in SUBSET DOMAIN s
    PROVE  /\ AtPlaces(s, I) \in Seq(S)
           /\ Cardinality(I) \in Nat /\ Len(AtPlaces(s, I)) = Cardinality(I)
           /\ \A n \in DOMAIN AtPlaces(s, I) :
                 /\ n \in 1 .. Cardinality(I) /\ PlaceNumber(I, n) \in I
                 /\ AtPlaces(s, I)[n] = s[PlaceNumber(I, n)]
           /\ \A n, m \in DOMAIN AtPlaces(s, I) :
                 PlaceNumber(I, n) = PlaceNumber(I, m) => n = m
           /\ \A i \in I : \E n \in DOMAIN AtPlaces(s, I) : AtPlaces(s, I)[n] = s[i]
<1>1. IsFiniteSet(I) /\ I \in SUBSET Nat
  <2>1. DOMAIN s = 1 .. Len(s) /\ Len(s) \in Nat
    OBVIOUS
  <2>2. IsFiniteSet(DOMAIN s)
    BY <2>1, FS_Interval
  <2> QED
    BY <2>1, <2>2, FS_Subset
<1>2. /\ Cardinality(I) \in Nat
      /\ \A n \in 1 .. Cardinality(I) : PlaceNumber(I, n) \in I
      /\ \A n, m \in 1 .. Cardinality(I) : PlaceNumber(I, n) = PlaceNumber(I, m) => n = m
      /\ \A i \in I : \E n \in 1 .. Cardinality(I) : PlaceNumber(I, n) = i
  BY <1>1, PlacesNumbered
<1>3. \A n \in 1 .. Cardinality(I) : s[PlaceNumber(I, n)] \in S
  BY <1>2
<1>4. /\ AtPlaces(s, I) \in Seq(S) /\ Len(AtPlaces(s, I)) = Cardinality(I)
      /\ DOMAIN AtPlaces(s, I) = 1 .. Cardinality(I)
      /\ \A n \in 1 .. Cardinality(I) : AtPlaces(s, I)[n] = s[PlaceNumber(I, n)]
  BY <1>2, <1>3 DEF AtPlaces
<1> QED
  BY <1>2, <1>4

-----------------------------------------------------------------------------
(* Lists of candidates. *)

OneDocEach(s) == \A i, j \in DOMAIN s : s[i].doc = s[j].doc => i = j

LEMMA MinOfTwo ==
    ASSUME NEW a \in Nat, NEW b \in Nat
    PROVE  Min({a, b}) = IF a <= b THEN a ELSE b
<1> DEFINE m == IF a <= b THEN a ELSE b
<1>1. m \in {a, b} /\ \A y \in {a, b} : m =< y
  OBVIOUS
<1>2. ASSUME NEW x \in {a, b}, \A y \in {a, b} : x =< y PROVE x = m
  BY <1>2
<1> QED
  BY <1>1, <1>2 DEF Min

\* Candidates of different documents, the first of them, and some of them.
Lists == {s \in Seq(Candidates) : OneDocEach(s)}

LEMMA FirstOfList ==
    ASSUME NEW s \in Lists, NEW n \in Nat
    PROVE  First(s, n) \in Lists /\ (s # <<>> /\ n > 0 => First(s, n) # <<>>)
<1>1. s \in Seq(Candidates) /\ Len(s) \in Nat
  BY DEF Lists
<1> DEFINE m == IF n <= Len(s) THEN n ELSE Len(s)
<1>2. First(s, n) = SubSeq(s, 1, m) /\ m \in 0 .. Len(s)
  BY <1>1, MinOfTwo DEF First
<1>3. /\ SubSeq(s, 1, m) \in Seq(Candidates) /\ Len(SubSeq(s, 1, m)) = m
      /\ \A i \in 1 .. m : SubSeq(s, 1, m)[i] = s[i]
  BY <1>1, <1>2
<1>4. OneDocEach(SubSeq(s, 1, m))
  BY <1>1, <1>2, <1>3 DEF Lists, OneDocEach
<1>5. s # <<>> /\ n > 0 => m > 0
  BY <1>1
<1> HIDE DEF m
<1> QED
  BY <1>2, <1>3, <1>4, <1>5 DEF Lists

LEMMA SelectedList ==
    ASSUME NEW s \in Lists, NEW I \in SUBSET DOMAIN s
    PROVE  /\ AtPlaces(s, I) \in Lists
           /\ \A n \in DOMAIN AtPlaces(s, I) : \E i \in I : AtPlaces(s, I)[n] = s[i]
<1>1. s \in Seq(Candidates) /\ OneDocEach(s)
  BY DEF Lists
<1>2. /\ AtPlaces(s, I) \in Seq(Candidates)
      /\ \A n \in DOMAIN AtPlaces(s, I) :
            /\ PlaceNumber(I, n) \in I
            /\ AtPlaces(s, I)[n] = s[PlaceNumber(I, n)]
      /\ \A n, m \in DOMAIN AtPlaces(s, I) :
            PlaceNumber(I, n) = PlaceNumber(I, m) => n = m
  BY <1>1, SelectedAt
<1> HIDE DEF AtPlaces
<1> QED
  BY <1>1, <1>2 DEF Lists, OneDocEach

\* The fallback adds only documents the route has not.
LEMMA MergedList ==
    ASSUME NEW p \in Lists, NEW q \in Lists
    PROVE  MergedCandidates(p, q) \in Lists /\ (p # <<>> => MergedCandidates(p, q) # <<>>)
<1> DEFINE I == {i \in DOMAIN q : q[i].doc \notin ToSet(DocsOf(p))}
           r == AtPlaces(q, I)
<1>1. r \in Lists /\ \A n \in DOMAIN r : \E i \in I : r[n] = q[i]
  <2>1. I \in SUBSET DOMAIN q
    OBVIOUS
  <2> HIDE DEF I
  <2> QED
    BY <2>1, SelectedList
<1>2. \A n \in DOMAIN r, i \in DOMAIN p : r[n].doc # p[i].doc
  BY <1>1 DEF ToSet, DocsOf
<1> HIDE DEF r
<1>3. /\ p \in Seq(Candidates) /\ r \in Seq(Candidates)
      /\ Len(p) \in Nat /\ Len(r) \in Nat /\ DOMAIN p = 1 .. Len(p) /\ DOMAIN r = 1 .. Len(r)
  BY <1>1 DEF Lists
<1>4. /\ p \o r \in Seq(Candidates) /\ Len(p \o r) = Len(p) + Len(r)
      /\ DOMAIN (p \o r) = 1 .. Len(p) + Len(r)
      /\ \A i \in 1 .. Len(p) : (p \o r)[i] = p[i]
      /\ \A i \in Len(p) + 1 .. Len(p) + Len(r) :
            i - Len(p) \in 1 .. Len(r) /\ (p \o r)[i] = r[i - Len(p)]
  BY <1>3
<1>5. ASSUME NEW i \in DOMAIN (p \o r), NEW j \in DOMAIN (p \o r),
             (p \o r)[i].doc = (p \o r)[j].doc
      PROVE  i = j
  <2>1. /\ i \in 1 .. Len(p) \/ i \in Len(p) + 1 .. Len(p) + Len(r)
        /\ j \in 1 .. Len(p) \/ j \in Len(p) + 1 .. Len(p) + Len(r)
    BY <1>3, <1>4
  <2>2. CASE i \in 1 .. Len(p) /\ j \in 1 .. Len(p)
    BY <1>3, <1>4, <1>5, <2>2 DEF Lists, OneDocEach
  <2>3. CASE i \in Len(p) + 1 .. Len(p) + Len(r) /\ j \in Len(p) + 1 .. Len(p) + Len(r)
    <3>1. i - Len(p) = j - Len(p)
      BY <1>1, <1>3, <1>4, <1>5, <2>3 DEF Lists, OneDocEach
    <3> QED
      BY <1>3, <2>3, <3>1
  <2>4. CASE i \in 1 .. Len(p) /\ j \in Len(p) + 1 .. Len(p) + Len(r)
    BY <1>2, <1>3, <1>4, <1>5, <2>4
  <2>5. CASE j \in 1 .. Len(p) /\ i \in Len(p) + 1 .. Len(p) + Len(r)
    BY <1>2, <1>3, <1>4, <1>5, <2>5
  <2> QED
    BY <2>1, <2>2, <2>3, <2>4, <2>5
<1>6. p # <<>> => p \o r # <<>>
  BY <1>3, <1>4
<1> QED
  BY <1>4, <1>5, <1>6 DEF MergedCandidates, Lists, OneDocEach, r

LEMMA RankingsAreLists == Rankings \subseteq Lists
<1> SUFFICES ASSUME NEW s \in Rankings PROVE s \in Lists
  OBVIOUS
<1>1. Cardinality(Documents) \in Nat
  BY OrchestratorAssumption, FS_CardinalityType DEF OrchestratorAssumption
<1>2. PICK n \in 0 .. Cardinality(Documents) : s \in [1 .. n -> Candidates]
  BY DEF Rankings
<1>3. n \in Nat /\ s \in Seq(Candidates) /\ DOMAIN s = 1 .. n
  BY <1>1, <1>2
<1>4. \A i, j \in DOMAIN s : i < j => s[i].doc # s[j].doc
  BY DEF Rankings
<1>5. \A i, j \in DOMAIN s : i < j \/ j < i \/ i = j
  BY <1>3
<1> QED
  BY <1>3, <1>4, <1>5 DEF Lists, OneDocEach

\* What select_auto_candidates returns names each document once.
LEMMA CandidatesAreList ==
    ASSUME route \in Lists, NEW fallback \in Lists
    PROVE  SelectAuto(fallback) \in Lists
<1>1. ConfidentLimit \in Nat /\ WideLimit \in Nat
  BY OrchestratorAssumption DEF OrchestratorAssumption
<1> DEFINE limit == IF AtLeast(80) THEN ConfidentLimit ELSE WideLimit
           indexed == First(WithTask(route), limit)
<1>2. limit \in Nat
  BY <1>1
<1> HIDE DEF limit
<1>3. WithTask(route) \in Lists
  <2>1. {i \in DOMAIN route : route[i].task} \in SUBSET DOMAIN route
    OBVIOUS
  <2> QED
    BY <2>1, SelectedList DEF WithTask
<1>4. indexed \in Lists /\ First(fallback, limit) \in Lists /\ First(fallback, WideLimit) \in Lists
  BY <1>1, <1>2, <1>3, FirstOfList
<1> HIDE DEF indexed
<1>5. First(MergedCandidates(indexed, First(fallback, limit)), limit) \in Lists
  BY <1>2, <1>4, MergedList, FirstOfList
<1> QED
  BY <1>4, <1>5 DEF SelectAuto, limit, indexed

-----------------------------------------------------------------------------
(* The pipeline. *)

Retrieving == {"RETRIEVAL", "GRAPH_ONLY", "GRAPH_THEN_EVIDENCE"}

\* Which questions reach which stage, and what each has put into the context.
StageInv ==
    /\ orchStep # "over" => plan = NoPlan
    /\ orchStep \notin {"guardrail", "validation", "over"} =>
          /\ chatMode \in {"auto", "document"}
          /\ chatMode = "document" => docIds # <<>> \/ selectedId # NoDocument
    /\ orchStep \in {"route", "candidates", "clarify"} => chatMode = "auto"
    /\ orchStep \in {"navigation", "final"} /\ chatMode = "auto" => topDocs # <<>>
    /\ orchStep \notin {"navigation", "final", "over"} => topDocs = <<>>
    /\ chatMode = "document" => topDocs = <<>>

RoutingInv ==
    /\ route \in Lists /\ candidates \in Lists
    /\ IsInjective(topDocs) /\ ToSet(topTasks) \subseteq ToSet(topDocs)
    /\ routedDoc # NoDocument => routedDoc \in ToSet(topDocs)

NavigationInv ==
    orchStep = "final" =>
        /\ navDoc = NavigatedDocument
        /\ section # "none" => navDoc # NoDocument
        /\ execMode = "GRAPH_THEN_EVIDENCE" => section = "node"
        /\ execMode \in Retrieving

OInv == OrchTypeOK /\ StageInv /\ RoutingInv /\ NavigationInv /\ PlanIsConsistent

LEMMA EmptyList == /\ <<>> \in Lists /\ <<>> \in Seq(Documents) /\ DOMAIN <<>> = {}
                   /\ IsInjective(<<>>) /\ ToSet(<<>>) = {}
<1>1. <<>> \in Seq(Candidates) /\ <<>> \in Seq(Documents) /\ DOMAIN <<>> = {}
  OBVIOUS
<1> QED
  BY <1>1 DEF Lists, OneDocEach, IsInjective, ToSet

LEMMA NavigatedType ==
    ASSUME OrchTypeOK PROVE NavigatedDocument \in MaybeDocument
<1>1. docIds \in Seq(MaybeDocument) /\ {selectedId, routedDoc} \subseteq MaybeDocument
  BY DEF OrchTypeOK
<1>2. docIds # <<>> => Head(docIds) \in MaybeDocument
  BY <1>1
<1> QED
  BY <1>1, <1>2 DEF NavigatedDocument

LEMMA NoPlanFacts ==
    /\ NoPlan.mode = "NONE"
    /\ \A m : [NoPlan EXCEPT !.mode = m].mode = m
BY DEF NoPlan

LEMMA OInit == OrchInit => OInv
<1> SUFFICES ASSUME OrchInit PROVE OInv
  OBVIOUS
<1>1. docIds \in Seq(MaybeDocument)
  <2>2. \/ docIds = <<>> \/ \E d \in MaybeDocument : docIds = <<d>>
        \/ \E d \in MaybeDocument, e \in MaybeDocument : docIds = <<d, e>>
    BY DEF OrchInit
  <2>3. CASE docIds = <<>>
    BY <2>3
  <2>4. ASSUME NEW d \in MaybeDocument, docIds = <<d>> PROVE docIds \in Seq(MaybeDocument)
    BY <2>4
  <2>5. ASSUME NEW d \in MaybeDocument, NEW e \in MaybeDocument, docIds = <<d, e>>
        PROVE docIds \in Seq(MaybeDocument)
    BY <2>5
  <2> QED
    BY <2>2, <2>3, <2>4, <2>5
<1>2. OrchTypeOK
  BY <1>1, EmptyList, NoPlanFacts DEF OrchInit, OrchTypeOK, Lists, PlanModes, MaybeDocument
<1>3. StageInv /\ NavigationInv
  BY DEF OrchInit, StageInv, NavigationInv
<1>4. RoutingInv
  BY EmptyList DEF OrchInit, RoutingInv
<1>5. PlanIsConsistent
  BY NoPlanFacts DEF OrchInit, PlanIsConsistent
<1> QED
  BY <1>2, <1>3, <1>4, <1>5 DEF OInv

\* A stage before the routing, that ends the pipeline or lets it go on.
LEMMA EarlyStep == OInv /\ (Guardrail \/ Validation \/ QueryRewrite) => OInv'
<1> SUFFICES ASSUME OInv, Guardrail \/ Validation \/ QueryRewrite PROVE OInv'
  OBVIOUS
<1>1. /\ orchStep \in {"guardrail", "validation", "rewrite"}
      /\ UNCHANGED <<chatMode, docIds, selectedId, route, candidates, routedDoc, topDocs,
                     topTasks, navDoc, execMode, section>>
      /\ \/ orchStep' = "over" /\ plan'.mode \in {"REFUSAL", "REACT_AGENT"}
         \/ UNCHANGED plan /\ orchStep' \in {"validation", "rewrite", "route", "navigation"}
  BY NoPlanFacts DEF Guardrail, Validation, QueryRewrite, EndWith, Continue, request, routing, navigation
<1>2. plan = NoPlan /\ topDocs = <<>>
  BY <1>1 DEF OInv, StageInv
<1>3. OrchTypeOK'
  BY <1>1, NoPlanFacts DEF OInv, OrchTypeOK, PlanModes
<1>4. StageInv'
  <2>1. CASE Guardrail
    BY <1>1, <1>2, <2>1 DEF OInv, StageInv, Guardrail, EndWith, Continue
  <2>2. CASE Validation
    <3>1. orchStep' = "rewrite" =>
            /\ chatMode \in {"auto", "document"}
            /\ chatMode = "document" => docIds # <<>> \/ selectedId # NoDocument
      BY <2>2 DEF Validation, EndWith, Continue, OInv, OrchTypeOK, ChatModes
    <3>2. orchStep' \in {"over", "rewrite"}
      BY <2>2 DEF Validation, EndWith, Continue
    <3> QED
      BY <1>1, <1>2, <3>1, <3>2 DEF OInv, StageInv
  <2>3. CASE QueryRewrite
    <3>1. orchStep = "rewrite" /\ \/ orchStep' = "over"
                                  \/ orchStep' = "route" /\ chatMode = "auto"
                                  \/ orchStep' = "navigation" /\ chatMode # "auto"
      BY <2>3 DEF QueryRewrite, EndWith, Continue
    <3> QED
      BY <1>1, <1>2, <3>1 DEF OInv, StageInv
  <2> QED
    BY <2>1, <2>2, <2>3
<1>5. RoutingInv' /\ NavigationInv'
  BY <1>1 DEF OInv, RoutingInv, NavigationInv
<1>6. PlanIsConsistent'
  BY <1>1, <1>2, NoPlanFacts DEF PlanIsConsistent
<1> QED
  BY <1>3, <1>4, <1>5, <1>6 DEF OInv

LEMMA RouteStep == OInv /\ (KnowledgeRoute \/ SelectCandidates) => OInv'
<1> SUFFICES ASSUME OInv, KnowledgeRoute \/ SelectCandidates PROVE OInv'
  OBVIOUS
<1>1. /\ orchStep \in {"route", "candidates"} /\ orchStep' \in {"candidates", "clarify"}
      /\ UNCHANGED <<chatMode, docIds, selectedId, routedDoc, topDocs,
                     topTasks, navDoc, execMode, section, plan>>
  BY DEF KnowledgeRoute, SelectCandidates, Continue, request, navigation
<1>2. route' \in Lists /\ candidates' \in Lists
  <2>1. route \in Lists /\ candidates \in Lists
    BY DEF OInv, RoutingInv
  <2>2. CASE KnowledgeRoute
    BY <2>1, <2>2, RankingsAreLists DEF KnowledgeRoute
  <2>3. CASE SelectCandidates
    BY <2>1, <2>3, RankingsAreLists, CandidatesAreList DEF SelectCandidates
  <2> QED
    BY <2>2, <2>3
<1>3. OrchTypeOK'
  BY <1>1, <1>2 DEF OInv, OrchTypeOK, Lists
<1>4. StageInv' /\ NavigationInv'
  BY <1>1 DEF OInv, StageInv, NavigationInv
<1>5. RoutingInv'
  BY <1>1, <1>2 DEF OInv, RoutingInv
<1>6. PlanIsConsistent'
  BY <1>1, NoPlanFacts DEF OInv, StageInv, PlanIsConsistent
<1> QED
  BY <1>3, <1>4, <1>5, <1>6 DEF OInv

\* The documents of a list of candidates, and those with a task.
LEMMA DocsOfLists ==
    ASSUME NEW s \in Lists, s # <<>>
    PROVE  /\ DocsOf(s) \in Seq(Documents) /\ DocsOf(s) # <<>> /\ IsInjective(DocsOf(s))
           /\ s[1].doc \in ToSet(DocsOf(s)) /\ s[1].doc \in Documents
           /\ DocsOf(WithTask(s)) \in Seq(Documents)
           /\ ToSet(DocsOf(WithTask(s))) \subseteq ToSet(DocsOf(s))
<1>1. s \in Seq(Candidates) /\ DOMAIN s = 1 .. Len(s) /\ Len(s) \in Nat /\ Len(s) # 0
      /\ OneDocEach(s) /\ \A i \in 1 .. Len(s) : s[i].doc \in Documents
  <2>1. s \in Seq(Candidates) /\ OneDocEach(s)
    BY DEF Lists
  <2>2. \A i \in 1 .. Len(s) : s[i] \in Candidates
    BY <2>1
  <2> QED
    BY <2>1, <2>2 DEF Candidates
<1> DEFINE I == {i \in DOMAIN s : s[i].task}
           t == AtPlaces(s, I)
<1>2. t \in Lists /\ \A n \in DOMAIN t : \E i \in I : t[n] = s[i]
  <2>1. I \in SUBSET DOMAIN s
    OBVIOUS
  <2> HIDE DEF I
  <2> QED
    BY <2>1, SelectedList
<1>3. WithTask(s) = t
  BY DEF WithTask
<1> HIDE DEF t
<1>4. t \in Seq(Candidates) /\ DOMAIN t = 1 .. Len(t) /\ Len(t) \in Nat
      /\ \A n \in DOMAIN t : \E i \in DOMAIN s : t[n] = s[i]
  BY <1>2 DEF Lists
<1>5. DocsOf(s) \in Seq(Documents) /\ DOMAIN DocsOf(s) = 1 .. Len(s) /\ Len(DocsOf(s)) = Len(s)
      /\ \A i \in 1 .. Len(s) : DocsOf(s)[i] = s[i].doc
  BY <1>1 DEF DocsOf
<1>6. \A n \in 1 .. Len(t) : t[n].doc \in Documents
  BY <1>1, <1>4
<1>7. DocsOf(t) \in Seq(Documents) /\ DOMAIN DocsOf(t) = 1 .. Len(t)
      /\ \A i \in 1 .. Len(t) : DocsOf(t)[i] = t[i].doc
  BY <1>4, <1>6 DEF DocsOf
<1>8. IsInjective(DocsOf(s))
  BY <1>1, <1>5 DEF IsInjective, OneDocEach
<1>9. DocsOf(s) # <<>>
  BY <1>1, <1>5
<1>10. s[1].doc \in ToSet(DocsOf(s)) /\ s[1].doc \in Documents
  <2>1. 1 \in 1 .. Len(s)
    BY <1>1
  <2> QED
    BY <1>1, <1>5, <2>1 DEF ToSet
<1>11. ToSet(DocsOf(t)) \subseteq ToSet(DocsOf(s))
  BY <1>1, <1>4, <1>5, <1>7 DEF ToSet
<1> QED
  BY <1>3, <1>5, <1>7, <1>8, <1>9, <1>10, <1>11

LEMMA ClarifyStep == OInv /\ AskClarification => OInv'
<1> SUFFICES ASSUME OInv, AskClarification PROVE OInv'
  OBVIOUS
<1>1. PICK named \in BOOLEAN :
          IF ShouldAsk(named)
          THEN EndWith("CLARIFICATION") /\ UNCHANGED <<routedDoc, topDocs, topTasks>>
          ELSE /\ topDocs' = DocsOf(candidates)
               /\ topTasks' = DocsOf(WithTask(candidates))
               /\ routedDoc' = IF AtLeast(Threshold) /\ candidates[1].task
                               THEN candidates[1].doc ELSE NoDocument
               /\ Continue("navigation")
  BY DEF AskClarification
<1>2. /\ orchStep = "clarify" /\ chatMode = "auto" /\ topDocs = <<>> /\ plan = NoPlan
      /\ UNCHANGED <<chatMode, docIds, selectedId, route, candidates, navDoc, execMode, section>>
      /\ candidates \in Lists
  BY DEF AskClarification, request, navigation, OInv, StageInv, RoutingInv
<1>3. CASE ShouldAsk(named)
  <2>1. /\ orchStep' = "over" /\ plan'.mode = "CLARIFICATION"
        /\ UNCHANGED <<routedDoc, topDocs, topTasks>>
    BY <1>1, <1>3, NoPlanFacts DEF EndWith
  <2>2. OrchTypeOK'
    BY <1>2, <2>1 DEF OInv, OrchTypeOK, PlanModes
  <2>3. StageInv' /\ RoutingInv' /\ NavigationInv' /\ PlanIsConsistent'
    BY <1>2, <2>1 DEF OInv, StageInv, RoutingInv, NavigationInv, PlanIsConsistent
  <2> QED
    BY <2>2, <2>3 DEF OInv
<1>4. CASE ~ShouldAsk(named)
  <2>1. candidates # <<>>
    BY <1>4 DEF ShouldAsk
  <2>2. /\ topDocs' = DocsOf(candidates) /\ topTasks' = DocsOf(WithTask(candidates))
        /\ routedDoc' \in {candidates[1].doc, NoDocument}
        /\ orchStep' = "navigation" /\ UNCHANGED plan
    BY <1>1, <1>4 DEF Continue
  <2>3. /\ topDocs' \in Seq(Documents) /\ topDocs' # <<>> /\ IsInjective(topDocs')
        /\ candidates[1].doc \in ToSet(topDocs') /\ candidates[1].doc \in Documents
        /\ topTasks' \in Seq(Documents) /\ ToSet(topTasks') \subseteq ToSet(topDocs')
    BY <1>2, <2>1, <2>2, DocsOfLists
  <2>4. OrchTypeOK'
    BY <1>2, <2>2, <2>3 DEF OInv, OrchTypeOK, MaybeDocument
  <2>5. StageInv' /\ NavigationInv'
    BY <1>2, <2>2, <2>3 DEF OInv, StageInv, NavigationInv
  <2>6. RoutingInv'
    BY <1>2, <2>2, <2>3 DEF OInv, RoutingInv
  <2>7. PlanIsConsistent'
    BY <1>2, <2>2, NoPlanFacts DEF PlanIsConsistent
  <2> QED
    BY <2>4, <2>5, <2>6, <2>7 DEF OInv
<1> QED
  BY <1>3, <1>4

LEMMA NavigateStep == OInv /\ Navigate => OInv'
<1> SUFFICES ASSUME OInv, Navigate PROVE OInv'
  OBVIOUS
<1>1. /\ orchStep = "navigation" /\ orchStep' = "final" /\ plan = NoPlan
      /\ UNCHANGED <<chatMode, docIds, selectedId, route, candidates, routedDoc, topDocs, topTasks, plan>>
      /\ navDoc' = NavigatedDocument /\ NavigatedDocument' = NavigatedDocument
      /\ section' \in {"none", "code", "node"}
      /\ section' # "none" => navDoc' # NoDocument
      /\ execMode' \in Retrieving /\ (execMode' = "GRAPH_THEN_EVIDENCE" => section' = "node")
  BY DEF Navigate, Continue, request, routing, Retrieving, OInv, StageInv,
         NavigatedDocument
<1>2. navDoc' \in MaybeDocument
  BY <1>1, NavigatedType DEF OInv
<1>3. OrchTypeOK'
  BY <1>1, <1>2 DEF OInv, OrchTypeOK, PlanModes, Retrieving
<1>4. StageInv' /\ RoutingInv'
  BY <1>1 DEF OInv, StageInv, RoutingInv
<1>5. NavigationInv'
  BY <1>1 DEF NavigationInv
<1>6. PlanIsConsistent'
  BY <1>1, NoPlanFacts DEF PlanIsConsistent
<1> QED
  BY <1>3, <1>4, <1>5, <1>6 DEF OInv

LEMMA FinalStep == OInv /\ BuildFinalPlan => OInv'
<1> SUFFICES ASSUME OInv, BuildFinalPlan PROVE OInv'
  OBVIOUS
<1> DEFINE selected == PlanDocument
           searched == IF topDocs # <<>> THEN topDocs
                       ELSE IF selected # NoDocument THEN <<selected>> ELSE <<>>
<1>1. /\ orchStep = "final" /\ orchStep' = "over"
      /\ plan'.mode = execMode /\ plan'.selected = selected
      /\ plan'.searched = searched /\ plan'.tasks = topTasks
      /\ UNCHANGED <<chatMode, docIds, selectedId, route, candidates, routedDoc, topDocs,
                     topTasks, navDoc, execMode, section>>
      /\ BlankNamed' = BlankNamed
  BY DEF BuildFinalPlan, request, routing, navigation, BlankNamed
<1>2. /\ navDoc = NavigatedDocument /\ (section # "none" => navDoc # NoDocument)
      /\ execMode = "GRAPH_THEN_EVIDENCE" => section = "node"
      /\ execMode \in Retrieving
  BY <1>1 DEF OInv, NavigationInv
<1>3. /\ chatMode \in {"auto", "document"}
      /\ chatMode = "document" => docIds # <<>> \/ selectedId # NoDocument
      /\ chatMode = "auto" => topDocs # <<>>
      /\ chatMode = "document" => topDocs = <<>>
  BY <1>1 DEF OInv, StageInv
<1>4. /\ IsInjective(topDocs) /\ ToSet(topTasks) \subseteq ToSet(topDocs)
      /\ routedDoc # NoDocument => routedDoc \in ToSet(topDocs)
  BY DEF OInv, RoutingInv
\* The two expressions agree, unless the first id of the request is blank.
<1>5. \/ selected = navDoc /\ ~BlankNamed
      \/ BlankNamed /\ selected = NoDocument /\ navDoc = selectedId
  BY <1>2 DEF PlanDocument, NavigatedDocument, BlankNamed
<1>6. PlanIsConsistent'
  <2> HIDE DEF selected
  <2>1. CASE topDocs # <<>>
    <3>1. searched = topDocs /\ chatMode = "auto"
      BY <1>3, <2>1
    <3>2. routedDoc # NoDocument => selected = routedDoc
      BY DEF selected, PlanDocument
    <3> QED
      BY <1>1, <1>2, <1>4, <1>5, <2>1, <3>1, <3>2 DEF PlanIsConsistent
  <2>2. CASE topDocs = <<>>
    <3>1. routedDoc = NoDocument /\ ToSet(topTasks) = {} /\ chatMode = "document"
      BY <1>3, <1>4, <2>2, EmptyList
    <3>2. CASE BlankNamed
      <4>1. selected = NoDocument /\ searched = <<>> /\ navDoc = selectedId
        BY <1>5, <2>2, <3>2
      <4> QED
        BY <1>1, <1>2, <3>1, <3>2, <4>1, EmptyList DEF PlanIsConsistent
    <3>3. CASE ~BlankNamed
      <4>1. selected # NoDocument
        BY <1>3, <3>1, <3>3 DEF selected, PlanDocument, BlankNamed
      <4>2. searched = <<selected>>
        BY <2>2, <4>1
      <4>3. <<selected>> # <<>> /\ IsInjective(<<selected>>) /\ ToSet(<<selected>>) = {selected}
        BY DEF IsInjective, ToSet
      <4> QED
        BY <1>1, <1>2, <1>5, <3>1, <3>3, <4>1, <4>2, <4>3 DEF PlanIsConsistent
    <3> QED
      BY <3>2, <3>3
  <2> QED
    BY <2>1, <2>2
<1>7. OrchTypeOK'
  BY <1>1, <1>2 DEF OInv, OrchTypeOK, PlanModes, Retrieving
<1>8. StageInv' /\ RoutingInv' /\ NavigationInv'
  BY <1>1 DEF OInv, StageInv, RoutingInv, NavigationInv
<1> QED
  BY <1>6, <1>7, <1>8 DEF OInv

LEMMA OInvInvariant == OrchSpec => []OInv
<1>1. ASSUME OInv, UNCHANGED orchVars PROVE OInv'
  BY <1>1 DEF orchVars, OInv, OrchTypeOK, StageInv, RoutingInv, NavigationInv,
     PlanIsConsistent, BlankNamed, NavigatedDocument
<1>2. OInv /\ [OrchNext]_orchVars => OInv'
  BY <1>1, EarlyStep, RouteStep, ClarifyStep, NavigateStep, FinalStep DEF OrchNext
<1> QED
  BY <1>2, OInit, PTL DEF OrchSpec

\* Every variable of the pipeline keeps its type.
THEOREM OrchTypeCorrect == OrchSpec => []OrchTypeOK
<1>1. OInv => OrchTypeOK
  BY DEF OInv
<1> QED
  BY <1>1, OInvInvariant, PTL

\* The documents a plan searches, selects and navigates agree, for any
\* documents, scores, threshold and limits of the route.
THEOREM PlansConsistent == OrchSpec => []PlanIsConsistent
<1>1. OInv => PlanIsConsistent
  BY DEF OInv
<1> QED
  BY <1>1, OInvInvariant, PTL

-----------------------------------------------------------------------------
(* Evidences and their numbers. *)

Evidences == [chunk : Chunks, key : Range(ParentOf), score : Levels, id : Nat]

\* The key of an evidence is the block of its chunk.
OfParent == {e \in Evidences : e.key = ParentOf[e.chunk]}

LEMMA LeastPlace ==
    ASSUME NEW T \in SUBSET Nat, T # {}
    PROVE  \E x \in T : \A y \in T : x <= y
<1>1. PICK x \in T : \A y \in T : ~ (<<y, x>> \in OpToRel(<, Nat))
  BY NatLessThanWellFounded, WFMin, Zenon
<1>2. \A y \in T : ~ (y < x)
  BY <1>1 DEF OpToRel
<1> QED
  BY <1>2

LEMMA ListPlaces ==
    ASSUME NEW ctx \in Seq(OfParent)
    PROVE  Len(ctx) \in Nat /\ DOMAIN ctx = 1 .. Len(ctx) /\ \A i \in DOMAIN ctx : ctx[i] \in OfParent
  OBVIOUS

LEMMA FirstWithIs ==
    ASSUME NEW ctx \in Seq(OfParent), NEW i \in DOMAIN ctx
    PROVE  /\ FirstWith(ctx[i].key, ctx) \in DOMAIN ctx
           /\ ctx[FirstWith(ctx[i].key, ctx)].key = ctx[i].key
           /\ \A k \in 1 .. FirstWith(ctx[i].key, ctx) - 1 : ctx[k].key # ctx[i].key
<1> DEFINE T == {k \in DOMAIN ctx : ctx[k].key = ctx[i].key}
<1>1. T \in SUBSET Nat /\ T # {}
  BY ListPlaces
<1>2. PICK x \in T : \A y \in T : x <= y
  <2> HIDE DEF T
  <2> QED
    BY <1>1, LeastPlace
<1>3. x \in DOMAIN ctx /\ ctx[x].key = ctx[i].key /\ x \in 1 .. Len(ctx) /\ Len(ctx) \in Nat
  BY <1>2, ListPlaces
<1>4. ASSUME NEW k \in 1 .. x - 1 PROVE ctx[k].key # ctx[i].key
  <2>1. k \in DOMAIN ctx /\ ~(x <= k)
    BY <1>3, ListPlaces
  <2> QED
    BY <1>2, <2>1
<1> HIDE DEF T
<1> QED
  BY <1>3, <1>4 DEF FirstWith

KeysUpTo(ctx, p) == {ctx[i].key : i \in 1 .. p}

LEMMA FiniteImage ==
    ASSUME NEW f, IsFiniteSet(DOMAIN f)
    PROVE  IsFiniteSet({f[x] : x \in DOMAIN f})
<1> DEFINE T == {f[x] : x \in DOMAIN f}
           g == [x \in DOMAIN f |-> f[x]]
<1>1. g \in Surjection(DOMAIN f, T)
  BY DEF Surjection
<1> HIDE DEF T, g
<1>2. IsFiniteSet(T)
  BY <1>1, FS_Surjection
<1> QED
  BY <1>2 DEF T

LEMMA KeysUpToFinite ==
    ASSUME NEW ctx, NEW p \in Nat
    PROVE  IsFiniteSet(KeysUpTo(ctx, p)) /\ Cardinality(KeysUpTo(ctx, p)) \in Nat
<1> DEFINE f == [i \in 1 .. p |-> ctx[i].key]
<1>1. DOMAIN f = 1 .. p /\ KeysUpTo(ctx, p) = {f[i] : i \in DOMAIN f}
  BY DEF KeysUpTo
<1>2. IsFiniteSet(1 .. p)
  BY FS_Interval
<1> HIDE DEF f
<1> QED
  BY <1>1, <1>2, FiniteImage, FS_CardinalityType

\* The number of a key is a number, and different keys have different ones:
\* the one that comes later counts the other.
LEMMA NumbersTellKeys ==
    ASSUME NEW ctx \in Seq(OfParent), NEW i \in DOMAIN ctx, NEW j \in DOMAIN ctx
    PROVE  /\ NumberOf(ctx[i].key, ctx) \in Nat
           /\ NumberOf(ctx[i].key, ctx) = NumberOf(ctx[j].key, ctx) => ctx[i].key = ctx[j].key
<1> DEFINE F(n) == FirstWith(ctx[n].key, ctx)
<1>1. /\ Len(ctx) \in Nat
      /\ F(i) \in 1 .. Len(ctx) /\ ctx[F(i)].key = ctx[i].key
      /\ \A k \in 1 .. F(i) - 1 : ctx[k].key # ctx[i].key
      /\ F(j) \in 1 .. Len(ctx) /\ ctx[F(j)].key = ctx[j].key
      /\ \A k \in 1 .. F(j) - 1 : ctx[k].key # ctx[j].key
  BY FirstWithIs, ListPlaces
<1>2. /\ NumberOf(ctx[i].key, ctx) = Cardinality(KeysUpTo(ctx, F(i)))
      /\ NumberOf(ctx[j].key, ctx) = Cardinality(KeysUpTo(ctx, F(j)))
  BY DEF NumberOf, KeysUpTo
<1> HIDE DEF F
<1>3. ASSUME NEW a \in 1 .. Len(ctx), NEW b \in 1 .. Len(ctx), a < b,
             \A k \in 1 .. b - 1 : ctx[k].key # ctx[b].key
      PROVE  Cardinality(KeysUpTo(ctx, a)) # Cardinality(KeysUpTo(ctx, b))
  <2>0. a \in Nat /\ b \in Nat /\ b \in 1 .. b /\ \A k \in 1 .. a : k \in 1 .. b /\ k \in 1 .. b - 1
    BY <1>1, <1>3
  <2>1. KeysUpTo(ctx, a) \subseteq KeysUpTo(ctx, b)
    BY <2>0, Zenon DEF KeysUpTo
  <2>2. ctx[b].key \in KeysUpTo(ctx, b)
    BY <2>0, Zenon DEF KeysUpTo
  <2>3. ctx[b].key \notin KeysUpTo(ctx, a)
    BY <1>3, <2>0, Zenon DEF KeysUpTo
  <2>4. IsFiniteSet(KeysUpTo(ctx, b))
    BY <2>0, KeysUpToFinite
  <2> QED
    BY <2>1, <2>2, <2>3, <2>4, FS_Subset
<1>4. F(i) = F(j) \/ F(i) < F(j) \/ F(j) < F(i)
  BY <1>1
<1>5. NumberOf(ctx[i].key, ctx) \in Nat
  BY <1>1, <1>2, KeysUpToFinite
<1>6. CASE F(i) = F(j)
  BY <1>1, <1>5, <1>6
<1>7. CASE F(i) < F(j)
  <2>1. Cardinality(KeysUpTo(ctx, F(i))) # Cardinality(KeysUpTo(ctx, F(j)))
    BY <1>1, <1>3, <1>7
  <2> QED
    BY <1>2, <1>5, <2>1
<1>8. CASE F(j) < F(i)
  <2>1. Cardinality(KeysUpTo(ctx, F(j))) # Cardinality(KeysUpTo(ctx, F(i)))
    BY <1>1, <1>3, <1>8
  <2> QED
    BY <1>2, <1>5, <2>1
<1> QED
  BY <1>4, <1>6, <1>7, <1>8

\* The places where a key comes first.
FirstPlaces(ctx) == {i \in DOMAIN ctx : \A k \in 1 .. i - 1 : ctx[k].key # ctx[i].key}

\* The number of a key that comes first here counts the first places so far.
LEMMA NumberCountsFirsts ==
    ASSUME NEW ctx \in Seq(OfParent), NEW p \in FirstPlaces(ctx)
    PROVE  NumberOf(ctx[p].key, ctx) = Cardinality({k \in FirstPlaces(ctx) : k <= p})
<1> DEFINE P == {k \in FirstPlaces(ctx) : k <= p}
           g == [k \in P |-> ctx[k].key]
<1>1. /\ Len(ctx) \in Nat /\ p \in 1 .. Len(ctx) /\ p \in DOMAIN ctx
      /\ \A k \in 1 .. p - 1 : ctx[k].key # ctx[p].key
  BY ListPlaces DEF FirstPlaces
<1>2. FirstWith(ctx[p].key, ctx) = p
  <2> DEFINE f == FirstWith(ctx[p].key, ctx)
  <2>1. /\ f \in 1 .. Len(ctx) /\ ctx[f].key = ctx[p].key
        /\ \A k \in 1 .. f - 1 : ctx[k].key # ctx[p].key
    BY <1>1, FirstWithIs, ListPlaces
  <2> HIDE DEF f
  <2>2. ~(f < p) /\ ~(p < f)
    BY <1>1, <2>1
  <2>3. f = p
    BY <1>1, <2>1, <2>2
  <2> QED
    BY <2>3 DEF f
<1>3. NumberOf(ctx[p].key, ctx) = Cardinality(KeysUpTo(ctx, p))
  BY <1>2 DEF NumberOf, KeysUpTo
<1>4. \A k \in P : k \in 1 .. p /\ k \in Nat
  BY <1>1, ListPlaces DEF FirstPlaces
<1>5. g \in Injection(P, KeysUpTo(ctx, p))
  <2>1. \A k \in P : ctx[k].key \in KeysUpTo(ctx, p)
    BY <1>4, Zenon DEF KeysUpTo
  <2>2. \A k, m \in P : k < m => ctx[k].key # ctx[m].key
    <3>1. \A k, m \in P : k < m => k \in 1 .. m - 1
      BY <1>4
    <3> QED
      BY <3>1, Zenon DEF FirstPlaces
  <2>3. \A k, m \in P : k < m \/ m < k \/ k = m
    BY <1>4
  <2> HIDE DEF P
  <2>4. \A k, m \in P : g[k] = g[m] => k = m
    BY <2>2, <2>3
  <2> QED
    BY <2>1, <2>4 DEF Injection, IsInjective
<1>6. ASSUME NEW x \in KeysUpTo(ctx, p) PROVE \E k \in P : g[k] = x
  <2>1. PICK n \in 1 .. p : x = ctx[n].key
    BY DEF KeysUpTo
  <2>2. n \in DOMAIN ctx /\ n \in Nat
    BY <1>1, ListPlaces
  <2> DEFINE f == FirstWith(ctx[n].key, ctx)
  <2>3. /\ f \in DOMAIN ctx /\ f \in Nat /\ ctx[f].key = x
        /\ \A k \in 1 .. f - 1 : ctx[k].key # x
    BY <2>1, <2>2, FirstWithIs, ListPlaces
  <2> HIDE DEF f
  <2>4. f <= n
    <3>1. ~(n < f)
      BY <2>1, <2>2, <2>3
    <3> QED
      BY <2>2, <2>3, <3>1
  <2>5. f <= p
    BY <1>1, <2>1, <2>3, <2>4
  <2>6. f \in P
    BY <2>3, <2>5 DEF FirstPlaces
  <2> HIDE DEF P
  <2> QED
    BY <2>3, <2>6
<1>7. g \in Surjection(P, KeysUpTo(ctx, p))
  <2> HIDE DEF P, g
  <2> QED
    BY <1>5, <1>6 DEF Injection, Surjection
<1>8. g \in Bijection(P, KeysUpTo(ctx, p))
  BY <1>5, <1>7, Zenon DEF Bijection
<1>9. IsFiniteSet(P)
  <2>1. P \subseteq 1 .. p
    BY <1>4, Zenon
  <2>2. IsFiniteSet(1 .. p)
    BY <1>1, FS_Interval
  <2> HIDE DEF P
  <2> QED
    BY <2>1, <2>2, FS_Subset
<1> HIDE DEF P, g
<1>10. Cardinality(KeysUpTo(ctx, p)) = Cardinality(P)
  BY <1>8, <1>9, FS_Bijection DEF ExistsBijection
<1> QED
  BY <1>3, <1>10 DEF P

WellNumbered(ctx) == \A i \in DOMAIN ctx : ctx[i].id = NumberOf(ctx[i].key, ctx)

\* Numbers depend on the keys of the list only.
LEMMA SameKeysSameNumbers ==
    ASSUME NEW a \in Seq(OfParent), NEW b \in Seq(OfParent), DOMAIN a = DOMAIN b,
           \A i \in DOMAIN a : a[i].key = b[i].key, NEW i \in DOMAIN a
    PROVE  NumberOf(a[i].key, a) = NumberOf(b[i].key, b)
<1> DEFINE f == FirstWith(a[i].key, a)
           h == FirstWith(b[i].key, b)
<1>1. /\ f \in DOMAIN a /\ a[f].key = a[i].key
      /\ \A k \in 1 .. f - 1 : a[k].key # a[i].key
  BY FirstWithIs
<1>2. /\ h \in DOMAIN b /\ b[h].key = b[i].key
      /\ \A k \in 1 .. h - 1 : b[k].key # b[i].key
  BY FirstWithIs
<1>3. NumberOf(a[i].key, a) = Cardinality({a[k].key : k \in 1 .. f})
  BY DEF NumberOf
<1>4. NumberOf(b[i].key, b) = Cardinality({b[k].key : k \in 1 .. h})
  BY DEF NumberOf
<1> HIDE DEF f, h
<1>5. DOMAIN a = 1 .. Len(a) /\ Len(a) \in Nat
  BY ListPlaces
<1>6. ~(f < h) /\ ~(h < f)
  BY <1>1, <1>2, <1>5
<1>7. f = h
  BY <1>1, <1>2, <1>5, <1>6
<1>8. \A k \in 1 .. f : k \in DOMAIN a
  BY <1>1, <1>5
<1>9. {a[k].key : k \in 1 .. f} = {b[k].key : k \in 1 .. f}
  BY <1>8
<1> QED
  BY <1>3, <1>4, <1>7, <1>9

\* _assign_reference_ids changes nothing else, and numbers everything.
LEMMA NumberedContext ==
    ASSUME NEW ctx \in Seq(OfParent)
    PROVE  /\ Numbered(ctx) \in Seq(OfParent)
           /\ Keys(Numbered(ctx)) = Keys(ctx)
           /\ WellNumbered(Numbered(ctx))
<1> DEFINE n == Numbered(ctx)
<1>1. Len(ctx) \in Nat /\ DOMAIN ctx = 1 .. Len(ctx) /\ \A i \in DOMAIN ctx : ctx[i] \in OfParent
  BY ListPlaces
<1>2. /\ DOMAIN n = DOMAIN ctx
      /\ \A i \in DOMAIN ctx : n[i] = [ctx[i] EXCEPT !.id = NumberOf(ctx[i].key, ctx)]
  BY DEF Numbered
<1>3. ASSUME NEW i \in DOMAIN ctx
      PROVE  /\ n[i] \in OfParent /\ n[i].key = ctx[i].key
             /\ n[i].id = NumberOf(ctx[i].key, ctx)
  <2>1. NumberOf(ctx[i].key, ctx) \in Nat
    BY NumbersTellKeys
  <2> HIDE DEF n
  <2> QED
    BY <1>1, <1>2, <2>1 DEF OfParent, Evidences
<1>4. n \in Seq(OfParent)
  <2>1. n = [i \in 1 .. Len(ctx) |-> n[i]]
    BY <1>1, <1>2 DEF Numbered
  <2> HIDE DEF n
  <2> QED
    BY <1>1, <1>3, <2>1
<1> HIDE DEF n
<1>5. Keys(n) = Keys(ctx)
  BY <1>2, <1>3 DEF Keys
<1>6. WellNumbered(n)
  <2> SUFFICES ASSUME NEW i \in DOMAIN n PROVE n[i].id = NumberOf(n[i].key, n)
    BY DEF WellNumbered
  <2>1. NumberOf(ctx[i].key, ctx) = NumberOf(n[i].key, n)
    BY <1>2, <1>3, <1>4, SameKeysSameNumbers
  <2> QED
    BY <1>2, <1>3, <2>1
<1> QED
  BY <1>4, <1>5, <1>6 DEF n

\* A numbered list is cited by place, whatever it holds.
LEMMA NumberedIsCited ==
    ASSUME NEW ctx \in Seq(OfParent), WellNumbered(ctx)
    PROVE  /\ \A n \in DOMAIN References(ctx) : References(ctx)[n].id = n
           /\ \A i, j \in DOMAIN ctx : ctx[i].id = ctx[j].id <=> ctx[i].key = ctx[j].key
<1>1. Len(ctx) \in Nat /\ DOMAIN ctx = 1 .. Len(ctx) /\ \A i \in DOMAIN ctx : ctx[i] \in OfParent
  BY ListPlaces
<1>2. \A i, j \in DOMAIN ctx : ctx[i].id = ctx[j].id <=> ctx[i].key = ctx[j].key
  BY NumbersTellKeys DEF WellNumbered
<1>3. {i \in DOMAIN ctx : \A k \in 1 .. i - 1 : ctx[k].id # ctx[i].id} = FirstPlaces(ctx)
  <2>1. \A i \in DOMAIN ctx, k \in Nat : k \in 1 .. i - 1 => k \in DOMAIN ctx
    BY <1>1
  <2>2. \A i \in DOMAIN ctx : \A k \in 1 .. i - 1 : k \in Nat
    BY <1>1
  <2>3. \A i \in DOMAIN ctx :
           (\A k \in 1 .. i - 1 : ctx[k].id # ctx[i].id)
           <=> (\A k \in 1 .. i - 1 : ctx[k].key # ctx[i].key)
    BY <1>2, <2>1, <2>2, Zenon
  <2> QED
    BY <2>3, Zenon DEF FirstPlaces
<1>4. References(ctx) = AtPlaces(ctx, FirstPlaces(ctx))
  BY <1>3 DEF References
<1> DEFINE I == FirstPlaces(ctx)
<1>5. I \in SUBSET DOMAIN ctx /\ I \in SUBSET Nat /\ IsFiniteSet(I)
  <2>1. I \in SUBSET DOMAIN ctx
    BY DEF FirstPlaces
  <2>2. IsFiniteSet(DOMAIN ctx)
    BY <1>1, FS_Interval
  <2> HIDE DEF I
  <2> QED
    BY <1>1, <2>1, <2>2, FS_Subset
<1>6. ASSUME NEW n \in DOMAIN AtPlaces(ctx, I) PROVE AtPlaces(ctx, I)[n].id = n
  <2> DEFINE p == PlaceNumber(I, n)
  <2> HIDE DEF I
  <2>1. n \in 1 .. Cardinality(I) /\ p \in I /\ AtPlaces(ctx, I)[n] = ctx[p]
    BY <1>5, SelectedAt
  <2>2. Cardinality({k \in I : k <= p}) = n
    BY <1>5, <2>1, PlacesNumbered
  <2> HIDE DEF p
  <2>3. NumberOf(ctx[p].key, ctx) = Cardinality({k \in I : k <= p})
    BY <2>1, NumberCountsFirsts DEF I
  <2>4. ctx[p].id = NumberOf(ctx[p].key, ctx)
    BY <1>5, <2>1 DEF WellNumbered
  <2> QED
    BY <2>1, <2>2, <2>3, <2>4
<1> QED
  BY <1>2, <1>4, <1>6

-----------------------------------------------------------------------------
(* What a sub-question comes to. *)

\* A set of evidences, put in order, is a list of all of them.
LEMMA SortedList ==
    ASSUME NEW S \in SUBSET OfParent, IsFiniteSet(S), NEW s \in ByScore(S)
    PROVE  s \in Seq(OfParent) /\ ToSet(s) = S
<1>1. Cardinality(S) \in Nat
  BY FS_CardinalityType
<1>2. s \in [1 .. Cardinality(S) -> S] /\ ToSet(s) = S
  BY DEF ByScore
<1> QED
  BY <1>1, <1>2

LEMMA BestLevel ==
    ASSUME NEW S, S # {}, NEW score, \A c \in S : score[c] \in Levels
    PROVE  \E c \in S : \A d \in S : score[d] <= score[c]
<1>1. \A c \in S : score[c] \in Int /\ (score[c] = 0 \/ score[c] = 1 \/ score[c] = 2)
  BY DEF Levels
<1>2. CASE \E c \in S : score[c] = 2
  BY <1>1, <1>2
<1>3. CASE ~(\E c \in S : score[c] = 2) /\ \E c \in S : score[c] = 1
  BY <1>1, <1>3
<1>4. CASE ~(\E c \in S : score[c] = 2) /\ ~(\E c \in S : score[c] = 1)
  BY <1>1, <1>4
<1> QED
  BY <1>2, <1>3, <1>4

LEMMA EvidenceType ==
    ASSUME NEW c \in Chunks, NEW n \in Levels
    PROVE  Evidence(c, ParentOf[c], n) \in OfParent
<1>1. ParentOf[c] \in Range(ParentOf)
  BY RetrievalAssumption DEF RetrievalAssumption, Range
<1> QED
  BY <1>1 DEF Evidence, OfParent, Evidences

\* Whatever is lifted to its block is an evidence of a chunk of this block.
LEMMA ElevatedType ==
    ASSUME NEW S \in SUBSET Chunks, NEW score \in Scores, NEW found
    PROVE  Elevated(S, score, found) \in SUBSET OfParent /\ IsFiniteSet(Elevated(S, score, found))
<1> DEFINE G == {c \in S : ParentOf[c] # c /\ ParentOf[c] \in found}
           Best(p) == CHOOSE c \in G : ParentOf[c] = p
                          /\ \A d \in G : ParentOf[d] = p => score[d] <= score[c]
           own == [c \in S \ G |-> Evidence(c, ParentOf[c], score[c])]
           parents == [c \in G |-> ParentOf[c]]
           lifted == [p \in {ParentOf[c] : c \in G} |-> Evidence(Best(p), p, score[Best(p)])]
<1>1. Elevated(S, score, found) = {own[x] : x \in DOMAIN own} \cup {lifted[x] : x \in DOMAIN lifted}
  BY DEF Elevated
<1>2. \A c \in Chunks : score[c] \in Levels
  BY DEF Scores
<1>3. ASSUME NEW p \in {ParentOf[c] : c \in G}
      PROVE  Best(p) \in G /\ ParentOf[Best(p)] = p
  <2> DEFINE C == {c \in G : ParentOf[c] = p}
  <2>1. C # {} /\ \A c \in C : score[c] \in Levels
    BY <1>2
  <2>2. \E c \in C : \A d \in C : score[d] <= score[c]
    <3> HIDE DEF C
    <3> QED
      BY <2>1, BestLevel
  <2>3. \E c \in G : ParentOf[c] = p /\ \A d \in G : ParentOf[d] = p => score[d] <= score[c]
    BY <2>2
  <2> HIDE DEF G
  <2> QED
    BY <2>3
<1>4. IsFiniteSet(S) /\ IsFiniteSet(S \ G) /\ IsFiniteSet(G)
  <2>1. IsFiniteSet(S)
    BY RetrievalAssumption, FS_Subset DEF RetrievalAssumption
  <2> QED
    BY <2>1, FS_Subset
<1>5. DOMAIN own = S \ G /\ DOMAIN parents = G /\ DOMAIN lifted = {parents[c] : c \in DOMAIN parents}
  OBVIOUS
<1>6. G \subseteq Chunks
  OBVIOUS
<1>7. \A x \in DOMAIN own : own[x] \in OfParent
  BY <1>2, EvidenceType
<1>8. \A x \in DOMAIN lifted : lifted[x] \in OfParent
  <2> SUFFICES ASSUME NEW p \in {ParentOf[c] : c \in G} PROVE Evidence(Best(p), p, score[Best(p)]) \in OfParent
    OBVIOUS
  <2> HIDE DEF G, Best
  <2>1. Best(p) \in Chunks /\ ParentOf[Best(p)] = p
    BY <1>3, <1>6
  <2>2. Evidence(Best(p), ParentOf[Best(p)], score[Best(p)]) \in OfParent
    BY <1>2, <2>1, EvidenceType
  <2> QED
    BY <2>1, <2>2
<1> HIDE DEF own, parents, lifted
<1>9. IsFiniteSet({own[x] : x \in DOMAIN own}) /\ IsFiniteSet({lifted[x] : x \in DOMAIN lifted})
  BY <1>4, <1>5, FiniteImage
<1>10. IsFiniteSet(Elevated(S, score, found))
  BY <1>1, <1>9, FS_Union
<1> QED
  BY <1>1, <1>7, <1>8, <1>10

LEMMA FirstOfEvidences ==
    ASSUME NEW s \in Seq(OfParent), NEW n \in Nat
    PROVE  FirstOf(s, n) \in Seq(OfParent)
<1> DEFINE m == IF n <= Len(s) THEN n ELSE Len(s)
<1>1. FirstOf(s, n) = SubSeq(s, 1, m) /\ m \in 0 .. Len(s)
  BY MinOfTwo DEF FirstOf
<1> QED
  BY <1>1

LEMMA SubResultsType == SubResults \subseteq Seq(OfParent)
<1> SUFFICES ASSUME NEW r \in SubResults PROVE r \in Seq(OfParent)
  OBVIOUS
<1>1. CASE r = <<>>
  BY <1>1
<1>2. ASSUME NEW vh \in Scores, NEW kh \in Scores, NEW score \in Scores, NEW reranked \in BOOLEAN,
             NEW found \in SUBSET Range(ParentOf), NEW v \in VectorGate(vh),
             r \in SubResult(v, KeywordGate(kh), score, reranked, found)
      PROVE  r \in Seq(OfParent)
  <2>1. v \subseteq Chunks /\ KeywordGate(kh) \subseteq Chunks
    BY DEF VectorGate, KeywordGate
  <2> DEFINE kept == IF reranked THEN Filtered(v \cup KeywordGate(kh), score)
                     ELSE Filtered(v \cup KeywordGate(kh), [c \in Chunks |-> 0])
  <2>2. kept \in SUBSET Chunks
    <3>1. \A T, f : Filtered(T, f) \subseteq T
      BY DEF Filtered
    <3> QED
      BY <2>1, <3>1
  <2>3. PICK s \in ByScore(Elevated(kept, score, found)) : r = FirstOf(s, FinalTopK)
    BY <1>2 DEF SubResult
  <2> HIDE DEF kept
  <2>4. s \in Seq(OfParent)
    BY <2>2, <2>3, ElevatedType, SortedList
  <2>5. FinalTopK \in Nat
    BY RetrievalAssumption DEF RetrievalAssumption
  <2> QED
    BY <2>3, <2>4, <2>5, FirstOfEvidences
<1>3. \/ r = <<>>
      \/ \E vh \in Scores, kh \in Scores, score \in Scores, reranked \in BOOLEAN,
            found \in SUBSET Range(ParentOf) : \E v \in VectorGate(vh) :
               r \in SubResult(v, KeywordGate(kh), score, reranked, found)
  BY DEF SubResults
<1> QED
  BY <1>1, <1>2, <1>3

-----------------------------------------------------------------------------
(* Merging. *)

LEMMA Joined ==
    ASSUME NEW a \in Seq(OfParent), NEW b \in Seq(OfParent)
    PROVE  a \o b \in Seq(OfParent) /\ Keys(a \o b) = Keys(a) \cup Keys(b)
<1>1. /\ Len(a) \in Nat /\ DOMAIN a = 1 .. Len(a)
      /\ Len(b) \in Nat /\ DOMAIN b = 1 .. Len(b)
      /\ a \o b \in Seq(OfParent) /\ DOMAIN (a \o b) = 1 .. Len(a) + Len(b)
      /\ \A i \in 1 .. Len(a) : (a \o b)[i] = a[i]
      /\ \A i \in Len(a) + 1 .. Len(a) + Len(b) : (a \o b)[i] = b[i - Len(a)]
  OBVIOUS
<1> DEFINE c == a \o b
<1>2. ASSUME NEW i \in DOMAIN c PROVE c[i].key \in Keys(a) \cup Keys(b)
  <2>1. CASE i \in 1 .. Len(a)
    BY <1>1, <2>1 DEF Keys
  <2>2. CASE i \in Len(a) + 1 .. Len(a) + Len(b)
    <3>1. i - Len(a) \in DOMAIN b /\ c[i] = b[i - Len(a)]
      BY <1>1, <2>2
    <3> HIDE DEF c
    <3> QED
      BY <3>1 DEF Keys
  <2> QED
    BY <1>1, <2>1, <2>2
<1>3. ASSUME NEW i \in DOMAIN a PROVE a[i].key \in Keys(c)
  <2>1. i \in DOMAIN c /\ c[i] = a[i]
    BY <1>1
  <2> HIDE DEF c
  <2> QED
    BY <2>1 DEF Keys
<1>4. ASSUME NEW i \in DOMAIN b PROVE b[i].key \in Keys(c)
  <2>1. i + Len(a) \in DOMAIN c /\ c[i + Len(a)] = b[i]
    BY <1>1
  <2> HIDE DEF c
  <2> QED
    BY <2>1 DEF Keys
<1> HIDE DEF c
<1>5. Keys(c) = Keys(a) \cup Keys(b)
  BY <1>2, <1>3, <1>4 DEF Keys
<1> QED
  BY <1>1, <1>5 DEF c

\* A hop adds what it found and nothing else.
LEMMA AppendedContext ==
    ASSUME NEW ctx \in Seq(OfParent), NEW r \in Seq(OfParent)
    PROVE  /\ Appended(ctx, r) \in Seq(OfParent)
           /\ Keys(Appended(ctx, r)) = Keys(ctx) \cup Keys(r)
<1> DEFINE I == {i \in DOMAIN r : r[i].key \notin Keys(ctx)}
           b == AtPlaces(r, I)
<1>1. I \in SUBSET DOMAIN r
  OBVIOUS
<1>2. /\ b \in Seq(OfParent)
      /\ \A n \in DOMAIN b : PlaceNumber(I, n) \in I /\ b[n] = r[PlaceNumber(I, n)]
      /\ \A i \in I : \E n \in DOMAIN b : b[n] = r[i]
  <2> HIDE DEF I
  <2> QED
    BY <1>1, SelectedAt
<1>3. Appended(ctx, r) = ctx \o b
  BY DEF Appended
<1> HIDE DEF b
<1>4. Keys(b) \subseteq Keys(r)
  <2>1. \A n \in DOMAIN b : \E i \in DOMAIN r : b[n] = r[i]
    BY <1>1, <1>2
  <2> QED
    BY <2>1 DEF Keys
<1>5. \A i \in DOMAIN r : r[i].key \in Keys(ctx) \cup Keys(b)
  BY <1>2 DEF Keys
<1>6. Keys(r) \subseteq Keys(ctx) \cup Keys(b)
  BY <1>5 DEF Keys
<1>7. ctx \o b \in Seq(OfParent) /\ Keys(ctx \o b) = Keys(ctx) \cup Keys(b)
  BY <1>2, Joined
<1> QED
  BY <1>3, <1>4, <1>6, <1>7

\* A correction keeps an evidence of every block it or the context before has.
LEMMA MergedContext ==
    ASSUME NEW a \in Seq(OfParent), NEW b \in Seq(OfParent), NEW m \in MergedByChunk(a, b)
    PROVE  m \in Seq(OfParent) /\ Keys(m) = Keys(a) \cup Keys(b)
<1> DEFINE s == a \o b
           ScoresOf(c) == {s[i].score : i \in {k \in DOMAIN s : s[k].chunk = c}}
           Place(c) == CHOOSE i \in DOMAIN s : s[i].chunk = c
                           /\ \A k \in 1 .. i - 1 : s[k].chunk # c
           C == {s[i].chunk : i \in DOMAIN s}
           merged == [c \in C |-> [s[Place(c)] EXCEPT !.score = Max(ScoresOf(c))]]
<1>1. m \in ByScore({merged[c] : c \in DOMAIN merged})
  BY DEF MergedByChunk
<1>2. s \in Seq(OfParent) /\ Keys(s) = Keys(a) \cup Keys(b)
  BY Joined
<1> HIDE DEF s
<1>3. Len(s) \in Nat /\ DOMAIN s = 1 .. Len(s) /\ \A i \in DOMAIN s : s[i] \in OfParent
  BY <1>2, ListPlaces
<1>4. ASSUME NEW c \in C PROVE Place(c) \in DOMAIN s /\ s[Place(c)].chunk = c
  <2> DEFINE T == {i \in DOMAIN s : s[i].chunk = c}
  <2>1. T \in SUBSET Nat /\ T # {}
    BY <1>3
  <2>2. PICK x \in T : \A y \in T : x <= y
    <3> HIDE DEF T
    <3> QED
      BY <2>1, LeastPlace
  <2>3. \A k \in 1 .. x - 1 : k \in DOMAIN s /\ ~(x <= k)
    BY <1>3, <2>2
  <2>4. x \in DOMAIN s /\ s[x].chunk = c /\ \A k \in 1 .. x - 1 : s[k].chunk # c
    BY <2>2, <2>3
  <2> HIDE DEF T
  <2> QED
    BY <2>4
<1>5. ASSUME NEW c \in C PROVE Max(ScoresOf(c)) \in Levels
  <2> DEFINE L == ScoresOf(c)
             id == [n \in L |-> n]
  <2>1. L # {} /\ \A n \in L : n \in Levels
    <3>1. \A i \in DOMAIN s : s[i].score \in Levels
      BY <1>3 DEF OfParent, Evidences
    <3>2. PICK i \in DOMAIN s : s[i].chunk = c
      OBVIOUS
    <3>3. s[i].score \in L
      BY <3>2
    <3> QED
      BY <3>1, <3>3
  <2> HIDE DEF L
  <2>2. \A n \in L : id[n] \in Levels
    BY <2>1
  <2>3. \E n \in L : \A k \in L : id[k] <= id[n]
    <3> HIDE DEF id
    <3> QED
      BY <2>1, <2>2, BestLevel
  <2>4. \E n \in L : \A k \in L : n >= k
    BY <2>1, <2>3 DEF Levels
  <2>5. Max(L) \in L
    BY <2>4 DEF Max
  <2>6. Max(L) \in Levels
    BY <2>1, <2>5
  <2> QED
    BY <2>6 DEF L
<1> HIDE DEF Place, ScoresOf
<1>6. ASSUME NEW c \in C
      PROVE  merged[c] \in OfParent /\ merged[c].key = s[Place(c)].key /\ merged[c].key = ParentOf[c]
  <2>1. s[Place(c)] \in OfParent /\ s[Place(c)].chunk = c
    BY <1>3, <1>4
  <2>2. merged[c] = [s[Place(c)] EXCEPT !.score = Max(ScoresOf(c))]
    OBVIOUS
  <2> DEFINE e == s[Place(c)]
  <2> HIDE DEF e, merged, C
  <2> QED
    BY <1>5, <2>1, <2>2 DEF e, OfParent, Evidences
<1>7. C \subseteq Chunks
  BY <1>3 DEF OfParent, Evidences
<1>8. DOMAIN merged = C /\ IsFiniteSet(C)
  <2>1. DOMAIN merged = C
    OBVIOUS
  <2> HIDE DEF C
  <2> QED
    BY <1>7, <2>1, RetrievalAssumption, FS_Subset DEF RetrievalAssumption
<1> DEFINE M == {merged[c] : c \in DOMAIN merged}
<1>9. IsFiniteSet(M) /\ M \in SUBSET OfParent
  <2>1. M \in SUBSET OfParent
    BY <1>6, <1>8
  <2>2. IsFiniteSet(DOMAIN merged)
    BY <1>8
  <2> HIDE DEF merged
  <2> QED
    BY <2>1, <2>2, FiniteImage
<1>10. m \in Seq(OfParent) /\ ToSet(m) = M
  <2> HIDE DEF M
  <2> QED
    BY <1>1, <1>9, SortedList DEF M
<1>11. Keys(m) = {e.key : e \in M}
  <2> HIDE DEF M
  <2> QED
    BY <1>10 DEF Keys, ToSet
<1> HIDE DEF merged
<1>12. \A x \in M : x.key \in Keys(s)
  BY <1>4, <1>6, <1>8 DEF Keys
<1>13. \A i \in DOMAIN s : s[i].key \in {e.key : e \in M}
  <2> SUFFICES ASSUME NEW i \in DOMAIN s PROVE \E e \in M : s[i].key = e.key
    OBVIOUS
  <2>1. s[i].chunk \in C /\ s[i].key = ParentOf[s[i].chunk]
    BY <1>3 DEF OfParent
  <2>2. merged[s[i].chunk] \in M /\ merged[s[i].chunk].key = s[i].key
    BY <1>6, <1>8, <2>1
  <2> QED
    BY <2>2
<1>14. Keys(m) = Keys(s)
  <2> HIDE DEF M
  <2> QED
    BY <1>11, <1>12, <1>13 DEF Keys
<1> QED
  BY <1>2, <1>10, <1>14

-----------------------------------------------------------------------------
(* The rounds. *)

\* Every evidence is one of its chunk's block, and the list is numbered when
\* a round is over.
RetInv ==
    /\ RetTypeOK
    /\ context \in Seq(OfParent)
    /\ retStep # "retrieve" => WellNumbered(context)
    /\ EvidenceAccumulates

LEMMA KeysTyped ==
    ASSUME NEW s \in Seq(OfParent)
    PROVE  /\ s \in Seq([chunk : Chunks, key : Range(ParentOf), score : Levels, id : Nat])
           /\ Keys(s) \subseteq Range(ParentOf)
           /\ (s = <<>> => Keys(s) = {})
<1>1. OfParent \subseteq Evidences
  BY DEF OfParent
<1>2. \A i \in DOMAIN s : s[i] \in Evidences
  BY <1>1, ListPlaces
<1>3. s \in Seq(Evidences)
  BY <1>2, ListPlaces
<1>4. Keys(s) \subseteq Range(ParentOf)
  BY <1>2 DEF Keys, Evidences
<1>5. s = <<>> => Keys(s) = {}
  BY DEF Keys
<1> QED
  BY <1>3, <1>4, <1>5 DEF Evidences

LEMMA RetInitInv == RetInit => RetInv
<1> SUFFICES ASSUME RetInit PROVE RetInv
  OBVIOUS
<1>1. context \in Seq(OfParent) /\ context = <<>> /\ gathered = {}
  BY DEF RetInit
<1>2. pending \in 1 .. SubQuestions /\ SubQuestions \in Nat /\ MaxRounds \in Nat
  BY RetrievalAssumption DEF RetInit, RetrievalAssumption
<1>3. RetTypeOK
  BY <1>1, <1>2, KeysTyped DEF RetInit, RetTypeOK
<1>4. EvidenceAccumulates
  BY <1>1, KeysTyped DEF EvidenceAccumulates
<1> QED
  BY <1>1, <1>3, <1>4 DEF RetInv, RetInit

LEMMA RetConstants ==
    /\ SubQuestions \in Nat \ {0} /\ MaxRounds \in Nat
    /\ SubResults \subseteq Seq(OfParent)
  BY RetrievalAssumption, SubResultsType DEF RetrievalAssumption

LEMMA RetrieveOneStep == RetInv /\ RetrieveOne => RetInv'
<1> SUFFICES ASSUME RetInv, RetrieveOne PROVE RetInv'
  OBVIOUS
<1>1. PICK r \in SubResults :
         /\ context' = IF pending = 1 THEN Numbered(context \o r) ELSE context \o r
         /\ gathered' = gathered \cup Keys(r)
  BY DEF RetrieveOne
<1>2. r \in Seq(OfParent) /\ context \in Seq(OfParent) /\ Keys(context) = gathered
  BY RetConstants DEF RetInv, EvidenceAccumulates
<1>3. context \o r \in Seq(OfParent) /\ Keys(context \o r) = gathered'
  BY <1>1, <1>2, Joined
<1>4. /\ context' \in Seq(OfParent) /\ Keys(context') = gathered'
      /\ pending = 1 => WellNumbered(context')
  BY <1>1, <1>3, NumberedContext
<1>5. /\ retStep = "retrieve" /\ pending \in 1 .. SubQuestions /\ pending' = pending - 1
      /\ retStep' = IF pending > 1 THEN "retrieve"
                    ELSE IF MaxRounds = 0 THEN "over" ELSE "check"
      /\ multiHop' = multiHop /\ retRound' = retRound
  BY RetConstants DEF RetInv, RetTypeOK, RetrieveOne
<1>6. /\ pending' \in 0 .. SubQuestions /\ (pending' > 0 <=> retStep' = "retrieve")
      /\ retStep' # "retrieve" => pending = 1
      /\ retStep' \in {"retrieve", "check", "over"}
  BY <1>5, RetConstants
<1>7. RetTypeOK'
  BY <1>4, <1>5, <1>6, KeysTyped DEF RetInv, RetTypeOK
<1> QED
  BY <1>4, <1>6, <1>7 DEF RetInv, EvidenceAccumulates, WellNumbered

\* What a later round leaves behind, in either mode.
LEMMA RoundStep ==
    ASSUME RetInv, retStep = "check", retRound < MaxRounds, retRound' = retRound + 1,
           retStep' = IF retRound' = MaxRounds THEN "over" ELSE "check",
           multiHop' = multiHop, pending' = pending,
           NEW ctx \in Seq(OfParent), context' = Numbered(ctx), gathered' = Keys(ctx)
    PROVE  RetInv'
<1>1. context' \in Seq(OfParent) /\ Keys(context') = gathered' /\ WellNumbered(context')
  BY NumberedContext
<1>2. retRound' \in 0 .. MaxRounds /\ pending = 0
  BY RetConstants DEF RetInv, RetTypeOK
<1>3. RetTypeOK'
  BY <1>1, <1>2, KeysTyped DEF RetInv, RetTypeOK
<1> QED
  BY <1>1, <1>3 DEF RetInv, EvidenceAccumulates, WellNumbered

LEMMA CorrectRetrievalStep == RetInv /\ CorrectRetrieval => RetInv'
<1> SUFFICES ASSUME RetInv, CorrectRetrieval PROVE RetInv'
  OBVIOUS
<1>1. PICK r \in SubResults :
         /\ IF context # <<>> /\ r # <<>>
            THEN \E merged \in MergedByChunk(context, r) : context' = Numbered(merged)
            ELSE context' = Numbered(r)
         /\ gathered' = IF r = <<>> THEN {} ELSE gathered \cup Keys(r)
  BY DEF CorrectRetrieval
<1>2. r \in Seq(OfParent) /\ context \in Seq(OfParent) /\ Keys(context) = gathered
  BY RetConstants DEF RetInv, EvidenceAccumulates
<1>3. \E ctx \in Seq(OfParent) : context' = Numbered(ctx) /\ gathered' = Keys(ctx)
  <2>1. CASE context # <<>> /\ r # <<>>
    <3>1. PICK merged \in MergedByChunk(context, r) : context' = Numbered(merged)
      BY <1>1, <2>1
    <3>2. merged \in Seq(OfParent) /\ Keys(merged) = gathered'
      BY <1>1, <1>2, <2>1, <3>1, MergedContext
    <3> QED
      BY <3>1, <3>2
  <2>2. CASE context = <<>> \/ r = <<>>
    <3>1. context' = Numbered(r)
      BY <1>1, <2>2
    <3>2. (r = <<>> => Keys(r) = {}) /\ (context = <<>> => Keys(context) = {})
      BY <1>2, KeysTyped
    <3>3. gathered' = Keys(r)
      BY <1>1, <1>2, <2>2, <3>2
    <3> QED
      BY <1>2, <3>1, <3>3
  <2> QED
    BY <2>1, <2>2
<1>4. /\ retStep = "check" /\ retRound < MaxRounds /\ retRound' = retRound + 1
      /\ retStep' = IF retRound' = MaxRounds THEN "over" ELSE "check"
      /\ multiHop' = multiHop /\ pending' = pending
  BY DEF CorrectRetrieval
<1> QED
  BY <1>3, <1>4, RoundStep

LEMMA HopStep == RetInv /\ Hop => RetInv'
<1> SUFFICES ASSUME RetInv, Hop PROVE RetInv'
  OBVIOUS
<1>1. PICK r \in SubResults :
         context' = Numbered(Appended(context, r)) /\ gathered' = gathered \cup Keys(r)
  BY DEF Hop
<1>2. r \in Seq(OfParent) /\ context \in Seq(OfParent) /\ Keys(context) = gathered
  BY RetConstants DEF RetInv, EvidenceAccumulates
<1>3. Appended(context, r) \in Seq(OfParent) /\ Keys(Appended(context, r)) = gathered'
  BY <1>1, <1>2, AppendedContext
<1>4. /\ retStep = "check" /\ retRound < MaxRounds /\ retRound' = retRound + 1
      /\ retStep' = IF retRound' = MaxRounds THEN "over" ELSE "check"
      /\ multiHop' = multiHop /\ pending' = pending
  BY DEF Hop
<1> QED
  BY <1>1, <1>3, <1>4, RoundStep

LEMMA RetInvInvariant == RetSpec => []RetInv
<1>1. RetInv /\ [RetNext]_retVars => RetInv'
  <2> SUFFICES ASSUME RetInv, [RetNext]_retVars PROVE RetInv'
    OBVIOUS
  <2>1. CASE RetrieveOne
    BY <2>1, RetrieveOneStep
  <2>2. CASE StopRetrieval
    <3>1. retStep = "check" /\ retStep' = "over"
          /\ UNCHANGED <<multiHop, pending, retRound, context, gathered>>
      BY <2>2 DEF StopRetrieval
    <3> QED
      BY <3>1 DEF RetInv, RetTypeOK, EvidenceAccumulates, WellNumbered
  <2>3. CASE CorrectRetrieval
    BY <2>3, CorrectRetrievalStep
  <2>4. CASE Hop
    BY <2>4, HopStep
  <2>5. CASE UNCHANGED retVars
    BY <2>5 DEF retVars, RetInv, RetTypeOK, EvidenceAccumulates, WellNumbered
  <2> QED
    BY <2>1, <2>2, <2>3, <2>4, <2>5 DEF RetNext
<1> QED
  BY RetInitInv, <1>1, PTL DEF RetSpec

\* The retrieval keeps the types of its variables: the evidences of a context
\* are of the chunks and blocks of the documents.
THEOREM RetTypeCorrect == RetSpec => []RetTypeOK
<1>1. RetInv => RetTypeOK
  BY DEF RetInv
<1> QED
  BY <1>1, RetInvInvariant, PTL

\* For any blocks, sub-questions and rounds: the number an evidence is cited
\* by is its place in the list of references, and is that of its block alone.
THEOREM CitedByPlace == RetSpec => []CitationIsPlace
<1>1. RetInv => CitationIsPlace
  <2> SUFFICES ASSUME RetInv, retStep # "retrieve" PROVE CitationIsPlace
    BY DEF CitationIsPlace
  <2> QED
    BY NumberedIsCited DEF RetInv, CitationIsPlace
<1> QED
  BY <1>1, RetInvInvariant, PTL

\* No merge, of corrections or of hops, loses the block of an evidence found,
\* but for a correction that comes back empty.
THEOREM EvidenceKept == RetSpec => []EvidenceAccumulates
<1>1. RetInv => EvidenceAccumulates
  BY DEF RetInv
<1> QED
  BY <1>1, RetInvInvariant, PTL
===============================================================================
