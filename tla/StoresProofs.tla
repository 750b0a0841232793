----------------------------- MODULE StoresProofs -----------------------------
(***************************************************************************)
(* Proofs about the stores that MCStores composes, for any number of       *)
(* processes, keys, users and entries.  Each property follows from an      *)
(* invariant of its own store, since only the store that is named moves.   *)
(***************************************************************************)
EXTENDS MCStores, TLAPS, FiniteSetTheorems, WellFoundedInduction

\* A step is one of the store that is named.
LEMMA OneStoreMoves ==
  ASSUME StoresNext
  PROVE  /\ store' = store
         /\ store = "results" => Next
         /\ store = "oracle" => Oracle!Next
         /\ store = "experience" => Experience!Next
         /\ store = "data" => Data!Next
         /\ store = "convergence" => Retraining!Next
         /\ store = "router" => Sorting!Next
         /\ store = "logs" => LogView!Next
         /\ store = "causal" => Causal!Next
         /\ store = "memory" => Memory!Next
BY DEF StoresNext, OthersRest, ResultsStep, PosteriorsStep, MemoryStep, OracleStep, WorldStep,
       RagStep, ExperienceStep, DataStep, CausalStep, RulesStep, ReportsStep, FeedbackStep,
       ConvergenceStep, LogsStep, RouterStep

-----------------------------------------------------------------------------
(* CynefinRouter *)

\* A router's threshold is a number, and a waiting request carries what its
\* scenario said, if that was a domain, as its hint.
Carried(r) ==
  /\ r.threshold \in Int
  /\ r.expert \in Sorting!Domains => r.hint = r.expert

\* What is told of a classification, whoever made it.
WellJudged(o) ==
  /\ o.expert \in Sorting!Domains /\ o.threshold <= 85 =>
       \/ o.domain = o.expert
       \/ o.domain = "Disorder" /\ o.said = o.expert
  /\ o.confidence >= 23 =>
       \A d \in Sorting!Domains \ {o.domain} : o.scores[d] < o.scores[o.domain]

RouterInv ==
  /\ router \in [mode : Sorting!Modes, threshold : Int, useData : BOOLEAN]
  /\ routing # Sorting!NoRequest => Carried(routing)
  /\ outcome # Sorting!NoOutcome => WellJudged(outcome)

\* The larger and the smaller of two numbers.
LEMMA LargerSmaller ==
  ASSUME NEW x \in Int, NEW y \in Int
  PROVE  /\ Sorting!Max({x, y}) = IF x >= y THEN x ELSE y
         /\ Sorting!Min({x, y}) = IF x >= y THEN y ELSE x
<1>1. /\ \E z \in {x, y} : \A w \in {x, y} : z >= w
      /\ \E z \in {x, y} : \A w \in {x, y} : z <= w
  OBVIOUS
<1> QED
  BY <1>1 DEF Sorting!Max, Sorting!Min

\* Whatever the model answers, a classification is told of well.
LEMMA ClassifiedIsWellJudged ==
  ASSUME StoresAssumption, NEW r, Carried(r),
         NEW a, a.domain \in Sorting!Domains, a.confidence \in 0..100
  PROVE  WellJudged(Sorting!Classified(r, a))
<1> DEFINE b == Sorting!Boosted(r.causalLanguage, a)
           h == Sorting!Hinted(r.hint, b)
           c == Sorting!Decided(r.threshold, h)
<1>1. /\ b.domain \in Sorting!Domains /\ b.confidence \in 0..100
      /\ b.domain = a.domain \/ b.confidence >= 85
  BY LargerSmaller DEF Sorting!Boosted, Sorting!Domains
<1>2. /\ h.domain \in Sorting!Domains /\ h.confidence \in 0..100
      /\ h = b \/ (h.domain = r.hint /\ h.confidence >= 88)
      /\ r.hint \in Sorting!Domains => h.domain = r.hint
  <2>1. Sorting!Max({b.confidence, 88}) \in 88..100
    BY <1>1, LargerSmaller
  <2> QED
    BY <1>1, <2>1 DEF Sorting!Hinted
<1>3. /\ c.domain \in Sorting!Domains /\ c.confidence \in 0..100
      /\ c.domain = h.domain \/ (c.domain = "Disorder" /\ h.confidence < r.threshold)
  <2>1. CASE h = b
    <3>1. CASE b = a
      BY <1>2, <2>1, <3>1 DEF Sorting!Decided, Sorting!Domains
    <3> QED
      BY <1>2, <2>1, <3>1 DEF Sorting!Decided, Sorting!Domains, Sorting!Boosted
  <2> QED
    BY <1>2, <2>1 DEF Sorting!Decided, Sorting!Domains, Sorting!Hinted
<1> DEFINE o == Sorting!Classified(r, a)
<1>4. /\ o.domain = c.domain /\ o.confidence = c.confidence /\ o.expert = r.expert
      /\ o.said = a.domain /\ o.threshold = r.threshold
      /\ o.scores = Sorting!Scores(c, r.memory)
  BY DEF Sorting!Classified
<1> HIDE DEF b, h, c, o
<1>5. ASSUME o.expert \in Sorting!Domains, o.threshold <= 85
      PROVE  o.domain = o.expert \/ (o.domain = "Disorder" /\ o.said = o.expert)
  <2>1. h.domain = r.expert /\ r.threshold \in Int
    BY <1>2, <1>4, <1>5 DEF Carried
  <2>2. ASSUME o.domain # o.expert PROVE o.domain = "Disorder" /\ o.said = o.expert
    <3>1. c.domain = "Disorder" /\ h.confidence < 85
      BY <1>2, <1>3, <1>4, <1>5, <2>1, <2>2
    <3>2. b.domain = a.domain /\ h = b
      BY <1>1, <1>2, <3>1
    <3> QED
      BY <1>4, <2>1, <3>1, <3>2
  <2> QED
    BY <2>2
<1>6. ASSUME o.confidence >= 23, NEW d \in Sorting!Domains \ {o.domain}
      PROVE  o.scores[d] < o.scores[o.domain]
  <2> DEFINE own(e) == IF e = c.domain THEN 4 * c.confidence ELSE 100 - c.confidence
  <2>1. o.scores = [e \in Sorting!Domains |->
                      IF e = r.memory THEN Sorting!Min({400, own(e) + 12}) ELSE own(e)]
    BY <1>4 DEF Sorting!Scores
  <2>2. \A e \in Sorting!Domains :
          Sorting!Min({400, own(e) + 12}) = IF 400 >= own(e) + 12 THEN own(e) + 12 ELSE 400
    <3> SUFFICES ASSUME NEW e \in Sorting!Domains
                 PROVE  Sorting!Min({400, own(e) + 12}) = IF 400 >= own(e) + 12 THEN own(e) + 12 ELSE 400
      OBVIOUS
    <3>1. own(e) + 12 \in Int
      BY <1>3
    <3> HIDE DEF own
    <3>2. 400 \in Int
      OBVIOUS
    <3> QED
      BY <3>1, <3>2, LargerSmaller, Zenon
  <2> QED
    BY <1>3, <1>4, <1>6, <2>1, <2>2
<1> QED
  BY <1>5, <1>6 DEF WellJudged, o

\* Both modes' answers are domains with a confidence.
LEMMA AnswersAreSane ==
  ASSUME StoresAssumption, NEW mode, NEW a \in Sorting!Answers(mode)
  PROVE  a.domain \in Sorting!Domains /\ a.confidence \in 0..100
<1>1. "Disorder" \in Sorting!Domains
  BY DEF Sorting!Domains
<1>2. CASE a \in [domain : Sorting!Domains, confidence : Levels]
  BY <1>2 DEF StoresAssumption
<1>3. CASE a = [domain |-> "Disorder", confidence |-> 0]
  BY <1>1, <1>3
<1>4. CASE a \in [domain : Sorting!Domains, confidence : {l \in Levels : l >= 20}]
  BY <1>4 DEF StoresAssumption
<1> QED
  BY <1>2, <1>3, <1>4, Zenon DEF Sorting!Answers

LEMMA RouterInitially ==
  ASSUME Sorting!Init PROVE RouterInv
<1>1. PICK mode \in Sorting!Modes : router = [mode |-> mode, threshold |-> 70, useData |-> TRUE]
  BY DEF Sorting!Init, Sorting!DefaultConfig
<1> QED
  BY <1>1 DEF Sorting!Init, RouterInv

LEMMA RouterKeeps ==
  ASSUME StoresAssumption, RouterInv, Sorting!Next
  PROVE  RouterInv'
<1> USE DEF RouterInv, Sorting!NoRequest, Sorting!NoOutcome
<1>1. ASSUME NEW threshold \in Thresholds, NEW useData \in BOOLEAN, NEW mode \in Sorting!Modes,
             Sorting!UpdateConfiguration(threshold, useData, mode)
      PROVE  RouterInv'
  <2>1. router' = [threshold |-> threshold, useData |-> useData, mode |-> mode]
    BY <1>1 DEF Sorting!UpdateConfiguration, Sorting!Replace
  <2>2. router' \in [mode : Sorting!Modes, threshold : Int, useData : BOOLEAN]
    BY <2>1 DEF StoresAssumption
  <2> QED
    BY <1>1, <2>2 DEF Sorting!UpdateConfiguration, Sorting!Replace, Carried, WellJudged
<1>2. ASSUME NEW threshold \in Thresholds, NEW mode \in Sorting!Modes,
             Sorting!PatchThresholds(threshold, mode)
      PROVE  RouterInv'
  <2>1. router' = [router EXCEPT !.threshold = threshold, !.mode = mode]
    BY <1>2 DEF Sorting!PatchThresholds, Sorting!Replace
  <2>2. router' \in [mode : Sorting!Modes, threshold : Int, useData : BOOLEAN]
    BY <2>1 DEF StoresAssumption
  <2> QED
    BY <1>2, <2>2 DEF Sorting!PatchThresholds, Sorting!Replace, Carried, WellJudged
<1>3. ASSUME NEW expert, NEW data, NEW memory, NEW causalLanguage,
             Sorting!Classify(expert, data, memory, causalLanguage)
      PROVE  RouterInv'
  <2> DEFINE r == [hint |-> Sorting!DomainHint(expert, data, router.useData), expert |-> expert,
                   memory |-> memory, causalLanguage |-> causalLanguage,
                   threshold |-> router.threshold]
  <2>1. Carried(r)
    BY DEF Carried, Sorting!DomainHint, Sorting!Domains, Sorting!None
  <2>2. CASE routing' = r /\ UNCHANGED outcome
    BY <1>3, <2>1, <2>2 DEF Sorting!Classify, Carried, WellJudged
  <2>3. ASSUME NEW a \in Sorting!Answers("distilbert"), outcome' = Sorting!Classified(r, a),
               UNCHANGED routing
        PROVE  RouterInv'
    <3>1. WellJudged(Sorting!Classified(r, a))
      BY <2>1, AnswersAreSane, ClassifiedIsWellJudged
    <3> HIDE DEF r
    <3> QED
      BY <1>3, <2>3, <3>1 DEF Sorting!Classify, Carried, WellJudged
  <2> QED
    BY <1>3, <2>2, <2>3 DEF Sorting!Classify
<1>4. CASE Sorting!Answer
  <2>1. PICK a \in Sorting!Answers("llm") : outcome' = Sorting!Classified(routing, a)
    BY <1>4 DEF Sorting!Answer
  <2>2. WellJudged(Sorting!Classified(routing, a))
    BY <1>4, AnswersAreSane, ClassifiedIsWellJudged DEF Sorting!Answer
  <2> QED
    BY <1>4, <2>1, <2>2 DEF Sorting!Answer, WellJudged
<1>5. CASE Sorting!GiveUp
  BY <1>5 DEF Sorting!GiveUp, WellJudged
<1> QED
  BY <1>1, <1>2, <1>3, <1>4, <1>5 DEF Sorting!Next

\* Whatever thresholds, confidences and configurations there are: an expert's hint
\* decides the domain unless an unsure model agrees with it, and the memory never
\* outweighs a domain chosen with a confidence of 23 % or more.  (CynefinRouter.classify
\* beside the updates of its configuration.)
THEOREM HintsKeepTheirWeight == StoresSpec => []HintsKeepTheirPlace
<1> DEFINE Inv == store = "router" => RouterInv
<1>1. StoresInit => Inv
  BY RouterInitially DEF StoresInit
<1>2. Inv /\ [StoresNext]_storeVars => Inv'
  <2> SUFFICES ASSUME Inv, [StoresNext]_storeVars, store' = "router" PROVE RouterInv'
    OBVIOUS
  <2>1. CASE StoresNext
    BY <2>1, OneStoreMoves, RouterKeeps, StoresAssumption
  <2>2. CASE UNCHANGED storeVars
    BY <2>2 DEF storeVars, routerVars, RouterInv, Carried, WellJudged
  <2> QED
    BY <2>1, <2>2
<1>3. Inv => HintsKeepTheirPlace
  BY DEF HintsKeepTheirPlace, Sorting!HintsKeepTheirPlace, Sorting!ExpertsPrevail,
         Sorting!MemoryNeverOverrides, RouterInv, WellJudged
<1> QED
  BY <1>1, <1>2, <1>3, PTL DEF StoresSpec

-----------------------------------------------------------------------------
(* ExperienceBuffer *)

\* An index that counts as fresh is of the entries as they are, or of none.
RingInv ==
  /\ experiences \in Seq(Nat) /\ added \in Nat
  /\ ~stale => similar \in {experiences, <<>>}
  /\ \A pair \in answer : pair[1] = pair[2]

LEMMA RingKeeps ==
  ASSUME StoresAssumption, RingInv, Experience!Next
  PROVE  RingInv'
<1> USE DEF RingInv
<1>1. ASSUME NEW words \in BOOLEAN, Experience!AddExperience(words) PROVE RingInv'
  <2>1. Append(experiences, added') \in Seq(Nat) /\ added' \in Nat
    BY <1>1 DEF Experience!AddExperience
  <2>2. experiences' \in Seq(Nat)
    BY <1>1, <2>1 DEF Experience!AddExperience, Experience!Latest, StoresAssumption
  <2> QED
    BY <1>1, <2>1, <2>2 DEF Experience!AddExperience
<1>2. CASE Experience!FindSimilar
  <2>1. ~stale' => similar' \in {experiences, <<>>}
    BY <1>2 DEF Experience!FindSimilar, Experience!RebuildIndex, Experience!Vectorised
  <2>2. ~stale' => \A pair \in Experience!Ranked(experiences, similar') : pair[1] = pair[2]
    <3>1. Len(<<>>) < Len(experiences)
      BY <1>2 DEF Experience!FindSimilar
    <3> QED
      BY <2>1, <3>1 DEF Experience!Ranked
  <2> QED
    BY <1>2, <2>1, <2>2 DEF Experience!FindSimilar
<1>3. CASE Experience!Clear
  BY <1>3 DEF Experience!Clear
<1> QED
  BY <1>1, <1>2, <1>3 DEF Experience!Next

\* In a ring of any size, however often it has moved on, the encoder failed or the
\* vectoriser raised since the index was built: a search gives every entry the
\* similarity of its own query.  (find_similar, which reads scores by position.)
THEOREM ScoresAreOwn == StoresSpec => []OwnScores
<1> DEFINE Inv == store = "experience" => RingInv
<1>1. StoresInit => Inv
  BY DEF StoresInit, Experience!Init, RingInv
<1>2. Inv /\ [StoresNext]_storeVars => Inv'
  <2> SUFFICES ASSUME Inv, [StoresNext]_storeVars, store' = "experience" PROVE RingInv'
    OBVIOUS
  <2>1. CASE StoresNext
    BY <2>1, OneStoreMoves, RingKeeps, StoresAssumption
  <2>2. CASE UNCHANGED storeVars
    BY <2>2 DEF storeVars, experienceVars, RingInv
  <2> QED
    BY <2>1, <2>2
<1>3. Inv => OwnScores
  BY DEF OwnScores, Experience!OwnScores, RingInv
<1> QED
  BY <1>1, <1>2, <1>3, PTL DEF StoresSpec

-----------------------------------------------------------------------------
(* Caches *)

\* A set of natural numbers that is not empty has a least element: of the initial
\* intervals that its elements bound, inclusion has a minimal one.
LEMMA Least ==
  ASSUME NEW T \in SUBSET Nat, T # {}
  PROVE  \E n \in T : \A m \in T : n <= m
<1> DEFINE upTo(n) == 1..n
           intervals == {upTo(n) : n \in T}
<1>1. intervals # {} /\ intervals \subseteq FiniteSubsetsOf(Nat)
  <2>1. \A n \in T : IsFiniteSet(upTo(n)) /\ upTo(n) \subseteq Nat
    BY FS_Interval
  <2> QED
    BY <2>1, Zenon DEF FiniteSubsetsOf
<1>2. PICK I \in intervals : \A J \in intervals : <<J, I>> \notin StrictSubsetOrdering(Nat)
  BY <1>1, FS_StrictSubsetOrderingWellFounded, WFMin, Zenon
<1>3. PICK n \in T : I = upTo(n)
  OBVIOUS
<1>4. ASSUME NEW m \in T, m < n PROVE FALSE
  <2>1. upTo(m) \in intervals /\ upTo(m) \subseteq upTo(n) /\ n \in upTo(n) \ upTo(m)
    BY <1>4
  <2>2. <<upTo(m), I>> \in StrictSubsetOrdering(Nat)
    BY <2>1, <1>3 DEF StrictSubsetOrdering
  <2> QED
    BY <2>1, <2>2, <1>2
<1> QED
  BY <1>4

\* A set of places that is not empty has a last one.
LEMMA Greatest ==
  ASSUME NEW N \in Nat, NEW S \in SUBSET (1..N), S # {}
  PROVE  \E m \in S : \A j \in S : j <= m
<1> DEFINE bounds == {u \in Nat : \A j \in S : j <= u}
<1>1. N \in bounds
  OBVIOUS
<1>2. PICK u \in bounds : \A v \in bounds : u <= v
  BY <1>1, Least
<1>3. u \in S
  <2> SUFFICES ASSUME u \notin S PROVE FALSE
    OBVIOUS
  <2>1. u \in Nat /\ \A j \in S : j \in 1..N /\ j <= u /\ j # u
    OBVIOUS
  <2>2. PICK j \in S : TRUE
    OBVIOUS
  <2>3. u - 1 \in Nat
    BY <2>1, <2>2
  <2>4. \A k \in S : k <= u - 1
    BY <2>1, <2>3
  <2> QED
    BY <1>2, <2>3, <2>4
<1> QED
  BY <1>2, <1>3

LEMMA OrderedPlaces ==
  ASSUME NEW N, NEW S \in SUBSET (1..N), N \in Nat
  PROVE  IsFiniteSet(S) /\ Cardinality(S) \in Nat
<1>1. S \subseteq 1..N /\ IsFiniteSet(1..N)
  BY FS_Interval
<1> QED
  BY <1>1, FS_Subset, FS_CardinalityType, Zenon

\* Every rank up to the number of places is that of one of them.
LEMMA RanksAreMet ==
  ASSUME NEW N \in Nat, NEW S \in SUBSET (1..N), NEW n \in 1..Cardinality(S)
  PROVE  \E i \in S : Ranked(S, i) = n
<1> DEFINE upTo(i) == {j \in S : j <= i}
           T == {i \in S : n <= Ranked(S, i)}
<1>1. IsFiniteSet(S) /\ Cardinality(S) \in Nat
  BY OrderedPlaces
<1>i. \A i \in S : i \in Nat
  OBVIOUS
<1>0. \A i : upTo(i) \subseteq S /\ IsFiniteSet(upTo(i)) /\ Ranked(S, i) \in Nat
  <2> SUFFICES ASSUME NEW i PROVE upTo(i) \subseteq S /\ IsFiniteSet(upTo(i)) /\ Ranked(S, i) \in Nat
    OBVIOUS
  <2>1. upTo(i) \subseteq S
    OBVIOUS
  <2> QED
    BY <1>1, <2>1, FS_Subset, FS_CardinalityType DEF Ranked
<1>2. T # {}
  <2>1. S # {}
    BY FS_EmptySet
  <2>2. PICK m \in S : \A j \in S : j <= m
    BY <2>1, Greatest
  <2>3. upTo(m) = S
    BY <2>2
  <2>4. Ranked(S, m) = Cardinality(S)
    BY <2>3 DEF Ranked
  <2> QED
    BY <1>1, <2>4
<1>3. PICK i \in T : \A m \in T : i <= m
  <2>1. T \in SUBSET Nat
    BY <1>i
  <2> QED
    BY <1>2, <2>1, Least, Zenon
<1>4. i \in S /\ i \in Nat /\ n <= Ranked(S, i) /\ Ranked(S, i) \in Nat
  BY <1>0, <1>i
<1>5. ASSUME n < Ranked(S, i) PROVE FALSE
  <2> DEFINE before == {j \in S : j < i}
  <2>1. before = upTo(i) \ {i} /\ i \in upTo(i)
    <3>1. \A j \in S : j < i <=> (j <= i /\ j # i)
      BY <1>i, <1>4
    <3>2. i <= i
      BY <1>4
    <3> HIDE DEF T
    <3> QED
      BY <1>4, <3>1, <3>2
  <2>2. Cardinality(before) = Ranked(S, i) - 1 /\ n <= Cardinality(before)
    <3>1. IsFiniteSet(upTo(i)) /\ Ranked(S, i) = Cardinality(upTo(i))
      BY <1>0 DEF Ranked
    <3>2. Cardinality(upTo(i) \ {i}) = Cardinality(upTo(i)) - 1
      BY <2>1, <3>1, FS_RemoveElement
    <3> HIDE DEF before, upTo
    <3> QED
      BY <1>4, <1>5, <2>1, <3>1, <3>2
  <2>3. before # {}
    BY <2>2, FS_EmptySet
  <2>4. PICK m \in before : \A j \in before : j <= m
    BY <2>3, Greatest
  <2>5. upTo(m) = before
    <3>1. \A j \in S : j <= m <=> j < i
      <4>1. m \in S /\ m < i
        OBVIOUS
      <4> QED
        BY <1>i, <1>4, <2>4, <4>1
    <3> QED
      BY <3>1
  <2>6. m \in T /\ m < i
    BY <2>2, <2>5 DEF Ranked
  <2> QED
    BY <1>3, <2>6
<1> QED
  BY <1>4, <1>5

\* What is left of a cache are entries that it had.
LEMMA LeftWasThere ==
  ASSUME NEW E, NEW c \in Seq(E), NEW S \in SUBSET DOMAIN c, NEW n \in DOMAIN Left(c, S)
  PROVE  \E i \in S : Left(c, S)[n] = c[i]
<1>1. n \in 1..Cardinality(S)
  BY DEF Left
<1>2. S \in SUBSET (1..Len(c)) /\ Len(c) \in Nat
  OBVIOUS
<1>3. \E i \in S : Ranked(S, i) = n
  BY <1>1, <1>2, RanksAreMet
<1> QED
  BY <1>1, <1>3 DEF Left

\* A key that is cached has a place, where its entry is.
LEMMA PlaceHoldsKey ==
  ASSUME NEW c, NEW k \in CachedKeys(c)
  PROVE  Place(c, k) \in DOMAIN c /\ Entry(c, k) = c[Place(c, k)] /\ Entry(c, k).key = k
BY DEF CachedKeys, Place, Entry

\* What the operations of a cache leave are entries that it had, or the one given.
LEMMA RemovalKeepsEntries ==
  ASSUME NEW E, NEW c \in Seq(E), NEW k
  PROVE  Without(c, k) \in Seq(E) /\ (k \in CachedKeys(c) => Touch(c, k) \in Seq(E))
<1>1. Without(c, k) \in Seq(E)
  <2>1. CASE k \in CachedKeys(c)
    <3>1. Place(c, k) \in 1..Len(c)
      BY <2>1, PlaceHoldsKey
    <3>2. /\ SubSeq(c, 1, Place(c, k) - 1) \in Seq(E)
          /\ SubSeq(c, Place(c, k) + 1, Len(c)) \in Seq(E)
      BY <3>1
    <3> QED
      BY <2>1, <3>2 DEF Without
  <2>2. CASE k \notin CachedKeys(c)
    BY <2>2 DEF Without
  <2> QED
    BY <2>1, <2>2
<1>2. k \in CachedKeys(c) => Entry(c, k) \in E
  BY PlaceHoldsKey
<1> QED
  BY <1>1, <1>2 DEF Touch

LEMMA InsertionKeepsEntries ==
  ASSUME NEW E, NEW c \in Seq(E), NEW e \in E
  PROVE  Assign(c, e) \in Seq(E)
BY DEF Assign

LEMMA EvictionKeepsEntries ==
  ASSUME NEW E, NEW c \in Seq(E), NEW size \in Nat \ {0}
  PROVE  EvictTo(c, size) \in Seq(E)
BY DEF EvictTo

LEMMA LeftAreEntries ==
  ASSUME NEW E, NEW c \in Seq(E), NEW S \in SUBSET DOMAIN c
  PROVE  Left(c, S) \in Seq(E)
<1>1. S \in SUBSET (1..Len(c)) /\ Len(c) \in Nat
  OBVIOUS
<1>2. Cardinality(S) \in Nat
  BY <1>1, OrderedPlaces
<1>3. \A n \in 1..Cardinality(S) : Left(c, S)[n] \in E
  <2> SUFFICES ASSUME NEW n \in 1..Cardinality(S) PROVE Left(c, S)[n] \in E
    OBVIOUS
  <2>1. n \in DOMAIN Left(c, S)
    BY DEF Left
  <2>2. PICK i \in S : Left(c, S)[n] = c[i]
    BY <2>1, LeftWasThere
  <2> QED
    BY <1>1, <2>2
<1>4. Left(c, S) = [n \in 1..Cardinality(S) |-> Left(c, S)[n]]
  BY DEF Left
<1> HIDE DEF Left
<1> QED
  BY <1>2, <1>3, <1>4

\* Places differ in rank.
LEMMA RanksDiffer ==
  ASSUME NEW N \in Nat, NEW S \in SUBSET (1..N), NEW i \in S, NEW j \in S, i < j
  PROVE  Ranked(S, i) # Ranked(S, j)
<1> DEFINE upTo(m) == {l \in S : l <= m}
<1>1. IsFiniteSet(S)
  BY OrderedPlaces
<1>2. upTo(i) \subseteq upTo(j) /\ upTo(j) \subseteq S /\ upTo(i) # upTo(j)
  <2>1. \A l \in S : l <= i => l <= j
    OBVIOUS
  <2>2. j \in upTo(j) /\ j \notin upTo(i)
    OBVIOUS
  <2> QED
    BY <2>1, <2>2
<1>3. IsFiniteSet(upTo(j))
  BY <1>1, <1>2, FS_Subset
<1>4. Cardinality(upTo(i)) < Cardinality(upTo(j)) /\ Cardinality(upTo(i)) \in Nat
  BY <1>2, <1>3, FS_Subset, FS_CardinalityType
<1> QED
  BY <1>4 DEF Ranked

\* A place that is left has an entry in what is left.
LEMMA LeftKeepsKeys ==
  ASSUME NEW E, NEW c \in Seq(E), NEW S \in SUBSET DOMAIN c
  PROVE  /\ \A i \in S : c[i].key \in CachedKeys(Left(c, S))
         /\ Len(Left(c, S)) \in Nat /\ Len(Left(c, S)) <= Len(c)
<1>1. S \in SUBSET (1..Len(c)) /\ Len(c) \in Nat
  OBVIOUS
<1>2. IsFiniteSet(S) /\ Cardinality(S) \in Nat
  BY <1>1, OrderedPlaces
<1>3. Cardinality(S) <= Len(c)
  <2>1. PICK N \in Nat : N = Len(c)
    OBVIOUS
  <2>2. IsFiniteSet(1..N) /\ Cardinality(1..N) = N
    <3>1. Cardinality(1..N) = IF 1 > N THEN 0 ELSE N - 1 + 1
      BY FS_Interval
    <3> QED
      BY <3>1, FS_Interval
  <2> QED
    BY <1>1, <2>1, <2>2, FS_Subset
<1>4. ASSUME NEW i \in S PROVE c[i].key \in CachedKeys(Left(c, S))
  <2> DEFINE upTo == {j \in S : j <= i}
  <2>1. upTo \subseteq S /\ i \in upTo
    BY <1>1
  <2>2. IsFiniteSet(upTo) /\ Cardinality(upTo) \in Nat /\ Cardinality(upTo) <= Cardinality(S)
    BY <1>2, <2>1, FS_Subset, FS_CardinalityType
  <2>3. Cardinality(upTo) # 0
    BY <2>1, <2>2, FS_EmptySet
  <2>4. Ranked(S, i) \in 1..Cardinality(S)
    <3> HIDE DEF upTo
    <3>1. Cardinality(upTo) \in 1..Cardinality(S)
      BY <1>2, <2>2, <2>3
    <3> QED
      BY <3>1 DEF Ranked, upTo
  <2>5. PICK j \in S : Ranked(S, j) = Ranked(S, i) /\ Left(c, S)[Ranked(S, i)] = c[j]
    BY <2>4 DEF Left
  <2>6. j = i
    <3>1. i \in Nat /\ j \in Nat
      BY <1>1
    <3>2. ~(i < j) /\ ~(j < i)
      BY <1>1, <2>5, RanksDiffer
    <3> QED
      BY <3>1, <3>2
  <2>7. Ranked(S, i) \in DOMAIN Left(c, S) /\ Left(c, S)[Ranked(S, i)] = c[i]
    BY <2>4, <2>5, <2>6 DEF Left
  <2> QED
    BY <2>7 DEF CachedKeys
<1>5. Len(Left(c, S)) = Cardinality(S)
  BY <1>2 DEF Left
<1> QED
  BY <1>2, <1>3, <1>4, <1>5

\* Removing a key moves what comes after its place up by one.
LEMMA RemovalMovesUp ==
  ASSUME NEW E, NEW c \in Seq(E), NEW k \in CachedKeys(c)
  PROVE  /\ Place(c, k) \in 1..Len(c) /\ c[Place(c, k)].key = k
         /\ Without(c, k) \in Seq(E) /\ Len(Without(c, k)) = Len(c) - 1
         /\ \A n \in 1..Len(c) - 1 : Without(c, k)[n] = c[IF n < Place(c, k) THEN n ELSE n + 1]
<1>1. PICK p : p = Place(c, k)
  OBVIOUS
<1>2. p \in 1..Len(c) /\ c[p].key = k
  BY <1>1, PlaceHoldsKey
<1>3. Without(c, k) = SubSeq(c, 1, p - 1) \o SubSeq(c, p + 1, Len(c))
  BY <1>1 DEF Without
<1>4. PICK head, tail : head = SubSeq(c, 1, p - 1) /\ tail = SubSeq(c, p + 1, Len(c))
  OBVIOUS
<1>5. /\ head \in Seq(E) /\ tail \in Seq(E)
      /\ Len(head) = p - 1 /\ Len(tail) = Len(c) - p
  BY <1>2, <1>4
<1>6. /\ \A n \in 1..p - 1 : head[n] = c[n]
      /\ \A n \in 1..Len(c) - p : tail[n] = c[p + n]
  BY <1>2, <1>4
<1>7. head \o tail \in Seq(E) /\ Len(head \o tail) = Len(c) - 1
  BY <1>2, <1>5
<1>8. ASSUME NEW n \in 1..Len(c) - 1 PROVE (head \o tail)[n] = c[IF n < p THEN n ELSE n + 1]
  <2>1. (head \o tail)[n] = IF n <= p - 1 THEN head[n] ELSE tail[n - (p - 1)]
    BY <1>2, <1>5
  <2>2. CASE n < p
    BY <1>2, <1>6, <2>1, <2>2
  <2>3. CASE ~(n < p)
    <3>1. n - (p - 1) \in 1..Len(c) - p /\ p + (n - (p - 1)) = n + 1
      BY <1>2, <2>3
    <3> QED
      BY <1>2, <1>6, <2>1, <2>3, <3>1
  <2> QED
    BY <2>2, <2>3
<1> QED
  BY <1>1, <1>2, <1>3, <1>4, <1>7, <1>8

\* No operation but an eviction takes another key away.
LEMMA RemovalKeepsKeys ==
  ASSUME NEW E, NEW c \in Seq(E), NEW k
  PROVE  /\ CachedKeys(c) \ {k} \subseteq CachedKeys(Without(c, k))
         /\ Len(Without(c, k)) <= Len(c)
         /\ k \in CachedKeys(c) =>
              CachedKeys(c) \subseteq CachedKeys(Touch(c, k)) /\ Len(Touch(c, k)) = Len(c)
<1>1. CASE k \in CachedKeys(c)
  <2>1. /\ Place(c, k) \in 1..Len(c) /\ c[Place(c, k)].key = k
        /\ Without(c, k) \in Seq(E) /\ Len(Without(c, k)) = Len(c) - 1
        /\ \A n \in 1..Len(c) - 1 : Without(c, k)[n] = c[IF n < Place(c, k) THEN n ELSE n + 1]
    BY <1>1, RemovalMovesUp
  <2>2. ASSUME NEW i \in DOMAIN c, c[i].key # k PROVE c[i].key \in CachedKeys(Without(c, k))
    <3>a. PICK p \in 1..Len(c), w \in Seq(E) :
            /\ p = Place(c, k) /\ c[p].key = k /\ w = Without(c, k)
            /\ \A n \in 1..Len(c) - 1 : w[n] = c[IF n < p THEN n ELSE n + 1]
      BY <2>1
    <3>b. i \in 1..Len(c) /\ i # p
      BY <2>2, <3>a
    <3>c. /\ i < p => i \in 1..Len(c) - 1
          /\ i > p => i - 1 \in 1..Len(c) - 1 /\ ~(i - 1 < p) /\ i - 1 + 1 = i
          /\ i < p \/ i > p
      BY <3>b
    <3>d. /\ i < p => w[i] = c[i]
          /\ i > p => w[i - 1] = c[i]
      BY <3>a, <3>c
    <3>1. /\ i < p => i \in 1..Len(c) - 1 /\ Without(c, k)[i] = c[i]
          /\ i > p => i - 1 \in 1..Len(c) - 1 /\ Without(c, k)[i - 1] = c[i]
          /\ i < p \/ i > p
      BY <3>a, <3>c, <3>d
    <3>2. DOMAIN Without(c, k) = 1..Len(c) - 1
      BY <2>1
    <3> QED
      BY <3>1, <3>2 DEF CachedKeys
  <2>3. CachedKeys(c) \ {k} \subseteq CachedKeys(Without(c, k))
    BY <2>2 DEF CachedKeys
  <2>4. PICK w \in Seq(E) : w = Without(c, k)
    BY <2>1
  <2>5. /\ Len(Append(w, Entry(c, k))) = Len(c)
        /\ CachedKeys(w) \cup {k} \subseteq CachedKeys(Append(w, Entry(c, k)))
    <3>1. Len(w) = Len(c) - 1 /\ Entry(c, k).key = k
      BY <1>1, <2>1, <2>4, PlaceHoldsKey
    <3>2. DOMAIN w \subseteq DOMAIN Append(w, Entry(c, k)) /\ \A i \in DOMAIN w : Append(w, Entry(c, k))[i] = w[i]
      OBVIOUS
    <3>3. /\ Len(w) + 1 \in DOMAIN Append(w, Entry(c, k))
          /\ Append(w, Entry(c, k))[Len(w) + 1] = Entry(c, k)
      OBVIOUS
    <3>4. Len(Append(w, Entry(c, k))) = Len(c)
      BY <3>1
    <3> QED
      BY <3>1, <3>2, <3>3, <3>4 DEF CachedKeys
  <2> QED
    BY <2>1, <2>3, <2>4, <2>5 DEF Touch
<1>2. CASE k \notin CachedKeys(c)
  BY <1>2 DEF Without
<1> QED
  BY <1>1, <1>2

LEMMA InsertionKeepsKeys ==
  ASSUME NEW E, NEW c \in Seq(E), NEW e
  PROVE  /\ CachedKeys(c) \cup {e.key} \subseteq CachedKeys(Assign(c, e))
         /\ Len(Assign(c, e)) <= Len(c) + 1
<1>1. CASE e.key \in CachedKeys(c)
  <2>1. Assign(c, e) = [i \in DOMAIN c |-> IF c[i].key = e.key THEN e ELSE c[i]]
    BY <1>1 DEF Assign
  <2>2. DOMAIN Assign(c, e) = 1..Len(c) /\ \A i \in DOMAIN c : Assign(c, e)[i].key = c[i].key
    BY <2>1
  <2>3. Len(Assign(c, e)) = Len(c)
    BY <2>1
  <2> QED
    BY <1>1, <2>2, <2>3 DEF CachedKeys
<1>2. CASE e.key \notin CachedKeys(c)
  <2>1. Assign(c, e) = Append(c, e)
    BY <1>2 DEF Assign
  <2>2. DOMAIN c \subseteq DOMAIN Append(c, e) /\ \A i \in DOMAIN c : Append(c, e)[i] = c[i]
    OBVIOUS
  <2>3. Len(c) + 1 \in DOMAIN Append(c, e) /\ Append(c, e)[Len(c) + 1] = e /\ Len(Append(c, e)) = Len(c) + 1
    OBVIOUS
  <2> QED
    BY <2>1, <2>2, <2>3 DEF CachedKeys
<1> QED
  BY <1>1, <1>2

LEMMA EvictionMakesRoom ==
  ASSUME NEW E, NEW c \in Seq(E), NEW size \in Nat \ {0}
  PROVE  Len(EvictTo(c, size)) <= size - 1 /\ (Len(c) < size => EvictTo(c, size) = c)
BY DEF EvictTo

-----------------------------------------------------------------------------
(* AsyncCache *)

\* The results that may be cached: those whose call began after the last clear, or
\* was awaiting then.
May ==
  {e \in [key : Keys, time : Nat, by : Callers, begun : Nat] :
     e.begun < clears => e.by \in inFlight}

CacheInv ==
  /\ now \in Nat /\ clears \in Nat
  /\ call \in [Callers -> Keys \cup {"idle"}] /\ begun \in [Callers -> Nat]
  /\ \A c \in Callers : call[c] # "idle" /\ begun[c] < clears => c \in inFlight
  /\ cache \in Seq(May)

LEMMA CacheKeeps ==
  ASSUME CacheInv, Next PROVE CacheInv'
<1> USE DEF CacheInv
<1>1. UNCHANGED <<clears, inFlight>> => May' = May
  BY DEF May
<1>2. ASSUME NEW c \in Callers, NEW k \in Keys, Hit(c, k) PROVE CacheInv'
  <2>1. cache' \in Seq(May)
    BY <1>2, RemovalKeepsEntries DEF Hit
  <2> QED
    BY <1>1, <1>2, <2>1 DEF Hit
<1>3. ASSUME NEW c \in Callers, NEW k \in Keys, Miss(c, k) PROVE CacheInv'
  <2>1. cache' \in Seq(May)
    BY <1>3, RemovalKeepsEntries DEF Miss
  <2>2. begun' \in [Callers -> Nat] /\ call' \in [Callers -> Keys \cup {"idle"}]
    BY <1>3 DEF Miss
  <2>3. \A d \in Callers : call'[d] # "idle" /\ begun'[d] < clears => d \in inFlight
    BY <1>3 DEF Miss
  <2> QED
    BY <1>1, <1>3, <2>1, <2>2, <2>3 DEF Miss
<1>4. ASSUME NEW c \in Callers, Return(c) PROVE CacheInv'
  <2> DEFINE e == [key |-> call[c], time |-> now, by |-> c, begun |-> begun[c]]
             swept == EvictTo(Sweep(cache), MaxSize)
  <2>1. e \in May
    BY <1>4 DEF Return, May
  <2>2. Sweep(cache) \in Seq(May)
    BY LeftAreEntries DEF Sweep
  <2>3. swept \in Seq(May)
    BY <2>2, EvictionKeepsEntries, CacheAssumption
  <2>4. cache' \in Seq(May)
    BY <1>4, <2>1, <2>3, InsertionKeepsEntries DEF Return
  <2> QED
    BY <1>1, <1>4, <2>4 DEF Return
<1>5. ASSUME NEW c \in Callers, Raise(c) PROVE CacheInv'
  BY <1>1, <1>5 DEF Raise
<1>6. CASE Clear
  <2>1. \A c \in Callers : call'[c] # "idle" => c \in inFlight'
    BY <1>6 DEF Clear
  <2>2. cache' \in Seq(May')
    BY <1>6 DEF Clear
  <2> QED
    BY <1>6, <2>1, <2>2 DEF Clear
<1>7. CASE Tick
  BY <1>1, <1>7 DEF Tick
<1> QED
  BY <1>2, <1>3, <1>4, <1>5, <1>6, <1>7 DEF Next

\* Whatever the size, the number of callers and of clears: a result that predates
\* the last clear is cached only if its call was awaiting when the cache was cleared.
\* (async_lru_cache, whose wrapper awaits the function between lookup and insertion.)
THEOREM ClearedResultsWereInFlight == Spec => []OnlyInFlightSurvivesClear
<1>1. Init => CacheInv
  BY DEF Init, CacheInv
<1>2. CacheInv /\ [Next]_vars => CacheInv'
  <2>1. CacheInv /\ UNCHANGED vars => CacheInv'
    BY DEF vars, CacheInv, May
  <2> QED
    BY <2>1, CacheKeeps
<1>3. CacheInv => OnlyInFlightSurvivesClear
  <2> SUFFICES ASSUME CacheInv, NEW i \in DOMAIN cache, cache[i].begun < clears
               PROVE  cache[i].by \in inFlight
    BY DEF OnlyInFlightSurvivesClear
  <2>1. cache[i] \in May
    BY DEF CacheInv
  <2> QED
    BY <2>1 DEF May
<1> QED
  BY <1>1, <1>2, <1>3, PTL DEF Spec

\* The cache is never larger than its size, and a step that takes a live entry away
\* is a clear, or the return of a call to a full cache.
LEMMA LiveStays ==
  ASSUME CacheInv, Len(cache) <= MaxSize, Next
  PROVE  /\ Len(cache') <= MaxSize
         /\ \A k \in CachedKeys(cache) :
              ~Expired(Entry(cache, k)) /\ k \notin CachedKeys(cache')
                => clears' # clears \/ Len(cache) = MaxSize
<1>1. cache \in Seq(May) /\ clears \in Nat /\ MaxSize \in Nat \ {0}
  BY CacheAssumption DEF CacheInv
<1>2. ASSUME NEW c \in Callers, NEW k \in Keys, Hit(c, k)
      PROVE  Len(cache') <= MaxSize /\ CachedKeys(cache) \subseteq CachedKeys(cache')
  <2>1. k \in CachedKeys(cache) /\ cache' = Touch(cache, k)
    BY <1>2 DEF Hit
  <2>2. CachedKeys(cache) \subseteq CachedKeys(Touch(cache, k)) /\ Len(Touch(cache, k)) = Len(cache)
    BY <1>1, <2>1, RemovalKeepsKeys
  <2> QED
    BY <2>1, <2>2
<1>3. ASSUME NEW c \in Callers, NEW k \in Keys, Miss(c, k)
      PROVE  /\ Len(cache') <= MaxSize /\ CachedKeys(cache) \ {k} \subseteq CachedKeys(cache')
             /\ k \in CachedKeys(cache) => Expired(Entry(cache, k))
  <2>1. cache' = Without(cache, k) /\ (k \in CachedKeys(cache) => Expired(Entry(cache, k)))
    BY <1>3 DEF Miss
  <2>2. /\ CachedKeys(cache) \ {k} \subseteq CachedKeys(Without(cache, k))
        /\ Len(Without(cache, k)) <= Len(cache) /\ Len(Without(cache, k)) \in Nat
    BY <1>1, RemovalKeepsKeys, RemovalKeepsEntries
  <2> QED
    BY <1>1, <2>1, <2>2
<1>4. ASSUME NEW c \in Callers, Return(c)
      PROVE  /\ Len(cache') <= MaxSize
             /\ \A k \in CachedKeys(cache) :
                  ~Expired(Entry(cache, k)) /\ k \notin CachedKeys(cache') => Len(cache) = MaxSize
  <2> DEFINE live == {i \in DOMAIN cache : ~Expired(cache[i])}
             e == [key |-> call[c], time |-> now, by |-> c, begun |-> begun[c]]
  <2>1. PICK swept, room : /\ swept = Left(cache, live) /\ room = EvictTo(swept, MaxSize)
                           /\ cache' = Assign(room, e)
    BY <1>4 DEF Return, Sweep
  <2>2. /\ swept \in Seq(May) /\ Len(swept) <= Len(cache)
        /\ \A i \in live : cache[i].key \in CachedKeys(swept)
    BY <1>1, <2>1, LeftAreEntries, LeftKeepsKeys
  <2>3. /\ room \in Seq(May) /\ Len(room) <= MaxSize - 1
        /\ Len(swept) < MaxSize => room = swept
    BY <1>1, <2>1, <2>2, EvictionKeepsEntries, EvictionMakesRoom
  <2>4. /\ CachedKeys(room) \subseteq CachedKeys(cache')
        /\ Len(cache') <= Len(room) + 1
    BY <2>1, <2>3, InsertionKeepsKeys
  <2>5. Len(cache') <= MaxSize
    <3>1. cache' \in Seq(May')
      BY <1>4, CacheKeeps DEF Next, CacheInv
    <3> QED
      BY <1>1, <2>3, <2>4, <3>1
  <2>6. ASSUME NEW k \in CachedKeys(cache), ~Expired(Entry(cache, k)), Len(cache) # MaxSize
        PROVE  k \in CachedKeys(cache')
    <3>1. PICK i \in live : cache[i].key = k
      BY <2>6, PlaceHoldsKey
    <3>2. k \in CachedKeys(swept)
      BY <2>2, <3>1
    <3>3. Len(swept) < MaxSize
      BY <1>1, <2>2, <2>6
    <3> QED
      BY <2>3, <2>4, <3>2, <3>3
  <2> QED
    BY <2>5, <2>6
<1>5. ASSUME NEW c \in Callers, Raise(c) PROVE cache' = cache
  BY <1>5 DEF Raise
<1>6. CASE Clear
  BY <1>1, <1>6 DEF Clear
<1>7. CASE Tick
  BY <1>7 DEF Tick
<1> QED
  BY <1>2, <1>3, <1>4, <1>5, <1>6, <1>7 DEF Next

-----------------------------------------------------------------------------
(* PosteriorCache *)

\* The posteriors are kept under keys of their own, in the order of their use.
KeysDiffer(c) == \A i \in DOMAIN c : \A j \in DOMAIN c : c[i].key = c[j].key => i = j
ByUse(c) == \A i \in DOMAIN c : \A j \in DOMAIN c : i <= j => c[i].used <= c[j].used
Posteriors == [key : Keys, time : Int, used : Nat]
InOrder(c, last) ==
  /\ c \in Seq(Posteriors) /\ KeysDiffer(c) /\ ByUse(c)
  /\ \A i \in DOMAIN c : c[i].used <= last

PosteriorInv ==
  /\ posteriorTime \in Int /\ ops \in Nat
  /\ InOrder(posteriors, ops)
  /\ Len(posteriors) <= MaxPosteriors \/ posteriors = <<>>

\* The cache of posteriors is operated on like any other.
LEMMA PosteriorOperations ==
  ASSUME NEW c, NEW k, NEW e, NEW n
  PROVE  /\ Posterior!CachedKeys(c) = CachedKeys(c) /\ Posterior!Entry(c, k) = Entry(c, k)
         /\ Posterior!Without(c, k) = Without(c, k) /\ Posterior!Assign(c, e) = Assign(c, e)
         /\ Posterior!EvictTo(c, n) = EvictTo(c, n)
BY DEF Posterior!CachedKeys, CachedKeys, Posterior!Entry, Entry, Posterior!Place, Place,
       Posterior!Without, Without, Posterior!Assign, Assign, Posterior!EvictTo, EvictTo

\* Removing keeps the order, and takes the key away.
LEMMA RemovalInOrder ==
  ASSUME NEW c, NEW last \in Nat, InOrder(c, last), NEW k
  PROVE  /\ InOrder(Without(c, k), last) /\ k \notin CachedKeys(Without(c, k))
         /\ CachedKeys(c) \ {k} \subseteq CachedKeys(Without(c, k))
         /\ Len(Without(c, k)) <= Len(c) /\ Len(Without(c, k)) \in Nat
         /\ k \in CachedKeys(c) => Len(Without(c, k)) < Len(c)
<1>1. CachedKeys(c) \ {k} \subseteq CachedKeys(Without(c, k))
  BY RemovalKeepsKeys DEF InOrder
<1>2. CASE k \in CachedKeys(c)
  <2>1. PICK p \in 1..Len(c), w \in Seq(Posteriors) :
          /\ c[p].key = k /\ w = Without(c, k) /\ Len(w) = Len(c) - 1
          /\ \A n \in 1..Len(c) - 1 : w[n] = c[IF n < p THEN n ELSE n + 1]
    <3>1. c \in Seq(Posteriors)
      BY DEF InOrder
    <3> QED
      BY <1>2, <3>1, RemovalMovesUp
  <2> DEFINE was(n) == IF n < p THEN n ELSE n + 1
  <2>2. \A n \in DOMAIN w : was(n) \in DOMAIN c /\ was(n) # p /\ w[n] = c[was(n)]
    BY <2>1 DEF InOrder
  <2>3. \A m, n \in DOMAIN w : /\ was(m) = was(n) => m = n
                               /\ m <= n => was(m) <= was(n)
    BY <2>1 DEF InOrder
  <2> HIDE DEF was
  <2>4. KeysDiffer(w)
    BY <2>2, <2>3 DEF InOrder, KeysDiffer
  <2>5. ByUse(w) /\ \A i \in DOMAIN w : w[i].used <= last
    BY <2>2, <2>3 DEF InOrder, ByUse
  <2>6. k \notin CachedKeys(w)
    <3>1. \A n \in DOMAIN w : w[n].key # k
      BY <2>1, <2>2 DEF InOrder, KeysDiffer
    <3> QED
      BY <3>1 DEF CachedKeys
  <2>7. Len(w) \in Nat /\ Len(w) < Len(c)
    BY <2>1 DEF InOrder
  <2> QED
    BY <1>1, <2>1, <2>4, <2>5, <2>6, <2>7 DEF InOrder
<1>3. CASE k \notin CachedKeys(c)
  BY <1>3 DEF Without, InOrder
<1> QED
  BY <1>2, <1>3

\* So does adding what was used last.
LEMMA AdditionInOrder ==
  ASSUME NEW c, NEW last \in Nat, InOrder(c, last),
         NEW e \in Posteriors, e.key \notin CachedKeys(c), e.used = last + 1
  PROVE  /\ InOrder(Append(c, e), last + 1)
         /\ CachedKeys(c) \cup {e.key} \subseteq CachedKeys(Append(c, e))
         /\ Len(Append(c, e)) = Len(c) + 1
<1>1. PICK list \in Seq(Posteriors) : list = Append(c, e)
  <2>1. c \in Seq(Posteriors)
    BY DEF InOrder
  <2>2. Append(c, e) \in Seq(Posteriors)
    BY <2>1
  <2> QED
    BY <2>2
<1>2. /\ DOMAIN list = 1..Len(c) + 1 /\ Len(list) = Len(c) + 1 /\ Len(c) \in Nat
      /\ DOMAIN c = 1..Len(c)
      /\ \A i \in DOMAIN c : list[i] = c[i]
      /\ list[Len(c) + 1] = e
  BY <1>1 DEF InOrder
<1>3. KeysDiffer(list)
  BY <1>2 DEF InOrder, KeysDiffer, CachedKeys
<1>4. \A i \in DOMAIN list : list[i].used <= last + 1 /\ list[i].used \in Nat
  <2>1. \A i \in DOMAIN c : c[i].used <= last /\ c[i].used \in Nat
    <3>1. \A i \in DOMAIN c : c[i] \in Posteriors
      BY DEF InOrder
    <3> QED
      BY <3>1 DEF InOrder, Posteriors
  <2>2. \A i \in DOMAIN list : i \in DOMAIN c \/ i = Len(c) + 1
    BY <1>2
  <2> QED
    BY <1>2, <2>1, <2>2
<1>5. ByUse(list)
  <2> SUFFICES ASSUME NEW i \in DOMAIN list, NEW j \in DOMAIN list, i <= j
               PROVE  list[i].used <= list[j].used
    BY DEF ByUse
  <2>1. CASE j = Len(c) + 1
    BY <1>2, <1>4, <2>1
  <2>2. CASE j # Len(c) + 1
    <3>1. i \in DOMAIN c /\ j \in DOMAIN c
      BY <1>2, <2>2
    <3> QED
      BY <1>2, <3>1 DEF InOrder, ByUse
  <2> QED
    BY <2>1, <2>2
<1>6. CachedKeys(c) \cup {e.key} \subseteq CachedKeys(list)
  BY <1>2 DEF CachedKeys
<1> QED
  BY <1>1, <1>2, <1>3, <1>4, <1>5, <1>6 DEF InOrder

\* Making room takes the one used longest ago.
LEMMA EvictionInOrder ==
  ASSUME NEW c, NEW last \in Nat, InOrder(c, last), Len(c) \in Nat \ {0}
  PROVE  /\ InOrder(EvictTo(c, Len(c)), last) /\ Len(EvictTo(c, Len(c))) = Len(c) - 1
         /\ CachedKeys(EvictTo(c, Len(c))) \subseteq CachedKeys(c)
         /\ \A i \in DOMAIN c \ {1} : c[i].key \in CachedKeys(EvictTo(c, Len(c)))
<1>0. c \in Seq(Posteriors)
  BY DEF InOrder
<1>1. PICK r \in Seq(Posteriors) :
        /\ r = EvictTo(c, Len(c)) /\ Len(r) = Len(c) - 1
        /\ \A n \in 1..Len(c) - 1 : r[n] = c[n + 1]
  <2>1. EvictTo(c, Len(c)) = SubSeq(c, 2, Len(c))
    <3>1. Len(c) - Len(c) + 2 = 2 /\ ~(Len(c) < Len(c))
      BY <1>0
    <3> QED
      BY <3>1 DEF EvictTo
  <2>a. PICK size \in Nat \ {0} : size = Len(c)
    OBVIOUS
  <2>2. SubSeq(c, 2, Len(c)) \in Seq(Posteriors) /\ Len(SubSeq(c, 2, Len(c))) = Len(c) - 1
    <3>1. CASE size = 1
      <4>1. SubSeq(c, 2, size) = <<>>
        BY <1>0, <2>a, <3>1
      <4> QED
        BY <2>a, <3>1, <4>1
    <3>2. CASE size # 1
      BY <1>0, <2>a, <3>2
    <3> QED
      BY <3>1, <3>2
  <2>3. \A n \in 1..Len(c) - 1 : SubSeq(c, 2, Len(c))[n] = c[n + 1]
    BY <1>0
  <2> QED
    BY <2>1, <2>2, <2>3
<1>2. \A n \in DOMAIN r : n \in Nat /\ n + 1 \in DOMAIN c /\ r[n] = c[n + 1]
  BY <1>0, <1>1
<1>3. KeysDiffer(r)
  BY <1>2 DEF InOrder, KeysDiffer
<1>4. ByUse(r) /\ \A i \in DOMAIN r : r[i].used <= last
  BY <1>2 DEF InOrder, ByUse
<1>5. CachedKeys(r) \subseteq CachedKeys(c)
  BY <1>2 DEF CachedKeys
<1>6. ASSUME NEW i \in DOMAIN c \ {1} PROVE c[i].key \in CachedKeys(r)
  <2>1. i - 1 \in DOMAIN r /\ r[i - 1] = c[i]
    BY <1>0, <1>1
  <2> QED
    BY <2>1 DEF CachedKeys
<1> QED
  BY <1>1, <1>3, <1>4, <1>5, <1>6 DEF InOrder

\* The conclusion of the next lemma: of the posteriors that are fresh, only one whose
\* key is taken back goes, or the one used longest ago from a full cache.
Spared ==
  \A i \in DOMAIN posteriors :
    posteriorTime - posteriors[i].time <= PosteriorTTL /\ posteriors[i].key \notin CachedKeys(posteriors')
      => \/ Posterior!Invalidate(posteriors[i].key) \/ Posterior!InvalidateAll
         \/ /\ Len(posteriors) = MaxPosteriors
            /\ \A j \in DOMAIN posteriors : posteriors[i].used <= posteriors[j].used

\* A key that is not found is not there, or has expired.
LEMMA NotFound ==
  ASSUME PosteriorInv, NEW k, ~Posterior!Disabled, ~Posterior!Found(k),
         NEW i \in DOMAIN posteriors, posteriorTime - posteriors[i].time <= PosteriorTTL
  PROVE  posteriors[i].key # k
<1> SUFFICES ASSUME posteriors[i].key = k PROVE FALSE
  OBVIOUS
<1>1. k \in CachedKeys(posteriors)
  BY DEF CachedKeys
<1>2. Place(posteriors, k) = i
  BY <1>1, PlaceHoldsKey DEF PosteriorInv, InOrder, KeysDiffer
<1>3. Entry(posteriors, k) = posteriors[i]
  BY <1>2 DEF Entry
<1> QED
  BY <1>1, <1>3, PosteriorOperations DEF Posterior!Found

LEMMA InferenceKeeps ==
  ASSUME StoresAssumption, PosteriorInv, NEW k \in Keys, Posterior!Infer(k)
  PROVE  PosteriorInv' /\ Spared
<1> USE PosteriorOperations
<1>1. ops' = ops + 1 /\ ops \in Nat /\ posteriorTime' = posteriorTime /\ posteriorTime \in Int
  BY DEF Posterior!Infer, Posterior!Operation, PosteriorInv
<1>0. InOrder(posteriors, ops) /\ posteriors \in Seq(Posteriors) /\ MaxPosteriors \in Int
  BY DEF PosteriorInv, InOrder, StoresAssumption
<1>2. CASE Posterior!Disabled
  <2>1. posteriors' = posteriors
    BY <1>2 DEF Posterior!Infer, Posterior!Found, Posterior!AfterGet, Posterior!AfterPut
  <2>2. \A i \in DOMAIN posteriors : posteriors[i].used <= ops + 1
    <3>1. \A i \in DOMAIN posteriors : posteriors[i].used <= ops /\ posteriors[i] \in Posteriors
      BY <1>0 DEF InOrder
    <3> QED
      BY <1>1, <3>1 DEF Posteriors
  <2>3. PosteriorInv'
    BY <1>0, <1>1, <2>1, <2>2 DEF PosteriorInv, InOrder, KeysDiffer, ByUse
  <2>4. Spared
    BY <2>1 DEF Spared, CachedKeys
  <2> QED
    BY <2>3, <2>4
<1>3. CASE ~Posterior!Disabled /\ Posterior!Found(k)
  <2> DEFINE e == [Entry(posteriors, k) EXCEPT !.used = ops']
             w == Without(posteriors, k)
  <2>1. k \in CachedKeys(posteriors) /\ posteriors' = Append(w, e)
    BY <1>3 DEF Posterior!Infer, Posterior!Found, Posterior!AfterGet
  <2>2. e \in Posteriors /\ e.key = k /\ e.used = ops + 1
    <3>1. Entry(posteriors, k) \in Posteriors /\ Entry(posteriors, k).key = k
      BY <1>0, <2>1, PlaceHoldsKey
    <3> QED
      BY <1>1, <3>1 DEF Posteriors
  <2>3. /\ InOrder(w, ops) /\ k \notin CachedKeys(w)
        /\ CachedKeys(posteriors) \ {k} \subseteq CachedKeys(w)
        /\ Len(w) < Len(posteriors) /\ Len(w) \in Nat
    BY <1>0, <1>1, <2>1, RemovalInOrder
  <2> HIDE DEF e, w
  <2>4. /\ InOrder(posteriors', ops + 1)
        /\ CachedKeys(w) \cup {k} \subseteq CachedKeys(posteriors')
        /\ Len(posteriors') = Len(w) + 1
    BY <1>1, <2>1, <2>2, <2>3, AdditionInOrder
  <2>5. PosteriorInv'
    <3>1. Len(posteriors') <= Len(posteriors) /\ Len(posteriors) <= MaxPosteriors /\ Len(posteriors) \in Nat
      BY <1>0, <2>3, <2>4 DEF PosteriorInv
    <3>2. InOrder(posteriors', ops') /\ ops' \in Nat
      BY <1>1, <2>4
    <3>3. Len(posteriors') <= MaxPosteriors
      BY <1>0, <2>3, <2>4, <3>1
    <3> QED
      BY <1>1, <3>2, <3>3 DEF PosteriorInv, InOrder, KeysDiffer, ByUse
  <2>6. Spared
    <3>1. CachedKeys(posteriors) \subseteq CachedKeys(posteriors')
      BY <2>3, <2>4
    <3> QED
      BY <3>1 DEF Spared, CachedKeys
  <2> QED
    BY <2>5, <2>6
<1>4. CASE ~Posterior!Disabled /\ ~Posterior!Found(k)
  <2> DEFINE e == [key |-> k, time |-> posteriorTime, used |-> ops']
             w == Without(posteriors, k)
             r == EvictTo(w, MaxPosteriors)
  <2>1. posteriors' = Assign(r, e) /\ MaxPosteriors \in Nat \ {0}
    <3>1. MaxPosteriors \in Nat \ {0}
      BY <1>0, <1>4 DEF Posterior!Disabled
    <3>2. Posterior!AfterGet(k) = w
      BY <1>4 DEF Posterior!AfterGet
    <3>3. posteriors' = Posterior!AfterPut(w, k)
      BY <1>4, <3>2 DEF Posterior!Infer
    <3> QED
      BY <1>4, <3>1, <3>3 DEF Posterior!AfterPut
  <2>2. e \in Posteriors /\ e.key = k /\ e.used = ops + 1
    BY <1>1 DEF Posteriors
  <2>3. /\ InOrder(w, ops) /\ k \notin CachedKeys(w)
        /\ CachedKeys(posteriors) \ {k} \subseteq CachedKeys(w)
        /\ Len(w) <= Len(posteriors) /\ Len(w) \in Nat
        /\ k \in CachedKeys(posteriors) => Len(w) < Len(posteriors)
        /\ k \notin CachedKeys(posteriors) => w = posteriors
    BY <1>0, <1>1, RemovalInOrder DEF Without
  <2>4. Len(posteriors) \in Nat /\ Len(posteriors) <= MaxPosteriors
    BY <1>0, <2>1 DEF PosteriorInv
  <2> HIDE DEF e, w
  <2>5. CASE Len(w) < MaxPosteriors
    <3>1. r = w
      BY <2>5 DEF EvictTo
    <3>2. posteriors' = Append(w, e)
      BY <2>1, <2>2, <2>3, <3>1 DEF Assign
    <3>3. /\ InOrder(posteriors', ops + 1)
          /\ CachedKeys(w) \cup {k} \subseteq CachedKeys(posteriors')
          /\ Len(posteriors') = Len(w) + 1
      BY <1>1, <2>2, <2>3, <3>2, AdditionInOrder
    <3>4. InOrder(posteriors', ops') /\ ops' \in Nat /\ Len(posteriors') <= MaxPosteriors
      BY <1>1, <2>1, <2>3, <2>5, <3>3
    <3>5. CachedKeys(posteriors) \subseteq CachedKeys(posteriors')
      BY <2>3, <3>3
    <3> QED
      BY <1>1, <3>4, <3>5 DEF Spared, CachedKeys, PosteriorInv, InOrder, KeysDiffer, ByUse
  <2>6. CASE ~(Len(w) < MaxPosteriors)
    <3>1. w = posteriors /\ Len(w) = MaxPosteriors /\ Len(w) \in Nat \ {0}
      BY <2>1, <2>3, <2>4, <2>6
    <3>2. /\ InOrder(r, ops) /\ Len(r) = Len(w) - 1
          /\ CachedKeys(r) \subseteq CachedKeys(w)
          /\ \A i \in DOMAIN w \ {1} : w[i].key \in CachedKeys(r)
      BY <1>1, <2>3, <3>1, EvictionInOrder
    <3> HIDE DEF r
    <3>3. k \notin CachedKeys(r)
      BY <2>3, <3>2
    <3>4. posteriors' = Append(r, e)
      BY <2>1, <2>2, <3>3 DEF Assign
    <3>5. /\ InOrder(posteriors', ops + 1)
          /\ CachedKeys(r) \cup {k} \subseteq CachedKeys(posteriors')
          /\ Len(posteriors') = Len(r) + 1
      BY <1>1, <2>2, <3>2, <3>3, <3>4, AdditionInOrder
    <3>6. InOrder(posteriors', ops') /\ ops' \in Nat /\ Len(posteriors') <= MaxPosteriors
      BY <1>1, <2>1, <3>1, <3>2, <3>5
    <3>7. PosteriorInv'
      BY <1>1, <3>6 DEF PosteriorInv, InOrder, KeysDiffer, ByUse
    <3>8. \A j \in DOMAIN posteriors : 1 \in DOMAIN posteriors /\ posteriors[1].used <= posteriors[j].used
      <4>1. \A j \in DOMAIN posteriors : 1 \in DOMAIN posteriors /\ 1 <= j
        BY <1>0
      <4> QED
        BY <1>0, <4>1 DEF InOrder, ByUse
    <3>9. \A i \in DOMAIN posteriors : posteriors[i].key \notin CachedKeys(posteriors') => i = 1
      BY <3>1, <3>2, <3>5
    <3>10. Spared
      BY <3>1, <3>8, <3>9 DEF Spared
    <3> QED
      BY <3>7, <3>10
  <2> QED
    BY <2>5, <2>6
<1> QED
  BY <1>2, <1>3, <1>4

LEMMA PosteriorKeeps ==
  ASSUME StoresAssumption, PosteriorInv, Posterior!Next
  PROVE  PosteriorInv' /\ Spared
<1> USE PosteriorOperations
<1>0. /\ InOrder(posteriors, ops) /\ posteriors \in Seq(Posteriors) /\ MaxPosteriors \in Int
      /\ ops \in Nat /\ posteriorTime \in Int
  BY DEF PosteriorInv, InOrder, StoresAssumption
<1>1. \A i \in DOMAIN posteriors : posteriors[i].used <= ops + 1
  <2>1. \A i \in DOMAIN posteriors : posteriors[i].used <= ops /\ posteriors[i] \in Posteriors
    BY <1>0 DEF InOrder
  <2> QED
    BY <1>0, <2>1 DEF Posteriors
<1>2. ASSUME NEW k \in Keys, posteriors' = Without(posteriors, k), Posterior!Operation
      PROVE  PosteriorInv' /\ CachedKeys(posteriors) \ {k} \subseteq CachedKeys(posteriors')
  <2>1. PICK w : w = Without(posteriors, k)
    OBVIOUS
  <2>2. /\ InOrder(w, ops) /\ Len(w) <= Len(posteriors) /\ Len(w) \in Nat
        /\ CachedKeys(posteriors) \ {k} \subseteq CachedKeys(w)
    BY <1>0, <2>1, RemovalInOrder
  <2>3. \A i \in DOMAIN w : w[i].used <= ops + 1
    <3>1. \A i \in DOMAIN w : w[i].used <= ops /\ w[i] \in Posteriors
      BY <2>2 DEF InOrder
    <3> QED
      BY <1>0, <3>1 DEF Posteriors
  <2>4. Len(w) <= MaxPosteriors \/ w = <<>>
    <3>1. CASE posteriors = <<>>
      <4>1. Len(w) = 0 /\ w \in Seq(Posteriors)
        BY <2>2, <3>1 DEF InOrder
      <4> QED
        BY <4>1
    <3>2. CASE Len(posteriors) <= MaxPosteriors
      BY <1>0, <2>2, <3>2
    <3> QED
      BY <3>1, <3>2 DEF PosteriorInv
  <2>5. ops' = ops + 1 /\ posteriorTime' = posteriorTime /\ posteriors' = w
    BY <1>2, <2>1 DEF Posterior!Operation
  <2>6. InOrder(w, ops + 1)
    BY <2>2, <2>3 DEF InOrder
  <2>7. /\ InOrder(posteriors', ops') /\ ops' \in Nat /\ posteriorTime' \in Int
        /\ Len(posteriors') <= MaxPosteriors \/ posteriors' = <<>>
    BY <1>0, <2>4, <2>5, <2>6
  <2>8. PosteriorInv'
    BY <2>7 DEF PosteriorInv, InOrder, KeysDiffer, ByUse
  <2> QED
    BY <2>2, <2>5, <2>8
<1>3. ASSUME posteriors' = posteriors, ops' \in {ops, ops + 1}, posteriorTime' \in Int
      PROVE  PosteriorInv' /\ Spared
  <2>1. \A i \in DOMAIN posteriors : posteriors[i].used <= ops'
    BY <1>0, <1>1, <1>3 DEF InOrder
  <2>2. InOrder(posteriors, ops')
    BY <1>0, <2>1 DEF InOrder
  <2>3. InOrder(posteriors', ops') /\ ops' \in Nat
    BY <1>0, <1>3, <2>2
  <2>4. PosteriorInv'
    BY <1>3, <2>3 DEF PosteriorInv, InOrder, KeysDiffer, ByUse
  <2> QED
    BY <1>3, <2>4 DEF Spared, CachedKeys
<1>4. ASSUME NEW k \in Keys, Posterior!InferenceFails(k) PROVE PosteriorInv' /\ Spared
  <2>1. /\ Posterior!Operation /\ ~Posterior!Found(k)
        /\ posteriors' = IF Posterior!Disabled THEN posteriors ELSE Without(posteriors, k)
    BY <1>4 DEF Posterior!InferenceFails, Posterior!AfterGet
  <2>2. CASE Posterior!Disabled
    BY <1>0, <1>3, <2>1, <2>2 DEF Posterior!Operation
  <2>3. CASE ~Posterior!Disabled
    <3>1. PosteriorInv' /\ CachedKeys(posteriors) \ {k} \subseteq CachedKeys(posteriors')
      BY <1>2, <2>1, <2>3
    <3>2. ASSUME NEW i \in DOMAIN posteriors, posteriorTime - posteriors[i].time <= PosteriorTTL
          PROVE  posteriors[i].key \in CachedKeys(posteriors')
      <4>1. posteriors[i].key # k
        BY <2>1, <2>3, <3>2, NotFound
      <4>2. posteriors[i].key \in CachedKeys(posteriors)
        BY DEF CachedKeys
      <4> QED
        BY <3>1, <4>1, <4>2
    <3> QED
      BY <3>1, <3>2 DEF Spared
  <2> QED
    BY <2>2, <2>3
<1>5. ASSUME NEW k \in Keys, Posterior!Invalidate(k) PROVE PosteriorInv' /\ Spared
  <2>1. Posterior!Operation /\ posteriors' = Without(posteriors, k)
    BY <1>5 DEF Posterior!Invalidate
  <2>2. PosteriorInv' /\ CachedKeys(posteriors) \ {k} \subseteq CachedKeys(posteriors')
    BY <1>2, <2>1
  <2>3. \A i \in DOMAIN posteriors : posteriors[i].key \notin CachedKeys(posteriors') => posteriors[i].key = k
    BY <2>2 DEF CachedKeys
  <2> QED
    BY <1>5, <2>2, <2>3 DEF Spared
<1>6. CASE Posterior!InvalidateAll
  <2>1. PosteriorInv'
    BY <1>0, <1>6 DEF Posterior!InvalidateAll, Posterior!Operation, PosteriorInv, InOrder, KeysDiffer, ByUse
  <2> QED
    BY <1>6, <2>1 DEF Spared
<1>7. CASE Posterior!Tick
  BY <1>0, <1>3, <1>7 DEF Posterior!Tick
<1> QED
  BY <1>4, <1>5, <1>6, <1>7, InferenceKeeps DEF Posterior!Next

\* For caches of any size and age, with any number of callers and keys: what has not
\* expired goes only by an invalidation or from a full cache, and of the posteriors
\* the one used longest ago.  (async_lru_cache; PosteriorCache.get and put, with the
\* inference between them.)
THEOREM LiveResultsRemain == StoresSpec => LiveResultsStay
<1> DEFINE Inv == /\ CacheInv /\ Len(cache) <= MaxSize
                  /\ PosteriorInv
           Live == \A k \in CachedKeys(cache) :
                     ~Expired(Entry(cache, k)) /\ k \notin CachedKeys(cache')
                       => clears' # clears \/ Len(cache) = MaxSize
<1>1. StoresInit => Inv
  BY CacheAssumption DEF StoresInit, Init, CacheInv, Posterior!Init, PosteriorInv, InOrder, KeysDiffer, ByUse
<1>2. Inv /\ [StoresNext]_storeVars => Inv' /\ [Live]_vars /\ [Spared]_posteriorVars
  <2> SUFFICES ASSUME Inv, [StoresNext]_storeVars
               PROVE  Inv' /\ [Live]_vars /\ [Spared]_posteriorVars
    OBVIOUS
  <2>1. Next \/ UNCHANGED vars
    BY DEF StoresNext, storeVars, OthersRest, Rests, ResultsStep, PosteriorsStep, MemoryStep, OracleStep,
           WorldStep, RagStep, ExperienceStep, DataStep, CausalStep, RulesStep, ReportsStep,
           FeedbackStep, ConvergenceStep, LogsStep, RouterStep
  <2>2. Posterior!Next \/ UNCHANGED posteriorVars
    BY DEF StoresNext, storeVars, OthersRest, Rests, ResultsStep, PosteriorsStep, MemoryStep, OracleStep,
           WorldStep, RagStep, ExperienceStep, DataStep, CausalStep, RulesStep, ReportsStep,
           FeedbackStep, ConvergenceStep, LogsStep, RouterStep
  <2>3. CacheInv' /\ Len(cache)' <= MaxSize /\ [Live]_vars
    <3>1. CASE Next
      BY <3>1, CacheKeeps, LiveStays
    <3>2. CASE UNCHANGED vars
      BY <3>2 DEF vars, CacheInv, May
    <3> QED
      BY <2>1, <3>1, <3>2
  <2>4. PosteriorInv' /\ [Spared]_posteriorVars
    <3>1. CASE Posterior!Next
      BY <3>1, StoresAssumption, PosteriorKeeps
    <3>2. CASE UNCHANGED posteriorVars
      BY <3>2 DEF posteriorVars, PosteriorInv, InOrder, KeysDiffer, ByUse
    <3> QED
      BY <2>2, <3>1, <3>2
  <2> QED
    BY <2>3, <2>4
<1>3. [Spared]_posteriorVars => [\A i \in DOMAIN posteriors :
         posteriorTime - posteriors[i].time <= PosteriorTTL
         /\ posteriors[i].key \notin Posterior!CachedKeys(posteriors')
         => \/ Posterior!Invalidate(posteriors[i].key) \/ Posterior!InvalidateAll
            \/ /\ Len(posteriors) = MaxPosteriors
               /\ \A j \in DOMAIN posteriors : posteriors[i].used <= posteriors[j].used]_(Posterior!vars)
  BY PosteriorOperations DEF Spared, posteriorVars, Posterior!vars
<1> QED
  BY <1>1, <1>2, <1>3, PTL DEF StoresSpec, LiveResultsStay, LiveEntriesStay, Posterior!LiveEntriesStay

-----------------------------------------------------------------------------
(* ChimeraOracle *)

\* A model may be older than one that an engine answered for, if it was in training
\* when that one began.
Excused(s, version, later) == version >= later \/ <<s, version, later>> \in overlaps

\* The models that an engine may hold.
Held(e) == {m \in [key : Keys, version : Nat] : Excused(m.key, m.version, answered[e][m.key])}

Phases == {"idle", "fitting", "writing", "sharing"}
Trainings == [scenario : Keys, version : Nat, phase : Phases] \cup {Oracle!Idle}
InTraining(e) == training[e].phase # "idle"

OracleTypes ==
  /\ running \subseteq Engines
  /\ newest \in [Keys -> Nat] /\ modelFiles \in [Keys -> Int]
  /\ answered \in [Engines -> [Keys -> Nat]]
  /\ training \in [Engines -> Trainings]
  /\ DOMAIN models = Engines

\* What was answered for, and what is in training, has begun.
OracleBegan ==
  /\ \A e \in Engines, s \in Keys : answered[e][s] <= newest[s]
  /\ \A e \in Engines : InTraining(e) => training[e].version <= newest[training[e].scenario]

\* No file is older than an answer, no training that may write one is, no two trainings
\* of a scenario pass each other and no file is older than what is written over it,
\* without having been in training when the newer one began.
FilesExcused ==
  \A s \in Keys, e \in Engines :
    modelFiles[s] > Oracle!Absent => Excused(s, modelFiles[s], answered[e][s])
TrainersExcused ==
  \A d, e \in Engines : InTraining(d) =>
    Excused(training[d].scenario, training[d].version, answered[e][training[d].scenario])
PassingNoted ==
  \A d, e \in Engines :
    d # e /\ InTraining(d) /\ InTraining(e) /\ training[d].scenario = training[e].scenario =>
      Excused(training[d].scenario, training[d].version, training[e].version)
SharedExcused ==
  \A e \in Engines :
    InTraining(e) /\ training[e].phase # "fitting" /\ modelFiles[training[e].scenario] > Oracle!Absent =>
      Excused(training[e].scenario, modelFiles[training[e].scenario], training[e].version)

AllExcused == FilesExcused /\ TrainersExcused /\ PassingNoted /\ SharedExcused

OracleInv ==
  /\ OracleTypes /\ OracleBegan /\ AllExcused
  /\ \A e \in Engines : models[e] \in Seq(Held(e))

\* The oracle's caches are operated on like any other.
LEMMA OracleOperations ==
  ASSUME NEW c, NEW k, NEW e, NEW n
  PROVE  /\ Oracle!CachedKeys(c) = CachedKeys(c) /\ Oracle!Entry(c, k) = Entry(c, k)
         /\ Oracle!Touch(c, k) = Touch(c, k) /\ Oracle!Assign(c, e) = Assign(c, e)
         /\ Oracle!EvictTo(c, n) = EvictTo(c, n)
         /\ Oracle!Cardinality(c) = Cardinality(c)
BY DEF Oracle!Cardinality, Cardinality,
        Oracle!CachedKeys, CachedKeys, Oracle!Entry, Entry, Oracle!Place, Place, Oracle!Touch, Touch,
       Oracle!Without, Without, Oracle!Assign, Assign, Oracle!EvictTo, EvictTo

\* What is excused remains so.
LEMMA ExcusedRemains ==
  ASSUME overlaps \subseteq overlaps'
  PROVE  /\ \A s, v, w : Excused(s, v, w) => Excused(s, v, w)'
         /\ \A e \in Engines : answered'[e] = answered[e] => Held(e) \subseteq Held(e)'
<1>1. \A s, v, w : Excused(s, v, w) => Excused(s, v, w)'
  BY DEF Excused
<1>2. ASSUME NEW e \in Engines, answered'[e] = answered[e], NEW m \in Held(e) PROVE m \in Held(e)'
  BY <1>1, <1>2 DEF Held
<1> QED
  BY <1>1, <1>2

\* The model just trained takes the place of the one before it.
LEMMA TrainedIsHeld ==
  ASSUME StoresAssumption, OracleTypes, NEW e \in Engines, models[e] \in Seq(Held(e)),
         NEW s \in Keys, NEW version \in Nat, Oracle!CacheModel(e, s, version),
         answered' = [answered EXCEPT ![e][s] = version], UNCHANGED overlaps
  PROVE  models'[e] \in Seq(Held(e)')
<1> DEFINE m == [key |-> s, version |-> version]
           assigned == Assign(models[e], m)
           old == Held(e)
           new == Held(e)'
<1>1. /\ answered'[e][s] = version
      /\ \A t \in Keys : t # s => answered'[e][t] = answered[e][t]
  BY DEF OracleTypes
<1>2. \A t, v, w : Excused(t, v, w)' <=> Excused(t, v, w)
  BY DEF Excused
<1>3. m \in new
  <2>1. Excused(s, version, version)'
    BY DEF Excused
  <2> QED BY <1>1, <2>1 DEF Held
<1>4. \A n \in old : n.key # s => n \in new
  BY <1>1, <1>2 DEF Held
<1>0. models[e] \in Seq(old)
  OBVIOUS
<1> HIDE DEF old, new
<1>5. assigned \in Seq(new)
  <2> DEFINE c == models[e]
  <2>1. c \in Seq(old) /\ \A i \in DOMAIN c : c[i] \in old
    BY <1>0
  <2>2. CASE s \in CachedKeys(c)
    <3>1. assigned = [i \in 1..Len(c) |-> IF c[i].key = s THEN m ELSE c[i]]
      BY <2>1, <2>2 DEF Assign
    <3> QED
      BY <1>3, <1>4, <2>1, <3>1
  <2>3. CASE s \notin CachedKeys(c)
    <3>1. assigned = Append(c, m) /\ \A i \in DOMAIN c : c[i].key # s
      BY <2>3 DEF Assign, CachedKeys
    <3>2. c \in Seq(new)
      <4>1. Len(c) \in Nat /\ c = [i \in 1..Len(c) |-> c[i]] /\ DOMAIN c = 1..Len(c)
        <5>1. \A S, q : q \in Seq(S) => Len(q) \in Nat /\ q = [i \in 1..Len(q) |-> q[i]] /\ DOMAIN q = 1..Len(q)
          OBVIOUS
        <5> QED BY <2>1, <5>1, Zenon
      <4>2. \A i \in DOMAIN c : c[i] \in old /\ c[i].key # s
        BY <2>1, <3>1, Zenon
      <4>3. \A i \in 1..Len(c) : c[i] \in new
        BY <1>4, <4>1, <4>2, Zenon
      <4>4. \A n, E : n \in Nat => \A f : f = [i \in 1..n |-> f[i]] /\ (\A i \in 1..n : f[i] \in E) => f \in Seq(E)
        OBVIOUS
      <4> QED BY <4>1, <4>3, <4>4, Zenon
    <3>3. \A set, list, n : list \in Seq(set) /\ n \in set => Append(list, n) \in Seq(set)
      OBVIOUS
    <3> QED
      BY <1>3, <3>1, <3>2, <3>3, Zenon
  <2> QED
    BY <2>2, <2>3
<1>6. s \in CachedKeys(assigned)
  <2>1. m.key \in CachedKeys(assigned)
    BY <1>0, InsertionKeepsKeys
  <2> QED BY <2>1
<1>7. Touch(assigned, s) \in Seq(new)
  BY <1>5, <1>6, RemovalKeepsEntries
<1>8. EvictTo(Touch(assigned, s), MaxModels + 1) \in Seq(new)
  <2>1. MaxModels + 1 \in Nat \ {0}
    BY DEF StoresAssumption
  <2> QED BY <1>7, <2>1, EvictionKeepsEntries, Zenon
<1>9. models' = [models EXCEPT ![e] = EvictTo(Touch(assigned, s), MaxModels + 1)]
  BY OracleOperations DEF Oracle!CacheModel
<1> QED
  BY <1>8, <1>9 DEF OracleTypes, new

\* What holds of a training, and of an engine that does not train.
LEMMA TrainingIs ==
  ASSUME OracleTypes, NEW e \in Engines
  PROVE  /\ InTraining(e) => /\ training[e].scenario \in Keys /\ training[e].version \in Nat
                             /\ training[e].phase \in {"fitting", "writing", "sharing"}
         /\ ~InTraining(e) => training[e].phase = "idle"
<1>1. training[e] \in Trainings
  BY DEF OracleTypes
<1>2. CASE training[e] = Oracle!Idle
  BY <1>2 DEF Oracle!Idle, InTraining
<1>3. CASE training[e] \in [scenario : Keys, version : Nat, phase : Phases]
  BY <1>3 DEF Phases, InTraining
<1> QED
  BY <1>1, <1>2, <1>3 DEF Trainings

\* A training ends, saved, failed or with its process, and leaves in the file what it
\* wrote, a part of it, or what was there.
LEMMA TrainingEnds ==
  ASSUME OracleTypes, OracleBegan, AllExcused, NEW e \in Engines,
         training' = [training EXCEPT ![e] = Oracle!Idle], UNCHANGED <<newest, overlaps>>,
         \/ UNCHANGED <<modelFiles, answered>>
         \/ LET s == training[e].scenario
                v == training[e].version
            IN  /\ InTraining(e)
                /\ \E left \in {v, Oracle!Partial, modelFiles[s]} : modelFiles' = [modelFiles EXCEPT ![s] = left]
                /\ \/ UNCHANGED answered
                   \/ training[e].phase # "fitting" /\ answered' = [answered EXCEPT ![e][s] = v]
  PROVE  /\ modelFiles' \in [Keys -> Int] /\ answered' \in [Engines -> [Keys -> Nat]]
         /\ training' \in [Engines -> Trainings]
         /\ OracleBegan' /\ AllExcused'
<1> USE DEF Oracle!Absent, Oracle!Partial
<1> DEFINE s == training[e].scenario
           v == training[e].version
<1>1. InTraining(e) => s \in Keys /\ v \in Nat
  BY TrainingIs
<1>2. /\ modelFiles' \in [Keys -> Int] /\ answered' \in [Engines -> [Keys -> Nat]]
      /\ training' \in [Engines -> Trainings]
  BY <1>1 DEF OracleTypes, Trainings
<1>3. \A t \in Keys : \/ modelFiles'[t] = modelFiles[t] \/ modelFiles'[t] = -1
                      \/ InTraining(e) /\ t = s /\ modelFiles'[t] = v
  BY <1>1 DEF OracleTypes
<1>4. \A d \in Engines, t \in Keys :
        \/ answered'[d][t] = answered[d][t]
        \/ d = e /\ t = s /\ InTraining(e) /\ training[e].phase # "fitting" /\ answered'[d][t] = v
  BY <1>1 DEF OracleTypes
<1>5. /\ \A d \in Engines : d # e => training'[d] = training[d] /\ (InTraining(d)' <=> InTraining(d))
      /\ ~InTraining(e)'
  BY DEF OracleTypes, InTraining, Oracle!Idle
<1>6. OracleBegan'
  <2>1. ASSUME NEW d \in Engines, NEW t \in Keys PROVE answered'[d][t] <= newest'[t]
    BY <1>1, <1>4 DEF OracleBegan
  <2>2. ASSUME NEW d \in Engines, InTraining(d)' PROVE training'[d].version <= newest'[training'[d].scenario]
    BY <1>5, <2>2 DEF OracleBegan
  <2> QED BY <2>1, <2>2 DEF OracleBegan
<1>7. FilesExcused'
  <2> SUFFICES ASSUME NEW t \in Keys, NEW d \in Engines, modelFiles'[t] > 0
               PROVE  Excused(t, modelFiles[t], answered[d][t])'
    BY DEF FilesExcused
  <2>1. /\ modelFiles'[t] \in Int /\ modelFiles[t] \in Int /\ answered[d][t] \in Nat /\ answered'[d][t] \in Nat
        /\ \/ modelFiles'[t] = modelFiles[t]
           \/ InTraining(e) /\ t = s /\ modelFiles'[t] = v
    BY <1>2, <1>3 DEF OracleTypes
  <2>2. CASE answered'[d][t] = answered[d][t]
    BY <2>1, <2>2 DEF AllExcused, FilesExcused, TrainersExcused, Excused
  <2>3. CASE d = e /\ t = s /\ InTraining(e) /\ training[e].phase # "fitting" /\ answered'[d][t] = v
    BY <1>1, <2>1, <2>3 DEF AllExcused, SharedExcused, Excused
  <2> QED BY <1>4, <2>2, <2>3
<1>8. TrainersExcused'
  <2> SUFFICES ASSUME NEW c \in Engines, NEW d \in Engines, InTraining(c)'
               PROVE  Excused(training[c].scenario, training[c].version, answered[d][training[c].scenario])'
    BY DEF TrainersExcused
  <2>1. c # e /\ InTraining(c) /\ training'[c] = training[c] /\ training[c].scenario \in Keys
    BY <1>5, TrainingIs
  <2>2. CASE answered'[d][training[c].scenario] = answered[d][training[c].scenario]
    BY <2>1, <2>2 DEF AllExcused, TrainersExcused, Excused
  <2>3. CASE training[c].scenario = s /\ InTraining(e) /\ answered'[d][training[c].scenario] = v
    BY <2>1, <2>3 DEF AllExcused, PassingNoted, Excused
  <2> QED BY <1>4, <2>1, <2>2, <2>3
<1>9. PassingNoted'
  <2> SUFFICES ASSUME NEW c \in Engines, NEW d \in Engines, c # d, InTraining(c)', InTraining(d)',
                      training'[c].scenario = training'[d].scenario
               PROVE  Excused(training[c].scenario, training[c].version, training[d].version)'
    BY DEF PassingNoted
  <2>1. /\ InTraining(c) /\ InTraining(d)
        /\ training'[c] = training[c] /\ training'[d] = training[d]
    BY <1>5
  <2> QED BY <2>1 DEF AllExcused, PassingNoted, Excused
<1>10. SharedExcused'
  <2> SUFFICES ASSUME NEW d \in Engines, InTraining(d)', training'[d].phase # "fitting",
                      modelFiles'[training'[d].scenario] > 0
               PROVE  Excused(training[d].scenario, modelFiles[training[d].scenario], training[d].version)'
    BY DEF SharedExcused
  <2>1. d # e /\ InTraining(d) /\ training'[d] = training[d] /\ training[d].scenario \in Keys
    BY <1>5, TrainingIs
  <2>2. CASE modelFiles'[training[d].scenario] = modelFiles[training[d].scenario]
    BY <2>1, <2>2 DEF AllExcused, SharedExcused, Excused
  <2>3. CASE InTraining(e) /\ training[d].scenario = s /\ modelFiles'[training[d].scenario] = v
    BY <2>1, <2>3 DEF AllExcused, PassingNoted, Excused
  <2> QED BY <1>3, <2>1, <2>2, <2>3
<1> QED
  BY <1>2, <1>6, <1>7, <1>8, <1>9, <1>10 DEF AllExcused

\* An engine that forgets its models holds none; the others hold what they held.
LEMMA ForgettingHolds ==
  ASSUME NEW e \in Engines, DOMAIN models = Engines, \A d \in Engines : models[d] \in Seq(Held(d)),
         Oracle!ForgetModels(e), UNCHANGED answered, UNCHANGED overlaps
  PROVE  DOMAIN models' = Engines /\ \A d \in Engines : models'[d] \in Seq(Held(d)')
<1>1. \A d \in Engines : Held(d)' = Held(d)
  BY DEF Held, Excused
<1> QED
  BY <1>1 DEF Oracle!ForgetModels

\* A training begins after every one that may write its file.
LEMMA ReadingKeeps ==
  ASSUME OracleInv, NEW e \in Engines, NEW s \in Keys, Oracle!ReadData(e, s)
  PROVE  OracleInv'
<1> DEFINE v == newest[s] + 1
           new == [scenario |-> s, version |-> v, phase |-> "fitting"]
<1>1. /\ UNCHANGED <<running, models, modelFiles, answered>>
      /\ newest' = [newest EXCEPT ![s] = v] /\ training' = [training EXCEPT ![e] = new]
      /\ overlaps' = overlaps \cup {<<s, training[d].version, v>> : d \in Oracle!Trainers(s, Oracle!Trains)}
      /\ ~InTraining(e)
  BY DEF Oracle!ReadData, Oracle!Working, InTraining
<1>2. OracleTypes /\ OracleBegan /\ AllExcused
  BY DEF OracleInv
<1>3. v \in Nat /\ v > newest[s] /\ newest[s] \in Nat /\ newest'[s] = v /\ \A t \in Keys : newest'[t] >= newest[t]
  BY <1>1, <1>2 DEF OracleTypes
<1>4. OracleTypes'
  BY <1>1, <1>2, <1>3 DEF OracleTypes, Trainings, Phases
<1>5. /\ training'[e] = new /\ InTraining(e)'
      /\ \A d \in Engines : d # e => training'[d] = training[d] /\ (InTraining(d)' <=> InTraining(d))
  BY <1>1, <1>2 DEF OracleTypes, InTraining
<1>6. overlaps \subseteq overlaps' /\ \A t, x, y : Excused(t, x, y) => Excused(t, x, y)'
  BY <1>1 DEF Excused
<1>7. \A d \in Engines : InTraining(d) /\ training[d].scenario = s =>
        /\ training[d].version <= newest[s] /\ training[d].version \in Nat
        /\ <<s, training[d].version, v>> \in overlaps'
  <2> SUFFICES ASSUME NEW d \in Engines, InTraining(d), training[d].scenario = s
               PROVE  /\ training[d].version <= newest[s] /\ training[d].version \in Nat
                      /\ <<s, training[d].version, v>> \in overlaps'
    OBVIOUS
  <2>1. d \in Oracle!Trainers(s, Oracle!Trains)
    BY <1>2, TrainingIs DEF Oracle!Trainers, Oracle!Trains, Oracle!Writing
  <2>2. training[d].version <= newest[s] /\ training[d].version \in Nat
    BY <1>2, TrainingIs DEF OracleBegan
  <2> QED BY <1>1, <2>1, <2>2
<1>8. OracleBegan'
  <2>1. \A d \in Engines, t \in Keys : answered'[d][t] <= newest'[t]
    BY <1>1, <1>2, <1>3, <1>4 DEF OracleBegan, OracleTypes
  <2>2. ASSUME NEW d \in Engines, InTraining(d)' PROVE training'[d].version <= newest'[training'[d].scenario]
    <3>1. CASE d = e
      BY <1>3, <1>5, <3>1
    <3>2. CASE d # e
      <4>1. /\ training'[d] = training[d] /\ training[d].version <= newest[training[d].scenario]
            /\ training[d].scenario \in Keys /\ training[d].version \in Nat
        BY <1>2, <1>5, <2>2, <3>2, TrainingIs DEF OracleBegan
      <4>2. newest[training[d].scenario] \in Nat /\ newest'[training[d].scenario] \in Nat
        BY <1>2, <1>4, <4>1 DEF OracleTypes
      <4> QED BY <1>3, <4>1, <4>2
    <3> QED BY <3>1, <3>2
  <2> QED BY <2>1, <2>2 DEF OracleBegan
<1>9. FilesExcused'
  <2> SUFFICES ASSUME NEW t \in Keys, NEW d \in Engines, modelFiles'[t] > Oracle!Absent
               PROVE  Excused(t, modelFiles[t], answered[d][t])'
    BY DEF FilesExcused, Oracle!Absent
  <2>1. Excused(t, modelFiles[t], answered[d][t])
    BY <1>1, <1>2 DEF AllExcused, FilesExcused
  <2> QED BY <1>1, <2>1 DEF Excused
<1>10. TrainersExcused'
  <2> SUFFICES ASSUME NEW c \in Engines, NEW d \in Engines, InTraining(c)'
               PROVE  Excused(training[c].scenario, training[c].version, answered[d][training[c].scenario])'
    BY DEF TrainersExcused
  <2>1. CASE c = e
    <3>1. answered'[d][s] <= newest[s] /\ answered'[d][s] \in Nat
      BY <1>1, <1>2 DEF OracleBegan, OracleTypes
    <3> QED BY <1>3, <1>5, <2>1, <3>1 DEF Excused
  <2>2. CASE c # e
    <3>1. Excused(training[c].scenario, training[c].version, answered[d][training[c].scenario])
      BY <1>2, <1>5, <2>2 DEF AllExcused, TrainersExcused
    <3> QED BY <1>1, <1>5, <2>2, <3>1 DEF Excused
  <2> QED BY <2>1, <2>2
<1>11. PassingNoted'
  <2> SUFFICES ASSUME NEW c \in Engines, NEW d \in Engines, c # d, InTraining(c)', InTraining(d)',
                      training'[c].scenario = training'[d].scenario
               PROVE  Excused(training[c].scenario, training[c].version, training[d].version)'
    BY DEF PassingNoted
  <2>1. CASE c = e
    <3>1. training'[c].version = v /\ training'[d] = training[d] /\ InTraining(d) /\ training[d].scenario = s
      BY <1>5, <2>1
    <3>2. training[d].version <= newest[s] /\ training[d].version \in Nat
      BY <1>7, <3>1
    <3> HIDE DEF v
    <3>3. v >= training[d].version
      BY <1>3, <3>2
    <3> QED BY <3>1, <3>3 DEF Excused
  <2>2. CASE d = e
    BY <1>3, <1>5, <1>7, <2>2 DEF Excused
  <2>3. CASE c # e /\ d # e
    <3>1. Excused(training[c].scenario, training[c].version, training[d].version)
      BY <1>2, <1>5, <2>3 DEF AllExcused, PassingNoted
    <3> QED BY <1>1, <1>5, <2>3, <3>1 DEF Excused
  <2> QED BY <2>1, <2>2, <2>3
<1>12. SharedExcused'
  <2> SUFFICES ASSUME NEW d \in Engines, InTraining(d)', training'[d].phase # "fitting",
                      modelFiles'[training'[d].scenario] > Oracle!Absent
               PROVE  Excused(training[d].scenario, modelFiles[training[d].scenario], training[d].version)'
    BY DEF SharedExcused, Oracle!Absent
  <2>1. d # e
    BY <1>5
  <2>2. Excused(training[d].scenario, modelFiles[training[d].scenario], training[d].version)
    BY <1>1, <1>2, <1>5, <2>1 DEF AllExcused, SharedExcused
  <2> QED BY <1>1, <1>5, <2>1, <2>2 DEF Excused
<1>13. ASSUME NEW d \in Engines PROVE models'[d] \in Seq(Held(d)')
  <2>1. Held(d) \subseteq Held(d)' /\ models'[d] = models[d] /\ models[d] \in Seq(Held(d))
    BY <1>1, <1>6, ExcusedRemains DEF OracleInv
  <2>2. \A S, T : S \subseteq T => Seq(S) \subseteq Seq(T)
    OBVIOUS
  <2> QED BY <2>1, <2>2, Zenon
<1> QED
  BY <1>4, <1>8, <1>9, <1>10, <1>11, <1>12, <1>13 DEF OracleInv, AllExcused

\* Opening a file leaves nothing in it that is older than what is written there.
LEMMA OpeningKeeps ==
  ASSUME OracleInv, NEW e \in Engines, Oracle!OpenFile(e)
  PROVE  OracleInv'
<1> USE DEF Oracle!Absent, Oracle!Partial
<1> DEFINE s == training[e].scenario
<1>1. OracleTypes /\ OracleBegan /\ AllExcused
  BY DEF OracleInv
<1>2. InTraining(e) /\ s \in Keys /\ training[e].version \in Nat
  BY <1>1, TrainingIs DEF Oracle!OpenFile, Oracle!Working, InTraining
<1>3. /\ UNCHANGED <<running, models, newest, answered, overlaps>>
      /\ modelFiles' = [modelFiles EXCEPT ![s] = -1]
  BY DEF Oracle!OpenFile
<1>4. /\ training' \in [Engines -> Trainings]
      /\ \A d \in Engines :
           /\ InTraining(d)' <=> InTraining(d)
           /\ training'[d].scenario = training[d].scenario /\ training'[d].version = training[d].version
           /\ training'[d] = training[d] \/ training[d].scenario = s
  <2> DEFINE writers == Oracle!Trainers(s, Oracle!Writing)
             shared(d) == IF d = e THEN [training[e] EXCEPT !.phase = IF writers = {} THEN "writing" ELSE "sharing"]
                          ELSE IF d \in writers THEN [training[d] EXCEPT !.phase = "sharing"]
                          ELSE training[d]
  <2>1. training' = [d \in Engines |-> shared(d)]
    BY DEF Oracle!OpenFile
  <2>2. ASSUME NEW d \in Engines, InTraining(d), NEW p \in {"writing", "sharing"}
        PROVE  LET t == [training[d] EXCEPT !.phase = p]
               IN  /\ t \in Trainings /\ t.phase = p
                   /\ t.scenario = training[d].scenario /\ t.version = training[d].version
    <3>1. training[d] \in [scenario : Keys, version : Nat, phase : Phases]
      BY <1>1, <2>2 DEF OracleTypes, Trainings, InTraining, Oracle!Idle
    <3> QED BY <2>2, <3>1 DEF Trainings, Phases
  <2>3. \A d \in writers : d \in Engines /\ InTraining(d) /\ training[d].scenario = s
    BY DEF Oracle!Trainers, Oracle!Writing, InTraining
  <2> HIDE DEF writers
  <2>4. ASSUME NEW d \in Engines
        PROVE  /\ shared(d) \in Trainings /\ (shared(d).phase # "idle" <=> InTraining(d))
               /\ shared(d).scenario = training[d].scenario /\ shared(d).version = training[d].version
               /\ shared(d) = training[d] \/ training[d].scenario = s
    <3>1. CASE d = e
      BY <1>2, <2>2, <3>1 DEF InTraining
    <3>2. CASE d # e /\ d \in writers
      BY <2>2, <2>3, <3>2 DEF InTraining
    <3>3. CASE d # e /\ d \notin writers
      BY <1>1, <3>3 DEF OracleTypes, InTraining
    <3> QED BY <3>1, <3>2, <3>3
  <2> HIDE DEF shared
  <2> QED BY <2>1, <2>4 DEF InTraining
<1>5. OracleTypes'
  BY <1>1, <1>2, <1>3, <1>4 DEF OracleTypes
<1>6. OracleBegan'
  BY <1>1, <1>3, <1>4 DEF OracleBegan
<1>7. \A t \in Keys : modelFiles'[t] > 0 => modelFiles'[t] = modelFiles[t] /\ t # s
  BY <1>1, <1>2, <1>3 DEF OracleTypes
<1>8. FilesExcused'
  BY <1>1, <1>3, <1>7 DEF AllExcused, FilesExcused, Excused
<1>9. TrainersExcused'
  BY <1>1, <1>3, <1>4 DEF AllExcused, TrainersExcused, Excused
<1>10. PassingNoted'
  BY <1>1, <1>3, <1>4 DEF AllExcused, PassingNoted, Excused
<1>11. SharedExcused'
  <2> SUFFICES ASSUME NEW d \in Engines, InTraining(d)', training'[d].phase # "fitting",
                      modelFiles'[training'[d].scenario] > 0
               PROVE  Excused(training[d].scenario, modelFiles[training[d].scenario], training[d].version)'
    BY DEF SharedExcused
  <2>1. InTraining(d) /\ training[d].scenario \in Keys /\ training'[d].scenario = training[d].scenario
    BY <1>1, <1>4, TrainingIs
  <2>2. modelFiles'[training[d].scenario] = modelFiles[training[d].scenario] /\ training'[d] = training[d]
    BY <1>4, <1>7, <2>1
  <2> QED BY <1>1, <1>3, <2>1, <2>2 DEF AllExcused, SharedExcused, Excused
<1>12. \A d \in Engines : Held(d)' = Held(d) /\ models'[d] = models[d]
  BY <1>3 DEF Held, Excused
<1> QED
  BY <1>5, <1>6, <1>8, <1>9, <1>10, <1>11, <1>12 DEF OracleInv, AllExcused

LEMMA OracleKeeps ==
  ASSUME StoresAssumption, OracleInv, Oracle!Next
  PROVE  OracleInv'
<1>0. OracleTypes /\ OracleBegan /\ AllExcused /\ DOMAIN models = Engines /\ \A d \in Engines : models[d] \in Seq(Held(d))
  BY DEF OracleInv, OracleTypes
<1>1. ASSUME UNCHANGED <<training, modelFiles, newest, answered, overlaps>>, running' \subseteq Engines, DOMAIN models' = Engines
      PROVE  /\ OracleTypes' /\ OracleBegan' /\ AllExcused' /\ \A d \in Engines : Held(d)' = Held(d)
  BY <1>0, <1>1 DEF OracleTypes, OracleBegan, AllExcused, FilesExcused, TrainersExcused, PassingNoted, SharedExcused,
                    InTraining, Held, Excused
<1>2. ASSUME NEW e \in Engines, Oracle!Saved(e) PROVE OracleInv'
  <2> DEFINE s == training[e].scenario
             v == training[e].version
  <2>1. InTraining(e) /\ training[e].phase # "fitting" /\ s \in Keys /\ v \in Nat
    BY <1>0, <1>2, TrainingIs DEF Oracle!Saved, Oracle!Working, Oracle!Writing, InTraining
  <2>2. /\ \E left \in {v, Oracle!Partial, modelFiles[s]} : modelFiles' = [modelFiles EXCEPT ![s] = left]
        /\ answered' = [answered EXCEPT ![e][s] = v] /\ training' = [training EXCEPT ![e] = Oracle!Idle]
        /\ Oracle!CacheModel(e, s, v) /\ UNCHANGED <<running, newest, overlaps>>
    BY <1>2 DEF Oracle!Saved, Oracle!Written
  <2>3. /\ modelFiles' \in [Keys -> Int] /\ answered' \in [Engines -> [Keys -> Nat]]
        /\ training' \in [Engines -> Trainings] /\ OracleBegan' /\ AllExcused'
    BY <1>0, <2>1, <2>2, TrainingEnds
  <2>4. models'[e] \in Seq(Held(e)')
    BY <1>0, <2>1, <2>2, TrainedIsHeld
  <2>5. DOMAIN models' = Engines /\ \A d \in Engines : d # e => models'[d] = models[d] /\ answered'[d] = answered[d]
    BY <1>0, <2>2 DEF Oracle!CacheModel, OracleTypes
  <2>6. ASSUME NEW d \in Engines, d # e PROVE models'[d] \in Seq(Held(d)')
    <3>1. Held(d)' = Held(d)
      BY <2>2, <2>5, <2>6 DEF Held, Excused
    <3> QED BY <1>0, <2>5, <2>6, <3>1
  <2>7. OracleTypes'
    BY <1>0, <2>2, <2>3, <2>5 DEF OracleTypes
  <2> QED BY <2>3, <2>4, <2>6, <2>7 DEF OracleInv
<1>3. ASSUME NEW e \in Engines, Oracle!TrainFails(e) PROVE OracleInv'
  <2> DEFINE s == training[e].scenario
             v == training[e].version
  <2>1. InTraining(e)
    BY <1>3 DEF Oracle!TrainFails, Oracle!Working, Oracle!Trains, Oracle!Writing, InTraining
  <2>2. /\ \E left \in {v, Oracle!Partial, modelFiles[s]} : modelFiles' = [modelFiles EXCEPT ![s] = left]
        /\ training' = [training EXCEPT ![e] = Oracle!Idle] /\ UNCHANGED <<running, models, newest, answered, overlaps>>
    BY <1>3 DEF Oracle!TrainFails
  <2>3. /\ modelFiles' \in [Keys -> Int] /\ training' \in [Engines -> Trainings] /\ OracleBegan' /\ AllExcused'
    BY <1>0, <2>1, <2>2, TrainingEnds
  <2>4. OracleTypes'
    BY <1>0, <2>2, <2>3 DEF OracleTypes
  <2>5. \A d \in Engines : Held(d)' = Held(d)
    BY <2>2 DEF Held, Excused
  <2> QED BY <1>0, <2>2, <2>3, <2>4, <2>5 DEF OracleInv
<1>4. ASSUME NEW e \in Engines, Oracle!Stop(e) PROVE OracleInv'
  <2> DEFINE s == training[e].scenario
             v == training[e].version
  <2>1. /\ Oracle!ForgetModels(e) /\ UNCHANGED answered /\ UNCHANGED overlaps /\ UNCHANGED newest
        /\ training' = [training EXCEPT ![e] = Oracle!Idle] /\ running' \subseteq running
    BY <1>4 DEF Oracle!Stop
  <2>2. \/ UNCHANGED modelFiles
        \/ /\ InTraining(e)
           /\ \E left \in {v, Oracle!Partial, modelFiles[s]} : modelFiles' = [modelFiles EXCEPT ![s] = left]
    BY <1>4 DEF Oracle!Stop, Oracle!Writing, Oracle!Written, InTraining
  <2>3. /\ modelFiles' \in [Keys -> Int] /\ training' \in [Engines -> Trainings] /\ OracleBegan' /\ AllExcused'
    BY <1>0, <2>1, <2>2, TrainingEnds
  <2>4. DOMAIN models' = Engines /\ \A d \in Engines : models'[d] \in Seq(Held(d)')
    BY <1>0, <2>1, ForgettingHolds
  <2>5. OracleTypes'
    BY <1>0, <2>1, <2>3, <2>4 DEF OracleTypes
  <2> QED BY <2>3, <2>4, <2>5 DEF OracleInv
<1>5. ASSUME NEW e \in Engines, Oracle!ClearModels(e) PROVE OracleInv'
  <2>1. /\ Oracle!ForgetModels(e) /\ UNCHANGED answered /\ UNCHANGED overlaps
        /\ UNCHANGED <<running, training, modelFiles, newest, answered, overlaps>>
    BY <1>5 DEF Oracle!ClearModels
  <2>2. DOMAIN models' = Engines /\ \A d \in Engines : models'[d] \in Seq(Held(d)')
    BY <1>0, <2>1, ForgettingHolds
  <2>3. running' \subseteq Engines
    BY <1>0, <2>1 DEF OracleTypes
  <2> QED BY <1>1, <2>1, <2>2, <2>3 DEF OracleInv
<1>6. ASSUME NEW e \in Engines, NEW s \in Keys, Oracle!Predict(e, s) PROVE OracleInv'
  <2>1. /\ models' = [models EXCEPT ![e] = Touch(@, s)] /\ s \in CachedKeys(models[e])
        /\ UNCHANGED <<running, training, modelFiles, newest, answered, overlaps>>
    BY <1>6, OracleOperations DEF Oracle!Predict, Oracle!HasModel
  <2>2. Touch(models[e], s) \in Seq(Held(e))
    BY <1>0, <2>1, RemovalKeepsEntries
  <2>3. running' \subseteq Engines /\ DOMAIN models' = Engines
    BY <1>0, <2>1 DEF OracleTypes
  <2>4. \A d \in Engines : models'[d] \in Seq(Held(d))
    BY <1>0, <2>1, <2>2
  <2> QED BY <1>1, <2>1, <2>3, <2>4 DEF OracleInv
<1>7. ASSUME NEW e \in Engines, Oracle!LoadExistingModels(e) PROVE OracleInv'
  <2> DEFINE loadable == Oracle!Loadable
  <2>0. Oracle!Cardinality(loadable) = Cardinality(loadable)
    BY OracleOperations
  <2>1. PICK listing \in [1..Cardinality(loadable) -> loadable] :
          models' = [models EXCEPT ![e] =
            [i \in DOMAIN listing |-> [key |-> listing[i], version |-> modelFiles[listing[i]]]]]
    BY <1>7, <2>0 DEF Oracle!LoadExistingModels
  <2>2. \A t \in loadable : [key |-> t, version |-> modelFiles[t]] \in Held(e)
    <3> SUFFICES ASSUME NEW t \in Keys, modelFiles[t] > Oracle!Absent
                 PROVE  [key |-> t, version |-> modelFiles[t]] \in Held(e)
      BY DEF Oracle!Loadable
    <3>1. modelFiles[t] \in Nat
      BY <1>0 DEF OracleTypes, Oracle!Absent
    <3>2. Excused(t, modelFiles[t], answered[e][t])
      BY <1>0 DEF AllExcused, FilesExcused
    <3> QED BY <3>1, <3>2 DEF Held
  <2>3. Cardinality(loadable) \in Nat
    BY FS_Subset, FS_CardinalityType DEF Oracle!Loadable, StoresAssumption
  <2>4. [i \in DOMAIN listing |-> [key |-> listing[i], version |-> modelFiles[listing[i]]]] \in Seq(Held(e))
    <3> DEFINE entry(i) == [key |-> listing[i], version |-> modelFiles[listing[i]]]
    <3>1. \A i \in 1..Cardinality(loadable) : entry(i) \in Held(e)
      BY <2>2
    <3>2. DOMAIN listing = 1..Cardinality(loadable)
      OBVIOUS
    <3> HIDE DEF loadable, entry
    <3>3. [i \in DOMAIN listing |-> entry(i)] \in [1..Cardinality(loadable) -> Held(e)]
      BY <3>1, <3>2
    <3>4. [i \in DOMAIN listing |-> entry(i)] \in Seq(Held(e))
      <4>1. \A E, n : n \in Nat => \A f \in [1..n -> E] : f \in Seq(E)
        OBVIOUS
      <4> QED
        BY <2>3, <3>3, <4>1, Zenon
    <3> QED
      BY <3>4 DEF entry
  <2>5. /\ running' \subseteq Engines /\ DOMAIN models' = Engines
        /\ UNCHANGED <<training, modelFiles, newest, answered, overlaps>>
    BY <1>0, <1>7 DEF Oracle!LoadExistingModels, OracleTypes
  <2> DEFINE loaded == [i \in DOMAIN listing |-> [key |-> listing[i], version |-> modelFiles[listing[i]]]]
  <2>6. \A d \in Engines : models'[d] \in Seq(Held(d))
    <3>1. loaded \in Seq(Held(e)) /\ models' = [models EXCEPT ![e] = loaded]
      BY <2>1, <2>4
    <3> HIDE DEF loaded
    <3> QED BY <1>0, <3>1
  <2> QED BY <1>1, <2>5, <2>6 DEF OracleInv
<1> QED
  BY <1>2, <1>3, <1>4, <1>5, <1>6, <1>7, ReadingKeeps, OpeningKeeps DEF Oracle!Next

LEMMA OracleInitially ==
  ASSUME Oracle!Init PROVE OracleInv
<1>1. OracleTypes /\ (\A e \in Engines : ~InTraining(e) /\ models[e] \in Seq(Held(e)))
  BY DEF Oracle!Init, OracleTypes, Trainings, InTraining, Oracle!NoMetadata, Oracle!Absent, Oracle!Idle
<1>2. OracleBegan /\ FilesExcused
  BY <1>1 DEF Oracle!Init, OracleBegan, FilesExcused, Oracle!NoMetadata, Oracle!Absent
<1> QED
  BY <1>1, <1>2 DEF OracleInv, AllExcused, TrainersExcused, PassingNoted, SharedExcused

\* For any number of processes, scenarios, trainings and cached models, across
\* evictions, clears, failed and interrupted savings, files that two processes write at
\* once, deaths and restarts: an engine predicts with a model older than one that it
\* answered "trained" for only if another process was training the older one when the
\* newer one began.  (ChimeraOracleEngine, whose engines share a directory of files.)
THEOREM PredictionsAreCurrent == StoresSpec => []OlderOnlyByOverlap
<1> DEFINE Inv == store = "oracle" => OracleInv
<1>1. StoresInit => Inv
  BY OracleInitially DEF StoresInit
<1>2. Inv /\ [StoresNext]_storeVars => Inv'
  <2> SUFFICES ASSUME Inv, [StoresNext]_storeVars, store' = "oracle" PROVE OracleInv'
    OBVIOUS
  <2>1. CASE StoresNext
    BY <2>1, OneStoreMoves, OracleKeeps, StoresAssumption
  <2>2. CASE UNCHANGED storeVars
    BY <2>2 DEF storeVars, oracleVars, OracleInv, OracleTypes, OracleBegan, AllExcused, FilesExcused, TrainersExcused,
                PassingNoted, SharedExcused, InTraining, Held, Excused
  <2> QED
    BY <2>1, <2>2
<1>3. Inv => OlderOnlyByOverlap
  <2> SUFFICES ASSUME OracleInv, NEW e \in running, NEW s \in Keys, Oracle!HasModel(e, s)
               PROVE  Excused(s, Oracle!Entry(models[e], s).version, answered[e][s])
    BY DEF OlderOnlyByOverlap, Oracle!OlderOnlyByOverlap, Excused
  <2>1. s \in CachedKeys(models[e]) /\ Oracle!Entry(models[e], s) = Entry(models[e], s)
    BY OracleOperations DEF Oracle!HasModel
  <2>2. Place(models[e], s) \in DOMAIN models[e] /\ Entry(models[e], s).key = s
    BY <2>1, PlaceHoldsKey
  <2>3. Entry(models[e], s) \in Held(e)
    BY <2>2 DEF OracleInv, OracleTypes, Entry
  <2> QED
    BY <2>1, <2>2, <2>3 DEF Held
<1> QED
  BY <1>1, <1>2, <1>3, PTL DEF StoresSpec

-----------------------------------------------------------------------------
(* Datasets *)

\* An attempt that was made.
Made(r) == r \in Users \X Nat /\ r[2] <= calls[r[1]].attempt

\* A dataset's file holds what its client sent.
Whole(d) == d \in DOMAIN files /\ files[d] = d[1]

States == {"idle", "waiting", "backoff", "failed", "done"}
Calls == [state : States, attempt : Nat, told : Users \X Nat \cup {<<>>}]

\* Every attempt is served once, and registered after its file was written.
DataInv ==
  /\ calls \in [Users -> Calls]
  /\ \A r \in inbox \cup table : Made(r)
  /\ inbox \cap table = {}
  /\ serving # Data!Idle =>
       /\ serving \in [request : Users \X Nat, done : {0, 1}]
       /\ Made(serving.request) /\ serving.request \notin inbox \cup table
       /\ serving.done = 1 => Whole(serving.request)
  /\ \A d \in table : Whole(d)
  /\ \A c \in Users : calls[c].state = "done" => calls[c].told \in table
  /\ \A q \in asked : q.endpoint = "query" /\ "selection" \in q.offered => q.data = q.dataset[1]

\* A query that selects a dataset looks at nothing else it brings along.
LEMMA SelectionIsFirst ==
  ASSUME NEW offered, "selection" \in offered
  PROVE  Data!First(Data!QueryOrder, offered) = "selection"
<1> DEFINE at == {i \in DOMAIN Data!QueryOrder : Data!QueryOrder[i] \in offered}
<1>1. 1 \in at /\ at \subseteq 1..4 /\ Data!QueryOrder[1] = "selection"
  BY DEF Data!QueryOrder
<1>2. (CHOOSE i \in at : \A j \in at : i <= j) = 1
  <2>1. \A j \in at : 1 <= j
    BY <1>1
  <2>2. \A i \in at : (\A j \in at : i <= j) => i = 1
    BY <1>1
  <2> HIDE DEF at
  <2> QED
    BY <1>1, <2>1, <2>2
<1> QED
  BY <1>1, <1>2 DEF Data!First

\* An answer changes the state of a call, and what it was told, at most.
LEMMA AnswerKeepsAttempts ==
  ASSUME DataInv, NEW r \in Users \X Nat,
         NEW call1 \in Calls,
         call1.attempt = calls[r[1]].attempt, Data!Answer(r, call1)
  PROVE  /\ calls' \in [Users -> Calls]
         /\ \A c \in Users : calls'[c].attempt = calls[c].attempt
         /\ \A c \in Users : calls'[c] = calls[c] \/ (c = r[1] /\ calls'[c] = call1)
<1>1. r[1] \in Users /\ calls \in [Users -> Calls]
  BY DEF DataInv
<1>2. UNCHANGED calls \/ calls' = [calls EXCEPT ![r[1]] = call1]
  BY DEF Data!Answer
<1> QED
  BY <1>1, <1>2

\* A call may go to any state, and be told of any attempt.
LEMMA CallInState ==
  ASSUME NEW call1 \in Calls, NEW s \in States
  PROVE  /\ [call1 EXCEPT !.state = s] \in Calls
         /\ [call1 EXCEPT !.state = s].attempt = call1.attempt
         /\ [call1 EXCEPT !.state = s].state = s
BY DEF Calls

LEMMA ToldCall ==
  ASSUME NEW call1 \in Calls, NEW s \in States, NEW r \in Users \X Nat
  PROVE  /\ [call1 EXCEPT !.state = s, !.told = r] \in Calls
         /\ [call1 EXCEPT !.state = s, !.told = r].attempt = call1.attempt
         /\ [call1 EXCEPT !.state = s, !.told = r].told = r
BY DEF Calls

\* A failure makes no call done.
LEMMA FailedCall ==
  ASSUME NEW call1 \in Calls
  PROVE  /\ Data!Failed(call1) \in Calls /\ Data!Failed(call1).attempt = call1.attempt
         /\ Data!Failed(call1) = call1 \/ Data!Failed(call1).state # "done"
<1>1. CASE call1.state # "waiting"
  <2>1. Data!Failed(call1) = call1
    BY <1>1 DEF Data!Failed, Calls
  <2> QED
    BY <2>1
<1>2. CASE call1.state = "waiting"
  <2>1. \/ Data!Failed(call1) = [call1 EXCEPT !.state = "backoff"]
        \/ Data!Failed(call1) = [call1 EXCEPT !.state = "failed"]
    BY <1>2 DEF Data!Failed
  <2>2. "backoff" \in States /\ "failed" \in States
    BY DEF States
  <2>3. CASE Data!Failed(call1) = [call1 EXCEPT !.state = "backoff"]
    BY <2>2, <2>3, CallInState
  <2>4. CASE Data!Failed(call1) = [call1 EXCEPT !.state = "failed"]
    BY <2>2, <2>4, CallInState
  <2> QED
    BY <2>1, <2>3, <2>4
<1> QED
  BY <1>1, <1>2

\* Numbers of attempts only grow, so what was made stays made.
LEMMA MadeStaysMade ==
  ASSUME \A c \in Users : calls[c].attempt \in Nat,
         \A c \in Users : calls'[c].attempt \in Nat /\ calls[c].attempt <= calls'[c].attempt
  PROVE  \A r : Made(r) => Made(r)'
<1> SUFFICES ASSUME NEW r \in Users \X Nat, r[2] <= calls[r[1]].attempt
             PROVE  r[2] <= calls'[r[1]].attempt
  BY DEF Made
<1>1. r[1] \in Users /\ r[2] \in Nat
  OBVIOUS
<1>2. \A k, m, n \in Nat : k <= m /\ m <= n => k <= n
  OBVIOUS
<1> QED
  BY <1>1, <1>2

\* A call keeps its number of attempts, or goes to its next one.
LEMMA AttemptsOfCalls ==
  ASSUME calls \in [Users -> Calls], calls' \in [Users -> Calls],
         \A c \in Users : calls'[c].attempt \in {calls[c].attempt, calls[c].attempt + 1}
  PROVE  \A r : Made(r) => Made(r)'
<1>1. \A c \in Users : calls[c].attempt \in Nat /\ calls'[c].attempt \in Nat
  <2>1. \A call1 \in Calls : call1.attempt \in Nat
    BY DEF Calls
  <2> QED
    BY <2>1
<1>2. \A c \in Users : calls[c].attempt <= calls'[c].attempt
  BY <1>1
<1> QED
  BY <1>1, <1>2, MadeStaysMade

LEMMA DataKeeps ==
  ASSUME StoresAssumption, DataInv, Data!Next
  PROVE  DataInv'
<1> USE DEF DataInv
<1>0. \A c \in Users : calls[c] \in Calls /\ calls[c].attempt \in Nat
  <2>1. \A call1 \in Calls : call1.attempt \in Nat
    BY DEF Calls
  <2> QED
    BY <2>1
<1>1. ASSUME NEW c \in Users, Data!Send(c) PROVE DataInv'
  <2>0. PICK r : r = <<c, calls[c].attempt + 1>>
    OBVIOUS
  <2>1. calls' = [calls EXCEPT ![c].state = "waiting", ![c].attempt = @ + 1]
    BY <1>1 DEF Data!Send
  <2>2. /\ calls' \in [Users -> Calls]
        /\ \A d \in Users : calls'[d].attempt \in {calls[d].attempt, calls[d].attempt + 1}
        /\ \A d \in Users : d # c => calls'[d] = calls[d]
        /\ calls'[c].state = "waiting" /\ calls'[c].attempt = calls[c].attempt + 1
        /\ calls[c].attempt \in Nat
    <3>1. ASSUME NEW call1 \in Calls
          PROVE  [call1 EXCEPT !.state = "waiting", !.attempt = @ + 1] \in Calls
      <4>1. call1.attempt + 1 \in Nat
        BY DEF Calls
      <4>2. \A n \in Nat : [call1 EXCEPT !.state = "waiting", !.attempt = n] \in Calls
        BY DEF Calls, States
      <4> QED
        BY <4>1, <4>2, Zenon
    <3>2. calls'[c].state = "waiting" /\ calls'[c].attempt = calls[c].attempt + 1
      BY <2>1, <1>0 DEF Calls
    <3> QED
      BY <2>1, <1>0, <3>1, <3>2
  <2>3. r \in Users \X Nat /\ Made(r)' /\ ~Made(r)
    <3>1. r[1] = c /\ r[2] = calls[c].attempt + 1 /\ r \in Users \X Nat
      BY <2>0, <2>2
    <3>2. ~(calls[c].attempt + 1 <= calls[c].attempt) /\ r[2] <= calls'[r[1]].attempt
      BY <2>2, <3>1
    <3>3. Made(r)'
      BY <3>1, <3>2 DEF Made
    <3>4. ~Made(r)
      BY <3>1, <3>2 DEF Made
    <3> QED
      BY <3>1, <3>3, <3>4
  <2>4. \A x : Made(x) => Made(x)'
    BY <2>2, AttemptsOfCalls
  <2>5. inbox' = inbox \cup {r} /\ UNCHANGED <<files, table, serving, asked>>
    BY <1>1, <2>0 DEF Data!Send
  <2>6. r \notin table /\ (serving # Data!Idle => serving.request # r)
    BY <2>3
  <2> QED
    BY <2>2, <2>3, <2>4, <2>5, <2>6 DEF Whole, Data!Idle
<1>2. ASSUME NEW c \in Users, Data!Disconnect(c) PROVE DataInv'
  <2>1. /\ calls' = [calls EXCEPT ![c] = Data!Failed(@)] /\ calls[c].state = "waiting"
        /\ UNCHANGED <<files, table, inbox, serving, asked>>
    BY <1>2 DEF Data!Disconnect
  <2>2. /\ calls' \in [Users -> Calls]
        /\ \A d \in Users : calls'[d].attempt = calls[d].attempt
        /\ \A d \in Users : calls'[d] = calls[d] \/ calls'[d].state # "done"
    BY <2>1, <1>0, FailedCall
  <2>4. \A x : Made(x) => Made(x)'
    BY <2>2, AttemptsOfCalls
  <2> QED
    BY <2>1, <2>2, <2>4 DEF Whole, Data!Idle
<1>3. ASSUME NEW r \in inbox, Data!Begin(r) PROVE DataInv'
  <2>1. /\ inbox' = inbox \ {r} /\ serving' = [request |-> r, done |-> 0]
        /\ UNCHANGED <<files, table, calls, asked>>
    BY <1>3 DEF Data!Begin
  <2>2. Made(r) /\ r \in Users \X Nat /\ r \notin table
    BY DEF Made
  <2>4. \A x : Made(x) => Made(x)'
    BY <2>1 DEF Made
  <2> QED
    BY <2>1, <2>2, <2>4 DEF Whole, Data!Idle
<1>4. CASE Data!Refuse
  <2> DEFINE r == serving.request
             call1 == [calls[r[1]] EXCEPT !.state = "failed"]
  <2>1. /\ r \in Users \X Nat /\ Data!Answer(r, call1) /\ serving' = Data!Idle
        /\ UNCHANGED <<files, table, inbox, asked>>
    BY <1>4 DEF Data!Refuse
  <2>0. r[1] \in Users /\ calls[r[1]] \in Calls
    BY <2>1, <1>0
  <2>2. call1 \in Calls /\ call1.attempt = calls[r[1]].attempt /\ call1.state = "failed"
    BY <2>0, CallInState DEF States
  <2> HIDE DEF call1
  <2>3. /\ calls' \in [Users -> Calls]
        /\ \A c \in Users : calls'[c].attempt = calls[c].attempt
        /\ \A c \in Users : calls'[c] = calls[c] \/ (c = r[1] /\ calls'[c] = call1)
    BY <2>1, <2>2, AnswerKeepsAttempts
  <2>4. \A x : Made(x) => Made(x)'
    BY <2>3, AttemptsOfCalls
  <2>5. \A c \in Users : calls'[c] = calls[c] \/ calls'[c].state = "failed"
    BY <2>2, <2>3
  <2> QED
    BY <2>1, <2>3, <2>4, <2>5 DEF Whole, Data!Idle
<1>5. CASE Data!Step
  <2> DEFINE r == serving.request
  <2>1. /\ serving # Data!Idle /\ r \in Users \X Nat /\ serving.done \in {0, 1} /\ Made(r)
        /\ UNCHANGED <<inbox, asked>>
    BY <1>5 DEF Data!Step
  <2>2. CASE serving.done = 0
    <3>1. /\ files' = Data!StoredAs(r, r[1]) /\ UNCHANGED <<table, calls>>
          /\ serving' = [serving EXCEPT !.done = 1]
      BY <1>5, <2>1, <2>2 DEF Data!Step, Data!Steps
    <3>2. r \in DOMAIN files' /\ files'[r] = r[1]
      BY <3>1 DEF Data!StoredAs
    <3>3. \A d \in table : Whole(d)'
      BY <2>1, <3>1 DEF Data!StoredAs, Whole
    <3>4. \A x : Made(x) => Made(x)'
      BY <3>1 DEF Made
    <3> QED
      BY <2>1, <3>1, <3>2, <3>3, <3>4 DEF Whole, Data!Idle
  <2>3. CASE serving.done = 1
    <3> DEFINE call1 == [calls[r[1]] EXCEPT !.state = "done", !.told = r]
    <3>1. /\ UNCHANGED files /\ table' = table \cup {r} /\ serving' = Data!Idle
          /\ Data!Answer(r, call1)
      BY <1>5, <2>1, <2>3 DEF Data!Step, Data!Steps
    <3>0. r[1] \in Users /\ calls[r[1]] \in Calls
      BY <2>1, <1>0
    <3>2. call1 \in Calls /\ call1.attempt = calls[r[1]].attempt /\ call1.told = r
      <4>1. "done" \in States
        BY DEF States
      <4>2. \A k \in Calls, x \in Users \X Nat :
              /\ [k EXCEPT !.state = "done", !.told = x] \in Calls
              /\ [k EXCEPT !.state = "done", !.told = x].attempt = k.attempt
              /\ [k EXCEPT !.state = "done", !.told = x].told = x
        BY <4>1, ToldCall
      <4> QED
        BY <2>1, <3>0, <4>2, Zenon
    <3> HIDE DEF call1
    <3>3. /\ calls' \in [Users -> Calls]
          /\ \A c \in Users : calls'[c].attempt = calls[c].attempt
          /\ \A c \in Users : calls'[c] = calls[c] \/ (c = r[1] /\ calls'[c] = call1)
      BY <2>1, <3>1, <3>2, AnswerKeepsAttempts
    <3>4. \A x : Made(x) => Made(x)'
      BY <3>3, AttemptsOfCalls
    <3>5. \A c \in Users : calls'[c].state = "done" => calls'[c].told \in table'
      BY <3>1, <3>2, <3>3
    <3>6. \A d \in table' : Whole(d)'
      BY <2>1, <2>3, <3>1 DEF Whole
    <3>7. r \notin inbox
      BY <2>1
    <3> QED
      BY <2>1, <3>1, <3>3, <3>4, <3>5, <3>6, <3>7
  <2> QED
    BY <2>1, <2>2, <2>3
<1>6. CASE Data!StepFails
  <2> DEFINE r == serving.request
             call1 == Data!Failed(calls[r[1]])
  <2>1. /\ serving # Data!Idle /\ r \in Users \X Nat /\ r \notin table
        /\ Data!Answer(r, call1) /\ serving' = Data!Idle
        /\ files' \in {files, Data!StoredAs(r, "torn")}
        /\ UNCHANGED <<table, inbox, asked>>
    BY <1>6 DEF Data!StepFails
  <2>2. call1 \in Calls /\ call1.attempt = calls[r[1]].attempt
        /\ (call1.state = "done" => call1 = calls[r[1]])
    BY <2>1, <1>0, FailedCall
  <2>3. /\ calls' \in [Users -> Calls]
        /\ \A c \in Users : calls'[c].attempt = calls[c].attempt
        /\ \A c \in Users : calls'[c] = calls[c] \/ (c = r[1] /\ calls'[c] = call1)
    BY <2>1, <2>2, AnswerKeepsAttempts
  <2>4. \A x : Made(x) => Made(x)'
    BY <2>3, AttemptsOfCalls
  <2>5. \A d \in table : Whole(d)'
    BY <2>1 DEF Whole, Data!StoredAs
  <2>6. \A c \in Users : calls'[c].state = "done" => calls'[c].told \in table
    BY <2>2, <2>3
  <2> HIDE DEF call1
  <2> QED
    BY <2>1, <2>3, <2>4, <2>5, <2>6
<1>7. CASE Data!Crash
  <2>1. /\ calls' = [c \in Users |-> Data!Failed(calls[c])]
        /\ inbox' = {} /\ serving' = Data!Idle /\ UNCHANGED <<table, asked>>
        /\ \/ UNCHANGED files
           \/ serving # Data!Idle /\ files' = Data!StoredAs(serving.request, "torn")
    BY <1>7 DEF Data!Crash
  <2>2. /\ calls' \in [Users -> Calls]
        /\ \A c \in Users : calls'[c].attempt = calls[c].attempt
        /\ \A c \in Users : calls'[c] = calls[c] \/ calls'[c].state # "done"
    BY <2>1, <1>0, FailedCall
  <2>4. \A x : Made(x) => Made(x)'
    BY <2>2, AttemptsOfCalls
  <2>5. \A d \in table : Whole(d)'
    BY <2>1 DEF Whole, Data!StoredAs
  <2> QED
    BY <2>1, <2>2, <2>4, <2>5
<1>8. ASSUME NEW endpoint \in DOMAIN Data!Order, NEW offered \in SUBSET Data!Sources,
             Data!Ask(endpoint, offered)
      PROVE  DataInv'
  <2>1. PICK d \in IF "selection" \in offered THEN table ELSE {<<>>} :
          asked' = {[endpoint |-> endpoint, offered |-> offered, dataset |-> d,
                     data |-> Data!Estimated(endpoint, offered, d)]}
    BY <1>8 DEF Data!Ask
  <2>2. UNCHANGED <<files, table, inbox, serving, calls>>
    BY <1>8 DEF Data!Ask
  <2>3. ASSUME endpoint = "query", "selection" \in offered
        PROVE  Data!Estimated(endpoint, offered, d) = d[1]
    <3>1. d \in table /\ Whole(d) /\ d[1] \in Users
      BY <2>1, <2>3 DEF Made
    <3>2. Data!Readable(d)
      BY <3>1 DEF Data!Readable, Whole, StoresAssumption
    <3> QED
      BY <2>3, <3>1, <3>2, SelectionIsFirst DEF Data!Estimated, Data!Order, Whole
  <2>4. \A q \in asked' : q.endpoint = "query" /\ "selection" \in q.offered => q.data = q.dataset[1]
    BY <2>1, <2>3
  <2>5. \A x : Made(x)' <=> Made(x)
    BY <2>2 DEF Made
  <2> QED
    BY <2>2, <2>4, <2>5 DEF Whole, Data!Idle
<1> QED
  BY <1>1, <1>2, <1>3, <1>4, <1>5, <1>6, <1>7, <1>8 DEF Data!Next

\* However often a connection breaks, a write fails or the server dies, for any
\* clients, retries and failures: a query that selects a dataset is estimated from
\* the rows its client sent, and what a client was told of can be selected.
\* (create_dataset, load_dataset_data, process_query and the cockpit's withRetry.)
THEOREM SelectionsAreWhole == StoresSpec => []SelectedRowsAreAnalysed
<1> DEFINE Inv == store = "data" => DataInv
<1>1. StoresInit => Inv
  <2> SUFFICES ASSUME Data!Init PROVE DataInv
    BY DEF StoresInit
  <2>1. /\ files = <<>> /\ table = {} /\ inbox = {} /\ serving = Data!Idle /\ asked = {}
        /\ calls = [c \in Users |-> [state |-> "idle", attempt |-> 0, told |-> <<>>]]
    BY DEF Data!Init
  <2>2. [state |-> "idle", attempt |-> 0, told |-> <<>>] \in Calls
    BY DEF Calls, States
  <2>3. calls \in [Users -> Calls] /\ \A c \in Users : calls[c].state # "done"
    BY <2>1, <2>2
  <2> QED
    BY <2>1, <2>3 DEF DataInv
<1>2. Inv /\ [StoresNext]_storeVars => Inv'
  <2> SUFFICES ASSUME Inv, [StoresNext]_storeVars, store' = "data" PROVE DataInv'
    OBVIOUS
  <2>1. CASE StoresNext
    BY <2>1, OneStoreMoves, DataKeeps, StoresAssumption
  <2>2. CASE UNCHANGED storeVars
    BY <2>2 DEF storeVars, datasetVars, DataInv, Made, Whole, Data!Idle
  <2> QED
    BY <2>1, <2>2
<1>3. Inv => SelectedRowsAreAnalysed
  <2> SUFFICES ASSUME DataInv PROVE Data!SelectedRowsAreAnalysed
    BY DEF SelectedRowsAreAnalysed
  <2>1. ASSUME NEW d \in table PROVE Data!Readable(d)
    <3>1. Whole(d) /\ d[1] \in Users
      BY DEF DataInv, Made
    <3> QED
      BY <3>1, StoresAssumption DEF Whole, Data!Readable, StoresAssumption
  <2> QED
    BY <2>1 DEF DataInv, Data!SelectedRowsAreAnalysed
<1> QED
  BY <1>1, <1>2, <1>3, PTL DEF StoresSpec

-----------------------------------------------------------------------------
(* LogStream: a broadcast that walks the list of connections while it     *)
(* changes sends nobody a record twice, and passes over no more clients    *)
(* than have left the list since it began.                                 *)

Elements(s) == {s[i] : i \in DOMAIN s}
Distinct(s) == \A i, j \in DOMAIN s : s[i] = s[j] => i = j

\* The clients a broadcast has walked past without sending them the record.
Missed(task, list) ==
  {list[i] : i \in (1..task.next) \cap DOMAIN list} \cap (task.audience \ Elements(task.sent))

\* Who was sent the record stands where the walk has been, or nowhere; known are
\* the clients that have ever connected.
IsTask(task, list, known) ==
  /\ task = [next |-> task.next, sent |-> task.sent, failed |-> task.failed,
             audience |-> task.audience, leavers |-> task.leavers]
  /\ task.next \in Nat /\ task.leavers \in Nat
  /\ task.sent \in Seq(Keys) /\ task.failed \in Seq(Keys) /\ Distinct(task.sent)
  /\ Elements(task.sent) \subseteq known /\ task.audience \subseteq known
  /\ task.next = 0 => task.sent = <<>>
  /\ \A i \in DOMAIN list : list[i] \in Elements(task.sent) => i <= task.next
  /\ Cardinality(Missed(task, list)) <= task.leavers

Tracked(broadcasts, list, known) == \A t \in DOMAIN broadcasts : IsTask(broadcasts[t], list, known)

EverConnected == listening \cup broken
StreamInv ==
  /\ connections \in Seq(Keys) /\ Distinct(connections) /\ Elements(connections) \subseteq EverConnected
  /\ Tracked(tasks, connections, EverConnected)

\* A list is another one but for at most n elements that left it, and for strangers.
Shifted(list, old, n, known) ==
  \A m \in DOMAIN list :
    list[m] \in known => \E i \in DOMAIN old : list[m] = old[i] /\ m <= i /\ i <= m + n

\* When n elements leave, n more may come before the place that a walk has reached.
Aged(task, n) == IF task.next = 0 THEN task ELSE [task EXCEPT !.leavers = @ + n]

\* What a function makes of finitely many values is as few.
LEMMA ImagesAreFew ==
  ASSUME NEW S, IsFiniteSet(S), NEW f
  PROVE  /\ IsFiniteSet({f[i] : i \in S}) /\ Cardinality({f[i] : i \in S}) \in Nat
         /\ Cardinality({f[i] : i \in S}) <= Cardinality(S)
<1> DEFINE T == {f[i] : i \in S}
           g == [i \in S |-> f[i]]
<1>1. g \in Surjection(S, T)
  BY DEF Surjection
<1> HIDE DEF T, g
<1>2. IsFiniteSet(T) /\ Cardinality(T) <= Cardinality(S)
  BY <1>1, FS_Surjection
<1> QED
  BY <1>2, FS_CardinalityType DEF T

LEMMA MissedAreFew ==
  ASSUME NEW task, NEW list \in Seq(Keys), task.next \in Nat
  PROVE  IsFiniteSet(Missed(task, list)) /\ Cardinality(Missed(task, list)) \in Nat
<1> DEFINE places == (1..task.next) \cap DOMAIN list
           seen == {list[i] : i \in places}
<1>1. IsFiniteSet(places)
  <2>1. IsFiniteSet(1..task.next)
    BY FS_Interval
  <2> QED
    BY <2>1, FS_Subset
<1> HIDE DEF places
<1>2. IsFiniteSet(seen)
  BY <1>1, ImagesAreFew
<1> HIDE DEF seen
<1>3. Missed(task, list) \subseteq seen
  BY DEF Missed, seen, places
<1> QED
  BY <1>2, <1>3, FS_Subset, FS_CardinalityType

LEMMA ShiftKeepsTask ==
  ASSUME NEW task, NEW old \in Seq(Keys), NEW known, IsTask(task, old, known),
         NEW list \in Seq(Keys), NEW more, known \subseteq more,
         NEW n \in Nat, Shifted(list, old, n, known)
  PROVE  IsTask(Aged(task, n), list, more)
<1> DEFINE new == Aged(task, n)
<1>1. /\ new.next = task.next /\ new.sent = task.sent /\ new.failed = task.failed
      /\ new.audience = task.audience
      /\ new.leavers = IF task.next = 0 THEN task.leavers ELSE task.leavers + n
      /\ new = [next |-> new.next, sent |-> new.sent, failed |-> new.failed,
                audience |-> new.audience, leavers |-> new.leavers]
  BY DEF Aged, IsTask
<1> HIDE DEF new
<1>2. \A i \in DOMAIN list : list[i] \in Elements(task.sent) => i <= task.next
  <2> SUFFICES ASSUME NEW m \in DOMAIN list, list[m] \in Elements(task.sent) PROVE m <= task.next
    OBVIOUS
  <2>1. PICK i \in DOMAIN old : list[m] = old[i] /\ m <= i
    BY DEF IsTask, Shifted
  <2>2. i <= task.next
    BY <2>1 DEF IsTask
  <2> QED
    BY <2>1, <2>2 DEF IsTask
<1>3. Cardinality(Missed(new, list)) <= new.leavers
  <2>1. CASE task.next = 0
    <3>1. Missed(new, list) = {} /\ Missed(task, old) = {}
      BY <1>1, <2>1 DEF Missed
    <3> QED
      BY <1>1, <2>1, <3>1 DEF IsTask
  <2>2. CASE task.next # 0
    <3> DEFINE places == (task.next + 1) .. (task.next + n)
               moved == {old[i] : i \in places}
    <3>1. IsFiniteSet(places) /\ Cardinality(places) <= n
      <4>1. task.next + 1 \in Int /\ task.next + n \in Int
        BY DEF IsTask
      <4>2. IsFiniteSet(places) /\ Cardinality(places) =
              IF task.next + 1 > task.next + n THEN 0 ELSE (task.next + n) - (task.next + 1) + 1
        BY <4>1, FS_Interval
      <4> QED
        BY <4>2 DEF IsTask
    <3> HIDE DEF places
    <3>2. IsFiniteSet(moved) /\ Cardinality(moved) <= n /\ Cardinality(moved) \in Nat
      <4>1. IsFiniteSet(moved) /\ Cardinality(moved) <= Cardinality(places)
        BY <3>1, ImagesAreFew
      <4> QED
        BY <3>1, <4>1, FS_CardinalityType
    <3> HIDE DEF moved
    <3>3. Missed(new, list) \subseteq Missed(task, old) \cup moved
      <4> SUFFICES ASSUME NEW x \in Missed(new, list), x \notin moved PROVE x \in Missed(task, old)
        OBVIOUS
      <4>1. PICK m \in (1..task.next) \cap DOMAIN list : x = list[m]
        BY <1>1 DEF Missed
      <4>2. x \in task.audience \ Elements(task.sent) /\ x \in known
        BY <1>1 DEF Missed, IsTask
      <4>3. PICK i \in DOMAIN old : x = old[i] /\ m <= i /\ i <= m + n
        BY <4>1, <4>2 DEF Shifted
      <4>4. i \in 1..task.next \/ i \in places
        BY <4>1, <4>3 DEF IsTask, places
      <4>5. i \notin places
        BY <4>3 DEF moved
      <4> QED
        BY <4>2, <4>3, <4>4, <4>5 DEF Missed
    <3>4. IsFiniteSet(Missed(task, old)) /\ Cardinality(Missed(task, old)) \in Nat
      BY MissedAreFew DEF IsTask
    <3>5. /\ IsFiniteSet(Missed(task, old) \cup moved)
          /\ Cardinality(Missed(task, old) \cup moved) <= Cardinality(Missed(task, old)) + n
      <4>1. /\ IsFiniteSet(Missed(task, old) \cup moved)
            /\ Cardinality(Missed(task, old) \cup moved) =
                 Cardinality(Missed(task, old)) + Cardinality(moved) - Cardinality(Missed(task, old) \cap moved)
        BY <3>2, <3>4, FS_Union
      <4>2. Cardinality(Missed(task, old) \cap moved) \in Nat
        <5>1. IsFiniteSet(Missed(task, old) \cap moved)
          BY <3>2, FS_Subset
        <5> QED
          BY <5>1, FS_CardinalityType
      <4> QED
        BY <3>2, <3>4, <4>1, <4>2
    <3>6. Cardinality(Missed(new, list)) <= Cardinality(Missed(task, old) \cup moved)
      BY <3>3, <3>5, FS_Subset
    <3>7. Cardinality(Missed(new, list)) \in Nat /\ Cardinality(Missed(task, old) \cup moved) \in Nat
      BY <1>1, <3>5, MissedAreFew, FS_CardinalityType DEF IsTask
    <3> QED
      BY <1>1, <2>2, <3>4, <3>5, <3>6, <3>7 DEF IsTask
  <2> QED
    BY <2>1, <2>2
<1> QED
  BY <1>1, <1>2, <1>3 DEF IsTask, new

-----------------------------------------------------------------------------
(* The list *)

\* The log's lists are those of LruCache.
LEMMA StreamOperations ==
  ASSUME NEW list, NEW S
  PROVE  LogView!Cardinality(S) = Cardinality(S) /\ LogView!Left(list, S) = Left(list, S)
BY DEF LogView!Left, LogView!Ranked, LogView!Cardinality, Left, Ranked, Cardinality

\* What remains of a list when at most n of its elements go.
LEMMA RemovalShifts ==
  ASSUME NEW list \in Seq(Keys), Distinct(list), NEW gone, NEW n \in Nat,
         Cardinality({i \in DOMAIN list : list[i] \in gone}) <= n
  PROVE  /\ LogView!Remaining(list, gone) \in Seq(Keys) /\ Distinct(LogView!Remaining(list, gone))
         /\ Elements(LogView!Remaining(list, gone)) \subseteq Elements(list)
         /\ \A known : Shifted(LogView!Remaining(list, gone), list, n, known)
<1> DEFINE S == {i \in DOMAIN list : list[i] \notin gone}
           G == {i \in DOMAIN list : list[i] \in gone}
           new == LogView!Remaining(list, gone)
<1>1. new = Left(list, S)
  BY StreamOperations DEF LogView!Remaining
<1>2. S \in SUBSET DOMAIN list /\ S \in SUBSET (1..Len(list)) /\ Len(list) \in Nat
  OBVIOUS
<1>3. /\ IsFiniteSet(S) /\ Cardinality(S) \in Nat
      /\ IsFiniteSet(G) /\ Cardinality(G) \in Nat /\ Cardinality(G) <= n
  <2>1. G \in SUBSET (1..Len(list))
    OBVIOUS
  <2> QED
    BY <1>2, <2>1, OrderedPlaces
<1>a. \A i \in DOMAIN list : i \in Nat /\ (i \in S \/ i \in G)
  OBVIOUS
<1> HIDE DEF S, G, new
<1>4. new \in Seq(Keys) /\ DOMAIN new = 1..Cardinality(S)
  BY <1>1, <1>2, LeftAreEntries DEF Left
<1>5. \A m \in DOMAIN new : \E i \in S : new[m] = list[i] /\ Ranked(S, i) = m
  <2> SUFFICES ASSUME NEW m \in 1..Cardinality(S)
               PROVE  \E i \in S : new[m] = list[i] /\ Ranked(S, i) = m
    BY <1>4
  <2>1. \E i \in S : Ranked(S, i) = m
    BY <1>2, RanksAreMet
  <2> QED
    BY <1>1, <2>1 DEF Left
<1>6. Distinct(new)
  <2> SUFFICES ASSUME NEW l \in DOMAIN new, NEW m \in DOMAIN new, new[l] = new[m] PROVE l = m
    BY DEF Distinct
  <2>1. PICK i \in S : new[l] = list[i] /\ Ranked(S, i) = l
    BY <1>5
  <2>2. PICK j \in S : new[m] = list[j] /\ Ranked(S, j) = m
    BY <1>5
  <2>3. i = j
    BY <1>2, <2>1, <2>2 DEF Distinct
  <2> QED
    BY <2>1, <2>2, <2>3
<1>7. Elements(new) \subseteq Elements(list)
  BY <1>2, <1>5 DEF Elements
<1>8. ASSUME NEW i \in S PROVE Ranked(S, i) <= i /\ i <= Ranked(S, i) + n
  <2> DEFINE before == {j \in S : j <= i}
             passed == {j \in G : j <= i}
  <2>1. i \in Nat /\ i > 0 /\ IsFiniteSet(1..i) /\ Cardinality(1..i) = i
    <3>1. i \in Nat /\ i > 0
      BY <1>2
    <3> QED
      BY <3>1, FS_Interval
  <2>2. before \subseteq 1..i /\ passed \subseteq G
    BY <1>2
  <2>3. IsFiniteSet(before) /\ Cardinality(before) <= i
    BY <2>1, <2>2, FS_Subset
  <2>4. IsFiniteSet(passed) /\ Cardinality(passed) <= Cardinality(G) /\ Cardinality(passed) \in Nat
    BY <1>3, <2>2, FS_Subset, FS_CardinalityType
  <2>5. 1..i \subseteq before \cup passed
    <3> SUFFICES ASSUME NEW j \in 1..i PROVE j \in S \/ j \in G
      OBVIOUS
    <3>1. i \in 1..Len(list)
      BY <1>2
    <3>2. j \in DOMAIN list
      BY <1>2, <3>1
    <3> QED
      BY <1>a, <3>2
  <2> HIDE DEF before, passed
  <2>6. /\ IsFiniteSet(before \cup passed)
        /\ Cardinality(before \cup passed) =
             Cardinality(before) + Cardinality(passed) - Cardinality(before \cap passed)
    BY <2>3, <2>4, FS_Union
  <2>7. i <= Cardinality(before \cup passed)
    BY <2>1, <2>5, <2>6, FS_Subset
  <2>8. Cardinality(before \cap passed) \in Nat /\ Cardinality(before) \in Nat
    <3>1. IsFiniteSet(before \cap passed)
      BY <2>3, FS_Subset
    <3> QED
      BY <2>3, <3>1, FS_CardinalityType
  <2>9. Ranked(S, i) = Cardinality(before)
    BY DEF Ranked, before
  <2> QED
    BY <1>3, <2>1, <2>3, <2>4, <2>6, <2>7, <2>8, <2>9
<1>9. ASSUME NEW known PROVE Shifted(new, list, n, known)
  <2> SUFFICES ASSUME NEW m \in DOMAIN new
               PROVE  \E i \in DOMAIN list : new[m] = list[i] /\ m <= i /\ i <= m + n
    BY DEF Shifted
  <2> QED
    BY <1>2, <1>5, <1>8
<1> QED
  BY <1>4, <1>6, <1>7, <1>9 DEF new

\* A client that connects takes the last place; the first makes room if need be.
LEMMA ConnectionShifts ==
  ASSUME NEW list \in Seq(Keys), Distinct(list), NEW c \in Keys, NEW known,
         Elements(list) \subseteq known, c \notin known
  PROVE  /\ Append(list, c) \in Seq(Keys) /\ Distinct(Append(list, c))
         /\ Elements(Append(list, c)) \subseteq known \cup {c}
         /\ Shifted(Append(list, c), list, 0, known)
         /\ list # <<>> =>
              /\ Append(Tail(list), c) \in Seq(Keys) /\ Distinct(Append(Tail(list), c))
              /\ Elements(Append(Tail(list), c)) \subseteq known \cup {c}
              /\ Shifted(Append(Tail(list), c), list, 1, known)
<1> USE DEF Distinct, Elements, Shifted
<1>1. DOMAIN list = 1..Len(list) /\ Len(list) \in Nat
  OBVIOUS
<1>2. /\ DOMAIN Append(list, c) = 1..(Len(list) + 1)
      /\ \A i \in 1..Len(list) : Append(list, c)[i] = list[i]
      /\ Append(list, c)[Len(list) + 1] = c
  OBVIOUS
<1>3. /\ Append(list, c) \in Seq(Keys) /\ Distinct(Append(list, c))
      /\ Elements(Append(list, c)) \subseteq known \cup {c}
      /\ Shifted(Append(list, c), list, 0, known)
  BY <1>1, <1>2
<1>4. ASSUME list # <<>>
      PROVE  /\ Append(Tail(list), c) \in Seq(Keys) /\ Distinct(Append(Tail(list), c))
             /\ Elements(Append(Tail(list), c)) \subseteq known \cup {c}
             /\ Shifted(Append(Tail(list), c), list, 1, known)
  <2>1. /\ Tail(list) \in Seq(Keys) /\ Len(Tail(list)) = Len(list) - 1
        /\ \A i \in 1..(Len(list) - 1) : Tail(list)[i] = list[i + 1]
    BY <1>4
  <2>2. /\ DOMAIN Append(Tail(list), c) = 1..Len(list)
        /\ \A i \in 1..(Len(list) - 1) : Append(Tail(list), c)[i] = list[i + 1]
        /\ Append(Tail(list), c)[Len(list)] = c
    BY <2>1
  <2>3. Append(Tail(list), c) \in Seq(Keys)
    BY <2>1
  <2> QED
    BY <1>1, <2>2, <2>3
<1> QED
  BY <1>3, <1>4

-----------------------------------------------------------------------------
(* The steps *)

\* Broadcasts stay tracked when n clients leave the list, others come, and more
\* records are logged.
LEMMA AgedAreTracked ==
  ASSUME NEW broadcasts, NEW old \in Seq(Keys), NEW known, Tracked(broadcasts, old, known),
         NEW list \in Seq(Keys), NEW more, known \subseteq more,
         NEW n \in Nat, Shifted(list, old, n, known)
  PROVE  /\ Tracked([t \in DOMAIN broadcasts |-> Aged(broadcasts[t], n)], list, more)
         /\ n = 0 => Tracked(broadcasts, list, more)
<1>1. ASSUME NEW t \in DOMAIN broadcasts PROVE IsTask(Aged(broadcasts[t], n), list, more)
  BY ShiftKeepsTask DEF Tracked
<1>2. ASSUME n = 0, NEW t \in DOMAIN broadcasts PROVE Aged(broadcasts[t], n) = broadcasts[t]
  <2> DEFINE task == broadcasts[t]
  <2>1. /\ task = [next |-> task.next, sent |-> task.sent, failed |-> task.failed,
                   audience |-> task.audience, leavers |-> task.leavers]
        /\ task.leavers \in Nat
    BY DEF Tracked, IsTask
  <2> HIDE DEF task
  <2>2. [task EXCEPT !.leavers = @ + n] = task
    BY <1>2, <2>1
  <2> QED
    BY <2>2 DEF Aged, task
<1> QED
  BY <1>1, <1>2 DEF Tracked

LEMMA EmissionIsTracked ==
  ASSUME NEW broadcasts, NEW list \in Seq(Keys), NEW known, Tracked(broadcasts, list, known), NEW new
  PROVE  Tracked([t \in DOMAIN broadcasts \cup new |-> IF t \in new THEN LogView!NewTask ELSE broadcasts[t]],
                 list, known)
<1> DEFINE task == LogView!NewTask
<1>1. /\ task = [next |-> task.next, sent |-> task.sent, failed |-> task.failed,
                 audience |-> task.audience, leavers |-> task.leavers]
      /\ task.next = 0 /\ task.sent = <<>> /\ task.failed = <<>> /\ task.audience = {} /\ task.leavers = 0
  BY DEF LogView!NewTask
<1> HIDE DEF task
<1>2. Elements(task.sent) = {} /\ Distinct(task.sent) /\ Missed(task, list) = {}
  BY <1>1 DEF Elements, Distinct, Missed
<1>3. Cardinality(Missed(task, list)) = 0
  BY <1>2, FS_EmptySet
<1>4. IsTask(task, list, known)
  BY <1>1, <1>2, <1>3 DEF IsTask
<1> QED
  BY <1>4 DEF Tracked, task

\* The broadcasts of n records more.
Emits(broadcasts) ==
  \E new : tasks' = [t \in DOMAIN broadcasts \cup new |->
                       IF t \in new THEN LogView!NewTask ELSE broadcasts[t]]

LEMMA EmissionEmits ==
  ASSUME NEW broadcasts, NEW n, NEW onLoop \in BOOLEAN, LogView!Emit(n, onLoop, broadcasts)
  PROVE  Emits(broadcasts)
BY DEF LogView!Emit, Emits

LEMMA EmittedAreTracked ==
  ASSUME NEW broadcasts, Emits(broadcasts),
         NEW list \in Seq(Keys), NEW known, Tracked(broadcasts, list, known)
  PROVE  Tracked(tasks', list, known)
<1>1. PICK new : tasks' = [t \in DOMAIN broadcasts \cup new |->
                             IF t \in new THEN LogView!NewTask ELSE broadcasts[t]]
  BY DEF Emits
<1> QED
  BY <1>1, EmissionIsTracked

LEMMA LeavingKeeps ==
  ASSUME StreamInv, NEW gone, NEW n \in Nat,
         Cardinality({i \in DOMAIN connections : connections[i] \in gone}) <= n,
         connections' = LogView!Remaining(connections, gone), EverConnected' = EverConnected
  PROVE  /\ connections' \in Seq(Keys) /\ Distinct(connections)' /\ Elements(connections)' \subseteq EverConnected'
         /\ Tracked(LogView!Passed(n), connections', EverConnected')
<1>1. /\ connections' \in Seq(Keys) /\ Distinct(connections') /\ Elements(connections') \subseteq EverConnected
      /\ Shifted(connections', connections, n, EverConnected)
  BY RemovalShifts DEF StreamInv
<1>2. LogView!Passed(n) = [t \in DOMAIN tasks |-> Aged(tasks[t], n)]
  BY DEF LogView!Passed, Aged
<1>3. Tracked([t \in DOMAIN tasks |-> Aged(tasks[t], n)], connections', EverConnected)
  BY <1>1, AgedAreTracked DEF StreamInv
<1> QED
  BY <1>1, <1>2, <1>3 DEF Distinct, Elements

LEMMA ConnectKeeps ==
  ASSUME StoresAssumption, StreamInv, NEW c \in Keys, LogView!Connect(c)
  PROVE  StreamInv'
<1>1. /\ c \notin EverConnected /\ EverConnected' = EverConnected \cup {c}
      /\ EverConnected \subseteq EverConnected'
  BY DEF LogView!Connect, EverConnected
<1>2. CASE Len(connections) >= MaxConnections
  <2>1. connections' = Append(Tail(connections), c) /\ Emits(LogView!Passed(1))
    BY <1>2, EmissionEmits DEF LogView!Connect
  <2>2. connections # <<>>
    BY <1>2 DEF StoresAssumption, StreamInv
  <2>a. PICK n \in Nat : n = 1
    OBVIOUS
  <2>3. /\ connections' \in Seq(Keys) /\ Distinct(connections') /\ Elements(connections') \subseteq EverConnected'
        /\ Shifted(connections', connections, n, EverConnected)
    BY <1>1, <2>1, <2>2, <2>a, ConnectionShifts DEF StreamInv
  <2>4. LogView!Passed(n) = [t \in DOMAIN tasks |-> Aged(tasks[t], n)]
    BY DEF LogView!Passed, Aged
  <2>5. Tracked(LogView!Passed(1), connections', EverConnected')
    <3>1. connections \in Seq(Keys) /\ Tracked(tasks, connections, EverConnected)
      BY DEF StreamInv
    <3>2. PICK list, more : list = connections' /\ more = EverConnected'
      OBVIOUS
    <3>3. /\ list \in Seq(Keys) /\ EverConnected \subseteq more /\ Elements(list) \subseteq more
          /\ Shifted(list, connections, n, EverConnected)
      BY <1>1, <2>3, <3>2
    <3>4. Tracked([t \in DOMAIN tasks |-> Aged(tasks[t], n)], list, more)
      BY <3>1, <3>3, AgedAreTracked
    <3> QED
      BY <2>4, <2>a, <3>2, <3>4
  <2>6. Tracked(tasks', connections', EverConnected')
    BY <2>1, <2>3, <2>5, EmittedAreTracked
  <2> QED
    BY <2>3, <2>6 DEF StreamInv, Distinct, Elements
<1>3. CASE ~(Len(connections) >= MaxConnections)
  <2>1. connections' = Append(connections, c) /\ Emits(tasks)
    BY <1>3, EmissionEmits DEF LogView!Connect
  <2>2. /\ connections' \in Seq(Keys) /\ Distinct(connections') /\ Elements(connections') \subseteq EverConnected'
        /\ Shifted(connections', connections, 0, EverConnected)
    BY <1>1, <2>1, ConnectionShifts DEF StreamInv
  <2>3. Tracked(tasks, connections', EverConnected')
    BY <1>1, <2>2, AgedAreTracked DEF StreamInv
  <2>4. Tracked(tasks', connections', EverConnected')
    BY <2>1, <2>2, <2>3, EmittedAreTracked
  <2> QED
    BY <2>2, <2>4 DEF StreamInv, Distinct, Elements
<1> QED
  BY <1>2, <1>3

LEMMA LeaveKeeps ==
  ASSUME StreamInv, NEW c \in Keys, NEW errors, LogView!Leave(c, errors)
  PROVE  StreamInv'
<1> DEFINE n == IF c \in LogView!ToSet(connections) THEN 1 ELSE 0
           places == {i \in DOMAIN connections : connections[i] \in {c}}
<1>1. /\ connections' = LogView!Remaining(connections, {c}) /\ Emits(LogView!Passed(n))
  BY EmissionEmits DEF LogView!Leave
<1>2. EverConnected' = EverConnected
  BY DEF LogView!Leave, EverConnected
<1>3. Cardinality(places) <= n /\ n \in Nat
  <2>1. CASE places = {}
    BY <2>1, FS_EmptySet
  <2>2. CASE places # {}
    <3>1. PICK i \in DOMAIN connections : connections[i] = c
      BY <2>2
    <3>2. places = {i}
      BY <3>1 DEF StreamInv, Distinct
    <3>3. Cardinality({i}) = 1
      BY FS_Singleton
    <3>4. n = 1
      BY <3>1 DEF LogView!ToSet
    <3> QED
      BY <3>2, <3>3, <3>4
  <2> QED
    BY <2>1, <2>2
<1> HIDE DEF n
<1>4. /\ connections' \in Seq(Keys) /\ Distinct(connections)' /\ Elements(connections)' \subseteq EverConnected'
      /\ Tracked(LogView!Passed(n), connections', EverConnected')
  BY <1>1, <1>2, <1>3, LeavingKeeps
<1>5. Tracked(tasks', connections', EverConnected')
  BY <1>1, <1>4, EmittedAreTracked
<1> QED
  BY <1>4, <1>5 DEF StreamInv

LEMMA AppendedElements ==
  ASSUME NEW E, NEW s \in Seq(E), NEW e
  PROVE  /\ Elements(Append(s, e)) = Elements(s) \cup {e}
         /\ e \in E => Append(s, e) \in Seq(E)
         /\ Distinct(s) /\ e \notin Elements(s) => Distinct(Append(s, e))
<1>1. /\ DOMAIN s = 1..Len(s) /\ Len(s) \in Nat /\ DOMAIN Append(s, e) = 1..(Len(s) + 1)
      /\ \A i \in 1..Len(s) : Append(s, e)[i] = s[i]
      /\ Append(s, e)[Len(s) + 1] = e
  OBVIOUS
<1> DEFINE w == Append(s, e)
<1> HIDE DEF w
<1>2. /\ DOMAIN w = 1..(Len(s) + 1) /\ w[Len(s) + 1] = e
      /\ \A i \in 1..Len(s) : w[i] = s[i]
      /\ \A i \in DOMAIN w : i \in DOMAIN s \/ i = Len(s) + 1
  BY <1>1 DEF w
<1>3. Elements(w) = Elements(s) \cup {e}
  BY <1>1, <1>2 DEF Elements
<1>4. Distinct(s) /\ e \notin Elements(s) => Distinct(w)
  BY <1>1, <1>2 DEF Distinct, Elements
<1> QED
  BY <1>3, <1>4 DEF w

\* A send is to the client behind those that the walk has passed.
LEMMA SendKeeps ==
  ASSUME StreamInv, NEW t \in DOMAIN tasks, NEW raises, LogView!Send(t, raises)
  PROVE  StreamInv'
<1> DEFINE old == tasks[t]
           ws == connections[old.next + 1]
           new == tasks'[t]
           changed ==
             [next |-> old.next + 1, sent |-> Append(old.sent, ws),
              failed |-> IF raises THEN Append(old.failed, ws) ELSE old.failed,
              audience |-> IF LogView!Running(t) THEN old.audience ELSE LogView!ToSet(connections),
              leavers |-> old.leavers]
<1>0. /\ IsTask(old, connections, EverConnected) /\ connections \in Seq(Keys)
      /\ Distinct(connections) /\ Elements(connections) \subseteq EverConnected
  BY DEF StreamInv, Tracked
<1>1. /\ old.next < Len(connections)
      /\ tasks' = [tasks EXCEPT ![t] = changed]
      /\ UNCHANGED <<connections, listening, broken>>
  BY DEF LogView!Send
<1> HIDE DEF changed
<1>2. /\ DOMAIN tasks' = DOMAIN tasks /\ \A u \in DOMAIN tasks \ {t} : tasks'[u] = tasks[u]
      /\ new = changed
  BY <1>1
<1>3. LogView!Running(t) <=> old.next > 0
  BY DEF LogView!Running
<1>4. /\ old = [next |-> old.next, sent |-> old.sent, failed |-> old.failed,
                audience |-> old.audience, leavers |-> old.leavers]
      /\ old.next \in Nat /\ old.leavers \in Nat
      /\ old.sent \in Seq(Keys) /\ old.failed \in Seq(Keys)
  BY <1>0 DEF IsTask
<1>5. ws \in Keys /\ ws \in EverConnected /\ old.next + 1 \in DOMAIN connections
  BY <1>0, <1>1, <1>4 DEF Elements
<1> HIDE DEF old, ws, new
<1>6. /\ new = [next |-> new.next, sent |-> new.sent, failed |-> new.failed,
                audience |-> new.audience, leavers |-> new.leavers]
      /\ new.next = old.next + 1 /\ new.sent = Append(old.sent, ws)
      /\ new.failed \in {old.failed, Append(old.failed, ws)}
      /\ new.audience = IF LogView!Running(t) THEN old.audience ELSE LogView!ToSet(connections)
      /\ new.leavers = old.leavers
  BY <1>2, <1>4 DEF changed
<1>7. Elements(new.sent) = Elements(old.sent) \cup {ws}
  BY <1>4, <1>6, AppendedElements
<1>8. ws \notin Elements(old.sent)
  <2>1. ~(old.next + 1 <= old.next)
    BY <1>4
  <2>2. connections[old.next + 1] \in Elements(old.sent) => old.next + 1 <= old.next
    BY <1>0, <1>5 DEF IsTask
  <2> QED
    BY <2>1, <2>2 DEF ws
<1>9. new.sent \in Seq(Keys) /\ new.failed \in Seq(Keys) /\ Distinct(new.sent)
  <2>1. new.sent \in Seq(Keys) /\ new.failed \in Seq(Keys)
    <3>1. \A list \in Seq(Keys) : Append(list, ws) \in Seq(Keys)
      BY <1>5
    <3> QED
      BY <1>4, <1>6, <3>1
  <2>2. Distinct(old.sent)
    BY <1>0 DEF IsTask
  <2> QED
    BY <1>4, <1>6, <1>8, <2>1, <2>2, AppendedElements
<1>10. new.audience \subseteq EverConnected /\ Elements(new.sent) \subseteq EverConnected
  <2>1. LogView!ToSet(connections) \subseteq EverConnected
    BY <1>0 DEF LogView!ToSet, Elements
  <2>2. old.audience \subseteq EverConnected /\ Elements(old.sent) \subseteq EverConnected
    BY <1>0 DEF IsTask
  <2> QED
    BY <1>5, <1>6, <1>7, <2>1, <2>2
<1>11. ASSUME NEW i \in DOMAIN connections, connections[i] \in Elements(new.sent)
       PROVE  i <= new.next
  <2>1. i \in Nat
    BY <1>0
  <2>2. CASE connections[i] = ws
    <3>1. i = old.next + 1
      BY <1>0, <1>5, <2>2 DEF ws, Distinct
    <3> QED
      BY <1>6, <2>1, <3>1
  <2>3. CASE connections[i] \in Elements(old.sent)
    <3>1. i <= old.next
      BY <1>0, <2>3 DEF IsTask
    <3> QED
      BY <1>4, <1>6, <2>1, <3>1
  <2> QED
    BY <1>7, <1>11, <2>2, <2>3
<1>12. Cardinality(Missed(new, connections)) <= new.leavers
  <2>1. Missed(new, connections) \subseteq Missed(old, connections)
    <3> SUFFICES ASSUME NEW x \in Missed(new, connections) PROVE x \in Missed(old, connections)
      OBVIOUS
    <3>1. PICK i \in (1..new.next) \cap DOMAIN connections : x = connections[i]
      BY DEF Missed
    <3>2. x \in new.audience /\ x \notin Elements(old.sent) /\ x # ws
      BY <1>7 DEF Missed
    <3>3. i # old.next + 1 /\ i \in Nat
      BY <3>1, <3>2 DEF ws
    <3>4. i \in 1..old.next
      BY <1>4, <1>6, <3>1, <3>3
    <3>5. x \in old.audience
      BY <1>3, <1>4, <1>6, <3>2, <3>4
    <3> QED
      BY <3>1, <3>2, <3>4, <3>5 DEF Missed
  <2>2. IsFiniteSet(Missed(old, connections)) /\ Cardinality(Missed(old, connections)) \in Nat
    BY <1>0, <1>4, MissedAreFew
  <2>3. /\ Cardinality(Missed(new, connections)) <= Cardinality(Missed(old, connections))
        /\ Cardinality(Missed(new, connections)) \in Nat
    BY <2>1, <2>2, FS_Subset, FS_CardinalityType
  <2>4. Cardinality(Missed(old, connections)) <= old.leavers
    BY <1>0 DEF IsTask
  <2> QED
    BY <1>4, <1>6, <2>2, <2>3, <2>4
<1>13. IsTask(new, connections, EverConnected)
  <2>1. new.next \in Nat /\ new.leavers \in Nat /\ new.next # 0
    BY <1>4, <1>6
  <2> QED
    BY <1>6, <1>9, <1>10, <1>11, <1>12, <2>1 DEF IsTask
<1>14. Tracked(tasks', connections, EverConnected)
  <2>1. \A u \in DOMAIN tasks' : u # t => IsTask(tasks'[u], connections, EverConnected)
    BY <1>2 DEF StreamInv, Tracked
  <2>2. IsTask(tasks'[t], connections, EverConnected)
    BY <1>13 DEF new
  <2> QED
    BY <2>1, <2>2 DEF Tracked
<1>15. EverConnected' = EverConnected
  BY <1>1 DEF EverConnected
<1> QED
  BY <1>0, <1>1, <1>14, <1>15 DEF StreamInv, Distinct, Elements

LEMMA FinishKeeps ==
  ASSUME StreamInv, NEW t \in DOMAIN tasks, LogView!Finish(t)
  PROVE  StreamInv'
<1> DEFINE failed == tasks[t].failed
           listed(k) == \A i \in 1..k : failed[i] \in LogView!ToSet(connections)
           last(k) == listed(k) /\ (k < Len(failed) => ~listed(k + 1))
           n == CHOOSE k \in 0..Len(failed) : last(k)
           gone == {failed[i] : i \in 1..n}
           places == {i \in DOMAIN connections : connections[i] \in gone}
<1>1. /\ connections' = LogView!Remaining(connections, gone)
      /\ tasks' = [u \in DOMAIN tasks \ {t} |-> LogView!Passed(n)[u]]
      /\ UNCHANGED <<listening, broken>>
  BY DEF LogView!Finish
<1>2. Len(failed) \in Nat
  BY DEF StreamInv, Tracked, IsTask
<1> HIDE DEF failed
<1>3. \E k \in 0..Len(failed) : last(k)
  <2> DEFINE K == {k \in 1..(Len(failed) + 1) : listed(k - 1)}
  <2>1. 1 \in K /\ K \in SUBSET (1..(Len(failed) + 1)) /\ Len(failed) + 1 \in Nat
    BY <1>2
  <2>2. PICK m \in K : \A k \in K : k <= m
    BY <2>1, Greatest, Zenon
  <2>3. m - 1 \in 0..Len(failed) /\ listed(m - 1) /\ m \in Int
    BY <1>2
  <2>4. m - 1 < Len(failed) => ~listed(m)
    <3> SUFFICES ASSUME m - 1 < Len(failed), listed(m) PROVE FALSE
      OBVIOUS
    <3>1. (m + 1) - 1 = m /\ m + 1 \in 1..(Len(failed) + 1) /\ ~(m + 1 <= m)
      BY <1>2, <2>3
    <3>2. m + 1 \in K
      BY <3>1
    <3> HIDE DEF K
    <3> QED
      BY <2>2, <3>1, <3>2
  <2>5. (m - 1) + 1 = m
    BY <2>3
  <2>6. last(m - 1)
    BY <2>3, <2>4, <2>5
  <2> QED
    BY <2>3, <2>6
<1>4. n \in 0..Len(failed)
  BY <1>3
<1> HIDE DEF n, last, listed
<1>5. n \in Nat
  BY <1>2, <1>4
<1>6. Cardinality(places) <= n
  <2>1. IsFiniteSet(1..n) /\ Cardinality(1..n) = n
    BY <1>5, FS_Interval
  <2>2. IsFiniteSet(gone) /\ Cardinality(gone) <= n /\ Cardinality(gone) \in Nat
    BY <2>1, ImagesAreFew
  <2> HIDE DEF gone
  <2>3. PICK f : f = [i \in places |-> connections[i]]
    OBVIOUS
  <2>4. f \in Injection(places, gone)
    BY <2>3 DEF Injection, IsInjective, StreamInv, Distinct
  <2> HIDE DEF places
  <2>5. IsFiniteSet(places) /\ Cardinality(places) <= Cardinality(gone)
    BY <2>2, <2>4, FS_Injection
  <2>6. Cardinality(places) \in Nat
    BY <2>5, FS_CardinalityType
  <2> QED
    BY <1>5, <2>2, <2>5, <2>6
<1> HIDE DEF gone
<1>7. EverConnected' = EverConnected
  BY <1>1 DEF EverConnected
<1>8. /\ connections' \in Seq(Keys) /\ Distinct(connections)' /\ Elements(connections)' \subseteq EverConnected'
      /\ Tracked(LogView!Passed(n), connections', EverConnected')
  BY <1>1, <1>5, <1>6, <1>7, LeavingKeeps
<1>9. Tracked(tasks', connections', EverConnected')
  BY <1>1, <1>8 DEF Tracked, LogView!Passed
<1> QED
  BY <1>8, <1>9 DEF StreamInv

LEMMA StreamKeeps ==
  ASSUME StoresAssumption, StreamInv, LogView!Next
  PROVE  StreamInv'
<1>1. ASSUME NEW onLoop \in BOOLEAN, LogView!Log(onLoop) PROVE StreamInv'
  <2>1. Emits(tasks) /\ UNCHANGED <<connections, listening, broken>>
    BY <1>1, EmissionEmits DEF LogView!Log
  <2>2. connections \in Seq(Keys) /\ Tracked(tasks, connections, EverConnected)
    BY DEF StreamInv
  <2>3. Tracked(tasks', connections, EverConnected)
    BY <2>1, <2>2, EmittedAreTracked
  <2> QED
    BY <2>1, <2>3 DEF StreamInv, EverConnected, Distinct, Elements
<1>2. ASSUME NEW c \in Keys, LogView!Break(c) PROVE StreamInv'
  <2>1. EverConnected' = EverConnected /\ UNCHANGED <<connections, tasks>>
    BY <1>2 DEF LogView!Break, EverConnected
  <2> QED
    BY <2>1 DEF StreamInv, Distinct, Elements
<1> QED
  BY <1>1, <1>2, ConnectKeeps, LeaveKeeps, SendKeeps, FinishKeeps DEF LogView!Next

-----------------------------------------------------------------------------
\* For any number of clients, connections, records and broadcasts at once: no
\* broadcast sends a client its record twice, or passes over more of its audience
\* than have left the list since it began.  (_broadcast_log, whose loop over
\* self._ws_connections is suspended at every send while others change the list.)
THEOREM OnlyLeaversCost == StoresSpec => []RecordsAreLostToLeavers
<1> DEFINE Inv == store = "logs" => StreamInv
<1>1. StoresInit => Inv
  <2> SUFFICES ASSUME LogView!Init PROVE StreamInv
    BY DEF StoresInit
  <2> QED
    BY DEF LogView!Init, StreamInv, Tracked, Distinct, Elements
<1>2. Inv /\ [StoresNext]_storeVars => Inv'
  <2> SUFFICES ASSUME Inv, [StoresNext]_storeVars, store' = "logs" PROVE StreamInv'
    OBVIOUS
  <2>1. CASE StoresNext
    BY <2>1, OneStoreMoves, StreamKeeps, StoresAssumption
  <2>2. CASE UNCHANGED storeVars
    BY <2>2 DEF storeVars, streamVars, StreamInv, EverConnected, Distinct, Elements
  <2> QED
    BY <2>1, <2>2
<1>3. Inv => RecordsAreLostToLeavers
  <2> SUFFICES ASSUME StreamInv, NEW t \in DOMAIN tasks
               PROVE  /\ LogView!IsInjective(tasks[t].sent)
                      /\ LogView!Cardinality(LogView!Overlooked(t)) <= tasks[t].leavers
    BY DEF RecordsAreLostToLeavers, LogView!RecordsAreLostToLeavers
  <2>1. IsTask(tasks[t], connections, EverConnected)
    BY DEF StreamInv, Tracked
  <2>2. LogView!Overlooked(t) = Missed(tasks[t], connections)
    BY DEF LogView!Overlooked, LogView!ToSet, Missed, Elements
  <2>3. LogView!Cardinality(LogView!Overlooked(t)) = Cardinality(Missed(tasks[t], connections))
    BY <2>2, StreamOperations
  <2> QED
    BY <2>1, <2>3 DEF IsTask, LogView!IsInjective, Distinct
<1> QED
  BY <1>1, <1>2, <1>3, PTL DEF StoresSpec

-----------------------------------------------------------------------------
(* RagIndex: sorting by score *)

LEMMA CardinalityOfDocuments == \A S : Rag!Cardinality(S) = Cardinality(S)
BY Zenon DEF Rag!Cardinality, Cardinality

\* A score for some of the positions from 1 to n.
Scored(score, n) ==
  n \in Nat /\ DOMAIN score \in SUBSET (1..n) /\ \A i \in DOMAIN score : score[i] \in Int

\* How many are ahead of a position.
PlaceBy(score, i) == Cardinality(Rag!Ahead(score, i))

\* The places are 0 to one less than how many there are, each of them is taken
\* once, and they follow the scores.
LEMMA PlacesFollowScores ==
  ASSUME NEW score, NEW n, Scored(score, n)
  PROVE  /\ IsFiniteSet(DOMAIN score) /\ Cardinality(DOMAIN score) \in Nat
         /\ \A i \in DOMAIN score : PlaceBy(score, i) \in 0..Cardinality(DOMAIN score) - 1
         /\ \A i, j \in DOMAIN score : PlaceBy(score, i) <= PlaceBy(score, j) => score[i] >= score[j]
         /\ \A i, j \in DOMAIN score : PlaceBy(score, i) = PlaceBy(score, j) => i = j
<1> DEFINE S == DOMAIN score
           before(i, j) == score[i] > score[j] \/ (score[i] = score[j] /\ i < j)
<1>1. \A i \in S : i \in Int /\ score[i] \in Int
  BY DEF Scored
<1>2. \A i, j \in S : (j \in Rag!Ahead(score, i) <=> before(j, i))
  BY DEF Rag!Ahead
<1>3. IsFiniteSet(S) /\ Cardinality(S) \in Nat
  <2>1. n \in Nat /\ IsFiniteSet(1..n) /\ S \in SUBSET (1..n)
    BY FS_Interval DEF Scored
  <2> HIDE DEF S
  <2> QED BY <2>1, FS_Subset, FS_CardinalityType
<1>4. \A i \in S : Rag!Ahead(score, i) \in SUBSET S /\ i \notin Rag!Ahead(score, i)
  BY <1>1 DEF Rag!Ahead
<1> HIDE DEF S
<1>5. ASSUME NEW i \in S
      PROVE  IsFiniteSet(Rag!Ahead(score, i)) /\ PlaceBy(score, i) \in 0..Cardinality(S) - 1
  <2>1. /\ IsFiniteSet(Rag!Ahead(score, i))
        /\ Cardinality(Rag!Ahead(score, i)) <= Cardinality(S)
        /\ (Cardinality(S) = Cardinality(Rag!Ahead(score, i)) => S = Rag!Ahead(score, i))
    BY <1>3, <1>4, FS_Subset
  <2>2. Cardinality(Rag!Ahead(score, i)) \in Nat
    BY <2>1, FS_CardinalityType
  <2> QED BY <1>3, <1>4, <2>1, <2>2 DEF PlaceBy
<1>6. ASSUME NEW i \in S, NEW j \in S, before(i, j)
      PROVE  PlaceBy(score, i) < PlaceBy(score, j)
  <2>1. \A k \in S : before(k, i) => before(k, j)
    BY <1>1, <1>6
  <2>2. Rag!Ahead(score, i) \in SUBSET Rag!Ahead(score, j)
    BY <1>2, <1>4, <2>1
  <2>3. i \in Rag!Ahead(score, j) /\ i \notin Rag!Ahead(score, i)
    BY <1>2, <1>4, <1>6
  <2>4. /\ PlaceBy(score, i) <= PlaceBy(score, j)
        /\ (PlaceBy(score, j) = PlaceBy(score, i) => Rag!Ahead(score, j) = Rag!Ahead(score, i))
    BY <1>5, <2>2, FS_Subset DEF PlaceBy
  <2>5. PlaceBy(score, i) \in Int /\ PlaceBy(score, j) \in Int
    BY <1>3, <1>5
  <2> QED BY <2>3, <2>4, <2>5
<1>7. \A i, j \in S : PlaceBy(score, i) \in Int /\ (before(i, j) \/ before(j, i) \/ i = j)
  BY <1>1, <1>3, <1>5
<1>8. ASSUME NEW i \in S, NEW j \in S, PlaceBy(score, i) <= PlaceBy(score, j)
      PROVE  score[i] >= score[j]
  <2>1. ~before(j, i)
    BY <1>6, <1>7, <1>8
  <2> QED BY <1>1, <1>7, <2>1
<1>9. ASSUME NEW i \in S, NEW j \in S, PlaceBy(score, i) = PlaceBy(score, j)
      PROVE  i = j
  <2>1. ~before(i, j) /\ ~before(j, i)
    BY <1>6, <1>7, <1>9
  <2> QED BY <1>7, <2>1
<1> QED BY <1>3, <1>5, <1>8, <1>9 DEF S

LEMMA EveryPlaceIsTaken ==
  ASSUME NEW score, NEW n, Scored(score, n)
  PROVE  \A k \in 0..Cardinality(DOMAIN score) - 1 : \E i \in DOMAIN score : PlaceBy(score, i) = k
<1> DEFINE S == DOMAIN score
           c == Cardinality(S)
           r == [i \in S |-> PlaceBy(score, i)]
<1>1. c \in Nat
  BY PlacesFollowScores
<1>2. r \in Injection(S, 0..c - 1)
  <2>1. r \in [S -> 0..c - 1]
    BY PlacesFollowScores
  <2>2. \A i, j \in DOMAIN r : r[i] = r[j] => i = j
    BY PlacesFollowScores
  <2> HIDE DEF r
  <2> QED BY <2>1, <2>2 DEF Injection, IsInjective
<1> HIDE DEF c, r
<1>3. IsFiniteSet(0..c - 1) /\ Cardinality(0..c - 1) = c
  <2>1. 0 \in Int /\ c - 1 \in Int
    BY <1>1
  <2>2. IsFiniteSet(0..c - 1) /\ Cardinality(0..c - 1) = IF 0 > c - 1 THEN 0 ELSE (c - 1) - 0 + 1
    BY <2>1, FS_Interval
  <2> QED BY <1>1, <2>2
<1>4. r \in Surjection(S, 0..c - 1)
  BY <1>2, <1>3, FS_Injection DEF c
<1>5. \A k \in 0..c - 1 : \E i \in S : r[i] = k
  BY <1>4 DEF Surjection
<1> QED BY <1>5 DEF c, r

Results(D) == Seq([doc : D, score : Int])

LEMMA ResultsForm ==
  ASSUME NEW D, NEW R \in Results(D)
  PROVE  /\ Len(R) \in Nat /\ DOMAIN R = 1..Len(R)
         /\ \A p \in 1..Len(R) :
              R[p] \in [doc : D, score : Int] /\ R[p].doc \in D /\ R[p].score \in Int
<1>1. \A X : \A f \in Seq(X) :
        Len(f) \in Nat /\ DOMAIN f = 1..Len(f) /\ \A p \in 1..Len(f) : f[p] \in X
  OBVIOUS
<1>2. /\ Len(R) \in Nat /\ DOMAIN R = 1..Len(R)
      /\ \A p \in 1..Len(R) : R[p] \in [doc : D, score : Int]
  BY <1>1, Zenon DEF Results
<1> QED BY <1>2

Shown(docs, score, i) == [doc |-> docs[i], score |-> score[i]]

Falling(R) == \A p, q \in 1..Len(R) : p <= q => R[p].score >= R[q].score

\* R has an entry for each position of score, at its place.
Sorts(R, D, docs, score) ==
  /\ R \in Results(D) /\ Falling(R)
  /\ Len(R) \in Nat /\ Len(R) = Cardinality(DOMAIN score)
  /\ \A p \in 1..Len(R) : \E i \in DOMAIN score : R[p] = Shown(docs, score, i)
  /\ \A i \in DOMAIN score :
       /\ PlaceBy(score, i) \in Nat /\ PlaceBy(score, i) + 1 \in 1..Len(R)
       /\ R[PlaceBy(score, i) + 1] = Shown(docs, score, i)

LEMMA ByScoreSorts ==
  ASSUME NEW D, NEW docs, NEW score, NEW n, Scored(score, n),
         \A i \in DOMAIN score : docs[i] \in D
  PROVE  Sorts(Rag!ByScore(docs, score), D, docs, score)
<1> DEFINE S == DOMAIN score
           c == Cardinality(S)
           R == Rag!ByScore(docs, score)
           at(p) == CHOOSE i \in S : PlaceBy(score, i) = p - 1
<1>1. c \in Nat /\ \A i \in S : PlaceBy(score, i) \in 0..c - 1
  BY PlacesFollowScores
<1>2. \A p \in 1..c : at(p) \in S /\ PlaceBy(score, at(p)) = p - 1
  <2>1. \A p \in 1..c : p - 1 \in 0..c - 1
    BY <1>1
  <2>2. \A p \in 1..c : \E i \in S : PlaceBy(score, i) = p - 1
    BY <2>1, EveryPlaceIsTaken
  <2> QED BY <2>2
<1>3. R = [p \in 1..c |-> Shown(docs, score, at(p))]
  BY CardinalityOfDocuments, Zenon DEF Rag!ByScore, Shown, PlaceBy
<1>4. \A i \in S : Shown(docs, score, i) \in [doc : D, score : Int]
  BY DEF Shown, Scored
<1> HIDE DEF at, c, R, S
<1>5. R \in Results(D) /\ Len(R) = c /\ \A p \in 1..c : R[p] = Shown(docs, score, at(p))
  <2>1. R \in [1..c -> [doc : D, score : Int]] /\ \A p \in 1..c : R[p] = Shown(docs, score, at(p))
    BY <1>2, <1>3, <1>4
  <2>2. \A X, m : m \in Nat => \A f \in [1..m -> X] : f \in Seq(X) /\ Len(f) = m
    OBVIOUS
  <2>3. R \in Results(D) /\ Len(R) = c
    BY <1>1, <2>1, <2>2, Zenon DEF Results
  <2> QED BY <2>1, <2>3
<1>6. \A i \in S : /\ PlaceBy(score, i) \in Nat /\ PlaceBy(score, i) + 1 \in 1..c
                   /\ at(PlaceBy(score, i) + 1) = i
  <2> SUFFICES ASSUME NEW i \in S
               PROVE  /\ PlaceBy(score, i) \in Nat /\ PlaceBy(score, i) + 1 \in 1..c
                      /\ at(PlaceBy(score, i) + 1) = i
    OBVIOUS
  <2>1. PlaceBy(score, i) \in Nat /\ PlaceBy(score, i) + 1 \in 1..c
    BY <1>1
  <2>2. at(PlaceBy(score, i) + 1) \in S /\ PlaceBy(score, at(PlaceBy(score, i) + 1)) = PlaceBy(score, i)
    BY <1>2, <2>1
  <2> QED BY <2>1, <2>2, PlacesFollowScores DEF S
<1>7. Falling(R)
  <2> SUFFICES ASSUME NEW p \in 1..c, NEW q \in 1..c, p <= q
               PROVE  R[p].score >= R[q].score
    BY <1>5 DEF Falling
  <2>1. at(p) \in S /\ at(q) \in S /\ PlaceBy(score, at(p)) <= PlaceBy(score, at(q))
    BY <1>1, <1>2
  <2>2. score[at(p)] >= score[at(q)]
    BY <2>1, PlacesFollowScores DEF S
  <2> QED BY <1>5, <2>2 DEF Shown
<1> QED BY <1>1, <1>2, <1>5, <1>6, <1>7 DEF Sorts, S, R, c
-----------------------------------------------------------------------------
(* RagIndex: a best match is found first *)

\* Every result that is doc has the score x, and every other one less.
Best(R, doc, x) ==
  /\ x \in Int /\ Falling(R) /\ \E p \in 1..Len(R) : R[p].doc = doc
  /\ \A p \in 1..Len(R) : IF R[p].doc = doc THEN R[p].score = x ELSE R[p].score < x

LEMMA SortedIsBest ==
  ASSUME NEW R, NEW D, NEW docs, NEW score, NEW doc, NEW x \in Int, Sorts(R, D, docs, score),
         \E i \in DOMAIN score : docs[i] = doc,
         \A i \in DOMAIN score : IF docs[i] = doc THEN score[i] = x ELSE score[i] < x
  PROVE  Best(R, doc, x)
<1>1. \E p \in 1..Len(R) : R[p].doc = doc
  <2>1. PICK i \in DOMAIN score : docs[i] = doc
    OBVIOUS
  <2>2. PlaceBy(score, i) + 1 \in 1..Len(R) /\ R[PlaceBy(score, i) + 1] = Shown(docs, score, i)
    BY DEF Sorts
  <2> QED BY <2>1, <2>2 DEF Shown
<1>2. ASSUME NEW p \in 1..Len(R)
      PROVE  IF R[p].doc = doc THEN R[p].score = x ELSE R[p].score < x
  <2>1. PICK i \in DOMAIN score : R[p] = Shown(docs, score, i)
    BY DEF Sorts
  <2> QED BY <2>1 DEF Shown
<1> QED BY <1>1, <1>2 DEF Best, Sorts

LEMMA FirstResults ==
  ASSUME NEW D, NEW R \in Results(D), NEW n \in Nat
  PROVE  /\ Rag!First(R, n) \in Results(D)
         /\ Len(Rag!First(R, n)) = IF Len(R) < n THEN Len(R) ELSE n
         /\ \A p \in 1..Len(Rag!First(R, n)) :
              p \in 1..Len(R) /\ Rag!First(R, n)[p] = R[p]
<1>1. Len(R) \in Nat /\ \A p \in 1..Len(R) : R[p] \in [doc : D, score : Int]
  BY ResultsForm
<1> DEFINE m == IF Len(R) < n THEN Len(R) ELSE n
<1>2. m \in Nat /\ m <= Len(R) /\ Rag!First(R, n) = SubSeq(R, 1, m)
  BY <1>1 DEF Rag!First
<1> HIDE DEF m
<1>3. SubSeq(R, 1, m) \in Seq([doc : D, score : Int]) /\ Len(SubSeq(R, 1, m)) = m
      /\ \A p \in 1..m : SubSeq(R, 1, m)[p] = R[p]
  <2>1. \A X : \A f \in Seq(X) : m <= Len(f) =>
          /\ SubSeq(f, 1, m) \in Seq(X) /\ Len(SubSeq(f, 1, m)) = m
          /\ \A p \in 1..m : SubSeq(f, 1, m)[p] = f[p]
    BY <1>2
  <2> QED BY <1>2, <2>1, Zenon DEF Results
<1> QED BY <1>1, <1>2, <1>3 DEF Results, m

LEMMA BestLeads ==
  ASSUME NEW D, NEW R \in Results(D), NEW doc, NEW x, Best(R, doc, x)
  PROVE  1 \in 1..Len(R) /\ R[1].doc = doc /\ R[1].score = x
<1>1. Len(R) \in Nat /\ \A p \in 1..Len(R) : R[p].score \in Int
  BY ResultsForm
<1>2. PICK p \in 1..Len(R) : R[p].doc = doc
  BY DEF Best
<1>3. 1 \in 1..Len(R) /\ 1 <= p
  BY <1>1
<1>4. R[1].score >= R[p].score /\ R[p].score = x
  BY <1>2, <1>3 DEF Best, Falling
<1> QED BY <1>1, <1>3, <1>4 DEF Best

LEMMA FirstOfBest ==
  ASSUME NEW D, NEW R \in Results(D), NEW n \in Nat \ {0}, NEW doc, NEW x, Best(R, doc, x)
  PROVE  Best(Rag!First(R, n), doc, x) /\ Rag!Heard(Rag!First(R, n), doc)
<1> DEFINE F == Rag!First(R, n)
<1>1. Len(R) \in Nat /\ 1 \in 1..Len(R) /\ R[1].doc = doc
  BY BestLeads, ResultsForm
<1>2. /\ F \in Results(D) /\ Len(F) = IF Len(R) < n THEN Len(R) ELSE n
      /\ \A p \in 1..Len(F) : p \in 1..Len(R) /\ F[p] = R[p]
  BY FirstResults
<1> HIDE DEF F
<1>3. 1 \in 1..Len(F) /\ F[1].doc = doc
  BY <1>1, <1>2
<1>4. DOMAIN F = 1..Len(F)
  BY <1>2, ResultsForm
<1>5. Best(F, doc, x)
  BY <1>2, <1>3 DEF Best, Falling
<1> QED BY <1>3, <1>4, <1>5 DEF Rag!Heard, F

\* What a document may be.
Texts ==
  {Rag!Document(source, w, home) :
     source \in Namespaces \cup {"file", "triple"}, w \in Wordings, home \in BOOLEAN}

Indexed == {documents[i] : i \in DOMAIN documents}

\* The vectors are those of the documents as they are.
Vectored ==
  documents \in Seq(Texts) /\ vectors = [i \in DOMAIN documents |-> documents[i].sim]

\* doc matches the query better than everything else in the index.
Matches(doc) ==
  doc \in Indexed /\ doc.home = TRUE /\ doc.sim >= Rag!MinScore /\ Rag!BestMatch(doc)

LEMMA SimilaritiesOfTexts ==
  ASSUME RetrievalAssumption, NEW d \in Texts
  PROVE  d.sim \in Int /\ Rag!Boosted(d.sim) \in Int /\ d.sim <= Rag!Boosted(d.sim)
<1>1. d.sim \in 0..100
  BY DEF Texts, Rag!Document, RetrievalAssumption
<1>2. \A u \in 0..100 : /\ u \in Int /\ (u * 5) \div 4 \in Int /\ u <= (u * 5) \div 4
  OBVIOUS
<1>3. \A u \in 0..100 : u \in Int /\ Rag!Boosted(u) \in Int /\ u <= Rag!Boosted(u)
  BY <1>2 DEF Rag!Boosted
<1> QED BY <1>1, <1>3

LEMMA IndexedTexts ==
  ASSUME Vectored
  PROVE  /\ Len(documents) \in Nat /\ DOMAIN documents = 1..Len(documents) /\ Indexed \subseteq Texts
         /\ DOMAIN vectors = 1..Len(documents)
         /\ \A i \in 1..Len(documents) : vectors[i] = documents[i].sim
BY DEF Vectored, Indexed

LEMMA FoundIsBest ==
  ASSUME RetrievalAssumption, Vectored, NEW doc, Matches(doc), NEW n \in Nat \ {0}
  PROVE  /\ Rag!Found(n) \in Results(Indexed) /\ Len(Rag!Found(n)) <= n
         /\ Best(Rag!Found(n), doc, doc.sim)
         /\ \A p \in 1..Len(Rag!Found(n)) : Rag!Found(n)[p].score = Rag!Found(n)[p].doc.sim
<1> DEFINE close == {i \in DOMAIN vectors : vectors[i] >= Rag!MinScore}
           score == [i \in close |-> vectors[i]]
           R == Rag!ByScore(documents, score)
<1>1. Rag!Found(n) = Rag!First(R, n)
  BY DEF Rag!Found
<1>2. \A d \in Indexed : d.sim \in Int /\ Rag!Boosted(d.sim) \in Int /\ d.sim <= Rag!Boosted(d.sim)
  BY SimilaritiesOfTexts, IndexedTexts
<1>3. /\ Len(documents) \in Nat /\ DOMAIN documents = 1..Len(documents)
      /\ DOMAIN score = {i \in 1..Len(documents) : documents[i].sim >= Rag!MinScore}
      /\ \A i \in DOMAIN score : score[i] = documents[i].sim
  <2>1. DOMAIN score = close /\ \A i \in DOMAIN score : score[i] = vectors[i]
    OBVIOUS
  <2>2. close = {i \in 1..Len(documents) : documents[i].sim >= Rag!MinScore}
    BY IndexedTexts
  <2> HIDE DEF score, close
  <2> QED BY <2>1, <2>2, IndexedTexts
<1> HIDE DEF close, score, R
<1>0. \A i \in DOMAIN score : documents[i] \in Indexed /\ score[i] \in Int
  BY <1>2, <1>3 DEF Indexed
<1>4. PICK i \in DOMAIN documents : documents[i] = doc
  BY DEF Matches, Indexed
<1>5. i \in DOMAIN score
  BY <1>3, <1>4 DEF Matches
<1>6. \A j \in DOMAIN score :
        IF documents[j] = doc THEN score[j] = doc.sim ELSE score[j] < doc.sim
  <2> SUFFICES ASSUME NEW j \in DOMAIN score, documents[j] # doc PROVE score[j] < doc.sim
    BY <1>3
  <2>1. j \in DOMAIN documents /\ documents[j] \in Indexed /\ score[j] = documents[j].sim
    BY <1>0, <1>3
  <2>2. Rag!Boosted(documents[j].sim) < doc.sim
    BY <2>1 DEF Matches, Rag!BestMatch
  <2>3. doc \in Indexed
    BY DEF Matches
  <2> QED BY <1>2, <2>1, <2>2, <2>3
<1>7. doc.sim \in Int
  BY <1>2 DEF Matches
<1>8. Scored(score, Len(documents))
  BY <1>0, <1>3 DEF Scored
<1>9. Sorts(R, Indexed, documents, score)
  BY <1>0, <1>8, ByScoreSorts DEF R
<1>10. Best(R, doc, doc.sim)
  BY <1>4, <1>5, <1>6, <1>7, <1>9, SortedIsBest
<1>11. R \in Results(Indexed) /\ Len(R) \in Nat
       /\ \A p \in 1..Len(R) : R[p].score = R[p].doc.sim
  <2>1. \A p \in 1..Len(R) : \E k \in DOMAIN score : R[p] = Shown(documents, score, k)
    BY <1>9 DEF Sorts
  <2> QED BY <1>3, <1>9, <2>1 DEF Sorts, Shown
<1>12. /\ Rag!First(R, n) \in Results(Indexed)
       /\ Len(Rag!First(R, n)) = IF Len(R) < n THEN Len(R) ELSE n
       /\ \A p \in 1..Len(Rag!First(R, n)) : p \in 1..Len(R) /\ Rag!First(R, n)[p] = R[p]
  BY <1>11, FirstResults
<1>13. Best(Rag!First(R, n), doc, doc.sim)
  BY <1>10, <1>11, FirstOfBest
<1> QED BY <1>1, <1>11, <1>12, <1>13

LEMMA VectorIsBest ==
  ASSUME RetrievalAssumption, Vectored, NEW doc, Matches(doc), NEW k \in Nat \ {0}, NEW domain
  PROVE  /\ Rag!Vector(k, domain) \in Results(Indexed) /\ Len(Rag!Vector(k, domain)) <= 2 * k
         /\ \E x \in Int : x >= doc.sim /\ Best(Rag!Vector(k, domain), doc, x)
<1> DEFINE F == Rag!Found(2 * k)
<1>1. /\ F \in Results(Indexed) /\ Len(F) <= 2 * k /\ Best(F, doc, doc.sim)
      /\ \A p \in 1..Len(F) : F[p].score = F[p].doc.sim
  BY FoundIsBest
<1>2. /\ Len(F) \in Nat /\ DOMAIN F = 1..Len(F)
      /\ \A p \in 1..Len(F) : F[p].doc \in Indexed /\ F[p].score \in Int
  BY <1>1, ResultsForm
<1>3. \A d \in Indexed : /\ d.sim \in Int /\ Rag!Boosted(d.sim) \in Int
                         /\ d.sim <= Rag!Boosted(d.sim)
                         /\ d # doc => Rag!Boosted(d.sim) < doc.sim
  <2>1. \A d \in Indexed : d # doc => Rag!Boosted(d.sim) < doc.sim
    BY DEF Matches, Rag!BestMatch, Indexed
  <2>2. \A d \in Indexed : d \in Texts
    BY IndexedTexts
  <2> QED BY <2>1, <2>2, SimilaritiesOfTexts
<1> HIDE DEF F
<1>4. CASE domain = ""
  <2>1. Rag!Vector(k, domain) = F
    BY <1>4, Zenon DEF Rag!Vector, Rag!Boost, F
  <2>2. doc.sim \in Int
    BY <1>3 DEF Matches
  <2> QED BY <1>1, <2>1, <2>2
<1>5. CASE domain # ""
  <2> DEFINE docs == Rag!Docs(F)
             score == [i \in DOMAIN F |-> IF F[i].doc.home THEN Rag!Boosted(F[i].score)
                                          ELSE F[i].score]
             x == Rag!Boosted(doc.sim)
  <2>1. Rag!Vector(k, domain) = Rag!ByScore(docs, score)
    BY <1>5, Zenon DEF Rag!Vector, Rag!Boost, F
  <2>2. /\ DOMAIN score = 1..Len(F)
        /\ \A i \in 1..Len(F) :
             /\ docs[i] = F[i].doc /\ docs[i] \in Indexed
             /\ score[i] = IF docs[i].home THEN Rag!Boosted(docs[i].sim) ELSE docs[i].sim
    BY <1>1, <1>2 DEF Rag!Docs
  <2>3. doc \in Indexed /\ doc.home = TRUE /\ x \in Int /\ x >= doc.sim /\ doc.sim \in Int
    BY <1>3 DEF Matches
  <2>4. \A i \in 1..Len(F) : score[i] \in Int /\ IF docs[i] = doc THEN score[i] = x ELSE score[i] < x
    <3> SUFFICES ASSUME NEW i \in 1..Len(F)
                 PROVE  score[i] \in Int /\ IF docs[i] = doc THEN score[i] = x ELSE score[i] < x
      OBVIOUS
    <3> HIDE DEF docs, score, x
    <3>1. CASE docs[i] = doc
      BY <2>2, <2>3, <3>1 DEF x
    <3>2. CASE docs[i] # doc
      <4>1. /\ docs[i].sim \in Int /\ Rag!Boosted(docs[i].sim) \in Int
            /\ docs[i].sim <= Rag!Boosted(docs[i].sim) /\ Rag!Boosted(docs[i].sim) < doc.sim
        BY <1>3, <2>2, <3>2
      <4>2. score[i] = Rag!Boosted(docs[i].sim) \/ score[i] = docs[i].sim
        BY <2>2
      <4>3. score[i] \in Int /\ score[i] < doc.sim
        BY <2>3, <4>1, <4>2
      <4> QED BY <2>3, <3>2, <4>3
    <3> QED BY <3>1, <3>2
  <2>5. \E i \in 1..Len(F) : docs[i] = doc
    BY <1>1, <2>2 DEF Best
  <2> HIDE DEF docs, score, x
  <2>6. Scored(score, Len(F))
    BY <1>2, <2>2, <2>4 DEF Scored
  <2>7. Sorts(Rag!ByScore(docs, score), Indexed, docs, score)
    BY <2>2, <2>6, ByScoreSorts
  <2>8. Best(Rag!ByScore(docs, score), doc, x)
    BY <2>2, <2>3, <2>4, <2>5, <2>7, SortedIsBest
  <2>9. Cardinality(1..Len(F)) = IF 1 > Len(F) THEN 0 ELSE Len(F) - 1 + 1
    <3>1. 1 \in Int /\ Len(F) \in Int
      BY <1>2
    <3> QED BY <3>1, FS_Interval
  <2>10. Len(Rag!ByScore(docs, score)) = Len(F)
    BY <1>2, <2>2, <2>7, <2>9 DEF Sorts
  <2> QED BY <1>1, <1>2, <2>1, <2>3, <2>7, <2>8, <2>10 DEF Sorts
<1> QED BY <1>4, <1>5
-----------------------------------------------------------------------------
(* RagIndex: fused ranks *)

\* The place of a result decides whether it is heard.
LEMMA PlacedIsHeard ==
  ASSUME NEW R, NEW D, NEW docs, NEW score, Sorts(R, D, docs, score), NEW i \in DOMAIN score,
         NEW k \in Nat, PlaceBy(score, i) < k
  PROVE  LET p == PlaceBy(score, i) + 1 IN
         /\ p \in 1..Len(Rag!First(R, k)) /\ Rag!First(R, k)[p] = Shown(docs, score, i)
         /\ Rag!Heard(Rag!First(R, k), docs[i])
<1> DEFINE p == PlaceBy(score, i) + 1
           F == Rag!First(R, k)
<1>1. /\ R \in Results(D) /\ Len(R) \in Nat
      /\ PlaceBy(score, i) \in Nat /\ p \in 1..Len(R) /\ R[p] = Shown(docs, score, i)
  BY DEF Sorts
<1>2. /\ F \in Results(D) /\ Len(F) = IF Len(R) < k THEN Len(R) ELSE k
      /\ \A q \in 1..Len(F) : F[q] = R[q]
  BY <1>1, FirstResults
<1>3. p \in 1..Len(F) /\ F[p] = Shown(docs, score, i)
  BY <1>1, <1>2
<1> HIDE DEF F, p
<1>4. p \in DOMAIN F /\ F[p].doc = docs[i]
  BY <1>2, <1>3, ResultsForm DEF Shown
<1> QED BY <1>3, <1>4 DEF Rag!Heard, F, p

GraphDocument(i) == [id |-> <<"graph", i>>, sim |-> 0, home |-> FALSE]
SymbolicDocument(i) == [id |-> <<"symbolic", i>>, sim |-> 0, home |-> FALSE]

\* What an answer may consist of.
Answers == Indexed \cup {GraphDocument(i) : i \in Nat} \cup {SymbolicDocument(i) : i \in Nat}

\* No other answer has the id of doc.
Sole(doc) ==
  /\ \A d \in Indexed : d.id = doc.id => d = doc
  /\ \A i \in Nat : GraphDocument(i).id # doc.id /\ SymbolicDocument(i).id # doc.id

LEMMA BestIsSole ==
  ASSUME RetrievalAssumption, Vectored, NEW doc \in Indexed, ~Rag!Superseded(doc)
  PROVE  Sole(doc)
<1>1. PICK source \in Namespaces \cup {"file", "triple"}, w \in Wordings, home \in BOOLEAN :
        doc = Rag!Document(source, w, home)
  <2>1. doc \in Texts
    BY IndexedTexts
  <2> QED BY <2>1 DEF Texts
<1>2. doc.id = <<source, w.head>> /\ source # "graph" /\ source # "symbolic"
  <2>1. source # "graph" /\ source # "symbolic"
    BY DEF RetrievalAssumption
  <2> QED BY <1>1, <2>1 DEF Rag!Document
<1>3. \A i \in Nat : GraphDocument(i).id # doc.id /\ SymbolicDocument(i).id # doc.id
  BY <1>2 DEF GraphDocument, SymbolicDocument
<1>4. \A d \in Indexed : d.id = doc.id => d = doc
  BY DEF Rag!Superseded, Indexed
<1> QED BY <1>3, <1>4 DEF Sole

\* A result list that has doc at place p, and no other document of its id.
Within(H, doc, p) ==
  /\ H \in Results(Answers) /\ Falling(H)
  /\ p \in 1..Len(H) /\ H[p].doc = doc

LEMMA WithinIsHeard ==
  ASSUME NEW H, NEW doc, NEW p, Within(H, doc, p)
  PROVE  Rag!Heard(H, doc)
BY ResultsForm DEF Within, Rag!Heard

\* A longer list gives each a smaller share.
LEMMA Shares ==
  ASSUME NEW c \in {40000, 60000}, NEW a \in Nat, NEW b \in Nat, 0 < a, a <= b
  PROVE  c \div a \in Nat /\ c \div b \in Nat /\ c \div b <= c \div a
<1>1. \A q \in Nat, d \in Nat : d > 0 => (q \div d) \in Nat /\ d * (q \div d) <= q /\ q < d * (q \div d) + d
  OBVIOUS
<1>2. /\ c \in Nat /\ c \div a \in Nat /\ c \div b \in Nat
      /\ b * (c \div b) <= c /\ c < a * (c \div a) + a
  BY <1>1
<1>3. \A u, v \in Nat : b * u <= c /\ c < a * v + a => u <= v
  <2> SUFFICES ASSUME NEW u \in Nat, NEW v \in Nat, b * u <= c, c < a * v + a, u > v PROVE FALSE
    OBVIOUS
  <2>1. PICK w \in Nat : u = v + 1 + w
    BY u - v - 1 \in Nat
  <2>2. PICK e \in Nat : b = a + e
    BY b - a \in Nat
  <2>3. b * u = a * v + a + a * w + e * u
    BY <2>1, <2>2
  <2>4. a * w \in Nat /\ e * u \in Nat /\ a * v \in Nat
    OBVIOUS
  <2> QED BY <2>3, <2>4, <1>2
<1> QED BY <1>2, <1>3

LEMMA GraphAnswers ==
  ASSUME NEW g \in Nat
  PROVE  /\ Rag!GraphResults(g) \in Results(Answers) /\ Len(Rag!GraphResults(g)) = g
         /\ \A i \in 1..g : Rag!GraphResults(g)[i].doc = GraphDocument(i)
<1> DEFINE entry(i) == [doc |-> GraphDocument(i), score |-> 0]
<1>1. Rag!GraphResults(g) = [i \in 1..g |-> entry(i)]
  BY Zenon DEF Rag!GraphResults, GraphDocument
<1>2. \A i \in 1..g : entry(i) \in [doc : Answers, score : Int] /\ entry(i).doc = GraphDocument(i)
  <2>1. \A i \in 1..g : GraphDocument(i) \in Answers
    BY DEF Answers
  <2> QED BY <2>1
<1> HIDE DEF entry
<1>3. \A X, m : m \in Nat => \A f \in [1..m -> X] : f \in Seq(X) /\ Len(f) = m
  OBVIOUS
<1>4. [i \in 1..g |-> entry(i)] \in [1..g -> [doc : Answers, score : Int]]
  BY <1>2
<1>5. Rag!GraphResults(g) \in Results(Answers) /\ Len(Rag!GraphResults(g)) = g
  BY <1>1, <1>3, <1>4, Zenon DEF Results
<1>6. \A i \in 1..g : Rag!GraphResults(g)[i] = entry(i)
  BY <1>1
<1> QED BY <1>2, <1>5, <1>6

LEMMA AnswersIndexed == Results(Indexed) \subseteq Results(Answers)
<1>1. [doc : Indexed, score : Int] \subseteq [doc : Answers, score : Int]
  BY DEF Answers
<1>2. \A X, Y : X \subseteq Y => Seq(X) \subseteq Seq(Y)
  OBVIOUS
<1> QED BY <1>1, <1>2, Zenon DEF Results

\* Two result lists on end.
LEMMA OneAfterAnother ==
  ASSUME NEW D, NEW R \in Results(D), NEW G \in Results(D)
  PROVE  /\ Len(R) \in Nat /\ Len(G) \in Nat
         /\ R \o G \in Results(D) /\ Len(R \o G) = Len(R) + Len(G)
         /\ \A i \in 1..Len(R) : (R \o G)[i] = R[i]
         /\ \A i \in Len(R) + 1..Len(R) + Len(G) :
              i - Len(R) \in 1..Len(G) /\ (R \o G)[i] = G[i - Len(R)]
<1>1. \A X : \A f, h \in Seq(X) :
        /\ Len(f) \in Nat /\ Len(h) \in Nat
        /\ f \o h \in Seq(X) /\ Len(f \o h) = Len(f) + Len(h)
        /\ \A i \in 1..Len(f) : (f \o h)[i] = f[i]
        /\ \A i \in Len(f) + 1..Len(f) + Len(h) :
             i - Len(f) \in 1..Len(h) /\ (f \o h)[i] = h[i - Len(f)]
  OBVIOUS
<1> QED BY <1>1, Zenon DEF Results

\* The rank of the last copy decides; only what the graph gave may be ahead, and
\* nothing if the last copy is far enough in front.
LEMMA FusedPlace ==
  ASSUME NEW V \in Results(Indexed), NEW doc \in Indexed, NEW x, Best(V, doc, x), Sole(doc),
         NEW k \in Nat \ {0}, NEW g \in Nat
  PROVE  \E p \in Nat : /\ 1 <= p /\ p <= 1 + g
                        /\ Len(V) <= Rag!Unbeaten => p = 1
                        /\ p <= k => Within(Rag!Fused(k, V, Rag!GraphResults(g)), doc, p)
<1> DEFINE G == Rag!GraphResults(g)
           l == Len(V)
           all == Rag!Docs(V \o G)
           kept == {i \in DOMAIN all : \A j \in i + 1..Len(all) : all[j].id # all[i].id}
           score == [i \in kept |-> IF i <= Len(V) THEN 60000 \div (60 + i)
                                    ELSE 40000 \div (60 + i - Len(V))]
           R == Rag!ByScore(all, score)
<1>1. Rag!Fused(k, V, G) = Rag!First(R, k)
  BY DEF Rag!Fused
<1>2. /\ l \in Nat /\ DOMAIN all = 1..l + g /\ Len(all) = l + g
      /\ \A i \in 1..l : all[i] = V[i].doc
      /\ \A i \in l + 1..l + g : \E j \in Nat : all[i] = GraphDocument(j)
  <2>1. /\ G \in Results(Answers) /\ Len(G) = g /\ V \in Results(Answers)
        /\ \A i \in 1..g : G[i].doc = GraphDocument(i)
    BY GraphAnswers, AnswersIndexed
  <2> HIDE DEF G
  <2>2. /\ l \in Nat /\ Len(V \o G) = l + g /\ V \o G \in Results(Answers)
        /\ \A i \in 1..l : (V \o G)[i] = V[i]
        /\ \A i \in l + 1..l + g : i - l \in 1..g /\ (V \o G)[i] = G[i - l]
    BY <2>1, OneAfterAnother
  <2>3. DOMAIN (V \o G) = 1..l + g
    BY <2>2, ResultsForm
  <2> HIDE DEF l
  <2>4. all = [i \in 1..l + g |-> (V \o G)[i].doc]
    BY <2>3, Zenon DEF Rag!Docs
  <2> HIDE DEF all
  <2>5. DOMAIN all = 1..l + g /\ \A i \in 1..l + g : all[i] = (V \o G)[i].doc
    BY <2>4
  <2>6. Len(all) = l + g
    BY <2>2, <2>4
  <2>7. \A i \in 1..l : all[i] = V[i].doc
    BY <2>2, <2>5
  <2>8. ASSUME NEW i \in l + 1..l + g PROVE all[i] = GraphDocument(i - l) /\ i - l \in Nat
    <3>1. i \in 1..l + g /\ i - l \in 1..g
      BY <2>2
    <3> QED BY <2>1, <2>2, <2>5, <3>1
  <2> QED BY <2>2, <2>5, <2>6, <2>7, <2>8
<1>3. /\ DOMAIN score = kept /\ \A i \in kept : score[i] = IF i <= l THEN 60000 \div (60 + i)
                                                           ELSE 40000 \div (60 + i - l)
  OBVIOUS
<1>4. \A i \in 1..l + g : i \in kept <=> \A j \in i + 1..l + g : all[j].id # all[i].id
  BY <1>2
<1>5. kept \subseteq 1..l + g
  BY <1>2
<1> HIDE DEF G, all, kept, score, R
<1>6. \A i \in 1..l : V[i].score \in Int /\ V[i].doc \in Indexed
  BY ResultsForm
<1>7. PICK m \in 1..l : V[m].doc = doc /\ \A j \in 1..l : V[j].doc = doc => j <= m
  <2> DEFINE copies == {i \in 1..l : V[i].doc = doc}
  <2>1. copies \in SUBSET (1..l) /\ copies # {} /\ l \in Nat
    BY <1>2 DEF Best
  <2>2. PICK m \in copies : \A j \in copies : j <= m
    BY <2>1, Greatest
  <2> QED BY <2>2
<1>8. \A i \in 1..l : i <= m => V[i].doc = doc
  <2> SUFFICES ASSUME NEW i \in 1..l, i <= m PROVE V[i].doc = doc
    OBVIOUS
  <2>1. V[i].score >= V[m].score /\ V[m].score = x
    BY <1>7 DEF Best, Falling
  <2> QED BY <1>6, <2>1 DEF Best
<1> HIDE DEF l
<1>9. m \in kept
  <2>1. ASSUME NEW j \in m + 1..l + g PROVE all[j].id # all[m].id
    <3>1. all[m] = doc
      BY <1>2, <1>7
    <3>2. CASE j \in 1..l
      <4>1. V[j].doc # doc /\ V[j].doc \in Indexed /\ all[j] = V[j].doc
        BY <1>2, <1>6, <1>7, <3>2
      <4> QED BY <3>1, <4>1 DEF Sole
    <3>3. CASE j \in l + 1..l + g
      <4>1. PICK i \in Nat : all[j] = GraphDocument(i)
        BY <1>2, <3>3
      <4> QED BY <3>1, <4>1 DEF Sole
    <3> QED BY <1>2, <3>2, <3>3
  <2> QED BY <1>2, <1>4, <2>1
<1>10. \A i \in kept : i \in 1..l + g /\ ~(i < m)
  <2> SUFFICES ASSUME NEW i \in kept, i < m PROVE FALSE
    BY <1>5
  <2>1. i \in 1..l + g /\ i \in 1..l /\ m \in i + 1..l + g
    BY <1>2, <1>5
  <2>2. all[i] = doc /\ all[m] = doc
    BY <1>2, <1>7, <1>8, <2>1
  <2> QED BY <1>4, <2>1, <2>2
\* The scores.
<1>11. /\ score[m] = 60000 \div (60 + m)
       /\ \A i \in kept : score[i] \in Int /\ (m < i /\ i <= l => score[i] <= score[m])
       /\ m <= Rag!Unbeaten => \A i \in kept : i > l => score[i] <= score[m]
  <2>1. \A i \in 1..l + g : i <= l => score[i] = 60000 \div (60 + i) \/ i \notin kept
    BY <1>3
  <2>2. score[m] = 60000 \div (60 + m)
    BY <1>2, <1>3, <1>9
  <2>3. \A i \in Nat : 60000 \div (60 + i) \in Int /\ 40000 \div (60 + i) \in Int
    <3>1. \A i \in Nat : 60 + i \in Nat /\ 60 + i > 0
      OBVIOUS
    <3> QED BY <3>1, Shares
  <2>4. ASSUME NEW i \in kept
        PROVE  \/ i <= l /\ i \in Nat /\ score[i] = 60000 \div (60 + i)
               \/ i > l /\ i - l \in Nat /\ i - l > 0 /\ score[i] = 40000 \div (60 + (i - l))
    <3>1. i \in 1..l + g
      BY <1>5
    <3>2. CASE i <= l
      BY <1>3, <3>1, <3>2
    <3>3. CASE i > l
      <4>1. 60 + i - l = 60 + (i - l) /\ i - l \in Nat /\ i - l > 0
        BY <1>2, <3>1, <3>3
      <4>2. score[i] = 40000 \div (60 + i - l)
        BY <1>2, <1>3, <3>1, <3>3
      <4> QED BY <3>3, <4>1, <4>2
    <3> QED BY <1>2, <3>1, <3>2, <3>3
  <2>5. \A i \in kept : score[i] \in Int
    BY <2>3, <2>4
  <2>6. ASSUME NEW i \in kept, m < i, i <= l PROVE score[i] <= score[m]
    <3>1. 60 + m \in Nat /\ 60 + i \in Nat /\ 0 < 60 + m /\ 60 + m <= 60 + i
      BY <1>2, <1>5, <2>6
    <3>2. 60000 \div (60 + i) <= 60000 \div (60 + m)
      BY <3>1, Shares
    <3>3. score[i] = 60000 \div (60 + i)
      BY <1>2, <1>5, <2>4, <2>6
    <3> QED BY <2>2, <3>2, <3>3
  <2>7. ASSUME m <= Rag!Unbeaten, NEW i \in kept, i > l PROVE score[i] <= score[m]
    <3>1. i - l \in Nat /\ i - l > 0 /\ score[i] = 40000 \div (60 + (i - l))
      BY <1>2, <1>5, <2>4, <2>7
    <3>2. m \in Nat /\ m <= 31 /\ 1 <= m
      BY <1>2, <2>7 DEF Rag!Unbeaten
    <3>3. 60000 \div 91 <= 60000 \div (60 + m) /\ 60000 \div (60 + m) \in Nat
      <4>1. 60 + m \in Nat /\ 91 \in Nat /\ 0 < 60 + m /\ 60 + m <= 91
        BY <3>2
      <4> QED BY <4>1, Shares
    <3>4. 40000 \div (60 + (i - l)) <= 40000 \div 61 /\ 40000 \div (60 + (i - l)) \in Nat
      <4>1. 60 + (i - l) \in Nat /\ 61 \in Nat /\ 0 < 61 /\ 61 <= 60 + (i - l)
        BY <3>1
      <4> HIDE DEF l
      <4> QED BY <4>1, Shares
    <3>5. 40000 \div 61 <= 60000 \div 91 /\ 40000 \div 61 \in Int /\ 60000 \div 91 \in Int
      OBVIOUS
    <3> QED BY <2>2, <3>1, <3>3, <3>4, <3>5
  <2> QED BY <2>2, <2>5, <2>6, <2>7
\* Those ahead of the last copy.
<1>12. /\ Rag!Ahead(score, m) \subseteq l + 1..l + g
       /\ m <= Rag!Unbeaten => Rag!Ahead(score, m) = {}
  <2>1. \A i \in Rag!Ahead(score, m) :
          i \in kept /\ i # m /\ (score[i] > score[m] \/ i < m)
    BY <1>3 DEF Rag!Ahead
  <2>2. \A i \in Rag!Ahead(score, m) : score[i] > score[m] /\ i \in kept /\ i > m /\ i \in 1..l + g
    BY <1>2, <1>10, <2>1
  <2>3. \A i \in Rag!Ahead(score, m) : i > l
    BY <1>2, <1>9, <1>11, <2>2
  <2>4. m <= Rag!Unbeaten => \A i \in Rag!Ahead(score, m) : FALSE
    BY <1>9, <1>11, <2>2, <2>3
  <2> QED BY <1>2, <2>2, <2>3, <2>4
<1>13. Scored(score, l + g) /\ \A i \in DOMAIN score : all[i] \in Answers
  <2>1. \A i \in 1..l + g : all[i] \in Answers
    <3>1. \A i \in 1..l : all[i] \in Answers
      BY <1>2, <1>6 DEF Answers
    <3>2. \A i \in l + 1..l + g : all[i] \in Answers
      BY <1>2 DEF Answers
    <3> QED BY <1>2, <3>1, <3>2
  <2>2. l + g \in Nat
    BY <1>2
  <2>3. \A i \in DOMAIN score : score[i] \in Int /\ all[i] \in Answers
    <3>1. DOMAIN score = kept
      BY <1>3
    <3>2. \A i \in kept : score[i] \in Int
      BY <1>11
    <3>3. \A i \in kept : all[i] \in Answers
      BY <1>5, <2>1
    <3> QED BY <3>1, <3>2, <3>3
  <2> QED BY <1>3, <1>5, <2>2, <2>3 DEF Scored
<1>14. Sorts(R, Answers, all, score)
  BY <1>13, ByScoreSorts DEF R
<1>15. /\ PlaceBy(score, m) \in Nat /\ PlaceBy(score, m) <= g
       /\ m <= Rag!Unbeaten => PlaceBy(score, m) = 0
  <2> DEFINE a == l + 1
             b == l + g
  <2>1. a \in Int /\ b \in Int /\ (IF a > b THEN 0 ELSE b - a + 1) = g
    BY <1>2
  <2>2. Rag!Ahead(score, m) \in SUBSET (a..b) /\ (m <= Rag!Unbeaten => Rag!Ahead(score, m) = {})
    BY <1>12
  <2> HIDE DEF a, b
  <2>3. IsFiniteSet(a..b) /\ Cardinality(a..b) = g
    BY <2>1, FS_Interval
  <2>4. /\ Cardinality(Rag!Ahead(score, m)) <= g
        /\ Cardinality(Rag!Ahead(score, m)) \in Nat
    BY <2>2, <2>3, FS_Subset, FS_CardinalityType
  <2>5. Cardinality({}) = 0
    BY FS_EmptySet
  <2> QED BY <2>2, <2>4, <2>5 DEF PlaceBy
<1> DEFINE p == PlaceBy(score, m) + 1
<1>16. ASSUME p <= k PROVE Within(Rag!First(R, k), doc, p)
  <2>1. m \in DOMAIN score /\ all[m] = doc /\ PlaceBy(score, m) < k
    BY <1>2, <1>3, <1>7, <1>9, <1>15, <1>16
  <2>2. p \in 1..Len(Rag!First(R, k)) /\ Rag!First(R, k)[p] = Shown(all, score, m)
    BY <1>14, <2>1, PlacedIsHeard
  <2>3. R \in Results(Answers) /\ Falling(R) /\ Len(R) \in Nat
    BY <1>14 DEF Sorts
  <2>4. /\ Rag!First(R, k) \in Results(Answers)
        /\ \A q \in 1..Len(Rag!First(R, k)) : q \in 1..Len(R) /\ Rag!First(R, k)[q] = R[q]
    BY <2>3, FirstResults
  <2>5. Falling(Rag!First(R, k))
    BY <2>3, <2>4 DEF Falling
  <2> QED BY <2>1, <2>2, <2>4, <2>5 DEF Within, Shown
<1>17. p \in Nat /\ 1 <= p /\ p <= 1 + g /\ (m <= Rag!Unbeaten => p = 1)
  BY <1>15
<1>18. l <= Rag!Unbeaten => m <= Rag!Unbeaten
  BY <1>2 DEF Rag!Unbeaten
<1> HIDE DEF p
<1> QED BY <1>1, <1>16, <1>17, <1>18, Zenon DEF G, l

LEMMA HybridPlace ==
  ASSUME RetrievalAssumption, Vectored, NEW doc, Matches(doc), Sole(doc),
         NEW k \in Nat \ {0}, NEW domain, NEW g \in Nat
  PROVE  \E p \in Nat : /\ 1 <= p /\ p <= 1 + g
                        /\ 2 * k <= Rag!Unbeaten => p = 1
                        /\ p <= k => Within(Rag!Hybrid(k, domain, g), doc, p)
                        /\ g = 0 => Rag!Hybrid(k, domain, g)[p].score >= doc.sim * 1000
<1> DEFINE V == Rag!Vector(k, domain)
<1>1. PICK x \in Int : x >= doc.sim /\ Best(V, doc, x)
  BY VectorIsBest
<1>2. V \in Results(Indexed) /\ Len(V) <= 2 * k /\ Len(V) \in Nat /\ doc \in Indexed /\ doc.sim \in Int
  BY VectorIsBest, ResultsForm, IndexedTexts, SimilaritiesOfTexts DEF Matches
<1> HIDE DEF V
<1>3. CASE g # 0
  <2>1. Rag!Hybrid(k, domain, g) = Rag!Fused(k, V, Rag!GraphResults(g))
    BY <1>3, Zenon DEF Rag!Hybrid, V
  <2>2. PICK p \in Nat : /\ 1 <= p /\ p <= 1 + g
                         /\ Len(V) <= Rag!Unbeaten => p = 1
                         /\ p <= k => Within(Rag!Fused(k, V, Rag!GraphResults(g)), doc, p)
    BY <1>1, <1>2, FusedPlace
  <2>3. 2 * k <= Rag!Unbeaten => p = 1
    BY <1>2, <2>2 DEF Rag!Unbeaten
  <2> QED BY <1>3, <2>1, <2>2, <2>3
<1>4. CASE g = 0
  <2> DEFINE T == Rag!Retrieve(k, domain)
             H == [i \in DOMAIN T |-> [T[i] EXCEPT !.score = @ * 1000]]
  <2>1. Rag!Hybrid(k, domain, g) = H
    BY <1>4, Zenon DEF Rag!Hybrid
  <2>2. T \in Results(Indexed) /\ Best(T, doc, x)
    BY <1>1, <1>2, FirstOfBest, FirstResults DEF Rag!Retrieve, V
  <2> HIDE DEF T
  <2>3. /\ 1 \in 1..Len(T) /\ T[1].doc = doc /\ T[1].score = x /\ Len(T) \in Nat
        /\ DOMAIN T = 1..Len(T)
        /\ \A i \in 1..Len(T) : /\ T[i] \in [doc : Indexed, score : Int]
                                /\ T[i].doc \in Indexed /\ T[i].score \in Int
    BY <2>2, BestLeads, ResultsForm
  <2>4. \A i \in 1..Len(T) : /\ H[i] \in [doc : Indexed, score : Int]
                             /\ H[i].doc = T[i].doc /\ H[i].score = T[i].score * 1000
    BY <2>3
  <2>5. H = [i \in 1..Len(T) |-> H[i]]
    BY <2>3
  <2> HIDE DEF H
  <2>6. H \in [1..Len(T) -> [doc : Indexed, score : Int]]
    BY <2>4, <2>5
  <2>7. \A X, m : m \in Nat => \A f \in [1..m -> X] : f \in Seq(X) /\ Len(f) = m
    OBVIOUS
  <2>8. H \in Results(Indexed) /\ Len(H) = Len(T)
    BY <2>3, <2>6, <2>7, Zenon DEF Results
  <2>9. Falling(H)
    BY <2>2, <2>3, <2>4, <2>8 DEF Best, Falling
  <2>10. Within(H, doc, 1) /\ H[1].score >= doc.sim * 1000
    BY <1>1, <1>2, <2>3, <2>4, <2>8, <2>9, AnswersIndexed DEF Within
  <2> QED BY <1>4, <2>1, <2>10
<1> QED BY <1>3, <1>4

LEMMA SymbolicAnswers ==
  ASSUME NEW s \in Nat
  PROVE  /\ Rag!Symbolic(s) \in Results(Answers) /\ Len(Rag!Symbolic(s)) = s
         /\ \A i \in 1..s : /\ Rag!Symbolic(s)[i].doc = SymbolicDocument(i)
                            /\ Rag!Symbolic(s)[i].score = Rag!Equation
<1> DEFINE entry(i) == [doc |-> SymbolicDocument(i), score |-> Rag!Equation]
<1>1. Rag!Symbolic(s) = [i \in 1..s |-> entry(i)]
  BY Zenon DEF Rag!Symbolic, SymbolicDocument
<1>2. \A i \in 1..s : /\ entry(i) \in [doc : Answers, score : Int]
                      /\ entry(i).doc = SymbolicDocument(i) /\ entry(i).score = Rag!Equation
  <2>1. \A i \in 1..s : SymbolicDocument(i) \in Answers
    BY DEF Answers
  <2>2. Rag!Equation \in Int
    BY DEF Rag!Equation
  <2> QED BY <2>1, <2>2
<1> HIDE DEF entry
<1>3. \A X, m : m \in Nat => \A f \in [1..m -> X] : f \in Seq(X) /\ Len(f) = m
  OBVIOUS
<1>4. [i \in 1..s |-> entry(i)] \in [1..s -> [doc : Answers, score : Int]]
  BY <1>2
<1>5. Rag!Symbolic(s) \in Results(Answers) /\ Len(Rag!Symbolic(s)) = s
  BY <1>1, <1>3, <1>4, Zenon DEF Results
<1>6. \A i \in 1..s : Rag!Symbolic(s)[i] = entry(i)
  BY <1>1
<1> QED BY <1>2, <1>5, <1>6

\* Of one order of fused ranks and symbolic results, the first that is doc has only
\* those before it and the symbolic ones ahead.
LEMMA AugmentedHears ==
  ASSUME RetrievalAssumption, Vectored, NEW doc, Matches(doc), Sole(doc),
         NEW k \in Nat \ {0}, NEW domain, NEW g \in 0..k, NEW s \in Nat,
         \/ s + g < k
         \/ s < k /\ 4 * k <= Rag!Unbeaten
         \/ g = 0 /\ doc.sim * 1000 > Rag!Equation
  PROVE  Rag!Heard(Rag!Augmented(k, domain, g, s), doc)
<1> DEFINE H == Rag!Hybrid(2 * k, domain, g)
           l == Len(H)
           A == H \o Rag!Symbolic(s)
           unique == {i \in DOMAIN A : \A j \in 1..i - 1 : A[j].doc.id # A[i].doc.id}
           score == [i \in unique |-> A[i].score]
           R == Rag!ByScore(Rag!Docs(A), score)
<1>1. Rag!Augmented(k, domain, g, s) = Rag!First(R, k)
  BY DEF Rag!Augmented
<1>2. PICK p \in Nat : /\ 1 <= p /\ p <= 1 + g /\ (4 * k <= Rag!Unbeaten => p = 1)
                       /\ Within(H, doc, p)
                       /\ g = 0 => H[p].score >= doc.sim * 1000
  <2>1. 2 * k \in Nat \ {0} /\ g \in Nat /\ 2 * (2 * k) = 4 * k
    OBVIOUS
  <2>2. PICK p \in Nat : /\ 1 <= p /\ p <= 1 + g /\ (2 * (2 * k) <= Rag!Unbeaten => p = 1)
                         /\ p <= 2 * k => Within(H, doc, p)
                         /\ g = 0 => H[p].score >= doc.sim * 1000
    BY <2>1, HybridPlace
  <2>3. p <= 2 * k
    BY <2>2
  <2> QED BY <2>1, <2>2, <2>3
<1>3. /\ H \in Results(Answers) /\ Falling(H) /\ l \in Nat /\ p \in 1..l /\ H[p].doc = doc
      /\ \A i \in 1..l : H[i].doc \in Answers /\ H[i].score \in Int
  BY <1>2, ResultsForm DEF Within
<1>4. /\ DOMAIN A = 1..l + s /\ A \in Results(Answers)
      /\ \A i \in 1..l : A[i] = H[i]
      /\ \A i \in l + 1..l + s : \E j \in Nat : A[i].doc = SymbolicDocument(j) /\ A[i].score = Rag!Equation
      /\ \A i \in 1..l + s : A[i].doc \in Answers /\ A[i].score \in Int
  <2>1. /\ Rag!Symbolic(s) \in Results(Answers) /\ Len(Rag!Symbolic(s)) = s
        /\ \A i \in 1..s : /\ Rag!Symbolic(s)[i].doc = SymbolicDocument(i)
                           /\ Rag!Symbolic(s)[i].score = Rag!Equation
    BY SymbolicAnswers
  <2> HIDE DEF H
  <2>2. /\ A \in Results(Answers) /\ Len(A) = l + s
        /\ \A i \in 1..l : A[i] = H[i]
        /\ \A i \in l + 1..l + s : i - l \in 1..s /\ A[i] = Rag!Symbolic(s)[i - l]
    <3> DEFINE G == Rag!Symbolic(s)
    <3>1. G \in Results(Answers) /\ Len(G) = s /\ A = H \o G
      BY <2>1
    <3> HIDE DEF A, G, l
    <3>2. /\ H \o G \in Results(Answers) /\ Len(H \o G) = Len(H) + Len(G)
          /\ \A i \in 1..Len(H) : (H \o G)[i] = H[i]
          /\ \A i \in Len(H) + 1..Len(H) + Len(G) :
               i - Len(H) \in 1..Len(G) /\ (H \o G)[i] = G[i - Len(H)]
      <4>1. H \in Results(Answers) /\ G \in Results(Answers)
        BY <1>3, <3>1
      <4> QED BY <4>1, OneAfterAnother
    <3> QED BY <3>1, <3>2 DEF G, l
  <2> HIDE DEF A, l
  <2>3. \A i \in l + 1..l + s : i - l \in Nat /\ A[i].doc = SymbolicDocument(i - l) /\ A[i].score = Rag!Equation
    BY <2>1, <2>2
  <2>4. DOMAIN A = 1..l + s /\ \A i \in 1..l + s : A[i].doc \in Answers /\ A[i].score \in Int
    BY <2>2, ResultsForm
  <2> QED BY <2>2, <2>3, <2>4
<1>5. PICK m \in 1..l : H[m].doc = doc /\ m <= p /\ \A j \in 1..l : H[j].doc = doc => m <= j
  <2> DEFINE copies == {i \in 1..l : H[i].doc = doc}
  <2>1. p \in copies /\ copies \in SUBSET Nat /\ copies # {}
    BY <1>3
  <2>2. PICK m \in copies : \A j \in copies : m <= j
    BY <2>1, Least
  <2> QED BY <2>1, <2>2
<1>6. /\ DOMAIN score = unique /\ unique \subseteq 1..l + s /\ \A i \in unique : score[i] = A[i].score
      /\ \A i \in 1..l + s : i \in unique <=> \A j \in 1..i - 1 : A[j].doc.id # A[i].doc.id
  BY <1>4
<1> HIDE DEF H, A, unique, score, R, l
<1>7. m \in unique
  <2>1. ASSUME NEW j \in 1..m - 1 PROVE A[j].doc.id # A[m].doc.id
    <3>1. j \in 1..l /\ H[j].doc # doc /\ H[j].doc \in Answers /\ A[j] = H[j] /\ A[m].doc = doc
      BY <1>3, <1>4, <1>5
    <3> QED BY <3>1 DEF Sole, Answers
  <2>2. m \in 1..l + s
    BY <1>3
  <2> QED BY <1>6, <2>1, <2>2
<1>8. \A i \in Rag!Ahead(score, m) :
        /\ i \in 1..l + s /\ A[i].score >= A[m].score
        /\ i <= l => i < m
  <2> SUFFICES ASSUME NEW i \in Rag!Ahead(score, m)
               PROVE  i \in 1..l + s /\ A[i].score >= A[m].score /\ (i <= l => i < m)
    OBVIOUS
  <2>1. i \in unique /\ (score[i] > score[m] \/ (score[i] = score[m] /\ i < m))
    BY <1>6 DEF Rag!Ahead
  <2>2. /\ i \in 1..l + s /\ score[i] = A[i].score /\ score[m] = A[m].score
        /\ A[i].score \in Int /\ A[m].score \in Int
    BY <1>3, <1>4, <1>6, <1>7, <2>1
  <2>3. i <= l /\ m < i => A[m].score >= A[i].score
    <3> SUFFICES ASSUME i <= l, m < i PROVE A[m].score >= A[i].score
      OBVIOUS
    <3>1. i \in 1..l /\ m <= i
      BY <1>3, <2>2
    <3>2. H[m].score >= H[i].score
      BY <1>3, <3>1 DEF Falling, l
    <3> QED BY <1>4, <3>1, <3>2
  <2>4. A[i].score >= A[m].score
    BY <2>1, <2>2
  <2>5. ASSUME i <= l PROVE i < m
    BY <1>3, <2>1, <2>2, <2>3, <2>5
  <2> QED BY <2>2, <2>4, <2>5
<1>9. Cardinality(Rag!Ahead(score, m)) < k /\ Cardinality(Rag!Ahead(score, m)) \in Nat
  <2>1. CASE g = 0 /\ doc.sim * 1000 > Rag!Equation
    <3>1. p = 1 /\ m = 1
      BY <1>2, <1>3, <1>5, <2>1
    <3>2. A[m].score > Rag!Equation
      <4>1. H[p].score \in Int /\ doc.sim * 1000 \in Int /\ Rag!Equation \in Int
        BY <1>3, IndexedTexts, SimilaritiesOfTexts DEF Rag!Equation, Matches
      <4> QED BY <1>2, <1>3, <1>4, <2>1, <3>1, <4>1
    <3>3. \A i \in Rag!Ahead(score, m) : FALSE
      <4> SUFFICES ASSUME NEW i \in Rag!Ahead(score, m) PROVE FALSE
        OBVIOUS
      <4>1. i \in l + 1..l + s /\ A[i].score >= A[m].score
        BY <1>3, <1>8, <3>1
      <4>2. A[i].score = Rag!Equation /\ Rag!Equation \in Int /\ A[m].score \in Int
        BY <1>3, <1>4, <4>1 DEF Rag!Equation
      <4> QED BY <3>2, <4>1, <4>2
    <3>4. Rag!Ahead(score, m) = {} /\ Cardinality({}) = 0
      BY <3>3, FS_EmptySet
    <3> QED BY <3>4
  <2>2. CASE ~(g = 0 /\ doc.sim * 1000 > Rag!Equation)
    <3>1. (p - 1) + s < k
      BY <1>2, <2>2
    <3> DEFINE a == l + 1
               b == l + s
               before == 1..m - 1
               after == a..b
    <3>2. Rag!Ahead(score, m) \in SUBSET (before \cup after)
      BY <1>3, <1>8
    <3>3. /\ a \in Int /\ b \in Int /\ m - 1 \in Int /\ 1 \in Int
          /\ (IF a > b THEN 0 ELSE b - a + 1) = s
          /\ (IF 1 > m - 1 THEN 0 ELSE (m - 1) - 1 + 1) = m - 1
      BY <1>3
    <3>4. before \cap after = {}
      BY <1>3
    <3> HIDE DEF a, b
    <3>5. IsFiniteSet(after) /\ Cardinality(after) = s
      BY <3>3, FS_Interval
    <3>6. IsFiniteSet(before) /\ Cardinality(before) = m - 1
      BY <3>3, FS_Interval
    <3> HIDE DEF before, after
    <3>7. /\ IsFiniteSet(before \cup after)
          /\ Cardinality(before \cup after) = (m - 1) + s - Cardinality({})
      BY <3>4, <3>5, <3>6, FS_Union
    <3>8. /\ Cardinality(Rag!Ahead(score, m)) <= Cardinality(before \cup after)
          /\ Cardinality(Rag!Ahead(score, m)) \in Nat
      BY <3>2, <3>7, FS_Subset, FS_CardinalityType
    <3>9. Cardinality({}) = 0
      BY FS_EmptySet
    <3> QED BY <1>3, <1>5, <3>1, <3>7, <3>8, <3>9
  <2> QED BY <2>1, <2>2
<1>10. Scored(score, l + s) /\ \A i \in DOMAIN score : Rag!Docs(A)[i] \in Answers
  <2>1. l + s \in Nat
    BY <1>3
  <2>2. \A i \in unique : score[i] \in Int
    BY <1>4, <1>6
  <2>3. \A i \in 1..l + s : Rag!Docs(A)[i] \in Answers
    BY <1>4 DEF Rag!Docs
  <2> QED BY <1>6, <2>1, <2>2, <2>3 DEF Scored
<1>11. Sorts(R, Answers, Rag!Docs(A), score)
  BY <1>10, ByScoreSorts DEF R
<1>12. Rag!Docs(A)[m] = doc
  BY <1>3, <1>4, <1>5 DEF Rag!Docs
<1>13. m \in DOMAIN score /\ k \in Nat /\ PlaceBy(score, m) < k
  BY <1>6, <1>7, <1>9 DEF PlaceBy
<1>14. Rag!Heard(Rag!First(R, k), Rag!Docs(A)[m])
  BY <1>11, <1>13, PlacedIsHeard
<1> QED BY <1>1, <1>12, <1>14

-----------------------------------------------------------------------------
(* RagIndex: what the index holds *)

\* What counts as encoded was encoded as it is, and every policy in force that was
\* ingested is in the index.
RagInv ==
  /\ DOMAIN policies \subseteq Namespaces /\ \A n \in DOMAIN policies : policies[n] \in Wordings
  /\ documents \in Seq(Texts)
  /\ ~unindexed /\ backend # "none" => vectors = [i \in DOMAIN documents |-> documents[i].sim]
  /\ \A n \in DOMAIN policies \ unheard : Rag!Document(n, policies[n], TRUE) \in Indexed

LEMMA TextsHold ==
  \A source \in Namespaces \cup {"file", "triple"}, w \in Wordings, home \in BOOLEAN :
    Rag!Document(source, w, home) \in Texts
<1> TAKE source \in Namespaces \cup {"file", "triple"}, w \in Wordings, home \in BOOLEAN
<1>1. \E s \in Namespaces \cup {"file", "triple"}, v \in Wordings, h \in BOOLEAN :
        Rag!Document(source, w, home) = Rag!Document(s, v, h)
  BY Zenon
<1> QED BY <1>1 DEF Texts

\* A list of policies makes a document of each.
Listing(docs, listed) ==
  docs \in Seq(Texts) /\ \A n \in DOMAIN listed : \E i \in DOMAIN docs :
    docs[i] = Rag!Document(n, listed[n], TRUE)

LEMMA PolicyDocumentsList ==
  ASSUME RetrievalAssumption, NEW listed, DOMAIN listed \subseteq Namespaces,
         \A n \in DOMAIN listed : listed[n] \in Wordings
  PROVE  Listing(Rag!PolicyDocuments(listed), listed)
<1> DEFINE S == DOMAIN listed
           c == Cardinality(S)
           f == Rag!SetToSeq(S)
           text(i) == Rag!Document(f[i], listed[f[i]], TRUE)
<1>1. IsFiniteSet(S) /\ c \in Nat
  BY FS_Subset, FS_CardinalityType DEF RetrievalAssumption
<1>2. f \in [1..c -> S] /\ \A i, j \in 1..c : f[i] = f[j] => i = j
  <2>1. PICK b : b \in Bijection(1..c, S)
    BY <1>1, FS_CardinalityType DEF ExistsBijection
  <2>2. b \in [1..c -> S] /\ \A i, j \in 1..c : b[i] = b[j] => i = j
    BY <2>1 DEF Bijection, Injection, IsInjective
  <2>3. f = CHOOSE h \in [1..c -> S] : \A i, j \in DOMAIN h : h[i] = h[j] => i = j
    BY CardinalityOfDocuments, Zenon DEF Rag!SetToSeq, Rag!IsInjective
  <2> HIDE DEF f, c, S
  <2> DEFINE once(h) == \A i, j \in DOMAIN h : h[i] = h[j] => i = j
  <2>4. \E h \in [1..c -> S] : once(h)
    BY <2>2
  <2>5. f = CHOOSE h \in [1..c -> S] : once(h)
    BY <2>3
  <2> HIDE DEF once
  <2>6. f \in [1..c -> S] /\ once(f)
    BY <2>4, <2>5
  <2> QED BY <2>6 DEF once
<1>3. Rag!PolicyDocuments(listed) = [i \in 1..c |-> text(i)]
  BY CardinalityOfDocuments, Zenon DEF Rag!PolicyDocuments
<1>4. \A i \in 1..c : text(i) \in Texts
  <2>1. \A i \in 1..c : f[i] \in Namespaces /\ listed[f[i]] \in Wordings
    BY <1>2
  <2> HIDE DEF f
  <2> QED BY <2>1, TextsHold, Zenon
<1> HIDE DEF f, c
<1>5. \A n \in S : \E i \in 1..c : f[i] = n
  <2>1. IsFiniteSet(1..c) /\ Cardinality(1..c) = c
    <3>1. 1 \in Int /\ c \in Int /\ (IF 1 > c THEN 0 ELSE c - 1 + 1) = c
      BY <1>1
    <3> QED BY <3>1, FS_Interval
  <2>2. f \in Injection(1..c, S)
    BY <1>2 DEF Injection, IsInjective
  <2>3. f \in Surjection(1..c, S)
    BY <1>1, <2>1, <2>2, FS_Injection DEF c
  <2> QED BY <2>3 DEF Surjection
<1>6. Rag!PolicyDocuments(listed) \in Seq(Texts)
  <2>1. \A X, m : m \in Nat => \A h \in [1..m -> X] : h \in Seq(X)
    OBVIOUS
  <2>2. [i \in 1..c |-> text(i)] \in [1..c -> Texts]
    BY <1>4
  <2> QED BY <1>1, <1>3, <2>1, <2>2, Zenon
<1>7. ASSUME NEW n \in S
      PROVE  \E i \in DOMAIN Rag!PolicyDocuments(listed) :
               Rag!PolicyDocuments(listed)[i] = Rag!Document(n, listed[n], TRUE)
  <2>1. PICK i \in 1..c : f[i] = n
    BY <1>5
  <2>2. i \in DOMAIN [j \in 1..c |-> text(j)] /\ [j \in 1..c |-> text(j)][i] = text(i)
    OBVIOUS
  <2> QED BY <1>3, <2>1, <2>2
<1> QED BY <1>6, <1>7 DEF Listing

\* both is f and then h.
Concatenates(f, h, both) ==
  /\ h = <<>> => both = f
  /\ \A i \in DOMAIN f : i \in DOMAIN both /\ both[i] = f[i]
  /\ \A i \in DOMAIN h : Len(f) + i \in DOMAIN both /\ both[Len(f) + i] = h[i]

LEMMA ConcatenationHolds ==
  ASSUME NEW X, NEW f \in Seq(X), NEW h \in Seq(X)
  PROVE  Concatenates(f, h, f \o h) /\ f \o h \in Seq(X)
BY DEF Concatenates

\* What is in the index stays, and what is added is in it.
LEMMA AddKeeps ==
  ASSUME RagInv, NEW docs \in Seq(Texts), Rag!Add(docs)
  PROVE  /\ documents' \in Seq(Texts) /\ Indexed \subseteq Indexed'
         /\ \A i \in DOMAIN docs : docs[i] \in Indexed'
         /\ ~unindexed' /\ backend' # "none" => vectors' = [i \in DOMAIN documents' |-> documents'[i].sim]
<1>1. documents' = documents \o docs /\ documents \in Seq(Texts)
  BY DEF Rag!Add, RagInv
<1> DEFINE both == documents \o docs
<1>2. Concatenates(documents, docs, both) /\ both \in Seq(Texts)
  BY <1>1, ConcatenationHolds
<1>3. documents' = both
  BY <1>1
<1> HIDE DEF both
<1>4. /\ documents' \in Seq(Texts) /\ (docs = <<>> => documents' = documents)
      /\ \A i \in DOMAIN documents : i \in DOMAIN documents' /\ documents'[i] = documents[i]
      /\ \A i \in DOMAIN docs : Len(documents) + i \in DOMAIN documents'
                                /\ documents'[Len(documents) + i] = docs[i]
  BY <1>2, <1>3 DEF Concatenates
<1>5. Indexed \subseteq Indexed' /\ \A i \in DOMAIN docs : docs[i] \in Indexed'
  BY <1>4 DEF Indexed
<1>6. ASSUME ~unindexed', backend' # "none" PROVE vectors' = [i \in DOMAIN documents' |-> documents'[i].sim]
  <2>1. ~unindexed /\ docs = <<>> /\ backend # "none" /\ vectors' = vectors
    BY <1>6 DEF Rag!Add
  <2> QED BY <1>4, <2>1 DEF RagInv
<1> QED BY <1>4, <1>5, <1>6

\* After an ingestion every policy in force is in the index.
LEMMA IngestionKeeps ==
  ASSUME RetrievalAssumption, RagInv, DOMAIN policies' \subseteq Namespaces,
         \A n \in DOMAIN policies' : policies'[n] \in Wordings,
         Rag!Add(Rag!PolicyDocuments(policies'))
  PROVE  RagInv'
<1>1. Listing(Rag!PolicyDocuments(policies'), policies')
  BY PolicyDocumentsList
<1> DEFINE docs == Rag!PolicyDocuments(policies')
<1>2. /\ docs \in Seq(Texts)
      /\ \A n \in DOMAIN policies' : \E i \in DOMAIN docs : docs[i] = Rag!Document(n, policies'[n], TRUE)
  BY <1>1 DEF Listing
<1>3. /\ documents' \in Seq(Texts) /\ \A i \in DOMAIN docs : docs[i] \in Indexed'
      /\ ~unindexed' /\ backend' # "none" => vectors' = [i \in DOMAIN documents' |-> documents'[i].sim]
  BY <1>2, AddKeeps
<1> HIDE DEF docs
<1>4. \A n \in DOMAIN policies' : Rag!Document(n, policies'[n], TRUE) \in Indexed'
  BY <1>2, <1>3
<1> QED BY <1>3, <1>4 DEF RagInv, Rag!Document

\* Documents that are no policy's.
LEMMA OthersKeep ==
  ASSUME RagInv, NEW docs \in Seq(Texts), Rag!Add(docs), UNCHANGED <<policies, unheard>>
  PROVE  RagInv'
<1>1. /\ documents' \in Seq(Texts) /\ Indexed \subseteq Indexed'
      /\ ~unindexed' /\ backend' # "none" => vectors' = [i \in DOMAIN documents' |-> documents'[i].sim]
  BY AddKeeps
<1> QED BY <1>1 DEF RagInv, Rag!Document

LEMMA RagKeeps ==
  ASSUME RetrievalAssumption, RagInv, Rag!Next \/ UNCHANGED ragVars
  PROVE  RagInv'
<1>1. CASE Rag!SetPolicy
  <2>1. PICK n \in Namespaces, w \in Wordings :
          /\ policies' = [m \in DOMAIN policies \cup {n} |-> IF m = n THEN w ELSE policies[m]]
          /\ Rag!Add(Rag!PolicyDocuments(policies'))
    BY <1>1 DEF Rag!SetPolicy
  <2>2. DOMAIN policies' \subseteq Namespaces /\ \A m \in DOMAIN policies' : policies'[m] \in Wordings
    BY <2>1 DEF RagInv
  <2> QED BY <2>1, <2>2, IngestionKeeps
<1>2. CASE Rag!DeletePolicy
  <2>1. PICK n \in DOMAIN policies :
          /\ policies' = [m \in DOMAIN policies \ {n} |-> policies[m]]
          /\ Rag!Add(Rag!PolicyDocuments(policies'))
    BY <1>2 DEF Rag!DeletePolicy
  <2>2. DOMAIN policies' \subseteq Namespaces /\ \A m \in DOMAIN policies' : policies'[m] \in Wordings
    BY <2>1 DEF RagInv
  <2> QED BY <2>1, <2>2, IngestionKeeps
<1>3. CASE Rag!BoardAddsPolicy
  <2>1. PICK n \in Namespaces \ DOMAIN policies, w \in Wordings :
          /\ policies' = [m \in DOMAIN policies \cup {n} |-> IF m = n THEN w ELSE policies[m]]
          /\ unheard' = unheard \cup {n}
          /\ documents' = documents /\ vectors' = vectors /\ backend' = backend /\ unindexed' = unindexed
    BY <1>3 DEF Rag!BoardAddsPolicy
  <2>2. DOMAIN policies' \subseteq Namespaces /\ \A m \in DOMAIN policies' : policies'[m] \in Wordings
    BY <2>1 DEF RagInv
  <2>3. \A m \in DOMAIN policies' \ unheard' : m \in DOMAIN policies \ unheard /\ policies'[m] = policies[m]
    BY <2>1
  <2>4. Indexed' = Indexed
    BY <2>1 DEF Indexed
  <2>5. \A m \in DOMAIN policies' \ unheard' : Rag!Document(m, policies'[m], TRUE) \in Indexed'
    BY <2>3, <2>4 DEF RagInv
  <2> QED BY <2>1, <2>2, <2>5 DEF RagInv, Rag!Document
<1>4. CASE Rag!IngestPolicies
  <2>1. policies' = policies /\ Rag!Add(Rag!PolicyDocuments(policies))
    BY <1>4 DEF Rag!IngestPolicies
  <2>2. DOMAIN policies' \subseteq Namespaces /\ \A m \in DOMAIN policies' : policies'[m] \in Wordings
    BY <2>1 DEF RagInv
  <2> QED BY <2>1, <2>2, IngestionKeeps
<1>5. CASE Rag!Upload
  <2>1. PICK sort \in {"pdf", "txt"}, home \in BOOLEAN : \E text \in Rag!Extracted(sort) :
          /\ Rag!Add([i \in DOMAIN text |-> Rag!Document("file", text[i], home)])
          /\ UNCHANGED <<policies, unheard>>
    BY <1>5 DEF Rag!Upload
  <2>2. PICK text \in Rag!Extracted(sort) :
          /\ Rag!Add([i \in DOMAIN text |-> Rag!Document("file", text[i], home)])
          /\ UNCHANGED <<policies, unheard>>
    BY <2>1
  <2> DEFINE docs == [i \in DOMAIN text |-> Rag!Document("file", text[i], home)]
  <2>3. text \in Seq(Wordings)
    <3>1. text = <<>> \/ \E w \in Wordings : text = <<w>>
      BY <2>2, Zenon DEF Rag!Extracted
    <3>2. \A X : <<>> \in Seq(X) /\ \A e \in X : <<e>> \in Seq(X)
      OBVIOUS
    <3> QED BY <3>1, <3>2, Zenon
  <2>4. docs \in Seq(Texts)
    <3>1. Len(text) \in Nat /\ DOMAIN text = 1..Len(text) /\ \A i \in 1..Len(text) : text[i] \in Wordings
      BY <2>3
    <3>2. \A i \in 1..Len(text) : Rag!Document("file", text[i], home) \in Texts
      BY <3>1, TextsHold, Zenon
    <3>3. \A X, m : m \in Nat => \A h \in [1..m -> X] : h \in Seq(X)
      OBVIOUS
    <3>4. docs \in [1..Len(text) -> Texts]
      BY <3>1, <3>2
    <3> QED BY <3>1, <3>3, <3>4, Zenon
  <2> QED BY <2>2, <2>4, OthersKeep
<1>6. CASE Rag!IngestTriples
  <2>1. PICK w \in Wordings :
          Rag!Add(<<Rag!Document("triple", w, FALSE)>>) /\ UNCHANGED <<policies, unheard>>
    BY <1>6 DEF Rag!IngestTriples
  <2>2. Rag!Document("triple", w, FALSE) \in Texts
    BY TextsHold, Zenon
  <2>3. \A X : \A e \in X : <<e>> \in Seq(X)
    OBVIOUS
  <2> QED BY <2>1, <2>2, <2>3, OthersKeep
<1>7. CASE Rag!Search
  <2>1. /\ policies' = policies /\ documents' = documents /\ unheard' = unheard
        /\ \/ vectors' = [i \in DOMAIN documents |-> documents[i].sim]
           \/ backend' = "none"
    BY <1>7 DEF Rag!Search, Rag!Rebuild
  <2>2. Indexed' = Indexed
    BY <2>1 DEF Indexed
  <2> QED BY <2>1, <2>2 DEF RagInv, Rag!Document
<1>8. CASE UNCHANGED ragVars
  BY <1>8 DEF ragVars, RagInv, Indexed, Rag!Document
<1> QED BY <1>1, <1>2, <1>3, <1>4, <1>5, <1>6, <1>7, <1>8 DEF Rag!Next

LEMMA RagStarts ==
  ASSUME RetrievalAssumption, Rag!Init
  PROVE  RagInv
<1>1. policies = OnDisk /\ documents = Rag!PolicyDocuments(policies) /\ unindexed = TRUE
  BY DEF Rag!Init
<1>2. DOMAIN policies \subseteq Namespaces /\ \A n \in DOMAIN policies : policies[n] \in Wordings
  BY <1>1 DEF RetrievalAssumption
<1>3. Listing(documents, policies)
  BY <1>1, <1>2, PolicyDocumentsList
<1> QED BY <1>1, <1>2, <1>3 DEF RagInv, Listing, Indexed

LEMMA RagShown ==
  ASSUME RetrievalAssumption, RagInv
  PROVE  Rag!BestMatchIsHeard
<1> SUFFICES ASSUME ~unindexed /\ backend # "none",
                    NEW n \in DOMAIN policies \ unheard, NEW domain \in Rag!QueryDomains,
                    LET doc == Rag!Document(n, policies[n], TRUE)
                    IN  doc.sim >= Rag!MinScore /\ Rag!BestMatch(doc)
             PROVE  LET doc == Rag!Document(n, policies[n], TRUE) IN
                    /\ Rag!Heard(Rag!Retrieve(TopK, domain), doc)
                    /\ ~Rag!Superseded(doc) =>
                         \A g \in 0..2 * TopK, s \in 0..TopK :
                           /\ g < TopK \/ 2 * TopK <= Rag!Unbeaten
                                => Rag!Heard(Rag!Hybrid(TopK, domain, g), doc)
                           /\ \/ s + g < TopK
                              \/ s < TopK /\ 4 * TopK <= Rag!Unbeaten
                              \/ g = 0 /\ doc.sim * 1000 > Rag!Equation
                                => Rag!Heard(Rag!Augmented(TopK, domain, g, s), doc)
  BY Zenon DEF Rag!BestMatchIsHeard
<1> DEFINE doc == Rag!Document(n, policies[n], TRUE)
<1>1. Vectored
  BY DEF RagInv, Vectored
<1>2. Matches(doc) /\ doc \in Indexed
  BY DEF RagInv, Matches, Rag!Document
<1>3. TopK \in Nat \ {0}
  BY DEF RetrievalAssumption
<1> HIDE DEF doc
<1>4. Rag!Heard(Rag!Retrieve(TopK, domain), doc)
  <2>1. PICK x \in Int : Best(Rag!Vector(TopK, domain), doc, x)
    BY <1>1, <1>2, <1>3, VectorIsBest
  <2>2. Rag!Vector(TopK, domain) \in Results(Indexed)
    BY <1>1, <1>2, <1>3, VectorIsBest
  <2> QED BY <1>3, <2>1, <2>2, FirstOfBest DEF Rag!Retrieve
<1>5. ASSUME ~Rag!Superseded(doc), NEW g \in 0..2 * TopK, NEW s \in 0..TopK
      PROVE  /\ g < TopK \/ 2 * TopK <= Rag!Unbeaten
                  => Rag!Heard(Rag!Hybrid(TopK, domain, g), doc)
             /\ \/ s + g < TopK
                \/ s < TopK /\ 4 * TopK <= Rag!Unbeaten
                \/ g = 0 /\ doc.sim * 1000 > Rag!Equation
                  => Rag!Heard(Rag!Augmented(TopK, domain, g, s), doc)
  <2>1. Sole(doc)
    BY <1>1, <1>2, <1>5, BestIsSole
  <2>2. g \in Nat /\ s \in Nat
    BY <1>3
  <2>3. PICK p \in Nat : /\ 1 <= p /\ p <= 1 + g
                         /\ 2 * TopK <= Rag!Unbeaten => p = 1
                         /\ p <= TopK => Within(Rag!Hybrid(TopK, domain, g), doc, p)
    BY <1>1, <1>2, <1>3, <2>1, <2>2, HybridPlace
  <2>4. ASSUME g < TopK \/ 2 * TopK <= Rag!Unbeaten PROVE Rag!Heard(Rag!Hybrid(TopK, domain, g), doc)
    <3>1. p <= TopK
      BY <1>3, <2>2, <2>3, <2>4
    <3> QED BY <2>3, <3>1, WithinIsHeard
  <2> QED BY <1>1, <1>2, <1>3, <2>1, <2>2, <2>4, AugmentedHears
<1> QED BY <1>4, <1>5 DEF doc

\* RagIndex: after any history of edits, uploads and rebuilds, the policy that matches
\* the query best is among the results of each of the three retrievals of
\* rag_service.py, but where an older version has its id, symbolic results take every
\* place, or more of its copies than Unbeaten rank it behind the graph's results.
THEOREM BestMatchesAreHeard == StoresSpec => []BestMatchIsHeard
<1> USE RetrievalAssumption
<1>1. StoresInit => RagInv
  BY RagStarts DEF StoresInit
<1>2. RagInv /\ [StoresNext]_storeVars => RagInv'
  <2> SUFFICES ASSUME RagInv, [StoresNext]_storeVars PROVE RagInv'
    OBVIOUS
  <2>1. CASE StoresNext
    <3>1. Rag!Next \/ UNCHANGED ragVars
      <4>1. CASE RagStep
        BY <4>1 DEF RagStep
      <4>2. CASE ~RagStep
        BY <2>1, <4>2, Zenon DEF StoresNext, OthersRest, Rests, ResultsStep, PosteriorsStep, MemoryStep,
           OracleStep, WorldStep, RagStep, ExperienceStep, DataStep, CausalStep, RulesStep, ReportsStep,
           FeedbackStep, ConvergenceStep, LogsStep, RouterStep
      <4> QED BY <4>1, <4>2
    <3> QED BY <3>1, RagKeeps
  <2>2. CASE UNCHANGED storeVars
    <3>1. UNCHANGED ragVars
      BY <2>2 DEF storeVars
    <3> QED BY <3>1, RagKeeps
  <2> QED BY <2>1, <2>2
<1>3. RagInv => BestMatchIsHeard
  BY RagShown DEF BestMatchIsHeard
<1> QED BY <1>1, <1>2, <1>3, PTL DEF StoresSpec
===============================================================================
