----------------------------- MODULE EvidenceProofs -----------------------------
(***************************************************************************)
(* Proofs about the causal analyses that share an engine (CausalEngine):   *)
(* each is answered from its own hypothesis and data, whichever caches,    *)
(* retries and failures came between, and what it saved is read back; and  *)
(* about the causal world model (WorldModel): its counterfactuals are      *)
(* Pearl's, in whatever order its equations came; and about the reports on *)
(* one request (Reports): they agree, and better evidence never hurts.     *)
(***************************************************************************)
EXTENDS StoresProofs

-----------------------------------------------------------------------------
(* The caches of the engine *)

Entries(s) == {s[i] : i \in DOMAIN s}

\* A sequence is one of its own entries.
LEMMA EntriesOfSequences ==
  ASSUME NEW E, NEW s \in Seq(E)
  PROVE  Entries(s) \subseteq E /\ s \in Seq(Entries(s))
<1>1. Entries(s) \subseteq E
  BY DEF Entries
<1>2. Len(s) \in Nat /\ s \in [1..Len(s) -> Entries(s)]
  BY DEF Entries
<1>3. \A S, n : n \in Nat => \A f \in [1..n -> S] : f \in Seq(S)
  OBVIOUS
<1>4. s \in Seq(Entries(s))
  BY <1>2, <1>3, Zenon
<1> QED
  BY <1>1, <1>4

\* The engine's caches are those of LruCache.
LEMMA CausalOperations ==
  ASSUME NEW c, NEW k, NEW e, NEW n
  PROVE  /\ Causal!CachedKeys(c) = CachedKeys(c) /\ Causal!Entry(c, k) = Entry(c, k)
         /\ Causal!Touch(c, k) = Touch(c, k) /\ Causal!Assign(c, e) = Assign(c, e)
         /\ Causal!EvictTo(c, n) = EvictTo(c, n)
BY DEF Causal!CachedKeys, CachedKeys, Causal!Entry, Entry, Causal!Place, Place,
       Causal!Touch, Touch, Causal!Without, Without, Causal!Assign, Assign, Causal!EvictTo, EvictTo

\* A cache holds what it held, and what is stored.
LEMMA StoredEntries ==
  ASSUME CausalAssumption, NEW c, c \in Seq(Entries(c)), NEW k, NEW v
  PROVE  /\ Causal!Stored(c, k, v) \in Seq(Entries(Causal!Stored(c, k, v)))
         /\ Entries(Causal!Stored(c, k, v)) \subseteq Entries(c) \cup {[key |-> k, value |-> v]}
<1> DEFINE e == [key |-> k, value |-> v]
           E == Entries(c) \cup {e}
<1> HIDE DEF e
<1>1. c \in Seq(E)
  OBVIOUS
<1> HIDE DEF E
<1>2. MaxCached \in Nat \ {0}
  BY DEF CausalAssumption
<1>3. EvictTo(c, MaxCached) \in Seq(E)
  BY <1>1, <1>2, EvictionKeepsEntries
<1>4. e \in E
  BY DEF E
<1>5. Assign(EvictTo(c, MaxCached), e) \in Seq(E)
  BY <1>3, <1>4, InsertionKeepsEntries
<1>6. Causal!Stored(c, k, v) = Assign(EvictTo(c, MaxCached), e)
  BY CausalOperations DEF Causal!Stored, e
<1>7. Causal!Stored(c, k, v) \in Seq(E)
  BY <1>5, <1>6
<1> QED
  BY <1>7, EntriesOfSequences DEF E, e

LEMMA TouchedEntries ==
  ASSUME NEW c, c \in Seq(Entries(c)), NEW k \in Causal!CachedKeys(c)
  PROVE  /\ Causal!Touch(c, k) \in Seq(Entries(Causal!Touch(c, k)))
         /\ Entries(Causal!Touch(c, k)) \subseteq Entries(c)
         /\ Causal!Entry(c, k) \in Entries(c) /\ Causal!Entry(c, k).key = k
<1>1. Causal!Touch(c, k) = Touch(c, k) /\ Causal!Entry(c, k) = Entry(c, k) /\ k \in CachedKeys(c)
  BY CausalOperations
<1>2. Touch(c, k) \in Seq(Entries(c))
  BY <1>1, RemovalKeepsEntries
<1>3. Entry(c, k) \in Entries(c) /\ Entry(c, k).key = k
  BY <1>1, PlaceHoldsKey DEF Entries
<1> QED
  BY <1>1, <1>2, <1>3, EntriesOfSequences

LEMMA TailEntries ==
  ASSUME NEW E, NEW c \in Seq(E), c # <<>>
  PROVE  Tail(c) \in Seq(Entries(Tail(c))) /\ Entries(Tail(c)) \subseteq Entries(c)
<1>1. c \in Seq(Entries(c))
  BY EntriesOfSequences
<1>2. Tail(c) \in Seq(Entries(c))
  BY <1>1
<1> QED
  BY <1>2, EntriesOfSequences

-----------------------------------------------------------------------------
(* Evidence *)

Progress == {"idle", "asking", "waiting", "asking again", "pausing", "saving", "done",
             "failed", "tested"}
Asks == [query : Queries, context : Contexts]

\* A proposal for a request, and an estimate for a hypothesis and a configuration.
ProposedFor(ask, p) == ask \in Asks /\ p \in Proposals[ask.query] \cup {Causal!Unknown}
EstimateOf(h, configs, v) ==
  /\ v.hypothesis = h
  /\ \E c \in configs :
       /\ \E e \in 0..edition : v.data = Causal!ContentAt(c, e)
       /\ v.adjusted = Causal!Adjustment(c, h)

\* Every entry of a cache answers its key.
EntriesAnswer ==
  /\ proposed \in Seq(Entries(proposed)) /\ estimated \in Seq(Entries(estimated))
  /\ \A x \in Entries(proposed) : ProposedFor(x.key, x.value)
  /\ \A x \in Entries(estimated) : EstimateOf(x.key[1], x.key[2], x.value)

\* What a request has so far is its own.
OwnSoFar(r) ==
  /\ progress[r] \notin {"idle", "tested"} => request[r] \in Asks
  /\ progress[r] \in {"pausing", "saving", "done"} => ProposedFor(request[r], proposal[r])
  /\ progress[r] \in {"saving", "done"} =>
       EstimateOf(proposal[r].hypothesis, Causal!ParsedConfig(request[r].context), result[r])

CausalTypes ==
  /\ progress \in [Engines -> Progress] /\ edition \in Nat
  /\ request = [r \in Engines |-> request[r]] /\ proposal = [r \in Engines |-> proposal[r]]
  /\ result = [r \in Engines |-> result[r]] /\ statements = [r \in Engines |-> statements[r]]

EvidenceInv == CausalTypes /\ EntriesAnswer /\ \A r \in Engines : OwnSoFar(r)

\* An estimate of an attempt is one of the hypothesis and the configuration.
LEMMA ResultIsEstimate ==
  ASSUME CausalTypes, NEW h, NEW configs, NEW c \in configs, NEW report \in Reports
  PROVE  EstimateOf(h, configs, Causal!Result(h, c, report))
<1> DEFINE v == Causal!Result(h, c, report)
<1>1. /\ v.hypothesis = h
      /\ v.data = Causal!Content(c) /\ v.adjusted = Causal!Adjustment(c, h)
  BY DEF Causal!Result
<1>2. v.data = Causal!ContentAt(c, edition) /\ edition \in 0..edition
  BY <1>1 DEF Causal!Content, CausalTypes
<1> HIDE DEF v
<1>3. \E e \in 0..edition : v.data = Causal!ContentAt(c, e)
  BY <1>2
<1>4. EstimateOf(h, configs, v)
  BY <1>1, <1>3 DEF EstimateOf
<1> QED
  BY <1>4 DEF v

\* An estimate stays one, though the file be rewritten.
LEMMA EstimatesLast ==
  ASSUME edition \in Nat, edition' \in Nat, edition <= edition', NEW h, NEW configs, NEW v, EstimateOf(h, configs, v)
  PROVE  EstimateOf(h, configs, v)'
<1>1. 0..edition \subseteq 0..edition'
  OBVIOUS
<1> QED
  BY <1>1 DEF EstimateOf

\* What an attempt leaves.
AttemptLeft(r, h) ==
  /\ \E v : result' = [result EXCEPT ![r] = v]
  /\ \E s : statements' = [statements EXCEPT ![r] = s]
  /\ \E q \in {"saving", "done", "pausing", "failed"} :
       /\ progress' = [progress EXCEPT ![r] = q]
       /\ q \in {"saving", "done"} =>
            /\ EstimateOf(h, Causal!ParsedConfig(request'[r].context), result'[r])
            /\ statements'[r] = Causal!Statements(proposal'[r].graph)
  /\ estimated' \in Seq(Entries(estimated'))
  /\ \A x \in Entries(estimated') : EstimateOf(x.key[1], x.key[2], x.value)

LEMMA AttemptKeeps ==
  ASSUME CausalAssumption, CausalTypes, EntriesAnswer,
         NEW r \in Engines, NEW h, NEW n \in {1, 2}, UNCHANGED edition,
         request'[r] \in Asks,
         NEW c \in Causal!ParsedConfig(request'[r].context), Causal!Attempt(r, h, c, n)
  PROVE  AttemptLeft(r, h)
<1> USE DEF CausalTypes
<1>1. ASSUME NEW report \in Reports,
             Causal!Persist(r, Causal!Result(h, c, report)),
             estimated' = Causal!Stored(estimated, Causal!EstimateKey(r, h), Causal!Result(h, c, report))
      PROVE  /\ \E v : result' = [result EXCEPT ![r] = v]
             /\ \E s : statements' = [statements EXCEPT ![r] = s]
             /\ \E q \in {"saving", "done"} : progress' = [progress EXCEPT ![r] = q]
             /\ EstimateOf(h, Causal!ParsedConfig(request'[r].context), result'[r])
             /\ statements'[r] = Causal!Statements(proposal'[r].graph)
             /\ estimated' \in Seq(Entries(estimated'))
             /\ \A x \in Entries(estimated') : EstimateOf(x.key[1], x.key[2], x.value)
  <2> DEFINE v == Causal!Result(h, c, report)
             k == Causal!EstimateKey(r, h)
  <2>1. k[1] = h /\ k[2] = Causal!ParsedConfig(request'[r].context)
    BY DEF Causal!EstimateKey
  <2>2. EstimateOf(h, Causal!ParsedConfig(request'[r].context), v)
    BY ResultIsEstimate
  <2>3. /\ estimated' \in Seq(Entries(estimated'))
        /\ Entries(estimated') \subseteq Entries(estimated) \cup {[key |-> k, value |-> v]}
    BY <1>1, StoredEntries DEF EntriesAnswer
  <2> HIDE DEF v, k
  <2>4. \A x \in Entries(estimated') : EstimateOf(x.key[1], x.key[2], x.value)
    BY <2>1, <2>2, <2>3 DEF EntriesAnswer
  <2>5. result' = [result EXCEPT ![r] = v] /\ result'[r] = v
    BY <1>1 DEF Causal!Persist, v
  <2>6. /\ \E s : statements' = [statements EXCEPT ![r] = s]
        /\ statements'[r] = Causal!Statements(proposal'[r].graph)
        /\ \E q \in {"saving", "done"} : progress' = [progress EXCEPT ![r] = q]
    BY <1>1 DEF Causal!Persist
  <2> QED
    BY <2>2, <2>3, <2>4, <2>5, <2>6
<1>2. ASSUME progress' = [progress EXCEPT ![r] = IF n = 1 THEN "pausing" ELSE "failed"],
             UNCHANGED <<result, statements, estimated>>
      PROVE  /\ \E v : result' = [result EXCEPT ![r] = v]
             /\ \E s : statements' = [statements EXCEPT ![r] = s]
             /\ \E q \in {"pausing", "failed"} : progress' = [progress EXCEPT ![r] = q]
             /\ estimated' \in Seq(Entries(estimated'))
             /\ \A x \in Entries(estimated') : EstimateOf(x.key[1], x.key[2], x.value)
  <2>1. result' = [result EXCEPT ![r] = result[r]] /\ statements' = [statements EXCEPT ![r] = statements[r]]
    BY <1>2
  <2>2. \E q \in {"pausing", "failed"} : progress' = [progress EXCEPT ![r] = q]
    BY <1>2
  <2> QED
    BY <1>2, <2>1, <2>2 DEF EntriesAnswer
<1> QED
  BY <1>1, <1>2 DEF Causal!Attempt, AttemptLeft

\* A request, once its hypothesis is known, has its own evidence, or none; what it
\* found is what will be saved, and the rest is left alone.
Known(r) ==
  /\ CausalTypes' /\ OwnSoFar(r)'
  /\ \A d \in Engines \ {r} :
       /\ progress'[d] = progress[d] /\ proposal'[d] = proposal[d]
       /\ result'[d] = result[d] /\ statements'[d] = statements[d]
  /\ progress'[r] \in {"saving", "done"} => statements'[r] = Causal!Statements(proposal'[r].graph)
  /\ estimated' \in Seq(Entries(estimated'))
  /\ \A x \in Entries(estimated') : EstimateOf(x.key[1], x.key[2], x.value)'

\* What EXCEPT changes of a function of the requests.
LEMMA OneChanges ==
  ASSUME NEW r \in Engines, NEW f, f = [d \in Engines |-> f[d]], NEW g, NEW v, g = [f EXCEPT ![r] = v]
  PROVE  g = [d \in Engines |-> g[d]] /\ g[r] = v /\ \A d \in Engines \ {r} : g[d] = f[d]
OBVIOUS

LEMMA AttemptIsKnown ==
  ASSUME CausalAssumption, CausalTypes, EntriesAnswer, UNCHANGED edition,
         NEW r \in Engines, NEW n \in {1, 2},
         request' = [d \in Engines |-> request'[d]], request'[r] \in Asks,
         proposal' = [d \in Engines |-> proposal'[d]],
         \A d \in Engines \ {r} : proposal'[d] = proposal[d],
         ProposedFor(request'[r], proposal'[r]),
         NEW c \in Causal!ParsedConfig(request'[r].context),
         Causal!Attempt(r, proposal'[r].hypothesis, c, n)
  PROVE  Known(r)
<1>0. AttemptLeft(r, proposal'[r].hypothesis)
  BY AttemptKeeps
<1>1. /\ result' = [d \in Engines |-> result'[d]] /\ statements' = [d \in Engines |-> statements'[d]]
      /\ \A d \in Engines \ {r} : result'[d] = result[d] /\ statements'[d] = statements[d]
  BY <1>0, OneChanges DEF CausalTypes, AttemptLeft
<1>2. PICK q \in {"saving", "done", "pausing", "failed"} :
        /\ progress' = [progress EXCEPT ![r] = q]
        /\ q \in {"saving", "done"} =>
             /\ EstimateOf(proposal'[r].hypothesis, Causal!ParsedConfig(request'[r].context), result'[r])
             /\ statements'[r] = Causal!Statements(proposal'[r].graph)
  BY <1>0 DEF AttemptLeft
<1>3. /\ progress' \in [Engines -> Progress] /\ progress'[r] = q
      /\ \A d \in Engines \ {r} : progress'[d] = progress[d]
  BY <1>2 DEF CausalTypes, Progress
<1>4. CausalTypes'
  BY <1>1, <1>3 DEF CausalTypes
<1>5. \A h, configs, v : EstimateOf(h, configs, v)' <=> EstimateOf(h, configs, v)
  BY DEF EstimateOf
<1>6. OwnSoFar(r)'
  BY <1>2, <1>3, <1>5 DEF OwnSoFar, ProposedFor, EstimateOf
<1>7. /\ estimated' \in Seq(Entries(estimated'))
      /\ \A x \in Entries(estimated') : EstimateOf(x.key[1], x.key[2], x.value)'
  BY <1>0, <1>5 DEF AttemptLeft
<1> QED
  BY <1>1, <1>2, <1>3, <1>4, <1>6, <1>7 DEF Known

LEMMA EstimateIsKnown ==
  ASSUME CausalAssumption, CausalTypes, EntriesAnswer, UNCHANGED edition,
         NEW r \in Engines, request' = [d \in Engines |-> request'[d]], request'[r] \in Asks,
         NEW p, ProposedFor(request'[r], p), Causal!EstimateEffect(r, p)
  PROVE  Known(r)
<1> DEFINE key == Causal!EstimateKey(r, p.hypothesis)
           configs == Causal!ParsedConfig(request'[r].context)
<1>1. proposal' = [proposal EXCEPT ![r] = p]
  BY DEF Causal!EstimateEffect
<1>2. /\ proposal' = [d \in Engines |-> proposal'[d]] /\ proposal'[r] = p
      /\ \A d \in Engines \ {r} : proposal'[d] = proposal[d]
  BY <1>1, OneChanges DEF CausalTypes
<1>3. key = <<p.hypothesis, configs>>
  BY DEF Causal!EstimateKey
<1>4. \A h, c, v : EstimateOf(h, c, v)' <=> EstimateOf(h, c, v)
  BY DEF EstimateOf
<1>5. ASSUME key \in Causal!CachedKeys(estimated),
             Causal!Persist(r, Causal!Entry(estimated, key).value),
             estimated' = Causal!Touch(estimated, key)
      PROVE  Known(r)
  <2> DEFINE x == Causal!Entry(estimated, key)
  <2>1. /\ estimated' \in Seq(Entries(estimated')) /\ Entries(estimated') \subseteq Entries(estimated)
        /\ x \in Entries(estimated) /\ x.key = key
    BY <1>5, TouchedEntries DEF EntriesAnswer
  <2> HIDE DEF x, key
  <2>2. EstimateOf(key[1], key[2], x.value)
    BY <2>1 DEF EntriesAnswer
  <2>3. EstimateOf(p.hypothesis, configs, x.value)
    BY <1>3, <2>2
  <2>4. /\ result' = [result EXCEPT ![r] = x.value]
        /\ statements' = [statements EXCEPT ![r] = Causal!Statements(proposal'[r].graph)]
        /\ \E q \in {"saving", "done"} : progress' = [progress EXCEPT ![r] = q]
    BY <1>5 DEF Causal!Persist, x
  <2>5. /\ result' = [d \in Engines |-> result'[d]] /\ result'[r] = x.value
        /\ \A d \in Engines \ {r} : result'[d] = result[d]
        /\ statements' = [d \in Engines |-> statements'[d]]
        /\ statements'[r] = Causal!Statements(proposal'[r].graph)
        /\ \A d \in Engines \ {r} : statements'[d] = statements[d]
    BY <2>4, OneChanges DEF CausalTypes
  <2>6. /\ progress' \in [Engines -> Progress] /\ progress'[r] \in {"saving", "done"}
        /\ \A d \in Engines \ {r} : progress'[d] = progress[d]
    BY <2>4 DEF CausalTypes, Progress
  <2>7. CausalTypes'
    BY <1>2, <2>5, <2>6 DEF CausalTypes
  <2>8. OwnSoFar(r)'
    <3>1. ProposedFor(request[r], proposal[r])'
      BY <1>2 DEF ProposedFor
    <3>2. EstimateOf(proposal[r].hypothesis, Causal!ParsedConfig(request[r].context), result[r])'
      BY <1>2, <1>4, <2>3, <2>5 DEF EstimateOf
    <3> QED
      BY <2>6, <3>1, <3>2 DEF OwnSoFar
  <2>9. \A y \in Entries(estimated') : EstimateOf(y.key[1], y.key[2], y.value)'
    BY <1>4, <2>1 DEF EntriesAnswer
  <2> QED
    BY <1>2, <2>1, <2>5, <2>6, <2>7, <2>8, <2>9 DEF Known
<1>6. ASSUME progress' = [progress EXCEPT ![r] = "failed"], UNCHANGED <<result, statements, estimated>>
      PROVE  Known(r)
  <2>1. /\ progress' \in [Engines -> Progress] /\ progress'[r] = "failed"
        /\ \A d \in Engines \ {r} : progress'[d] = progress[d]
    BY <1>6 DEF CausalTypes, Progress
  <2>2. CausalTypes'
    BY <1>2, <1>6, <2>1 DEF CausalTypes
  <2>3. OwnSoFar(r)'
    BY <2>1 DEF OwnSoFar
  <2>4. \A y \in Entries(estimated') : EstimateOf(y.key[1], y.key[2], y.value)'
    BY <1>4, <1>6 DEF EntriesAnswer
  <2> QED
    BY <1>2, <1>6, <2>1, <2>2, <2>3, <2>4 DEF Known, EntriesAnswer
<1>7. ASSUME NEW c \in configs, Causal!Attempt(r, p.hypothesis, c, 1) PROVE Known(r)
  <2>1. ProposedFor(request'[r], proposal'[r]) /\ Causal!Attempt(r, proposal'[r].hypothesis, c, 1)
    BY <1>2, <1>7
  <2> QED
    BY <1>2, <2>1, AttemptIsKnown
<1> QED
  BY <1>5, <1>6, <1>7 DEF Causal!EstimateEffect

\* Asking for a hypothesis again leaves everything else.
LEMMA AskingIsKnown ==
  ASSUME CausalTypes, EntriesAnswer, UNCHANGED <<edition, proposal, result, statements, estimated>>,
         NEW r \in Engines, request' = [d \in Engines |-> request'[d]], request'[r] \in Asks,
         NEW q \in {"asking", "asking again", "waiting", "failed"},
         progress' = [progress EXCEPT ![r] = q]
  PROVE  Known(r)
<1>1. /\ progress' \in [Engines -> Progress] /\ progress'[r] = q
      /\ \A d \in Engines \ {r} : progress'[d] = progress[d]
  BY DEF CausalTypes, Progress
<1>2. CausalTypes'
  BY <1>1 DEF CausalTypes
<1>3. OwnSoFar(r)'
  BY <1>1 DEF OwnSoFar
<1>4. \A h, c, v : EstimateOf(h, c, v)' <=> EstimateOf(h, c, v)
  BY DEF EstimateOf
<1>5. \A y \in Entries(estimated') : EstimateOf(y.key[1], y.key[2], y.value)'
  BY <1>4 DEF EntriesAnswer
<1> QED
  BY <1>1, <1>2, <1>3, <1>5 DEF Known, EntriesAnswer

\* A request's hypothesis is its own, from the cache or from the language model.
KnownProposals ==
  /\ proposed \in Seq(Entries(proposed))
  /\ \A x \in Entries(proposed) : ProposedFor(x.key, x.value)

LEMMA LookUpIsKnown ==
  ASSUME CausalAssumption, CausalTypes, EntriesAnswer, UNCHANGED edition,
         NEW r \in Engines, request' = [d \in Engines |-> request'[d]], request'[r] \in Asks,
         Causal!LookUp(r)
  PROVE  Known(r) /\ KnownProposals'
<1> DEFINE key == request'[r]
<1>1. ASSUME key \in Causal!CachedKeys(proposed), proposed' = Causal!Touch(proposed, key),
             Causal!EstimateEffect(r, Causal!Entry(proposed, key).value)
      PROVE  Known(r) /\ KnownProposals'
  <2> DEFINE x == Causal!Entry(proposed, key)
  <2>1. /\ proposed' \in Seq(Entries(proposed')) /\ Entries(proposed') \subseteq Entries(proposed)
        /\ x \in Entries(proposed) /\ x.key = key
    BY <1>1, TouchedEntries DEF EntriesAnswer
  <2>2. Causal!EstimateEffect(r, x.value)
    BY <1>1
  <2> HIDE DEF x
  <2>3. ProposedFor(key, x.value)
    BY <2>1 DEF EntriesAnswer
  <2>4. Known(r)
    BY <2>2, <2>3, EstimateIsKnown
  <2>5. KnownProposals'
    BY <2>1 DEF EntriesAnswer, KnownProposals, ProposedFor
  <2> QED
    BY <2>4, <2>5
<1>2. ASSUME progress' = [progress EXCEPT ![r] = IF @ = "idle" THEN "asking" ELSE "asking again"],
             UNCHANGED <<proposal, result, statements, proposed, estimated>>
      PROVE  Known(r) /\ KnownProposals'
  <2>1. \E q \in {"asking", "asking again", "waiting", "failed"} : progress' = [progress EXCEPT ![r] = q]
    BY <1>2
  <2>2. Known(r)
    BY <1>2, <2>1, AskingIsKnown
  <2> QED
    BY <1>2, <2>2 DEF KnownProposals, EntriesAnswer, ProposedFor
<1> QED
  BY <1>1, <1>2 DEF Causal!LookUp

\* A step of a request's analysis moves that request, and nothing in Neo4j.
Analyzing(r) ==
  Causal!Analyze(r) \/ Causal!Answered(r) \/ Causal!AskingFails(r) \/ Causal!AskAgain(r) \/ Causal!Retry(r)

LEMMA AnalyzingIsKnown ==
  ASSUME CausalAssumption, EvidenceInv, NEW r \in Engines, Analyzing(r)
  PROVE  /\ Known(r) /\ KnownProposals' /\ progress[r] \notin {"saving", "done"}
         /\ \A d \in Engines \ {r} : request'[d] = request[d]
         /\ UNCHANGED <<edition, db>>
<1> USE DEF EvidenceInv
<1>1. ASSUME Causal!Analyze(r)
      PROVE  /\ Known(r) /\ KnownProposals' /\ progress[r] = "idle"
             /\ \A d \in Engines \ {r} : request'[d] = request[d]
             /\ UNCHANGED <<edition, db>>
  <2>1. PICK ask \in Asks : request' = [request EXCEPT ![r] = ask]
    BY <1>1 DEF Causal!Analyze, Asks
  <2>2. /\ request' = [d \in Engines |-> request'[d]] /\ request'[r] \in Asks
        /\ \A d \in Engines \ {r} : request'[d] = request[d]
    BY <2>1, OneChanges DEF CausalTypes
  <2>3. Causal!LookUp(r) /\ UNCHANGED <<edition, db>> /\ progress[r] = "idle"
    BY <1>1 DEF Causal!Analyze
  <2> QED
    BY <2>2, <2>3, LookUpIsKnown
<1>2. ASSUME UNCHANGED request, progress[r] \notin {"idle", "tested"}
      PROVE  request' = [d \in Engines |-> request'[d]] /\ request'[r] \in Asks
  BY <1>2 DEF CausalTypes, OwnSoFar
<1>3. ASSUME Causal!Answered(r)
      PROVE  /\ Known(r) /\ KnownProposals' /\ progress[r] \notin {"saving", "done"}
             /\ UNCHANGED <<request, edition, db>>
  <2>1. progress[r] \in {"asking", "asking again"} /\ UNCHANGED <<request, edition, db>>
    BY <1>3 DEF Causal!Answered
  <2>2. PICK p \in Proposals[request[r].query] \cup {Causal!Unknown} :
          proposed' = Causal!Stored(proposed, request[r], p) /\ Causal!EstimateEffect(r, p)
    BY <1>3 DEF Causal!Answered
  <2>3. request' = [d \in Engines |-> request'[d]] /\ request'[r] \in Asks
    BY <1>2, <2>1
  <2>4. ProposedFor(request'[r], p) /\ request'[r] = request[r]
    BY <2>1, <2>2, <2>3 DEF ProposedFor
  <2>5. Known(r)
    BY <2>1, <2>2, <2>3, <2>4, EstimateIsKnown
  <2>6. KnownProposals'
    BY <2>2, <2>4, StoredEntries DEF EntriesAnswer, KnownProposals, ProposedFor
  <2> QED
    BY <2>1, <2>5, <2>6
<1>4. ASSUME Causal!AskingFails(r)
      PROVE  /\ Known(r) /\ KnownProposals' /\ progress[r] \notin {"saving", "done"}
             /\ UNCHANGED <<request, edition, db>>
  <2>1. /\ progress[r] \in {"asking", "asking again"}
        /\ progress' = [progress EXCEPT ![r] = IF @ = "asking" THEN "waiting" ELSE "failed"]
        /\ UNCHANGED <<request, edition, db, proposal, result, statements, proposed, estimated>>
    BY <1>4 DEF Causal!AskingFails
  <2>2. \E q \in {"asking", "asking again", "waiting", "failed"} : progress' = [progress EXCEPT ![r] = q]
    BY <2>1
  <2>3. Known(r)
    BY <1>2, <2>1, <2>2, AskingIsKnown
  <2> QED
    BY <2>1, <2>3 DEF EntriesAnswer, KnownProposals, ProposedFor
<1>5. ASSUME Causal!AskAgain(r)
      PROVE  /\ Known(r) /\ KnownProposals' /\ progress[r] \notin {"saving", "done"}
             /\ UNCHANGED <<request, edition, db>>
  <2>1. progress[r] = "waiting" /\ Causal!LookUp(r) /\ UNCHANGED <<request, edition, db>>
    BY <1>5 DEF Causal!AskAgain
  <2> QED
    BY <1>2, <2>1, LookUpIsKnown
<1>6. ASSUME Causal!Retry(r)
      PROVE  /\ Known(r) /\ KnownProposals' /\ progress[r] \notin {"saving", "done"}
             /\ UNCHANGED <<request, edition, db>>
  <2>1. progress[r] = "pausing" /\ UNCHANGED <<request, proposal, proposed, edition, db>>
    BY <1>6 DEF Causal!Retry
  <2>2. PICK c \in Causal!ParsedConfig(request[r].context) :
          Causal!Attempt(r, proposal[r].hypothesis, c, 2)
    BY <1>6 DEF Causal!Retry
  <2>3. request' = [d \in Engines |-> request'[d]] /\ request'[r] \in Asks
    BY <1>2, <2>1
  <2>4. /\ proposal' = [d \in Engines |-> proposal'[d]]
        /\ \A d \in Engines \ {r} : proposal'[d] = proposal[d]
        /\ ProposedFor(request'[r], proposal'[r])
    BY <2>1 DEF CausalTypes, OwnSoFar
  <2>5. c \in Causal!ParsedConfig(request'[r].context) /\ Causal!Attempt(r, proposal'[r].hypothesis, c, 2)
    BY <2>1, <2>2
  <2>6. Known(r)
    BY <2>1, <2>3, <2>4, <2>5, AttemptIsKnown
  <2> QED
    BY <2>1, <2>6 DEF EntriesAnswer, KnownProposals, ProposedFor
<1> QED
  BY <1>1, <1>3, <1>4, <1>5, <1>6 DEF Analyzing

LEMMA EvidenceKeeps ==
  ASSUME CausalAssumption, EvidenceInv, Causal!Step
  PROVE  EvidenceInv'
<1> USE DEF EvidenceInv
<1>0. ASSUME UNCHANGED edition
      PROVE  \A h, configs, v : EstimateOf(h, configs, v)' <=> EstimateOf(h, configs, v)
  BY <1>0 DEF EstimateOf
<1>1. ASSUME NEW r \in Engines, Analyzing(r) PROVE EvidenceInv'
  <2>1. /\ Known(r) /\ KnownProposals' /\ UNCHANGED edition
        /\ \A d \in Engines \ {r} : request'[d] = request[d]
    BY <1>1, AnalyzingIsKnown
  <2>2. ASSUME NEW d \in Engines PROVE OwnSoFar(d)'
    BY <1>0, <2>1 DEF Known, OwnSoFar, ProposedFor
  <2> QED
    BY <2>1, <2>2 DEF Known, KnownProposals, EntriesAnswer
<1>2. ASSUME NEW r \in Engines, NEW q \in {"done", "tested"},
             progress' = [progress EXCEPT ![r] = q], q = "done" => progress[r] = "saving",
             statements' = [d \in Engines |-> statements'[d]], result' = [d \in Engines |-> result'[d]],
             q = "done" => UNCHANGED result, \A d \in Engines \ {r} : result'[d] = result[d],
             UNCHANGED <<request, proposal, proposed, estimated, edition>>
      PROVE  EvidenceInv'
  <2>1. /\ progress' \in [Engines -> Progress] /\ progress'[r] = q
        /\ \A d \in Engines \ {r} : progress'[d] = progress[d]
    BY <1>2 DEF CausalTypes, Progress
  <2>2. CausalTypes'
    BY <1>2, <2>1 DEF CausalTypes
  <2>3. ASSUME NEW d \in Engines PROVE OwnSoFar(d)'
    BY <1>0, <1>2, <2>1 DEF OwnSoFar, ProposedFor
  <2>4. EntriesAnswer'
    BY <1>0, <1>2 DEF EntriesAnswer, ProposedFor
  <2> QED
    BY <2>2, <2>3, <2>4
<1>3. ASSUME NEW r \in Engines, Causal!Execute(r) PROVE EvidenceInv'
  <2>1. /\ statements' = [statements EXCEPT ![r] = Tail(@)] /\ progress[r] = "saving"
        /\ progress' = [progress EXCEPT ![r] = "done"] \/ UNCHANGED progress
        /\ UNCHANGED <<request, proposal, result, proposed, estimated, edition>>
    BY <1>3 DEF Causal!Execute, Causal!Finish
  <2>2. statements' = [d \in Engines |-> statements'[d]] /\ result' = [d \in Engines |-> result'[d]]
    BY <2>1 DEF CausalTypes
  <2>3. CASE UNCHANGED progress
    BY <1>0, <2>1, <2>2, <2>3 DEF CausalTypes, EntriesAnswer, OwnSoFar, ProposedFor
  <2> QED
    BY <1>2, <2>1, <2>2, <2>3
<1>4. ASSUME NEW r \in Engines, Causal!ExecuteFails(r) PROVE EvidenceInv'
  <2>1. /\ progress[r] = "saving" /\ progress' = [progress EXCEPT ![r] = "done"]
        /\ UNCHANGED <<request, proposal, result, statements, proposed, estimated, edition>>
    BY <1>4 DEF Causal!ExecuteFails, Causal!Finish
  <2> QED
    BY <1>2, <2>1 DEF CausalTypes
<1>5. ASSUME NEW r \in Engines, Causal!TestSensitivity(r) PROVE EvidenceInv'
  <2>1. /\ \E v : result' = [result EXCEPT ![r] = v]
        /\ progress' = [progress EXCEPT ![r] = "tested"]
        /\ UNCHANGED <<request, proposal, statements, proposed, estimated, edition>>
    BY <1>5 DEF Causal!TestSensitivity
  <2>2. result' = [d \in Engines |-> result'[d]] /\ \A d \in Engines \ {r} : result'[d] = result[d]
    BY <2>1, OneChanges DEF CausalTypes
  <2> QED
    BY <1>2, <2>1, <2>2 DEF CausalTypes
<1>6. ASSUME Causal!Forget PROVE EvidenceInv'
  <2>1. UNCHANGED <<progress, request, proposal, result, statements, edition>>
    BY <1>6 DEF Causal!Forget
  <2>2. /\ proposed' \in Seq(Entries(proposed')) /\ Entries(proposed') \subseteq Entries(proposed)
        /\ estimated' \in Seq(Entries(estimated')) /\ Entries(estimated') \subseteq Entries(estimated)
    BY <1>6, TailEntries DEF Causal!Forget, EntriesAnswer
  <2>3. EntriesAnswer'
    BY <1>0, <2>1, <2>2 DEF EntriesAnswer, ProposedFor
  <2> QED
    BY <1>0, <2>1, <2>3 DEF CausalTypes, OwnSoFar, ProposedFor
<1>7. ASSUME Causal!RewriteFile PROVE EvidenceInv'
  <2>1. /\ edition' = edition + 1
        /\ UNCHANGED <<progress, request, proposal, result, statements, proposed, estimated>>
    BY <1>7 DEF Causal!RewriteFile
  <2>2. \A h, configs, v : EstimateOf(h, configs, v) => EstimateOf(h, configs, v)'
    BY <2>1, EstimatesLast DEF CausalTypes
  <2> QED
    BY <2>1, <2>2 DEF CausalTypes, EntriesAnswer, OwnSoFar, ProposedFor
<1> QED
  BY <1>1, <1>3, <1>4, <1>5, <1>6, <1>7 DEF Causal!Step, Analyzing

LEMMA EvidenceShown ==
  ASSUME EvidenceInv, NEW r \in Engines, progress[r] = "done"
  PROVE  Causal!AnsweredFromItsOwn(r)
BY DEF EvidenceInv, OwnSoFar, ProposedFor, EstimateOf, Causal!AnsweredFromItsOwn

-----------------------------------------------------------------------------
(* The statements that save a graph *)

IsSequence(s) == s \in Seq(Entries(s))

Rank(s) ==
  IF s.do = "variable" THEN 1 ELSE IF s.do = "causes" THEN 2
  ELSE IF s.do = "analysis" THEN 3 ELSE IF s.do = "link" THEN 4 ELSE 5

\* No statement is sent twice, and those of a kind come after those of the last.
SavedInOrder(s) ==
  \A i, j \in DOMAIN s : i < j => s[i] # s[j] /\ Rank(s[i]) <= Rank(s[j])

IsGraph(g) ==
  /\ g.variables \in Seq([name : STRING, role : STRING]) /\ g.edges \in Seq(STRING \X STRING)
  /\ Causal!AddedOnce(g)

LEMMA ConcatInOrder ==
  ASSUME NEW s, NEW t, IsSequence(s), IsSequence(t), SavedInOrder(s), SavedInOrder(t),
         \A x \in Entries(s), y \in Entries(t) : Rank(x) < Rank(y)
  PROVE  /\ IsSequence(s \o t) /\ SavedInOrder(s \o t)
         /\ Entries(s \o t) = Entries(s) \cup Entries(t)
<1> DEFINE E == Entries(s) \cup Entries(t)
<1>1. s \in Seq(E) /\ t \in Seq(E)
  BY DEF IsSequence
<1> HIDE DEF E
<1>2. s \o t \in Seq(E)
  BY <1>1
<1>3. /\ Len(s \o t) = Len(s) + Len(t) /\ Len(s) \in Nat /\ Len(t) \in Nat
      /\ DOMAIN (s \o t) = 1..(Len(s) + Len(t)) /\ DOMAIN s = 1..Len(s) /\ DOMAIN t = 1..Len(t)
      /\ \A i \in 1..Len(s) : (s \o t)[i] = s[i]
      /\ \A i \in (Len(s) + 1)..(Len(s) + Len(t)) : (s \o t)[i] = t[i - Len(s)]
  BY <1>1
<1> DEFINE u == s \o t
<1> HIDE DEF u
<1>4. Entries(u) = Entries(s) \cup Entries(t)
  <2>1. \A i \in DOMAIN u : u[i] \in Entries(s) \cup Entries(t)
    BY <1>3 DEF u, Entries
  <2>2. \A i \in DOMAIN s : s[i] \in Entries(u)
    BY <1>3 DEF u, Entries
  <2>3. ASSUME NEW i \in DOMAIN t PROVE t[i] \in Entries(u)
    <3>1. i \in 1..Len(t) /\ Len(s) + i \in (Len(s) + 1)..(Len(s) + Len(t)) /\ (Len(s) + i) - Len(s) = i
      BY <1>3
    <3>2. Len(s) + i \in DOMAIN u /\ u[Len(s) + i] = t[i]
      BY <1>3, <3>1 DEF u
    <3> QED
      BY <3>2 DEF Entries
  <2> QED
    BY <2>1, <2>2, <2>3 DEF Entries
<1>5. \A x, y : Rank(x) < Rank(y) => x # y
  BY DEF Rank
<1>6. SavedInOrder(u)
  <2> SUFFICES ASSUME NEW i \in DOMAIN u, NEW j \in DOMAIN u, i < j
               PROVE  u[i] # u[j] /\ Rank(u[i]) <= Rank(u[j])
    BY DEF SavedInOrder
  <2>1. i \in Int /\ j \in Int /\ i \in 1..(Len(s) + Len(t)) /\ j \in 1..(Len(s) + Len(t))
    BY <1>3 DEF u
  <2>2. CASE j <= Len(s)
    BY <1>3, <2>1, <2>2 DEF SavedInOrder, u
  <2>3. CASE i > Len(s)
    <3>1. /\ u[i] = t[i - Len(s)] /\ u[j] = t[j - Len(s)]
          /\ i - Len(s) \in DOMAIN t /\ j - Len(s) \in DOMAIN t /\ i - Len(s) < j - Len(s)
      BY <1>3, <2>1, <2>3 DEF u
    <3> QED
      BY <3>1 DEF SavedInOrder
  <2>4. CASE i <= Len(s) /\ j > Len(s)
    <3>1. u[i] \in Entries(s) /\ u[j] \in Entries(t)
      BY <1>3, <2>1, <2>4 DEF u, Entries
    <3>2. Rank(u[i]) < Rank(u[j]) /\ Rank(u[i]) \in Int /\ Rank(u[j]) \in Int
      BY <3>1 DEF Rank
    <3> QED
      BY <1>5, <3>2
  <2> QED
    BY <1>3, <2>1, <2>2, <2>3, <2>4
<1> QED
  BY <1>2, <1>4, <1>6, EntriesOfSequences DEF u, IsSequence

\* The first of the statements to be sent comes before the others.
LEMMA HeadIsFirst ==
  ASSUME NEW s, IsSequence(s), SavedInOrder(s), s # <<>>
  PROVE  /\ IsSequence(Tail(s)) /\ SavedInOrder(Tail(s))
         /\ Entries(s) = {Head(s)} \cup Entries(Tail(s)) /\ Head(s) \notin Entries(Tail(s))
         /\ \A t \in Entries(s) : Rank(Head(s)) <= Rank(t)
<1>1. s \in Seq(Entries(s)) /\ Len(s) \in Nat /\ Len(s) > 0 /\ DOMAIN s = 1..Len(s)
  BY DEF IsSequence
<1>2. IsSequence(Tail(s))
  BY <1>1, TailEntries DEF IsSequence
<1>3. /\ DOMAIN Tail(s) = 1..(Len(s) - 1) /\ \A i \in 1..(Len(s) - 1) : Tail(s)[i] = s[i + 1]
      /\ Head(s) = s[1]
  BY <1>1
<1> DEFINE u == Tail(s)
           h == Head(s)
<1> HIDE DEF u, h
<1>4. /\ DOMAIN u = 1..(Len(s) - 1) /\ \A i \in 1..(Len(s) - 1) : u[i] = s[i + 1]
      /\ h = s[1]
  BY <1>3 DEF u, h
<1>5. \A i \in 1..(Len(s) - 1) : i + 1 \in 1..Len(s) /\ 1 < i + 1
  BY <1>1
<1>6. SavedInOrder(u)
  <2> SUFFICES ASSUME NEW i \in DOMAIN u, NEW j \in DOMAIN u, i < j
               PROVE  u[i] # u[j] /\ Rank(u[i]) <= Rank(u[j])
    BY DEF SavedInOrder
  <2>1. i + 1 \in DOMAIN s /\ j + 1 \in DOMAIN s /\ i + 1 < j + 1
    BY <1>1, <1>4
  <2> QED
    BY <1>4, <2>1 DEF SavedInOrder
<1>7. Entries(s) = {h} \cup Entries(u)
  <2>1. \A i \in DOMAIN s : s[i] = h \/ s[i] \in Entries(u)
    <3> SUFFICES ASSUME NEW i \in 2..Len(s) PROVE s[i] \in Entries(u)
      BY <1>1, <1>4
    <3>1. i - 1 \in 1..(Len(s) - 1) /\ (i - 1) + 1 = i
      BY <1>1
    <3> QED
      BY <1>4, <3>1 DEF Entries
  <2>2. h \in Entries(s) /\ Entries(u) \subseteq Entries(s)
    BY <1>1, <1>4, <1>5 DEF Entries
  <2> QED
    BY <2>1, <2>2 DEF Entries
<1>8. h \notin Entries(u) /\ \A t \in Entries(u) : Rank(h) <= Rank(t)
  <2>1. ASSUME NEW i \in DOMAIN u PROVE h # u[i] /\ Rank(h) <= Rank(u[i])
    <3>1. 1 \in DOMAIN s /\ i + 1 \in DOMAIN s /\ 1 < i + 1 /\ u[i] = s[i + 1]
      BY <1>1, <1>4
    <3> QED
      BY <1>4, <3>1 DEF SavedInOrder
  <2> QED
    BY <2>1 DEF Entries
<1>9. Rank(h) <= Rank(h)
  BY DEF Rank
<1> QED
  BY <1>2, <1>6, <1>7, <1>8, <1>9 DEF u, h

\* What is sent to save a graph: its variables, its edges, the analysis and its links.
St(do, what) == [do |-> do, what |-> what]
Analysis == St("analysis", <<>>)
Link == St("link", <<>>)

IsStatement(s, g) ==
  \/ s.do \in {"variable", "include"} /\ s = St(s.do, s.what) /\ s.what \in Entries(g.variables)
  \/ s.do = "causes" /\ s = St("causes", s.what) /\ s.what \in Entries(g.edges)
  \/ s \in {Analysis, Link}

LEMMA StatementsOfOneKind ==
  ASSUME NEW E, NEW w \in Seq(E), NEW do \in {"variable", "causes", "include"},
         Causal!Distinct(w) \/ Causal!Distinct([i \in DOMAIN w |-> w[i].name])
  PROVE  /\ IsSequence(Causal!Each(do, w)) /\ SavedInOrder(Causal!Each(do, w))
         /\ \A s \in Entries(Causal!Each(do, w)) : s = St(do, s.what) /\ s.do = do /\ s.what \in Entries(w)
         /\ \A x \in Entries(w) : St(do, x) \in Entries(Causal!Each(do, w))
<1> DEFINE q == Causal!Each(do, w)
<1>1. /\ Len(w) \in Nat /\ DOMAIN w = 1..Len(w) /\ DOMAIN q = 1..Len(w)
      /\ \A i \in 1..Len(w) : q[i] = St(do, w[i])
      /\ q = [i \in 1..Len(w) |-> q[i]]
  BY DEF Causal!Each, St
<1> HIDE DEF q
<1>2. IsSequence(q)
  <2>1. q \in [1..Len(w) -> Entries(q)]
    BY <1>1 DEF Entries
  <2>2. \A S, n : n \in Nat => \A f \in [1..n -> S] : f \in Seq(S)
    OBVIOUS
  <2> QED
    BY <1>1, <2>1, <2>2, Zenon DEF IsSequence
<1>3. /\ \A s \in Entries(q) : s = St(do, s.what) /\ s.do = do /\ s.what \in Entries(w)
      /\ \A x \in Entries(w) : St(do, x) \in Entries(q)
  BY <1>1 DEF Entries, St
<1>4. SavedInOrder(q)
  <2> SUFFICES ASSUME NEW i \in 1..Len(w), NEW j \in 1..Len(w), i < j
               PROVE  q[i] # q[j] /\ Rank(q[i]) <= Rank(q[j])
    BY <1>1 DEF SavedInOrder
  <2>1. w[i] # w[j]
    BY <1>1 DEF Causal!Distinct
  <2>2. q[i].what = w[i] /\ q[j].what = w[j] /\ q[i].do = do /\ q[j].do = do
    BY <1>1 DEF St
  <2> QED
    BY <2>1, <2>2 DEF Rank
<1> QED
  BY <1>2, <1>3, <1>4 DEF q

LEMMA StatementsInOrder ==
  ASSUME NEW g, IsGraph(g)
  PROVE  /\ IsSequence(Causal!Statements(g)) /\ SavedInOrder(Causal!Statements(g))
         /\ \A s \in Entries(Causal!Statements(g)) : IsStatement(s, g)
         /\ Analysis \in Entries(Causal!Statements(g))
         /\ \A v \in Entries(g.variables) :
              {St("variable", v), St("include", v)} \subseteq Entries(Causal!Statements(g))
         /\ Entries(g.variables) # {} =>
              \A e \in Entries(g.edges) : St("causes", e) \in Entries(Causal!Statements(g))
<1> DEFINE a == Causal!Each("variable", g.variables)
           b == IF g.variables = <<>> THEN <<>> ELSE Causal!Each("causes", g.edges)
           c == <<Analysis, Link>>
           d == Causal!Each("include", g.variables)
<1>1. Causal!Statements(g) = ((a \o b) \o c) \o d
  BY DEF Causal!Statements, Analysis, Link, St
<1>2. /\ g.variables \in Seq([name : STRING, role : STRING]) /\ g.edges \in Seq(STRING \X STRING)
      /\ Causal!Distinct(g.edges) /\ Causal!Distinct([i \in DOMAIN g.variables |-> g.variables[i].name])
  BY DEF IsGraph, Causal!AddedOnce, Causal!Names
<1>3. /\ IsSequence(a) /\ SavedInOrder(a)
      /\ \A s \in Entries(a) : s = St("variable", s.what) /\ s.do = "variable" /\ s.what \in Entries(g.variables)
      /\ \A x \in Entries(g.variables) : St("variable", x) \in Entries(a)
  BY <1>2, StatementsOfOneKind
<1>4. /\ IsSequence(d) /\ SavedInOrder(d)
      /\ \A s \in Entries(d) : s = St("include", s.what) /\ s.do = "include" /\ s.what \in Entries(g.variables)
      /\ \A x \in Entries(g.variables) : St("include", x) \in Entries(d)
  BY <1>2, StatementsOfOneKind
<1>0. /\ g.variables = <<>> => b = <<>>
      /\ g.variables # <<>> => b = Causal!Each("causes", g.edges)
  OBVIOUS
<1> HIDE DEF b
<1>5. /\ IsSequence(b) /\ SavedInOrder(b)
      /\ \A s \in Entries(b) : s = St("causes", s.what) /\ s.do = "causes" /\ s.what \in Entries(g.edges)
      /\ Entries(g.variables) # {} => \A x \in Entries(g.edges) : St("causes", x) \in Entries(b)
  <2>1. CASE g.variables = <<>>
    <3>1. b = <<>> /\ Entries(g.variables) = {}
      BY <1>0, <2>1 DEF Entries
    <3>2. Entries(b) = {} /\ b \in Seq({}) /\ DOMAIN b = {}
      BY <3>1 DEF Entries
    <3> QED
      BY <3>1, <3>2 DEF IsSequence, SavedInOrder
  <2>2. CASE g.variables # <<>>
    <3>1. b = Causal!Each("causes", g.edges)
      BY <1>0, <2>2
    <3> QED
      BY <1>2, <3>1, StatementsOfOneKind
  <2> QED
    BY <2>1, <2>2
<1>6. /\ IsSequence(c) /\ Entries(c) = {Analysis, Link}
      /\ Rank(Analysis) = 3 /\ Rank(Link) = 4
      /\ SavedInOrder(c)
  <2>1. DOMAIN c = 1..2 /\ c[1] = Analysis /\ c[2] = Link
    OBVIOUS
  <2>2. Rank(Analysis) = 3 /\ Rank(Link) = 4 /\ Analysis # Link
    BY DEF Rank, Analysis, Link, St
  <2>3. Entries(c) = {Analysis, Link}
    BY <2>1 DEF Entries
  <2>4. IsSequence(c)
    BY <2>3 DEF IsSequence
  <2>5. SavedInOrder(c)
    BY <2>1, <2>2 DEF SavedInOrder
  <2> QED
    BY <2>2, <2>3, <2>4, <2>5
<1> HIDE DEF a, c, d
<1>7. /\ \A s \in Entries(a) : Rank(s) = 1
      /\ \A s \in Entries(b) : Rank(s) = 2
      /\ \A s \in Entries(c) : Rank(s) \in {3, 4}
      /\ \A s \in Entries(d) : Rank(s) = 5
  BY <1>3, <1>4, <1>5, <1>6 DEF Rank
<1>8. /\ IsSequence(a \o b) /\ SavedInOrder(a \o b) /\ Entries(a \o b) = Entries(a) \cup Entries(b)
  BY <1>3, <1>5, <1>7, ConcatInOrder
<1>9. /\ IsSequence((a \o b) \o c) /\ SavedInOrder((a \o b) \o c)
      /\ Entries((a \o b) \o c) = Entries(a \o b) \cup Entries(c)
  <2>1. \A x \in Entries(a \o b), y \in Entries(c) : Rank(x) < Rank(y)
    BY <1>7, <1>8
  <2> QED
    BY <1>6, <1>8, <2>1, ConcatInOrder
<1>10. /\ IsSequence(((a \o b) \o c) \o d) /\ SavedInOrder(((a \o b) \o c) \o d)
       /\ Entries(((a \o b) \o c) \o d) = Entries((a \o b) \o c) \cup Entries(d)
  <2>1. \A x \in Entries((a \o b) \o c), y \in Entries(d) : Rank(x) < Rank(y)
    BY <1>7, <1>8, <1>9
  <2> QED
    BY <1>4, <1>9, <2>1, ConcatInOrder
<1>11. Entries(Causal!Statements(g)) = Entries(a) \cup Entries(b) \cup {Analysis, Link} \cup Entries(d)
  BY <1>1, <1>6, <1>8, <1>9, <1>10
<1> QED
  BY <1>1, <1>3, <1>4, <1>5, <1>10, <1>11 DEF IsStatement

-----------------------------------------------------------------------------
(* What is saved *)

All(r) == Entries(Causal!Statements(proposal[r].graph))

\* The statements of a request that were executed.
Sent(r) == IF progress[r] \in {"saving", "done"} THEN All(r) \ Entries(statements[r]) ELSE {}
HasSaved(r, edge) == r \in Engines /\ St("causes", edge) \in Sent(r)
Included(r) == {s.what.name : s \in {x \in Sent(r) : x.do = "include"}}

SendingInOrder(r) ==
  progress[r] \in {"saving", "done"} =>
    /\ IsGraph(proposal[r].graph)
    /\ IsSequence(statements[r]) /\ SavedInOrder(statements[r]) /\ Entries(statements[r]) \subseteq All(r)
    /\ \A s \in Sent(r), t \in Entries(statements[r]) : Rank(s) <= Rank(t)

\* The edges and the analyses of the database are those that were saved.
Relationship(c, edge) ==
  /\ c = [effect |-> c.effect, first |-> c.first, last |-> c.last]
  /\ HasSaved(c.first, edge) /\ c.first \notin c.last /\ \A q \in c.last : HasSaved(q, edge)
AnalysisOf(a) ==
  /\ a = [session |-> a.session, effect |-> a.effect, linked |-> a.linked, includes |-> a.includes]
  /\ a.session \in Engines /\ Analysis \in Sent(a.session) /\ a.includes = Included(a.session)
NothingElse ==
  /\ db = [variables |-> db.variables, causes |-> db.causes, analyses |-> db.analyses]
  /\ \A edge \in DOMAIN db.causes : Relationship(db.causes[edge], edge)
  /\ \A a \in db.analyses : AnalysisOf(a)

\* What was saved is there; an edge knows its session, or two others.
Kept(r) ==
  /\ \A s \in Sent(r) : s.do = "variable" => s.what.name \in DOMAIN db.variables
  /\ \A edge : HasSaved(r, edge) /\ {edge[1], edge[2]} \subseteq Causal!Found(r) =>
       edge \in DOMAIN db.causes /\ (db.causes[edge].first = r \/ db.causes[edge].last # {})
  /\ Analysis \in Sent(r) => \E a \in db.analyses : a.session = r

DbInv == NothingElse /\ \A r \in Engines : SendingInOrder(r) /\ Kept(r)

\* Nothing changes of what was saved, unless a statement is executed.
LEMMA QuietKeeps ==
  ASSUME DbInv, UNCHANGED db,
         \A d \in Engines : Sent(d)' = Sent(d) /\ SendingInOrder(d)',
         \A d \in Engines : Sent(d) # {} => proposal'[d] = proposal[d]
  PROVE  DbInv'
<1>1. \A d, edge : HasSaved(d, edge)' <=> HasSaved(d, edge)
  BY DEF HasSaved
<1>2. \A d \in Engines : Included(d)' = Included(d)
  BY DEF Included
<1>3. NothingElse'
  <2>1. \A edge \in DOMAIN db.causes : Relationship(db.causes[edge], edge)'
    BY <1>1 DEF DbInv, NothingElse, Relationship
  <2>2. \A a \in db.analyses : AnalysisOf(a)'
    BY <1>2 DEF DbInv, NothingElse, AnalysisOf
  <2> QED
    BY <2>1, <2>2 DEF DbInv, NothingElse
<1>4. ASSUME NEW d \in Engines PROVE Kept(d)'
  <2>1. Sent(d)' = Sent(d) /\ Kept(d)
    BY DEF DbInv
  <2>2. ASSUME NEW edge, HasSaved(d, edge)', ({edge[1], edge[2]} \subseteq Causal!Found(d))'
        PROVE  edge \in DOMAIN db.causes /\ (db.causes[edge].first = d \/ db.causes[edge].last # {})
    <3>1. HasSaved(d, edge) /\ proposal'[d] = proposal[d]
      BY <1>1, <2>2 DEF HasSaved
    <3>2. {edge[1], edge[2]} \subseteq Causal!Found(d)
      BY <2>2, <3>1 DEF Causal!Found
    <3> QED
      BY <2>1, <3>1, <3>2 DEF Kept
  <2> QED
    BY <2>1, <2>2 DEF Kept
<1> QED
  BY <1>3, <1>4 DEF DbInv

\* Executing the next statement of a request.
Executing(r, s) ==
  /\ r \in Engines /\ progress[r] = "saving" /\ statements[r] # <<>> /\ s = Head(statements[r])
  /\ db' = Causal!Executed(db, s, r, result[r])
  /\ Sent(r)' = Sent(r) \cup {s} /\ s \notin Sent(r) /\ IsStatement(s, proposal[r].graph)
  /\ \A d \in Engines \ {r} : Sent(d)' = Sent(d)
  /\ \A d \in Engines : SendingInOrder(d)' /\ proposal'[d] = proposal[d]
  /\ \A t \in Sent(r) : Rank(t) <= Rank(s)
  /\ \A t \in All(r) : Rank(t) < Rank(s) => t \in Sent(r)

LEMMA ExecuteExecutes ==
  ASSUME CausalTypes, DbInv, NEW r \in Engines, Causal!Execute(r)
  PROVE  Executing(r, Head(statements[r]))
<1> DEFINE s == Head(statements[r])
<1>1. /\ progress[r] = "saving" /\ statements[r] # <<>>
      /\ db' = Causal!Executed(db, s, r, result[r])
      /\ statements' = [statements EXCEPT ![r] = Tail(statements[r])]
      /\ progress' = [progress EXCEPT ![r] = "done"] \/ UNCHANGED progress
      /\ UNCHANGED proposal
  BY DEF Causal!Execute, Causal!Finish
<1>2. /\ statements'[r] = Tail(statements[r])
      /\ \A d \in Engines \ {r} : statements'[d] = statements[d]
  BY <1>1, OneChanges DEF CausalTypes
<1>3. /\ progress'[r] \in {"saving", "done"}
      /\ \A d \in Engines \ {r} : progress'[d] = progress[d]
  BY <1>1 DEF CausalTypes
<1>4. /\ IsGraph(proposal[r].graph)
      /\ IsSequence(statements[r]) /\ SavedInOrder(statements[r]) /\ Entries(statements[r]) \subseteq All(r)
      /\ \A x \in Sent(r), t \in Entries(statements[r]) : Rank(x) <= Rank(t)
  BY <1>1 DEF DbInv, SendingInOrder
<1>5. /\ IsSequence(Tail(statements[r])) /\ SavedInOrder(Tail(statements[r]))
      /\ Entries(statements[r]) = {s} \cup Entries(Tail(statements[r]))
      /\ s \notin Entries(Tail(statements[r]))
      /\ \A t \in Entries(statements[r]) : Rank(s) <= Rank(t)
  BY <1>1, <1>4, HeadIsFirst
<1> HIDE DEF s
<1>6. All(r)' = All(r)
  BY <1>1 DEF All
<1>7. Sent(r) = All(r) \ Entries(statements[r]) /\ Sent(r)' = All(r) \ Entries(Tail(statements[r]))
  <2>1. Entries(statements[r])' = Entries(Tail(statements[r]))
    BY <1>2 DEF Entries
  <2> QED
    BY <1>1, <1>3, <1>6, <2>1 DEF Sent
<1>8. Sent(r)' = Sent(r) \cup {s} /\ s \notin Sent(r) /\ s \in All(r)
  BY <1>4, <1>5, <1>7
<1>9. ASSUME NEW d \in Engines \ {r} PROVE Sent(d)' = Sent(d) /\ SendingInOrder(d)'
  <2>1. SendingInOrder(d)
    BY DEF DbInv
  <2>2. progress'[d] = progress[d] /\ statements'[d] = statements[d] /\ proposal' = proposal
    BY <1>1, <1>2, <1>3
  <2>3. Sent(d)' = Sent(d) /\ All(d)' = All(d)
    BY <2>2 DEF Sent, All, Entries
  <2> QED
    BY <2>1, <2>2, <2>3 DEF SendingInOrder, Entries, IsSequence
<1>10. SendingInOrder(r)'
  <2>1. IsGraph(proposal'[r].graph) /\ IsSequence(statements'[r]) /\ SavedInOrder(statements'[r])
    BY <1>1, <1>2, <1>4, <1>5
  <2>2. Entries(statements'[r]) \subseteq All(r)'
    BY <1>2, <1>4, <1>5, <1>6
  <2>3. \A x \in Sent(r)', t \in Entries(statements'[r]) : Rank(x) <= Rank(t)
    BY <1>2, <1>4, <1>5, <1>8
  <2> QED
    BY <2>1, <2>2, <2>3 DEF SendingInOrder
<1>11. IsStatement(s, proposal[r].graph)
  BY <1>4, <1>8, StatementsInOrder DEF All
<1>12. \A t \in Sent(r) : Rank(t) <= Rank(s)
  BY <1>4, <1>5
<1>13. ASSUME NEW t \in All(r), Rank(t) < Rank(s) PROVE t \in Sent(r)
  <2>1. ~(Rank(s) <= Rank(t))
    BY <1>13 DEF Rank
  <2> QED
    BY <1>5, <1>7, <2>1
<1> QED
  BY <1>1, <1>8, <1>9, <1>10, <1>11, <1>12, <1>13 DEF Executing, s

\* Edges and analyses of the others, while a statement is executed.
LEMMA OthersHaveSaved ==
  ASSUME NEW r, NEW s, Executing(r, s)
  PROVE  /\ \A d, edge : HasSaved(d, edge) => HasSaved(d, edge)'
         /\ s.do # "causes" => \A d, edge : HasSaved(d, edge)' <=> HasSaved(d, edge)
         /\ \A edge : s = St("causes", edge) =>
              /\ HasSaved(r, edge)' /\ ~HasSaved(r, edge)
              /\ \A d, e : (d # r \/ e # edge) => (HasSaved(d, e)' <=> HasSaved(d, e))
         /\ \A d \in Engines : d # r \/ s.do # "include" => Included(d)' = Included(d)
         /\ s.do = "include" => Included(r)' = Included(r) \cup {s.what.name}
<1>1. \A edge : St("causes", edge).do = "causes" /\ St("causes", edge).what = edge
  BY DEF St
<1>2. /\ Sent(r)' = Sent(r) \cup {s} /\ s \notin Sent(r) /\ r \in Engines
      /\ \A d \in Engines \ {r} : Sent(d)' = Sent(d)
  BY DEF Executing
<1>3. ASSUME NEW d \in Engines, NEW edge PROVE St("causes", edge) \in Sent(d) => St("causes", edge) \in Sent(d)'
  BY <1>2
<1>4. ASSUME NEW d \in Engines, NEW edge, s # St("causes", edge) \/ d # r
      PROVE  St("causes", edge) \in Sent(d)' <=> St("causes", edge) \in Sent(d)
  BY <1>2, <1>4
<1>5. ASSUME s.do # "causes" PROVE \A d, edge : HasSaved(d, edge)' <=> HasSaved(d, edge)
  BY <1>1, <1>4, <1>5 DEF HasSaved
<1>6. ASSUME NEW edge, s = St("causes", edge)
      PROVE  /\ HasSaved(r, edge)' /\ ~HasSaved(r, edge)
             /\ \A d, e : (d # r \/ e # edge) => (HasSaved(d, e)' <=> HasSaved(d, e))
  <2>1. HasSaved(r, edge)' /\ ~HasSaved(r, edge)
    BY <1>2, <1>6 DEF HasSaved
  <2>2. ASSUME NEW d, NEW e, d # r \/ e # edge PROVE HasSaved(d, e)' <=> HasSaved(d, e)
    <3>1. s # St("causes", e) \/ d # r
      BY <1>1, <1>6, <2>2
    <3> QED
      BY <1>4, <3>1 DEF HasSaved
  <2> QED
    BY <2>1, <2>2
<1>7. ASSUME NEW d \in Engines, d # r \/ s.do # "include" PROVE Included(d)' = Included(d)
  BY <1>2, <1>7 DEF Included
<1>8. s.do = "include" => Included(r)' = Included(r) \cup {s.what.name}
  BY <1>2 DEF Included
<1>9. \A d, edge : HasSaved(d, edge) => HasSaved(d, edge)'
  BY <1>3 DEF HasSaved
<1> QED
  BY <1>5, <1>6, <1>7, <1>8, <1>9

LEMMA VariableKeeps ==
  ASSUME DbInv, NEW r, NEW s, Executing(r, s), s.do = "variable"
  PROVE  DbInv'
<1>1. /\ db'.variables = Causal!With(db.variables, s.what.name, s.what.role)
      /\ db'.causes = db.causes /\ db'.analyses = db.analyses
      /\ db' = [variables |-> db'.variables, causes |-> db'.causes, analyses |-> db'.analyses]
  <2>1. db' = [db EXCEPT !.variables = Causal!With(@, s.what.name, s.what.role)]
    BY DEF Executing, Causal!Executed, Causal!MergeVariable
  <2>2. db = [variables |-> db.variables, causes |-> db.causes, analyses |-> db.analyses]
    BY DEF DbInv, NothingElse
  <2> QED
    BY <2>1, <2>2
<1>2. DOMAIN db'.variables = DOMAIN db.variables \cup {s.what.name}
  BY <1>1 DEF Causal!With
<1>3. /\ \A d, edge : HasSaved(d, edge)' <=> HasSaved(d, edge)
      /\ \A d \in Engines : Included(d)' = Included(d)
  BY OthersHaveSaved
<1>4. \A d \in Engines : Analysis \in Sent(d)' <=> Analysis \in Sent(d)
  BY DEF Executing, Analysis, St
<1>5. NothingElse'
  <2>1. \A edge \in DOMAIN db.causes : Relationship(db.causes[edge], edge)'
    BY <1>1, <1>3 DEF DbInv, NothingElse, Relationship
  <2>2. \A a \in db.analyses : AnalysisOf(a)'
    BY <1>3, <1>4 DEF DbInv, NothingElse, AnalysisOf
  <2> QED
    BY <1>1, <2>1, <2>2 DEF NothingElse
<1>6. ASSUME NEW d \in Engines PROVE Kept(d)'
  <2>1. Kept(d) /\ Causal!Found(d)' = Causal!Found(d)
    BY DEF DbInv, Executing, Causal!Found
  <2>2. \A x \in Sent(d)' : x.do = "variable" => x.what.name \in DOMAIN db'.variables
    BY <1>2, <2>1 DEF Executing, Kept
  <2> QED
    BY <1>1, <1>3, <1>4, <2>1, <2>2 DEF Kept
<1> QED
  BY <1>5, <1>6 DEF DbInv, Executing

\* When an edge or an analysis is saved, the variables are.
LEMMA VariablesComeFirst ==
  ASSUME DbInv, NEW r, NEW s, Executing(r, s), s.do # "variable"
  PROVE  Causal!Found(r) \subseteq DOMAIN db.variables
<1> SUFFICES ASSUME NEW v \in Entries(proposal[r].graph.variables)
             PROVE  v.name \in DOMAIN db.variables
  BY DEF Causal!Found, Causal!ToSet, Entries
<1>1. r \in Engines /\ IsGraph(proposal[r].graph) /\ Kept(r)
  BY DEF Executing, DbInv, SendingInOrder
<1>2. St("variable", v) \in All(r)
  BY <1>1, StatementsInOrder DEF All
<1>3. /\ Rank(St("variable", v)) < Rank(s)
      /\ St("variable", v).do = "variable" /\ St("variable", v).what = v
  BY DEF Rank, St
<1>4. St("variable", v) \in Sent(r)
  BY <1>2, <1>3 DEF Executing
<1> QED
  BY <1>1, <1>3, <1>4 DEF Kept

LEMMA CausesKeeps ==
  ASSUME DbInv, NEW r, NEW s, Executing(r, s), s.do = "causes"
  PROVE  DbInv'
<1>1. PICK edge : s = St("causes", edge) /\ edge = s.what
  BY DEF Executing, IsStatement, Analysis, Link, St
<1>2. /\ HasSaved(r, edge)' /\ ~HasSaved(r, edge)
      /\ \A d, e : (d # r \/ e # edge) => (HasSaved(d, e)' <=> HasSaved(d, e))
      /\ \A d, e : HasSaved(d, e) => HasSaved(d, e)'
      /\ \A d \in Engines : Included(d)' = Included(d)
  BY <1>1, OthersHaveSaved
<1>3. \A d \in Engines : Analysis \in Sent(d)' <=> Analysis \in Sent(d)
  BY DEF Executing, Analysis, St
<1>4. \A d \in Engines : Causal!Found(d)' = Causal!Found(d) /\ Kept(d)
  BY DEF Executing, DbInv, Causal!Found
<1>5. db' = Causal!MergeCauses(db, edge, r, result[r].effect)
  BY <1>1 DEF Executing, Causal!Executed
<1>6. /\ db = [variables |-> db.variables, causes |-> db.causes, analyses |-> db.analyses]
      /\ \A e \in DOMAIN db.causes : Relationship(db.causes[e], e)
      /\ \A a \in db.analyses : AnalysisOf(a)
  BY DEF DbInv, NothingElse
<1>7. \A a \in db.analyses : AnalysisOf(a)'
  BY <1>2, <1>3, <1>6 DEF AnalysisOf
<1>8. \A d \in Engines : \A x \in Sent(d)' : x.do = "variable" => x.what.name \in DOMAIN db.variables
  BY <1>4 DEF Executing, Kept
<1>9. CASE {edge[1], edge[2]} \subseteq DOMAIN db.variables
  <2>1. PICK c :
          /\ db' = [db EXCEPT !.causes = Causal!With(@, edge, c)]
          /\ edge \in DOMAIN db.causes =>
               c = [effect |-> result[r].effect, first |-> db.causes[edge].first, last |-> {r}]
          /\ edge \notin DOMAIN db.causes => c = [effect |-> result[r].effect, first |-> r, last |-> {}]
    BY <1>5, <1>9 DEF Causal!MergeCauses
  <2>2. CASE edge \in DOMAIN db.causes
    <3>1. c = [effect |-> result[r].effect, first |-> db.causes[edge].first, last |-> {r}]
      BY <2>1, <2>2
    <3>2. HasSaved(db.causes[edge].first, edge) /\ db.causes[edge].first # r
      BY <1>2, <1>6, <2>2 DEF Relationship
    <3> QED
      <4>1. /\ c = [effect |-> c.effect, first |-> c.first, last |-> c.last]
            /\ HasSaved(c.first, edge)' /\ c.first # r /\ c.last = {r}
        BY <1>2, <3>1, <3>2
      <4>2. /\ db'.causes = Causal!With(db.causes, edge, c)
            /\ db'.variables = db.variables /\ db'.analyses = db.analyses
            /\ db' = [variables |-> db'.variables, causes |-> db'.causes, analyses |-> db'.analyses]
        BY <1>6, <2>1
      <4>3. /\ DOMAIN db'.causes = DOMAIN db.causes /\ db'.causes[edge] = c
            /\ \A e \in DOMAIN db.causes : e # edge => db'.causes[e] = db.causes[e]
        BY <2>2, <4>2 DEF Causal!With
      <4>4. ASSUME NEW e \in DOMAIN db'.causes PROVE Relationship(db.causes[e], e)'
        <5>1. CASE e = edge
          BY <1>2, <4>1, <4>3, <5>1 DEF Relationship
        <5>2. CASE e # edge
          BY <1>2, <1>6, <4>3, <5>2 DEF Relationship
        <5> QED
          BY <5>1, <5>2
      <4>5. ASSUME NEW d \in Engines PROVE Kept(d)'
        <5>1. ASSUME NEW e, HasSaved(d, e)', {e[1], e[2]} \subseteq Causal!Found(d)
              PROVE  e \in DOMAIN db'.causes /\ (db'.causes[e].first = d \/ db'.causes[e].last # {})
          <6>1. CASE e = edge
            BY <2>2, <4>1, <4>3, <6>1
          <6>2. CASE e # edge
            BY <1>2, <1>4, <4>3, <5>1, <6>2 DEF Kept
          <6> QED
            BY <6>1, <6>2
        <5> QED
          BY <1>3, <1>4, <1>8, <4>2, <5>1 DEF Kept
      <4> QED
        BY <1>7, <4>2, <4>4, <4>5 DEF DbInv, NothingElse, Executing
  <2>3. CASE edge \notin DOMAIN db.causes
    <3>1. c = [effect |-> result[r].effect, first |-> r, last |-> {}]
      BY <2>1, <2>3
    <3>2. c = [effect |-> c.effect, first |-> c.first, last |-> c.last] /\ c.first = r /\ c.last = {}
      BY <3>1
    <3>3. /\ db'.causes = Causal!With(db.causes, edge, c)
          /\ db'.variables = db.variables /\ db'.analyses = db.analyses
          /\ db' = [variables |-> db'.variables, causes |-> db'.causes, analyses |-> db'.analyses]
      BY <1>6, <2>1
    <3>4. /\ DOMAIN db'.causes = DOMAIN db.causes \cup {edge} /\ db'.causes[edge] = c
          /\ \A e \in DOMAIN db.causes : e # edge => db'.causes[e] = db.causes[e]
      BY <3>3 DEF Causal!With
    <3>5. ASSUME NEW e \in DOMAIN db'.causes PROVE Relationship(db.causes[e], e)'
      <4>1. CASE e = edge
        BY <1>2, <3>2, <3>4, <4>1 DEF Relationship
      <4>2. CASE e # edge
        BY <1>2, <1>6, <3>4, <4>2 DEF Relationship
      <4> QED
        BY <4>1, <4>2
    <3>6. ASSUME NEW d \in Engines PROVE Kept(d)'
      <4>1. ASSUME NEW e, HasSaved(d, e)', {e[1], e[2]} \subseteq Causal!Found(d)
            PROVE  e \in DOMAIN db'.causes /\ (db'.causes[e].first = d \/ db'.causes[e].last # {})
        <5>1. CASE e = edge /\ d = r
          BY <3>2, <3>4, <5>1
        <5>2. CASE e # edge \/ d # r
          <6>1. e \in DOMAIN db.causes /\ (db.causes[e].first = d \/ db.causes[e].last # {})
            BY <1>2, <1>4, <4>1, <5>2 DEF Kept
          <6> QED
            BY <2>3, <3>4, <6>1
        <5> QED
          BY <5>1, <5>2
      <4> QED
        BY <1>3, <1>4, <1>8, <3>3, <4>1 DEF Kept
    <3> QED
      BY <1>7, <3>3, <3>5, <3>6 DEF DbInv, NothingElse, Executing
  <2> QED
    BY <2>2, <2>3
<1>10. CASE ~({edge[1], edge[2]} \subseteq DOMAIN db.variables)
  <2>1. UNCHANGED db
    BY <1>5, <1>10 DEF Causal!MergeCauses
  <2>2. ~({edge[1], edge[2]} \subseteq Causal!Found(r))
    BY <1>10, VariablesComeFirst
  <2>3. NothingElse'
    BY <1>2, <1>6, <1>7, <2>1 DEF NothingElse, Relationship
  <2>4. ASSUME NEW d \in Engines PROVE Kept(d)'
    <3>1. ASSUME NEW e, HasSaved(d, e)', {e[1], e[2]} \subseteq Causal!Found(d)
          PROVE  e \in DOMAIN db.causes /\ (db.causes[e].first = d \/ db.causes[e].last # {})
      BY <1>2, <1>4, <2>2, <3>1 DEF Kept
    <3> QED
      BY <1>3, <1>4, <1>8, <2>1, <3>1 DEF Kept
  <2> QED
    BY <2>3, <2>4 DEF DbInv, Executing
<1> QED
  BY <1>9, <1>10

\* Saving an analysis, and linking it, leaves variables and edges alone.
LEMMA AnalysesKeep ==
  ASSUME DbInv, NEW r, NEW s, Executing(r, s), s.do \notin {"variable", "causes"},
         db' = [db EXCEPT !.analyses = db'.analyses],
         \A a \in db'.analyses : AnalysisOf(a)',
         \A d \in Engines : Analysis \in Sent(d)' => \E a \in db'.analyses : a.session = d
  PROVE  DbInv'
<1>1. /\ db = [variables |-> db.variables, causes |-> db.causes, analyses |-> db.analyses]
      /\ \A e \in DOMAIN db.causes : Relationship(db.causes[e], e)
  BY DEF DbInv, NothingElse
<1>2. /\ db'.variables = db.variables /\ db'.causes = db.causes
      /\ db' = [variables |-> db'.variables, causes |-> db'.causes, analyses |-> db'.analyses]
  BY <1>1
<1>3. \A d, e : HasSaved(d, e)' <=> HasSaved(d, e)
  BY OthersHaveSaved
<1>4. NothingElse'
  BY <1>1, <1>2, <1>3 DEF NothingElse, Relationship
<1>5. ASSUME NEW d \in Engines PROVE Kept(d)'
  <2>1. Causal!Found(d)' = Causal!Found(d) /\ Kept(d)
    BY DEF Executing, DbInv, Causal!Found
  <2>2. \A x \in Sent(d)' : x.do = "variable" => x.what.name \in DOMAIN db.variables
    BY <2>1 DEF Executing, Kept
  <2> QED
    BY <1>2, <1>3, <2>1, <2>2 DEF Kept
<1> QED
  BY <1>4, <1>5 DEF DbInv, Executing

LEMMA AnalysisKeeps ==
  ASSUME DbInv, NEW r, NEW s, Executing(r, s), s.do = "analysis"
  PROVE  DbInv'
<1>1. s = Analysis /\ r \in Engines
  BY DEF Executing, IsStatement, Analysis, Link, St
<1>2. PICK a : a = [session |-> r, effect |-> result[r].effect, linked |-> FALSE, includes |-> {}]
  OBVIOUS
<1>3. db' = [db EXCEPT !.analyses = @ \cup {a}]
  BY <1>1, <1>2 DEF Executing, Causal!Executed, Causal!CreateAnalysis, Analysis, St
<1>4. db = [variables |-> db.variables, causes |-> db.causes, analyses |-> db.analyses]
      /\ \A b \in db.analyses : AnalysisOf(b)
  BY DEF DbInv, NothingElse
<1>5. db'.analyses = db.analyses \cup {a} /\ db' = [db EXCEPT !.analyses = db'.analyses]
  BY <1>3, <1>4
<1>6. \A d \in Engines : Included(d)' = Included(d)
  BY <1>1, OthersHaveSaved DEF Analysis, St
<1>7. Included(r) = {}
  <2>1. ASSUME NEW t \in Sent(r), t.do = "include" PROVE FALSE
    <3>1. Rank(t) = 5 /\ Rank(s) = 3
      BY <1>1, <2>1 DEF Rank, Analysis, St
    <3> QED
      BY <3>1 DEF Executing
  <2> QED
    BY <2>1 DEF Included
<1>8. AnalysisOf(a)'
  <2>1. a.session = r /\ a.includes = {}
        /\ a = [session |-> a.session, effect |-> a.effect, linked |-> a.linked, includes |-> a.includes]
    BY <1>2
  <2>2. Analysis \in Sent(r)'
    BY <1>1 DEF Executing
  <2>3. AnalysisOf(a)' <=>
          /\ a = [session |-> a.session, effect |-> a.effect, linked |-> a.linked, includes |-> a.includes]
          /\ a.session \in Engines /\ (Analysis \in Sent(a.session))' /\ a.includes = Included(a.session)'
    BY DEF AnalysisOf
  <2> QED
    BY <1>1, <1>6, <1>7, <2>1, <2>2, <2>3
<1>9. \A b \in db.analyses : AnalysisOf(b)'
  BY <1>4, <1>6 DEF AnalysisOf, Executing
<1>10. \A d \in Engines : Analysis \in Sent(d)' => \E b \in db'.analyses : b.session = d
  BY <1>1, <1>2, <1>5 DEF Executing, DbInv, Kept
<1> QED
  BY <1>1, <1>5, <1>8, <1>9, <1>10, AnalysesKeep DEF Analysis, St

\* A statement that changes the analyses of its session one by one.
LEMMA RevisionKeeps ==
  ASSUME DbInv, NEW r, NEW s, Executing(r, s), s.do \in {"link", "include"},
         NEW F, db' = [db EXCEPT !.analyses = {IF a.session = r THEN F[a] ELSE a : a \in @}],
         \A a \in db.analyses : a.session = r =>
           /\ F[a] = [session |-> r, effect |-> a.effect, linked |-> F[a].linked, includes |-> F[a].includes]
           /\ F[a].includes = Included(r)'
  PROVE  DbInv'
<1>1. /\ db = [variables |-> db.variables, causes |-> db.causes, analyses |-> db.analyses]
      /\ \A a \in db.analyses : AnalysisOf(a)
  BY DEF DbInv, NothingElse
<1>2. /\ db'.analyses = {IF a.session = r THEN F[a] ELSE a : a \in db.analyses}
      /\ db' = [db EXCEPT !.analyses = db'.analyses]
  BY <1>1
<1>3. \A d \in Engines : Analysis \in Sent(d)' <=> Analysis \in Sent(d)
  BY DEF Executing, Analysis, St
<1>4. \A d \in Engines : d # r => Included(d)' = Included(d)
  BY OthersHaveSaved
<1>5. ASSUME NEW a \in db.analyses, a.session # r PROVE AnalysisOf(a)'
  BY <1>1, <1>3, <1>4, <1>5 DEF AnalysisOf
<1>6. ASSUME NEW a \in db.analyses, a.session = r PROVE AnalysisOf(F[a])' /\ F[a].session = r
  <2>1. PICK b : b = F[a]
    OBVIOUS
  <2>2. /\ b = [session |-> r, effect |-> a.effect, linked |-> b.linked, includes |-> b.includes]
        /\ b.includes = Included(r)'
    BY <1>6, <2>1
  <2>3. b.session = r /\ b.effect = a.effect
    BY <2>2
  <2>4. AnalysisOf(b)'
    BY <1>1, <1>3, <1>6, <2>2, <2>3 DEF AnalysisOf
  <2> QED
    BY <2>1, <2>3, <2>4
<1>7. \A a \in db'.analyses : AnalysisOf(a)'
  BY <1>2, <1>5, <1>6
<1>8. ASSUME NEW d \in Engines, Analysis \in Sent(d)' PROVE \E a \in db'.analyses : a.session = d
  <2>1. PICK a \in db.analyses : a.session = d
    BY <1>3, <1>8 DEF DbInv, Kept
  <2> QED
    BY <1>2, <1>6, <2>1
<1> QED
  BY <1>2, <1>7, <1>8, AnalysesKeep

LEMMA LinkKeeps ==
  ASSUME DbInv, NEW r, NEW s, Executing(r, s), s.do = "link"
  PROVE  DbInv'
<1>1. PICK linked : linked =
        ({result[r].hypothesis.treatment, result[r].hypothesis.outcome} \subseteq DOMAIN db.variables)
  OBVIOUS
<1>2. PICK F : F = [a \in db.analyses |-> [a EXCEPT !.linked = linked]]
  OBVIOUS
<1>3. db' = [db EXCEPT !.analyses = {IF a.session = r THEN [a EXCEPT !.linked = linked] ELSE a : a \in @}]
  BY <1>1 DEF Executing, Causal!Executed, Causal!LinkEnds, Causal!Revised
<1>4. db' = [db EXCEPT !.analyses = {IF a.session = r THEN F[a] ELSE a : a \in @}]
  BY <1>2, <1>3
<1>5. ASSUME NEW a \in db.analyses, a.session = r
      PROVE  /\ F[a] = [session |-> r, effect |-> a.effect, linked |-> F[a].linked, includes |-> F[a].includes]
             /\ F[a].includes = Included(r)'
  <2>1. /\ a = [session |-> a.session, effect |-> a.effect, linked |-> a.linked, includes |-> a.includes]
        /\ a.includes = Included(r) /\ r \in Engines
    BY <1>5 DEF DbInv, NothingElse, AnalysisOf, Executing
  <2>2. F[a] = [a EXCEPT !.linked = linked]
    BY <1>2
  <2>3. F[a] = [session |-> r, effect |-> a.effect, linked |-> linked, includes |-> a.includes]
    BY <1>5, <2>1, <2>2
  <2>4. Included(r)' = Included(r)
    BY <2>1, OthersHaveSaved
  <2> QED
    BY <2>1, <2>3, <2>4
<1> QED
  BY <1>4, <1>5, RevisionKeeps

LEMMA IncludeKeeps ==
  ASSUME DbInv, NEW r, NEW s, Executing(r, s), s.do = "include"
  PROVE  DbInv'
<1>1. s.what \in Entries(proposal[r].graph.variables) /\ r \in Engines
  BY DEF Executing, IsStatement, Analysis, Link, St
<1>2. s.what.name \in DOMAIN db.variables
  <2>1. s.what.name \in Causal!Found(r)
    BY <1>1 DEF Causal!Found, Causal!ToSet, Entries
  <2> QED
    BY <2>1, VariablesComeFirst
<1>3. PICK F : F = [a \in db.analyses |-> [a EXCEPT !.includes = @ \cup {s.what.name}]]
  OBVIOUS
<1>4. db' = [db EXCEPT !.analyses =
        {IF a.session = r THEN [a EXCEPT !.includes = @ \cup ({s.what.name} \cap DOMAIN db.variables)] ELSE a : a \in @}]
  BY DEF Executing, Causal!Executed, Causal!Include, Causal!Revised
<1>5. {s.what.name} \cap DOMAIN db.variables = {s.what.name}
  BY <1>2
<1>6. db' = [db EXCEPT !.analyses = {IF a.session = r THEN F[a] ELSE a : a \in @}]
  BY <1>3, <1>4, <1>5
<1>7. ASSUME NEW a \in db.analyses, a.session = r
      PROVE  /\ F[a] = [session |-> r, effect |-> a.effect, linked |-> F[a].linked, includes |-> F[a].includes]
             /\ F[a].includes = Included(r)'
  <2>1. /\ a = [session |-> a.session, effect |-> a.effect, linked |-> a.linked, includes |-> a.includes]
        /\ a.includes = Included(r)
    BY <1>7 DEF DbInv, NothingElse, AnalysisOf
  <2>2. F[a] = [a EXCEPT !.includes = @ \cup {s.what.name}]
    BY <1>3
  <2>3. F[a] = [session |-> r, effect |-> a.effect, linked |-> a.linked, includes |-> a.includes \cup {s.what.name}]
    BY <1>7, <2>1, <2>2
  <2>4. Included(r)' = Included(r) \cup {s.what.name}
    BY OthersHaveSaved
  <2> QED
    BY <2>1, <2>3, <2>4
<1> QED
  BY <1>6, <1>7, RevisionKeeps

\* What an analysis found makes a graph.
LEMMA ProposalsAreGraphs ==
  ASSUME CausalAssumption, NEW ask, NEW p, ProposedFor(ask, p)
  PROVE  IsGraph(p.graph)
<1>1. CASE p = Causal!Unknown
  <2>1. p.graph.variables = <<>> /\ p.graph.edges = <<>>
    BY <1>1 DEF Causal!Unknown
  <2>2. Causal!Distinct(p.graph.edges) /\ Causal!Distinct(Causal!Names(p.graph))
    BY <2>1 DEF Causal!Distinct, Causal!Names
  <2> QED
    BY <2>1, <2>2 DEF IsGraph, Causal!AddedOnce
<1>2. CASE p \in Proposals[ask.query]
  BY <1>2 DEF ProposedFor, Asks, CausalAssumption, IsGraph
<1> QED
  BY <1>1, <1>2 DEF ProposedFor

LEMMA SendingLasts ==
  ASSUME NEW d \in Engines, SendingInOrder(d),
         (progress'[d] \in {"saving", "done"}) <=> (progress[d] \in {"saving", "done"}),
         proposal'[d] = proposal[d], statements'[d] = statements[d]
  PROVE  Sent(d)' = Sent(d) /\ SendingInOrder(d)'
<1>1. All(d)' = All(d)
  BY DEF All, Entries
<1>2. Sent(d)' = Sent(d)
  BY <1>1 DEF Sent, Entries
<1> QED
  BY <1>1, <1>2 DEF SendingInOrder, Entries, IsSequence

LEMMA DbKeeps ==
  ASSUME CausalAssumption, EvidenceInv, DbInv, Causal!Step
  PROVE  DbInv'
<1>1. ASSUME NEW r \in Engines, Analyzing(r) PROVE DbInv'
  <2>1. Known(r) /\ progress[r] \notin {"saving", "done"} /\ UNCHANGED db
    BY <1>1, AnalyzingIsKnown
  <2>2. ASSUME NEW d \in Engines \ {r}
        PROVE  Sent(d)' = Sent(d) /\ SendingInOrder(d)' /\ proposal'[d] = proposal[d]
    <3>1. progress'[d] = progress[d] /\ proposal'[d] = proposal[d] /\ statements'[d] = statements[d]
      BY <2>1 DEF Known
    <3>2. SendingInOrder(d)
      BY DEF DbInv
    <3> QED
      BY <3>1, <3>2, SendingLasts
  <2>3. Sent(r) = {}
    BY <2>1 DEF Sent
  <2>4. CASE progress'[r] \notin {"saving", "done"}
    BY <2>1, <2>2, <2>3, <2>4, QuietKeeps DEF Sent, SendingInOrder
  <2>5. CASE progress'[r] \in {"saving", "done"}
    <3>1. ProposedFor(request'[r], proposal'[r]) /\ statements'[r] = Causal!Statements(proposal'[r].graph)
      BY <2>1, <2>5 DEF Known, OwnSoFar, ProposedFor
    <3>2. IsGraph(proposal'[r].graph)
      BY <3>1, ProposalsAreGraphs
    <3>3. IsSequence(statements'[r]) /\ SavedInOrder(statements'[r]) /\ Entries(statements'[r]) = All(r)'
      BY <3>1, <3>2, StatementsInOrder DEF All
    <3>4. Sent(r)' = {}
      BY <3>3 DEF Sent
    <3>5. SendingInOrder(r)'
      BY <3>2, <3>3, <3>4 DEF SendingInOrder
    <3> QED
      BY <2>1, <2>2, <2>3, <3>4, <3>5, QuietKeeps
  <2> QED
    BY <2>4, <2>5
<1>2. ASSUME NEW r \in Engines, Causal!Execute(r) PROVE DbInv'
  <2> DEFINE s == Head(statements[r])
  <2>1. Executing(r, s)
    BY <1>2, ExecuteExecutes DEF EvidenceInv
  <2> HIDE DEF s
  <2>2. s.do \in {"variable", "causes", "analysis", "link", "include"}
    BY <2>1 DEF Executing, IsStatement, Analysis, Link, St
  <2> QED
    BY <2>1, <2>2, VariableKeeps, CausesKeeps, AnalysisKeeps, LinkKeeps, IncludeKeeps
<1>3. ASSUME UNCHANGED <<proposal, statements, db>>,
             \A d \in Engines : (progress'[d] \in {"saving", "done"}) <=> (progress[d] \in {"saving", "done"})
      PROVE  DbInv'
  <2>1. ASSUME NEW d \in Engines PROVE Sent(d)' = Sent(d) /\ SendingInOrder(d)'
    BY <1>3, SendingLasts DEF DbInv
  <2> QED
    BY <1>3, <2>1, QuietKeeps
<1>4. ASSUME NEW r \in Engines, Causal!ExecuteFails(r) \/ Causal!TestSensitivity(r) PROVE DbInv'
  <2>1. /\ UNCHANGED <<proposal, statements, db>>
        /\ \/ progress[r] = "saving" /\ progress' = [progress EXCEPT ![r] = "done"]
           \/ progress[r] = "idle" /\ progress' = [progress EXCEPT ![r] = "tested"]
    BY <1>4 DEF Causal!ExecuteFails, Causal!TestSensitivity, Causal!Finish
  <2> QED
    BY <1>3, <2>1 DEF EvidenceInv, CausalTypes
<1>5. ASSUME Causal!Forget \/ Causal!RewriteFile PROVE DbInv'
  BY <1>3, <1>5 DEF Causal!Forget, Causal!RewriteFile
<1> QED
  BY <1>1, <1>2, <1>4, <1>5 DEF Causal!Step, Analyzing

\* What a request reads back when all of its statements were executed.
LEMMA GraphShown ==
  ASSUME DbInv, NEW r \in Engines, progress[r] = "done", statements[r] = <<>>
  PROVE  Causal!ReadsBackItsGraph(r)
<1> DEFINE g == proposal[r].graph
           read == Causal!GraphOf(db, r)
<1>1. IsGraph(g) /\ Entries(g.variables) = Causal!ToSet(g.variables)
      /\ Causal!Edges(r) = Entries(g.edges) /\ Causal!Found(r) = {v.name : v \in Entries(g.variables)}
  BY DEF DbInv, SendingInOrder, Entries, Causal!ToSet, Causal!Edges, Causal!Found
<1>2. Sent(r) = All(r)
  BY DEF Sent, Entries
<1>3. /\ \A s \in Sent(r) : IsStatement(s, g)
      /\ Analysis \in Sent(r)
      /\ \A v \in Entries(g.variables) : St("include", v) \in Sent(r)
      /\ Entries(g.variables) # {} => \A e \in Entries(g.edges) : St("causes", e) \in Sent(r)
  BY <1>1, <1>2, StatementsInOrder DEF All
<1>4. Included(r) = Causal!Found(r)
  <2>1. \A s \in Sent(r) : s.do = "include" => s.what \in Entries(g.variables)
    BY <1>3 DEF IsStatement, Analysis, Link, St
  <2>2. \A v \in Entries(g.variables) : St("include", v).do = "include" /\ St("include", v).what = v
    BY DEF St
  <2> HIDE DEF g
  <2> QED
    BY <1>1, <1>3, <2>1, <2>2 DEF Included
<1>5. read.variables = Causal!Found(r)
  <2>1. \E a \in db.analyses : a.session = r
    BY <1>3 DEF DbInv, Kept
  <2>2. \A a \in db.analyses : a.session = r => a.includes = Causal!Found(r)
    BY <1>4 DEF DbInv, NothingElse, AnalysisOf
  <2>3. read.variables = UNION {a.includes : a \in {b \in db.analyses : b.session = r}}
    BY DEF Causal!GraphOf
  <2> HIDE DEF read
  <2> QED
    BY <2>1, <2>2, <2>3
<1>6. ASSUME NEW d, NEW edge, HasSaved(d, edge)
      PROVE  d \in Engines /\ progress[d] \in {"saving", "done"} /\ edge \in Causal!Edges(d)
  <2>1. d \in Engines /\ St("causes", edge) \in Sent(d) /\ progress[d] \in {"saving", "done"}
    BY <1>6 DEF HasSaved, Sent
  <2>2. IsGraph(proposal[d].graph) /\ St("causes", edge) \in All(d)
    BY <2>1 DEF DbInv, SendingInOrder, Sent
  <2>3. IsStatement(St("causes", edge), proposal[d].graph)
    BY <2>2, StatementsInOrder DEF All
  <2>4. edge \in Entries(proposal[d].graph.edges)
    BY <2>3 DEF IsStatement, St, Analysis, Link
  <2> QED
    BY <2>1, <2>4 DEF Entries, Causal!ToSet, Causal!Edges
<1>7. /\ \A edge \in DOMAIN db.causes : Relationship(db.causes[edge], edge)
      /\ read.edges = {e \in DOMAIN db.causes : r = db.causes[e].first \/ r \in db.causes[e].last}
  BY DEF DbInv, NothingElse, Causal!GraphOf
<1>8. ASSUME NEW edge \in read.edges PROVE edge \in Causal!Edges(r)
  <2>1. HasSaved(r, edge)
    BY <1>7, <1>8 DEF Relationship
  <2> QED
    BY <1>6, <2>1
<1>9. ASSUME NEW edge \in Causal!Edges(r) \cap (Causal!Found(r) \X Causal!Found(r)), edge \notin read.edges
      PROVE  Causal!TwoOthersHave(r, edge)
  <2>1. edge \in Entries(g.edges) /\ {edge[1], edge[2]} \subseteq Causal!Found(r) /\ Entries(g.variables) # {}
    BY <1>1, <1>9
  <2>2. HasSaved(r, edge)
    BY <1>3, <2>1 DEF HasSaved
  <2>3. edge \in DOMAIN db.causes /\ (db.causes[edge].first = r \/ db.causes[edge].last # {})
    BY <2>1, <2>2 DEF DbInv, Kept
  <2>4. PICK q \in db.causes[edge].last : TRUE
    BY <1>7, <1>9, <2>3
  <2>5. /\ HasSaved(db.causes[edge].first, edge) /\ HasSaved(q, edge)
        /\ db.causes[edge].first \notin {r, q} /\ q # r
    BY <1>7, <1>9, <2>3, <2>4 DEF Relationship
  <2> QED
    BY <1>6, <2>5 DEF Causal!TwoOthersHave
<1> HIDE DEF read
<1>10. \A edge \in Causal!Edges(r) \cap (Causal!Found(r) \X Causal!Found(r)) :
         edge \in read.edges \/ Causal!TwoOthersHave(r, edge)
  BY <1>9
<1> QED
  BY <1>5, <1>8, <1>10 DEF Causal!ReadsBackItsGraph, read

\* The requests that share an engine are answered each from its own hypothesis and
\* data, and read back what was found for them: causal.py's caches and retries and
\* neo4j_service.py's statements, for any number of requests, queries and reports.
THEOREM EvidenceIsOwn == StoresSpec => []EvidenceIsItsOwn
<1> DEFINE Inv == store = "causal" => EvidenceInv /\ DbInv
<1>1. StoresInit => Inv
  <2> SUFFICES ASSUME Causal!Init PROVE EvidenceInv /\ DbInv
    BY DEF StoresInit
  <2>1. EvidenceInv
    BY DEF EvidenceInv, CausalTypes, EntriesAnswer, OwnSoFar, Entries, Progress, Causal!Init
  <2>2. \A d \in Engines : Sent(d) = {} /\ SendingInOrder(d)
    BY DEF Causal!Init, Sent, SendingInOrder
  <2>3. DOMAIN db.causes = {} /\ db.analyses = {}
        /\ db = [variables |-> db.variables, causes |-> db.causes, analyses |-> db.analyses]
    BY DEF Causal!Init, Causal!EmptyDb
  <2> QED
    BY <2>1, <2>2, <2>3 DEF DbInv, NothingElse, Kept, HasSaved
<1>2. Inv /\ [StoresNext]_storeVars => Inv'
  <2> SUFFICES ASSUME Inv, [StoresNext]_storeVars, store' = "causal" PROVE EvidenceInv' /\ DbInv'
    OBVIOUS
  <2>1. CASE StoresNext
    <3>1. Causal!Step /\ EvidenceInv /\ DbInv
      BY <2>1, OneStoreMoves DEF Causal!Next
    <3> QED
      BY <3>1, EvidenceKeeps, DbKeeps, CausalAssumption
  <2>2. CASE UNCHANGED storeVars
    <3>1. UNCHANGED causalVars /\ EvidenceInv /\ DbInv
      BY <2>2 DEF storeVars
    <3>2. EvidenceInv'
      BY <3>1 DEF causalVars, EvidenceInv, CausalTypes, EntriesAnswer, OwnSoFar, ProposedFor,
                  EstimateOf, Entries
    <3>3. \A d \in Engines : Sent(d)' = Sent(d) /\ SendingInOrder(d)'
      BY <3>1, SendingLasts DEF causalVars, DbInv
    <3> QED
      BY <3>1, <3>2, <3>3, QuietKeeps DEF causalVars
  <2> QED
    BY <2>1, <2>2
<1>3. Inv => EvidenceIsItsOwn
  BY EvidenceShown, GraphShown DEF EvidenceIsItsOwn, Causal!EvidenceIsItsOwn
<1> QED
  BY <1>1, <1>2, <1>3, PTL DEF StoresSpec

-----------------------------------------------------------------------------
(* Counting and recursion.  Inclusion among the initial intervals is well   *)
(* founded, which is all the induction there is.                            *)

\* A set of numbers that holds 0 and, with each, the next one holds them all.
LEMMA Counting ==
  ASSUME NEW T, 0 \in T, \A n \in Nat : n \in T => n + 1 \in T
  PROVE  Nat \subseteq T
<1> SUFFICES ASSUME NEW k \in Nat, k \notin T PROVE FALSE
  OBVIOUS
<1> DEFINE missing == Nat \ T
           upTo(n) == 1..n
           intervals == {upTo(n) : n \in missing}
<1>1. intervals # {} /\ intervals \subseteq FiniteSubsetsOf(Nat)
  <2>1. \A n \in missing : IsFiniteSet(upTo(n)) /\ upTo(n) \subseteq Nat
    BY FS_Interval
  <2> QED
    BY <2>1, Zenon DEF FiniteSubsetsOf
<1>2. PICK I \in intervals : \A J \in intervals : <<J, I>> \notin StrictSubsetOrdering(Nat)
  BY <1>1, FS_StrictSubsetOrderingWellFounded, WFMin, Zenon
<1>3. PICK n \in missing : I = upTo(n)
  OBVIOUS
<1>4. n \in Nat /\ n - 1 \in Nat /\ n - 1 + 1 = n
  OBVIOUS
<1>5. n - 1 \in missing
  BY <1>4
<1>6. upTo(n - 1) \in intervals /\ upTo(n - 1) \subseteq upTo(n) /\ n \in upTo(n) \ upTo(n - 1)
  BY <1>4, <1>5
<1>7. <<upTo(n - 1), I>> \in StrictSubsetOrdering(Nat)
  BY <1>3, <1>6 DEF StrictSubsetOrdering
<1> QED
  BY <1>2, <1>6, <1>7

Walks(w, S, a, step, n) ==
  w \in [0..n -> S] /\ w[0] = a /\ \A i \in 1..n : w[i] = step[<<i, w[i - 1]>>]

LEMMA OneStepMore ==
  ASSUME NEW S, NEW a \in S, NEW n \in Nat, NEW step \in [(1..n) \X S -> S],
         NEW m \in Nat, m + 1 <= n, NEW g, Walks(g, S, a, step, m)
  PROVE  \E w : Walks(w, S, a, step, m + 1)
<1> DEFINE next == step[<<m + 1, g[m]>>]
           h == [i \in 0..m + 1 |-> IF i <= m THEN g[i] ELSE next]
<1>1. g \in [0..m -> S] /\ g[0] = a /\ \A i \in 1..m : g[i] = step[<<i, g[i - 1]>>]
  BY DEF Walks
<1>2. next \in S
  <2>1. g[m] \in S /\ m + 1 \in 1..n
    BY <1>1
  <2>2. <<m + 1, g[m]>> \in (1..n) \X S
    BY <2>1
  <2> QED BY <2>2
<1>3. next = step[<<m + 1, g[m]>>]
  OBVIOUS
<1> HIDE DEF next
<1>4. h \in [0..m + 1 -> S] /\ h[0] = a /\ h[m] = g[m] /\ h[m + 1] = next
  BY <1>1, <1>2
<1>5. \A i \in 1..m : h[i] = g[i] /\ h[i - 1] = g[i - 1]
  OBVIOUS
<1> HIDE DEF h
<1>6. ASSUME NEW i \in 1..m + 1 PROVE h[i] = step[<<i, h[i - 1]>>]
  <2>1. CASE i \in 1..m
    <3>1. g[i] = step[<<i, g[i - 1]>>] /\ h[i] = g[i] /\ h[i - 1] = g[i - 1]
      BY <1>1, <1>5, <2>1
    <3> QED BY <3>1, Zenon
  <2>2. CASE i = m + 1
    <3>1. i - 1 = m
      BY <2>2
    <3> QED BY <1>3, <1>4, <2>2, <3>1, Zenon
  <2>3. i \in 1..m \/ i = m + 1
    OBVIOUS
  <2> QED BY <2>1, <2>2, <2>3
<1>7. Walks(h, S, a, step, m + 1)
  BY <1>4, <1>6 DEF Walks
<1> QED BY <1>7

\* A walk of n steps inside a set exists.
LEMMA Recursion ==
  ASSUME NEW S, NEW a \in S, NEW n \in Nat, NEW step \in [(1..n) \X S -> S]
  PROVE  \E w : Walks(w, S, a, step, n)
<1> DEFINE T == {m \in Nat : m <= n => \E w : Walks(w, S, a, step, m)}
<1>1. 0 \in T
  <2>1. Walks([i \in 0..0 |-> a], S, a, step, 0)
    BY DEF Walks
  <2> QED BY <2>1
<1>2. ASSUME NEW m \in Nat, m \in T PROVE m + 1 \in T
  <2>1. ASSUME m + 1 <= n PROVE \E w : Walks(w, S, a, step, m + 1)
    <3>1. m <= n
      BY <2>1
    <3>2. \E g : Walks(g, S, a, step, m)
      BY <1>2, <3>1
    <3> HIDE DEF T
    <3> QED BY <2>1, <3>2, OneStepMore
  <2> QED BY <2>1
<1>3. \A m \in Nat : m \in T => m + 1 \in T
  BY <1>2
<1> HIDE DEF T
<1>4. Nat \subseteq T
  BY <1>1, <1>3, Counting
<1> QED BY <1>4 DEF T

-----------------------------------------------------------------------------
(* Lists *)

Listed(s) == {s[i] : i \in 1..Len(s)}
NoRepeat(s) == \A i, j \in 1..Len(s) : s[i] = s[j] => i = j

LEMMA Appended ==
  ASSUME NEW M, NEW s \in Seq(M), NEW x \in M
  PROVE  /\ Append(s, x) \in Seq(M) /\ Listed(Append(s, x)) = Listed(s) \cup {x}
         /\ NoRepeat(s) /\ x \notin Listed(s) => NoRepeat(Append(s, x))
<1> DEFINE t == Append(s, x)
           n == Len(s)
<1>1. n \in Nat /\ t \in Seq(M) /\ Len(t) = n + 1 /\ t[n + 1] = x /\ \A i \in 1..n : t[i] = s[i]
  OBVIOUS
<1> HIDE DEF t
<1>2. Listed(t) = Listed(s) \cup {x}
  <2>1. 1..n + 1 = 1..n \cup {n + 1}
    BY <1>1
  <2> QED BY <1>1, <2>1 DEF Listed
<1>3. ASSUME NoRepeat(s), x \notin Listed(s) PROVE NoRepeat(t)
  <2> SUFFICES ASSUME NEW i \in 1..n + 1, NEW j \in 1..n + 1, t[i] = t[j] PROVE i = j
    BY <1>1 DEF NoRepeat
  <2>1. (i \in 1..n \/ i = n + 1) /\ (j \in 1..n \/ j = n + 1)
    BY <1>1
  <2> QED BY <1>1, <1>3, <2>1 DEF NoRepeat, Listed
<1> QED BY <1>1, <1>2, <1>3 DEF t

LEMMA Joined ==
  ASSUME NEW M, NEW s \in Seq(M), NEW r \in Seq(M)
  PROVE  LET t == s \o r IN
         /\ t \in Seq(M) /\ Len(t) = Len(s) + Len(r) /\ Listed(t) = Listed(s) \cup Listed(r)
         /\ \A i \in 1..Len(s) : t[i] = s[i]
         /\ \A i \in Len(s) + 1..Len(t) : t[i] = r[i - Len(s)] /\ i - Len(s) \in 1..Len(r)
         /\ NoRepeat(s) /\ NoRepeat(r) /\ Listed(s) \cap Listed(r) = {} => NoRepeat(t)
<1> DEFINE t == s \o r
           n == Len(s)
           m == Len(r)
<1>1. /\ n \in Nat /\ m \in Nat /\ t \in Seq(M) /\ Len(t) = n + m
      /\ \A i \in 1..n : t[i] = s[i]
      /\ \A i \in n + 1..n + m : t[i] = r[i - n] /\ i - n \in 1..m
  OBVIOUS
<1>2. \A i \in 1..m : t[n + i] = r[i] /\ n + i \in 1..n + m
  BY <1>1
<1> HIDE DEF t
<1>3. 1..n + m = 1..n \cup (n + 1..n + m)
  BY <1>1
<1>4. Listed(t) = Listed(s) \cup Listed(r)
  <2>1. \A e \in Listed(t) : e \in Listed(s) \cup Listed(r)
    BY <1>1, <1>3 DEF Listed
  <2>2. \A e \in Listed(s) : e \in Listed(t)
    BY <1>1, <1>3 DEF Listed
  <2>3. \A e \in Listed(r) : e \in Listed(t)
    BY <1>1, <1>2 DEF Listed
  <2> QED BY <2>1, <2>2, <2>3
<1>5. ASSUME NoRepeat(s), NoRepeat(r), Listed(s) \cap Listed(r) = {} PROVE NoRepeat(t)
  <2> SUFFICES ASSUME NEW i \in 1..n + m, NEW j \in 1..n + m, t[i] = t[j] PROVE i = j
    BY <1>1 DEF NoRepeat
  <2>1. CASE i \in 1..n /\ j \in 1..n
    BY <1>1, <1>5, <2>1 DEF NoRepeat
  <2>2. CASE i \in n + 1..n + m /\ j \in n + 1..n + m
    <3>1. i - n \in 1..m /\ j - n \in 1..m /\ r[i - n] = r[j - n]
      BY <1>1, <2>2
    <3>2. i - n = j - n
      BY <1>5, <3>1 DEF NoRepeat
    <3> QED BY <1>1, <3>2
  <2>3. ASSUME NEW k \in 1..n, NEW l \in n + 1..n + m PROVE t[k] # t[l]
    <3>1. t[k] = s[k] /\ t[l] = r[l - n] /\ l - n \in 1..m
      BY <1>1
    <3>2. t[k] \in Listed(s) /\ t[l] \in Listed(r)
      BY <3>1 DEF Listed
    <3> QED BY <1>5, <3>2
  <2> QED BY <1>3, <2>1, <2>2, <2>3
<1> QED BY <1>1, <1>4, <1>5 DEF t
-----------------------------------------------------------------------------
(* Sums *)

\* What holds of a set whenever it holds of the set without any one element
\* holds of all the subsets of a finite set.
LEMMA ByRemoval ==
  ASSUME NEW D, IsFiniteSet(D), NEW T,
         \A S \in SUBSET D : (\A x \in S : S \ {x} \in T) => S \in T
  PROVE  \A S \in SUBSET D : S \in T
<1> DEFINE wrong == (SUBSET D) \ T
<1> SUFFICES ASSUME wrong # {} PROVE FALSE
  OBVIOUS
<1>1. wrong \subseteq FiniteSubsetsOf(D)
  BY FS_Subset DEF FiniteSubsetsOf
<1> HIDE DEF wrong
<1>2. PICK S \in wrong : \A U \in wrong : <<U, S>> \notin StrictSubsetOrdering(D)
  BY <1>1, FS_StrictSubsetOrderingWellFounded, WFMin, Zenon
<1>3. S \in SUBSET D /\ S \notin T
  BY <1>2 DEF wrong
<1>4. PICK x \in S : S \ {x} \notin T
  BY <1>3, Zenon
<1>5. S \ {x} \in wrong
  BY <1>3, <1>4 DEF wrong
<1>6. <<S \ {x}, S>> \in StrictSubsetOrdering(D)
  BY <1>3 DEF StrictSubsetOrdering
<1> QED BY <1>2, <1>5, <1>6

Some(S) == CHOOSE x \in S : TRUE
Summands(f) == IsFiniteSet(DOMAIN f) /\ \A x \in DOMAIN f : f[x] \in Int
SumsUp(over, f) ==
  over = [S \in SUBSET DOMAIN f |-> IF S = {} THEN 0 ELSE f[Some(S)] + over[S \ {Some(S)}]]

LEMMA SumsExist ==
  ASSUME NEW f, Summands(f)
  PROVE  \E over : SumsUp(over, f)
<1> DEFINE D == DOMAIN f
           n == Cardinality(D)
           F == [SUBSET D -> Int]
           part(g) == [S \in SUBSET D |-> IF S = {} THEN 0 ELSE f[Some(S)] + g[S \ {Some(S)}]]
           step == [p \in (1..n) \X F |-> part(p[2])]
           zero == [S \in SUBSET D |-> 0]
<1>1. IsFiniteSet(D) /\ (\A x \in D : f[x] \in Int) /\ n \in Nat
  BY FS_CardinalityType DEF Summands
<1>2. \A S \in SUBSET D : S # {} => Some(S) \in S
  BY DEF Some
<1> HIDE DEF D
<1>3. \A g \in F : part(g) \in F
  BY <1>1, <1>2
<1>4. zero \in F /\ step \in [(1..n) \X F -> F]
  <2> HIDE DEF part, F, n
  <2>1. \A p \in (1..n) \X F : part(p[2]) \in F
    BY <1>3
  <2>2. step \in [(1..n) \X F -> F]
    BY <2>1
  <2>3. zero \in F
    BY DEF F
  <2> QED BY <2>2, <2>3
<1>5. PICK w : Walks(w, F, zero, step, n)
  <2> HIDE DEF F, zero, step, n
  <2> QED BY <1>1, <1>4, Recursion
<1>6. /\ w \in [0..n -> F] /\ w[0] = zero
      /\ \A i \in 1..n : w[i] = part(w[i - 1])
  <2> HIDE DEF part, F, n
  <2>1. w \in [0..n -> F] /\ w[0] = zero /\ \A i \in 1..n : w[i] = step[<<i, w[i - 1]>>]
    BY <1>5, Zenon DEF Walks
  <2>2. \A i \in 1..n : <<i, w[i - 1]>> \in (1..n) \X F
    BY <1>1, <2>1
  <2> HIDE DEF zero
  <2>3. \A i \in 1..n : w[i] = part(w[i - 1])
    BY <2>1, <2>2
  <2> QED BY <2>1, <2>3
<1>7. \A S \in SUBSET D : Cardinality(S) \in 0..n
  BY <1>1, FS_Subset, FS_CardinalityType
<1> DEFINE h == [S \in SUBSET D |-> w[Cardinality(S)][S]]
<1>8. ASSUME NEW S \in SUBSET D
      PROVE  h[S] = IF S = {} THEN 0 ELSE f[Some(S)] + h[S \ {Some(S)}]
  <2>1. CASE S = {}
    BY <1>6, <2>1, FS_EmptySet
  <2>2. CASE S # {}
    <3> DEFINE x == Some(S)
               k == Cardinality(S)
    <3>1. x \in S
      BY <1>2, <2>2
    <3>2. Cardinality(S \ {x}) = k - 1 /\ k \in 1..n
      <4>1. IsFiniteSet(S)
        BY <1>1, FS_Subset
      <4>2. Cardinality(S \ {x}) = k - 1 /\ k # 0
        BY <2>2, <3>1, <4>1, FS_RemoveElement, FS_EmptySet
      <4> HIDE DEF n, k
      <4> QED BY <1>1, <1>7, <4>2 DEF k
    <3>3. h[S] = w[k][S] /\ h[S \ {x}] = w[k - 1][S \ {x}]
      <4> HIDE DEF x, n
      <4> QED BY <3>2
    <3>4. w[k] = part(w[k - 1])
      <4> HIDE DEF n, k, part
      <4> QED BY <1>6, <3>2
    <3> HIDE DEF h, k
    <3>5. w[k][S] = f[x] + w[k - 1][S \ {x}]
      BY <2>2, <3>4
    <3> QED BY <2>2, <3>3, <3>5
  <2> QED BY <2>1, <2>2
<1>9. h = [S \in SUBSET D |-> IF S = {} THEN 0 ELSE f[Some(S)] + h[S \ {Some(S)}]]
  <2> DEFINE val(S) == IF S = {} THEN 0 ELSE f[Some(S)] + h[S \ {Some(S)}]
  <2>1. \A S \in SUBSET D : h[S] = val(S)
    BY <1>8, Zenon
  <2> HIDE DEF val
  <2>2. h = [S \in SUBSET D |-> val(S)]
    BY <2>1, Zenon
  <2> QED BY <2>2, Zenon DEF val
<1> HIDE DEF h
<1> QED BY <1>9 DEF SumsUp, D

LEMMA SumLaw ==
  ASSUME NEW f, Summands(f)
  PROVE  \E over : /\ World!Sum(f) = over[DOMAIN f]
                   /\ \A S \in SUBSET DOMAIN f :
                        /\ over[S] = IF S = {} THEN 0 ELSE f[Some(S)] + over[S \ {Some(S)}]
                        /\ over[S] \in Int
<1> DEFINE over == CHOOSE w : SumsUp(w, f)
           D == DOMAIN f
<1>1. World!Sum(f) = over[D]
  BY DEF World!Sum, SumsUp, Some
<1>2. SumsUp(over, f)
  BY SumsExist, Zenon
<1> HIDE DEF over, D
<1>3. \A S \in SUBSET D : over[S] = IF S = {} THEN 0 ELSE f[Some(S)] + over[S \ {Some(S)}]
  BY <1>2 DEF SumsUp, D
<1> DEFINE T == {S \in SUBSET D : over[S] \in Int}
<1>4. ASSUME NEW S \in SUBSET D, \A x \in S : S \ {x} \in T PROVE S \in T
  <2>1. CASE S = {}
    <3>1. over[S] = 0
      BY <1>3, <2>1, Zenon
    <3> QED BY <3>1
  <2>2. CASE S # {}
    <3>1. Some(S) \in S
      BY <2>2 DEF Some
    <3>2. over[S \ {Some(S)}] \in Int /\ f[Some(S)] \in Int
      BY <1>4, <3>1 DEF Summands, D
    <3>3. over[S] = f[Some(S)] + over[S \ {Some(S)}]
      BY <1>3, <2>2, Zenon
    <3> QED BY <3>2, <3>3
  <2> QED BY <2>1, <2>2
<1>5. IsFiniteSet(D)
  BY DEF Summands, D
<1>6. \A S \in SUBSET D : S \in T
  <2> HIDE DEF T
  <2> QED BY <1>4, <1>5, ByRemoval
<1>7. \A S \in SUBSET D : over[S] \in Int
  BY <1>6
<1> HIDE DEF T
<1> QED BY <1>1, <1>3, <1>7, Zenon DEF D

LEMMA SumIsANumber ==
  ASSUME NEW f, Summands(f)
  PROVE  World!Sum(f) \in Int
BY SumLaw

LEMMA SumDiffers ==
  ASSUME NEW f, NEW g, NEW h, Summands(f), Summands(g), Summands(h),
         DOMAIN g = DOMAIN f, DOMAIN h = DOMAIN f, \A x \in DOMAIN f : h[x] = f[x] - g[x]
  PROVE  World!Sum(h) = World!Sum(f) - World!Sum(g)
<1> DEFINE D == DOMAIN f
           Law(over, e) ==
             \A S \in SUBSET D : /\ over[S] = IF S = {} THEN 0 ELSE e[Some(S)] + over[S \ {Some(S)}]
                                 /\ over[S] \in Int
<1>1. PICK a : World!Sum(f) = a[D] /\ Law(a, f)
  BY SumLaw, Zenon
<1>2. PICK b : World!Sum(g) = b[D] /\ Law(b, g)
  BY SumLaw, Zenon
<1>3. PICK c : World!Sum(h) = c[D] /\ Law(c, h)
  BY SumLaw, Zenon
<1> DEFINE T == {S \in SUBSET D : c[S] = a[S] - b[S]}
<1>4. ASSUME NEW S \in SUBSET D, \A x \in S : S \ {x} \in T PROVE S \in T
  <2>1. CASE S = {}
    <3>1. a[S] = 0 /\ b[S] = 0 /\ c[S] = 0
      BY <1>1, <1>2, <1>3, <2>1, Zenon
    <3> QED BY <3>1
  <2>2. CASE S # {}
    <3> DEFINE x == Some(S)
               R == S \ {x}
    <3>1. x \in S
      BY <2>2 DEF Some
    <3>2. c[R] = a[R] - b[R]
      BY <1>4, <3>1
    <3>3. a[R] \in Int /\ b[R] \in Int /\ c[R] \in Int
      BY <1>1, <1>2, <1>3
    <3>4. f[x] \in Int /\ g[x] \in Int /\ h[x] = f[x] - g[x]
      BY <3>1 DEF Summands
    <3> HIDE DEF T
    <3>5. a[S] = f[x] + a[R] /\ b[S] = g[x] + b[R] /\ c[S] = h[x] + c[R]
      BY <1>1, <1>2, <1>3, <2>2, Zenon
    <3> HIDE DEF x, R
    <3>6. c[S] = a[S] - b[S]
      BY <3>2, <3>3, <3>4, <3>5
    <3> QED BY <3>6 DEF T
  <2> QED BY <2>1, <2>2
<1>5. \A S \in SUBSET D : S \in T
  <2> HIDE DEF T, D
  <2>1. IsFiniteSet(D)
    BY DEF Summands, D
  <2> QED BY <1>4, <2>1, ByRemoval
<1>6. c[D] = a[D] - b[D]
  BY <1>5
<1> QED BY <1>1, <1>2, <1>3, <1>6
-----------------------------------------------------------------------------
(* Kahn's algorithm *)

LEMMA UpTo ==
  ASSUME NEW n \in Nat, NEW T, 0 \in T, \A i \in 1..n : i - 1 \in T => i \in T
  PROVE  \A i \in 0..n : i \in T
<1> DEFINE U == {i \in Nat : i <= n => i \in T}
<1>1. 0 \in U
  OBVIOUS
<1>2. ASSUME NEW i \in Nat, i \in U PROVE i + 1 \in U
  <2> SUFFICES ASSUME i + 1 <= n PROVE i + 1 \in T
    OBVIOUS
  <2>1. i + 1 \in 1..n /\ i + 1 - 1 = i /\ i \in T
    BY <1>2
  <2> QED BY <2>1
<1>3. Nat \subseteq U
  <2> HIDE DEF U
  <2> QED BY <1>1, <1>2, Counting
<1> QED BY <1>3

Keeps(kept, list, T) ==
  kept = [i \in 0..Len(list) |->
            IF i = 0 THEN <<>>
            ELSE IF list[i] \in T THEN Append(kept[i - 1], list[i]) ELSE kept[i - 1]]

LEMMA ThoseAreKept ==
  ASSUME NEW M, NEW list \in Seq(M), NEW T
  PROVE  \E kept : Keeps(kept, list, T)
<1> DEFINE n == Len(list)
           S == Seq(M)
           next(i, s) == IF list[i] \in T THEN Append(s, list[i]) ELSE s
           step == [p \in (1..n) \X S |-> next(p[1], p[2])]
<1>1. n \in Nat /\ <<>> \in S /\ step \in [(1..n) \X S -> S]
  OBVIOUS
<1>2. PICK w : Walks(w, S, <<>>, step, n)
  <2> HIDE DEF S, step, n
  <2> QED BY <1>1, Recursion
<1>3. w \in [0..n -> S] /\ w[0] = <<>> /\ \A i \in 1..n : w[i] = step[<<i, w[i - 1]>>]
  BY <1>2, Zenon DEF Walks
<1>4. \A i \in 1..n : w[i] = next(i, w[i - 1])
  <2> SUFFICES ASSUME NEW i \in 1..n PROVE w[i] = next(i, w[i - 1])
    OBVIOUS
  <2> HIDE DEF n, S, next
  <2>1. <<i, w[i - 1]>> \in (1..n) \X S
    BY <1>1, <1>3
  <2>2. step[<<i, w[i - 1]>>] = next(i, w[i - 1])
    BY <2>1
  <2> HIDE DEF step
  <2> QED BY <1>3, <2>2
<1>5. w = [i \in 0..n |-> IF i = 0 THEN <<>> ELSE next(i, w[i - 1])]
  <2> HIDE DEF n, S, next, step
  <2>1. \A i \in 0..n : w[i] = IF i = 0 THEN <<>> ELSE next(i, w[i - 1])
    BY <1>1, <1>3, <1>4
  <2> QED BY <1>3, <2>1
<1> QED BY <1>5 DEF Keeps

\* Filtering a list keeps what it should, and repeats nothing that it does not.
LEMMA ThoseOfAList ==
  ASSUME NEW M, NEW list \in Seq(M), NEW T
  PROVE  /\ World!Those(list, T) \in Seq(M)
         /\ Listed(World!Those(list, T)) = Listed(list) \cap T
         /\ NoRepeat(list) => NoRepeat(World!Those(list, T))
<1> DEFINE n == Len(list)
           kept == CHOOSE k : Keeps(k, list, T)
<1>1. World!Those(list, T) = kept[n]
  BY DEF World!Those, Keeps
<1>2. Keeps(kept, list, T)
  BY ThoseAreKept, Zenon
<1> HIDE DEF kept
<1>3. n \in Nat /\ \A i \in 1..n : list[i] \in M
  OBVIOUS
<1>4. /\ kept[0] = <<>>
      /\ \A i \in 1..n : kept[i] = IF list[i] \in T THEN Append(kept[i - 1], list[i]) ELSE kept[i - 1]
  <2> HIDE DEF n
  <2>1. kept = [i \in 0..n |-> IF i = 0 THEN <<>>
                               ELSE IF list[i] \in T THEN Append(kept[i - 1], list[i]) ELSE kept[i - 1]]
    BY <1>2 DEF Keeps, n
  <2>2. 0 \in 0..n /\ \A i \in 1..n : i \in 0..n /\ i # 0
    BY <1>3
  <2> QED BY <2>1, <2>2
<1> DEFINE upTo(i) == {list[j] : j \in 1..i}
           Good(i) == /\ kept[i] \in Seq(M) /\ Listed(kept[i]) = upTo(i) \cap T
                      /\ NoRepeat(list) => NoRepeat(kept[i])
<1>5. Good(0)
  BY <1>4 DEF Listed, NoRepeat
<1>6. ASSUME NEW i \in 1..n, Good(i - 1) PROVE Good(i)
  <2>1. upTo(i) = upTo(i - 1) \cup {list[i]} /\ (NoRepeat(list) => list[i] \notin upTo(i - 1))
    <3>1. 1..i = 1..i - 1 \cup {i} /\ i \notin 1..i - 1 /\ 1..i - 1 \subseteq 1..n
      BY <1>3
    <3> QED BY <3>1 DEF NoRepeat
  <2>2. CASE list[i] \in T
    <3> DEFINE s == kept[i - 1]
               x == list[i]
    <3>1. s \in Seq(M) /\ x \in M /\ kept[i] = Append(s, x)
      BY <1>3, <1>4, <1>6, <2>2
    <3>2. /\ Append(s, x) \in Seq(M) /\ Listed(Append(s, x)) = Listed(s) \cup {x}
          /\ NoRepeat(s) /\ x \notin Listed(s) => NoRepeat(Append(s, x))
      <4> HIDE DEF s, x
      <4> QED BY <3>1, Appended
    <3> HIDE DEF s, x, upTo
    <3>3. Listed(s) = upTo(i - 1) \cap T /\ (NoRepeat(list) => NoRepeat(s))
      BY <1>6 DEF s
    <3> QED BY <2>1, <2>2, <3>1, <3>2, <3>3 DEF x
  <2>3. CASE list[i] \notin T
    <3>1. kept[i] = kept[i - 1]
      BY <1>4, <2>3
    <3> HIDE DEF upTo
    <3> QED BY <1>6, <2>1, <2>3, <3>1
  <2> QED BY <2>2, <2>3
<1> DEFINE U == {i \in 0..n : Good(i)}
<1>7. \A i \in 0..n : i \in U
  <2>1. 0 \in U /\ \A i \in 1..n : i - 1 \in U => i \in U
    <3> HIDE DEF Good
    <3> QED BY <1>3, <1>5, <1>6
  <2> HIDE DEF U
  <2> QED BY <1>3, <2>1, UpTo
<1>8. Good(n)
  <2> HIDE DEF Good, n
  <2> QED BY <1>3, <1>7
<1>9. upTo(n) = Listed(list)
  BY DEF Listed
<1> QED BY <1>1, <1>8, <1>9

\* The variables of the model, each named once.
Named == names \in Seq(Keys) /\ NoRepeat(names)

LEMMA ModelledIsNamed ==
  ASSUME Named
  PROVE  /\ World!Modelled = Listed(names) /\ names \in Seq(World!Modelled)
         /\ \A S : World!Unlocked(S) \subseteq World!Modelled
         /\ \A v : World!Parents(v) \subseteq World!Modelled
<1>1. World!Modelled = Listed(names)
  BY DEF Named, Listed, World!Modelled, World!Range
<1>2. names \in Seq(Listed(names))
  BY DEF Named, Listed
<1> QED BY <1>1, <1>2 DEF World!Unlocked, World!Parents

\* What a round of the algorithm makes of the queue.
Longer(k, queue) ==
  IF Len(queue) < k THEN queue
  ELSE queue \o World!Those(names, World!Children(queue[k]) \cap World!Unlocked(World!First(queue, k)))
Rounds(round) ==
  round = [k \in 0..Len(names) |->
             IF k = 0 THEN World!Those(names, World!Unlocked({}))
             ELSE LET queue == round[k - 1]
                  IN IF Len(queue) < k THEN queue
                     ELSE queue \o World!Those(names, World!Children(queue[k])
                                                        \cap World!Unlocked(World!First(queue, k)))]

LEMMA RoundsExist ==
  ASSUME Named
  PROVE  \E round : Rounds(round)
<1> DEFINE n == Len(names)
           S == Seq(World!Modelled)
           a == World!Those(names, World!Unlocked({}))
           step == [p \in (1..n) \X S |-> Longer(p[1], p[2])]
<1>1. n \in Nat
  BY DEF Named
<1>2. \A T : World!Those(names, T) \in S
  BY ModelledIsNamed, ThoseOfAList
<1>3. \A k \in 1..n : \A q \in S : Longer(k, q) \in S
  BY <1>2 DEF Longer
<1>4. a \in S /\ step \in [(1..n) \X S -> S]
  <2> HIDE DEF n, S
  <2> QED BY <1>2, <1>3
<1>5. PICK w : Walks(w, S, a, step, n)
  <2> HIDE DEF S, step, n, a
  <2> QED BY <1>1, <1>4, Recursion
<1>6. w \in [0..n -> S] /\ w[0] = a /\ \A i \in 1..n : w[i] = step[<<i, w[i - 1]>>]
  BY <1>5, Zenon DEF Walks
<1>7. \A i \in 1..n : w[i] = Longer(i, w[i - 1])
  <2> SUFFICES ASSUME NEW i \in 1..n PROVE w[i] = Longer(i, w[i - 1])
    OBVIOUS
  <2> HIDE DEF n, S, a
  <2>1. <<i, w[i - 1]>> \in (1..n) \X S
    BY <1>1, <1>6
  <2>2. step[<<i, w[i - 1]>>] = Longer(i, w[i - 1])
    BY <2>1
  <2> HIDE DEF step
  <2> QED BY <1>6, <2>2
<1>8. w = [i \in 0..n |-> IF i = 0 THEN a ELSE Longer(i, w[i - 1])]
  <2> HIDE DEF n, S, a, step
  <2>1. \A i \in 0..n : w[i] = IF i = 0 THEN a ELSE Longer(i, w[i - 1])
    BY <1>1, <1>6, <1>7
  <2> QED BY <1>6, <2>1
<1> QED BY <1>8, Zenon DEF Rounds, Longer

\* The first k of a list, or all of it.
Taken(q, k) == {q[i] : i \in {j \in 1..Len(q) : j <= k}}
\* Every variable of a list comes after its parents.
ParentsFirst(q) ==
  /\ q \in Seq(World!Modelled) /\ NoRepeat(q)
  /\ \A i \in 1..Len(q) : World!Parents(q[i]) \subseteq World!First(q, i - 1)
\* After k rounds the queue holds what the variables taken so far unlock.
Queued(k, q) == ParentsFirst(q) /\ Listed(q) = World!Unlocked(Taken(q, k))

LEMMA FirstRound ==
  ASSUME Named
  PROVE  Queued(0, World!Those(names, World!Unlocked({})))
<1> DEFINE q == World!Those(names, World!Unlocked({}))
<1>1. /\ q \in Seq(World!Modelled) /\ Listed(q) = Listed(names) \cap World!Unlocked({})
      /\ NoRepeat(names) => NoRepeat(q)
  BY ModelledIsNamed, ThoseOfAList
<1> HIDE DEF q
<1>2. Listed(q) = World!Unlocked({}) /\ NoRepeat(q)
  BY <1>1, ModelledIsNamed DEF Named
<1>3. Taken(q, 0) = {}
  BY <1>1 DEF Taken
<1>4. ASSUME NEW i \in 1..Len(q) PROVE World!Parents(q[i]) \subseteq World!First(q, i - 1)
  <2>1. q[i] \in World!Unlocked({})
    BY <1>2 DEF Listed
  <2> QED BY <2>1 DEF World!Unlocked
<1>5. Queued(0, q)
  BY <1>1, <1>2, <1>3, <1>4 DEF Queued, ParentsFirst
<1> QED BY <1>5 DEF q

LEMMA NextRound ==
  ASSUME Named, NEW k \in 1..Len(names), NEW q, Queued(k - 1, q)
  PROVE  Queued(k, Longer(k, q))
<1>1. k \in Nat /\ k >= 1
  BY DEF Named
<1>2. /\ q \in Seq(World!Modelled) /\ NoRepeat(q) /\ Listed(q) = World!Unlocked(Taken(q, k - 1))
      /\ \A i \in 1..Len(q) : World!Parents(q[i]) \subseteq World!First(q, i - 1)
  BY DEF Queued, ParentsFirst
<1>3. CASE Len(q) < k
  <2>1. Taken(q, k) = Taken(q, k - 1)
    BY <1>1, <1>2, <1>3 DEF Taken
  <2> QED BY <1>3, <2>1 DEF Queued, Longer
<1>4. CASE k <= Len(q)
  <2> DEFINE x == q[k]
             taken == World!First(q, k)
             new == World!Children(x) \cap World!Unlocked(taken)
             r == World!Those(names, new)
             t == q \o r
  <2>1. /\ r \in Seq(World!Modelled) /\ Listed(r) = Listed(names) \cap new
        /\ NoRepeat(names) => NoRepeat(r)
    BY ModelledIsNamed, ThoseOfAList
  <2>2. Listed(r) = new /\ NoRepeat(r)
    <3>1. new \subseteq World!Modelled
      BY DEF World!Children
    <3> HIDE DEF new, r
    <3> QED BY <2>1, <3>1, ModelledIsNamed DEF Named
  <2>3. k \in 1..Len(q)
    BY <1>1, <1>2, <1>4
  <2>4. Taken(q, k - 1) = World!First(q, k - 1) /\ taken = World!First(q, k - 1) \cup {x}
    <3>1. {j \in 1..Len(q) : j <= k - 1} = 1..k - 1 /\ 1..k = 1..k - 1 \cup {k}
      BY <1>1, <1>2, <1>4
    <3> QED BY <3>1 DEF Taken, World!First
  <2>5. x \notin World!First(q, k - 1)
    BY <1>2, <2>3 DEF NoRepeat, World!First
  <2>6. World!Unlocked(taken) = Listed(q) \cup new
    <3> HIDE DEF x, taken
    <3> QED BY <1>2, <2>4 DEF World!Unlocked, World!Children
  <2>7. Listed(q) \cap new = {}
    <3> HIDE DEF x, taken
    <3> QED BY <1>2, <2>4, <2>5 DEF World!Unlocked, World!Children
  <2> HIDE DEF r
  <2>8. /\ t \in Seq(World!Modelled) /\ Len(t) = Len(q) + Len(r) /\ Listed(t) = Listed(q) \cup Listed(r)
        /\ \A i \in 1..Len(q) : t[i] = q[i]
        /\ \A i \in Len(q) + 1..Len(t) : t[i] = r[i - Len(q)] /\ i - Len(q) \in 1..Len(r)
        /\ NoRepeat(q) /\ NoRepeat(r) /\ Listed(q) \cap Listed(r) = {} => NoRepeat(t)
    BY <1>2, <2>1, Joined
  <2>9. NoRepeat(t) /\ Listed(t) = World!Unlocked(taken)
    <3> HIDE DEF new, taken, t
    <3> QED BY <1>2, <2>2, <2>6, <2>7, <2>8
  <2> HIDE DEF t
  <2>10. Len(q) \in Nat /\ Len(r) \in Nat
    BY <1>2, <2>1
  <2>11. \A j \in 0..Len(q) : World!First(t, j) = World!First(q, j)
    <3>1. \A j \in 0..Len(q) : 1..j \subseteq 1..Len(q)
      BY <2>10
    <3> QED BY <2>8, <3>1 DEF World!First
  <2>12. Taken(t, k) = taken
    <3>1. {j \in 1..Len(t) : j <= k} = 1..k
      BY <2>3, <2>8, <2>10
    <3>2. Taken(t, k) = World!First(t, k)
      BY <3>1 DEF Taken, World!First
    <3> QED BY <2>3, <2>10, <2>11, <3>2
  <2>13. ASSUME NEW i \in 1..Len(t) PROVE World!Parents(t[i]) \subseteq World!First(t, i - 1)
    <3>1. CASE i <= Len(q)
      <4>1. i \in 1..Len(q) /\ i - 1 \in 0..Len(q)
        BY <2>8, <2>10, <3>1
      <4> QED BY <1>2, <2>8, <2>11, <4>1
    <3>2. CASE i > Len(q)
      <4>1. i \in Len(q) + 1..Len(t) /\ k <= i - 1
        BY <1>4, <1>1, <2>8, <2>10, <3>2
      <4>2. t[i] \in Listed(r)
        BY <2>8, <4>1 DEF Listed
      <4>3. World!Parents(t[i]) \subseteq taken
        BY <2>2, <4>2 DEF World!Unlocked
      <4>4. taken = World!First(t, k)
        BY <2>3, <2>10, <2>11
      <4>5. 1..k \subseteq 1..i - 1
        BY <1>1, <2>10, <4>1
      <4>6. World!First(t, k) \subseteq World!First(t, i - 1)
        BY <4>5 DEF World!First
      <4> QED BY <4>3, <4>4, <4>6
    <3> QED BY <2>8, <2>10, <3>1, <3>2
  <2>14. Queued(k, t)
    <3> HIDE DEF taken
    <3> QED BY <2>8, <2>9, <2>12, <2>13 DEF Queued, ParentsFirst
  <2>15. Longer(k, q) = t
    BY <1>1, <1>2, <1>4 DEF Longer, t, r
  <2> QED BY <2>14, <2>15
<1> QED BY <1>1, <1>2, <1>3, <1>4

LEMMA KahnIsQueued ==
  ASSUME Named
  PROVE  Queued(Len(names), World!Kahn)
<1> DEFINE n == Len(names)
           round == CHOOSE r : Rounds(r)
<1>1. World!Kahn = round[n]
  BY DEF World!Kahn, Rounds
<1>2. Rounds(round)
  BY RoundsExist, Zenon
<1> HIDE DEF round
<1>3. n \in Nat
  BY DEF Named
<1>4. /\ round[0] = World!Those(names, World!Unlocked({}))
      /\ \A k \in 1..n : round[k] = Longer(k, round[k - 1])
  <2> DEFINE a == World!Those(names, World!Unlocked({}))
  <2>1. round = [k \in 0..n |-> IF k = 0 THEN a ELSE Longer(k, round[k - 1])]
    BY <1>2, Zenon DEF Rounds, Longer
  <2>2. 0 \in 0..n /\ \A k \in 1..n : k \in 0..n /\ k # 0
    BY <1>3
  <2> HIDE DEF a, n
  <2>3. round[0] = a /\ \A k \in 1..n : round[k] = Longer(k, round[k - 1])
    BY <2>1, <2>2
  <2> QED BY <2>3 DEF a
<1> DEFINE U == {k \in 0..n : Queued(k, round[k])}
<1>5. Queued(0, round[0])
  BY <1>4, FirstRound
<1>6. ASSUME NEW k \in 1..n, Queued(k - 1, round[k - 1]) PROVE Queued(k, round[k])
  <2>1. Queued(k, Longer(k, round[k - 1]))
    BY <1>6, NextRound
  <2> QED BY <1>4, <2>1
<1>7. \A k \in 0..n : k \in U
  <2>1. 0 \in U /\ \A k \in 1..n : k - 1 \in U => k \in U
    <3> HIDE DEF n
    <3> QED BY <1>3, <1>5, <1>6
  <2> HIDE DEF U, n
  <2> QED BY <1>3, <2>1, UpTo
<1>8. Queued(n, round[n])
  <2> HIDE DEF n
  <2> QED BY <1>3, <1>7
<1> QED BY <1>1, <1>8

LEMMA Counted ==
  ASSUME NEW M, NEW s \in Seq(M), NoRepeat(s)
  PROVE  IsFiniteSet(Listed(s)) /\ Cardinality(Listed(s)) = Len(s)
<1> DEFINE n == Len(s)
           f == [i \in 1..n |-> s[i]]
           E == Listed(s)
<1>1. n \in Nat /\ IsFiniteSet(1..n) /\ Cardinality(1..n) = n
  <2>1. n \in Nat
    OBVIOUS
  <2> HIDE DEF n
  <2>2. IsFiniteSet(1..n) /\ Cardinality(1..n) = n
    BY <2>1, FS_Interval
  <2> QED BY <2>1, <2>2
<1>2. f \in Bijection(1..n, E)
  <2>1. f \in [1..n -> E] /\ \A e \in E : \E i \in 1..n : f[i] = e
    BY DEF Listed
  <2>2. \A i, j \in 1..n : f[i] = f[j] => i = j
    BY DEF NoRepeat
  <2> HIDE DEF f, n, E
  <2>3. IsInjective(f)
    BY <2>1, <2>2 DEF IsInjective
  <2> QED BY <2>1, <2>3 DEF Bijection, Injection, Surjection
<1>3. ExistsBijection(1..n, E)
  BY <1>2, Zenon DEF ExistsBijection
<1> HIDE DEF n, E
<1>4. IsFiniteSet(E) /\ Cardinality(E) = Cardinality(1..n)
  BY <1>1, <1>3, FS_Bijection
<1> QED BY <1>1, <1>4 DEF n, E

\* Without cycles, all the variables are in the queue in the end.
LEMMA KahnIsComplete ==
  ASSUME Named, World!Acyclic
  PROVE  ParentsFirst(World!Kahn) /\ Listed(World!Kahn) = World!Modelled
<1> DEFINE q == World!Kahn
           n == Len(names)
<1>1. ParentsFirst(q) /\ Listed(q) = World!Unlocked(Taken(q, n))
  BY KahnIsQueued DEF Queued
<1> HIDE DEF q
<1>2. Listed(q) \subseteq World!Modelled
  BY <1>1, ModelledIsNamed
<1>3. n \in Nat /\ Len(q) \in Nat /\ Len(q) <= n
  <2>1. IsFiniteSet(World!Modelled) /\ Cardinality(World!Modelled) = n
    BY Counted, ModelledIsNamed DEF Named
  <2>2. Cardinality(Listed(q)) = Len(q)
    BY <1>1, Counted DEF ParentsFirst
  <2>3. Cardinality(Listed(q)) <= Cardinality(World!Modelled)
    BY <1>2, <2>1, FS_Subset
  <2>4. n \in Nat /\ Len(q) \in Nat
    BY <1>1 DEF ParentsFirst, Named
  <2> QED BY <2>1, <2>2, <2>3, <2>4
<1>4. Taken(q, n) = Listed(q)
  <2>1. {j \in 1..Len(q) : j <= n} = 1..Len(q)
    BY <1>3
  <2> QED BY <2>1 DEF Taken, Listed
<1> DEFINE S == World!Modelled \ Listed(q)
<1>5. ASSUME S # {} PROVE FALSE
  <2>1. PICK v \in S : World!Parents(v) \cap S = {}
    <3>1. S \in (SUBSET World!Modelled) \ {{}}
      BY <1>5
    <3> HIDE DEF S
    <3> QED BY <3>1, Zenon DEF World!Acyclic
  <2>2. World!Parents(v) \subseteq Listed(q)
    BY <2>1, ModelledIsNamed
  <2>3. v \in World!Unlocked(Listed(q))
    BY <2>2 DEF World!Unlocked
  <2> QED BY <1>1, <1>4, <2>3
<1>6. Listed(q) = World!Modelled
  BY <1>2, <1>5
<1> QED BY <1>1, <1>6 DEF q

\* The order is one of all the variables, each after its parents.
LEMMA OrderIsTopological ==
  ASSUME Named, World!Acyclic
  PROVE  ParentsFirst(World!TopologicalOrder) /\ Listed(World!TopologicalOrder) = World!Modelled
<1> DEFINE q == World!Kahn
           r == World!Those(names, World!Modelled \ World!Range(q))
           t == q \o r
<1>1. ParentsFirst(q) /\ Listed(q) = World!Modelled
  BY KahnIsComplete
<1> HIDE DEF q
<1>2. q \in Seq(World!Modelled) /\ Len(q) \in Nat
  BY <1>1 DEF ParentsFirst
<1>3. World!Range(q) = World!Modelled
  BY <1>1, <1>2 DEF World!Range, Listed
<1>4. r \in Seq(World!Modelled) /\ Listed(r) = {}
  <2>1. /\ r \in Seq(World!Modelled)
        /\ Listed(r) = Listed(names) \cap (World!Modelled \ World!Range(q))
    BY ModelledIsNamed, ThoseOfAList
  <2> QED BY <1>3, <2>1
<1> HIDE DEF r
<1>5. Len(r) = 0
  <2>1. Len(r) \in Nat
    BY <1>4
  <2>2. 1 \in 1..Len(r) => r[1] \in Listed(r)
    BY DEF Listed
  <2> QED BY <1>4, <2>1, <2>2
<1>6. t = q
  BY <1>2, <1>4, <1>5
<1>7. World!TopologicalOrder = t
  BY DEF World!TopologicalOrder, q, r
<1> QED BY <1>1, <1>6, <1>7
-----------------------------------------------------------------------------
(* Evaluation *)

\* Every variable of the model has an equation, in numbers.
Fitted ==
  /\ \A v \in World!Modelled :
       /\ v \in DOMAIN equations /\ equations[v].intercept \in Int
       /\ \A p \in DOMAIN equations[v].weights : equations[v].weights[p] \in Int

Weighted(v, s) == [p \in World!Parents(v) |-> equations[v].weights[p] * s[p]]

LEMMA PredictedIsANumber ==
  ASSUME Named, Fitted, NEW v \in World!Modelled, NEW D \in SUBSET World!Modelled, NEW s \in [D -> Int]
  PROVE  /\ World!Predicted(v, s) \in Int
         /\ World!Parents(v) \subseteq D =>
              /\ World!Predicted(v, s) = equations[v].intercept + World!Sum(Weighted(v, s))
              /\ World!Sum(Weighted(v, s)) \in Int
<1> DEFINE weights == equations[v].weights
           f == [p \in DOMAIN weights \cap DOMAIN s |-> weights[p] * s[p]]
<1>1. World!Predicted(v, s) = equations[v].intercept + World!Sum(f)
  BY DEF World!Predicted
<1>2. equations[v].intercept \in Int /\ \A p \in DOMAIN weights : weights[p] \in Int
  BY DEF Fitted
<1>3. IsFiniteSet(World!Modelled)
  BY ModelledIsNamed, Counted DEF Named
<1>4. Summands(f)
  <2> DEFINE E == DOMAIN weights \cap DOMAIN s
  <2>1. E \subseteq D /\ \A p \in E : s[p] \in Int /\ weights[p] \in Int
    BY <1>2
  <2>2. IsFiniteSet(E)
    BY <1>3, <2>1, FS_Subset
  <2> HIDE DEF weights, E
  <2>3. DOMAIN f = E /\ \A p \in E : f[p] = weights[p] * s[p]
    BY DEF E
  <2>4. \A p \in E : f[p] \in Int
    BY <2>1, <2>3
  <2> HIDE DEF f
  <2> QED BY <2>2, <2>3, <2>4 DEF Summands
<1>5. World!Sum(f) \in Int
  BY <1>4, SumIsANumber
<1>6. ASSUME World!Parents(v) \subseteq D PROVE f = Weighted(v, s)
  <2>1. DOMAIN weights \cap DOMAIN s = World!Parents(v)
    BY <1>6 DEF World!Parents
  <2> QED BY <2>1, Zenon DEF Weighted
<1> HIDE DEF f
<1> QED BY <1>1, <1>2, <1>5, <1>6

LEMMA Apart ==
  ASSUME NEW w \in Int, NEW a \in Int, NEW b \in Int
  PROVE  w * (a - b) = w * a - w * b
OBVIOUS

\* What a pass makes of the values so far when it comes to a variable.
After(s, v, noise, do) ==
  World!With(s, v, IF v \in DOMAIN do THEN do[v]
                   ELSE World!Predicted(v, World!Over(s, <<>>)) + noise[v])
Passes(state, sequence, noise, do) ==
  state = [k \in 0..Len(sequence) |->
             IF k = 0 THEN <<>>
             ELSE LET v == sequence[k]
                  IN  World!With(state[k - 1], v,
                                 IF v \in DOMAIN do THEN do[v]
                                 ELSE World!Predicted(v, World!Over(state[k - 1], <<>>)) + noise[v])]

\* Numbers for the variables that an intervention sets, and noise for them all.
Given(noise, do) == noise \in [World!Modelled -> Int] /\ \A v \in DOMAIN do : do[v] \in Int

Extends(t, s, D, v, noise, do) ==
  /\ t \in [D \cup {v} -> Int]
  /\ \A u \in D \ {v} : t[u] = s[u]
  /\ t[v] = IF v \in DOMAIN do THEN do[v] ELSE World!Predicted(v, s) + noise[v]

LEMMA AfterAVariable ==
  ASSUME Named, Fitted, NEW noise, NEW do, Given(noise, do),
         NEW D \in SUBSET World!Modelled, NEW s \in [D -> Int], NEW v \in World!Modelled
  PROVE  Extends(After(s, v, noise, do), s, D, v, noise, do)
<1> DEFINE y == IF v \in DOMAIN do THEN do[v] ELSE World!Predicted(v, s) + noise[v]
           t == After(s, v, noise, do)
<1>1. World!Over(s, <<>>) = s
  <2>1. DOMAIN s \cup DOMAIN <<>> = D
    OBVIOUS
  <2>2. World!Over(s, <<>>) = [u \in D |-> IF u \in D THEN s[u] ELSE <<>>[u]]
    BY <2>1, Zenon DEF World!Over
  <2> QED BY <2>2
<1>2. t = World!With(s, v, y)
  BY <1>1, Zenon DEF After
<1>3. y \in Int
  <2>1. World!Predicted(v, s) \in Int
    BY PredictedIsANumber
  <2>2. noise[v] \in Int /\ (v \in DOMAIN do => do[v] \in Int)
    BY DEF Given
  <2> QED BY <2>1, <2>2
<1> HIDE DEF y
<1>4. t = [u \in D \cup {v} |-> IF u = v THEN y ELSE s[u]]
  BY <1>2 DEF World!With
<1> HIDE DEF t
<1>5. t \in [D \cup {v} -> Int] /\ (\A u \in D \ {v} : t[u] = s[u]) /\ t[v] = y
  BY <1>3, <1>4
<1> QED BY <1>5, Zenon DEF t, y, Extends

\* Some of the variables' values.
Valuations == UNION {[D -> Int] : D \in SUBSET World!Modelled}

LEMMA PassesExist ==
  ASSUME Named, Fitted, NEW noise, NEW do, Given(noise, do), NEW o \in Seq(World!Modelled)
  PROVE  \E state : Passes(state, o, noise, do)
<1> DEFINE n == Len(o)
           S == Valuations
           next(k, s) == After(s, o[k], noise, do)
           step == [p \in (1..n) \X S |-> next(p[1], p[2])]
<1>1. n \in Nat /\ \A k \in 1..n : o[k] \in World!Modelled
  OBVIOUS
<1>2. <<>> \in S
  <2>1. <<>> \in [{} -> Int] /\ {} \in SUBSET World!Modelled
    OBVIOUS
  <2> QED BY <2>1 DEF Valuations
<1>3. \A k \in 1..n : \A s \in S : next(k, s) \in S
  <2> SUFFICES ASSUME NEW k \in 1..n, NEW s \in S PROVE next(k, s) \in S
    OBVIOUS
  <2>1. PICK D \in SUBSET World!Modelled : s \in [D -> Int]
    BY DEF Valuations
  <2>2. o[k] \in World!Modelled
    BY <1>1
  <2>3. next(k, s) \in [D \cup {o[k]} -> Int]
    BY <2>1, <2>2, AfterAVariable DEF Extends
  <2>4. D \cup {o[k]} \in SUBSET World!Modelled
    BY <2>2
  <2> HIDE DEF next
  <2> QED BY <2>3, <2>4 DEF Valuations
<1>4. step \in [(1..n) \X S -> S]
  <2> HIDE DEF n, S, next
  <2> QED BY <1>3
<1>5. PICK w : Walks(w, S, <<>>, step, n)
  <2> HIDE DEF S, step, n
  <2> QED BY <1>1, <1>2, <1>4, Recursion
<1>6. w \in [0..n -> S] /\ w[0] = <<>> /\ \A i \in 1..n : w[i] = step[<<i, w[i - 1]>>]
  BY <1>5, Zenon DEF Walks
<1>7. \A i \in 1..n : w[i] = next(i, w[i - 1])
  <2> SUFFICES ASSUME NEW i \in 1..n PROVE w[i] = next(i, w[i - 1])
    OBVIOUS
  <2> HIDE DEF n, S, next
  <2>1. <<i, w[i - 1]>> \in (1..n) \X S
    BY <1>1, <1>6
  <2>2. step[<<i, w[i - 1]>>] = next(i, w[i - 1])
    BY <2>1
  <2> HIDE DEF step
  <2> QED BY <1>6, <2>2
<1>8. w = [i \in 0..n |-> IF i = 0 THEN <<>> ELSE next(i, w[i - 1])]
  <2> HIDE DEF n, S, next, step
  <2>1. \A i \in 0..n : w[i] = IF i = 0 THEN <<>> ELSE next(i, w[i - 1])
    BY <1>1, <1>6, <1>7
  <2> QED BY <1>6, <2>1
<1> QED BY <1>8, Zenon DEF Passes, After

\* The value that a variable's equation gives it.
Solved(v, state, noise, do) ==
  state[v] = IF v \in DOMAIN do THEN do[v]
             ELSE equations[v].intercept + World!Sum(Weighted(v, state)) + noise[v]
Solves(state, noise, do) ==
  state \in [World!Modelled -> Int] /\ \A v \in World!Modelled : Solved(v, state, noise, do)

\* The values of more variables leave the sums over the others' parents alone.
LEMMA StillSolved ==
  ASSUME NEW noise, NEW do, NEW D, NEW s, NEW t, NEW v \in D, Solved(v, s, noise, do),
         World!Parents(v) \subseteq D, \A u \in D : t[u] = s[u]
  PROVE  Solved(v, t, noise, do)
<1>1. Weighted(v, t) = Weighted(v, s)
  BY DEF Weighted
<1>2. t[v] = s[v]
  OBVIOUS
<1> QED BY <1>1, <1>2, Zenon DEF Solved

\* Each variable is evaluated once, after its parents.
LEMMA EvaluationSolves ==
  ASSUME Named, Fitted, NEW noise, NEW do, Given(noise, do),
         ParentsFirst(World!CurrentOrder), Listed(World!CurrentOrder) = World!Modelled
  PROVE  Solves(World!Evaluate(noise, do), noise, do)
<1> DEFINE o == World!CurrentOrder
           n == Len(o)
           state == CHOOSE w : Passes(w, o, noise, do)
<1>1. World!Evaluate(noise, do) = state[n]
  BY DEF World!Evaluate, World!Pass, Passes
<1> HIDE DEF o
<1>2. /\ o \in Seq(World!Modelled) /\ NoRepeat(o) /\ n \in Nat
      /\ \A i \in 1..n : o[i] \in World!Modelled /\ World!Parents(o[i]) \subseteq World!First(o, i - 1)
  BY DEF ParentsFirst, o
<1>3. Passes(state, o, noise, do)
  BY <1>2, PassesExist, Zenon
<1> HIDE DEF state
<1>4. /\ state[0] = <<>>
      /\ \A k \in 1..n : state[k] = After(state[k - 1], o[k], noise, do)
  <2>1. state = [k \in 0..n |-> IF k = 0 THEN <<>> ELSE After(state[k - 1], o[k], noise, do)]
    BY <1>3, Zenon DEF Passes, After
  <2>2. 0 \in 0..n /\ \A k \in 1..n : k \in 0..n /\ k # 0
    BY <1>2
  <2> HIDE DEF n
  <2> QED BY <2>1, <2>2
<1> DEFINE D(k) == World!First(o, k)
           Good(k) == /\ state[k] \in [D(k) -> Int]
                      /\ \A i \in 1..k : Solved(o[i], state[k], noise, do)
<1>5. \A k \in 0..n : /\ D(k) \in SUBSET World!Modelled
                      /\ \A i \in 1..k : o[i] \in D(k) /\ D(i - 1) \subseteq D(k)
  <2>1. \A k \in 0..n : \A i \in 1..k : i \in 1..n /\ \A j \in 1..i - 1 : j \in 1..k
    BY <1>2
  <2> QED BY <1>2, <2>1 DEF World!First
<1>6. Good(0)
  <2>1. D(0) = {}
    BY DEF World!First
  <2> QED BY <1>4, <2>1
<1>7. ASSUME NEW k \in 1..n, Good(k - 1) PROVE Good(k)
  <2> DEFINE v == o[k]
             s == state[k - 1]
             t == state[k]
  <2>1. k - 1 \in 0..n /\ k \in 0..n /\ 1..k = 1..k - 1 \cup {k} /\ k - 1 \in Nat
    BY <1>2
  <2>2. v \in World!Modelled /\ World!Parents(v) \subseteq D(k - 1) /\ D(k) = D(k - 1) \cup {v}
    BY <1>2, <2>1 DEF World!First
  <2>3. v \notin D(k - 1)
    <3>1. \A i \in 1..k - 1 : i \in 1..n /\ i # k
      BY <1>2
    <3> QED BY <1>2, <3>1 DEF World!First, NoRepeat
  <2>4. s \in [D(k - 1) -> Int] /\ D(k - 1) \in SUBSET World!Modelled /\ t = After(s, v, noise, do)
    BY <1>4, <1>5, <1>7, <2>1
  <2> HIDE DEF s, t, v, D
  <2>5. /\ t \in [D(k) -> Int]
        /\ \A u \in D(k - 1) : t[u] = s[u]
        /\ t[v] = IF v \in DOMAIN do THEN do[v] ELSE World!Predicted(v, s) + noise[v]
    <3> DEFINE E == D(k - 1)
    <3>1. s \in [E -> Int] /\ E \in SUBSET World!Modelled /\ v \in World!Modelled
      BY <2>2, <2>4
    <3> HIDE DEF E
    <3>2. Extends(t, s, E, v, noise, do)
      BY <2>4, <3>1, AfterAVariable
    <3>3. E \ {v} = E
      BY <2>3 DEF E
    <3> QED BY <2>2, <3>2, <3>3, Zenon DEF E, Extends
  <2>6. Weighted(v, t) = Weighted(v, s)
    BY <2>2, <2>5 DEF Weighted
  <2>7. World!Predicted(v, s) = equations[v].intercept + World!Sum(Weighted(v, s))
    BY <2>2, <2>4, PredictedIsANumber
  <2>8. Solved(v, t, noise, do)
    BY <2>5, <2>6, <2>7, Zenon DEF Solved
  <2>9. ASSUME NEW i \in 1..k - 1 PROVE Solved(o[i], t, noise, do)
    <3>1. Solved(o[i], s, noise, do)
      BY <1>7 DEF s
    <3>2. i \in 1..n
      BY <1>2
    <3>3. World!Parents(o[i]) \subseteq D(k - 1) /\ o[i] \in D(k - 1)
      BY <1>2, <1>5, <2>1, <3>2 DEF D
    <3> QED BY <2>5, <3>1, <3>3, StillSolved
  <2>10. \A i \in 1..k : Solved(o[i], t, noise, do)
    BY <2>1, <2>8, <2>9 DEF v
  <2> QED BY <2>5, <2>10 DEF t
<1> DEFINE U == {k \in 0..n : Good(k)}
<1>8. \A k \in 0..n : k \in U
  <2>1. 0 \in U /\ \A k \in 1..n : k - 1 \in U => k \in U
    <3> HIDE DEF Good
    <3> QED BY <1>2, <1>6, <1>7
  <2> HIDE DEF U, n
  <2> QED BY <1>2, <2>1, UpTo
<1>9. Good(n)
  <2> HIDE DEF Good, n
  <2> QED BY <1>2, <1>8
<1>10. D(n) = World!Modelled /\ World!Modelled = Listed(o)
  BY DEF World!First, Listed, o
<1>11. ASSUME NEW v \in World!Modelled PROVE Solved(v, state[n], noise, do)
  <2>1. PICK i \in 1..n : v = o[i]
    BY <1>10 DEF Listed
  <2> QED BY <1>9, <2>1
<1> QED BY <1>1, <1>9, <1>10, <1>11 DEF Solves

\* The noise is what the equations do not explain.
LEMMA NoiseIsAbducted ==
  ASSUME Named, Fitted, NEW observed \in [World!Modelled -> Int]
  PROVE  /\ World!Abducted(observed) \in [World!Modelled -> Int]
         /\ \A v \in World!Modelled :
              /\ World!Sum(Weighted(v, observed)) \in Int
              /\ World!Abducted(observed)[v]
                   = observed[v] - (equations[v].intercept + World!Sum(Weighted(v, observed)))
<1>1. \A v \in World!Modelled :
        World!Abducted(observed)[v] = observed[v] - World!Predicted(v, observed)
  BY DEF World!Abducted
<1>2. \A v \in World!Modelled :
        /\ World!Predicted(v, observed) \in Int /\ World!Sum(Weighted(v, observed)) \in Int
        /\ World!Predicted(v, observed) = equations[v].intercept + World!Sum(Weighted(v, observed))
  <2> SUFFICES ASSUME NEW v \in World!Modelled
               PROVE  /\ World!Predicted(v, observed) \in Int /\ World!Sum(Weighted(v, observed)) \in Int
                      /\ World!Predicted(v, observed)
                           = equations[v].intercept + World!Sum(Weighted(v, observed))
    OBVIOUS
  <2>1. World!Parents(v) \subseteq World!Modelled
    BY DEF World!Parents
  <2> DEFINE M == World!Modelled
  <2>2. M \in SUBSET World!Modelled /\ observed \in [M -> Int] /\ World!Parents(v) \subseteq M
    BY <2>1
  <2> HIDE DEF M
  <2> QED BY <2>2, PredictedIsANumber
<1>3. \A v \in World!Modelled : World!Abducted(observed)[v] \in Int
  BY <1>1, <1>2
<1>4. World!Abducted(observed) \in [World!Modelled -> Int]
  <2>1. World!Abducted(observed) = [v \in World!Modelled |-> World!Abducted(observed)[v]]
    BY DEF World!Abducted
  <2> QED BY <1>3, <2>1
<1> QED BY <1>1, <1>2, <1>4

\* The parents' contributions to two valuations differ by those of the differences.
LEMMA ContributionsDiffer ==
  ASSUME Named, Fitted, NEW v \in World!Modelled,
         NEW s \in [World!Modelled -> Int], NEW o \in [World!Modelled -> Int]
  PROVE  /\ World!Sum([p \in World!Parents(v) |-> equations[v].weights[p] * (s[p] - o[p])])
              = World!Sum(Weighted(v, s)) - World!Sum(Weighted(v, o))
         /\ World!Sum(Weighted(v, s)) \in Int /\ World!Sum(Weighted(v, o)) \in Int
<1> DEFINE P == World!Parents(v)
           w == equations[v].weights
           f == Weighted(v, s)
           g == Weighted(v, o)
           h == [p \in P |-> w[p] * (s[p] - o[p])]
<1>1. IsFiniteSet(P)
  <2>1. IsFiniteSet(World!Modelled)
    BY ModelledIsNamed, Counted DEF Named
  <2> QED BY <2>1, FS_Subset DEF World!Parents
<1>2. \A p \in P : w[p] \in Int /\ s[p] \in Int /\ o[p] \in Int
  BY DEF Fitted, World!Parents
<1>3. DOMAIN f = P /\ DOMAIN g = P /\ DOMAIN h = P
  BY DEF Weighted
<1>4. \A p \in P : f[p] = w[p] * s[p] /\ g[p] = w[p] * o[p] /\ h[p] = w[p] * (s[p] - o[p])
  BY DEF Weighted
<1> HIDE DEF P, w, f, g, h
<1>5. \A p \in P : f[p] \in Int /\ g[p] \in Int /\ h[p] \in Int /\ h[p] = f[p] - g[p]
  <2> SUFFICES ASSUME NEW p \in P
               PROVE  f[p] \in Int /\ g[p] \in Int /\ h[p] \in Int /\ h[p] = f[p] - g[p]
    OBVIOUS
  <2>1. w[p] * (s[p] - o[p]) = w[p] * s[p] - w[p] * o[p]
    BY <1>2, Apart
  <2>2. w[p] * s[p] \in Int /\ w[p] * o[p] \in Int
    BY <1>2
  <2>3. h[p] = f[p] - g[p]
    BY <1>4, <2>1
  <2> QED BY <1>4, <2>2, <2>3
<1>6. Summands(f) /\ Summands(g) /\ Summands(h)
  BY <1>1, <1>3, <1>5 DEF Summands
<1>7. World!Sum(h) = World!Sum(f) - World!Sum(g)
  BY <1>3, <1>5, <1>6, SumDiffers
<1>8. World!Sum(f) \in Int /\ World!Sum(g) \in Int
  BY <1>6, SumIsANumber
<1> QED BY <1>7, <1>8 DEF P, w, f, g, h

\* Abduction, action and prediction give what the definition asks for.
LEMMA PearlsCounterfactual ==
  ASSUME Named, Fitted, ParentsFirst(World!CurrentOrder), Listed(World!CurrentOrder) = World!Modelled,
         NEW observed \in [World!Modelled -> Int], NEW do, \A v \in DOMAIN do : do[v] \in Int
  PROVE  World!IsCounterfactual(World!Counterfactual(observed, do), observed, do)
<1> DEFINE noise == World!Abducted(observed)
           state == World!Counterfactual(observed, do)
<1>1. state = World!Evaluate(noise, do)
  BY Zenon DEF World!Counterfactual
<1> HIDE DEF state
<1>2. Given(noise, do)
  BY NoiseIsAbducted DEF Given
<1>3. /\ noise \in [World!Modelled -> Int]
      /\ \A v \in World!Modelled :
           noise[v] = observed[v] - (equations[v].intercept + World!Sum(Weighted(v, observed)))
  BY NoiseIsAbducted
<1> HIDE DEF noise
<1>4. Solves(state, noise, do)
  BY <1>1, <1>2, EvaluationSolves
<1>5. state \in [World!Modelled -> Int] /\ \A v \in World!Modelled : Solved(v, state, noise, do)
  BY <1>4 DEF Solves
<1> DEFINE moved(v) == [p \in World!Parents(v) |-> equations[v].weights[p] * (state[p] - observed[p])]
<1>6. ASSUME NEW v \in World!Modelled
      PROVE  state[v] = IF v \in DOMAIN do THEN do[v] ELSE observed[v] + World!Sum(moved(v))
  <2> DEFINE a == World!Sum(Weighted(v, state))
             b == World!Sum(Weighted(v, observed))
             c == World!Sum(moved(v))
  <2>1. c = a - b /\ a \in Int /\ b \in Int
    BY <1>5, ContributionsDiffer
  <2>2. noise[v] = observed[v] - (equations[v].intercept + b)
    BY <1>3
  <2>3. state[v] = IF v \in DOMAIN do THEN do[v] ELSE equations[v].intercept + a + noise[v]
    BY <1>5, Zenon DEF Solved
  <2> HIDE DEF a, b, c
  <2>4. equations[v].intercept \in Int /\ observed[v] \in Int
    BY DEF Fitted
  <2>5. CASE v \in DOMAIN do
    BY <2>3, <2>5
  <2>6. CASE v \notin DOMAIN do
    <3>1. state[v] = equations[v].intercept + a + noise[v]
      BY <2>3, <2>6
    <3>2. state[v] = observed[v] + c
      BY <2>1, <2>2, <2>4, <3>1
    <3> QED BY <2>6, <3>2 DEF c
  <2> QED BY <2>5, <2>6
<1>7. DOMAIN state = World!Modelled
  BY <1>5
<1>8. World!IsCounterfactual(state, observed, do)
  BY <1>6, <1>7, Zenon DEF World!IsCounterfactual
<1> QED BY <1>8 DEF state
-----------------------------------------------------------------------------
(* The world model *)

\* An order that has been computed is one of the equations as they are.
WorldInv ==
  /\ Named /\ Fitted
  /\ ordered => (World!Acyclic => ParentsFirst(order) /\ Listed(order) = World!Modelled)

LEMMA WorldStarts ==
  ASSUME World!Init
  PROVE  WorldInv
<1>1. names = <<>> /\ ordered = FALSE
  BY DEF World!Init
<1>2. Named
  BY <1>1 DEF Named, NoRepeat
<1>3. World!Modelled = {}
  BY <1>1, <1>2, ModelledIsNamed DEF Listed
<1> QED BY <1>1, <1>2, <1>3, Zenon DEF WorldInv, Fitted

LEMMA EquationKeeps ==
  ASSUME WorldAssumption, WorldInv, NEW x \in Keys, World!AddEquation(x)
  PROVE  WorldInv'
<1>1. PICK parents \in SUBSET Keys, intercept \in Intercepts :
        \E weights \in [parents -> Weights] :
          /\ equations' = World!With(equations, x, [intercept |-> intercept, weights |-> weights])
          /\ names' = IF x \in World!Modelled THEN names ELSE Append(names, x)
          /\ order' = <<>> /\ ordered' = FALSE
  BY Zenon DEF World!AddEquation
<1>2. PICK weights \in [parents -> Weights] :
          /\ equations' = World!With(equations, x, [intercept |-> intercept, weights |-> weights])
          /\ names' = IF x \in World!Modelled THEN names ELSE Append(names, x)
          /\ order' = <<>> /\ ordered' = FALSE
  BY <1>1, Zenon
<1>3. Named /\ Fitted
  BY DEF WorldInv
<1>4. names \in Seq(Keys) /\ NoRepeat(names) /\ World!Modelled = Listed(names)
  BY <1>3, ModelledIsNamed DEF Named
<1>5. names' \in Seq(Keys) /\ NoRepeat(names') /\ Listed(names') \subseteq Listed(names) \cup {x}
  <2>1. CASE x \in World!Modelled
    BY <1>2, <1>4, <2>1
  <2>2. CASE x \notin World!Modelled
    <3>1. names' = Append(names, x)
      BY <1>2, <2>2
    <3>2. /\ Append(names, x) \in Seq(Keys) /\ Listed(Append(names, x)) = Listed(names) \cup {x}
          /\ NoRepeat(names) /\ x \notin Listed(names) => NoRepeat(Append(names, x))
      BY <1>4, Appended
    <3> QED BY <1>4, <2>2, <3>1, <3>2
  <2> QED BY <2>1, <2>2
<1>6. Named'
  BY <1>5 DEF Named, NoRepeat
<1>7. World!Modelled' = Listed(names')
  BY <1>5 DEF Listed, World!Modelled, World!Range
<1> DEFINE e == [intercept |-> intercept, weights |-> weights]
<1>8. equations' = [v \in DOMAIN equations \cup {x} |-> IF v = x THEN e ELSE equations[v]]
  BY <1>2, Zenon DEF World!With
<1>9. e.intercept \in Int /\ \A p \in DOMAIN e.weights : e.weights[p] \in Int
  BY DEF WorldAssumption
<1> HIDE DEF e
<1>10. ASSUME NEW v \in World!Modelled'
       PROVE  /\ v \in DOMAIN equations' /\ equations'[v].intercept \in Int
              /\ \A p \in DOMAIN equations'[v].weights : equations'[v].weights[p] \in Int
  <2>1. CASE v = x
    <3>1. v \in DOMAIN equations' /\ equations'[v] = e
      BY <1>8, <2>1
    <3> QED BY <1>9, <3>1
  <2>2. CASE v # x
    <3>1. v \in World!Modelled
      BY <1>4, <1>5, <1>7, <2>2
    <3>2. v \in DOMAIN equations
      BY <1>3, <3>1 DEF Fitted
    <3>3. v \in DOMAIN equations' /\ equations'[v] = equations[v]
      BY <1>8, <2>2, <3>2
    <3> QED BY <1>3, <3>1, <3>3 DEF Fitted
  <2> QED BY <2>1, <2>2
<1>11. Fitted'
  BY <1>10 DEF Fitted
<1> QED BY <1>2, <1>6, <1>11 DEF WorldInv

\* Neither the variables nor the equations change.
LEMMA SameModel ==
  ASSUME names' = names, equations' = equations
  PROVE  /\ Named => Named'
         /\ Fitted => Fitted'
         /\ World!Modelled' = World!Modelled
         /\ World!Acyclic' = World!Acyclic
         /\ \A q : ParentsFirst(q) => ParentsFirst(q)'
<1>1. World!Modelled' = World!Modelled
  BY DEF World!Modelled, World!Range
<1>2. Named => Named'
  BY DEF Named, NoRepeat
<1>3. Fitted => Fitted'
  BY <1>1 DEF Fitted
<1>4. World!Acyclic' = World!Acyclic
  BY <1>1 DEF World!Acyclic, World!Parents
<1>5. \A q : ParentsFirst(q) => ParentsFirst(q)'
  BY <1>1 DEF ParentsFirst, World!Parents
<1> QED BY <1>1, <1>2, <1>3, <1>4, <1>5

LEMMA WorldKeeps ==
  ASSUME WorldAssumption, WorldInv, World!Next \/ UNCHANGED worldVars
  PROVE  WorldInv'
<1>1. CASE \E x \in Keys : World!AddEquation(x)
  BY <1>1, EquationKeeps
<1>2. CASE World!Use
  <2>1. order' = World!CurrentOrder /\ ordered' = TRUE /\ names' = names /\ equations' = equations
    BY <1>2 DEF World!Use
  <2>2. Named /\ Fitted
    BY DEF WorldInv
  <2>3. World!Acyclic => ParentsFirst(order') /\ Listed(order') = World!Modelled
    BY <2>1, <2>2, OrderIsTopological, Zenon DEF WorldInv, World!CurrentOrder
  <2> QED BY <2>1, <2>2, <2>3, SameModel DEF WorldInv
<1>3. CASE UNCHANGED worldVars
  <2>1. order' = order /\ ordered' = ordered /\ names' = names /\ equations' = equations
    BY <1>3 DEF worldVars
  <2> QED BY <2>1, SameModel DEF WorldInv
<1> QED BY <1>1, <1>2, <1>3 DEF World!Next

LEMMA WorldShown ==
  ASSUME WorldAssumption, WorldInv
  PROVE  World!CounterfactualIsPearls
<1> SUFFICES ASSUME World!Acyclic, NEW observed \in [World!Modelled -> Observables],
                    NEW do \in World!Interventions
             PROVE  World!IsCounterfactual(World!Counterfactual(observed, do), observed, do)
  BY Zenon DEF World!CounterfactualIsPearls
<1>1. Named /\ Fitted
  BY DEF WorldInv
<1>2. ParentsFirst(World!CurrentOrder) /\ Listed(World!CurrentOrder) = World!Modelled
  BY <1>1, OrderIsTopological, Zenon DEF WorldInv, World!CurrentOrder
<1>3. observed \in [World!Modelled -> Int]
  BY DEF WorldAssumption
<1>4. \A v \in DOMAIN do : do[v] \in Int
  <2>1. PICK x \in Keys : do \in [{x} -> Observables]
    BY DEF World!Interventions
  <2> QED BY <2>1 DEF WorldAssumption
<1> QED BY <1>1, <1>2, <1>3, <1>4, PearlsCounterfactual

\* WorldModel: whatever equations were added, in whatever order, replaced, and
\* evaluated in between, the counterfactual of a complete observation is Pearl's
\* as long as the graph has no cycle (causal_world_model.py's counterfactual).
THEOREM CounterfactualsArePearls == StoresSpec => []CounterfactualIsPearls
<1> USE WorldAssumption
<1>1. StoresInit => WorldInv
  BY WorldStarts DEF StoresInit
<1>2. WorldInv /\ [StoresNext]_storeVars => WorldInv'
  <2> SUFFICES ASSUME WorldInv, [StoresNext]_storeVars PROVE WorldInv'
    OBVIOUS
  <2>1. CASE StoresNext
    <3>1. World!Next \/ UNCHANGED worldVars
      <4>1. CASE WorldStep
        BY <4>1 DEF WorldStep
      <4>2. CASE ~WorldStep
        BY <2>1, <4>2, Zenon DEF StoresNext, OthersRest, Rests, ResultsStep, PosteriorsStep, MemoryStep,
           OracleStep, WorldStep, RagStep, ExperienceStep, DataStep, CausalStep, RulesStep, ReportsStep,
           FeedbackStep, ConvergenceStep, LogsStep, RouterStep
      <4> QED BY <4>1, <4>2
    <3> QED BY <3>1, WorldKeeps
  <2>2. CASE UNCHANGED storeVars
    <3>1. UNCHANGED worldVars
      BY <2>2 DEF storeVars
    <3> QED BY <3>1, WorldKeeps
  <2> QED BY <2>1, <2>2
<1>3. WorldInv => CounterfactualIsPearls
  BY WorldShown DEF CounterfactualIsPearls
<1> QED BY <1>1, <1>2, <1>3, PTL DEF StoresSpec

-----------------------------------------------------------------------------
(* The reports *)

Single(S) == \A x, y \in S : x = y
Verdicts == {"approved", "rejected", "requires_escalation"}

Cynefin == {"Clear", "Complicated", "Complex", "Chaotic", "Disorder"}

\* A request as the endpoints take it.
IsRequest(a) ==
  /\ a.domain \in Cynefin
  /\ a.confidence \in 0..100 /\ a.governance \in 0..100
  /\ a.entropy \in Nat /\ a.time \in Nat
  /\ Single(a.sample) /\ a.sample \subseteq Nat
  /\ Single(a.finding) /\ a.finding \subseteq [effect : Int, passed : Nat, run : Nat \ {0}]
  /\ \A f \in a.finding : f.passed <= f.run
  /\ Single(a.pvalue) /\ a.pvalue \subseteq 0..100
  /\ Single(a.epistemic) /\ a.epistemic \subseteq 0..100
  /\ Single(a.data) /\ a.data \subseteq [missing : 0..100, duplicates : 0..100, rows : Nat]
  /\ a.verdict \in Verdicts /\ (a.verdict = "approved" => a.violations = {})

LEMMA CardinalityOfReports == \A S : Reporting!Cardinality(S) = Cardinality(S)
BY Zenon DEF Reporting!Cardinality, Cardinality

LEMMA InsightFields ==
  \A type, priority, title :
    /\ Reporting!Insight(type, priority, title).type = type
    /\ Reporting!Insight(type, priority, title).priority = priority
    /\ Reporting!Insight(type, priority, title).title = title
    /\ "priority" \in DOMAIN Reporting!Insight(type, priority, title)
BY DEF Reporting!Insight

\* Division by a positive number is monotone.
LEMMA DivisionRises ==
  ASSUME NEW x \in Int, NEW y \in Int, NEW n \in Nat \ {0}, x >= y
  PROVE  /\ x \div n \in Int /\ y \div n \in Int /\ x \div n >= y \div n
         /\ y >= 0 => y \div n >= 0
<1> DEFINE p == x \div n
           q == y \div n
<1>1. p \in Int /\ q \in Int /\ x = n * p + (x % n) /\ y = n * q + (y % n)
      /\ (x % n) \in 0..n - 1 /\ (y % n) \in 0..n - 1
  OBVIOUS
<1> DEFINE r == x % n
           s == y % n
<1> HIDE DEF p, q, r, s
<1>2. r \in Int /\ s \in Int /\ 0 <= r /\ r < n /\ 0 <= s /\ s < n
  BY <1>1 DEF r, s
<1>3. x = n * p + r /\ y = n * q + s
  BY <1>1 DEF r, s
<1>4. ASSUME p < q PROVE FALSE
  <2>1. \E k \in Nat : q = p + 1 + k
    BY <1>1, <1>4
  <2>2. PICK k \in Nat : q = p + 1 + k
    BY <2>1
  <2>3. n * q = n * p + n + n * k /\ n * k \in Nat /\ n * p \in Int
    BY <1>1, <2>2
  <2> QED BY <1>2, <1>3, <2>3
<1>5. ASSUME y >= 0, q < 0 PROVE FALSE
  <2>1. \E k \in Nat : q = -1 - k
    BY <1>1, <1>5
  <2>2. PICK k \in Nat : q = -1 - k
    BY <2>1
  <2>3. n * q = -n - n * k /\ n * k \in Nat
    BY <1>1, <2>2
  <2> QED BY <1>2, <1>3, <1>5, <2>3
<1> QED BY <1>1, <1>4, <1>5 DEF p, q

\* The better of two scores reaches every level the other does.
LEMMA LevelRises ==
  ASSUME NEW B \in SUBSET (0..100), NEW x \in Int, NEW y \in Int, x >= y
  PROVE  /\ Reporting!Level(x, B) \in Nat /\ Reporting!Level(y, B) \in Nat
         /\ Reporting!Level(x, B) >= Reporting!Level(y, B)
<1> DEFINE reached(z) == {b \in B : z > Reporting!Percent(b)}
<1>1. IsFiniteSet(B)
  <2>1. IsFiniteSet(0..100)
    <3>1. 0 \in Int /\ 100 \in Int
      OBVIOUS
    <3> QED BY <3>1, FS_Interval
  <2> QED BY <2>1, FS_Subset
<1>2. reached(x) \in SUBSET B /\ reached(y) \in SUBSET reached(x)
  <2>1. \A b \in B : Reporting!Percent(b) \in Int
    <3>1. \A b \in B : b \in Int
      OBVIOUS
    <3> QED BY <3>1 DEF Reporting!Percent
  <2>2. \A b \in B : y > Reporting!Percent(b) => x > Reporting!Percent(b)
    BY <2>1
  <2> QED BY <2>2
<1>3. \A z : Reporting!Level(z, B) = Cardinality(reached(z))
  BY CardinalityOfReports, Zenon DEF Reporting!Level
<1> HIDE DEF reached
<1>4. IsFiniteSet(reached(x)) /\ IsFiniteSet(reached(y))
  BY <1>1, <1>2, FS_Subset
<1> QED BY <1>2, <1>3, <1>4, FS_Subset, FS_CardinalityType

-----------------------------------------------------------------------------
(* One report against another *)

LEMMA AnalystsAre ==
  ASSUME NEW a, NEW i
  PROVE  /\ i \in Reporting!AnalystInsights(a) =>
              \/ a.confidence # 0 /\ a.confidence < 70
                   /\ i = Reporting!Insight("warning", "high", "low confidence")
              \/ (\E f \in a.finding : ~Reporting!Rate(f, 80))
                   /\ i = Reporting!Insight("warning", "high", "tests failed")
              \/ a.entropy > 50 /\ i = Reporting!Insight("warning", "medium", "several domains")
              \/ i = Reporting!Insight("validation", "medium", "strong effect")
              \/ (\E u \in a.epistemic : u > 30)
                   /\ i = Reporting!Insight("opportunity", "medium", "reducible")
              \/ (\E n \in a.sample : n # 0 /\ n < 500)
                   /\ i = Reporting!Insight("improvement", "medium", "small sample")
         /\ a.confidence # 0 /\ a.confidence < 70 =>
              Reporting!Insight("warning", "high", "low confidence") \in Reporting!AnalystInsights(a)
         /\ (\E f \in a.finding : ~Reporting!Rate(f, 80)) =>
              Reporting!Insight("warning", "high", "tests failed") \in Reporting!AnalystInsights(a)
<1> DEFINE low == Reporting!When(a.confidence # 0 /\ a.confidence < 70,
                                 Reporting!Insight("warning", "high", "low confidence"))
           mixed == Reporting!When(a.entropy > 50, Reporting!Insight("warning", "medium", "several domains"))
           tests == Reporting!When(\E f \in a.finding : ~Reporting!Rate(f, 80),
                                   Reporting!Insight("warning", "high", "tests failed"))
           strong == Reporting!When(\E f \in a.finding : Reporting!Rate(f, 80) /\ Reporting!Size(f.effect) > 10,
                                    Reporting!Insight("validation", "medium", "strong effect"))
           reducible == Reporting!When(\E u \in a.epistemic : u > 30,
                                       Reporting!Insight("opportunity", "medium", "reducible"))
           small == Reporting!When(\E n \in a.sample : n # 0 /\ n < 500,
                                   Reporting!Insight("improvement", "medium", "small sample"))
<1>1. i \in low => a.confidence # 0 /\ a.confidence < 70
                     /\ i = Reporting!Insight("warning", "high", "low confidence")
  BY Zenon DEF Reporting!When
<1>2. i \in tests => (\E f \in a.finding : ~Reporting!Rate(f, 80))
                       /\ i = Reporting!Insight("warning", "high", "tests failed")
  BY Zenon DEF Reporting!When
<1>3. /\ i \in mixed => a.entropy > 50 /\ i = Reporting!Insight("warning", "medium", "several domains")
      /\ i \in reducible => (\E u \in a.epistemic : u > 30)
                              /\ i = Reporting!Insight("opportunity", "medium", "reducible")
      /\ i \in small => (\E n \in a.sample : n # 0 /\ n < 500)
                          /\ i = Reporting!Insight("improvement", "medium", "small sample")
  BY Zenon DEF Reporting!When
<1>4. i \in strong => i = Reporting!Insight("validation", "medium", "strong effect")
  BY Zenon DEF Reporting!When
<1>5. a.confidence # 0 /\ a.confidence < 70 => Reporting!Insight("warning", "high", "low confidence") \in low
  BY Zenon DEF Reporting!When
<1>6. (\E f \in a.finding : ~Reporting!Rate(f, 80)) =>
        Reporting!Insight("warning", "high", "tests failed") \in tests
  BY Zenon DEF Reporting!When
<1>7. Reporting!AnalystInsights(a) = low \cup mixed \cup tests \cup strong \cup reducible \cup small
  BY DEF Reporting!AnalystInsights
<1> HIDE DEF low, mixed, tests, strong, reducible, small
<1> QED BY <1>1, <1>2, <1>3, <1>4, <1>5, <1>6, <1>7
LEMMA ExecutivesAre ==
  ASSUME NEW a, NEW i
  PROVE  /\ i \in Reporting!ExecutiveInsights(a) =>
              \/ a.confidence # 0 /\ a.confidence < 60
                   /\ i = Reporting!Insight("warning", "high", "exercise caution")
              \/ a.violations # {} /\ i = Reporting!Insight("warning", "high", "policy violation")
              \/ i = Reporting!Insight("validation", "high", "can support decisions")
              \/ i = Reporting!Insight("validation", "high", "all policies passed")
              \/ i = Reporting!Insight("recommendation", "high", "effect")
         /\ a.confidence # 0 /\ a.confidence < 60 =>
              Reporting!Insight("warning", "high", "exercise caution") \in Reporting!ExecutiveInsights(a)
         /\ a.violations # {} =>
              Reporting!Insight("warning", "high", "policy violation") \in Reporting!ExecutiveInsights(a)
         /\ a.confidence >= 85 =>
              Reporting!Insight("validation", "high", "can support decisions") \in Reporting!ExecutiveInsights(a)
<1> DEFINE sure == Reporting!When(a.confidence >= 85,
                                  Reporting!Insight("validation", "high", "can support decisions"))
           caution == Reporting!When(a.confidence # 0 /\ a.confidence < 60,
                                     Reporting!Insight("warning", "high", "exercise caution"))
           passed == Reporting!When(a.violations = {},
                                    Reporting!Insight("validation", "high", "all policies passed"))
           policy == Reporting!When(a.violations # {},
                                    Reporting!Insight("warning", "high", "policy violation"))
           effect == Reporting!When(\E f \in a.finding : f.effect # 0,
                                    Reporting!Insight("recommendation", "high", "effect"))
<1>1. i \in caution => a.confidence # 0 /\ a.confidence < 60
                         /\ i = Reporting!Insight("warning", "high", "exercise caution")
  BY Zenon DEF Reporting!When
<1>2. i \in policy => a.violations # {} /\ i = Reporting!Insight("warning", "high", "policy violation")
  BY Zenon DEF Reporting!When
<1>3. /\ i \in sure => i = Reporting!Insight("validation", "high", "can support decisions")
      /\ i \in passed => i = Reporting!Insight("validation", "high", "all policies passed")
      /\ i \in effect => i = Reporting!Insight("recommendation", "high", "effect")
  BY Zenon DEF Reporting!When
<1>4. a.confidence # 0 /\ a.confidence < 60 => Reporting!Insight("warning", "high", "exercise caution") \in caution
  BY Zenon DEF Reporting!When
<1>5. a.violations # {} => Reporting!Insight("warning", "high", "policy violation") \in policy
  BY Zenon DEF Reporting!When
<1>6. a.confidence >= 85 => Reporting!Insight("validation", "high", "can support decisions") \in sure
  BY Zenon DEF Reporting!When
<1>7. Reporting!ExecutiveInsights(a) = sure \cup caution \cup passed \cup policy \cup effect
  BY DEF Reporting!ExecutiveInsights
<1> HIDE DEF sure, caution, passed, policy, effect
<1> QED BY <1>1, <1>2, <1>3, <1>4, <1>5, <1>6, <1>7

\* The developer is warned of nothing with high priority.
LEMMA DevelopersAre ==
  ASSUME NEW a, NEW i \in Reporting!DeveloperInsights(a)
  PROVE  ~(i.type = "warning" /\ i.priority = "high")
<1> DEFINE slow == Reporting!When(a.time > 5000, Reporting!Insight("warning", "medium", "slow"))
           fast == Reporting!When(a.time # 0 /\ a.time < 500, Reporting!Insight("validation", "low", "fast"))
           lowered == {[j EXCEPT !.priority = "low"] : j \in Reporting!AnalystInsights(a)}
<1>1. i \in slow => i = Reporting!Insight("warning", "medium", "slow")
  <2> DEFINE long == a.time > 5000
  <2> HIDE DEF long
  <2>1. i \in Reporting!When(long, Reporting!Insight("warning", "medium", "slow")) =>
          i = Reporting!Insight("warning", "medium", "slow")
    BY Zenon DEF Reporting!When
  <2> QED BY <2>1 DEF long
<1>5. i \in fast => i = Reporting!Insight("validation", "low", "fast")
  BY Zenon DEF Reporting!When
<1>2. Reporting!DeveloperInsights(a) = slow \cup fast \cup {Reporting!Insight("explanation", "low", "routed")} \cup lowered
  BY DEF Reporting!DeveloperInsights
<1>3. ASSUME i \in lowered PROVE i.priority = "low"
  <2>1. PICK j \in Reporting!AnalystInsights(a) : i = [j EXCEPT !.priority = "low"]
    BY <1>3
  <2>2. \E type, priority, title : j = Reporting!Insight(type, priority, title)
    BY AnalystsAre, Zenon
  <2>3. "priority" \in DOMAIN j
    BY <2>2, InsightFields
  <2> QED BY <2>1, <2>3
<1> HIDE DEF slow, fast, lowered
<1>4. i \in slow \/ i \in fast \/ i = Reporting!Insight("explanation", "low", "routed") \/ i \in lowered
  BY <1>2
<1> QED BY <1>1, <1>3, <1>4, <1>5, InsightFields

\* The warnings of high priority are these four.
LEMMA WarningsAre ==
  ASSUME NEW a, NEW i
  PROVE  i \in Reporting!Warnings(a) <=>
           \/ a.confidence # 0 /\ a.confidence < 70
                /\ i = Reporting!Insight("warning", "high", "low confidence")
           \/ (\E f \in a.finding : ~Reporting!Rate(f, 80))
                /\ i = Reporting!Insight("warning", "high", "tests failed")
           \/ a.confidence # 0 /\ a.confidence < 60
                /\ i = Reporting!Insight("warning", "high", "exercise caution")
           \/ a.violations # {} /\ i = Reporting!Insight("warning", "high", "policy violation")
<1> DEFINE warns == i.type = "warning" /\ i.priority = "high"
           low == Reporting!Insight("warning", "high", "low confidence")
           tests == Reporting!Insight("warning", "high", "tests failed")
           caution == Reporting!Insight("warning", "high", "exercise caution")
           policy == Reporting!Insight("warning", "high", "policy violation")
           unsure == a.confidence # 0 /\ a.confidence < 70
           failed == \E f \in a.finding : ~Reporting!Rate(f, 80)
           careful == a.confidence # 0 /\ a.confidence < 60
           violated == a.violations # {}
<1>1. i \in Reporting!Warnings(a) <=>
        warns /\ (i \in Reporting!AnalystInsights(a) \/ i \in Reporting!DeveloperInsights(a)
                  \/ i \in Reporting!ExecutiveInsights(a))
  <2>1. /\ Reporting!Insights(a, "analyst") = Reporting!AnalystInsights(a)
        /\ Reporting!Insights(a, "developer") = Reporting!DeveloperInsights(a)
        /\ Reporting!Insights(a, "executive") = Reporting!ExecutiveInsights(a)
    BY DEF Reporting!Insights
  <2> QED BY <2>1, Zenon DEF Reporting!Warnings, Reporting!Personas
<1>2. ~(warns /\ i \in Reporting!DeveloperInsights(a))
  BY DevelopersAre
<1>3. /\ i = low \/ i = tests \/ i = caution \/ i = policy => warns
      /\ \A type, priority, title :
           i = Reporting!Insight(type, priority, title) => (warns => type = "warning" /\ priority = "high")
  <2>1. low.type = "warning" /\ low.priority = "high" /\ tests.type = "warning" /\ tests.priority = "high"
    BY DEF Reporting!Insight
  <2>2. caution.type = "warning" /\ caution.priority = "high" /\ policy.type = "warning" /\ policy.priority = "high"
    BY DEF Reporting!Insight
  <2>3. \A type, priority, title :
          i = Reporting!Insight(type, priority, title) => (warns => type = "warning" /\ priority = "high")
    BY InsightFields
  <2> HIDE DEF low, tests, caution, policy
  <2> QED BY <2>1, <2>2, <2>3
<1>4. warns /\ i \in Reporting!AnalystInsights(a) <=> ((unsure /\ i = low) \/ (failed /\ i = tests))
  <2> HIDE DEF warns, low, tests
  <2>1. i \in Reporting!AnalystInsights(a) /\ warns => (unsure /\ i = low) \/ (failed /\ i = tests)
    <3>1. ASSUME NEW type, NEW title, i = Reporting!Insight(type, "medium", title) PROVE ~warns
      <4>1. i.priority = "medium"
        BY <3>1, InsightFields
      <4> QED BY <4>1 DEF warns
    <3>2. i \in Reporting!AnalystInsights(a) =>
            \/ (unsure /\ i = low) \/ (failed /\ i = tests)
            \/ \E type, title : i = Reporting!Insight(type, "medium", title)
      BY AnalystsAre, Zenon DEF low, tests
    <3> QED BY <3>1, <3>2, Zenon
  <2>2. (unsure /\ i = low) \/ (failed /\ i = tests) => i \in Reporting!AnalystInsights(a)
    BY AnalystsAre, Zenon DEF low, tests
  <2> QED BY <2>1, <2>2, <1>3, Zenon
<1>5. warns /\ i \in Reporting!ExecutiveInsights(a) <=> ((careful /\ i = caution) \/ (violated /\ i = policy))
  <2> HIDE DEF warns, caution, policy
  <2>1. i \in Reporting!ExecutiveInsights(a) /\ warns => (careful /\ i = caution) \/ (violated /\ i = policy)
    BY <1>3, ExecutivesAre, Zenon DEF caution, policy
  <2>2. (careful /\ i = caution) \/ (violated /\ i = policy) => i \in Reporting!ExecutiveInsights(a)
    BY ExecutivesAre, Zenon DEF caution, policy
  <2> QED BY <2>1, <2>2, <1>3, Zenon
<1> HIDE DEF warns
<1> QED BY <1>1, <1>2, <1>4, <1>5, Zenon

\* Better evidence does not fail a threshold of tests the other reaches.
LEMMA RateRises ==
  ASSUME NEW f, NEW g, f \in [effect : Int, passed : Nat, run : Nat \ {0}],
         g \in [effect : Int, passed : Nat, run : Nat \ {0}],
         f.run = g.run, f.passed >= g.passed, NEW n \in Nat, Reporting!Rate(g, n)
  PROVE  Reporting!Rate(f, n)
<1>1. f.run \in Int /\ f.passed \in Int /\ g.passed \in Int
  OBVIOUS
<1>2. n * f.run \in Int /\ n * g.run = n * f.run
  BY <1>1
<1>3. 100 * g.passed >= n * f.run
  BY <1>2 DEF Reporting!Rate
<1>4. 100 * f.passed >= 100 * g.passed
  BY <1>1
<1> QED BY <1>1, <1>2, <1>3, <1>4 DEF Reporting!Rate

LEMMA SampleRises ==
  ASSUME NEW m \in Nat, NEW n \in Nat, m >= n
  PROVE  /\ Reporting!Sample(m) \in Int /\ Reporting!Sample(n) \in Int
         /\ Reporting!Sample(m) >= Reporting!Sample(n)
<1>1. /\ (3600 * m) \div 500 \in Int /\ (3600 * n) \div 500 \in Int
      /\ (3600 * m) \div 500 >= (3600 * n) \div 500
  BY DivisionRises
<1> QED BY <1>1 DEF Reporting!Sample, Reporting!Whole, Reporting!AtMost

Tables == [missing : 0..100, duplicates : 0..100, rows : Nat]

LEMMA DataScoreRises ==
  ASSUME NEW d \in Tables, NEW e \in Tables,
         d.missing <= e.missing, d.duplicates <= e.duplicates, d.rows >= e.rows
  PROVE  /\ Reporting!DataScore(d) \in Int /\ Reporting!DataScore(e) \in Int
         /\ Reporting!DataScore(d) >= Reporting!DataScore(e)
<1>1. /\ d.missing \in Int /\ e.missing \in Int /\ d.duplicates \in Int /\ e.duplicates \in Int
      /\ d.rows \in Nat /\ e.rows \in Nat
  BY DEF Tables
<1>2. /\ Reporting!Sample(d.rows) \in Int /\ Reporting!Sample(e.rows) \in Int
      /\ Reporting!Sample(d.rows) >= Reporting!Sample(e.rows)
  BY <1>1, SampleRises
<1> DEFINE sum(t) == Reporting!Percent(100 - t.missing) + Reporting!Percent(100 - t.duplicates)
                       + Reporting!Sample(t.rows)
<1>3. sum(d) \in Int /\ sum(e) \in Int /\ sum(d) >= sum(e)
  BY <1>1, <1>2 DEF Reporting!Percent
<1>4. Reporting!DataScore(d) = sum(d) \div 3 /\ Reporting!DataScore(e) = sum(e) \div 3
  BY DEF Reporting!DataScore
<1> HIDE DEF sum
<1> QED BY <1>3, <1>4, DivisionRises

LEMMA TestScoreRises ==
  ASSUME NEW f, NEW g, f \in [effect : Int, passed : Nat, run : Nat \ {0}],
         g \in [effect : Int, passed : Nat, run : Nat \ {0}],
         f.run = g.run, f.passed >= g.passed
  PROVE  /\ (Reporting!Whole * f.passed) \div f.run \in Int /\ (Reporting!Whole * g.passed) \div g.run \in Int
         /\ (Reporting!Whole * f.passed) \div f.run >= (Reporting!Whole * g.passed) \div g.run
<1>1. /\ f.run \in Nat \ {0} /\ 3600 * f.passed \in Int /\ 3600 * g.passed \in Int
      /\ 3600 * f.passed >= 3600 * g.passed
  OBVIOUS
<1> QED BY <1>1, DivisionRises DEF Reporting!Whole

\* Of a set of at most one score: the score, or what stands for it.
LEMMA KnownIs ==
  /\ Reporting!Known({}) = Reporting!Percent(50)
  /\ \A score : Reporting!Known({score}) = score
BY Zenon DEF Reporting!Known

\* Every factor of the reliability rises.
LEMMA FactorsRise ==
  ASSUME NEW p, NEW q, IsRequest(p), IsRequest(q), Reporting!Better(p, q)
  PROVE  \A x \in {"confidence", "data", "tests", "sample"} :
           /\ Reporting!Factors(p)[x] \in Int /\ Reporting!Factors(q)[x] \in Int
           /\ Reporting!Factors(p)[x] >= Reporting!Factors(q)[x]
<1> DEFINE quality(a) == Reporting!Known({Reporting!DataScore(d) : d \in a.data})
           rate(a) == Reporting!Known({(Reporting!Whole * f.passed) \div f.run : f \in a.finding})
           size(a) == Reporting!Known({Reporting!Sample(n) : n \in {m \in a.sample : m > 0}})
<1>1. \A a : Reporting!Factors(a) =
               [confidence |-> Reporting!Percent(a.confidence), data |-> quality(a),
                tests |-> rate(a), sample |-> size(a)]
  BY Zenon DEF Reporting!Factors
<1>2. /\ Reporting!Percent(p.confidence) \in Int /\ Reporting!Percent(q.confidence) \in Int
      /\ Reporting!Percent(p.confidence) >= Reporting!Percent(q.confidence)
  <2>1. p.confidence \in Int /\ q.confidence \in Int /\ p.confidence >= q.confidence
    BY DEF IsRequest, Reporting!Better, Reporting!More
  <2> QED BY <2>1 DEF Reporting!Percent
<1>3. quality(p) \in Int /\ quality(q) \in Int /\ quality(p) >= quality(q)
  <2>1. CASE q.data = {}
    <3>1. p.data = {}
      BY <2>1 DEF Reporting!Better
    <3>2. {Reporting!DataScore(d) : d \in p.data} = {} /\ {Reporting!DataScore(d) : d \in q.data} = {}
      BY <2>1, <3>1
    <3>3. quality(p) = Reporting!Percent(50) /\ quality(q) = Reporting!Percent(50)
      BY <3>2, KnownIs, Zenon
    <3> HIDE DEF quality
    <3> QED BY <3>3 DEF Reporting!Percent
  <2>2. CASE q.data # {}
    <3>1. p.data # {}
      BY <2>2 DEF Reporting!Better
    <3>2. PICK d \in p.data, e \in q.data : TRUE
      BY <2>2, <3>1
    <3>3. /\ d \in Tables /\ e \in Tables
          /\ d.missing <= e.missing /\ d.duplicates <= e.duplicates /\ d.rows >= e.rows
      BY <3>2 DEF IsRequest, Reporting!Better, Tables
    <3>4. p.data = {d} /\ q.data = {e}
      BY <3>2 DEF IsRequest, Single
    <3>5. {Reporting!DataScore(x) : x \in p.data} = {Reporting!DataScore(d)}
      BY <3>4
    <3>6. {Reporting!DataScore(x) : x \in q.data} = {Reporting!DataScore(e)}
      BY <3>4
    <3>7. quality(p) = Reporting!DataScore(d) /\ quality(q) = Reporting!DataScore(e)
      BY <3>5, <3>6, KnownIs, Zenon
    <3> HIDE DEF quality
    <3> QED BY <3>3, <3>7, DataScoreRises
  <2> QED BY <2>1, <2>2
<1>4. rate(p) \in Int /\ rate(q) \in Int /\ rate(p) >= rate(q)
  <2>1. CASE q.finding = {}
    <3>1. p.finding = {}
      BY <2>1 DEF Reporting!Better
    <3>2. {(Reporting!Whole * f.passed) \div f.run : f \in p.finding} = {}
            /\ {(Reporting!Whole * f.passed) \div f.run : f \in q.finding} = {}
      BY <2>1, <3>1
    <3>3. rate(p) = Reporting!Percent(50) /\ rate(q) = Reporting!Percent(50)
      BY <3>2, KnownIs, Zenon
    <3> HIDE DEF rate
    <3> QED BY <3>3 DEF Reporting!Percent
  <2>2. CASE q.finding # {}
    <3>1. p.finding # {}
      BY <2>2 DEF Reporting!Better
    <3>2. PICK f \in p.finding, g \in q.finding : TRUE
      BY <2>2, <3>1
    <3>3. /\ f \in [effect : Int, passed : Nat, run : Nat \ {0}]
          /\ g \in [effect : Int, passed : Nat, run : Nat \ {0}]
          /\ f.run = g.run /\ f.passed >= g.passed
      BY <3>2 DEF IsRequest, Reporting!Better
    <3>4. p.finding = {f} /\ q.finding = {g}
      BY <3>2 DEF IsRequest, Single
    <3>5. {(Reporting!Whole * x.passed) \div x.run : x \in p.finding} = {(Reporting!Whole * f.passed) \div f.run}
      BY <3>4
    <3>6. {(Reporting!Whole * x.passed) \div x.run : x \in q.finding} = {(Reporting!Whole * g.passed) \div g.run}
      BY <3>4
    <3>7. rate(p) = (Reporting!Whole * f.passed) \div f.run /\ rate(q) = (Reporting!Whole * g.passed) \div g.run
      BY <3>5, <3>6, KnownIs, Zenon
    <3> HIDE DEF rate
    <3> QED BY <3>3, <3>7, TestScoreRises
  <2> QED BY <2>1, <2>2
<1>5. size(p) \in Int /\ size(q) \in Int /\ size(p) >= size(q)
  <2> DEFINE known(a) == {m \in a.sample : m > 0}
             scores(a) == {Reporting!Sample(n) : n \in known(a)}
  <2>1. CASE known(p) = {} /\ known(q) = {}
    <3>1. scores(p) = {} /\ scores(q) = {}
      BY <2>1
    <3>2. size(p) = Reporting!Percent(50) /\ size(q) = Reporting!Percent(50)
      BY <3>1, KnownIs, Zenon
    <3> HIDE DEF size
    <3> QED BY <3>2 DEF Reporting!Percent
  <2>2. CASE \E m \in p.sample, n \in q.sample : m > 0 /\ n > 0
    <3>1. PICK m \in p.sample, n \in q.sample : m > 0 /\ n > 0
      BY <2>2
    <3>2. m \in Nat /\ n \in Nat /\ m >= n
      BY DEF IsRequest, Reporting!Better, Reporting!More
    <3>3. known(p) = {m} /\ known(q) = {n}
      BY <3>1 DEF IsRequest, Single
    <3>4. scores(p) = {Reporting!Sample(m)} /\ scores(q) = {Reporting!Sample(n)}
      <4> HIDE DEF known
      <4> QED BY <3>3
    <3>5. size(p) = Reporting!Sample(m) /\ size(q) = Reporting!Sample(n)
      BY <3>4, KnownIs, Zenon
    <3> HIDE DEF size
    <3> QED BY <3>2, <3>5, SampleRises
  <2>3. ASSUME known(p) # {} \/ known(q) # {}
        PROVE  \E m \in p.sample, n \in q.sample : m > 0 /\ n > 0
    <3>1. p.sample # {} /\ q.sample # {}
      BY <2>3 DEF Reporting!Better
    <3>2. PICK m \in p.sample, n \in q.sample : TRUE
      BY <3>1
    <3>3. m \in Nat /\ n \in Nat /\ m >= n /\ (n > 0 \/ m = n)
      BY <3>2 DEF IsRequest, Reporting!Better, Reporting!More
    <3>4. p.sample = {m} /\ q.sample = {n}
      BY <3>2 DEF IsRequest, Single
    <3>5. m > 0 \/ n > 0
      BY <2>3, <3>4
    <3> QED BY <3>2, <3>3, <3>5
  <2> QED BY <2>1, <2>2, <2>3
<1> HIDE DEF quality, rate, size
<1> QED BY <1>1, <1>2, <1>3, <1>4, <1>5

LEMMA SmallSets ==
  ASSUME NEW x, NEW y, NEW z
  PROVE  /\ IsFiniteSet({x, y}) /\ Cardinality({x, y}) \in 0..2
         /\ IsFiniteSet({x, y, z})
         /\ x # y /\ x # z /\ y # z => Cardinality({x, y, z}) = 3
<1>1. IsFiniteSet({x}) /\ Cardinality({x}) = 1
  BY FS_Singleton
<1>2. {x, y} = {x} \cup {y} /\ {x, y, z} = {x, y} \cup {z}
  OBVIOUS
<1>3. IsFiniteSet({x} \cup {y}) /\ Cardinality({x} \cup {y}) = (IF y \in {x} THEN 1 ELSE 2)
  BY <1>1, FS_AddElement
<1>4. IsFiniteSet({x, y}) /\ Cardinality({x, y}) = (IF y = x THEN 1 ELSE 2)
  BY <1>2, <1>3
<1>5. /\ IsFiniteSet({x, y} \cup {z})
      /\ Cardinality({x, y} \cup {z}) =
           (IF z \in {x, y} THEN Cardinality({x, y}) ELSE Cardinality({x, y}) + 1)
  BY <1>4, FS_AddElement
<1> QED BY <1>2, <1>4, <1>5

LEMMA ReliabilityRises ==
  ASSUME NEW p, NEW q, IsRequest(p), IsRequest(q), Reporting!Better(p, q)
  PROVE  /\ Reporting!Reliability(p).level >= Reporting!Reliability(q).level
         /\ Reporting!Reliability(p).weaknesses \subseteq Reporting!Reliability(q).weaknesses
<1> DEFINE F(a) == Reporting!Factors(a)
           sum(a) == 30 * F(a).confidence + 25 * F(a).data + 25 * F(a).tests + 20 * F(a).sample
           weak(a) == {x \in DOMAIN F(a) : F(a)[x] < Reporting!Percent(70)}
           B == {50, 65, 80, 90}
<1>1. \A a : Reporting!Reliability(a).level = Reporting!Level(sum(a) \div 100, B)
  <2> HIDE DEF F
  <2> QED BY DEF Reporting!Reliability, F
<1>2. \A a : Reporting!Reliability(a).weaknesses = weak(a)
  <2> HIDE DEF F
  <2> QED BY DEF Reporting!Reliability, F
<1>3. \A x \in {"confidence", "data", "tests", "sample"} :
        F(p)[x] \in Int /\ F(q)[x] \in Int /\ F(p)[x] >= F(q)[x]
  BY FactorsRise
<1>4. \A a : DOMAIN F(a) = {"confidence", "data", "tests", "sample"}
  BY DEF Reporting!Factors
<1> HIDE DEF F
<1>5. sum(p) \in Int /\ sum(q) \in Int /\ sum(p) >= sum(q)
  <2>1. /\ F(p).confidence \in Int /\ F(p).data \in Int /\ F(p).tests \in Int /\ F(p).sample \in Int
        /\ F(q).confidence \in Int /\ F(q).data \in Int /\ F(q).tests \in Int /\ F(q).sample \in Int
        /\ F(p).confidence >= F(q).confidence /\ F(p).data >= F(q).data
        /\ F(p).tests >= F(q).tests /\ F(p).sample >= F(q).sample
    BY <1>3
  <2> QED BY <2>1
<1>6. weak(p) \subseteq weak(q)
  <2>1. Reporting!Percent(70) \in Int
    BY DEF Reporting!Percent
  <2> QED BY <1>3, <1>4, <2>1
<1> HIDE DEF sum, weak
<1>7. sum(p) \div 100 \in Int /\ sum(q) \div 100 \in Int /\ sum(p) \div 100 >= sum(q) \div 100
  BY <1>5, DivisionRises
<1>8. Reporting!Level(sum(p) \div 100, B) >= Reporting!Level(sum(q) \div 100, B)
  <2>1. B \in SUBSET (0..100)
    OBVIOUS
  <2> HIDE DEF B
  <2> QED BY <1>7, <2>1, LevelRises
<1> QED BY <1>1, <1>2, <1>6, <1>8

LEMMA QualityRises ==
  ASSUME NEW d \in Tables, NEW e \in Tables,
         d.missing <= e.missing, d.duplicates <= e.duplicates, d.rows >= e.rows
  PROVE  /\ Reporting!DataQuality(d).level >= Reporting!DataQuality(e).level
         /\ Reporting!DataQuality(d).advice \subseteq Reporting!DataQuality(e).advice
<1> DEFINE B == {50, 70, 85, 95}
           advice(t) == (IF t.missing > 5 THEN {"impute"} ELSE {})
                          \cup (IF t.duplicates > 5 THEN {"deduplicate"} ELSE {})
                          \cup (IF t.rows < 500 THEN {"collect"} ELSE {})
<1>1. \A t : /\ Reporting!DataQuality(t).level = Reporting!Level(Reporting!DataScore(t), B)
             /\ Reporting!DataQuality(t).advice = advice(t)
  BY DEF Reporting!DataQuality
<1>2. advice(d) \subseteq advice(e)
  <2>1. /\ d.missing \in Int /\ e.missing \in Int /\ d.duplicates \in Int /\ e.duplicates \in Int
        /\ d.rows \in Nat /\ e.rows \in Nat
    BY DEF Tables
  <2> QED BY <2>1
<1>3. Reporting!Level(Reporting!DataScore(d), B) >= Reporting!Level(Reporting!DataScore(e), B)
  <2>1. B \in SUBSET (0..100)
    OBVIOUS
  <2> HIDE DEF B
  <2> QED BY <2>1, DataScoreRises, LevelRises
<1> HIDE DEF B, advice
<1> QED BY <1>1, <1>2, <1>3

LEMMA ComplianceRises ==
  ASSUME NEW p, NEW q, IsRequest(p), IsRequest(q), Reporting!Better(p, q)
  PROVE  Reporting!Compliance(p).status >= Reporting!Compliance(q).status
<1> DEFINE data(r) == Reporting!Level(Reporting!Percent(r.governance), {60, 85})
           met(r) == (IF r.explained THEN {"art13"} ELSE {}) \cup (IF r.audited THEN {"art12"} ELSE {})
                       \cup (IF r.overseen THEN {"art14"} ELSE {}) \cup (IF data(r) = 2 THEN {"art10"} ELSE {})
           all == {"art10", "art12", "art13", "art14"}
<1>1. \A r : Reporting!Compliance(r).status = Reporting!Level(Reporting!Percent(25 * Reporting!Cardinality(met(r))), {60, 90})
  <2> HIDE DEF data
  <2> QED BY DEF Reporting!Compliance, data
<1>2. data(q) = 2 => data(p) = 2
  <2>1. /\ Reporting!Percent(p.governance) \in Int /\ Reporting!Percent(q.governance) \in Int
        /\ Reporting!Percent(p.governance) >= Reporting!Percent(q.governance)
    <3>1. p.governance \in Int /\ q.governance \in Int /\ p.governance >= q.governance
      BY DEF IsRequest, Reporting!Better
    <3> QED BY <3>1 DEF Reporting!Percent
  <2>2. data(p) \in Nat /\ data(q) \in Nat /\ data(p) >= data(q)
    <3>1. {60, 85} \in SUBSET (0..100)
      OBVIOUS
    <3> QED BY <2>1, <3>1, LevelRises
  <2>3. data(p) <= 2
    <3>1. {b \in {60, 85} : Reporting!Percent(p.governance) > Reporting!Percent(b)} \in SUBSET {60, 85}
      OBVIOUS
    <3>2. IsFiniteSet({60, 85}) /\ Cardinality({60, 85}) \in 0..2
      BY SmallSets
    <3>3. data(p) = Cardinality({b \in {60, 85} : Reporting!Percent(p.governance) > Reporting!Percent(b)})
      BY CardinalityOfReports, Zenon DEF Reporting!Level
    <3>4. Cardinality({b \in {60, 85} : Reporting!Percent(p.governance) > Reporting!Percent(b)}) <= Cardinality({60, 85})
      BY <3>1, <3>2, FS_Subset
    <3> HIDE DEF data
    <3> QED BY <2>2, <3>2, <3>3, <3>4, FS_CardinalityType
  <2> HIDE DEF data
  <2> QED BY <2>2, <2>3
<1> HIDE DEF data
<1>3. met(q) \in SUBSET met(p) /\ met(p) \in SUBSET all /\ met(q) \in SUBSET all
  <2>1. /\ q.explained => p.explained
        /\ q.audited => p.audited
        /\ q.overseen => p.overseen
    BY Zenon DEF Reporting!Better, Reporting!Flags
  <2> QED BY <1>2, <2>1
<1>4. IsFiniteSet(all)
  <2>1. IsFiniteSet({"art10", "art12", "art13"})
    BY SmallSets
  <2>2. IsFiniteSet({"art10", "art12", "art13"} \cup {"art14"})
    BY <2>1, FS_AddElement
  <2>3. {"art10", "art12", "art13"} \cup {"art14"} = all
    OBVIOUS
  <2> QED BY <2>2, <2>3
<1> HIDE DEF met, all
<1>5. IsFiniteSet(met(p)) /\ IsFiniteSet(met(q))
  BY <1>3, <1>4, FS_Subset
<1>6. /\ Cardinality(met(p)) \in Nat /\ Cardinality(met(q)) \in Nat
      /\ Cardinality(met(p)) >= Cardinality(met(q))
  BY <1>3, <1>5, FS_Subset, FS_CardinalityType
<1>7. /\ Reporting!Percent(25 * Cardinality(met(p))) \in Int
      /\ Reporting!Percent(25 * Cardinality(met(q))) \in Int
      /\ Reporting!Percent(25 * Cardinality(met(p))) >= Reporting!Percent(25 * Cardinality(met(q)))
  BY <1>6 DEF Reporting!Percent
<1>8. Reporting!Level(Reporting!Percent(25 * Cardinality(met(p))), {60, 90})
        >= Reporting!Level(Reporting!Percent(25 * Cardinality(met(q))), {60, 90})
  <2>1. {60, 90} \in SUBSET (0..100)
    OBVIOUS
  <2> QED BY <1>7, <2>1, LevelRises
<1>9. /\ Reporting!Cardinality(met(p)) = Cardinality(met(p))
      /\ Reporting!Cardinality(met(q)) = Cardinality(met(q))
  BY CardinalityOfReports
<1> QED BY <1>1, <1>8, <1>9

LEMMA WorkflowRises ==
  ASSUME NEW p, NEW q, IsRequest(p), IsRequest(q), Reporting!Better(p, q)
  PROVE  /\ Reporting!Workflow(p).overall >= Reporting!Workflow(q).overall
         /\ Reporting!Workflow(p).alignment >= Reporting!Workflow(q).alignment
<1> DEFINE data(w) == (IF w.tabular THEN 90 ELSE 70) + (IF \E n \in w.sample : n > 500 THEN 10 ELSE 0)
           suits(w) == Reporting!Suitability(w)
           rigor(w) == IF w.validated THEN 90 ELSE 50
           oversight(w) == IF w.reviewed THEN 95 ELSE 60
           feasible(w) == Reporting!Percent(data(w) + suits(w) + rigor(w) + oversight(w))
           reliable(w) == Reporting!Percent(data(w)) * 4 + Reporting!Percent(suits(w) + rigor(w)) * 3
           total(w) == (feasible(w) \div 4) + (reliable(w) \div 10) + Reporting!Percent(85)
           aligned(w) == Reporting!Percent(85 + oversight(w) + rigor(w))
<1>1. \A w : /\ Reporting!Workflow(w).overall = total(w) \div 3
             /\ Reporting!Workflow(w).alignment = aligned(w) \div 3
  <2> HIDE DEF suits
  <2> QED BY DEF Reporting!Workflow, suits
<1>2. suits(p) \in Int /\ suits(q) = suits(p)
  <2>1. p.domain = q.domain /\ p.models = q.models
    BY DEF Reporting!Better
  <2> QED BY <2>1 DEF Reporting!Suitability
<1> HIDE DEF suits
<1>3. data(p) \in Int /\ data(q) \in Int /\ data(p) >= data(q)
  <2>1. (\E n \in q.sample : n > 500) => \E n \in p.sample : n > 500
    <3> SUFFICES ASSUME NEW n \in q.sample, n > 500 PROVE \E m \in p.sample : m > 500
      OBVIOUS
    <3>1. p.sample # {}
      BY DEF Reporting!Better
    <3>2. PICK m \in p.sample : TRUE
      BY <3>1
    <3>3. m \in Nat /\ n \in Nat /\ m >= n
      BY <3>2 DEF IsRequest, Reporting!Better, Reporting!More
    <3> QED BY <3>2, <3>3
  <2>2. q.tabular => p.tabular
    BY Zenon DEF Reporting!Better, Reporting!Flags
  <2> QED BY <2>1, <2>2
<1>4. /\ rigor(p) \in Int /\ rigor(q) \in Int /\ rigor(p) >= rigor(q)
      /\ oversight(p) \in Int /\ oversight(q) \in Int /\ oversight(p) >= oversight(q)
  <2>1. /\ q.validated => p.validated
        /\ q.reviewed => p.reviewed
    BY Zenon DEF Reporting!Better, Reporting!Flags
  <2> QED BY <2>1
<1> HIDE DEF data, rigor, oversight
<1>5. /\ feasible(p) \in Int /\ feasible(q) \in Int /\ feasible(p) >= feasible(q)
      /\ reliable(p) \in Int /\ reliable(q) \in Int /\ reliable(p) >= reliable(q)
      /\ aligned(p) \in Int /\ aligned(q) \in Int /\ aligned(p) >= aligned(q)
  BY <1>2, <1>3, <1>4 DEF Reporting!Percent
<1> HIDE DEF feasible, reliable, aligned
<1>6. total(p) \in Int /\ total(q) \in Int /\ total(p) >= total(q)
  <2>1. /\ feasible(p) \div 4 \in Int /\ feasible(q) \div 4 \in Int
        /\ feasible(p) \div 4 >= feasible(q) \div 4
    BY <1>5, DivisionRises
  <2>2. /\ reliable(p) \div 10 \in Int /\ reliable(q) \div 10 \in Int
        /\ reliable(p) \div 10 >= reliable(q) \div 10
    BY <1>5, DivisionRises
  <2> QED BY <2>1, <2>2 DEF Reporting!Percent
<1> HIDE DEF total
<1>7. total(p) \div 3 >= total(q) \div 3
  BY <1>6, DivisionRises
<1>8. aligned(p) \div 3 >= aligned(q) \div 3
  BY <1>5, DivisionRises
<1> QED BY <1>1, <1>7, <1>8

Findings == [effect : Int, passed : Nat, run : Nat \ {0}]

\* A threshold of tests that a request reaches, a better one reaches too.
LEMMA FewerFail ==
  ASSUME NEW p, NEW q, IsRequest(p), IsRequest(q), Reporting!Better(p, q), NEW n \in Nat,
         \E f \in p.finding : ~Reporting!Rate(f, n)
  PROVE  \E g \in q.finding : ~Reporting!Rate(g, n)
<1>1. PICK f \in p.finding : ~Reporting!Rate(f, n)
  OBVIOUS
<1>2. q.finding # {}
  BY <1>1 DEF Reporting!Better
<1>3. PICK g \in q.finding : TRUE
  BY <1>2
<1>4. f \in Findings /\ g \in Findings /\ f.run = g.run /\ f.passed >= g.passed
  BY <1>1, <1>3 DEF IsRequest, Reporting!Better, Findings
<1>5. ~Reporting!Rate(g, n)
  BY <1>1, <1>4, RateRises DEF Findings
<1> QED BY <1>3, <1>5

LEMMA LessWarned ==
  ASSUME NEW p, NEW q, IsRequest(p), IsRequest(q), Reporting!Better(p, q)
  PROVE  Reporting!Warnings(p) \subseteq Reporting!Warnings(q)
<1>1. /\ p.confidence \in Int /\ q.confidence \in Int /\ p.confidence >= q.confidence
      /\ q.confidence > 0 \/ p.confidence = q.confidence
  BY DEF IsRequest, Reporting!Better, Reporting!More
<1>2. /\ p.confidence # 0 /\ p.confidence < 70 => q.confidence # 0 /\ q.confidence < 70
      /\ p.confidence # 0 /\ p.confidence < 60 => q.confidence # 0 /\ q.confidence < 60
  BY <1>1
<1>3. p.violations # {} => q.violations # {}
  BY DEF Reporting!Better
<1>4. (\E f \in p.finding : ~Reporting!Rate(f, 80)) => (\E f \in q.finding : ~Reporting!Rate(f, 80))
  <2>1. 80 \in Nat
    OBVIOUS
  <2> QED BY <2>1, FewerFail
<1>5. ASSUME NEW i \in Reporting!Warnings(p) PROVE i \in Reporting!Warnings(q)
  <2> DEFINE unsure(a) == a.confidence # 0 /\ a.confidence < 70
             failed(a) == \E f \in a.finding : ~Reporting!Rate(f, 80)
             careful(a) == a.confidence # 0 /\ a.confidence < 60
             violated(a) == a.violations # {}
             says(a) == \/ unsure(a) /\ i = Reporting!Insight("warning", "high", "low confidence")
                        \/ failed(a) /\ i = Reporting!Insight("warning", "high", "tests failed")
                        \/ careful(a) /\ i = Reporting!Insight("warning", "high", "exercise caution")
                        \/ violated(a) /\ i = Reporting!Insight("warning", "high", "policy violation")
  <2>1. i \in Reporting!Warnings(p) <=> says(p)
    BY WarningsAre
  <2>2. i \in Reporting!Warnings(q) <=> says(q)
    BY WarningsAre
  <2>3. (unsure(p) => unsure(q)) /\ (failed(p) => failed(q)) /\ (careful(p) => careful(q))
        /\ (violated(p) => violated(q))
    BY <1>2, <1>3, <1>4
  <2> HIDE DEF unsure, failed, careful, violated
  <2> QED BY <1>5, <2>1, <2>2, <2>3
<1> QED BY <1>5

\* The risks of a request.
LEMMA RisksAre ==
  ASSUME NEW a, NEW x
  PROVE  x \in Reporting!Risks(a) <=>
           \/ a.verdict = "rejected" /\ x = "policy"
           \/ (\E f \in a.finding : ~Reporting!Rate(f, 50)) /\ x = "failed checks"
           \/ (\E f \in a.finding : Reporting!Rate(f, 50) /\ ~Reporting!Rate(f, 75)) /\ x = "some failed checks"
           \/ (\E u \in a.epistemic : u > 70) /\ x = "high uncertainty"
           \/ (\E u \in a.epistemic : u > 50 /\ u <= 70) /\ x = "uncertainty"
           \/ a.domain = "Chaotic" /\ x = "volatile"
           \/ a.domain = "Disorder" /\ x = "ambiguous"
<1> DEFINE policy == Reporting!When(a.verdict = "rejected", "policy")
           failed == Reporting!When(\E f \in a.finding : ~Reporting!Rate(f, 50), "failed checks")
           some == Reporting!When(\E f \in a.finding : Reporting!Rate(f, 50) /\ ~Reporting!Rate(f, 75),
                                  "some failed checks")
           high == Reporting!When(\E u \in a.epistemic : u > 70, "high uncertainty")
           unsure == Reporting!When(\E u \in a.epistemic : u > 50 /\ u <= 70, "uncertainty")
           volatile == Reporting!When(a.domain = "Chaotic", "volatile")
           ambiguous == Reporting!When(a.domain = "Disorder", "ambiguous")
<1>1. x \in policy <=> (a.verdict = "rejected" /\ x = "policy")
  BY Zenon DEF Reporting!When
<1>2. x \in failed <=> ((\E f \in a.finding : ~Reporting!Rate(f, 50)) /\ x = "failed checks")
  BY Zenon DEF Reporting!When
<1>3. x \in some <=>
        ((\E f \in a.finding : Reporting!Rate(f, 50) /\ ~Reporting!Rate(f, 75)) /\ x = "some failed checks")
  BY Zenon DEF Reporting!When
<1>4. x \in high <=> ((\E u \in a.epistemic : u > 70) /\ x = "high uncertainty")
  BY Zenon DEF Reporting!When
<1>5. x \in unsure <=> ((\E u \in a.epistemic : u > 50 /\ u <= 70) /\ x = "uncertainty")
  BY Zenon DEF Reporting!When
<1>6. x \in volatile <=> (a.domain = "Chaotic" /\ x = "volatile")
  BY Zenon DEF Reporting!When
<1>7. x \in ambiguous <=> (a.domain = "Disorder" /\ x = "ambiguous")
  BY Zenon DEF Reporting!When
<1>8. Reporting!Risks(a) = policy \cup failed \cup some \cup high \cup unsure \cup volatile \cup ambiguous
  BY DEF Reporting!Risks
<1> HIDE DEF policy, failed, some, high, unsure, volatile, ambiguous
<1> QED BY <1>1, <1>2, <1>3, <1>4, <1>5, <1>6, <1>7, <1>8

LEMMA RiskConditions ==
  ASSUME NEW a
  PROVE  /\ "policy" \in Reporting!Risks(a) <=> a.verdict = "rejected"
         /\ "failed checks" \in Reporting!Risks(a) <=> \E f \in a.finding : ~Reporting!Rate(f, 50)
         /\ "some failed checks" \in Reporting!Risks(a) <=>
              \E f \in a.finding : Reporting!Rate(f, 50) /\ ~Reporting!Rate(f, 75)
         /\ "high uncertainty" \in Reporting!Risks(a) <=> \E u \in a.epistemic : u > 70
         /\ "uncertainty" \in Reporting!Risks(a) <=> \E u \in a.epistemic : u > 50 /\ u <= 70
         /\ "volatile" \in Reporting!Risks(a) <=> a.domain = "Chaotic"
         /\ "ambiguous" \in Reporting!Risks(a) <=> a.domain = "Disorder"
<1> DEFINE rejected == a.verdict = "rejected"
           fails == \E f \in a.finding : ~Reporting!Rate(f, 50)
           failsSome == \E f \in a.finding : Reporting!Rate(f, 50) /\ ~Reporting!Rate(f, 75)
           unknown == \E u \in a.epistemic : u > 70
           doubtful == \E u \in a.epistemic : u > 50 /\ u <= 70
           chaotic == a.domain = "Chaotic"
           disordered == a.domain = "Disorder"
           is(x) == \/ rejected /\ x = "policy"
                    \/ fails /\ x = "failed checks"
                    \/ failsSome /\ x = "some failed checks"
                    \/ unknown /\ x = "high uncertainty"
                    \/ doubtful /\ x = "uncertainty"
                    \/ chaotic /\ x = "volatile"
                    \/ disordered /\ x = "ambiguous"
<1>1. \A x : x \in Reporting!Risks(a) <=> is(x)
  BY RisksAre
<1> HIDE DEF rejected, fails, failsSome, unknown, doubtful, chaotic, disordered
<1>2. /\ is("policy") <=> rejected
      /\ is("failed checks") <=> fails
      /\ is("some failed checks") <=> failsSome
      /\ is("high uncertainty") <=> unknown
      /\ is("uncertainty") <=> doubtful
      /\ is("volatile") <=> chaotic
      /\ is("ambiguous") <=> disordered
  OBVIOUS
<1> HIDE DEF is
<1>3. /\ "policy" \in Reporting!Risks(a) <=> rejected
      /\ "failed checks" \in Reporting!Risks(a) <=> fails
      /\ "some failed checks" \in Reporting!Risks(a) <=> failsSome
      /\ "high uncertainty" \in Reporting!Risks(a) <=> unknown
      /\ "uncertainty" \in Reporting!Risks(a) <=> doubtful
      /\ "volatile" \in Reporting!Risks(a) <=> chaotic
      /\ "ambiguous" \in Reporting!Risks(a) <=> disordered
  BY <1>1, <1>2
<1> QED BY <1>3 DEF rejected, fails, failsSome, unknown, doubtful, chaotic, disordered

LEMMA RisksFinite ==
  ASSUME NEW a
  PROVE  IsFiniteSet(Reporting!Risks(a))
<1> DEFINE A == {"policy", "failed checks", "some failed checks"}
           B == A \cup {"high uncertainty"}
           C == B \cup {"uncertainty"}
           D == C \cup {"volatile"}
           E == D \cup {"ambiguous"}
<1>1. IsFiniteSet(A)
  BY SmallSets
<1>2. IsFiniteSet(B)
  <2> HIDE DEF A
  <2> QED BY <1>1, FS_AddElement
<1>3. IsFiniteSet(C)
  <2> HIDE DEF B
  <2> QED BY <1>2, FS_AddElement
<1>4. IsFiniteSet(D)
  <2> HIDE DEF C
  <2> QED BY <1>3, FS_AddElement
<1>5. IsFiniteSet(E)
  <2> HIDE DEF D
  <2> QED BY <1>4, FS_AddElement
<1>6. \A x \in Reporting!Risks(a) : x \in E
  BY RisksAre
<1> HIDE DEF E
<1>7. Reporting!Risks(a) \in SUBSET E
  BY <1>6
<1> QED BY <1>5, <1>7, FS_Subset

\* A risk that better evidence leaves is one that was there, or a milder one of the
\* same kind.
LEMMA FewerRisks ==
  ASSUME NEW p, NEW q, IsRequest(p), IsRequest(q), Reporting!Better(p, q)
  PROVE  Reporting!Cardinality(Reporting!Risks(p)) <= Reporting!Cardinality(Reporting!Risks(q))
<1> DEFINE S == Reporting!Risks(p)
           T == Reporting!Risks(q)
           was(x) == IF x \in T THEN x
                     ELSE IF x = "some failed checks" THEN "failed checks" ELSE "high uncertainty"
           M == [x \in S |-> was(x)]
<1>1. "policy" \in S => "policy" \in T
  <2>1. p.verdict = "rejected" => q.verdict = "rejected"
    BY Zenon DEF Reporting!Better
  <2> QED BY <2>1, RiskConditions
<1>2. "failed checks" \in S => "failed checks" \in T
  <2>1. 50 \in Nat
    OBVIOUS
  <2>2. (\E f \in p.finding : ~Reporting!Rate(f, 50)) => \E f \in q.finding : ~Reporting!Rate(f, 50)
    BY <2>1, FewerFail
  <2> QED BY <2>2, RiskConditions
<1>3. "some failed checks" \in S => "some failed checks" \in T \/ "failed checks" \in T
  <2>1. 75 \in Nat
    OBVIOUS
  <2>2. (\E f \in p.finding : ~Reporting!Rate(f, 75)) => \E f \in q.finding : ~Reporting!Rate(f, 75)
    BY <2>1, FewerFail
  <2> QED BY <2>2, RiskConditions
<1>4. /\ "high uncertainty" \in S => "high uncertainty" \in T
      /\ "uncertainty" \in S => "uncertainty" \in T \/ "high uncertainty" \in T
  <2>1. ASSUME NEW u \in p.epistemic PROVE \E v \in q.epistemic : u \in Int /\ v \in Int /\ u <= v
    <3>1. q.epistemic # {}
      BY DEF Reporting!Better
    <3>2. PICK v \in q.epistemic : TRUE
      BY <3>1
    <3>3. u <= v /\ u \in 0..100 /\ v \in 0..100
      BY <3>2 DEF IsRequest, Reporting!Better
    <3> QED BY <3>2, <3>3
  <2>2. (\E u \in p.epistemic : u > 70) => \E v \in q.epistemic : v > 70
    BY <2>1
  <2>3. (\E u \in p.epistemic : u > 50 /\ u <= 70) =>
          (\E v \in q.epistemic : v > 70) \/ (\E v \in q.epistemic : v > 50 /\ v <= 70)
    BY <2>1
  <2> QED BY <2>2, <2>3, RiskConditions
<1>5. /\ "volatile" \in S => "volatile" \in T
      /\ "ambiguous" \in S => "ambiguous" \in T
  <2>1. p.domain = q.domain
    BY DEF Reporting!Better
  <2> QED BY <2>1, RiskConditions
<1>6. ~("failed checks" \in S /\ "some failed checks" \in S)
      /\ ~("high uncertainty" \in S /\ "uncertainty" \in S)
  <2>1. Single(p.finding) /\ Single(p.epistemic)
    BY DEF IsRequest
  <2>2. ~((\E f \in p.finding : ~Reporting!Rate(f, 50))
          /\ (\E f \in p.finding : Reporting!Rate(f, 50) /\ ~Reporting!Rate(f, 75)))
    BY <2>1, Zenon DEF Single
  <2>3. \A u \in p.epistemic : u \in Int
    BY DEF IsRequest
  <2>4. ~((\E u \in p.epistemic : u > 70) /\ (\E u \in p.epistemic : u > 50 /\ u <= 70))
    BY <2>1, <2>3 DEF Single
  <2>5. "failed checks" \in S => \E f \in p.finding : ~Reporting!Rate(f, 50)
    BY RiskConditions
  <2>6. "some failed checks" \in S => \E f \in p.finding : Reporting!Rate(f, 50) /\ ~Reporting!Rate(f, 75)
    BY RiskConditions
  <2>7. "high uncertainty" \in S => \E u \in p.epistemic : u > 70
    BY RiskConditions
  <2>8. "uncertainty" \in S => \E u \in p.epistemic : u > 50 /\ u <= 70
    BY RiskConditions
  <2> HIDE DEF S
  <2> QED BY <2>2, <2>4, <2>5, <2>6, <2>7, <2>8, Zenon
<1>7. \A x \in S : x \in {"policy", "failed checks", "some failed checks", "high uncertainty", "uncertainty",
                          "volatile", "ambiguous"}
  BY RisksAre
<1> HIDE DEF S, T
<1>8. \A x \in S : was(x) \in T
  BY <1>1, <1>2, <1>3, <1>4, <1>5, <1>7
<1>9. \A x, y \in S : was(x) = was(y) => x = y
  BY <1>1, <1>2, <1>3, <1>4, <1>5, <1>6, <1>7
<1>10. M \in Injection(S, T)
  <2>1. M \in [S -> T] /\ \A x \in S : M[x] = was(x)
    BY <1>8
  <2> HIDE DEF M, was
  <2> QED BY <1>9, <2>1 DEF Injection, IsInjective
<1> HIDE DEF M
<1>11. IsFiniteSet(T)
  BY RisksFinite DEF T
<1>12. Cardinality(S) <= Cardinality(T)
  BY <1>10, <1>11, FS_Injection
<1>13. Reporting!Cardinality(S) = Cardinality(S) /\ Reporting!Cardinality(T) = Cardinality(T)
  BY CardinalityOfReports
<1> QED BY <1>12, <1>13 DEF S, T

\* The recommended actions, numbered from the least bold.
LEMMA BoldnessIs ==
  /\ Reporting!Boldness("do not proceed") = 1
  /\ Reporting!Boldness("gather data") = 2
  /\ Reporting!Boldness("validate") = 3
  /\ Reporting!Boldness("stabilize") = 4
  /\ Reporting!Boldness("experiment") = 5
  /\ Reporting!Boldness("proceed with caution") = 6
  /\ Reporting!Boldness("proceed") = 7
<1> DEFINE A == Reporting!Actions
<1>1. DOMAIN A = 1..7
  BY DEF Reporting!Actions
<1>2. /\ A[1] = "do not proceed" /\ A[2] = "gather data" /\ A[3] = "validate" /\ A[4] = "stabilize"
      /\ A[5] = "experiment" /\ A[6] = "proceed with caution" /\ A[7] = "proceed"
  BY DEF Reporting!Actions
<1> HIDE DEF A
<1>3. \A i, j \in 1..7 : A[i] = A[j] => i = j
  <2>1. \A i \in 1..7 : i = 1 \/ i = 2 \/ i = 3 \/ i = 4 \/ i = 5 \/ i = 6 \/ i = 7
    OBVIOUS
  <2> SUFFICES ASSUME NEW i \in 1..7, NEW j \in 1..7, A[i] = A[j] PROVE i = j
    OBVIOUS
  <2>2. i = 1 \/ i = 2 \/ i = 3 \/ i = 4 \/ i = 5 \/ i = 6 \/ i = 7
    BY <2>1
  <2>3. j = 1 \/ j = 2 \/ j = 3 \/ j = 4 \/ j = 5 \/ j = 6 \/ j = 7
    BY <2>1
  <2>4. CASE i = 1
    BY <1>2, <2>3, <2>4
  <2>5. CASE i = 2
    BY <1>2, <2>3, <2>5
  <2>6. CASE i = 3
    BY <1>2, <2>3, <2>6
  <2>7. CASE i = 4
    BY <1>2, <2>3, <2>7
  <2>8. CASE i = 5
    BY <1>2, <2>3, <2>8
  <2>9. CASE i = 6
    BY <1>2, <2>3, <2>9
  <2>10. CASE i = 7
    BY <1>2, <2>3, <2>10
  <2> QED BY <2>2, <2>4, <2>5, <2>6, <2>7, <2>8, <2>9, <2>10
<1>4. ASSUME NEW i \in 1..7 PROVE Reporting!Boldness(A[i]) = i
  <2>1. Reporting!Boldness(A[i]) = CHOOSE j \in 1..7 : A[j] = A[i]
    BY <1>1, Zenon DEF Reporting!Boldness, A
  <2> DEFINE is(j) == j \in 1..7 /\ A[j] = A[i]
  <2>2. is(i)
    OBVIOUS
  <2>3. \A j : is(j) => j = i
    BY <1>3
  <2>4. (CHOOSE j \in 1..7 : A[j] = A[i]) = i
    BY <1>3
  <2> QED BY <2>1, <2>4
<1>5. 1 \in 1..7 /\ 2 \in 1..7 /\ 3 \in 1..7 /\ 4 \in 1..7 /\ 5 \in 1..7 /\ 6 \in 1..7 /\ 7 \in 1..7
  OBVIOUS
<1> QED BY <1>2, <1>4, <1>5, Zenon

\* The first condition of a request that applies decides how bold the advice is.
LEMMA AdviceIs ==
  ASSUME NEW a
  PROVE  Reporting!Boldness(Reporting!RecommendedAction(a)) =
           IF a.verdict = "rejected" THEN 1
           ELSE IF a.confidence < 50 THEN 2
           ELSE IF \E f \in a.finding : ~Reporting!Rate(f, 50) THEN 3
           ELSE IF a.domain = "Chaotic" THEN 4
           ELSE IF a.domain = "Complex" THEN 5
           ELSE IF a.confidence >= 85 /\ \A f \in a.finding : Reporting!Rate(f, 75) THEN 7
           ELSE 6
<1> DEFINE rejected == a.verdict = "rejected"
           unsure == a.confidence < 50
           failed == \E f \in a.finding : ~Reporting!Rate(f, 50)
           chaotic == a.domain = "Chaotic"
           complex == a.domain = "Complex"
           good == a.confidence >= 85 /\ \A f \in a.finding : Reporting!Rate(f, 75)
<1>1. Reporting!RecommendedAction(a) =
        IF rejected THEN "do not proceed"
        ELSE IF unsure THEN "gather data"
        ELSE IF failed THEN "validate"
        ELSE IF chaotic THEN "stabilize"
        ELSE IF complex THEN "experiment"
        ELSE IF good THEN "proceed"
        ELSE "proceed with caution"
  BY Zenon DEF Reporting!RecommendedAction
<1> HIDE DEF rejected, unsure, failed, chaotic, complex, good
<1>2. Reporting!Boldness(Reporting!RecommendedAction(a)) =
        IF rejected THEN 1 ELSE IF unsure THEN 2 ELSE IF failed THEN 3 ELSE IF chaotic THEN 4
        ELSE IF complex THEN 5 ELSE IF good THEN 7 ELSE 6
  BY <1>1, BoldnessIs
<1> QED BY <1>2 DEF rejected, unsure, failed, chaotic, complex, good

\* Better evidence does not make the advice less bold.
LEMMA AdviceRises ==
  ASSUME NEW p, NEW q, IsRequest(p), IsRequest(q), Reporting!Better(p, q)
  PROVE  Reporting!Boldness(Reporting!RecommendedAction(p)) >= Reporting!Boldness(Reporting!RecommendedAction(q))
<1> DEFINE failed(a, n) == \E f \in a.finding : ~Reporting!Rate(f, n)
           rank(a) == IF a.verdict = "rejected" THEN 1
                      ELSE IF a.confidence < 50 THEN 2
                      ELSE IF failed(a, 50) THEN 3
                      ELSE IF a.domain = "Chaotic" THEN 4
                      ELSE IF a.domain = "Complex" THEN 5
                      ELSE IF a.confidence >= 85 /\ ~failed(a, 75) THEN 7
                      ELSE 6
<1>1. \A a : Reporting!Boldness(Reporting!RecommendedAction(a)) = rank(a)
  <2> TAKE a
  <2>1. (\A f \in a.finding : Reporting!Rate(f, 75)) <=> ~failed(a, 75)
    OBVIOUS
  <2>2. (\E f \in a.finding : ~Reporting!Rate(f, 50)) <=> failed(a, 50)
    OBVIOUS
  <2> HIDE DEF failed
  <2> QED BY <2>1, <2>2, AdviceIs, Zenon
<1>2. /\ p.confidence \in Int /\ q.confidence \in Int /\ p.confidence >= q.confidence
      /\ p.domain = q.domain
      /\ p.verdict = "rejected" => q.verdict = "rejected"
  <2>1. p.confidence \in Int /\ q.confidence \in Int
    BY DEF IsRequest
  <2>2. p.confidence >= q.confidence /\ p.domain = q.domain
    BY DEF Reporting!Better, Reporting!More
  <2>3. p.verdict = "rejected" => q.verdict = "rejected"
    BY Zenon DEF Reporting!Better
  <2> QED BY <2>1, <2>2, <2>3
<1>3. (failed(p, 50) => failed(q, 50)) /\ (failed(p, 75) => failed(q, 75))
  <2>1. 50 \in Nat /\ 75 \in Nat
    OBVIOUS
  <2> QED BY <2>1, FewerFail
<1> HIDE DEF failed
<1>4. rank(p) >= rank(q)
  BY <1>2, <1>3
<1> HIDE DEF rank
<1> QED BY <1>1, <1>4

\* What a run's last state is followed by.
LEMMA StepsAre ==
  ASSUME NEW a, a.domain \in Cynefin, NEW x
  PROVE  x \in Reporting!Steps(a) <=>
           \/ a.finding # {} /\ (\E p \in a.pvalue : p >= 5) /\ x = "gather more data"
           \/ (\E u \in a.epistemic : u > 50) /\ x = "collect evidence"
           \/ a.epistemic # {} /\ a.probe /\ x = "recommended probe"
           \/ a.violations # {} /\ x = "address violations"
           \/ a.domain = "Clear" /\ x = "safe to automate"
           \/ a.domain = "Complicated" /\ x = "consider expert validation"
           \/ a.domain = "Complex" /\ x = "design probes"
           \/ a.domain = "Chaotic" /\ x = "stabilize"
           \/ a.domain = "Disorder" /\ x = "gather context"
           \/ /\ \/ a.domain \in {"Chaotic", "Disorder"} \/ a.verdict = "requires_escalation"
                 \/ a.exhausted \/ a.confidence < 85
              /\ x = "human review"
<1> DEFINE gather == Reporting!When(a.finding # {} /\ \E p \in a.pvalue : p >= 5, "gather more data")
           collect == Reporting!When(\E u \in a.epistemic : u > 50, "collect evidence")
           probe == Reporting!When(a.epistemic # {} /\ a.probe, "recommended probe")
           address == Reporting!When(a.violations # {}, "address violations")
           step == CASE a.domain = "Clear" -> "safe to automate"
                     [] a.domain = "Complicated" -> "consider expert validation"
                     [] a.domain = "Complex" -> "design probes"
                     [] a.domain = "Chaotic" -> "stabilize"
                     [] a.domain = "Disorder" -> "gather context"
           seen == \/ a.domain \in {"Chaotic", "Disorder"} \/ a.verdict = "requires_escalation"
                   \/ a.exhausted \/ a.confidence < 85
           review == Reporting!When(seen, "human review")
<1>1. x \in gather <=> (a.finding # {} /\ (\E p \in a.pvalue : p >= 5) /\ x = "gather more data")
  BY Zenon DEF Reporting!When
<1>2. x \in collect <=> ((\E u \in a.epistemic : u > 50) /\ x = "collect evidence")
  BY Zenon DEF Reporting!When
<1>3. x \in probe <=> (a.epistemic # {} /\ a.probe /\ x = "recommended probe")
  BY Zenon DEF Reporting!When
<1>4. x \in address <=> (a.violations # {} /\ x = "address violations")
  BY Zenon DEF Reporting!When
<1>5. x \in review <=> (seen /\ x = "human review")
  <2> HIDE DEF seen
  <2> QED BY Zenon DEF Reporting!When
<1>6. x = step <=> \/ a.domain = "Clear" /\ x = "safe to automate"
                   \/ a.domain = "Complicated" /\ x = "consider expert validation"
                   \/ a.domain = "Complex" /\ x = "design probes"
                   \/ a.domain = "Chaotic" /\ x = "stabilize"
                   \/ a.domain = "Disorder" /\ x = "gather context"
  BY DEF Cynefin
<1>7. Reporting!Steps(a) = gather \cup collect \cup probe \cup address \cup {step} \cup review
  BY DEF Reporting!Steps
<1> HIDE DEF gather, collect, probe, address, step, review, seen
<1>8. x \in Reporting!Steps(a) <=>
        x \in gather \/ x \in collect \/ x \in probe \/ x \in address \/ x = step \/ x \in review
  BY <1>7
<1> DEFINE stepped == \/ a.domain = "Clear" /\ x = "safe to automate"
                      \/ a.domain = "Complicated" /\ x = "consider expert validation"
                      \/ a.domain = "Complex" /\ x = "design probes"
                      \/ a.domain = "Chaotic" /\ x = "stabilize"
                      \/ a.domain = "Disorder" /\ x = "gather context"
<1>9. x = step <=> stepped
  BY <1>6
<1> HIDE DEF stepped
<1>10. x \in Reporting!Steps(a) <=>
         \/ a.finding # {} /\ (\E p \in a.pvalue : p >= 5) /\ x = "gather more data"
         \/ (\E u \in a.epistemic : u > 50) /\ x = "collect evidence"
         \/ a.epistemic # {} /\ a.probe /\ x = "recommended probe"
         \/ a.violations # {} /\ x = "address violations"
         \/ stepped
         \/ seen /\ x = "human review"
  BY <1>1, <1>2, <1>3, <1>4, <1>5, <1>8, <1>9, Zenon
<1> QED BY <1>10, Zenon DEF stepped, seen

LEMMA KeyInsightsAre ==
  ASSUME NEW a
  PROVE  /\ "interpret with caution" \in Reporting!KeyInsights(a) <=> \E f \in a.finding : f.passed # f.run
         /\ "violations detected" \in Reporting!KeyInsights(a) <=> a.violations # {}
<1> DEFINE direction == {IF f.effect > 0 THEN "increases" ELSE "decreases" : f \in a.finding}
           robust == Reporting!When(\E f \in a.finding : f.passed = f.run, "robust")
           caution == Reporting!When(\E f \in a.finding : f.passed # f.run, "interpret with caution")
           significant == Reporting!When(a.finding # {} /\ \E p \in a.pvalue : p < 5, "significant")
           reduced == Reporting!When(a.epistemic # {}, "uncertainty reduced")
           violated == Reporting!When(a.violations # {}, "violations detected")
           passed == Reporting!When(a.violations = {} /\ a.verdict = "approved", "all policies passed")
<1>1. \A x : x \in direction => x = "increases" \/ x = "decreases"
  OBVIOUS
<1>2. /\ \A x : x \in robust => x = "robust"
      /\ \A x : x \in caution <=> (\E f \in a.finding : f.passed # f.run) /\ x = "interpret with caution"
      /\ \A x : x \in significant => x = "significant"
  BY Zenon DEF Reporting!When
<1>3. /\ \A x : x \in reduced => x = "uncertainty reduced"
      /\ \A x : x \in violated <=> a.violations # {} /\ x = "violations detected"
      /\ \A x : x \in passed => x = "all policies passed"
  BY Zenon DEF Reporting!When
<1>4. Reporting!KeyInsights(a) =
        {"classified"} \cup direction \cup robust \cup caution \cup significant \cup reduced \cup violated \cup passed
  BY DEF Reporting!KeyInsights
<1> HIDE DEF direction, robust, caution, significant, reduced, violated, passed
<1>5. \A x : x \in Reporting!KeyInsights(a) <=>
               \/ x = "classified" \/ x \in direction \/ x \in robust \/ x \in caution
               \/ x \in significant \/ x \in reduced \/ x \in violated \/ x \in passed
  BY <1>4
<1>6. \A x : x \in {"interpret with caution", "violations detected"} =>
               /\ x # "classified" /\ x \notin direction /\ x \notin robust
               /\ x \notin significant /\ x \notin reduced /\ x \notin passed
  BY <1>1, <1>2, <1>3
<1>7. "interpret with caution" \notin violated /\ "violations detected" \notin caution
  <2>1. "interpret with caution" # "violations detected"
    OBVIOUS
  <2> QED BY <1>2, <1>3, <2>1, Zenon
<1>8. "interpret with caution" \in Reporting!KeyInsights(a) <=> "interpret with caution" \in caution
  BY <1>5, <1>6, <1>7
<1>9. "violations detected" \in Reporting!KeyInsights(a) <=> "violations detected" \in violated
  BY <1>5, <1>6, <1>7
<1> QED BY <1>2, <1>3, <1>8, <1>9, Zenon

\* The analyst's actions, and the executive's.
LEMMA ActionsAre ==
  ASSUME NEW a
  PROVE  /\ "run sensitivity analysis" \in Reporting!ActionItems(a, "analyst") =>
              \E f \in a.finding : ~Reporting!Rate(f, 80)
         /\ "upload more data" \in Reporting!ActionItems(a, "analyst") => \E n \in a.sample : n < 500
         /\ "design a probe" \in Reporting!ActionItems(a, "analyst") => \E u \in a.epistemic : u > 30
         /\ a.confidence >= 85 => "approve pilot" \in Reporting!ActionItems(a, "executive")
<1> DEFINE run == Reporting!When(\E f \in a.finding : ~Reporting!Rate(f, 80), "run sensitivity analysis")
           upload == Reporting!When(\E n \in a.sample : n < 500, "upload more data")
           slow == a.time > 5000
           train == Reporting!When(slow, "train the oracle")
           probe == Reporting!When(\E u \in a.epistemic : u > 30, "design a probe")
           review(r) == Reporting!When(r = "analyst" /\ a.finding # {}, "review confounders")
           caches(r) == Reporting!When(r = "developer", "check caches")
           watched(r) == r = "developer" /\ a.time > 3000
           monitor(r) == Reporting!When(watched(r), "monitor")
           impact(r) == Reporting!When(r = "executive" /\ \E f \in a.finding : f.effect # 0, "review impact")
           pilot(r) == Reporting!When(r = "executive" /\ a.confidence >= 85, "approve pilot")
<1>1. \A x : /\ x \in run <=> (\E f \in a.finding : ~Reporting!Rate(f, 80)) /\ x = "run sensitivity analysis"
             /\ x \in upload <=> (\E n \in a.sample : n < 500) /\ x = "upload more data"
             /\ x \in probe <=> (\E u \in a.epistemic : u > 30) /\ x = "design a probe"
  BY Zenon DEF Reporting!When
<1>2. \A x : x \in train => x = "train the oracle"
  <2> HIDE DEF slow
  <2> QED BY Zenon DEF Reporting!When
<1>3. \A r, x : /\ x \in review(r) => x = "review confounders"
                /\ x \in caches(r) => x = "check caches"
                /\ x \in impact(r) => x = "review impact"
                /\ x \in pilot(r) <=> r = "executive" /\ a.confidence >= 85 /\ x = "approve pilot"
  BY Zenon DEF Reporting!When
<1>4. \A r, x : x \in monitor(r) => x = "monitor"
  <2> HIDE DEF watched
  <2> QED BY Zenon DEF Reporting!When
<1>5. \A r : Reporting!ActionItems(a, r) =
               run \cup upload \cup train \cup probe \cup review(r) \cup caches(r) \cup monitor(r)
               \cup impact(r) \cup pilot(r)
  BY DEF Reporting!ActionItems
<1> HIDE DEF run, upload, slow, train, probe, review, caches, watched, monitor, impact, pilot
<1>6. \A r, x : x \in Reporting!ActionItems(a, r) <=>
                  \/ x \in run \/ x \in upload \/ x \in train \/ x \in probe \/ x \in review(r)
                  \/ x \in caches(r) \/ x \in monitor(r) \/ x \in impact(r) \/ x \in pilot(r)
  BY <1>5
<1>7. /\ "run sensitivity analysis" \in Reporting!ActionItems(a, "analyst") => "run sensitivity analysis" \in run
      /\ "upload more data" \in Reporting!ActionItems(a, "analyst") => "upload more data" \in upload
      /\ "design a probe" \in Reporting!ActionItems(a, "analyst") => "design a probe" \in probe
  <2> DEFINE advised == {"run sensitivity analysis", "upload more data", "design a probe"}
  <2>1. \A x : x \in advised =>
                 /\ x \notin train /\ x \notin review("analyst") /\ x \notin caches("analyst")
                 /\ x \notin monitor("analyst") /\ x \notin impact("analyst") /\ x \notin pilot("analyst")
    BY <1>2, <1>3, <1>4
  <2>2. \A x : x \in advised /\ x \in Reporting!ActionItems(a, "analyst") =>
                 x \in run \/ x \in upload \/ x \in probe
    <3> HIDE DEF advised
    <3> QED BY <1>6, <2>1, Zenon
  <2>3. /\ "run sensitivity analysis" # "upload more data" /\ "run sensitivity analysis" # "design a probe"
        /\ "upload more data" # "design a probe"
    OBVIOUS
  <2>4. \A x : /\ (x \in run => x = "run sensitivity analysis")
               /\ (x \in upload => x = "upload more data")
               /\ (x \in probe => x = "design a probe")
    BY <1>1, Zenon
  <2>5. /\ "run sensitivity analysis" \in advised /\ "upload more data" \in advised
        /\ "design a probe" \in advised
    OBVIOUS
  <2> HIDE DEF advised
  <2> QED BY <2>2, <2>3, <2>4, <2>5, Zenon
<1> QED BY <1>1, <1>3, <1>6, <1>7, Zenon

\* What the recommended action is blind to.
LEMMA OverlookedAre ==
  ASSUME NEW a
  PROVE  LET O == Reporting!Overlooked(a) IN
         /\ (\E p \in a.pvalue : p >= 5) => "gather more data" \in O
         /\ (\E p \in a.pvalue : p >= 10) => "weak significance" \in O
         /\ (\E f \in a.finding : f.passed # f.run) => "interpret with caution" \in O
         /\ (\E f \in a.finding : Reporting!Rate(f, 75) /\ ~Reporting!Rate(f, 80)) =>
              "tests failed" \in O /\ "run sensitivity analysis" \in O
         /\ a.entropy > 50 => "several domains" \in O
         /\ (\E u \in a.epistemic : u > 30) => "reducible" \in O /\ "design a probe" \in O
         /\ (\E u \in a.epistemic : u > 50 /\ u <= 70) => "collect evidence" \in O /\ "uncertainty" \in O
         /\ (\E u \in a.epistemic : u > 70) => "collect evidence" \in O /\ "high uncertainty" \in O
         /\ (\E n \in a.sample : n < 500) => "small sample" \in O /\ "upload more data" \in O
         /\ Reporting!Reliability(a).weaknesses \ {"confidence"} # {} => "low reliability" \in O
         /\ a.exhausted => "human review" \in O
         /\ a.domain = "Disorder" => "ambiguous" \in O /\ "gather context" \in O /\ "human review" \in O
         /\ a.verdict = "requires_escalation" => "human review" \in O
         /\ a.verdict = "requires_escalation" /\ a.violations # {} =>
              /\ "policy violation" \in O /\ "violations detected" \in O
              /\ "address violations" \in O /\ "override" \in O
<1> DEFINE faint == \E p \in a.pvalue : p >= 5
           weak == \E p \in a.pvalue : p >= 10
           missed == \E f \in a.finding : f.passed # f.run
           between == \E f \in a.finding : Reporting!Rate(f, 75) /\ ~Reporting!Rate(f, 80)
           mixed == a.entropy > 50
           reducible == \E u \in a.epistemic : u > 30
           unsure == \E u \in a.epistemic : u > 50 /\ u <= 70
           ignorant == \E u \in a.epistemic : u > 70
           few == \E n \in a.sample : n < 500
           unreliable == Reporting!Reliability(a).weaknesses \ {"confidence"} # {}
           unclear == a.domain = "Disorder"
           escalated == a.verdict = "requires_escalation"
           violated == a.verdict = "requires_escalation" /\ a.violations # {}
           O == Reporting!Overlooked(a)
<1>1. O = (IF faint THEN {"gather more data"} ELSE {})
          \cup (IF weak THEN {"weak significance"} ELSE {})
          \cup (IF missed THEN {"interpret with caution"} ELSE {})
          \cup (IF between THEN {"tests failed", "run sensitivity analysis"} ELSE {})
          \cup (IF mixed THEN {"several domains"} ELSE {})
          \cup (IF reducible THEN {"reducible", "design a probe"} ELSE {})
          \cup (IF unsure THEN {"collect evidence", "uncertainty"} ELSE {})
          \cup (IF ignorant THEN {"collect evidence", "high uncertainty"} ELSE {})
          \cup (IF few THEN {"small sample", "upload more data"} ELSE {})
          \cup (IF unreliable THEN {"low reliability"} ELSE {})
          \cup (IF a.exhausted THEN {"human review"} ELSE {})
          \cup (IF unclear THEN {"ambiguous", "gather context", "human review"} ELSE {})
          \cup (IF escalated THEN {"human review"} ELSE {})
          \cup (IF violated
                THEN {"policy violation", "violations detected", "address violations", "override"} ELSE {})
  BY DEF Reporting!Overlooked
<1> HIDE DEF faint, weak, missed, between, mixed, reducible, unsure, ignorant, few, unreliable, unclear,
             escalated, violated, O
<1>2. /\ faint => "gather more data" \in O
      /\ weak => "weak significance" \in O
      /\ missed => "interpret with caution" \in O
      /\ between => "tests failed" \in O /\ "run sensitivity analysis" \in O
      /\ mixed => "several domains" \in O
      /\ reducible => "reducible" \in O /\ "design a probe" \in O
      /\ unsure => "collect evidence" \in O /\ "uncertainty" \in O
  BY <1>1
<1>3. /\ ignorant => "collect evidence" \in O /\ "high uncertainty" \in O
      /\ few => "small sample" \in O /\ "upload more data" \in O
      /\ unreliable => "low reliability" \in O
      /\ a.exhausted => "human review" \in O
      /\ unclear => "ambiguous" \in O /\ "gather context" \in O /\ "human review" \in O
      /\ escalated => "human review" \in O
      /\ violated => /\ "policy violation" \in O /\ "violations detected" \in O
                     /\ "address violations" \in O /\ "override" \in O
  BY <1>1
<1> QED
  BY <1>2, <1>3, Zenon DEF faint, weak, missed, between, mixed, reducible, unsure, ignorant, few, unreliable,
                           unclear, escalated, violated, O

\* An analysis of high confidence that the reliability report calls low has a factor
\* that it calls a weakness.
LEMMA LowHasWeakness ==
  ASSUME NEW a, IsRequest(a), a.confidence >= 85, Reporting!Reliability(a).level < 2
  PROVE  Reporting!Reliability(a).weaknesses \ {"confidence"} # {}
<1> DEFINE F == Reporting!Factors(a)
           sum == 30 * F.confidence + 25 * F.data + 25 * F.tests + 20 * F.sample
           B == {50, 65, 80, 90}
           reached == {b \in B : sum \div 100 > Reporting!Percent(b)}
<1> SUFFICES ASSUME Reporting!Reliability(a).weaknesses \ {"confidence"} = {} PROVE FALSE
  OBVIOUS
<1>1. Reporting!Better(a, a)
  <2>1. a.confidence \in Int /\ a.entropy \in Int /\ a.governance \in Int
    BY DEF IsRequest
  <2>2. /\ \A m, n \in a.sample : Reporting!More(m, n)
        /\ \A f, g \in a.finding : f.effect = g.effect /\ f.run = g.run /\ f.passed >= g.passed
        /\ \A u, v \in a.pvalue : u <= v
        /\ \A u, v \in a.epistemic : u <= v
        /\ \A d, e \in a.data : d.missing <= e.missing /\ d.duplicates <= e.duplicates /\ d.rows >= e.rows
    BY DEF IsRequest, Single, Reporting!More
  <2>3. Reporting!More(a.confidence, a.confidence)
    BY <2>1 DEF Reporting!More
  <2>4. a.entropy <= a.entropy /\ a.governance >= a.governance
    BY <2>1
  <2>5. \A field \in {"pvalue", "epistemic"} : \A u, v \in a[field] : u <= v
    BY <2>2
  <2> QED BY <2>2, <2>3, <2>4, <2>5, Zenon DEF Reporting!Better
<1>2. \A x \in {"confidence", "data", "tests", "sample"} : F[x] \in Int
  BY <1>1, FactorsRise
<1>3. Reporting!Reliability(a).weaknesses = {x \in DOMAIN F : F[x] < Reporting!Percent(70)}
  <2> HIDE DEF F
  <2> QED BY DEF Reporting!Reliability, F
<1>4. Reporting!Reliability(a).level = Reporting!Level(sum \div 100, B)
  <2> HIDE DEF F
  <2> QED BY DEF Reporting!Reliability, F
<1>5. DOMAIN F = {"confidence", "data", "tests", "sample"} /\ F.confidence = Reporting!Percent(a.confidence)
  BY DEF Reporting!Factors
<1> HIDE DEF F
<1>6. F.data >= 2520 /\ F.tests >= 2520 /\ F.sample >= 2520
  <2>1. "data" \in DOMAIN F /\ "tests" \in DOMAIN F /\ "sample" \in DOMAIN F
    BY <1>5
  <2>2. F.data \in Int /\ F.tests \in Int /\ F.sample \in Int
    BY <1>2
  <2>3. ~(F.data < Reporting!Percent(70)) /\ ~(F.tests < Reporting!Percent(70)) /\ ~(F.sample < Reporting!Percent(70))
    BY <1>3, <2>1
  <2>4. Reporting!Percent(70) = 2520
    BY DEF Reporting!Percent
  <2> QED BY <2>2, <2>3, <2>4
<1>7. F.confidence \in Int /\ F.confidence >= 3060
  <2>1. a.confidence \in Int
    BY DEF IsRequest
  <2> QED BY <1>5, <2>1 DEF Reporting!Percent
<1>8. sum \in Int /\ sum >= 268200
  <2>1. F.data \in Int /\ F.tests \in Int /\ F.sample \in Int
    BY <1>2
  <2> QED BY <1>6, <1>7, <2>1
<1> HIDE DEF sum
<1>9. sum \div 100 \in Int /\ sum \div 100 >= 2682
  <2>1. 268200 \in Int /\ 100 \in Nat \ {0} /\ 268200 \div 100 = 2682
    OBVIOUS
  <2>2. sum \div 100 \in Int /\ sum \div 100 >= 268200 \div 100
    BY <1>8, <2>1, DivisionRises
  <2> QED BY <2>1, <2>2
<1>10. {50, 65} \in SUBSET reached
  <2>1. Reporting!Percent(50) = 1800 /\ Reporting!Percent(65) = 2340
    BY DEF Reporting!Percent
  <2> DEFINE d == sum \div 100
  <2>2. d \in Int /\ d >= 2682
    BY <1>9
  <2> HIDE DEF d
  <2>3. d > Reporting!Percent(50) /\ d > Reporting!Percent(65)
    BY <2>1, <2>2
  <2> QED BY <2>3 DEF d
<1>11. IsFiniteSet(reached)
  <2>1. IsFiniteSet({50, 65, 80})
    BY SmallSets
  <2>2. IsFiniteSet({50, 65, 80} \cup {90})
    BY <2>1, FS_AddElement
  <2> DEFINE Bounds == {50, 65, 80} \cup {90}
  <2>3. reached \in SUBSET Bounds
    OBVIOUS
  <2>4. IsFiniteSet(Bounds)
    BY <2>2
  <2> HIDE DEF reached, Bounds
  <2> QED BY <2>3, <2>4, FS_Subset
<1>12. Cardinality({50, 65}) = 2
  <2>1. IsFiniteSet({50}) /\ Cardinality({50}) = 1
    BY FS_Singleton
  <2>2. 65 \notin {50} /\ {50, 65} = {50} \cup {65}
    OBVIOUS
  <2>3. Cardinality({50} \cup {65}) = (IF 65 \in {50} THEN Cardinality({50}) ELSE Cardinality({50}) + 1)
    BY <2>1, FS_AddElement
  <2> QED BY <2>1, <2>2, <2>3
<1>13. Reporting!Level(sum \div 100, B) = Cardinality(reached)
  BY CardinalityOfReports, Zenon DEF Reporting!Level
<1> HIDE DEF reached
<1>14. Cardinality(reached) \in Nat /\ Cardinality(reached) >= 2
  BY <1>10, <1>11, <1>12, FS_Subset, FS_CardinalityType
<1> QED BY <1>4, <1>13, <1>14

\* A finding is called weak for a p-value of a tenth or more.
LEMMA WeakIs ==
  ASSUME NEW a, IsRequest(a), NEW f \in Reporting!Summary(a).finding, 0 \in f.significance
  PROVE  \E p \in a.pvalue : p >= 10
<1> DEFINE levels == {Reporting!Cardinality({b \in {1, 5, 10} : p < b}) : p \in a.pvalue}
<1>1. f.significance = levels
  <2>1. Reporting!Summary(a).finding =
          {[effect |-> IF g.effect > 0 THEN "increases" ELSE "decreases", significance |-> levels] : g \in a.finding}
    BY DEF Reporting!Summary
  <2> HIDE DEF levels
  <2> QED BY <2>1
<1>2. PICK p \in a.pvalue : Reporting!Cardinality({b \in {1, 5, 10} : p < b}) = 0
  BY <1>1
<1> DEFINE below == {b \in {1, 5, 10} : p < b}
<1>3. below \in SUBSET {1, 5, 10} /\ IsFiniteSet({1, 5, 10})
  BY SmallSets
<1>4. Reporting!Cardinality(below) = 0
  BY <1>2
<1>5. ~(p < 10)
  <2>1. p < 10 => 10 \in below
    OBVIOUS
  <2> HIDE DEF below
  <2>2. IsFiniteSet(below)
    BY <1>3, FS_Subset
  <2>3. Cardinality(below) = 0
    BY <1>4, CardinalityOfReports
  <2>4. below = {}
    BY <2>2, <2>3, FS_EmptySet
  <2> QED BY <2>1, <2>4
<1>6. p \in Int
  BY DEF IsRequest
<1> QED BY <1>5, <1>6

\* Better evidence leaves no step to take that was not there.
LEMMA FewerSteps ==
  ASSUME NEW p, NEW q, IsRequest(p), IsRequest(q), Reporting!Better(p, q)
  PROVE  /\ Reporting!Steps(p) \subseteq Reporting!Steps(q)
         /\ "interpret with caution" \in Reporting!KeyInsights(p) =>
              "interpret with caution" \in Reporting!KeyInsights(q)
<1>1. /\ p.domain = q.domain /\ p.probe = q.probe /\ (p.exhausted => q.exhausted)
      /\ p.verdict = "requires_escalation" => q.verdict = "requires_escalation"
      /\ p.violations # {} => q.violations # {}
      /\ p.finding # {} => q.finding # {}
      /\ p.epistemic # {} => q.epistemic # {}
  <2>1. /\ p.domain = q.domain /\ p.probe = q.probe /\ (p.exhausted => q.exhausted)
        /\ p.verdict # q.verdict => p.verdict = "approved" /\ q.verdict = "rejected"
    BY Zenon DEF Reporting!Better
  <2>2. /\ p.violations \subseteq q.violations
        /\ p.finding = {} <=> q.finding = {}
        /\ p.epistemic = {} <=> q.epistemic = {}
    BY DEF Reporting!Better
  <2> QED BY <2>1, <2>2
<1>2. /\ (\E x \in p.pvalue : x >= 5) => \E x \in q.pvalue : x >= 5
      /\ (\E u \in p.epistemic : u > 50) => \E u \in q.epistemic : u > 50
  <2>1. ASSUME NEW field \in {"pvalue", "epistemic"}, NEW u \in p[field]
        PROVE  \E v \in q[field] : u \in Int /\ v \in Int /\ u <= v
    <3>1. q[field] # {}
      BY <2>1 DEF Reporting!Better
    <3>2. PICK v \in q[field] : TRUE
      BY <3>1
    <3>3. u <= v
      BY <3>2 DEF Reporting!Better
    <3>4. u \in 0..100 /\ v \in 0..100
      BY <3>2 DEF IsRequest
    <3> QED BY <3>2, <3>3, <3>4
  <2>2. \A u \in p.pvalue : \E v \in q.pvalue : u \in Int /\ v \in Int /\ u <= v
    BY <2>1
  <2>3. \A u \in p.epistemic : \E v \in q.epistemic : u \in Int /\ v \in Int /\ u <= v
    BY <2>1
  <2> QED BY <2>2, <2>3
<1>3. p.confidence < 85 => q.confidence < 85
  <2>1. p.confidence \in Int /\ q.confidence \in Int /\ p.confidence >= q.confidence
    BY DEF IsRequest, Reporting!Better, Reporting!More
  <2>2. p.confidence < 85 <=> ~(p.confidence >= 85)
    BY <2>1
  <2> QED BY <2>1
<1>4. (\E f \in p.finding : f.passed # f.run) => \E f \in q.finding : f.passed # f.run
  <2> SUFFICES ASSUME NEW f \in p.finding, f.passed # f.run PROVE \E g \in q.finding : g.passed # g.run
    OBVIOUS
  <2>1. PICK g \in q.finding : TRUE
    BY <1>1
  <2>2. f.run = g.run /\ f.passed >= g.passed /\ f.passed <= f.run
    BY <2>1 DEF IsRequest, Reporting!Better
  <2>3. f.passed \in Int /\ f.run \in Int /\ g.passed \in Int /\ g.run \in Int
    BY <2>1 DEF IsRequest
  <2> QED BY <2>1, <2>2, <2>3
<1>5. ASSUME NEW x \in Reporting!Steps(p) PROVE x \in Reporting!Steps(q)
  <2> DEFINE gather(a) == a.finding # {} /\ \E v \in a.pvalue : v >= 5
             collect(a) == \E u \in a.epistemic : u > 50
             probe(a) == a.epistemic # {} /\ a.probe
             review(a) == \/ a.domain \in {"Chaotic", "Disorder"} \/ a.verdict = "requires_escalation"
                          \/ a.exhausted \/ a.confidence < 85
             is(a) == \/ gather(a) /\ x = "gather more data"
                      \/ collect(a) /\ x = "collect evidence"
                      \/ probe(a) /\ x = "recommended probe"
                      \/ a.violations # {} /\ x = "address violations"
                      \/ a.domain = "Clear" /\ x = "safe to automate"
                      \/ a.domain = "Complicated" /\ x = "consider expert validation"
                      \/ a.domain = "Complex" /\ x = "design probes"
                      \/ a.domain = "Chaotic" /\ x = "stabilize"
                      \/ a.domain = "Disorder" /\ x = "gather context"
                      \/ review(a) /\ x = "human review"
  <2>1. /\ gather(p) => gather(q)
        /\ collect(p) => collect(q)
        /\ probe(p) => probe(q)
        /\ review(p) => review(q)
    BY <1>1, <1>2, <1>3, Zenon
  <2>2. p.domain \in Cynefin /\ q.domain \in Cynefin
    BY DEF IsRequest
  <2>3. /\ x \in Reporting!Steps(p) => is(p)
        /\ is(q) => x \in Reporting!Steps(q)
    BY <2>2, StepsAre, Zenon
  <2> HIDE DEF gather, collect, probe, review
  <2> QED BY <1>1, <1>5, <2>1, <2>3, Zenon
<1> QED BY <1>4, <1>5, KeyInsightsAre, Zenon

\* Better evidence never makes a report worse.
LEMMA EvidenceHelps ==
  ASSUME NEW p, NEW q, IsRequest(p), IsRequest(q), Reporting!Better(p, q)
  PROVE  /\ Reporting!Boldness(Reporting!RecommendedAction(p))
              >= Reporting!Boldness(Reporting!RecommendedAction(q))
         /\ Reporting!Cardinality(Reporting!Risks(p)) <= Reporting!Cardinality(Reporting!Risks(q))
         /\ Reporting!Warnings(p) \subseteq Reporting!Warnings(q)
         /\ Reporting!Steps(p) \subseteq Reporting!Steps(q)
         /\ "interpret with caution" \in Reporting!KeyInsights(p) =>
              "interpret with caution" \in Reporting!KeyInsights(q)
         /\ Reporting!Reliability(p).level >= Reporting!Reliability(q).level
         /\ Reporting!Reliability(p).weaknesses \subseteq Reporting!Reliability(q).weaknesses
         /\ \A d \in p.data, e \in q.data :
              /\ Reporting!DataQuality(d).level >= Reporting!DataQuality(e).level
              /\ Reporting!DataQuality(d).advice \subseteq Reporting!DataQuality(e).advice
         /\ Reporting!Compliance(p).status >= Reporting!Compliance(q).status
         /\ Reporting!Workflow(p).overall >= Reporting!Workflow(q).overall
         /\ Reporting!Workflow(p).alignment >= Reporting!Workflow(q).alignment
<1>1. ASSUME NEW d \in p.data, NEW e \in q.data
      PROVE  /\ Reporting!DataQuality(d).level >= Reporting!DataQuality(e).level
             /\ Reporting!DataQuality(d).advice \subseteq Reporting!DataQuality(e).advice
  <2>1. /\ d \in Tables /\ e \in Tables
        /\ d.missing <= e.missing /\ d.duplicates <= e.duplicates /\ d.rows >= e.rows
    BY DEF IsRequest, Reporting!Better, Tables
  <2> QED BY <2>1, QualityRises
<1> QED
  BY <1>1, AdviceRises, FewerRisks, LessWarned, FewerSteps, ReliabilityRises, ComplianceRises, WorkflowRises

\* When the evidence supports proceeding, no report has a reservation but those that
\* the recommended action overlooks.
LEMMA ProceedsUnopposed ==
  ASSUME IsRequest(asking)
  PROVE  Reporting!ProceedIsUnopposed
<1> DEFINE some(n) == \E f \in asking.finding : ~Reporting!Rate(f, n)
           O == Reporting!Overlooked(asking)
<1> SUFFICES ASSUME Reporting!Summary(asking).action = "proceed"
             PROVE  /\ Reporting!Summary(asking).confidence = 3
                    /\ Reporting!Insight("validation", "high", "can support decisions")
                         \in Reporting!Insights(asking, "executive")
                    /\ "approve pilot" \in Reporting!ActionItems(asking, "executive")
                    /\ Reporting!Reservations(asking) \subseteq O
  BY Zenon DEF Reporting!ProceedIsUnopposed
<1>1. /\ asking.verdict # "rejected" /\ ~some(50) /\ ~some(75)
      /\ asking.domain # "Chaotic" /\ asking.domain # "Complex" /\ asking.confidence >= 85
  <2>1. Reporting!RecommendedAction(asking) = "proceed"
    BY DEF Reporting!Summary
  <2>2. Reporting!Boldness(Reporting!RecommendedAction(asking)) = 7
    BY <2>1, BoldnessIs
  <2>3. (\A f \in asking.finding : Reporting!Rate(f, 75)) <=> ~some(75)
    OBVIOUS
  <2> HIDE DEF some
  <2>4. 7 = IF asking.verdict = "rejected" THEN 1
            ELSE IF asking.confidence < 50 THEN 2
            ELSE IF some(50) THEN 3
            ELSE IF asking.domain = "Chaotic" THEN 4
            ELSE IF asking.domain = "Complex" THEN 5
            ELSE IF asking.confidence >= 85 /\ ~some(75) THEN 7
            ELSE 6
    BY <2>2, <2>3, AdviceIs, Zenon DEF some
  <2> QED BY <2>4
<1>2. /\ asking.confidence \in Int /\ asking.domain \in Cynefin
      /\ asking.violations # {} => asking.verdict = "requires_escalation"
  BY <1>1 DEF IsRequest, Verdicts
<1>3. Reporting!Summary(asking).confidence = 3
  <2>1. {b \in {50, 70, 85} : asking.confidence >= b} = {50, 70, 85}
    BY <1>1, <1>2
  <2>2. Reporting!Summary(asking).confidence = Reporting!Cardinality({b \in {50, 70, 85} : asking.confidence >= b})
    BY DEF Reporting!Summary
  <2>3. Cardinality({50, 70, 85}) = 3
    <3>1. 50 # 70 /\ 50 # 85 /\ 70 # 85
      OBVIOUS
    <3>2. \A x, y, z : x # y /\ x # z /\ y # z => Cardinality({x, y, z}) = 3
      BY SmallSets
    <3> DEFINE a == 50
               b == 70
               c == 85
    <3>3. a # b /\ a # c /\ b # c
      BY <3>1
    <3> HIDE DEF a, b, c
    <3>4. Cardinality({a, b, c}) = 3
      BY <3>2, <3>3, Zenon
    <3> QED BY <3>4 DEF a, b, c
  <2> QED BY <2>1, <2>2, <2>3, CardinalityOfReports
<1>4. Reporting!Insight("validation", "high", "can support decisions") \in Reporting!Insights(asking, "executive")
  <2>1. Reporting!Insights(asking, "executive") = Reporting!ExecutiveInsights(asking)
    BY DEF Reporting!Insights
  <2> QED BY <1>1, <2>1, ExecutivesAre, Zenon
<1>5. "approve pilot" \in Reporting!ActionItems(asking, "executive")
  BY <1>1, ActionsAre
<1>6. (\E f \in asking.finding : ~Reporting!Rate(f, 80)) => "tests failed" \in O /\ "run sensitivity analysis" \in O
  BY <1>1, OverlookedAre, Zenon
<1>7. ASSUME NEW i \in Reporting!Warnings(asking) PROVE i.title \in O
  <2>1. ~(asking.confidence < 70) /\ ~(asking.confidence < 60)
    BY <1>1, <1>2
  <2>2. \/ some(80) /\ i = Reporting!Insight("warning", "high", "tests failed")
        \/ asking.violations # {} /\ i = Reporting!Insight("warning", "high", "policy violation")
    BY <1>7, <2>1, WarningsAre, Zenon
  <2>3. \/ some(80) /\ i.title = "tests failed"
        \/ asking.violations # {} /\ i.title = "policy violation"
    <3>1. /\ Reporting!Insight("warning", "high", "tests failed").title = "tests failed"
          /\ Reporting!Insight("warning", "high", "policy violation").title = "policy violation"
      BY DEF Reporting!Insight
    <3> HIDE DEF some
    <3> QED BY <2>2, <3>1
  <2> HIDE DEF O
  <2> QED BY <1>2, <1>6, <2>3, OverlookedAre, Zenon DEF O
<1>8. ASSUME NEW i \in Reporting!AnalystInsights(asking) PROVE i.title \in O \cup {"strong effect"}
  <2>1. ~(asking.confidence < 70)
    BY <1>1, <1>2
  <2>2. \/ some(80) /\ i.title = "tests failed"
        \/ asking.entropy > 50 /\ i.title = "several domains"
        \/ i.title = "strong effect"
        \/ (\E u \in asking.epistemic : u > 30) /\ i.title = "reducible"
        \/ (\E n \in asking.sample : n # 0 /\ n < 500) /\ i.title = "small sample"
    <3>1. /\ Reporting!Insight("warning", "high", "tests failed").title = "tests failed"
          /\ Reporting!Insight("warning", "medium", "several domains").title = "several domains"
          /\ Reporting!Insight("validation", "medium", "strong effect").title = "strong effect"
          /\ Reporting!Insight("opportunity", "medium", "reducible").title = "reducible"
          /\ Reporting!Insight("improvement", "medium", "small sample").title = "small sample"
      BY DEF Reporting!Insight
    <3>2. \/ some(80) /\ i = Reporting!Insight("warning", "high", "tests failed")
          \/ asking.entropy > 50 /\ i = Reporting!Insight("warning", "medium", "several domains")
          \/ i = Reporting!Insight("validation", "medium", "strong effect")
          \/ (\E u \in asking.epistemic : u > 30) /\ i = Reporting!Insight("opportunity", "medium", "reducible")
          \/ /\ \E n \in asking.sample : n # 0 /\ n < 500
             /\ i = Reporting!Insight("improvement", "medium", "small sample")
      BY <1>8, <2>1, AnalystsAre, Zenon
    <3> DEFINE reducible == \E u \in asking.epistemic : u > 30
               small == \E n \in asking.sample : n # 0 /\ n < 500
               mixed == asking.entropy > 50
    <3> HIDE DEF some
    <3>3. \/ some(80) /\ i = Reporting!Insight("warning", "high", "tests failed")
          \/ mixed /\ i = Reporting!Insight("warning", "medium", "several domains")
          \/ i = Reporting!Insight("validation", "medium", "strong effect")
          \/ reducible /\ i = Reporting!Insight("opportunity", "medium", "reducible")
          \/ small /\ i = Reporting!Insight("improvement", "medium", "small sample")
      BY <3>2, Zenon
    <3> HIDE DEF reducible, small, mixed
    <3>4. \/ some(80) /\ i.title = "tests failed"
          \/ mixed /\ i.title = "several domains"
          \/ i.title = "strong effect"
          \/ reducible /\ i.title = "reducible"
          \/ small /\ i.title = "small sample"
      BY <3>1, <3>3
    <3> QED BY <3>4, Zenon DEF reducible, small, mixed
  <2>3. (\E n \in asking.sample : n # 0 /\ n < 500) => \E n \in asking.sample : n < 500
    OBVIOUS
  <2>4. /\ some(80) => "tests failed" \in O
        /\ asking.entropy > 50 => "several domains" \in O
        /\ (\E u \in asking.epistemic : u > 30) => "reducible" \in O
        /\ (\E n \in asking.sample : n # 0 /\ n < 500) => "small sample" \in O
    BY <1>6, <2>3, OverlookedAre, Zenon
  <2> HIDE DEF O, some
  <2>5. i.title \in O \/ i.title = "strong effect"
    BY <2>2, <2>4, Zenon
  <2> QED BY <2>5
<1>9. Reporting!Risks(asking) \subseteq O
  <2> SUFFICES ASSUME NEW x \in Reporting!Risks(asking) PROVE x \in O
    OBVIOUS
  <2>1. \/ (\E u \in asking.epistemic : u > 70) /\ x = "high uncertainty"
        \/ (\E u \in asking.epistemic : u > 50 /\ u <= 70) /\ x = "uncertainty"
        \/ asking.domain = "Disorder" /\ x = "ambiguous"
    BY <1>1, RisksAre, Zenon
  <2> HIDE DEF O
  <2> QED BY <2>1, OverlookedAre, Zenon DEF O
<1>10. (\E f \in Reporting!Summary(asking).finding : 0 \in f.significance) => "weak significance" \in O
  BY WeakIs, OverlookedAre, Zenon
<1>11. Reporting!KeyInsights(asking) \cap {"interpret with caution", "violations detected"} \subseteq O
  <2>1. /\ "interpret with caution" \in Reporting!KeyInsights(asking) => "interpret with caution" \in O
        /\ "violations detected" \in Reporting!KeyInsights(asking) => "violations detected" \in O
    BY <1>2, KeyInsightsAre, OverlookedAre, Zenon
  <2> HIDE DEF O
  <2> QED BY <2>1
<1>12. ~(asking.confidence < 85) /\ asking.domain \notin {"Chaotic"}
  <2>1. asking.confidence \in Int /\ asking.confidence >= 85 /\ asking.domain # "Chaotic"
    BY <1>1, <1>2, Zenon
  <2> QED BY <2>1
<1>13. (\E u \in asking.epistemic : u > 50) =>
         \/ \E u \in asking.epistemic : u > 50 /\ u <= 70
         \/ \E u \in asking.epistemic : u > 70
  <2>1. asking.epistemic \subseteq 0..100
    BY Zenon DEF IsRequest
  <2>2. ASSUME NEW u \in asking.epistemic, u > 50, ~(u <= 70) PROVE u > 70
    <3>1. u \in Int
      BY <2>1
    <3> QED BY <2>2, <3>1
  <2> QED BY <2>2, Zenon
<1>14. Reporting!Steps(asking) \ {"safe to automate", "consider expert validation", "recommended probe"} \subseteq O
  <2> DEFINE neutral == {"safe to automate", "consider expert validation", "recommended probe"}
  <2> SUFFICES ASSUME NEW x \in Reporting!Steps(asking), x \notin neutral PROVE x \in O
    OBVIOUS
  <2>1. x # "safe to automate" /\ x # "consider expert validation" /\ x # "recommended probe"
    OBVIOUS
  <2>2. \/ (\E p \in asking.pvalue : p >= 5) /\ x = "gather more data"
        \/ (\E u \in asking.epistemic : u > 50) /\ x = "collect evidence"
        \/ asking.violations # {} /\ x = "address violations"
        \/ asking.domain = "Disorder" /\ x = "gather context"
        \/ /\ (asking.domain = "Disorder" \/ asking.verdict = "requires_escalation" \/ asking.exhausted)
           /\ x = "human review"
    BY <1>1, <1>2, <1>12, <2>1, StepsAre, Zenon
  <2>3. /\ (\E p \in asking.pvalue : p >= 5) => "gather more data" \in O
        /\ (\E u \in asking.epistemic : u > 50) => "collect evidence" \in O
        /\ asking.violations # {} => "address violations" \in O
        /\ asking.domain = "Disorder" => "gather context" \in O /\ "human review" \in O
        /\ (asking.verdict = "requires_escalation" \/ asking.exhausted) => "human review" \in O
    BY <1>2, <1>13, OverlookedAre, Zenon
  <2> HIDE DEF O
  <2> QED BY <2>2, <2>3, Zenon
<1>15. Reporting!ActionItems(asking, "analyst")
         \cap {"run sensitivity analysis", "upload more data", "design a probe"} \subseteq O
  <2>1. /\ "run sensitivity analysis" \in Reporting!ActionItems(asking, "analyst") => "run sensitivity analysis" \in O
        /\ "upload more data" \in Reporting!ActionItems(asking, "analyst") => "upload more data" \in O
        /\ "design a probe" \in Reporting!ActionItems(asking, "analyst") => "design a probe" \in O
    BY <1>6, ActionsAre, OverlookedAre, Zenon
  <2> HIDE DEF O
  <2> QED BY <2>1
<1>16. Reporting!Reliability(asking).level < 2 => "low reliability" \in O
  BY <1>1, LowHasWeakness, OverlookedAre, Zenon
<1>17. Reporting!GuardianReport(asking).override => "override" \in O
  <2>1. Reporting!GuardianReport(asking).override = (asking.violations # {})
    BY DEF Reporting!GuardianReport
  <2> QED BY <1>2, <2>1, OverlookedAre, Zenon
<1>18. Reporting!Reservations(asking) \subseteq O
  <2> DEFINE titles == {i.title : i \in Reporting!Warnings(asking) \cup Reporting!AnalystInsights(asking)}
             weak == Reporting!When(\E f \in Reporting!Summary(asking).finding : 0 \in f.significance,
                                    "weak significance")
             low == Reporting!When(Reporting!Reliability(asking).level < 2, "low reliability")
             override == Reporting!When(Reporting!GuardianReport(asking).override, "override")
             key == Reporting!KeyInsights(asking) \cap {"interpret with caution", "violations detected"}
             steps == Reporting!Steps(asking) \ {"safe to automate", "consider expert validation", "recommended probe"}
             items == Reporting!ActionItems(asking, "analyst")
                        \cap {"run sensitivity analysis", "upload more data", "design a probe"}
  <2>1. Reporting!Reservations(asking) =
          (titles \ {"strong effect"}) \cup Reporting!Risks(asking) \cup weak \cup key \cup steps \cup items
          \cup low \cup override
    BY DEF Reporting!Reservations
  <2>2. titles \subseteq O \cup {"strong effect"}
    <3> HIDE DEF O
    <3> QED BY <1>7, <1>8
  <2>3. weak \subseteq O
    BY <1>10, Zenon DEF Reporting!When
  <2>4. low \subseteq O
    BY <1>16, Zenon DEF Reporting!When
  <2>5. override \subseteq O
    BY <1>17, Zenon DEF Reporting!When
  <2>6. key \subseteq O /\ steps \subseteq O /\ items \subseteq O
    BY <1>11, <1>14, <1>15
  <2> HIDE DEF titles, weak, low, override, key, steps, items, O
  <2> QED BY <1>9, <2>1, <2>2, <2>3, <2>4, <2>5, <2>6
<1> QED BY <1>3, <1>4, <1>5, <1>18

RequestFields ==
  {"domain", "confidence", "entropy", "time", "finding", "pvalue", "epistemic", "probe", "verdict", "violations",
   "exhausted", "sample", "data",
   "explained", "audited", "overseen", "governance", "tabular", "models", "validated", "reviewed"}

\* Every request so far was one that the endpoints take.
ReportInv ==
  /\ kind \in {"analysis", "reliability", "compliance", "workflow"}
  /\ DOMAIN asking = RequestFields /\ asking = [field \in RequestFields |-> asking[field]]
  /\ IsRequest(asking)

LEMMA ReportsStart == Reporting!Init => ReportInv
<1> SUFFICES ASSUME Reporting!Init PROVE ReportInv
  OBVIOUS
<1>1. /\ kind \in {"analysis", "reliability", "compliance", "workflow"}
      /\ DOMAIN asking = RequestFields
      /\ asking = [field \in RequestFields |-> asking[field]]
  BY DEF Reporting!Init, RequestFields
<1>2. IsRequest(asking)
  <2>1. /\ asking.confidence = 75 /\ asking.governance = 50 /\ asking.entropy = 20 /\ asking.time = 300
        /\ asking.sample = {} /\ asking.pvalue = {} /\ asking.domain = "Complicated" /\ asking.verdict = "approved"
        /\ asking.finding = {} /\ asking.epistemic = {} /\ asking.data = {} /\ asking.violations = {}
    BY DEF Reporting!Init
  <2> QED BY <2>1 DEF IsRequest, Single, Verdicts, Cynefin
<1> QED BY <1>1, <1>2 DEF ReportInv

LEMMA ReportKeeps ==
  ASSUME ReportInv, Reporting!Next \/ UNCHANGED reportVars
  PROVE  ReportInv'
<1>1. CASE UNCHANGED reportVars
  BY <1>1 DEF ReportInv, IsRequest, Single, Verdicts, Cynefin, reportVars
<1>2. CASE Reporting!Next
  <2>0. PICK field \in Reporting!Fields(kind) :
          \E value \in Askable[field] : asking' = [asking EXCEPT ![field] = value]
    BY <1>2 DEF Reporting!Next, Reporting!Request
  <2>1. PICK value \in Askable[field] : asking' = [asking EXCEPT ![field] = value]
    BY <2>0
  <2>2. kind' = kind /\ (asking'.verdict = "approved" => asking'.violations = {})
    BY <1>2 DEF Reporting!Next, Reporting!Request
  <2>3. field \in RequestFields
    BY <2>0, Zenon DEF ReportInv, Reporting!Fields, RequestFields
  <2>4. DOMAIN asking = RequestFields /\ asking = [f \in RequestFields |-> asking[f]]
    BY DEF ReportInv
  <2>5. /\ DOMAIN asking' = RequestFields /\ asking' = [f \in RequestFields |-> asking'[f]]
        /\ \A f \in RequestFields : asking'[f] = asking[f] \/ asking'[f] \in Askable[f]
    BY <2>1, <2>3, <2>4
  <2>6. IsRequest(asking')
    <3>1. /\ asking.domain \in Cynefin
          /\ asking.confidence \in 0..100 /\ asking.governance \in 0..100
          /\ asking.entropy \in Nat /\ asking.time \in Nat
          /\ Single(asking.sample) /\ asking.sample \subseteq Nat
          /\ Single(asking.finding) /\ asking.finding \subseteq [effect : Int, passed : Nat, run : Nat \ {0}]
          /\ \A f \in asking.finding : f.passed <= f.run
          /\ Single(asking.pvalue) /\ asking.pvalue \subseteq 0..100
          /\ Single(asking.epistemic) /\ asking.epistemic \subseteq 0..100
          /\ Single(asking.data) /\ asking.data \subseteq [missing : 0..100, duplicates : 0..100, rows : Nat]
          /\ asking.verdict \in Verdicts
      BY DEF ReportInv, IsRequest
    <3>2. /\ \A v \in Askable.domain : v \in Cynefin
          /\ \A v \in Askable.confidence \cup Askable.governance : v \in 0..100
          /\ \A v \in Askable.entropy \cup Askable.time : v \in Nat
          /\ \A S \in Askable.sample : S \subseteq Nat
          /\ \A S \in Askable.finding : S \subseteq [effect : Int, passed : Nat, run : Nat \ {0}]
          /\ \A S \in Askable.finding : \A f \in S : f.passed <= f.run
          /\ \A S \in Askable.epistemic \cup Askable.pvalue : S \subseteq 0..100
          /\ \A S \in Askable.data : S \subseteq [missing : 0..100, duplicates : 0..100, rows : Nat]
          /\ \A v \in Askable.verdict : v \in Verdicts
      BY ReportAssumption DEF Cynefin, Verdicts
    <3>3. /\ \A S \in Askable.finding : Single(S)
          /\ \A S \in Askable.epistemic : Single(S)
          /\ \A S \in Askable.pvalue : Single(S)
          /\ \A S \in Askable.sample : Single(S)
          /\ \A S \in Askable.data : Single(S)
      BY ReportAssumption DEF Single
    <3> DEFINE kept(f) == asking'[f] = asking[f] \/ asking'[f] \in Askable[f]
    <3>4. /\ kept("domain") /\ kept("confidence") /\ kept("governance") /\ kept("entropy") /\ kept("time")
          /\ kept("sample") /\ kept("finding") /\ kept("epistemic") /\ kept("data") /\ kept("verdict")
          /\ kept("pvalue")
      BY <2>5, Zenon DEF RequestFields
    <3>5. /\ asking'.domain \in Cynefin
          /\ asking'.confidence \in 0..100 /\ asking'.governance \in 0..100
          /\ asking'.entropy \in Nat /\ asking'.time \in Nat
          /\ asking'.verdict \in Verdicts
      BY <3>1, <3>2, <3>4
    <3>6. Single(asking'.finding) /\ asking'.finding \subseteq [effect : Int, passed : Nat, run : Nat \ {0}]
      BY <3>1, <3>2, <3>3, <3>4
    <3>9. \A f \in asking'.finding : f.passed <= f.run
      BY <3>1, <3>2, <3>4
    <3>10. Single(asking'.pvalue) /\ asking'.pvalue \subseteq 0..100
      BY <3>1, <3>2, <3>3, <3>4
    <3>11. Single(asking'.sample) /\ asking'.sample \subseteq Nat
      BY <3>1, <3>2, <3>3, <3>4
    <3>7. Single(asking'.epistemic) /\ asking'.epistemic \subseteq 0..100
      BY <3>1, <3>2, <3>3, <3>4
    <3>8. Single(asking'.data) /\ asking'.data \subseteq [missing : 0..100, duplicates : 0..100, rows : Nat]
      BY <3>1, <3>2, <3>3, <3>4
    <3> QED BY <2>2, <3>5, <3>6, <3>7, <3>8, <3>9, <3>10, <3>11 DEF IsRequest
  <2> QED BY <2>2, <2>5, <2>6 DEF ReportInv
<1> QED BY <1>1, <1>2

\* One request after another, each better evidenced than the one before or not.
Helped ==
  asking' # asking /\ Reporting!Better(asking', asking) =>
    /\ Reporting!Boldness(Reporting!RecommendedAction(asking'))
         >= Reporting!Boldness(Reporting!RecommendedAction(asking))
    /\ Reporting!Cardinality(Reporting!Risks(asking')) <= Reporting!Cardinality(Reporting!Risks(asking))
    /\ Reporting!Warnings(asking') \subseteq Reporting!Warnings(asking)
    /\ Reporting!Steps(asking') \subseteq Reporting!Steps(asking)
    /\ "interpret with caution" \in Reporting!KeyInsights(asking') =>
         "interpret with caution" \in Reporting!KeyInsights(asking)
    /\ Reporting!Reliability(asking').level >= Reporting!Reliability(asking).level
    /\ Reporting!Reliability(asking').weaknesses \subseteq Reporting!Reliability(asking).weaknesses
    /\ \A d \in asking'.data, e \in asking.data :
         /\ Reporting!DataQuality(d).level >= Reporting!DataQuality(e).level
         /\ Reporting!DataQuality(d).advice \subseteq Reporting!DataQuality(e).advice
    /\ Reporting!Compliance(asking').status >= Reporting!Compliance(asking).status
    /\ Reporting!Workflow(asking').overall >= Reporting!Workflow(asking).overall
    /\ Reporting!Workflow(asking').alignment >= Reporting!Workflow(asking).alignment

THEOREM ReportsAreConsistent == StoresSpec => ReportsAgree
<1>1. StoresInit => ReportInv
  BY ReportsStart DEF StoresInit
<1>2. ReportInv /\ [StoresNext]_storeVars => ReportInv'
  <2> SUFFICES ASSUME ReportInv, [StoresNext]_storeVars PROVE ReportInv'
    OBVIOUS
  <2>1. CASE StoresNext
    <3>1. Reporting!Next \/ UNCHANGED reportVars
      <4>1. CASE ReportsStep
        BY <4>1 DEF ReportsStep
      <4>2. CASE ~ReportsStep
        BY <2>1, <4>2, Zenon DEF StoresNext, OthersRest, Rests, ResultsStep, PosteriorsStep, MemoryStep,
           OracleStep, WorldStep, RagStep, ExperienceStep, DataStep, CausalStep, RulesStep, ReportsStep,
           FeedbackStep, ConvergenceStep, LogsStep, RouterStep
      <4> QED BY <4>1, <4>2
    <3> QED BY <3>1, ReportKeeps
  <2>2. CASE UNCHANGED storeVars
    <3>1. UNCHANGED reportVars
      BY <2>2 DEF storeVars
    <3> QED BY <3>1, ReportKeeps
  <2> QED BY <2>1, <2>2
<1>3. ReportInv => (store = "reports" => Reporting!ProceedIsUnopposed)
  BY ProceedsUnopposed DEF ReportInv
<1>4. ReportInv /\ ReportInv' => [Helped]_Reporting!reportVars
  <2> SUFFICES ASSUME IsRequest(asking), IsRequest(asking') PROVE Helped
    BY DEF ReportInv
  <2> QED BY EvidenceHelps DEF Helped
<1> QED
  BY <1>1, <1>2, <1>3, <1>4, PTL DEF StoresSpec, ReportsAgree, Reporting!BetterEvidenceHelps, Helped
===============================================================================
