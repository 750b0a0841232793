------------------------------- MODULE RagIndex -------------------------------
(***************************************************************************)
(* The retrieval index (src/src/services/rag_service.py): an append-only   *)
(* list of documents with vectors computed from it on demand, re-ingested  *)
(* policies (api/routers/governance.py), uploads (document_processor.py),  *)
(* and the three retrievals over it.                                       *)
(*                                                                         *)
(* A wording is a first line, which with its source makes a document's id, *)
(* and its similarity in percent to the one query that is asked.           *)
(***************************************************************************)
EXTENDS Integers, Sequences, FiniteSets, SequencesExt

CONSTANTS
  Namespaces, Wordings, OnDisk,  \* the policies that may be, and those of the files
  TopK,
  MaxDocuments                   \* bound of the check

MinScore == 5
QueryDomains == {"", "home"}

VARIABLES
  policies,   \* the federated policies in force: a function of some Namespaces
  documents,  \* _documents
  vectors,    \* the similarities of the documents that were encoded, in their order
  backend,    \* "dense", "tfidf" or "none"
  dirty,
  unheard     \* policies that came without an ingestion
vars == <<policies, documents, vectors, backend, dirty, unheard>>

Document(source, wording, home) ==
  [id |-> <<source, wording.head>>, sim |-> wording.sim, home |-> home]

\* ingest_policies: every policy that is listed, those ingested before again.
PolicyDocuments(listed) ==
  [i \in 1..Cardinality(DOMAIN listed) |->
     LET n == SetToSeq(DOMAIN listed)[i] IN Document(n, listed[n], TRUE)]

Init ==
  /\ policies = OnDisk
  /\ documents = PolicyDocuments(OnDisk)
  /\ vectors = <<>> /\ backend = "none" /\ dirty = TRUE
  /\ unheard = {}

\* A mutant of Add that leaves the vectors as they are.
AddClean(docs) == documents' = documents \o docs /\ UNCHANGED <<vectors, backend, dirty>>
Add(docs) ==
  /\ Len(documents) + Len(docs) <= MaxDocuments
  /\ documents' = documents \o docs
  /\ dirty' = (dirty \/ docs # <<>>)
  /\ UNCHANGED <<vectors, backend>>

\* POST and PUT of a policy, and DELETE: what the index holds stays in it.
SetPolicy ==
  \E n \in Namespaces, w \in Wordings :
    /\ policies' = [m \in DOMAIN policies \cup {n} |-> IF m = n THEN w ELSE policies[m]]
    /\ Add(PolicyDocuments(policies')) /\ unheard' = {}

DeletePolicy ==
  \E n \in DOMAIN policies :
    /\ policies' = [m \in DOMAIN policies \ {n} |-> policies[m]]
    /\ Add(PolicyDocuments(policies')) /\ unheard' = {}

\* A board made from a template registers its policies and ingests nothing.
BoardAddsPolicy ==
  \E n \in Namespaces \ DOMAIN policies, w \in Wordings :
    /\ policies' = [m \in DOMAIN policies \cup {n} |-> IF m = n THEN w ELSE policies[m]]
    /\ unheard' = unheard \cup {n}
    /\ UNCHANGED <<documents, vectors, backend, dirty>>

IngestPolicies ==
  Add(PolicyDocuments(policies)) /\ unheard' = {} /\ UNCHANGED policies

\* What a parser may find in a file: nothing when its library is missing or
\* fails; text files are decoded with replacements.
Extracted(kind) ==
  {<<w>> : w \in Wordings} \cup (IF kind \in {"pdf", "docx"} THEN {<<>>} ELSE {})

\* An empty extraction is answered as an error and ingests nothing.
Upload ==
  \E kind \in {"pdf", "txt"}, home \in BOOLEAN : \E text \in Extracted(kind) :
    /\ Add([i \in DOMAIN text |-> Document("file", text[i], home)])
    /\ UNCHANGED <<policies, unheard>>

\* A triple's document has no domain_id in its metadata, which boosts read.
IngestTriples ==
  \E w \in Wordings : Add(<<Document("triple", w, FALSE)>>) /\ UNCHANGED <<policies, unheard>>

\* Encoding with the sentence model, else TF-IDF, else no retrieval until the
\* next document.
Rebuild ==
  /\ dirty' = FALSE
  /\ \/ backend' \in {"dense", "tfidf"} /\ vectors' = [i \in DOMAIN documents |-> documents[i].sim]
     \/ backend' = "none" /\ vectors' = <<>>
  /\ UNCHANGED <<policies, documents, unheard>>

Search == documents # <<>> /\ dirty /\ Rebuild

Next ==
  \/ SetPolicy \/ DeletePolicy \/ BoardAddsPolicy \/ IngestPolicies
  \/ Upload \/ IngestTriples \/ Search

Spec == Init /\ [][Next]_vars

-----------------------------------------------------------------------------
(* Retrieval, a function of the index and the query. *)

First(s, n) == SubSeq(s, 1, IF Len(s) < n THEN Len(s) ELSE n)

Docs(results) == [i \in DOMAIN results |-> results[i].doc]

\* list.sort(key=score, reverse=True), which is stable, of the positions score has.
Ahead(score, i) ==
  {j \in DOMAIN score : score[j] > score[i] \/ (score[j] = score[i] /\ j < i)}
ByScore(docs, score) ==
  [p \in 1..Cardinality(DOMAIN score) |->
     LET i == CHOOSE i \in DOMAIN score : Cardinality(Ahead(score, i)) = p - 1
     IN  [doc |-> docs[i], score |-> score[i]]]

\* search: the n documents whose vectors are most similar.
Found(n) ==
  First(ByScore(documents,
                [i \in {i \in DOMAIN vectors : vectors[i] >= MinScore} |-> vectors[i]]), n)

\* _boost_with_graph_context: a quarter more, up to 100 %, in the query's domain.
Boosted(score) == LET more == (score * 5) \div 4 IN IF more > 100 THEN 100 ELSE more
Boost(results, domain) ==
  IF domain = "" THEN results
  ELSE ByScore(Docs(results),
               [i \in DOMAIN results |-> IF results[i].doc.home THEN Boosted(results[i].score)
                                         ELSE results[i].score])

Vector(k, domain) == Boost(Found(2 * k), domain)

\* retrieve
Retrieve(k, domain) == First(Vector(k, domain), k)

\* What the causal and the governance graph answer: n documents of their own.
GraphResults(n) ==
  [i \in 1..n |-> [doc |-> [id |-> <<"graph", i>>, sim |-> 0, home |-> FALSE], score |-> 0]]

\* _merge_vector_and_graph: reciprocal rank fusion with the weights .6 and .4, in
\* units of 1e-5.  Of several results with one id the last counts.
Fused(k, results, graph) ==
  LET all == Docs(results \o graph)
      kept == {i \in DOMAIN all : \A j \in i + 1..Len(all) : all[j].id # all[i].id}
  IN First(ByScore(all, [i \in kept |-> IF i <= Len(results) THEN 60000 \div (60 + i)
                                        ELSE 40000 \div (60 + i - Len(results))]), k)

\* retrieve_hybrid, whose scores are similarities when no graph answers.
Hybrid(k, domain, n) ==
  IF n = 0 THEN [i \in DOMAIN Retrieve(k, domain) |->
                   [Retrieve(k, domain)[i] EXCEPT !.score = @ * 1000]]
  ELSE Fused(k, Vector(k, domain), GraphResults(n))

\* n equations of the world models or facts of the symbolic engine.
Equation == 65000
Symbolic(n) ==
  [i \in 1..n |->
     [doc |-> [id |-> <<"symbolic", i>>, sim |-> 0, home |-> FALSE], score |-> Equation]]

\* retrieve_neurosymbolic_augmented: fused ranks, similarities and confidences in
\* one order.  Here the first of several results with one id counts.
Augmented(k, domain, n, symbols) ==
  LET all == Hybrid(2 * k, domain, n) \o Symbolic(symbols)
      unique == {i \in DOMAIN all : \A j \in 1..i - 1 : all[j].doc.id # all[i].doc.id}
  IN First(ByScore(Docs(all), [i \in unique |-> all[i].score]), k)

-----------------------------------------------------------------------------

Heard(results, doc) == \E i \in DOMAIN results : results[i].doc = doc

\* doc beats every other wording in the index, boosted or not.
BestMatch(doc) ==
  \A i \in DOMAIN documents :
    documents[i] = doc \/ Boosted(documents[i].sim) < doc.sim

\* Another wording has the id of doc: it begins as an earlier version did.
Superseded(doc) == \E i \in DOMAIN documents : documents[i].id = doc.id /\ documents[i] # doc

\* A search asks for twice what it answers and counts every copy of a document, of
\* which the last gives the rank: the place up to which that rank is better than the
\* graph's first.
Unbeaten == 31

\* A policy in force that matches the query better than everything else in the
\* index is in the context the agents get, after any history of edits, uploads
\* and rebuilds and whatever older versions of it the index still holds.  The
\* fused answers have it too, unless an older version shares its id, symbolic
\* results of a higher score take every place, or its copies are so many that they
\* rank it behind the graph's results and those are enough.
BestMatchIsHeard ==
  ~dirty /\ backend # "none" =>
    \A n \in DOMAIN policies \ unheard, domain \in QueryDomains :
      LET doc == Document(n, policies[n], TRUE) IN
      doc.sim >= MinScore /\ BestMatch(doc) =>
        /\ Heard(Retrieve(TopK, domain), doc)
        /\ ~Superseded(doc) =>
             \A g \in 0..2 * TopK, s \in 0..TopK :
               /\ g < TopK \/ 2 * TopK <= Unbeaten => Heard(Hybrid(TopK, domain, g), doc)
               /\ \/ s + g < TopK
                  \/ s < TopK /\ 4 * TopK <= Unbeaten
                  \/ g = 0 /\ doc.sim * 1000 > Equation
                    => Heard(Augmented(TopK, domain, g, s), doc)
===============================================================================
