-------------------------- MODULE CausalGraphStore --------------------------
(***************************************************************************)
(* The causal graphs kept in Neo4j (src/src/services/neo4j_service.py): a  *)
(* database is its variables with their roles, its CAUSES relationships,   *)
(* one per pair of variables whatever the sessions that save it, and its   *)
(* analyses.  Every session.run is a transaction of its own.               *)
(***************************************************************************)
EXTENDS Integers, Sequences, SequencesExt

EmptyDb == [variables |-> <<>>, causes |-> <<>>, analyses |-> {}]

\* CausalGraph.add_node and add_edge: a name and an edge are added once.
Distinct(s) == \A i, j \in DOMAIN s : s[i] = s[j] => i = j
Names(graph) == [i \in DOMAIN graph.variables |-> graph.variables[i].name]
AddedOnce(graph) == Distinct(Names(graph)) /\ Distinct(graph.edges)

With(f, x, y) == [z \in DOMAIN f \cup {x} |-> IF z = x THEN y ELSE f[z]]

\* MERGE (v:CausalVariable): a variable already there gets the newer role.
MergeVariable(db, v) == [db EXCEPT !.variables = With(@, v.name, v.role)]

\* MERGE (c)-[r:CAUSES]->(e): it knows the first session that saved it and the
\* last of the others.  An edge to a variable that is not there is not created.
MergeCauses(db, edge, session, effect) ==
  IF {edge[1], edge[2]} \subseteq DOMAIN db.variables
  THEN LET r == IF edge \in DOMAIN db.causes
                THEN [effect |-> effect, first |-> db.causes[edge].first, last |-> {session}]
                ELSE [effect |-> effect, first |-> session, last |-> {}]
       IN  [db EXCEPT !.causes = With(@, edge, r)]
  ELSE db

\* CREATE (a:CausalAnalysis), and its links to its treatment and outcome, of
\* which neither is made unless both are variables, and to its variables.
CreateAnalysis(db, session, effect) ==
  [db EXCEPT !.analyses = @ \cup
    {[session |-> session, effect |-> effect, linked |-> FALSE, includes |-> {}]}]
Revised(db, session, Change(_)) ==
  [db EXCEPT !.analyses = {IF a.session = session THEN Change(a) ELSE a : a \in @}]
LinkEnds(db, session, ends) ==
  Revised(db, session, LAMBDA a : [a EXCEPT !.linked = ends \subseteq DOMAIN db.variables])
Include(db, session, name) ==
  Revised(db, session, LAMBDA a : [a EXCEPT !.includes = @ \cup ({name} \cap DOMAIN db.variables)])

\* save_causal_graph and save_analysis_result: the statements, in order.
Each(do, s) == [i \in DOMAIN s |-> [do |-> do, what |-> s[i]]]
Statements(graph) ==
  Each("variable", graph.variables)
    \o (IF graph.variables = <<>> THEN <<>> ELSE Each("causes", graph.edges))
    \o <<[do |-> "analysis", what |-> <<>>], [do |-> "link", what |-> <<>>]>>
    \o Each("include", graph.variables)

Executed(db, s, session, result) ==
  CASE s.do = "variable" -> MergeVariable(db, s.what)
    [] s.do = "causes" -> MergeCauses(db, s.what, session, result.effect)
    [] s.do = "analysis" -> CreateAnalysis(db, session, result.effect)
    [] s.do = "link" -> LinkEnds(db, session, {result.hypothesis.treatment, result.hypothesis.outcome})
    [] s.do = "include" -> Include(db, session, s.what.name)

\* get_causal_graph(session_id).
GraphOf(db, session) ==
  [variables |-> UNION {a.includes : a \in {b \in db.analyses : b.session = session}},
   edges |-> {e \in DOMAIN db.causes :
                session = db.causes[e].first \/ session \in db.causes[e].last}]
=============================================================================
