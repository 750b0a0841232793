------------------------------ MODULE SemanticGraph ------------------------------
(***************************************************************************)
(* The graph of domains, policies, conflicts and concepts that the cockpit *)
(* draws (_build_semantic_graph, src/src/api/routers/governance.py), from  *)
(* the boards and federated policies as they are and from the triples that *)
(* governance_node extracts (src/src/services/governance_service.py).  The *)
(* handler reads the former before it awaits the latter, and uses both     *)
(* afterwards: the graph is a function of a state and of any triples.      *)
(***************************************************************************)
EXTENDS GovernanceBoards

CONSTANT
  Mentions   \* sequences of domains that a query and its answer may mention

-----------------------------------------------------------------------------
(* MAP: the triples of one run. *)

Triple(subject, object, source, target) ==
  [subject |-> subject, object |-> object, source |-> source, target |-> target]

Concept(domain) == <<"context", domain>>

\* One for each pair of mentioned domains, in the order in which they were found,
\* and one for a causal claim across domains; cause and effect are the domains
\* of treatment and outcome, "" when none is near enough.
MapImpacts(mentioned, cause, effect) ==
  {Triple(Concept(mentioned[p[1]]), Concept(mentioned[p[2]]), mentioned[p[1]], mentioned[p[2]]) :
     p \in {q \in (DOMAIN mentioned) \X (DOMAIN mentioned) : q[1] < q[2]}}
  \cup IF "" \in {cause, effect} \/ cause = effect THEN {}
       ELSE {Triple(<<"treatment">>, <<"outcome">>, cause, effect)}

-----------------------------------------------------------------------------
(* What a request shows: everything, or what concerns a board. *)

Everything == [board |-> FALSE, domains |-> {}, namespaces |-> {}]
OfBoard(b) == [board |-> TRUE, domains |-> b.domains, namespaces |-> b.namespaces]
Views == {Everything} \cup {OfBoard(b) : b \in Range(boards)}

\* scoped_domain_ids
Scope(view) == IF view.domains = {} THEN registry.domains ELSE view.domains

ShownPolicies(view) ==
  {p \in Range(registry.policies) :
     /\ view.domains # {} => p.domain \in view.domains
     /\ view.namespaces # {} => p.ns \in view.namespaces}

Touches(domains, view) == domains \cap Scope(view) # {}

\* A mutant of ShownConflicts that asks for both domains.
ShownConflictsWithin(view, unresolved) ==
  {c \in conflicts : (unresolved => ~c.resolved) /\ (view.board => ToSet(c.domains) \subseteq Scope(view))}
ShownConflicts(view, unresolved) ==
  {c \in conflicts : (unresolved => ~c.resolved) /\ (view.board => Touches(ToSet(c.domains), view))}

ShownTriples(view, triples) ==
  {t \in triples : Scope(view) # {} => Touches({t.source, t.target}, view)}

-----------------------------------------------------------------------------
(* Nodes and edges.  A policy that only a conflict knows is shown under its *)
(* name, which stands here for the namespace it had.                        *)

Node(kind, key) == [kind |-> kind, key |-> key]
Edge(from, to, relation) == [from |-> from, to |-> to, relation |-> relation]

\* policy_id_to_node, else the name: i is 1 for policy_a, 2 for policy_b.
Party(view, c, i) ==
  LET known == {p \in ShownPolicies(view) : p.id = <<c.a, c.b>>[i]} IN
  IF known = {} THEN Node("named", c.names[i]) ELSE Node("policy", c.names[i])

Conflicting(view, unresolved) ==
  {Edge(Party(view, c, 1), Party(view, c, 2), "conflicts_with") : c \in ShownConflicts(view, unresolved)}

DomainNodes(view) == {Node("domain", d) : d \in registry.domains \cap Scope(view)}

Owning(view) ==
  {Edge(Node("domain", p.domain), Node("policy", p.ns), "owns_policy") :
     p \in {q \in ShownPolicies(view) : Node("domain", q.domain) \in DomainNodes(view)}}

Related(view, triples) ==
  UNION {{Edge(Node("domain", t.source), Node("concept", t.subject), "domain_mentions"),
          Edge(Node("concept", t.subject), Node("concept", t.object), "impacts"),
          Edge(Node("concept", t.object), Node("domain", t.target), "impacts_domain")} :
         t \in ShownTriples(view, triples)}

Nodes(view, unresolved, triples) ==
  DomainNodes(view) \cup {Node("policy", p.ns) : p \in ShownPolicies(view)}
  \cup (UNION {{e.from, e.to} : e \in Conflicting(view, unresolved)})
  \cup (UNION {{Node("concept", t.subject), Node("concept", t.object)} : t \in ShownTriples(view, triples)})

Edges(view, unresolved, triples) ==
  Owning(view) \cup Conflicting(view, unresolved)
  \cup {e \in Related(view, triples) :
          {n \in {e.from, e.to} : n.kind = "domain"} \subseteq DomainNodes(view)}

-----------------------------------------------------------------------------

\* Whatever was edited, removed, reloaded or grouped into boards: every edge that
\* is drawn joins two nodes that are; a board shows each clash on record of a
\* policy it owns, tied to that policy's own node as long as it is in force; and
\* no other policy or domain is shown than those of the board and their opponents.
GraphIsWhole ==
  \A view \in Views, unresolved \in BOOLEAN, m \in Mentions :
    LET triples == MapImpacts(m, m[1], "finance")
        nodes == Nodes(view, unresolved, triples)
        edges == Edges(view, unresolved, triples)
        inForce == Range(registry.policies)
    IN  /\ \A e \in edges : {e.from, e.to} \subseteq nodes
        /\ \A c \in conflicts, p \in ShownPolicies(view) :
             p.id \in {c.a, c.b} /\ p.domain \in Scope(view) /\ ~c.resolved =>
               \E e \in edges : e.relation = "conflicts_with" /\ Node("policy", p.ns) \in {e.from, e.to}
        /\ \A n \in nodes :
             /\ n.kind = "domain" /\ view.domains # {} => n.key \in view.domains
             /\ n.kind = "named" =>
                  \E e \in edges : e.relation = "conflicts_with" /\ n \in {e.from, e.to}
===============================================================================
