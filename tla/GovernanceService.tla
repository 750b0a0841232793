---------------------------- MODULE GovernanceService ----------------------------
(***************************************************************************)
(* MAP, PRICE and RESOLVE of finished runs, the triples they persist, and  *)
(* the audit timeline and cost figures of the dashboard                    *)
(* (src/src/services/governance_service.py, cost_intelligence_service.py,  *)
(* governance_graph_service.py; governance_node of workflows/graph.py).    *)
(* Two services keep a log each; only the saving of triples awaits.        *)
(***************************************************************************)
EXTENDS Integers, Sequences, FiniteSets, Functions

CONSTANTS
  Sessions, Seeds,     \* the runs, and the boards that may be seeded with demo costs
  Domains,
  Findings,            \* what a run may come to: [touched, conflicts, level, amount]
  NotANumber,          \* an amount that float() refuses
  Limit,               \* of a timeline
  MaxPolicyEvents      \* bound of the check

VARIABLES
  stages,   \* of each session: "running", "saving", "done", or "failed" in its middle
  own, federated, \* the logs: entries [at, type, domains, session, cost]
  costs,    \* _session_costs
  stored    \* what the triple store holds of each session: "nothing", "unlinked", "linked"
vars == <<stages, own, federated, costs, stored>>

\* The time of the next entry.  Each entry gets the clock's, and the clock goes on.
Now == Len(own) + Len(federated) + 1
Entry(at, type, domains, session, cost) ==
  [at |-> at, type |-> type, domains |-> domains, session |-> session, cost |-> cost]

Init ==
  /\ stages = [s \in Sessions |-> "running"]
  /\ own = <<>> /\ federated = <<>>
  /\ costs = <<>> /\ stored = [s \in Sessions |-> "nothing"]

-----------------------------------------------------------------------------
(* PRICE.  Money in cents.  The token counts are those a client sends along *)
(* in the context, since the program's own counter is read before it is set.*)

\* compute_llm_cost, compute time, compute_opportunity_cost; for what they are
\* multiplied with, one query more or less.
Fixed == [llm |-> 1, compute |-> 3, opportunity |-> 10]
RiskPercent == [LOW |-> 10, MEDIUM |-> 30, HIGH |-> 60, CRITICAL |-> 90]

\* compute_full_breakdown
Breakdown(level, amount) ==
  [llm |-> Fixed.llm, compute |-> Fixed.compute, opportunity |-> Fixed.opportunity,
   risk |-> IF amount <= 0 THEN 0 ELSE (RiskPercent[level] * amount) \div 100]

Categories == {"llm", "compute", "risk", "opportunity"}
Total(b) == b.llm + b.compute + b.risk + b.opportunity
Priced(s, b) == [x \in DOMAIN costs \cup {s} |-> IF x = s THEN b ELSE costs[x]]

-----------------------------------------------------------------------------
(* governance_node, up to its await and after it. *)

\* Amounts that are no number end the node after MAP: the entry stays.
MapPriceResolve(s, f) ==
  LET mapped == Entry(Now, "triple_created", f.touched, s, 0)
      b == Breakdown(f.level, f.amount)
      priced == Entry(Now + 1, "cost_computed", {}, s, Total(b))
      tension == Entry(Now + 2, "conflict_detected", f.conflicts, s, 0)
  IN
  /\ stages[s] = "running"
  /\ IF f.amount = NotANumber
     THEN /\ own' = Append(own, mapped)
          /\ stages' = [stages EXCEPT ![s] = "failed"] /\ UNCHANGED costs
     ELSE /\ own' = own \o <<mapped, priced>> \o (IF f.conflicts = {} THEN <<>> ELSE <<tension>>)
          /\ costs' = Priced(s, b)
          /\ stages' = [stages EXCEPT ![s] = "saving"]
  /\ UNCHANGED <<federated, stored>>

\* save_triple: two statements, each a transaction; a failure is swallowed, and
\* the store may not be there at all.
SaveTriples(s) ==
  /\ stages[s] = "saving" /\ stages' = [stages EXCEPT ![s] = "done"]
  /\ \E reached \in {"nothing", "unlinked", "linked"} : stored' = [stored EXCEPT ![s] = reached]
  /\ UNCHANGED <<own, federated, costs>>

\* Policies, domains and conflicts change in the other service, whose log it is.
PolicyEvent(type, touched) ==
  /\ Len(federated) < MaxPolicyEvents
  /\ federated' = Append(federated, Entry(Now, type, touched, "none", 0))
  /\ UNCHANGED <<stages, own, costs, stored>>

\* seed_demo_data: a price without an entry.
Seed(s) ==
  /\ s \notin DOMAIN costs
  /\ costs' = Priced(s, Breakdown("MEDIUM", 10))
  /\ UNCHANGED <<stages, own, federated, stored>>

Next ==
  \/ \E s \in Sessions, f \in Findings : MapPriceResolve(s, f)
  \/ \E s \in Sessions : SaveTriples(s)
  \/ \E type \in {"policy_extracted", "conflict_detected"}, d \in Domains : PolicyEvent(type, {d})
  \/ \E s \in Seeds : Seed(s)

Spec == Init /\ [][Next]_vars

-----------------------------------------------------------------------------
(* The dashboard.  "" is the filter that is not given. *)

Matches(e, domain, type) ==
  (domain # "" => domain \in e.domains) /\ (type # "" => e.type = type)

Newest(entries, limit) ==
  LET count == Cardinality(entries)
  IN  [i \in 1..(IF count < limit THEN count ELSE limit) |->
         CHOOSE e \in entries : Cardinality({f \in entries : f.at > e.at}) = i - 1]

\* get_audit_log of the federated policies.  A mutant that cuts before it filters.
FederatedLogCut(limit, domain, type) ==
  {e \in Range(Newest(Range(federated), limit)) : Matches(e, domain, type)}
FederatedLog(limit, domain, type) ==
  Range(Newest({e \in Range(federated) : Matches(e, domain, type)}, limit))

\* get_audit_timeline
Timeline(limit, domain, type) ==
  Newest({e \in Range(own) \cup FederatedLog(limit, domain, type) : Matches(e, domain, type)}, limit)

\* The sum of a function's values.
Sum(f) ==
  LET over[S \in SUBSET DOMAIN f] ==
        IF S = {} THEN 0 ELSE LET x == CHOOSE x \in S : TRUE IN f[x] + over[S \ {x}]
  IN  over[DOMAIN f]

\* aggregate_costs: of all sessions, when none are named.
Aggregate(named) ==
  LET counted == IF named = {} THEN DOMAIN costs ELSE named \cap DOMAIN costs
  IN [sessions |-> Cardinality(counted),
      total |-> Sum([s \in counted |-> Total(costs[s])]),
      categories |-> [c \in Categories |-> Sum([s \in counted |-> costs[s][c]])]]

-----------------------------------------------------------------------------

\* What the dashboard shows of the runs agrees, whichever run failed where and
\* however the two logs interleave: a timeline is the newest matching entries of
\* both logs, and the aggregate cost is what its cost entries add up to, besides
\* what was seeded.
DashboardAgrees ==
  /\ \A domain \in Domains \cup {""}, type \in {"", "cost_computed", "conflict_detected"} :
       LET shown == Timeline(Limit, domain, type)
           all == {e \in Range(own) \cup Range(federated) : Matches(e, domain, type)}
       IN  /\ \A e \in all : e \in Range(shown) \/
                (Len(shown) = Limit /\ \A i \in DOMAIN shown : shown[i].at > e.at)
           /\ \A i \in 1..Len(shown) - 1 : shown[i].at > shown[i + 1].at
  /\ LET priced == Timeline(Len(own), "", "cost_computed")
         sum == Sum([i \in DOMAIN priced |-> priced[i].cost])
         seeded == Aggregate(DOMAIN costs \cap Seeds)
     IN  Aggregate({}).total = sum + (IF DOMAIN costs \cap Seeds = {} THEN 0 ELSE seeded.total)
===============================================================================
