------------------------------- MODULE Simulation -------------------------------
(***************************************************************************)
(* SimulationService (src/src/services/simulation.py) under the requests   *)
(* of its API (src/src/api/routers/simulation.py): a request runs its      *)
(* scenarios one after the other, awaiting Neo4j before a re-run and the   *)
(* LLM before the estimate, and other requests run in between.  The        *)
(* estimate is asked of CausalInferenceEngine.estimate_effect with the     *)
(* arguments graph and context, which it does not take: it raises, the     *)
(* scenario is recorded as failed, and what would follow a completed       *)
(* estimate is out of reach.                                               *)
(***************************************************************************)
EXTENDS Naturals, Sequences

CONSTANTS
  Scenarios, \* scenario ids
  Requests,  \* the requests of one run of the service
  None

VARIABLES
  results, \* _running_simulations: the result recorded under each scenario id
  todo,    \* of each request: the ids of the configurations it still has to run
  rerun,   \* of each request: the id in the path of a re-run, or None
  pc       \* of each request: what it awaits, "idle" between scenarios, or "returned"
vars == <<results, todo, rerun, pc>>

\* A result is identified by its session_id, one for each run of a request.
Result(r, status, error) == [session |-> <<r, Len(todo[r])>>, status |-> status, error |-> error]

\* A re-run has one configuration, whose id is its own, not that of the path.
Init ==
  /\ results = [s \in Scenarios |-> None]
  /\ rerun \in [Requests -> Scenarios \cup {None}]
  /\ todo \in [Requests -> {<<s>> : s \in Scenarios} \cup {<<s, t>> : s, t \in Scenarios}]
  /\ \A r \in Requests : rerun[r] # None => Len(todo[r]) = 1
  /\ pc = [r \in Requests |-> "idle"]

\* run_scenario up to its first await.
Start(r) ==
  /\ results' = [results EXCEPT ![Head(todo[r])] = Result(r, "running", None)]
  /\ pc' = [pc EXCEPT ![r] = "discovering"]
  /\ UNCHANGED <<todo, rerun>>

\* invalidate_and_rerun: the result whose session it invalidates in Neo4j first.
OldResult(r) == IF rerun[r] = None THEN None ELSE results[rerun[r]]

Run(r) == pc[r] = "idle" /\ OldResult(r) = None /\ Start(r)

Invalidate(r) ==
  /\ pc[r] = "idle" /\ OldResult(r) # None
  /\ pc' = [pc EXCEPT ![r] = "invalidating"]
  /\ UNCHANGED <<results, todo, rerun>>

\* Neo4j answers, or fails, which is only logged.
Invalidated(r) == pc[r] = "invalidating" /\ Start(r)

\* A mutant of Fail that tries the scenario again.
FailRetries(r, error) == pc[r] = "discovering" /\ Start(r)

\* The handler: the scenario failed, and the request goes on with its next one.
Fail(r, error) ==
  /\ pc[r] = "discovering"
  /\ results' = [results EXCEPT ![Head(todo[r])] = Result(r, "failed", error)]
  /\ todo' = [todo EXCEPT ![r] = Tail(@)]
  /\ pc' = [pc EXCEPT ![r] = IF Len(todo[r]) = 1 THEN "returned" ELSE "idle"]
  /\ UNCHANGED rerun

\* discover_causal_structure raises: the LLM cannot be reached.
DiscoveryFails(r) == Fail(r, "discovery")

\* It returns, and estimate_effect raises on its arguments.
EstimateRaises(r) == Fail(r, "estimate")

Step(r) == Run(r) \/ Invalidate(r) \/ Invalidated(r) \/ DiscoveryFails(r) \/ EstimateRaises(r)

Next == \E r \in Requests : Step(r)

\* Neo4j and the LLM answer or raise.
Spec == Init /\ [][Next]_vars /\ \A r \in Requests : WF_vars(Step(r))

-----------------------------------------------------------------------------
(* Properties *)

Shows(s, status) == results[s] # None /\ results[s].status = status

\* A scenario that was started gets, and keeps, a final status.
Settles == \A s \in Scenarios : Shows(s, "running") ~> []~Shows(s, "running")

\* "3. Retrieve results via `/simulations/compare`."  (docs/INTEGRATION_GUIDE.md)
\* A scenario that ran has results, unless the LLM could not be reached.
RunsComplete == \A s \in Scenarios : Shows(s, "failed") => results[s].error = "discovery"

\* "Get the current status of a simulation."  (get_simulation_status)
StatusIsCurrent == \A r \in Requests : pc[r] = "discovering" => Shows(Head(todo[r]), "running")

\* "Invalidate cached results and re-run a scenario."  (invalidate_and_rerun)
\* From its start on, the re-run is what the scenario shows.
RerunRefreshes ==
  [][\A r \in Requests :
       pc[r] = "invalidating" /\ pc'[r] = "discovering"
       => results'[rerun[r]] # None /\ results'[rerun[r]].session[1] = r]_vars
===============================================================================
