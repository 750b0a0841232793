------------------------------- MODULE MCServices -------------------------------
(***************************************************************************)
(* Services beside the workflow: the circuit breaker, the rate limiter,    *)
(* the drift detector, the simulations, the reflector's repairs and the    *)
(* governance service's records of finished runs.  They share no state, so *)
(* each behaviour is one of theirs: service says whose, and the others     *)
(* stay in an initial state.                                               *)
(***************************************************************************)
EXTENDS CircuitBreaker, RateLimit, FiniteSets

CONSTANTS
  Requests, Scenarios,
  DriftDomains, BaselineWindow, DetectionWindow, MaxHistory, ShiftPercent, MaxAlerts,
  ViolationsListed,
  Sessions, Seeds, PolicyDomains, Findings, NotANumber, TimelineLimit, MaxPolicyEvents

\* The history holds what a baseline and two detection windows need (100, 50 and 500
\* in the code), and None is neither a baseline nor a snapshot.
ASSUME DriftAssumption ==
  /\ BaselineWindow \in Nat \ {0} /\ DetectionWindow \in Nat \ {0} /\ ShiftPercent \in Nat
  /\ MaxHistory \in Nat /\ MaxHistory >= BaselineWindow /\ MaxHistory >= 2 * DetectionWindow - 1
  /\ None \notin [DriftDomains -> Nat]
  /\ None \notin [window : [DriftDomains -> Nat], baseline : [DriftDomains -> Nat], drift : BOOLEAN]

VARIABLES
  service,
  observations, total, baseline, alerts, last, since,
  results, todo, rerun, pc,
  strategy, testMode, phase, params, action, original, violations, rejections, installed, client, asked,
  stages, own, federated, costs, stored
driftVars == <<observations, total, baseline, alerts, last, since>>
simulationVars == <<results, todo, rerun, pc>>
reflectorVars ==
  <<strategy, testMode, phase, params, action, original, violations, rejections, installed, client, asked>>
recordVars == <<stages, own, federated, costs, stored>>
servicesVars ==
  <<service, vars, limiterVars, driftVars, simulationVars, reflectorVars, recordVars>>

Drift == INSTANCE DriftDetector WITH Domains <- DriftDomains

Simulations == INSTANCE Simulation

Reflector == INSTANCE SmartReflector WITH
  Strategies <- {"heuristic", "llm", "hybrid"}, TestModes <- {TRUE, FALSE},
  MaxReflections <- 2, MaxViolations <- ViolationsListed, Numbers <- {10000}, MaxClientRepairs <- 1

Records == INSTANCE GovernanceService WITH
  Domains <- PolicyDomains, Limit <- TimelineLimit

\* A run's amount is a number or is refused as none; demo costs are not those of runs.
ASSUME RecordAssumption ==
  /\ IsFiniteSet(Sessions) /\ IsFiniteSet(Seeds) /\ Sessions \cap Seeds = {}
  /\ TimelineLimit \in Nat
  /\ \A f \in Findings : f.amount # NotANumber =>
       f.amount \in Int /\ f.level \in {"LOW", "MEDIUM", "HIGH", "CRITICAL"}

ServicesInit ==
  /\ service \in {"breaker", "limiter", "drift", "simulations", "reflector", "records"}
  /\ Init /\ LimiterInit /\ Drift!Init /\ Simulations!Init /\ Reflector!Init /\ Records!Init
  /\ service # "simulations" =>
       \A r \in Requests : rerun[r] = None /\ todo[r] = <<CHOOSE s \in Scenarios : TRUE>>
  /\ service # "reflector" => strategy = "hybrid" /\ testMode /\ client.top = 0

\* Of the services only the one that service names takes a step.
Rests(s, unchanged) == IF service = s THEN TRUE ELSE unchanged
OthersRest ==
  /\ UNCHANGED service
  /\ Rests("breaker", UNCHANGED vars)
  /\ Rests("limiter", UNCHANGED limiterVars)
  /\ Rests("drift", UNCHANGED driftVars)
  /\ Rests("simulations", UNCHANGED simulationVars)
  /\ Rests("reflector", UNCHANGED reflectorVars)
  /\ Rests("records", UNCHANGED recordVars)

BreakerStep(A) == service = "breaker" /\ A /\ OthersRest
LimiterStep == service = "limiter" /\ LimiterNext /\ OthersRest
DriftStep == service = "drift" /\ Drift!Next /\ OthersRest
SimulationStep(A) == service = "simulations" /\ A /\ OthersRest
ReflectorStep == service = "reflector" /\ Reflector!Next /\ OthersRest
RecordStep == service = "records" /\ Records!Next /\ OthersRest

ServicesNext ==
  \/ BreakerStep(Next) \/ LimiterStep \/ DriftStep
  \/ SimulationStep(Simulations!Next) \/ ReflectorStep \/ RecordStep

\* The fairness of CircuitBreaker's FairSpec and of Simulation's Spec.
ServicesFairness ==
  /\ WF_servicesVars(BreakerStep(Tick))
  /\ \A c \in Callers :
       WF_servicesVars(BreakerStep(Begin(c))) /\ SF_servicesVars(BreakerStep(up /\ Succeed(c)))
  /\ \A r \in Requests : WF_servicesVars(SimulationStep(Simulations!Step(r)))

ServicesSpec == ServicesInit /\ [][ServicesNext]_servicesVars /\ ServicesFairness

\* Runs that touch no policy, that conflict, and whose amount is no number.
MCFindings ==
  {[touched |-> {"hr", "it"}, conflicts |-> {"it"}, level |-> "HIGH", amount |-> 100],
   [touched |-> {}, conflicts |-> {}, level |-> "LOW", amount |-> 0],
   [touched |-> {"hr"}, conflicts |-> {}, level |-> "LOW", amount |-> 999]}

-----------------------------------------------------------------------------
(* The properties of each, as its module states them. *)

\* DriftDetector: a shift that lasts is reported, whatever its phase.
LastingShiftIsReported == service = "drift" => Drift!LastingShiftIsReported

\* Simulation: a scenario that was started gets, and keeps, a final status.
Settles == Simulations!Settles

\* SmartReflector: every strategy accounts for every violation, once.
EveryViolationAccounted == service = "reflector" => Reflector!EveryViolationAccounted

\* GovernanceService: timelines and aggregate agree with the runs' records.
DashboardAgrees == service = "records" => Records!DashboardAgrees
===============================================================================
