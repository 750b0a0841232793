------------------------------ MODULE WorldModel ------------------------------
(***************************************************************************)
(* A structural causal model (src/src/services/causal_world_model.py): one *)
(* linear equation per variable, evaluated in an order that is computed    *)
(* once and kept until an equation is added.  Counterfactuals and forward  *)
(* simulation are operators over the model; reals are integers, and a step *)
(* of the simulation draws no noise.                                       *)
(***************************************************************************)
EXTENDS Integers, Sequences, Functions

CONSTANTS
  Variables,
  Intercepts, Weights,  \* what a regression may fit
  Values                \* what may be observed, or set by an intervention

VARIABLES
  names,      \* the variables with an equation, in the order they were added
  equations,  \* equations: of each, its intercept and its parents' coefficients
  order,      \* _topo_order, once
  ordered     \* it is not None
vars == <<names, equations, order, ordered>>

Modelled == Range(names)
Parents(v) == DOMAIN equations[v].weights \cap Modelled

Init == names = <<>> /\ equations = <<>> /\ order = <<>> /\ ordered = FALSE

-----------------------------------------------------------------------------
(* Kahn's algorithm.  The list is its own queue: the k-th round takes the    *)
(* k-th variable and appends what then has no parent left.                   *)

\* Those of a list that are in a set, in their order.
Those(list, T) ==
  LET kept[i \in 0..Len(list)] ==
        IF i = 0 THEN <<>>
        ELSE IF list[i] \in T THEN Append(kept[i - 1], list[i]) ELSE kept[i - 1]
  IN kept[Len(list)]

First(queue, k) == {queue[i] : i \in 1..k}
Unlocked(taken) == {w \in Modelled : Parents(w) \subseteq taken}
Children(v) == {w \in Modelled : v \in Parents(w)}

Kahn ==
  LET round[k \in 0..Len(names)] ==
        IF k = 0 THEN Those(names, Unlocked({}))
        ELSE LET queue == round[k - 1]
             IN IF Len(queue) < k THEN queue
                ELSE queue \o Those(names, Children(queue[k]) \cap Unlocked(First(queue, k)))
  IN round[Len(names)]

\* What a cycle holds back comes last, as it was added.
TopologicalOrder == Kahn \o Those(names, Modelled \ Range(Kahn))

CurrentOrder == IF ordered THEN order ELSE TopologicalOrder

-----------------------------------------------------------------------------

\* The sum of a function's values.
Sum(f) ==
  LET over[S \in SUBSET DOMAIN f] ==
        IF S = {} THEN 0 ELSE LET x == CHOOSE x \in S : TRUE IN f[x] + over[S \ {x}]
  IN  over[DOMAIN f]

\* f with x mapped to y, and with all that g maps and f does not.
With(f, x, y) == [v \in DOMAIN f \cup {x} |-> IF v = x THEN y ELSE f[v]]
Over(f, g) == [v \in DOMAIN f \cup DOMAIN g |-> IF v \in DOMAIN f THEN f[v] ELSE g[v]]

\* StructuralEquation.evaluate: a parent without a value counts as zero.
Predicted(v, state) ==
  LET weights == equations[v].weights
  IN  equations[v].intercept + Sum([p \in DOMAIN weights \cap DOMAIN state |-> weights[p] * state[p]])

\* One pass over the variables; context holds values from before the pass.
Pass(context, noise, do) ==
  LET sequence == CurrentOrder
      state[k \in 0..Len(sequence)] ==
        IF k = 0 THEN <<>>
        ELSE LET v == sequence[k]
             IN  With(state[k - 1], v, IF v \in DOMAIN do THEN do[v]
                                       ELSE Predicted(v, Over(state[k - 1], context)) + noise[v])
  IN state[Len(sequence)]

Silence == [v \in Modelled |-> 0]

\* evaluate
Evaluate(noise, do) == Pass(<<>>, noise, do)

\* One step of simulate from state current.
SimulationStep(current, do) == Pass(current, Silence, do)

\* Abduction: the noise that explains what was observed.
Abducted(observed) ==
  [v \in Modelled |->
     IF v \in DOMAIN observed THEN observed[v] - Predicted(v, observed) ELSE 0]

\* Abduction, action and prediction.
Counterfactual(observed, do) == Evaluate(Abducted(observed), do)

-----------------------------------------------------------------------------

\* A mutant of AddEquation: the order computed before is kept.
AddKeepsOrder(v) ==
  \E parents \in SUBSET Variables, intercept \in Intercepts :
    \E weights \in [parents -> Weights] :
      /\ equations' = With(equations, v, [intercept |-> intercept, weights |-> weights])
      /\ names' = IF v \in Modelled THEN names ELSE Append(names, v)
      /\ UNCHANGED <<order, ordered>>

\* add_equation, of an equation that learn_from_data has fitted.
AddEquation(v) ==
  \E parents \in SUBSET Variables, intercept \in Intercepts :
    \E weights \in [parents -> Weights] :
      /\ equations' = With(equations, v, [intercept |-> intercept, weights |-> weights])
      /\ names' = IF v \in Modelled THEN names ELSE Append(names, v)
      /\ order' = <<>> /\ ordered' = FALSE

\* Any evaluation, counterfactual or simulation computes the order if need be.
Use ==
  /\ order' = CurrentOrder /\ ordered' = TRUE
  /\ UNCHANGED <<names, equations>>

Next == (\E v \in Variables : AddEquation(v)) \/ Use

Spec == Init /\ [][Next]_vars

-----------------------------------------------------------------------------

Acyclic == \A S \in (SUBSET Modelled) \ {{}} : \E v \in S : Parents(v) \cap S = {}

Interventions == UNION {[{x} -> Values] : x \in Variables}

\* What an intervention makes of an observation, by the definition: the set
\* variable has its new value, and every other one moves with its parents alone.
IsCounterfactual(state, observed, do) ==
  /\ DOMAIN state = Modelled
  /\ \A v \in Modelled :
       state[v] = IF v \in DOMAIN do THEN do[v]
                  ELSE observed[v] + Sum([p \in Parents(v) |->
                                              equations[v].weights[p] * (state[p] - observed[p])])

\* The counterfactual of a complete observation is Pearl's, however the model
\* was built and whatever was evaluated in between.
CounterfactualIsPearls ==
  Acyclic => \A observed \in [Modelled -> Values], do \in Interventions :
               IsCounterfactual(Counterfactual(observed, do), observed, do)

\* causal_world_model.py: "handles cycles gracefully".  Setting a variable to
\* what it was leaves everything as it was.
NoChangeChangesNothing ==
  \A observed \in [Modelled -> Values] :
    \A x \in Modelled : Counterfactual(observed, [v \in {x} |-> observed[v]]) = observed

\* The same of an observation that lacks a variable, which counterfactual
\* fills in with its prediction.
PartialObservationsStand ==
  Acyclic => \A known \in SUBSET Modelled : \A observed \in [known -> Values] :
    \A x \in known : LET cf == Counterfactual(observed, [v \in {x} |-> observed[v]])
                     IN \A v \in known : cf[v] = observed[v]

\* api/routers/world_model.py: a simulation evolves from its initial conditions.
InitialConditionsMatter ==
  Modelled = Variables => \E v, x \in Variables : \E a, b \in [Variables -> Values] :
    SimulationStep(a, [w \in {x} |-> 0])[v] # SimulationStep(b, [w \in {x} |-> 0])[v]
===============================================================================
