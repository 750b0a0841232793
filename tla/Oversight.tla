----------------------------- MODULE Oversight -----------------------------
(***************************************************************************)
(* What a CARF run promises, whatever its agents compute: a proposal is    *)
(* judged; it is released only with a clean verdict, retried at most       *)
(* Retries times after a rejection, and otherwise put before a human.      *)
(***************************************************************************)
EXTENDS Naturals

CONSTANTS None, Retries

VARIABLES phase, verdict, retries
vars == <<phase, verdict, retries>>

Working == phase = "working"

Init == phase = "working" /\ verdict = None /\ retries = 0

\* The judge refuses the proposal or wants a human to see it.
Object ==
  /\ Working /\ verdict = None
  /\ verdict' \in {"REJECTED", "REQUIRES_ESCALATION"}
  /\ UNCHANGED <<phase, retries>>

Release ==
  /\ Working /\ verdict = None
  /\ verdict' = "APPROVED" /\ phase' = "released"
  /\ UNCHANGED retries

Retry ==
  /\ Working /\ verdict = "REJECTED" /\ retries < Retries
  /\ verdict' = None /\ retries' = retries + 1
  /\ UNCHANGED phase

\* A human is asked when nothing was judged, or when the judge objected and
\* there is no retry left to spend.
AskHuman ==
  /\ Working
  /\ verdict = "REJECTED" => retries = Retries
  /\ phase' = "asked"
  /\ UNCHANGED <<verdict, retries>>

Fail ==
  /\ Working /\ verdict = None
  /\ phase' = "failed"
  /\ UNCHANGED <<verdict, retries>>

Next == Object \/ Release \/ Retry \/ AskHuman \/ Fail
Spec == Init /\ [][Next]_vars /\ WF_vars(Next)
=============================================================================
