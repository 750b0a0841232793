------------------------------- MODULE RateLimit -------------------------------
(***************************************************************************)
(* RateLimitMiddleware (src/src/api/middleware.py): a sliding window of    *)
(* request times per client address.  dispatch does not await between its  *)
(* test and its append, so a request is one step.                          *)
(***************************************************************************)
EXTENDS Integers, Sequences

CONSTANTS
  Clients,
  Limit,   \* _rpm
  Window,  \* the sixty seconds
  MaxTime, \* bound: the clock stops here
  None

ASSUME RateLimitAssumption == Limit \in Nat \ {0} /\ Window \in Nat \ {0} /\ None \notin Nat

VARIABLES
  clock,      \* time.time(), taken to be monotonic
  counters, \* _counters: the times kept of each client
  admitted, \* history: the times of all admitted requests of each client
  told      \* history: when the client was told to come back, None after an admission
limiterVars == <<clock, counters, admitted, told>>

LimiterInit ==
  /\ clock = 0
  /\ counters = [c \in Clients |-> <<>>]
  /\ admitted = [c \in Clients |-> <<>>]
  /\ told = [c \in Clients |-> None]

\* A mutant of Outdated that forgets a request a second early.
OutdatedEarly(t) == t <= clock - Window + 1

Outdated(t) == t <= clock - Window

\* The times are in order: those the clean-up removes are the first n.
Cleaned(s, n) == \A i \in 1..Len(s) : i <= n <=> Outdated(s[i])

\* Without the first n, the kept requests still reach the limit.
Full(c, n) == Len(counters[c]) - n >= Limit

Admit(c) ==
  /\ \E n \in 0..Len(counters[c]) :
       LET rest == SubSeq(counters[c], n + 1, Len(counters[c])) IN
       /\ Cleaned(counters[c], n)
       /\ ~Full(c, n)
       /\ counters' = [counters EXCEPT ![c] = Append(rest, clock)]
  /\ admitted' = [admitted EXCEPT ![c] = Append(@, clock)]
  /\ told' = [told EXCEPT ![c] = None]
  /\ UNCHANGED clock

\* A mutant of RetryAfter that comes a second short.
RetryAfterShort(s) == Window - (clock - s[1]) - 1

\* The Retry-After header: int(60 - (now - timestamps[0])) + 1
RetryAfter(s) == Window - (clock - s[1]) + 1

Refuse(c) ==
  /\ \E n \in 0..Len(counters[c]) :
       LET rest == SubSeq(counters[c], n + 1, Len(counters[c])) IN
       /\ Cleaned(counters[c], n)
       /\ Full(c, n)
       /\ counters' = [counters EXCEPT ![c] = rest]
       /\ told' = [told EXCEPT ![c] = clock + RetryAfter(rest)]
  /\ UNCHANGED <<clock, admitted>>

Passes == clock < MaxTime /\ clock' = clock + 1 /\ UNCHANGED <<counters, admitted, told>>

LimiterNext == Passes \/ \E c \in Clients : Admit(c) \/ Refuse(c)

LimiterSpec == LimiterInit /\ [][LimiterNext]_limiterVars

-----------------------------------------------------------------------------
(* Properties *)

LimiterTypeOK ==
  /\ clock \in Nat
  /\ counters \in [Clients -> Seq(Nat)]
  /\ admitted \in [Clients -> Seq(Nat)]
  /\ told \in [Clients -> Nat \cup {None}]

\* In no period of Window seconds, wherever it begins, are more than Limit requests
\* of a client admitted: each comes a Window or more after the Limit-th before it.
AtMostLimitPerWindow ==
  \A c \in Clients : \A i \in 1..Len(admitted[c]) :
    i + Limit \in 1..Len(admitted[c]) => admitted[c][i + Limit] >= admitted[c][i] + Window

\* The guard of Refuse.
Refused(c) == \E n \in 0..Len(counters[c]) : Cleaned(counters[c], n) /\ Full(c, n)

\* A client that comes back when it was told to is not refused, unless a request
\* of its own was admitted since.
RetryAfterIsHonoured ==
  \A c \in Clients : told[c] # None /\ clock >= told[c] => ~Refused(c)
===============================================================================
