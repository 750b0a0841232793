----------------------------- MODULE ServicesProofs -----------------------------
(***************************************************************************)
(* Of the services beside the workflow, for all values of their constants: *)
(* a closed breaker is healthy, and calls hold off after a run of          *)
(* failures; the rate limiter lets no more than its limit through, and     *)
(* keeps the word of its Retry-After; the drift detector reports a shift   *)
(* that lasts; the dashboard shows of the runs what the records say; and   *)
(* a repair accounts for every violation it was given.                     *)
(***************************************************************************)
EXTENDS MCServices, FiniteSetTheorems, WellFoundedInduction, TLAPS

-----------------------------------------------------------------------------
(* The circuit breaker.  What makes both of its properties inductive is    *)
(* Probing: when the breaker is half open and the run has not been broken, *)
(* nothing has failed since the timeout.                                   *)

Probing == state = "half_open" /\ count = FailureThreshold => age = RecoveryTimeout

Inv == TypeOK /\ ClosedIsHealthy /\ Probing

LEMMA InitEstablishes == Init => Inv
<1> SUFFICES ASSUME Init PROVE Inv
  OBVIOUS
<1>1. call \in [Callers -> {"none", "calling", "served"}] /\ up \in BOOLEAN
  BY DEF Init
<1>2. state = "closed" /\ count = 0 /\ age = RecoveryTimeout
  BY DEF Init
<1> QED
  BY <1>1, <1>2, BreakerAssumption DEF Inv, TypeOK, ClosedIsHealthy, Probing

LEMMA StepPreserves == Inv /\ [Next]_vars => Inv'
<1> SUFFICES ASSUME Inv, [Next]_vars PROVE Inv'
  OBVIOUS
<1> USE BreakerAssumption DEF Inv, TypeOK, ClosedIsHealthy, Probing, AtMost
<1>1. CASE Tick
  BY <1>1 DEF Tick
<1>2. CASE Recover
  BY <1>2 DEF Recover
<1>3. CASE Look
  BY <1>3 DEF Look, Read
<1>4. ASSUME NEW c \in Callers, Begin(c) PROVE Inv'
  BY <1>4 DEF Begin, Read
<1>5. ASSUME NEW c \in Callers, Succeed(c) PROVE Inv'
  BY <1>5 DEF Succeed
<1>6. ASSUME NEW c \in Callers, Fail(c) PROVE Inv'
  BY <1>6 DEF Fail, Opens
<1>7. ASSUME NEW c \in Callers, Cancel(c) PROVE Inv'
  BY <1>7 DEF Cancel
<1>8. CASE UNCHANGED vars
  BY <1>8 DEF vars
<1> QED
  BY <1>1, <1>2, <1>3, <1>4, <1>5, <1>6, <1>7, <1>8 DEF Next

\* The invariant holds throughout.
THEOREM BreakerInv == Spec => []Inv
BY InitEstablishes, StepPreserves, PTL DEF Spec

\* The variables keep their types, and a closed breaker has seen fewer failures
\* than the threshold since the last success.
THEOREM ClosedBreakerHealthy == Spec => [](TypeOK /\ ClosedIsHealthy)
<1>1. Inv => TypeOK /\ ClosedIsHealthy
  BY DEF Inv
<1> QED
  BY <1>1, BreakerInv, PTL

\* No call begins within the timeout after a run of failures that reached the
\* threshold.
THEOREM CallsAreHeldOff == Spec => CallsHoldOff
<1> DEFINE HoldsOff == \A c \in Callers : Begin(c) => count < FailureThreshold \/ age = RecoveryTimeout
<1>1. Inv => HoldsOff
  <2> SUFFICES ASSUME Inv, NEW c \in Callers, Begin(c)
               PROVE  count < FailureThreshold \/ age = RecoveryTimeout
    OBVIOUS
  <2>1. state \in {"closed", "half_open"} \/ age >= RecoveryTimeout
    BY DEF Begin, Read, Inv, TypeOK
  <2> QED
    BY <2>1, BreakerAssumption DEF Inv, TypeOK, ClosedIsHealthy, Probing
<1> QED
  BY <1>1, BreakerInv, PTL DEF CallsHoldOff
-----------------------------------------------------------------------------
(* The rate limiter.  Its counter is the end of the sequence of            *)
(* admissions, all those before it being a window or more in the past.     *)
(* While a client has been told to come back its counter is full, and what *)
(* it was told is when the first of it has left the window.                *)

\* kept is the end of the client's admissions, and those before have left the window.
Suffix(all, kept) ==
  /\ Len(kept) <= Len(all)
  /\ \A i \in 1..Len(kept) : kept[i] = all[Len(all) - Len(kept) + i]
  /\ \A i \in 1..Len(all) - Len(kept) : all[i] + Window <= clock

Spaced(all) == \A i \in 1..Len(all) : i + Limit \in 1..Len(all) => all[i + Limit] >= all[i] + Window

WindowInv ==
  /\ LimiterTypeOK
  /\ \A c \in Clients : Suffix(admitted[c], counters[c]) /\ Spaced(admitted[c])

\* What is left of a suffix when its outdated beginning is dropped is one still.
LEMMA CleanedSuffix ==
  ASSUME NEW all \in Seq(Nat), NEW kept \in Seq(Nat), clock \in Nat,
         Suffix(all, kept), NEW n \in 0..Len(kept), Cleaned(kept, n)
  PROVE  LET rest == SubSeq(kept, n + 1, Len(kept)) IN
         rest \in Seq(Nat) /\ Len(rest) = Len(kept) - n /\ Suffix(all, rest)
<1> DEFINE rest == SubSeq(kept, n + 1, Len(kept))
<1>1. rest \in Seq(Nat) /\ Len(rest) = Len(kept) - n /\ \A i \in 1..Len(rest) : rest[i] = kept[n + i]
  OBVIOUS
<1>2. Len(rest) <= Len(all)
  BY <1>1 DEF Suffix
<1>3. ASSUME NEW i \in 1..Len(rest)
      PROVE  rest[i] = all[Len(all) - Len(rest) + i]
  <2> HIDE DEF rest
  <2>1. rest[i] = kept[n + i] /\ n + i \in 1..Len(kept)
    BY <1>1
  <2>2. kept[n + i] = all[Len(all) - Len(kept) + (n + i)]
    BY <2>1 DEF Suffix
  <2>3. Len(all) - Len(kept) + (n + i) = Len(all) - Len(rest) + i
    BY <1>1
  <2> QED BY <2>1, <2>2, <2>3
<1>4. ASSUME NEW i \in 1..Len(all) - Len(rest)
      PROVE  all[i] + Window <= clock
  <2>1. CASE i <= Len(all) - Len(kept)
    BY <2>1, <1>1 DEF Suffix
  <2>2. CASE i > Len(all) - Len(kept)
    <3> DEFINE j == i - (Len(all) - Len(kept))
    <3>1. j \in 1..n /\ kept[j] = all[i]
      BY <2>2, <1>1 DEF Suffix
    <3>2. kept[j] <= clock - Window
      BY <3>1 DEF Cleaned, Outdated
    <3> QED BY <3>1, <3>2, RateLimitAssumption
  <2> QED BY <2>1, <2>2, <1>1
<1> QED BY <1>1, <1>2, <1>3, <1>4 DEF Suffix

\* An admission into a cleaned counter that is below the limit keeps the spacing.
LEMMA AdmissionSpaced ==
  ASSUME NEW all \in Seq(Nat), NEW rest \in Seq(Nat), clock \in Nat,
         Suffix(all, rest), Spaced(all), Len(rest) < Limit
  PROVE  Suffix(Append(all, clock), Append(rest, clock)) /\ Spaced(Append(all, clock))
<1> DEFINE longer == Append(all, clock)
<1>1. /\ longer \in Seq(Nat) /\ Len(longer) = Len(all) + 1
      /\ \A i \in 1..Len(all) : longer[i] = all[i]
      /\ longer[Len(all) + 1] = clock
  OBVIOUS
<1>2. Suffix(longer, Append(rest, clock))
  <2> DEFINE kept == Append(rest, clock)
  <2>1. /\ kept \in Seq(Nat) /\ Len(kept) = Len(rest) + 1
        /\ \A i \in 1..Len(rest) : kept[i] = rest[i]
        /\ kept[Len(rest) + 1] = clock
    OBVIOUS
  <2> HIDE DEF kept, longer
  <2>2. ASSUME NEW i \in 1..Len(kept)
        PROVE  kept[i] = longer[Len(longer) - Len(kept) + i]
    <3>1. CASE i \in 1..Len(rest)
      <4>1. kept[i] = all[Len(all) - Len(rest) + i] /\ Len(all) - Len(rest) + i \in 1..Len(all)
        BY <3>1, <2>1 DEF Suffix
      <4>2. Len(longer) - Len(kept) + i = Len(all) - Len(rest) + i /\ kept[i] = rest[i]
        BY <3>1, <1>1, <2>1
      <4> QED BY <3>1, <4>1, <4>2, <1>1 DEF Suffix
    <3>2. CASE i = Len(rest) + 1
      BY <3>2, <1>1, <2>1
    <3> QED BY <3>1, <3>2, <2>1
  <2>3. ASSUME NEW i \in 1..Len(longer) - Len(kept)
        PROVE  longer[i] + Window <= clock
    <3>1. i \in 1..Len(all) - Len(rest) /\ i \in 1..Len(all)
      BY <1>1, <2>1
    <3> QED BY <3>1, <1>1 DEF Suffix
  <2>4. Len(kept) <= Len(longer)
    BY <1>1, <2>1 DEF Suffix
  <2>5. Suffix(longer, kept)
    BY <2>2, <2>3, <2>4 DEF Suffix
  <2> QED BY <2>5 DEF kept
<1>3. Spaced(longer)
  <2> SUFFICES ASSUME NEW i \in 1..Len(longer), i + Limit \in 1..Len(longer)
               PROVE  longer[i + Limit] >= longer[i] + Window
    BY DEF Spaced
  <2>1. CASE i + Limit <= Len(all)
    BY <2>1, <1>1, RateLimitAssumption DEF Spaced
  <2>2. CASE i + Limit = Len(all) + 1
    <3>1. i \in 1..Len(all) - Len(rest)
      BY <2>2, <1>1, RateLimitAssumption DEF Suffix
    <3> QED BY <3>1, <2>2, <1>1, RateLimitAssumption DEF Suffix
  <2> QED BY <2>1, <2>2, <1>1, RateLimitAssumption
<1> QED BY <1>2, <1>3

\* A cleaned counter, with or without the present request, keeps the invariant of its
\* client; the clock only moves admissions further into the past.
LEMMA WindowInvHolds == LimiterSpec => []WindowInv
<1>1. LimiterInit => WindowInv
  BY RateLimitAssumption DEF LimiterInit, WindowInv, LimiterTypeOK, Suffix, Spaced
<1>2. WindowInv /\ [LimiterNext]_limiterVars => WindowInv'
  <2> SUFFICES ASSUME WindowInv, [LimiterNext]_limiterVars PROVE WindowInv'
    OBVIOUS
  <2> USE DEF WindowInv
  <2>1. ASSUME NEW c \in Clients, Admit(c) PROVE WindowInv'
    <3>1. PICK n \in 0..Len(counters[c]) :
            /\ Cleaned(counters[c], n)
            /\ ~Full(c, n)
            /\ counters' = [counters EXCEPT ![c] = Append(SubSeq(counters[c], n + 1, Len(counters[c])), clock)]
      BY <2>1 DEF Admit
    <3> DEFINE rest == SubSeq(counters[c], n + 1, Len(counters[c]))
    <3>2. clock \in Nat /\ counters[c] \in Seq(Nat) /\ admitted[c] \in Seq(Nat) /\ Suffix(admitted[c], counters[c])
      BY DEF LimiterTypeOK
    <3>3. rest \in Seq(Nat) /\ Suffix(admitted[c], rest)
      BY <3>1, <3>2, CleanedSuffix
    <3>4. Suffix(Append(admitted[c], clock), Append(rest, clock)) /\ Spaced(Append(admitted[c], clock))
      <4>1. Len(rest) < Limit
        BY <3>1, <3>2, RateLimitAssumption DEF Full
      <4> QED BY <3>2, <3>3, <4>1, AdmissionSpaced
    <3> HIDE DEF rest
    <3>5. /\ counters' = [counters EXCEPT ![c] = Append(rest, clock)]
          /\ admitted' = [admitted EXCEPT ![c] = Append(admitted[c], clock)]
          /\ told' = [told EXCEPT ![c] = None] /\ clock' = clock
      BY <2>1, <3>1 DEF Admit, rest
    <3>6. LimiterTypeOK'
      BY <3>2, <3>3, <3>5 DEF LimiterTypeOK
    <3>7. \A d \in Clients : Suffix(admitted[d], counters[d])' /\ Spaced(admitted[d])'
      BY <3>4, <3>5 DEF LimiterTypeOK, Suffix, Spaced
    <3> QED BY <3>6, <3>7
  <2>2. ASSUME NEW c \in Clients, Refuse(c) PROVE WindowInv'
    <3>1. PICK n \in 0..Len(counters[c]) :
            LET rest == SubSeq(counters[c], n + 1, Len(counters[c])) IN
            /\ Cleaned(counters[c], n)
            /\ Full(c, n)
            /\ counters' = [counters EXCEPT ![c] = rest]
            /\ told' = [told EXCEPT ![c] = clock + RetryAfter(rest)]
      BY <2>2 DEF Refuse
    <3> DEFINE rest == SubSeq(counters[c], n + 1, Len(counters[c]))
    <3>2. clock \in Nat /\ counters[c] \in Seq(Nat) /\ admitted[c] \in Seq(Nat) /\ Suffix(admitted[c], counters[c])
      BY DEF LimiterTypeOK
    <3>3. rest \in Seq(Nat) /\ Suffix(admitted[c], rest)
      BY <3>1, <3>2, CleanedSuffix
    <3>4. clock + RetryAfter(rest) \in Nat
      <4>1. rest[1] \in Nat
        <5>1. Len(rest) >= Limit
          BY <3>1, <3>2, RateLimitAssumption DEF Full
        <5> HIDE DEF rest
        <5> QED BY <5>1, <3>3, RateLimitAssumption
      <4> HIDE DEF rest
      <4> QED BY <3>2, <4>1, RateLimitAssumption DEF RetryAfter
    <3> HIDE DEF rest
    <3>5. /\ counters' = [counters EXCEPT ![c] = rest]
          /\ told' = [told EXCEPT ![c] = clock + RetryAfter(rest)]
          /\ admitted' = admitted /\ clock' = clock
      BY <2>2, <3>1 DEF Refuse, rest
    <3>6. LimiterTypeOK'
      BY <3>3, <3>4, <3>5 DEF LimiterTypeOK
    <3>7. \A d \in Clients : Suffix(admitted[d], counters[d])' /\ Spaced(admitted[d])'
      BY <3>3, <3>5 DEF LimiterTypeOK, Suffix, Spaced
    <3> QED BY <3>6, <3>7
  <2>3. CASE Passes
    <3>1. LimiterTypeOK'
      BY <2>3 DEF Passes, LimiterTypeOK
    <3>2. ASSUME NEW c \in Clients
          PROVE  Suffix(admitted[c], counters[c])' /\ Spaced(admitted[c])'
      <4>1. admitted[c] \in Seq(Nat) /\ clock \in Nat /\ Suffix(admitted[c], counters[c]) /\ Spaced(admitted[c])
        BY DEF LimiterTypeOK
      <4>2. clock' = clock + 1 /\ admitted' = admitted /\ counters' = counters
        BY <2>3 DEF Passes
      <4>3. \A i \in 1..Len(admitted[c]) - Len(counters[c]) : admitted[c][i] + Window <= clock + 1
        BY <4>1, RateLimitAssumption DEF Suffix, LimiterTypeOK
      <4> QED BY <4>1, <4>2, <4>3 DEF Suffix, Spaced
    <3> QED BY <3>1, <3>2
  <2>4. CASE UNCHANGED limiterVars
    BY <2>4 DEF limiterVars, LimiterTypeOK, Suffix, Spaced
  <2> QED BY <2>1, <2>2, <2>3, <2>4 DEF LimiterNext
<1> QED BY <1>1, <1>2, PTL DEF LimiterSpec

\* AtMostLimitPerWindow, of every request the middleware lets through.
THEOREM NoMoreThanLimit == LimiterSpec => []AtMostLimitPerWindow
<1>1. WindowInv => AtMostLimitPerWindow
  BY DEF WindowInv, Spaced, AtMostLimitPerWindow
<1> QED BY <1>1, WindowInvHolds, PTL

\* What a client was told stands as long as no request of its own is admitted: its
\* counter stays as full as it was, since a refusal that removes something is none.
Word(c) ==
  /\ Len(counters[c]) <= Limit
  /\ told[c] # None => Len(counters[c]) = Limit /\ told[c] = counters[c][1] + Window + 1

WordInv == \A c \in Clients : Word(c)

LEMMA WordKept == ASSUME WindowInv, WordInv, [LimiterNext]_limiterVars PROVE WordInv'
<1> SUFFICES ASSUME NEW c \in Clients PROVE Word(c)'
  BY DEF WordInv
<1>1. /\ clock \in Nat /\ counters[c] \in Seq(Nat) /\ Word(c)
      /\ counters \in [Clients -> Seq(Nat)] /\ told \in [Clients -> Nat \cup {None}]
  BY DEF WindowInv, LimiterTypeOK, WordInv
<1>2. CASE Admit(c)
  <2>1. PICK n \in 0..Len(counters[c]) :
          ~Full(c, n) /\ counters' = [counters EXCEPT ![c] = Append(SubSeq(counters[c], n + 1, Len(counters[c])), clock)]
    BY <1>2 DEF Admit
  <2> DEFINE rest == SubSeq(counters[c], n + 1, Len(counters[c]))
  <2>2. rest \in Seq(Nat) /\ Len(rest) = Len(counters[c]) - n /\ Len(rest) < Limit
    BY <1>1, <2>1, RateLimitAssumption DEF Full
  <2>3. counters'[c] = Append(rest, clock) /\ told'[c] = None
    BY <1>1, <1>2, <2>1 DEF Admit
  <2> HIDE DEF rest
  <2> QED BY <1>1, <2>2, <2>3, RateLimitAssumption DEF Word
<1>3. CASE Refuse(c)
  <2>1. PICK n \in 0..Len(counters[c]) :
          LET rest == SubSeq(counters[c], n + 1, Len(counters[c])) IN
          /\ Full(c, n) /\ counters' = [counters EXCEPT ![c] = rest]
          /\ told' = [told EXCEPT ![c] = clock + RetryAfter(rest)]
    BY <1>3 DEF Refuse
  <2> DEFINE rest == SubSeq(counters[c], n + 1, Len(counters[c]))
  <2>2. rest \in Seq(Nat) /\ Len(rest) = Limit
    BY <1>1, <2>1, RateLimitAssumption DEF Full, Word
  <2>3. counters'[c] = rest /\ told'[c] = clock + RetryAfter(rest)
    BY <1>1, <2>1
  <2> HIDE DEF rest
  <2>4. rest[1] \in Nat
    BY <2>2, RateLimitAssumption
  <2>5. told'[c] = rest[1] + Window + 1
    BY <1>1, <2>3, <2>4, RateLimitAssumption DEF RetryAfter
  <2> QED BY <2>2, <2>3, <2>5, RateLimitAssumption DEF Word
<1>4. ASSUME NEW d \in Clients, d # c, Admit(d) \/ Refuse(d) PROVE Word(c)'
  <2>1. counters'[c] = counters[c] /\ told'[c] = told[c]
    BY <1>1, <1>4 DEF Admit, Refuse
  <2> QED BY <1>1, <2>1 DEF Word
<1>5. CASE Passes \/ UNCHANGED limiterVars
  BY <1>1, <1>5 DEF Passes, limiterVars, Word
<1> QED BY <1>2, <1>3, <1>4, <1>5 DEF LimiterNext

\* RetryAfterIsHonoured: who comes back when told is not refused, unless a request of
\* its own was admitted since.
THEOREM WordIsKept == LimiterSpec => []RetryAfterIsHonoured
<1>1. LimiterInit => WordInv
  BY RateLimitAssumption DEF LimiterInit, WordInv, Word
<1>2. WindowInv /\ WordInv => RetryAfterIsHonoured
  <2> SUFFICES ASSUME WindowInv, WordInv, NEW c \in Clients, told[c] # None, clock >= told[c],
                      NEW n \in 0..Len(counters[c]), Cleaned(counters[c], n), Full(c, n)
               PROVE  FALSE
    BY DEF RetryAfterIsHonoured, Refused
  <2>1. /\ clock \in Nat /\ counters[c] \in Seq(Nat)
        /\ Len(counters[c]) = Limit /\ told[c] = counters[c][1] + Window + 1
    BY DEF WindowInv, LimiterTypeOK, WordInv, Word
  <2>2. n = 0
    BY <2>1, RateLimitAssumption DEF Full
  <2>3. 1 \in 1..Len(counters[c]) /\ counters[c][1] \in Nat
    BY <2>1, RateLimitAssumption
  <2>4. ~Outdated(counters[c][1])
    BY <2>2, <2>3 DEF Cleaned
  <2> QED BY <2>1, <2>3, <2>4, RateLimitAssumption DEF Outdated
<1> QED BY <1>1, <1>2, WordKept, WindowInvHolds, PTL DEF LimiterSpec

-----------------------------------------------------------------------------
(* The drift detector. *)

LEMMA DivMod ==
  ASSUME NEW a \in Nat, NEW d \in Nat \ {0}
  PROVE  a = d * (a \div d) + (a % d) /\ a \div d \in Int /\ a % d \in 0..d-1
OBVIOUS

\* Quotient and remainder are unique.
LEMMA RemaindersAgree ==
  ASSUME NEW q \in Int, NEW p \in Int, NEW r \in Int, NEW s \in Int, NEW d \in Nat \ {0},
         d * q + r = d * p + s, r \in 0..d-1, s \in 0..d-1
  PROVE  r = s
OBVIOUS

\* The next number leaves the next remainder, or none.
LEMMA NextRemainder ==
  ASSUME NEW a \in Nat, NEW d \in Nat \ {0}
  PROVE  (a + 1) % d = 0 \/ (a + 1) % d = (a % d) + 1
<1> DEFINE q == a \div d
           r == a % d
           p == (a + 1) \div d
           s == (a + 1) % d
<1>1. /\ a = d * q + r /\ q \in Int /\ r \in 0..d-1
      /\ a + 1 = d * p + s /\ p \in Int /\ s \in 0..d-1
  BY DivMod
<1> HIDE DEF q, r, p, s
<1>2. CASE r + 1 < d
  <2>1. d * q + (r + 1) = d * p + s /\ r + 1 \in 0..d-1
    BY <1>1, <1>2
  <2>2. r + 1 \in Int /\ s \in Int
    BY <1>1
  <2>3. r + 1 = s
    BY <1>1, <2>1, <2>2, RemaindersAgree
  <2> QED BY <2>3 DEF r, s
<1>3. CASE r + 1 = d
  <2>1. d * (q + 1) + 0 = d * p + s /\ q + 1 \in Int
    BY <1>1, <1>3
  <2>2. 0 = s
    BY <1>1, <2>1, RemaindersAgree
  <2> QED BY <2>2 DEF s
<1> QED BY <1>1, <1>2, <1>3

LEMMA RemainderRepeats ==
  ASSUME NEW a \in Nat, NEW d \in Nat \ {0}
  PROVE  (a + d) % d = a % d
<1> DEFINE q == a \div d
           r == a % d
           p == (a + d) \div d
           s == (a + d) % d
<1>1. /\ a = d * q + r /\ q \in Int /\ r \in 0..d-1
      /\ a + d = d * p + s /\ p \in Int /\ s \in 0..d-1
  BY DivMod
<1> HIDE DEF q, r, p, s
<1>2. d * (q + 1) + r = d * p + s /\ q + 1 \in Int
  BY <1>1
<1>3. r = s
  BY <1>1, <1>2, RemaindersAgree
<1> QED BY <1>3 DEF r, s

\* A latest window that began with the last detection covers the segment of
\* DetectionWindow observations before the r latest.
AllIn(r, d) ==
  \A i \in 1..Len(observations) :
    Len(observations) - r - DetectionWindow < i /\ i <= Len(observations) - r => observations[i] = d

\* d is so much rarer in the baseline that nothing but d is a shift.
Rare(d) == 100 * (BaselineWindow - baseline[d]) > ShiftPercent * BaselineWindow

Remainder == total % DetectionWindow

\* The last detection, Remainder observations ago, told of a shift if it saw one.
Watched ==
  baseline # None /\ since > Remainder /\ total >= BaselineWindow + DetectionWindow + Remainder
    => last # None /\ \A d \in DriftDomains : AllIn(Remainder, d) /\ Rare(d) => last.drift

DriftInv ==
  /\ observations \in Seq(DriftDomains) /\ Len(observations) <= MaxHistory
  /\ total \in Nat /\ since \in Nat
  /\ total <= Len(observations) \/ Len(observations) = MaxHistory
  /\ baseline \in [DriftDomains -> Nat] \cup {None}
  /\ Watched

\* A distribution counts, and a window of one domain counts nothing else.
LEMMA Distributes ==
  ASSUME NEW s, NEW n \in Nat, DOMAIN s = 1..n
  PROVE  /\ Drift!Distribution(s) \in [DriftDomains -> Nat]
         /\ \A d \in DriftDomains :
              (\A i \in 1..n : s[i] = d) => Drift!Distribution(s)[d] = n
<1>1. IsFiniteSet(1..n) /\ Cardinality(1..n) = n
  BY FS_Interval
<1>0. \A S : Drift!Cardinality(S) = Cardinality(S)
  BY Zenon DEF Drift!Cardinality, Drift!IsFiniteSet, Cardinality, IsFiniteSet
<1>2. ASSUME NEW d \in DriftDomains
      PROVE  Cardinality({i \in DOMAIN s : s[i] = d}) \in Nat
  <2>1. {i \in DOMAIN s : s[i] = d} \subseteq 1..n
    OBVIOUS
  <2> QED BY <1>1, <2>1, FS_Subset, FS_CardinalityType
<1>3. ASSUME NEW d \in DriftDomains, \A i \in 1..n : s[i] = d
      PROVE  Drift!Distribution(s)[d] = n
  <2>1. {i \in DOMAIN s : s[i] = d} = 1..n
    BY <1>3
  <2> QED BY <1>0, <1>1, <2>1 DEF Drift!Distribution
<1> QED BY <1>0, <1>2, <1>3 DEF Drift!Distribution

\* What Append2 leaves of what was there.
LEMMA History ==
  ASSUME NEW s \in Seq(DriftDomains), Len(s) <= MaxHistory, NEW d \in DriftDomains
  PROVE  LET t == Drift!Append2(s, d) IN
         /\ t \in Seq(DriftDomains) /\ Len(t) <= MaxHistory
         /\ Len(t) = Len(s) + 1 \/ (Len(t) = Len(s) /\ Len(s) = MaxHistory)
         /\ \A i \in 1..Len(s) :
              i - (Len(s) + 1 - Len(t)) >= 1 => t[i - (Len(s) + 1 - Len(t))] = s[i]
<1>1. CASE Len(s) = MaxHistory
  <2>1. MaxHistory \in Nat /\ MaxHistory >= 1
    BY DriftAssumption
  <2>2. Tail(s) \in Seq(DriftDomains) /\ Len(Tail(s)) = Len(s) - 1
        /\ \A i \in 1..Len(s) - 1 : Tail(s)[i] = s[i + 1]
    BY <1>1, <2>1
  <2>3. Drift!Append2(s, d) = Append(Tail(s), d)
    BY <1>1 DEF Drift!Append2
  <2> QED BY <1>1, <2>1, <2>2, <2>3
<1>2. CASE Len(s) # MaxHistory
  <2>1. Drift!Append2(s, d) = Append(s, d)
    BY <1>2 DEF Drift!Append2
  <2> QED BY <1>2, <2>1, DriftAssumption
<1> QED BY <1>1, <1>2

\* The fold of the total keeps its remainder, and all of it that is looked at.
LEMMA FoldKeeps ==
  ASSUME NEW n \in Nat
  PROVE  /\ Drift!Folded(n) \in Nat /\ Drift!Folded(n) <= n
         /\ Drift!Folded(n) % DetectionWindow = n % DetectionWindow
<1>1. CASE n = Drift!Steady + DetectionWindow
  <2>1. Drift!Steady \in Nat /\ Drift!Folded(n) = Drift!Steady
    BY <1>1, DriftAssumption DEF Drift!Folded, Drift!Steady
  <2>2. (Drift!Steady + DetectionWindow) % DetectionWindow = Drift!Steady % DetectionWindow
    BY <2>1, RemainderRepeats, DriftAssumption
  <2> QED BY <1>1, <2>1, <2>2, DriftAssumption
<1>2. CASE n # Drift!Steady + DetectionWindow
  BY <1>2 DEF Drift!Folded
<1> QED BY <1>1, <1>2

\* A detection over a window of one domain that is rare in the baseline reports.
LEMMA DetectsShift ==
  ASSUME NEW s \in Seq(DriftDomains), Len(s) >= DetectionWindow,
         NEW base \in [DriftDomains -> Nat], Drift!CheckDrift(s, base)
  PROVE  /\ last' # None
         /\ \A d \in DriftDomains :
              /\ \A i \in 1..Len(s) : Len(s) - DetectionWindow < i => s[i] = d
              /\ 100 * (BaselineWindow - base[d]) > ShiftPercent * BaselineWindow
              => last'.drift
<1> DEFINE recent == Drift!LatestWindow(s)
           window == Drift!Distribution(recent)
<1>1. DOMAIN recent = 1..DetectionWindow
      /\ \A i \in 1..DetectionWindow : recent[i] = s[Len(s) - DetectionWindow + i]
  BY DriftAssumption DEF Drift!LatestWindow, Drift!Recent
<1>2. window \in [DriftDomains -> Nat]
      /\ \A d \in DriftDomains :
           (\A i \in 1..DetectionWindow : recent[i] = d) => window[d] = DetectionWindow
  BY <1>1, Distributes, DriftAssumption
<1>3. PICK kl \in BOOLEAN :
        last' = [window |-> window, baseline |-> base, drift |-> kl \/ Drift!Shifted(window, base)]
  BY DEF Drift!CheckDrift, Drift!KlMayExceed
<1> HIDE DEF recent
<1>4. ASSUME NEW d \in DriftDomains, \A i \in 1..Len(s) : Len(s) - DetectionWindow < i => s[i] = d,
             100 * (BaselineWindow - base[d]) > ShiftPercent * BaselineWindow
      PROVE  Drift!Shifted(window, base)
  <2>1. window[d] = DetectionWindow
    <3>1. ASSUME NEW i \in 1..DetectionWindow PROVE recent[i] = d
      <4>1. Len(s) - DetectionWindow + i \in 1..Len(s)
            /\ Len(s) - DetectionWindow < Len(s) - DetectionWindow + i
        BY DriftAssumption
      <4> QED BY <4>1, <1>1, <1>4
    <3> QED BY <1>2, <3>1
  <2> HIDE DEF window
  <2> DEFINE b == base[d]
  <2>2. b \in Nat /\ BaselineWindow > b
    <3>1. b \in Nat /\ ShiftPercent * BaselineWindow \in Nat
      BY DriftAssumption
    <3>2. 100 * (BaselineWindow - b) > ShiftPercent * BaselineWindow
      BY <1>4
    <3> HIDE DEF b
    <3> QED BY <3>1, <3>2, DriftAssumption
  <2>3. 100 * (BaselineWindow - b) > ShiftPercent * BaselineWindow
    BY <1>4
  <2> HIDE DEF b
  <2>4. Drift!Distance(DetectionWindow * BaselineWindow, b * DetectionWindow)
          = DetectionWindow * (BaselineWindow - b)
    BY <2>2, DriftAssumption DEF Drift!Distance
  <2>5. (100 * (BaselineWindow - b)) * DetectionWindow > (ShiftPercent * BaselineWindow) * DetectionWindow
    BY <2>2, <2>3, DriftAssumption
  <2>6. 100 * Drift!Distance(window[d] * BaselineWindow, base[d] * DetectionWindow)
          > ShiftPercent * BaselineWindow * DetectionWindow
    BY <2>1, <2>2, <2>4, <2>5, DriftAssumption DEF b
  <2> QED BY <2>6 DEF Drift!Shifted
<1>5. last' \in [window : [DriftDomains -> Nat], baseline : [DriftDomains -> Nat], drift : BOOLEAN]
  <2>1. Drift!Shifted(window, base) \in BOOLEAN
    BY DEF Drift!Shifted
  <2> HIDE DEF window
  <2> QED BY <1>2, <1>3, <2>1
<1> HIDE DEF window
<1> QED BY <1>3, <1>4, <1>5, DriftAssumption

LEMMA ResetKeepsDriftInv == ASSUME DriftInv, Drift!ResetBaseline PROVE DriftInv'
<1>1. CASE Len(observations) >= BaselineWindow
  <2>1. /\ baseline' = Drift!Distribution(Drift!Recent(observations, BaselineWindow)) /\ since' = 0
        /\ UNCHANGED <<observations, total, last>>
    BY <1>1 DEF Drift!ResetBaseline
  <2>2. DOMAIN Drift!Recent(observations, BaselineWindow) = 1..BaselineWindow
    BY DriftAssumption DEF Drift!Recent, DriftInv
  <2>3. baseline' \in [DriftDomains -> Nat]
    BY <2>1, <2>2, Distributes, DriftAssumption
  <2>4. Remainder' \in Nat
    BY <2>1, DivMod, DriftAssumption DEF DriftInv, Remainder
  <2>5. Watched'
    BY <2>1, <2>4 DEF Watched
  <2> QED BY <2>1, <2>3, <2>5 DEF DriftInv
<1>2. CASE ~(Len(observations) >= BaselineWindow)
  BY <1>2 DEF Drift!ResetBaseline, DriftInv, Watched, AllIn, Rare, Remainder
<1> QED BY <1>1, <1>2

\* Every DetectionWindow observations a detection looks at the latest ones; between
\* two detections the window of the last one moves back with each observation.
LEMMA RecordKeepsDriftInv ==
  ASSUME DriftInv, NEW d \in DriftDomains, Drift!RecordRouting(d)
  PROVE  DriftInv'
<1> DEFINE s == Drift!Append2(observations, d)
           establish == baseline = None /\ total + 1 >= BaselineWindow
           base == IF establish THEN Drift!Distribution(SubSeq(s, 1, BaselineWindow)) ELSE baseline
           r == total % DetectionWindow
           detects == base # None /\ total + 1 >= BaselineWindow + DetectionWindow
                                  /\ (total + 1) % DetectionWindow = 0
<1>1. /\ observations' = s /\ total' = Drift!Folded(total + 1) /\ baseline' = base
      /\ since' = IF establish \/ baseline = None THEN 0 ELSE Drift!AtMost(since + 1, DetectionWindow)
      /\ detects => Drift!CheckDrift(s, base)
      /\ ~detects => last' = last
  BY DEF Drift!RecordRouting
<1>2. /\ s \in Seq(DriftDomains) /\ Len(s) <= MaxHistory
      /\ Len(s) = Len(observations) + 1 \/ (Len(s) = Len(observations) /\ Len(observations) = MaxHistory)
      /\ \A i \in 1..Len(observations) :
           i - (Len(observations) + 1 - Len(s)) >= 1
             => s[i - (Len(observations) + 1 - Len(s))] = observations[i]
  BY History DEF DriftInv
<1>3. DOMAIN SubSeq(s, 1, BaselineWindow) = 1..BaselineWindow
  BY DriftAssumption
<1>4. base \in [DriftDomains -> Nat] \cup {None}
  BY <1>3, Distributes, DriftAssumption DEF DriftInv
<1>5. /\ total + 1 \in Nat /\ total' \in Nat /\ total' <= total + 1
      /\ Remainder' = (total + 1) % DetectionWindow
      /\ r \in 0..DetectionWindow - 1 /\ Remainder' \in 0..DetectionWindow - 1
  <2>1. total \in Nat /\ total + 1 \in Nat /\ DetectionWindow \in Nat \ {0}
    BY DriftAssumption DEF DriftInv
  <2>2. total' \in Nat /\ total' <= total + 1 /\ Remainder' = (total + 1) % DetectionWindow
    BY <1>1, <2>1, FoldKeeps DEF Remainder
  <2>3. r \in 0..DetectionWindow - 1 /\ (total + 1) % DetectionWindow \in 0..DetectionWindow - 1
    BY <2>1, DivMod
  <2> QED BY <2>1, <2>2, <2>3
<1>6. since' \in Nat /\ (since' > 0 => baseline # None /\ ~establish /\ since' <= since + 1)
  BY <1>1, DriftAssumption DEF DriftInv, Drift!AtMost
<1>7. total' <= Len(s) \/ Len(s) = MaxHistory
  BY <1>2, <1>5 DEF DriftInv
<1> HIDE DEF s, establish, r
<1>8. Watched'
  <2> SUFFICES ASSUME baseline' # None, since' > Remainder',
                      total' >= BaselineWindow + DetectionWindow + Remainder'
               PROVE  /\ last' # None
                      /\ \A e \in DriftDomains : AllIn(Remainder, e)' /\ Rare(e)' => last'.drift
    BY DEF Watched
  <2>1. Len(s) >= DetectionWindow + Remainder' /\ Remainder' \in Nat
    <3>1. Remainder' \in Nat /\ Remainder' < DetectionWindow
      BY <1>5, DriftAssumption
    <3>2. total' >= DetectionWindow + Remainder'
      BY <3>1, <1>5, DriftAssumption
    <3> QED BY <3>1, <3>2, <1>2, <1>5, <1>7, DriftAssumption
  <2>2. CASE Remainder' = 0
    <3>1. detects /\ base \in [DriftDomains -> Nat]
      BY <2>2, <1>1, <1>4, <1>5, DriftAssumption
    <3>2. Drift!CheckDrift(s, base)
      BY <3>1, <1>1
    <3> HIDE DEF base, detects
    <3>3. /\ last' # None
          /\ \A e \in DriftDomains :
               /\ \A i \in 1..Len(s) : Len(s) - DetectionWindow < i => s[i] = e
               /\ 100 * (BaselineWindow - base[e]) > ShiftPercent * BaselineWindow
               => last'.drift
      <4>1. Len(s) >= DetectionWindow
        BY <2>1, <2>2, <1>2, DriftAssumption
      <4> QED BY <3>1, <3>2, <4>1, <1>2, DetectsShift
    <3>4. ASSUME NEW e \in DriftDomains, AllIn(Remainder, e)', Rare(e)'
          PROVE  last'.drift
      <4>1. \A i \in 1..Len(s) : Len(s) - DetectionWindow < i => s[i] = e
        BY <3>4, <2>2, <1>1, <1>2, DriftAssumption DEF AllIn
      <4>2. 100 * (BaselineWindow - base[e]) > ShiftPercent * BaselineWindow
        BY <3>4, <1>1 DEF Rare
      <4> QED BY <4>1, <4>2, <3>3
    <3> QED BY <3>3, <3>4
  <2>3. CASE Remainder' = r + 1
    <3>1. baseline # None /\ ~establish /\ since > r
      BY <2>3, <1>5, <1>6 DEF DriftInv
    <3>2. total >= BaselineWindow + DetectionWindow + r
      BY <2>3, <1>5, DriftAssumption DEF DriftInv
    <3>3. last' = last /\ baseline' = baseline
      BY <2>3, <3>1, <1>1, <1>5
    <3>4. last # None /\ \A e \in DriftDomains : AllIn(r, e) /\ Rare(e) => last.drift
      BY <3>1, <3>2 DEF DriftInv, Watched, Remainder, r
    <3>5. ASSUME NEW e \in DriftDomains, AllIn(Remainder, e)'
          PROVE  AllIn(r, e)
      <4> SUFFICES ASSUME NEW i \in 1..Len(observations),
                          Len(observations) - r - DetectionWindow < i, i <= Len(observations) - r
                   PROVE  observations[i] = e
        BY DEF AllIn
      <4> DEFINE j == i - (Len(observations) + 1 - Len(s))
      <4>1. j \in 1..Len(s) /\ Len(s) - (r + 1) - DetectionWindow < j /\ j <= Len(s) - (r + 1)
        BY <2>1, <2>3, <1>2, <1>5, DriftAssumption DEF DriftInv
      <4>2. s[j] = observations[i]
        BY <4>1, <1>2
      <4>3. s[j] = e
        BY <4>1, <3>5, <2>3, <1>1 DEF AllIn
      <4> QED BY <4>2, <4>3
    <3> QED BY <3>3, <3>4, <3>5 DEF Rare
  <2> QED BY <2>2, <2>3, <1>5, NextRemainder, DriftAssumption DEF DriftInv, r
<1> QED BY <1>1, <1>2, <1>4, <1>5, <1>6, <1>7, <1>8 DEF DriftInv

LEMMA DriftInvHolds == ServicesSpec => []DriftInv
<1>1. ServicesInit => DriftInv
  BY DriftAssumption DEF ServicesInit, Drift!Init, DriftInv, Watched
<1>2. ASSUME DriftInv, [ServicesNext]_servicesVars
      PROVE  DriftInv'
  <2>1. Drift!Next \/ UNCHANGED driftVars
    BY <1>2 DEF ServicesNext, BreakerStep, LimiterStep, DriftStep, SimulationStep, ReflectorStep, RecordStep,
                OthersRest, Rests, servicesVars
  <2>2. CASE Drift!ResetBaseline
    BY <1>2, <2>2, ResetKeepsDriftInv
  <2>3. ASSUME NEW d \in DriftDomains, Drift!RecordRouting(d)
        PROVE  DriftInv'
    BY <1>2, <2>3, RecordKeepsDriftInv
  <2>4. CASE UNCHANGED driftVars
    BY <1>2, <2>4 DEF driftVars, DriftInv, Watched, AllIn, Rare, Remainder
  <2> QED BY <2>1, <2>2, <2>3, <2>4 DEF Drift!Next
<1> QED BY <1>1, <1>2, PTL DEF ServicesSpec

\* LastingShiftIsReported: once 2 * DetectionWindow - 1 queries in a row went to a
\* domain that was rare in the baseline, the last snapshot says so, whatever the phase
\* of the windows and the resets of the baseline.
THEOREM LastingShiftsAreReported == ServicesSpec => []LastingShiftIsReported
<1>1. ASSUME DriftInv PROVE LastingShiftIsReported
  <2> DEFINE n == 2 * DetectionWindow - 1
             recent == Drift!Recent(observations, n)
             r == total % DetectionWindow
  <2> SUFFICES ASSUME baseline # None, since = DetectionWindow, total >= BaselineWindow + n,
                      NEW d \in DriftDomains, \A i \in DOMAIN recent : recent[i] = d,
                      100 * (BaselineWindow - baseline[d]) > ShiftPercent * BaselineWindow
               PROVE  last # None /\ last.drift
    BY DEF LastingShiftIsReported, Drift!LastingShiftIsReported
  <2>1. r \in Nat /\ r < DetectionWindow /\ n \in Nat /\ n >= r + DetectionWindow
    <3>1. r \in 0..DetectionWindow - 1
      BY <1>1, DivMod, DriftAssumption DEF DriftInv
    <3> HIDE DEF r
    <3> QED BY <3>1, DriftAssumption
  <2>2. Len(observations) >= n
    <3>1. n \in Nat /\ MaxHistory >= n
      BY <2>1, DriftAssumption
    <3> HIDE DEF n
    <3> QED BY <1>1, <3>1, DriftAssumption DEF DriftInv
  <2>3. DOMAIN recent = 1..n /\ \A i \in 1..n : recent[i] = observations[Len(observations) - n + i]
    <3> HIDE DEF n
    <3> QED BY <1>1, <2>1, <2>2 DEF DriftInv, Drift!Recent
  <2> HIDE DEF n, recent, r
  <2>4. AllIn(r, d)
    <3> SUFFICES ASSUME NEW i \in 1..Len(observations),
                        Len(observations) - r - DetectionWindow < i, i <= Len(observations) - r
                 PROVE  observations[i] = d
      BY DEF AllIn
    <3> DEFINE j == i - (Len(observations) - n)
    <3>1. j \in 1..n /\ Len(observations) - n + j = i
      BY <1>1, <2>1, <2>2, DriftAssumption DEF DriftInv
    <3> QED BY <3>1, <2>3
  <2>5. total >= BaselineWindow + DetectionWindow + r
    BY <1>1, <2>1, DriftAssumption DEF DriftInv
  <2> QED BY <1>1, <2>1, <2>4, <2>5 DEF DriftInv, Watched, Rare, Remainder, r
<1> QED BY <1>1, DriftInvHolds, PTL
-----------------------------------------------------------------------------
(* Sums.  What adds up to n are n numbered copies. *)

Copies(f, S) == UNION {{x} \X (1..f[x]) : x \in S}
Naturals(f) == IsFiniteSet(DOMAIN f) /\ \A x \in DOMAIN f : f[x] \in Nat

LEMMA ACopy ==
  ASSUME NEW f, NEW S
  PROVE  \A p : p \in Copies(f, S) <=> \E x \in S : \E i \in 1..f[x] : p = <<x, i>>
BY DEF Copies

LEMMA CopiesAreFinite ==
  ASSUME NEW f, Naturals(f), NEW S \in SUBSET DOMAIN f
  PROVE  IsFiniteSet(Copies(f, S)) /\ Cardinality(Copies(f, S)) \in Nat
<1> DEFINE sets == {{x} \X (1..f[x]) : x \in S}
<1>1. IsFiniteSet(sets)
  <2> DEFINE h == [x \in S |-> {x} \X (1..f[x])]
  <2>1. h \in Surjection(S, sets)
    BY DEF Surjection
  <2>2. IsFiniteSet(S)
    BY FS_Subset DEF Naturals
  <2> HIDE DEF h, sets
  <2> QED BY <2>1, <2>2, FS_Surjection
<1>2. \A T \in sets : IsFiniteSet(T)
  <2> SUFFICES ASSUME NEW x \in S PROVE IsFiniteSet({x} \X (1..f[x]))
    OBVIOUS
  <2> DEFINE n == f[x]
  <2>1. n \in Nat /\ IsFiniteSet({x})
    BY FS_Singleton DEF Naturals
  <2> HIDE DEF n
  <2>2. IsFiniteSet(1..n)
    BY <2>1, FS_Interval
  <2>3. IsFiniteSet({x} \X (1..n))
    BY <2>1, <2>2, FS_Product
  <2> QED BY <2>3 DEF n
<1> HIDE DEF sets
<1>3. IsFiniteSet(UNION sets)
  BY <1>1, <1>2, FS_UNION
<1>4. IsFiniteSet(Copies(f, S))
  BY <1>3 DEF Copies, sets
<1> QED BY <1>4, FS_CardinalityType

\* The copies of two parts are those of the whole.
LEMMA CopiesOfParts ==
  ASSUME NEW f, Naturals(f), NEW S \in SUBSET DOMAIN f, NEW T \in SUBSET DOMAIN f, S \cap T = {}
  PROVE  Cardinality(Copies(f, S \cup T)) = Cardinality(Copies(f, S)) + Cardinality(Copies(f, T))
<1>1. Copies(f, S \cup T) = Copies(f, S) \cup Copies(f, T)
  BY DEF Copies
<1>2. Copies(f, S) \cap Copies(f, T) = {}
  BY ACopy
<1> DEFINE A == Copies(f, S)
           B == Copies(f, T)
<1>3. IsFiniteSet(A) /\ IsFiniteSet(B) /\ Cardinality(A) \in Nat /\ Cardinality(B) \in Nat
  BY CopiesAreFinite
<1> HIDE DEF A, B
<1>4. Cardinality(A \cup B) = Cardinality(A) + Cardinality(B) - Cardinality(A \cap B)
  BY <1>3, FS_Union
<1>5. Cardinality(A \cap B) = 0
  BY <1>2, FS_EmptySet DEF A, B
<1>6. Cardinality(A \cup B) = Cardinality(A) + Cardinality(B)
  BY <1>3, <1>4, <1>5
<1> QED BY <1>1, <1>6 DEF A, B

LEMMA CopiesOfOne ==
  ASSUME NEW f, Naturals(f), NEW x \in DOMAIN f
  PROVE  Cardinality(Copies(f, {x})) = f[x]
<1> DEFINE n == f[x]
<1>1. Copies(f, {x}) = {x} \X (1..n)
  BY DEF Copies
<1>2. n \in Nat /\ IsFiniteSet({x}) /\ Cardinality({x}) = 1
  BY FS_Singleton DEF Naturals
<1> HIDE DEF n
<1>3. IsFiniteSet(1..n) /\ Cardinality(1..n) = n
  BY <1>2, FS_Interval
<1>4. Cardinality({x} \X (1..n)) = 1 * n
  BY <1>2, <1>3, FS_Product
<1>5. 1 * n = n
  BY <1>2
<1>6. Cardinality({x} \X (1..n)) = n
  BY <1>4, <1>5
<1> QED BY <1>1, <1>6 DEF n

\* A sum does not depend on the order in which it is taken.
LEMMA SumCounts ==
  ASSUME NEW f, Naturals(f)
  PROVE  Records!Sum(f) = Cardinality(Copies(f, DOMAIN f)) /\ Records!Sum(f) \in Nat
<1> DEFINE D == DOMAIN f
           one(S) == CHOOSE x \in S : TRUE
           tally(S) == Cardinality(Copies(f, S))
           Over(w) == w = [S \in SUBSET D |-> IF S = {} THEN 0 ELSE f[one(S)] + w[S \ {one(S)}]]
           over == CHOOSE w : Over(w)
<1>1. Records!Sum(f) = over[D]
  BY DEF Records!Sum
<1>2. \A S \in SUBSET D : S # {} => one(S) \in S
  OBVIOUS
<1>3. \A S \in SUBSET D : tally(S) = IF S = {} THEN 0 ELSE f[one(S)] + tally(S \ {one(S)})
  <2> SUFFICES ASSUME NEW S \in SUBSET D
               PROVE  tally(S) = IF S = {} THEN 0 ELSE f[one(S)] + tally(S \ {one(S)})
    OBVIOUS
  <2>1. CASE S = {}
    <3>1. Copies(f, {}) = {}
      BY DEF Copies
    <3> QED BY <2>1, <3>1, FS_EmptySet
  <2>2. CASE S # {}
    <3> DEFINE x == one(S)
    <3>1. x \in S
      BY <1>2, <2>2
    <3> HIDE DEF x
    <3>2. tally({x} \cup (S \ {x})) = tally({x}) + tally(S \ {x})
      BY <3>1, CopiesOfParts
    <3>3. tally({x}) = f[x] /\ {x} \cup (S \ {x}) = S
      BY <3>1, CopiesOfOne
    <3> HIDE DEF tally
    <3>4. tally(S) = f[x] + tally(S \ {x})
      BY <3>2, <3>3
    <3> QED BY <2>2, <3>4 DEF x
  <2> QED BY <2>1, <2>2
<1> HIDE DEF one
<1>4. Over(over)
  <2> DEFINE h == [S \in SUBSET D |-> tally(S)]
  <2> HIDE DEF tally, D
  <2>1. \A S \in SUBSET D : h[S] = IF S = {} THEN 0 ELSE f[one(S)] + h[S \ {one(S)}]
    BY <1>3
  <2>2. Over(h)
    BY <2>1
  <2>3. \E w : Over(w)
    BY <2>2, Zenon
  <2> QED BY <2>3, Zenon
<1>5. \A S \in SUBSET D : over[S] = IF S = {} THEN 0 ELSE f[one(S)] + over[S \ {one(S)}]
  <2> HIDE DEF over, D
  <2> QED BY <1>4
<1> DEFINE wrong == {S \in SUBSET D : over[S] # tally(S)}
<1> HIDE DEF over, tally
<1>6. wrong = {}
  <2> SUFFICES ASSUME wrong # {} PROVE FALSE
    OBVIOUS
  <2>1. wrong \subseteq FiniteSubsetsOf(D)
    BY FS_Subset DEF FiniteSubsetsOf, Naturals
  <2> HIDE DEF wrong, D
  <2>2. PICK S \in wrong : \A T \in wrong : <<T, S>> \notin StrictSubsetOrdering(D)
    BY <2>1, FS_StrictSubsetOrderingWellFounded, WFMin, Zenon
  <2>3. S \in SUBSET D /\ over[S] # tally(S)
    BY DEF wrong
  <2>4. S # {}
    BY <1>3, <1>5, <2>3
  <2> DEFINE x == one(S)
  <2>5. x \in S
    BY <1>2, <2>3, <2>4
  <2> HIDE DEF x
  <2>6. over[S] = f[x] + over[S \ {x}] /\ tally(S) = f[x] + tally(S \ {x})
    BY <1>3, <1>5, <2>3, <2>4 DEF x
  <2>7. S \ {x} \in wrong
    BY <2>3, <2>6 DEF wrong
  <2>8. <<S \ {x}, S>> \in StrictSubsetOrdering(D)
    BY <2>3, <2>5 DEF StrictSubsetOrdering
  <2> QED BY <2>2, <2>7, <2>8
<1>7. over[D] = tally(D)
  BY <1>6
<1> QED BY <1>1, <1>7, CopiesAreFinite DEF tally

LEMMA SumOfParts ==
  ASSUME NEW f, Naturals(f), NEW S, NEW T, DOMAIN f = S \cup T, S \cap T = {}
  PROVE  Records!Sum(f) = Records!Sum([x \in S |-> f[x]]) + Records!Sum([x \in T |-> f[x]])
<1> DEFINE g == [x \in S |-> f[x]]
           h == [x \in T |-> f[x]]
<1>1. Naturals(g) /\ Naturals(h)
  <2>1. IsFiniteSet(S) /\ IsFiniteSet(T)
    BY FS_Subset DEF Naturals
  <2> QED BY <2>1 DEF Naturals
<1>2. Copies(g, S) = Copies(f, S) /\ Copies(h, T) = Copies(f, T)
  BY DEF Copies
<1>3. DOMAIN g = S /\ DOMAIN h = T
  OBVIOUS
<1> HIDE DEF g, h
<1>4. Records!Sum(g) = Cardinality(Copies(f, S)) /\ Records!Sum(h) = Cardinality(Copies(f, T))
  BY <1>1, <1>2, <1>3, SumCounts
<1>5. Records!Sum(f) = Cardinality(Copies(f, S \cup T))
  BY SumCounts
<1> QED BY <1>4, <1>5, CopiesOfParts DEF g, h

LEMMA SumOverBijection ==
  ASSUME NEW f, Naturals(f), NEW g, NEW b \in Bijection(DOMAIN f, DOMAIN g),
         \A x \in DOMAIN f : g[b[x]] = f[x]
  PROVE  Records!Sum(f) = Records!Sum(g)
<1> DEFINE A == DOMAIN f
           B == DOMAIN g
<1>1. /\ b \in [A -> B] /\ \A x, y \in A : b[x] = b[y] => x = y
      /\ \A y \in B : \E x \in A : b[x] = y
  <2>1. b \in [A -> B] /\ IsInjective(b)
    BY DEF Bijection, Injection
  <2>2. b \in Surjection(A, B)
    BY DEF Bijection
  <2> HIDE DEF A, B
  <2>3. \A x, y \in A : b[x] = b[y] => x = y
    BY <2>1 DEF IsInjective
  <2>4. \A y \in B : \E x \in A : b[x] = y
    BY <2>2 DEF Surjection
  <2> QED BY <2>1, <2>3, <2>4
<1>2. Naturals(g)
  <2>1. IsFiniteSet(A) /\ ExistsBijection(A, B)
    BY DEF Naturals, ExistsBijection
  <2>2. IsFiniteSet(B)
    BY <2>1, FS_Bijection
  <2> QED BY <1>1, <2>2 DEF Naturals
<1> DEFINE C == Copies(f, A)
           E == Copies(g, B)
           h == [p \in C |-> <<b[p[1]], p[2]>>]
<1>3. \A p : p \in C <=> \E x \in A : \E i \in 1..f[x] : p = <<x, i>>
  BY ACopy
<1>4. \A p : p \in E <=> \E x \in B : \E i \in 1..g[x] : p = <<x, i>>
  BY ACopy
<1> HIDE DEF C, E, A, B
<1>5. \A x \in A : g[b[x]] = f[x]
  BY DEF A
<1>6. \A p \in C : h[p] \in E
  BY <1>1, <1>3, <1>4, <1>5
<1>7. \A p, q \in C : h[p] = h[q] => p = q
  BY <1>1, <1>3
<1>8. \A q \in E : \E p \in C : h[p] = q
  <2> SUFFICES ASSUME NEW q \in E PROVE \E p \in C : h[p] = q
    OBVIOUS
  <2>1. PICK y \in B : \E i \in 1..g[y] : q = <<y, i>>
    BY <1>4
  <2>2. PICK i \in 1..g[y] : q = <<y, i>>
    BY <2>1
  <2>3. PICK x \in A : b[x] = y
    BY <1>1
  <2>4. <<x, i>> \in C
    BY <1>3, <1>5, <2>2, <2>3
  <2>5. h[<<x, i>>] = q
    BY <2>2, <2>3, <2>4
  <2> QED BY <2>4, <2>5
<1>9. h \in Bijection(C, E)
  <2>1. h \in [C -> E] /\ IsInjective(h)
    <3>1. h \in [C -> E]
      BY <1>6
    <3>2. DOMAIN h = C
      OBVIOUS
    <3> HIDE DEF h
    <3> QED BY <3>1, <3>2, <1>7 DEF IsInjective
  <2>2. \A q \in E : \E p \in C : h[p] = q
    BY <1>8
  <2> HIDE DEF h
  <2> QED BY <2>1, <2>2 DEF Bijection, Injection, Surjection
<1>10. IsFiniteSet(C) /\ ExistsBijection(C, E)
  <2>1. IsFiniteSet(C)
    BY CopiesAreFinite DEF C, A
  <2> QED BY <1>9, <2>1 DEF ExistsBijection
<1>11. Cardinality(C) = Cardinality(E)
  BY <1>10, FS_Bijection
<1> QED BY <1>2, <1>11, SumCounts DEF C, E, A, B
-----------------------------------------------------------------------------
(* Newest.  An entry's place in a timeline is how many are newer than it.  *)

Newer(E, e) == {f \in E : f.at > e.at}
Rank(E, e) == Cardinality(Newer(E, e))
\* Entries with a time each.
Dated(E) ==
  /\ IsFiniteSet(E) /\ \A e \in E : e.at \in Int
  /\ \A e, f \in E : e.at = f.at => e = f

LEMMA SameCardinality == \A S : Records!Cardinality(S) = Cardinality(S)
BY Zenon DEF Records!Cardinality, Cardinality

LEMMA RanksFollowTime ==
  ASSUME NEW E, Dated(E)
  PROVE  /\ \A e \in E : Rank(E, e) \in 0..Cardinality(E) - 1
         /\ \A e, f \in E : e.at > f.at <=> Rank(E, e) < Rank(E, f)
         /\ \A e, f \in E : Rank(E, e) = Rank(E, f) => e = f
<1>1. Cardinality(E) \in Nat
  BY FS_CardinalityType DEF Dated
<1>2. ASSUME NEW e \in E
      PROVE  IsFiniteSet(Newer(E, e)) /\ Rank(E, e) \in 0..Cardinality(E) - 1
  <2>1. e \notin Newer(E, e) /\ Newer(E, e) \in SUBSET E
    BY DEF Newer, Dated
  <2>2. /\ IsFiniteSet(Newer(E, e)) /\ Cardinality(Newer(E, e)) <= Cardinality(E)
        /\ (Cardinality(E) = Cardinality(Newer(E, e)) => E = Newer(E, e))
    BY <2>1, FS_Subset DEF Dated
  <2>3. Cardinality(Newer(E, e)) \in Nat
    BY <2>2, FS_CardinalityType
  <2> QED BY <1>1, <2>1, <2>2, <2>3 DEF Rank
<1>3. ASSUME NEW e \in E, NEW f \in E, e.at > f.at
      PROVE  Rank(E, e) < Rank(E, f)
  <2>1. Newer(E, e) \in SUBSET Newer(E, f)
    BY <1>3 DEF Newer, Dated
  <2>2. e \in Newer(E, f) /\ e \notin Newer(E, e)
    BY <1>3 DEF Newer, Dated
  <2>3. /\ Rank(E, e) <= Rank(E, f)
        /\ (Rank(E, f) = Rank(E, e) => Newer(E, f) = Newer(E, e))
    BY <1>2, <2>1, FS_Subset DEF Rank
  <2>4. Rank(E, e) \in Int /\ Rank(E, f) \in Int
    BY <1>1, <1>2
  <2> QED BY <2>2, <2>3, <2>4
<1>4. \A e, f \in E : Rank(E, e) \in Int /\ (e.at > f.at \/ f.at > e.at \/ e = f)
  BY <1>1, <1>2 DEF Dated
<1>5. \A e, f \in E : e.at > f.at <=> Rank(E, e) < Rank(E, f)
  <2> SUFFICES ASSUME NEW e \in E, NEW f \in E, Rank(E, e) < Rank(E, f) PROVE e.at > f.at
    BY <1>3
  <2>1. CASE f.at > e.at
    BY <1>3, <1>4, <2>1
  <2> QED BY <1>4, <2>1
<1>6. \A e, f \in E : Rank(E, e) = Rank(E, f) => e = f
  <2> SUFFICES ASSUME NEW e \in E, NEW f \in E, Rank(E, e) = Rank(E, f) PROVE e = f
    OBVIOUS
  <2>1. ~(e.at > f.at) /\ ~(f.at > e.at)
    BY <1>3, <1>4
  <2> QED BY <1>4, <2>1
<1> QED BY <1>2, <1>5, <1>6

LEMMA EveryRankIsTaken ==
  ASSUME NEW E, Dated(E)
  PROVE  \A k \in 0..Cardinality(E) - 1 : \E e \in E : Rank(E, e) = k
<1> DEFINE n == Cardinality(E)
           r == [e \in E |-> Rank(E, e)]
<1>1. n \in Nat
  BY FS_CardinalityType DEF Dated
<1>2. r \in Injection(E, 0..n - 1)
  <2>1. r \in [E -> 0..n - 1]
    BY RanksFollowTime
  <2>2. \A e, f \in DOMAIN r : r[e] = r[f] => e = f
    BY RanksFollowTime
  <2> HIDE DEF r
  <2> QED BY <2>1, <2>2 DEF Injection, IsInjective
<1> HIDE DEF n, r
<1>3. IsFiniteSet(0..n - 1) /\ Cardinality(0..n - 1) = n
  <2>1. 0 \in Int /\ n - 1 \in Int
    BY <1>1
  <2>2. IsFiniteSet(0..n - 1) /\ Cardinality(0..n - 1) = IF 0 > n - 1 THEN 0 ELSE (n - 1) - 0 + 1
    BY <2>1, FS_Interval
  <2> QED BY <1>1, <2>2
<1>4. r \in Surjection(E, 0..n - 1)
  BY <1>2, <1>3, FS_Injection DEF n
<1>5. \A k \in 0..n - 1 : \E e \in E : r[e] = k
  BY <1>4 DEF Surjection
<1> QED BY <1>5 DEF n, r

\* A timeline lists the entries of the first ranks, each at its place.
LEMMA NewestByRank ==
  ASSUME NEW E, Dated(E), NEW limit \in Nat
  PROVE  LET shown == Records!Newest(E, limit)
             length == IF Cardinality(E) < limit THEN Cardinality(E) ELSE limit
         IN  /\ shown \in [1..length -> E] /\ length \in Nat
             /\ \A i \in 1..length : Rank(E, shown[i]) = i - 1
             /\ \A e \in E : Rank(E, e) < limit => \E i \in 1..length : shown[i] = e
<1> DEFINE n == Cardinality(E)
           length == IF n < limit THEN n ELSE limit
           shown == Records!Newest(E, limit)
<1>1. n \in Nat /\ length \in Nat /\ length <= n
  <2>1. n \in Nat
    BY FS_CardinalityType DEF Dated
  <2> QED BY <2>1
<1> DEFINE place(e) == Records!Cardinality({f \in E : f.at > e.at})
<1>2. shown = [i \in 1..length |-> CHOOSE e \in E : place(e) = i - 1] /\ \A e : place(e) = Rank(E, e)
  <2>1. Records!Cardinality(E) = n
    BY SameCardinality
  <2>2. shown = [i \in 1..length |-> CHOOSE e \in E : place(e) = i - 1]
    BY <2>1, Zenon DEF Records!Newest
  <2>3. \A e : place(e) = Rank(E, e)
    BY SameCardinality DEF Rank, Newer
  <2> QED BY <2>2, <2>3
<1> HIDE DEF n, shown, place
<1>3. \A i \in 1..length : \E e \in E : Rank(E, e) = i - 1
  <2> SUFFICES ASSUME NEW i \in 1..length PROVE \E e \in E : Rank(E, e) = i - 1
    OBVIOUS
  <2>1. i - 1 \in 0..n - 1
    BY <1>1
  <2> QED BY <2>1, EveryRankIsTaken DEF n
<1> HIDE DEF length
<1>4. shown \in [1..length -> E] /\ \A i \in 1..length : Rank(E, shown[i]) = i - 1
  BY <1>2, <1>3
<1>5. ASSUME NEW e \in E, Rank(E, e) < limit
      PROVE  \E i \in 1..length : shown[i] = e
  <2> DEFINE i == Rank(E, e) + 1
  <2>1. Rank(E, e) \in 0..n - 1
    BY RanksFollowTime DEF n
  <2>2. i \in 1..length /\ i - 1 = Rank(E, e)
    BY <1>1, <1>5, <2>1 DEF length
  <2> HIDE DEF i
  <2>3. shown[i] \in E /\ Rank(E, shown[i]) = Rank(E, e)
    BY <1>4, <2>2
  <2> QED BY <2>2, <2>3, RanksFollowTime
<1> QED BY <1>1, <1>4, <1>5 DEF n, length, shown

Shows(shown, E, limit) ==
  /\ shown \in Seq(E) /\ DOMAIN shown = 1..Len(shown)
  /\ Len(shown) = IF Cardinality(E) < limit THEN Cardinality(E) ELSE limit
  /\ \A i \in 1..Len(shown) : Rank(E, shown[i]) = i - 1
  /\ \A i, j \in 1..Len(shown) : i < j <=> shown[i].at > shown[j].at
  /\ \A e \in E : \/ \E i \in 1..Len(shown) : shown[i] = e
                  \/ Len(shown) = limit /\ \A i \in 1..Len(shown) : shown[i].at > e.at

\* A timeline is in order, and what it leaves out is older than all it shows.
LEMMA NewestShows ==
  ASSUME NEW E, Dated(E), NEW limit \in Nat
  PROVE  Shows(Records!Newest(E, limit), E, limit)
<1> DEFINE shown == Records!Newest(E, limit)
           length == IF Cardinality(E) < limit THEN Cardinality(E) ELSE limit
<1>1. /\ shown \in [1..length -> E] /\ length \in Nat
      /\ \A i \in 1..length : Rank(E, shown[i]) = i - 1
      /\ \A e \in E : Rank(E, e) < limit => \E i \in 1..length : shown[i] = e
  BY NewestByRank
<1>2. length = IF Cardinality(E) < limit THEN Cardinality(E) ELSE limit
  OBVIOUS
<1>3. Cardinality(E) \in Nat
  BY FS_CardinalityType DEF Dated
<1> HIDE DEF shown, length
<1>4. shown \in Seq(E) /\ Len(shown) = length /\ DOMAIN shown = 1..length
  BY <1>1
<1>5. ASSUME NEW i \in 1..length, NEW j \in 1..length
      PROVE  i < j <=> shown[i].at > shown[j].at
  <2>1. shown[i] \in E /\ shown[j] \in E /\ Rank(E, shown[i]) = i - 1 /\ Rank(E, shown[j]) = j - 1
    BY <1>1
  <2>2. shown[i].at > shown[j].at <=> Rank(E, shown[i]) < Rank(E, shown[j])
    BY <2>1, RanksFollowTime
  <2> QED BY <1>1, <2>1, <2>2
<1>6. ASSUME NEW e \in E, ~ \E i \in 1..length : shown[i] = e
      PROVE  length = limit /\ \A i \in 1..length : shown[i].at > e.at
  <2>1. Rank(E, e) \in 0..Cardinality(E) - 1 /\ ~(Rank(E, e) < limit)
    BY <1>1, <1>6, RanksFollowTime
  <2>2. length = limit
    BY <1>2, <1>3, <2>1
  <2>3. ASSUME NEW i \in 1..length PROVE shown[i].at > e.at
    <3>1. shown[i] \in E /\ Rank(E, shown[i]) < Rank(E, e)
      BY <1>1, <2>1, <2>2
    <3> QED BY <3>1, RanksFollowTime
  <2> QED BY <2>2, <2>3
<1> QED BY <1>1, <1>2, <1>4, <1>5, <1>6 DEF Shows, shown

\* As many as the limit that are newer keep whatever is older from a timeline.
LEMMA CrowdedOut ==
  ASSUME NEW E, Dated(E), NEW limit \in Nat, NEW shown, Shows(shown, E, limit),
         NEW N \in SUBSET E, Cardinality(N) = limit, NEW x \in Int, \A f \in N : f.at > x
  PROVE  Len(shown) = limit /\ \A i \in 1..Len(shown) : shown[i].at > x
<1>1. Cardinality(E) \in Nat /\ limit <= Cardinality(E)
  BY FS_CardinalityType, FS_Subset DEF Dated
<1>2. Len(shown) = limit
  BY <1>1 DEF Shows
<1>3. ASSUME NEW i \in 1..Len(shown), ~(shown[i].at > x)
      PROVE  FALSE
  <2>1. shown[i] \in E /\ Rank(E, shown[i]) = i - 1
    BY DEF Shows
  <2>2. shown[i].at \in Int /\ \A f \in E : f.at \in Int
    BY <2>1 DEF Dated
  <2>3. N \in SUBSET Newer(E, shown[i])
    BY <1>3, <2>2 DEF Newer
  <2>4. IsFiniteSet(Newer(E, shown[i]))
    BY FS_Subset DEF Newer, Dated
  <2>5. limit <= Rank(E, shown[i])
    BY <2>3, <2>4, FS_Subset DEF Rank
  <2> QED BY <1>2, <2>1, <2>5
<1> QED BY <1>2, <1>3

\* What a timeline shows is as many entries as it is long.
LEMMA ShownAreCounted ==
  ASSUME NEW E, NEW limit, NEW shown, Shows(shown, E, limit), Dated(E), limit \in Nat
  PROVE  /\ Records!Range(shown) \in SUBSET E
         /\ Cardinality(Records!Range(shown)) = Len(shown)
         /\ Records!Range(shown) = {shown[i] : i \in 1..Len(shown)}
<1> DEFINE R == {shown[i] : i \in 1..Len(shown)}
<1>1. Records!Range(shown) = R
  BY DEF Records!Range, Shows
<1>2. shown \in Seq(E) /\ Len(shown) \in Nat /\ shown \in [1..Len(shown) -> E]
  BY DEF Shows
<1>3. R \in SUBSET E
  BY <1>2
<1>4. \A i, j \in 1..Len(shown) : shown[i] = shown[j] => i = j
  BY <1>2 DEF Shows
<1>5. shown \in Bijection(1..Len(shown), R)
  <2>1. shown \in [1..Len(shown) -> R]
    BY <1>2
  <2>2. \A y \in R : \E i \in 1..Len(shown) : shown[i] = y
    OBVIOUS
  <2> HIDE DEF R
  <2> QED BY <1>4, <2>1, <2>2 DEF Bijection, Injection, Surjection, IsInjective
<1>6. Cardinality(R) = Len(shown)
  BY <1>2, <1>5, FS_CountingElements DEF ExistsBijection
<1> QED BY <1>1, <1>3, <1>6
-----------------------------------------------------------------------------
(* The governance service's records.  Every entry of either log has a time *)
(* of its own; and the cost entries are those of the runs that are priced, *)
(* one of each, at its price.                                              *)

EventTypes == {"triple_created", "cost_computed", "conflict_detected", "policy_extracted"}
Touched ==
  {f.touched : f \in Findings} \cup {f.conflicts : f \in Findings}
    \cup {{}} \cup {{d} : d \in PolicyDomains}
Entries ==
  [at : Int, type : EventTypes, domains : Touched, session : Sessions \cup {"none"}, cost : Int]

Timed(log, other) ==
  /\ log \in Seq(Entries) /\ other \in Seq(Entries)
  /\ \A i \in 1..Len(log) : log[i].at \in 1..Len(log) + Len(other)
  /\ \A i \in 1..Len(other) : other[i].at \in 1..Len(log) + Len(other)
  /\ \A i, j \in 1..Len(log) : log[i].at = log[j].at => i = j
  /\ \A i, j \in 1..Len(other) : other[i].at = other[j].at => i = j
  /\ \A i \in 1..Len(log), j \in 1..Len(other) : log[i].at # other[j].at

IsCost(e) == e.type = "cost_computed"

PricedOnce(log, prices) ==
  /\ \A i \in 1..Len(log) : IsCost(log[i]) =>
       log[i].session \in DOMAIN prices \cap Sessions /\ log[i].cost = Records!Total(prices[log[i].session])
  /\ \A i, j \in 1..Len(log) :
       IsCost(log[i]) /\ IsCost(log[j]) /\ log[i].session = log[j].session => i = j
  /\ \A x \in DOMAIN prices \cap Sessions : \E i \in 1..Len(log) : IsCost(log[i]) /\ log[i].session = x

RecordsInv ==
  /\ Timed(own, federated) /\ PricedOnce(own, costs)
  /\ \A i \in 1..Len(federated) : ~IsCost(federated[i])
  /\ DOMAIN costs \in SUBSET (Sessions \cup Seeds)
  /\ \A x \in DOMAIN costs : Records!Total(costs[x]) \in Nat
  /\ stages \in [Sessions -> {"running", "saving", "done", "failed"}]
  /\ \A x \in DOMAIN costs \cap Sessions : stages[x] # "running"

LEMMA TimedEitherWay == \A log, other : Timed(log, other) => Timed(other, log)
<1> SUFFICES ASSUME NEW log, NEW other, Timed(log, other) PROVE Timed(other, log)
  OBVIOUS
<1>1. Len(log) \in Nat /\ Len(other) \in Nat /\ Len(log) + Len(other) = Len(other) + Len(log)
  BY DEF Timed
<1> QED BY <1>1 DEF Timed

\* Entries that get the next times.
LEMMA LaterIsTimed ==
  ASSUME NEW log, NEW other, Timed(log, other), NEW new \in Seq(Entries),
         \A k \in 1..Len(new) : new[k].at = Len(log) + Len(other) + k
  PROVE  Timed(log \o new, other)
<1> DEFINE longer == log \o new
           n == Len(log)
           m == Len(other)
<1>1. n \in Nat /\ m \in Nat /\ Len(new) \in Nat
  BY DEF Timed
<1>2. /\ longer \in Seq(Entries) /\ Len(longer) = n + Len(new)
      /\ \A i \in 1..Len(longer) : longer[i] = IF i <= n THEN log[i] ELSE new[i - n]
  BY DEF Timed
<1> HIDE DEF longer
<1>3. \A i \in 1..Len(longer) :
        \/ i \in 1..n /\ longer[i] = log[i] /\ longer[i].at \in 1..n + m
        \/ i > n /\ longer[i].at = m + i
  <2> SUFFICES ASSUME NEW i \in 1..Len(longer)
               PROVE  \/ i \in 1..n /\ longer[i] = log[i] /\ longer[i].at \in 1..n + m
                      \/ i > n /\ longer[i].at = m + i
    OBVIOUS
  <2>1. CASE i <= n
    BY <1>1, <1>2, <2>1 DEF Timed
  <2>2. CASE i > n
    <3>1. i - n \in 1..Len(new) /\ longer[i] = new[i - n]
      BY <1>1, <1>2, <2>2
    <3>2. new[i - n].at = n + m + (i - n)
      BY <3>1
    <3> QED BY <1>1, <2>2, <3>1, <3>2
  <2> QED BY <1>1, <2>1, <2>2
<1>4. \A i \in 1..Len(longer) : longer[i].at \in 1..Len(longer) + m
  BY <1>1, <1>2, <1>3
<1>5. \A i \in 1..m : other[i].at \in 1..n + m /\ other[i].at \in 1..Len(longer) + m
  BY <1>1, <1>2 DEF Timed
<1>6. \A i, j \in 1..Len(longer) : longer[i].at = longer[j].at => i = j
  <2> SUFFICES ASSUME NEW i \in 1..Len(longer), NEW j \in 1..Len(longer), longer[i].at = longer[j].at
               PROVE  i = j
    OBVIOUS
  <2>1. CASE i \in 1..n /\ j \in 1..n
    <3>1. log[i].at = log[j].at
      BY <1>2, <2>1
    <3> QED BY <2>1, <3>1 DEF Timed
  <2>2. CASE ~(i \in 1..n /\ j \in 1..n)
    BY <1>1, <1>3, <2>2
  <2> QED BY <2>1, <2>2
<1>7. \A i \in 1..Len(longer), j \in 1..m : longer[i].at # other[j].at
  <2> SUFFICES ASSUME NEW i \in 1..Len(longer), NEW j \in 1..m PROVE longer[i].at # other[j].at
    OBVIOUS
  <2>1. CASE i \in 1..n
    <3>1. longer[i] = log[i]
      BY <1>2, <2>1
    <3> QED BY <2>1, <3>1 DEF Timed
  <2>2. CASE i \notin 1..n
    BY <1>1, <1>3, <1>5, <2>2
  <2> QED BY <2>1, <2>2
<1> QED BY <1>2, <1>4, <1>5, <1>6, <1>7 DEF Timed, longer

\* The two logs without what a filter drops have dated entries.
LEMMA EntriesAreDated ==
  ASSUME NEW log, NEW other, Timed(log, other)
  PROVE  Dated(Records!Range(log) \cup Records!Range(other))
<1> DEFINE R == Records!Range(log)
           S == Records!Range(other)
<1>1. ASSUME NEW s \in Seq(Entries)
      PROVE  /\ IsFiniteSet(Records!Range(s))
             /\ Records!Range(s) \in SUBSET Entries
             /\ \A e : e \in Records!Range(s) <=> \E i \in 1..Len(s) : e = s[i]
  <2>1. DOMAIN s = 1..Len(s) /\ Len(s) \in Nat
    OBVIOUS
  <2>2. \A e : e \in Records!Range(s) <=> \E i \in 1..Len(s) : e = s[i]
    BY <2>1 DEF Records!Range
  <2>3. s \in Surjection(1..Len(s), Records!Range(s))
    BY <2>1 DEF Records!Range, Surjection
  <2>4. IsFiniteSet(1..Len(s))
    BY <2>1, FS_Interval
  <2>5. IsFiniteSet(Records!Range(s))
    BY <2>3, <2>4, FS_Surjection
  <2> QED BY <2>2, <2>5
<1>2. log \in Seq(Entries) /\ other \in Seq(Entries)
  BY DEF Timed
<1>3. IsFiniteSet(R) /\ IsFiniteSet(S) /\ R \in SUBSET Entries /\ S \in SUBSET Entries
  BY <1>1, <1>2
<1>4. /\ \A e \in R : \E i \in 1..Len(log) : e = log[i]
      /\ \A e \in S : \E i \in 1..Len(other) : e = other[i]
  BY <1>1, <1>2
<1> HIDE DEF R, S
<1>5. IsFiniteSet(R \cup S)
  BY <1>3, FS_Union
<1>6. \A e \in R \cup S : e.at \in Int
  BY <1>3 DEF Entries
<1>7. ASSUME NEW e \in R \cup S, NEW f \in R \cup S, e.at = f.at
      PROVE  e = f
  BY <1>4, <1>7 DEF Timed
<1> QED BY <1>5, <1>6, <1>7 DEF Dated, R, S

\* Fewer entries of those are dated as well.
LEMMA PartIsDated == \A E : Dated(E) => \A P \in SUBSET E : Dated(P)
BY FS_Subset DEF Dated

LEMMA PricesAreNatural ==
  /\ \A f \in Findings : f.amount # NotANumber =>
       Records!Total(Records!Breakdown(f.level, f.amount)) \in Nat
  /\ Records!Total(Records!Breakdown("MEDIUM", 10)) \in Nat
<1>1. ASSUME NEW level \in {"LOW", "MEDIUM", "HIGH", "CRITICAL"}, NEW amount \in Int
      PROVE  Records!Total(Records!Breakdown(level, amount)) \in Nat
  <2> DEFINE percent == Records!RiskPercent[level]
             risk == IF amount <= 0 THEN 0 ELSE (percent * amount) \div 100
  <2>1. percent \in {10, 30, 60, 90}
    BY DEF Records!RiskPercent
  <2>2. risk \in Nat
    <3> HIDE DEF percent
    <3>1. percent * amount \in Int /\ (amount > 0 => percent * amount >= 0)
      BY <2>1
    <3> DEFINE product == percent * amount
    <3> HIDE DEF product
    <3> QED BY <3>1 DEF product
  <2>3. Records!Breakdown(level, amount) = [llm |-> 1, compute |-> 3, opportunity |-> 10, risk |-> risk]
    BY DEF Records!Breakdown, Records!Fixed
  <2> HIDE DEF risk
  <2> QED BY <2>2, <2>3 DEF Records!Total
<1> QED BY <1>1, RecordAssumption

\* The entries of a run that is priced are its own, and the second is its price.
Prices(log, prices, new, s, b) ==
  /\ log \in Seq(Entries) /\ PricedOnce(log, prices)
  /\ new \in Seq(Entries) /\ 2 \in 1..Len(new) /\ \A k \in 1..Len(new) : IsCost(new[k]) <=> k = 2
  /\ s \in Sessions \ DOMAIN prices /\ new[2].session = s /\ new[2].cost = Records!Total(b)

WithPrice(prices, s, b) == [x \in DOMAIN prices \cup {s} |-> IF x = s THEN b ELSE prices[x]]

LEMMA PricingPrices ==
  ASSUME NEW log, NEW prices, NEW new, NEW s, NEW b, Prices(log, prices, new, s, b)
  PROVE  PricedOnce(log \o new, WithPrice(prices, s, b))
<1> DEFINE later == WithPrice(prices, s, b)
<1> USE DEF Prices, WithPrice
<1> DEFINE longer == log \o new
           n == Len(log)
<1>1. /\ n \in Nat /\ Len(new) \in Nat /\ Len(longer) = n + Len(new)
      /\ \A i \in 1..Len(longer) : longer[i] = IF i <= n THEN log[i] ELSE new[i - n]
  OBVIOUS
<1> HIDE DEF longer
<1>2. \A i \in 1..Len(longer) : IsCost(longer[i]) =>
        \/ i \in 1..n /\ longer[i] = log[i] /\ IsCost(log[i])
        \/ i = n + 2 /\ longer[i] = new[2]
  <2> SUFFICES ASSUME NEW i \in 1..Len(longer), IsCost(longer[i])
               PROVE  \/ i \in 1..n /\ longer[i] = log[i] /\ IsCost(log[i])
                      \/ i = n + 2 /\ longer[i] = new[2]
    OBVIOUS
  <2>1. CASE i <= n
    BY <1>1, <2>1
  <2>2. CASE i > n
    <3>1. i - n \in 1..Len(new) /\ longer[i] = new[i - n]
      BY <1>1, <2>2
    <3>2. i - n = 2
      BY <3>1
    <3> QED BY <1>1, <3>1, <3>2
  <2> QED BY <1>1, <2>1, <2>2
<1>3. /\ n + 2 \in 1..Len(longer) /\ longer[n + 2] = new[2] /\ IsCost(longer[n + 2])
      /\ \A i \in 1..n : i \in 1..Len(longer) /\ longer[i] = log[i]
  <2>1. n + 2 \in 1..Len(longer) /\ ~(n + 2 <= n) /\ (n + 2) - n = 2
    BY <1>1
  <2>2. longer[n + 2] = new[2]
    BY <1>1, <2>1
  <2> QED BY <1>1, <2>1, <2>2
<1>4. DOMAIN later = DOMAIN prices \cup {s} /\ later[s] = b /\ \A x \in DOMAIN prices : later[x] = prices[x]
  OBVIOUS
<1>5. \A i \in 1..n : IsCost(log[i]) =>
        log[i].session \in DOMAIN prices \cap Sessions /\ log[i].cost = Records!Total(prices[log[i].session])
  BY DEF PricedOnce
<1>6. ASSUME NEW i \in 1..Len(longer), IsCost(longer[i])
      PROVE  /\ longer[i].session \in DOMAIN later \cap Sessions
             /\ longer[i].cost = Records!Total(later[longer[i].session])
  BY <1>2, <1>4, <1>5, <1>6
<1>7. ASSUME NEW i \in 1..Len(longer), NEW j \in 1..Len(longer), IsCost(longer[i]), IsCost(longer[j]),
             longer[i].session = longer[j].session
      PROVE  i = j
  <2>1. CASE i \in 1..n /\ j \in 1..n
    <3>1. IsCost(log[i]) /\ IsCost(log[j]) /\ log[i].session = log[j].session
      BY <1>3, <1>7, <2>1
    <3> QED BY <2>1, <3>1 DEF PricedOnce
  <2>2. CASE ~(i \in 1..n /\ j \in 1..n)
    BY <1>1, <1>2, <1>5, <1>7, <2>2
  <2> QED BY <2>1, <2>2
<1>8. ASSUME NEW x \in DOMAIN later \cap Sessions
      PROVE  \E i \in 1..Len(longer) : IsCost(longer[i]) /\ longer[i].session = x
  <2>1. CASE x = s
    BY <1>3, <2>1
  <2>2. CASE x # s
    <3>1. x \in DOMAIN prices \cap Sessions
      BY <1>4, <2>2
    <3>2. PICK i \in 1..n : IsCost(log[i]) /\ log[i].session = x
      BY <3>1 DEF PricedOnce
    <3>3. i \in 1..Len(longer) /\ longer[i] = log[i]
      BY <1>3
    <3> QED BY <3>2, <3>3
  <2> QED BY <2>1, <2>2
<1> HIDE DEF later
<1> QED BY <1>6, <1>7, <1>8 DEF PricedOnce, longer, later

\* Other entries are no prices.
LEMMA OthersPriceNothing ==
  ASSUME NEW log \in Seq(Entries), NEW prices, PricedOnce(log, prices),
         NEW e \in Entries, ~IsCost(e)
  PROVE  PricedOnce(Append(log, e), prices)
<1> DEFINE longer == Append(log, e)
           n == Len(log)
<1>1. /\ n \in Nat /\ Len(longer) = n + 1 /\ longer[n + 1] = e
      /\ \A i \in 1..n : longer[i] = log[i]
  OBVIOUS
<1> HIDE DEF longer
<1>2. \A i \in 1..Len(longer) : IsCost(longer[i]) => i \in 1..n /\ longer[i] = log[i]
  BY <1>1
<1>3. \A i \in 1..n : i \in 1..Len(longer) /\ longer[i] = log[i]
  BY <1>1
<1> HIDE DEF n
<1>4. \A i \in 1..Len(longer) : IsCost(longer[i]) =>
        /\ longer[i].session \in DOMAIN prices \cap Sessions
        /\ longer[i].cost = Records!Total(prices[longer[i].session])
  BY <1>2 DEF PricedOnce, n
<1>5. \A i, j \in 1..Len(longer) :
        IsCost(longer[i]) /\ IsCost(longer[j]) /\ longer[i].session = longer[j].session => i = j
  BY <1>2 DEF PricedOnce, n
<1>6. \A x \in DOMAIN prices \cap Sessions :
        \E i \in 1..Len(longer) : IsCost(longer[i]) /\ longer[i].session = x
  BY <1>3 DEF PricedOnce, n
<1> QED BY <1>4, <1>5, <1>6 DEF PricedOnce, longer

LEMMA TwoAndOne == ASSUME NEW a, NEW b, NEW c PROVE <<a, b>> \o <<c>> = <<a, b, c>>
<1> DEFINE S == {a, b, c}
           x == <<a, b>> \o <<c>>
           y == <<a, b, c>>
<1>1. x \in Seq(S) /\ Len(x) = 3 /\ x[1] = a /\ x[2] = b /\ x[3] = c
  OBVIOUS
<1>2. y \in Seq(S) /\ Len(y) = 3 /\ y[1] = a /\ y[2] = b /\ y[3] = c
  OBVIOUS
<1> HIDE DEF S, x, y
<1>3. \A i \in 1..3 : x[i] = y[i]
  <2>1. \A i \in 1..3 : i = 1 \/ i = 2 \/ i = 3
    OBVIOUS
  <2> QED BY <1>1, <1>2, <2>1
<1>4. x = y
  BY <1>1, <1>2, <1>3
<1> QED BY <1>4 DEF x, y

LEMMA PricedRunKeepsRecords ==
  ASSUME RecordsInv, NEW s \in Sessions, NEW f \in Findings, Records!MapPriceResolve(s, f)
  PROVE  RecordsInv'
<1> DEFINE mapped == Records!Entry(Records!Now, "triple_created", f.touched, s, 0)
           b == Records!Breakdown(f.level, f.amount)
           priced == Records!Entry(Records!Now + 1, "cost_computed", {}, s, Records!Total(b))
           tension == Records!Entry(Records!Now + 2, "conflict_detected", f.conflicts, s, 0)
           new == <<mapped, priced>> \o (IF f.conflicts = {} THEN <<>> ELSE <<tension>>)
           now == Len(own) + Len(federated) + 1
<1>1. /\ own \in Seq(Entries) /\ federated \in Seq(Entries) /\ Len(own) \in Nat /\ Len(federated) \in Nat
      /\ Records!Now = now
  BY DEF RecordsInv, Timed, Records!Now
<1>2. /\ mapped \in Entries /\ ~IsCost(mapped) /\ mapped.at = now
      /\ tension \in Entries /\ ~IsCost(tension) /\ tension.at = now + 2
  BY <1>1 DEF Records!Entry, Entries, EventTypes, Touched, IsCost
<1>3. stages[s] = "running" /\ s \notin DOMAIN costs /\ UNCHANGED federated
  BY DEF Records!MapPriceResolve, RecordsInv
<1>4. CASE f.amount = NotANumber
  <2>1. own' = Append(own, mapped) /\ stages' = [stages EXCEPT ![s] = "failed"] /\ UNCHANGED costs
    BY <1>4 DEF Records!MapPriceResolve
  <2> HIDE DEF mapped
  <2>2. PricedOnce(own', costs')
    BY <1>1, <1>2, <2>1, OthersPriceNothing DEF RecordsInv
  <2>3. Timed(own', federated')
    <3> DEFINE one == <<mapped>>
    <3>1. one \in Seq(Entries) /\ \A k \in 1..Len(one) : one[k].at = Len(own) + Len(federated) + k
      BY <1>1, <1>2
    <3>2. own \o one = Append(own, mapped)
      BY <1>1, <1>2
    <3> HIDE DEF one
    <3>3. Timed(own, federated)
      BY DEF RecordsInv
    <3>4. Timed(own \o one, federated)
      BY <3>1, <3>3, LaterIsTimed
    <3>5. own' = own \o one /\ federated' = federated
      BY <1>3, <2>1, <3>2
    <3> QED BY <3>4, <3>5, Zenon
  <2>4. /\ stages' \in [Sessions -> {"running", "saving", "done", "failed"}]
        /\ \A x \in DOMAIN costs \cap Sessions : stages'[x] # "running"
    BY <1>3, <2>1 DEF RecordsInv
  <2> QED BY <1>3, <2>1, <2>2, <2>3, <2>4 DEF RecordsInv
<1>5. CASE f.amount # NotANumber
  <2>1. /\ own' = own \o <<mapped, priced>> \o (IF f.conflicts = {} THEN <<>> ELSE <<tension>>)
        /\ costs' = Records!Priced(s, b) /\ stages' = [stages EXCEPT ![s] = "saving"]
    BY <1>5 DEF Records!MapPriceResolve
  <2>2. Records!Total(b) \in Nat
    BY <1>5, PricesAreNatural
  <2> HIDE DEF b
  <2>3. /\ priced \in Entries /\ IsCost(priced) /\ priced.at = now + 1
        /\ priced.session = s /\ priced.cost = Records!Total(b)
    BY <1>1, <2>2 DEF Records!Entry, Entries, EventTypes, Touched, IsCost
  <2> HIDE DEF mapped, priced, tension
  <2>4. /\ new \in Seq(Entries) /\ 2 \in 1..Len(new) /\ own' = own \o new
        /\ Len(new) \in {2, 3} /\ new[1] = mapped /\ new[2] = priced /\ (Len(new) = 3 => new[3] = tension)
    <3>1. CASE f.conflicts = {}
      <4>1. new = <<mapped, priced>> /\ own' = own \o <<mapped, priced>>
        BY <1>1, <1>2, <2>1, <2>3, <3>1
      <4> HIDE DEF new
      <4> QED BY <1>2, <2>3, <4>1
    <3>2. CASE f.conflicts # {}
      <4>1. new = <<mapped, priced, tension>>
        <5>1. new = <<mapped, priced>> \o <<tension>>
          BY <3>2, Zenon
        <5>2. <<mapped, priced>> \o <<tension>> = <<mapped, priced, tension>>
          BY TwoAndOne
        <5> QED BY <5>1, <5>2, Zenon
      <4>2. own' = own \o <<mapped, priced, tension>>
        BY <1>1, <1>2, <2>1, <2>3, <3>2
      <4> HIDE DEF new
      <4> QED BY <1>2, <2>3, <4>1, <4>2
    <3> QED BY <3>1, <3>2
  <2> HIDE DEF new
  <2>5. \A k \in 1..Len(new) : new[k].at = Len(own) + Len(federated) + k
    <3> SUFFICES ASSUME NEW k \in 1..Len(new) PROVE new[k].at = Len(own) + Len(federated) + k
      OBVIOUS
    <3>1. k = 1 \/ k = 2 \/ (k = 3 /\ Len(new) = 3)
      <4>1. Len(new) = 2 \/ Len(new) = 3
        BY <2>4, Zenon
      <4>2. CASE Len(new) = 2
        <5>1. k \in 1..2
          BY <4>2
        <5> QED BY <5>1
      <4>3. CASE Len(new) = 3
        <5>1. k \in 1..3
          BY <4>3
        <5> QED BY <4>3, <5>1
      <4> QED BY <4>1, <4>2, <4>3
    <3>2. /\ new[1].at = Len(own) + Len(federated) + 1
          /\ new[2].at = Len(own) + Len(federated) + 2
          /\ (Len(new) = 3 => new[3].at = Len(own) + Len(federated) + 3)
      BY <1>1, <1>2, <2>3, <2>4
    <3> QED BY <3>1, <3>2
  <2>6. Timed(own', federated')
    BY <1>3, <2>4, <2>5, LaterIsTimed DEF RecordsInv
  <2>7. \A k \in 1..Len(new) : IsCost(new[k]) <=> k = 2
    <3> SUFFICES ASSUME NEW k \in 1..Len(new) PROVE IsCost(new[k]) <=> k = 2
      OBVIOUS
    <3>1. k = 1 \/ k = 2 \/ (k = 3 /\ Len(new) = 3)
      <4>1. Len(new) = 2 \/ Len(new) = 3
        BY <2>4, Zenon
      <4>2. CASE Len(new) = 2
        <5>1. k \in 1..2
          BY <4>2
        <5> QED BY <5>1
      <4>3. CASE Len(new) = 3
        <5>1. k \in 1..3
          BY <4>3
        <5> QED BY <4>3, <5>1
      <4> QED BY <4>1, <4>2, <4>3
    <3>2. ~IsCost(new[1]) /\ IsCost(new[2]) /\ (Len(new) = 3 => ~IsCost(new[3]))
      BY <1>2, <2>3, <2>4
    <3> QED BY <3>1, <3>2
  <2>8. costs' = [x \in DOMAIN costs \cup {s} |-> IF x = s THEN b ELSE costs[x]]
    BY <2>1 DEF Records!Priced
  <2>9. PricedOnce(own', costs')
    <3>1. new[2].session = s /\ new[2].cost = Records!Total(b)
      BY <2>3, <2>4
    <3>2. PricedOnce(own, costs)
      BY DEF RecordsInv
    <3>3. Prices(own, costs, new, s, b)
      BY <1>1, <1>3, <2>4, <2>7, <3>1, <3>2 DEF Prices
    <3>4. PricedOnce(own \o new, WithPrice(costs, s, b))
      BY <3>3, PricingPrices
    <3>5. own' = own \o new /\ costs' = WithPrice(costs, s, b)
      BY <2>4, <2>8 DEF WithPrice
    <3> QED BY <3>4, <3>5, Zenon
  <2>10. DOMAIN costs' = DOMAIN costs \cup {s} /\ costs'[s] = b /\ \A x \in DOMAIN costs : x # s => costs'[x] = costs[x]
    BY <2>8
  <2>11. /\ DOMAIN costs' \in SUBSET (Sessions \cup Seeds)
         /\ \A x \in DOMAIN costs' : Records!Total(costs'[x]) \in Nat
    BY <2>2, <2>10 DEF RecordsInv
  <2>12. /\ stages' \in [Sessions -> {"running", "saving", "done", "failed"}]
         /\ \A x \in DOMAIN costs' \cap Sessions : stages'[x] # "running"
    BY <2>1, <2>10 DEF RecordsInv
  <2> QED BY <1>3, <2>6, <2>9, <2>11, <2>12 DEF RecordsInv
<1> QED BY <1>4, <1>5

LEMMA RecordsInvHolds == ServicesSpec => []RecordsInv
<1>1. ASSUME ServicesInit PROVE RecordsInv
  <2>1. own = <<>> /\ federated = <<>> /\ costs = <<>> /\ stages = [s \in Sessions |-> "running"]
    BY <1>1 DEF ServicesInit, Records!Init
  <2> QED BY <2>1 DEF RecordsInv, Timed, PricedOnce
<1>2. ASSUME RecordsInv, [ServicesNext]_servicesVars
      PROVE  RecordsInv'
  <2>1. Records!Next \/ UNCHANGED recordVars
    BY <1>2 DEF ServicesNext, BreakerStep, LimiterStep, DriftStep, SimulationStep, ReflectorStep, RecordStep,
                OthersRest, Rests, servicesVars
  <2>2. ASSUME NEW s \in Sessions, NEW f \in Findings, Records!MapPriceResolve(s, f)
        PROVE  RecordsInv'
    BY <1>2, <2>2, PricedRunKeepsRecords
  <2>3. ASSUME NEW s \in Sessions, Records!SaveTriples(s)
        PROVE  RecordsInv'
    <3>1. stages' = [stages EXCEPT ![s] = "done"] /\ UNCHANGED <<own, federated, costs>>
      BY <2>3 DEF Records!SaveTriples
    <3> QED BY <1>2, <3>1 DEF RecordsInv
  <2>4. ASSUME NEW type \in {"policy_extracted", "conflict_detected"}, NEW d \in PolicyDomains,
               Records!PolicyEvent(type, {d})
        PROVE  RecordsInv'
    <3> DEFINE e == Records!Entry(Records!Now, type, {d}, "none", 0)
               now == Len(own) + Len(federated) + 1
    <3>1. federated' = Append(federated, e) /\ UNCHANGED <<stages, own, costs>>
      BY <2>4 DEF Records!PolicyEvent
    <3>2. /\ own \in Seq(Entries) /\ federated \in Seq(Entries)
          /\ Len(own) \in Nat /\ Len(federated) \in Nat /\ Records!Now = now
      BY <1>2 DEF RecordsInv, Timed, Records!Now
    <3>3. e \in Entries /\ ~IsCost(e) /\ e.at = now
      BY <3>2 DEF Records!Entry, Entries, EventTypes, Touched, IsCost
    <3> HIDE DEF e
    <3> DEFINE one == <<e>>
    <3>4. one \in Seq(Entries) /\ \A k \in 1..Len(one) : one[k].at = Len(federated) + Len(own) + k
      BY <3>2, <3>3
    <3>5. federated \o one = Append(federated, e)
      BY <3>2, <3>3
    <3> HIDE DEF one
    <3>6. Timed(federated, own)
      BY <1>2, TimedEitherWay DEF RecordsInv
    <3>7. Timed(federated \o one, own)
      BY <3>4, <3>6, LaterIsTimed
    <3>8. Timed(own', federated')
      BY <3>1, <3>5, <3>7, TimedEitherWay
    <3>9. \A i \in 1..Len(federated') : ~IsCost(federated'[i])
      BY <1>2, <3>1, <3>2, <3>3 DEF RecordsInv
    <3> QED BY <1>2, <3>1, <3>8, <3>9 DEF RecordsInv
  <2>5. ASSUME NEW s \in Seeds, Records!Seed(s)
        PROVE  RecordsInv'
    <3> DEFINE b == Records!Breakdown("MEDIUM", 10)
    <3>1. /\ s \notin DOMAIN costs /\ UNCHANGED <<stages, own, federated>>
          /\ costs' = [x \in DOMAIN costs \cup {s} |-> IF x = s THEN b ELSE costs[x]]
      BY <2>5 DEF Records!Seed, Records!Priced
    <3>2. Records!Total(b) \in Nat /\ s \notin Sessions
      BY PricesAreNatural, RecordAssumption
    <3> HIDE DEF b
    <3>3. /\ DOMAIN costs' = DOMAIN costs \cup {s} /\ costs'[s] = b
          /\ \A x \in DOMAIN costs : costs'[x] = costs[x]
      BY <3>1
    <3>4. DOMAIN costs' \cap Sessions = DOMAIN costs \cap Sessions
      BY <3>2, <3>3
    <3>5. PricedOnce(own', costs')
      BY <1>2, <3>1, <3>3, <3>4 DEF RecordsInv, PricedOnce
    <3> QED BY <1>2, <3>1, <3>2, <3>3, <3>4, <3>5 DEF RecordsInv
  <2>6. CASE UNCHANGED recordVars
    BY <1>2, <2>6 DEF recordVars, RecordsInv
  <2> QED BY <2>1, <2>2, <2>3, <2>4, <2>5, <2>6 DEF Records!Next
<1> QED BY <1>1, <1>2, PTL DEF ServicesSpec

\* A timeline of both logs, of which one is cut to the limit before they are merged:
\* what the cut drops is older than all that the timeline shows.
LEMMA TimelineIsNewest ==
  ASSUME RecordsInv, NEW domain, NEW type
  PROVE  LET shown == Records!Timeline(TimelineLimit, domain, type)
             all == {e \in Records!Range(own) \cup Records!Range(federated) :
                       Records!Matches(e, domain, type)}
         IN  /\ shown \in Seq(all) /\ DOMAIN shown = 1..Len(shown)
             /\ \A e \in all : \/ e \in Records!Range(shown)
                               \/ Len(shown) = TimelineLimit /\ \A i \in DOMAIN shown : shown[i].at > e.at
             /\ \A i \in 1..Len(shown) - 1 : shown[i].at > shown[i + 1].at
<1> DEFINE L == TimelineLimit
           F == {e \in Records!Range(federated) : Records!Matches(e, domain, type)}
           cut == Records!Newest(F, L)
           C == {e \in Records!Range(own) \cup Records!Range(cut) : Records!Matches(e, domain, type)}
           shown == Records!Newest(C, L)
           both == Records!Range(own) \cup Records!Range(federated)
           all == {e \in both : Records!Matches(e, domain, type)}
<1>1. L \in Nat
  BY RecordAssumption
<1>2. shown = Records!Timeline(TimelineLimit, domain, type)
  BY Zenon DEF Records!Timeline, Records!FederatedLog
<1>3. Dated(both)
  BY EntriesAreDated DEF RecordsInv
<1>4. F \in SUBSET both /\ all \in SUBSET both /\ F \in SUBSET all
  OBVIOUS
<1>5. Dated(F) /\ Dated(all)
  <2> HIDE DEF F, both, all
  <2> QED BY <1>3, <1>4, PartIsDated
<1>6. Shows(cut, F, L)
  <2> HIDE DEF F, L
  <2> QED BY <1>1, <1>5, NewestShows
<1>7. /\ Records!Range(cut) \in SUBSET F /\ Cardinality(Records!Range(cut)) = Len(cut)
      /\ Records!Range(cut) = {cut[i] : i \in 1..Len(cut)}
  <2> HIDE DEF F, L, cut
  <2> QED BY <1>1, <1>5, <1>6, ShownAreCounted
<1>8. C \in SUBSET all
  BY <1>4, <1>7
<1>9. Dated(C)
  <2> HIDE DEF C, all
  <2> QED BY <1>5, <1>8, PartIsDated
<1>10. Shows(shown, C, L)
  <2> HIDE DEF C, L
  <2> QED BY <1>1, <1>9, NewestShows
<1>11. /\ Records!Range(shown) = {shown[i] : i \in 1..Len(shown)}
       /\ shown \in Seq(C) /\ DOMAIN shown = 1..Len(shown)
  <2> HIDE DEF C, L, shown
  <2> QED BY <1>1, <1>9, <1>10, ShownAreCounted DEF Shows
<1>12. \A e \in all : e \in C \/ (e \in F /\ e \notin Records!Range(cut))
  OBVIOUS
<1>13. Records!Range(cut) \in SUBSET C
  BY <1>7
<1> HIDE DEF L, F, cut, C, shown, both, all
<1>14. shown \in Seq(all)
  BY <1>8, <1>11
<1>15. ASSUME NEW e \in all, e \notin Records!Range(shown)
       PROVE  Len(shown) = L /\ \A i \in 1..Len(shown) : shown[i].at > e.at
  <2>1. CASE e \in C
    BY <1>10, <1>11, <1>15, <2>1 DEF Shows
  <2>2. CASE e \in F /\ e \notin Records!Range(cut)
    <3>1. Len(cut) = L /\ \A i \in 1..Len(cut) : cut[i].at > e.at
      BY <1>6, <1>7, <2>2 DEF Shows
    <3>2. \A f \in Records!Range(cut) : f.at > e.at
      BY <1>7, <3>1
    <3>3. e.at \in Int
      BY <1>5 DEF Dated
    <3> DEFINE x == e.at
               N == Records!Range(cut)
    <3>4. N \in SUBSET C /\ Cardinality(N) = L /\ x \in Int /\ \A f \in N : f.at > x
      BY <1>7, <1>13, <3>1, <3>2, <3>3
    <3> HIDE DEF x, N
    <3>5. Len(shown) = L /\ \A i \in 1..Len(shown) : shown[i].at > x
      BY <1>1, <1>9, <1>10, <3>4, CrowdedOut
    <3> QED BY <3>5 DEF x
  <2> QED BY <1>12, <2>1, <2>2
<1>16. \A i \in 1..Len(shown) - 1 : shown[i].at > shown[i + 1].at
  <2> DEFINE n == Len(shown)
  <2>1. n \in Nat
    BY <1>11
  <2> HIDE DEF n
  <2>2. \A i \in 1..n - 1 : i \in 1..n /\ i + 1 \in 1..n /\ i < i + 1
    BY <2>1
  <2>3. \A i, j \in 1..Len(shown) : i < j => shown[i].at > shown[j].at
    BY <1>10 DEF Shows
  <2> QED BY <2>2, <2>3 DEF n
<1>17. shown \in Seq(all) /\ DOMAIN shown = 1..Len(shown)
  BY <1>11, <1>14
<1>18. \A e \in all : \/ e \in Records!Range(shown)
                      \/ Len(shown) = L /\ \A i \in DOMAIN shown : shown[i].at > e.at
  BY <1>15, <1>17
<1> QED BY <1>2, <1>16, <1>17, <1>18, Zenon DEF L, both, all

LEMMA OwnEntries ==
  ASSUME RecordsInv
  PROVE  /\ own \in Seq(Entries) /\ DOMAIN own = 1..Len(own) /\ Len(own) \in Nat
         /\ Records!Range(own) = {own[i] : i \in 1..Len(own)}
         /\ IsFiniteSet(Records!Range(own)) /\ Cardinality(Records!Range(own)) <= Len(own)
<1>1. own \in Seq(Entries) /\ DOMAIN own = 1..Len(own) /\ Len(own) \in Nat
  BY DEF RecordsInv, Timed
<1>2. Records!Range(own) = {own[i] : i \in 1..Len(own)}
  BY <1>1 DEF Records!Range
<1> DEFINE R == {own[i] : i \in 1..Len(own)}
<1>3. own \in Surjection(1..Len(own), R)
  BY <1>1 DEF Surjection
<1>4. IsFiniteSet(1..Len(own))
  BY <1>1, FS_Interval
<1> HIDE DEF R
<1>5. ExistsSurjection(1..Len(own), R)
  BY <1>3 DEF ExistsSurjection
<1>6. IsFiniteSet(R) /\ Cardinality(R) <= Len(own)
  BY <1>1, <1>3, <1>4, <1>5, FS_Surjection, FS_SurjCardinalityBound
<1> QED BY <1>1, <1>2, <1>6 DEF R

\* The timeline of prices, when it is long enough, lists each of them once.
LEMMA AllPricesAreShown ==
  ASSUME RecordsInv
  PROVE  LET priced == Records!Timeline(Len(own), "", "cost_computed")
             C == {e \in Records!Range(own) : IsCost(e)}
         IN  /\ priced \in Bijection(1..Len(priced), C)
             /\ DOMAIN priced = 1..Len(priced) /\ Len(priced) \in Nat
<1> DEFINE L == Len(own)
           F == {e \in Records!Range(federated) : Records!Matches(e, "", "cost_computed")}
           cut == Records!Newest(F, L)
           M == {e \in Records!Range(own) \cup Records!Range(cut) : Records!Matches(e, "", "cost_computed")}
           C == {e \in Records!Range(own) : IsCost(e)}
           priced == Records!Newest(M, L)
           both == Records!Range(own) \cup Records!Range(federated)
<1>1. priced = Records!Timeline(Len(own), "", "cost_computed")
  BY Zenon DEF Records!Timeline, Records!FederatedLog
<1>2. \A e : Records!Matches(e, "", "cost_computed") <=> IsCost(e)
  BY DEF Records!Matches, IsCost
<1>3. F = {}
  <2>1. \A e \in Records!Range(federated) : ~IsCost(e)
    BY DEF RecordsInv, Timed, Records!Range
  <2> QED BY <1>2, <2>1
<1>4. L \in Nat
  BY OwnEntries
<1>5. Records!Range(cut) = {}
  <2>1. Dated({})
    BY FS_EmptySet DEF Dated
  <2>2. Shows(cut, {}, L)
    <3> HIDE DEF L
    <3> QED BY <1>3, <1>4, <2>1, NewestShows
  <2>3. Records!Range(cut) \in SUBSET {}
    <3> HIDE DEF L, cut
    <3> QED BY <1>4, <2>1, <2>2, ShownAreCounted
  <2> QED BY <2>3
<1>6. M = C
  <2> HIDE DEF cut
  <2> QED BY <1>2, <1>5
<1>7. Dated(C)
  <2>1. Dated(both)
    BY EntriesAreDated DEF RecordsInv
  <2>2. C \in SUBSET both
    OBVIOUS
  <2> HIDE DEF C, both
  <2> QED BY <2>1, <2>2, PartIsDated
<1>8. Cardinality(C) \in Nat /\ Cardinality(C) <= L
  <2>1. C \in SUBSET Records!Range(own)
    OBVIOUS
  <2>2. /\ IsFiniteSet(Records!Range(own)) /\ Cardinality(Records!Range(own)) <= L
        /\ Cardinality(Records!Range(own)) \in Nat
    BY OwnEntries, FS_CardinalityType
  <2> HIDE DEF C, L
  <2>3. IsFiniteSet(C) /\ Cardinality(C) <= Cardinality(Records!Range(own))
    BY <2>1, <2>2, FS_Subset
  <2>4. Cardinality(C) \in Nat
    BY <2>3, FS_CardinalityType
  <2> QED BY <1>4, <2>2, <2>3, <2>4
<1>9. Shows(priced, C, L)
  <2> HIDE DEF C, L, M
  <2> QED BY <1>4, <1>6, <1>7, NewestShows
<1> HIDE DEF C, L, M, priced
<1>10. Len(priced) = Cardinality(C)
  BY <1>4, <1>8, <1>9 DEF Shows
<1>11. /\ Records!Range(priced) \in SUBSET C /\ Cardinality(Records!Range(priced)) = Len(priced)
       /\ Records!Range(priced) = {priced[i] : i \in 1..Len(priced)}
  BY <1>4, <1>7, <1>9, ShownAreCounted
<1>12. Records!Range(priced) = C
  BY <1>7, <1>10, <1>11, FS_Subset DEF Dated
<1>13. priced \in Bijection(1..Len(priced), C)
  <2>1. priced \in [1..Len(priced) -> C] /\ DOMAIN priced = 1..Len(priced)
    BY <1>9 DEF Shows
  <2>2. \A i, j \in 1..Len(priced) : priced[i] = priced[j] => i = j
    BY <1>9 DEF Shows
  <2>3. \A e \in C : \E i \in 1..Len(priced) : priced[i] = e
    BY <1>11, <1>12
  <2> QED BY <2>1, <2>2, <2>3 DEF Bijection, Injection, Surjection, IsInjective
<1>14. DOMAIN priced = 1..Len(priced) /\ Len(priced) \in Nat
  BY <1>8, <1>9, <1>10 DEF Shows
<1> QED BY <1>1, <1>13, <1>14, Zenon DEF C

\* The aggregate is what the shown prices add up to, and what was seeded.
LEMMA PricesAddUp ==
  ASSUME RecordsInv
  PROVE  LET priced == Records!Timeline(Len(own), "", "cost_computed")
             sum == Records!Sum([i \in DOMAIN priced |-> priced[i].cost])
             seeded == Records!Aggregate(DOMAIN costs \cap Seeds)
         IN  Records!Aggregate({}).total = sum + (IF DOMAIN costs \cap Seeds = {} THEN 0 ELSE seeded.total)
<1> DEFINE priced == Records!Timeline(Len(own), "", "cost_computed")
           m == Len(priced)
           C == {e \in Records!Range(own) : IsCost(e)}
           f == [i \in DOMAIN priced |-> priced[i].cost]
           S == DOMAIN costs \cap Sessions
           T == DOMAIN costs \cap Seeds
           price == [x \in DOMAIN costs |-> Records!Total(costs[x])]
           ofRuns == [x \in S |-> Records!Total(costs[x])]
           ofSeeds == [x \in T |-> Records!Total(costs[x])]
           b == [i \in 1..m |-> priced[i].session]
<1>1. priced \in Bijection(1..m, C) /\ DOMAIN priced = 1..m /\ m \in Nat
  BY AllPricesAreShown, Zenon
<1> HIDE DEF priced
<1>2. /\ priced \in [1..m -> C] /\ \A i, j \in 1..m : priced[i] = priced[j] => i = j
      /\ \A e \in C : \E i \in 1..m : priced[i] = e
  <2>1. priced \in [1..m -> C] /\ IsInjective(priced)
    BY <1>1 DEF Bijection, Injection
  <2>2. \A e \in C : \E i \in 1..m : priced[i] = e
    BY <1>1 DEF Bijection, Surjection
  <2> HIDE DEF m, C
  <2>3. \A i, j \in 1..m : priced[i] = priced[j] => i = j
    BY <1>1, <2>1 DEF IsInjective
  <2> QED BY <2>1, <2>2, <2>3
<1>3. \A e \in C : /\ \E i \in 1..Len(own) : own[i] = e /\ IsCost(own[i])
                   /\ e.session \in S /\ e.cost = Records!Total(costs[e.session])
  BY OwnEntries DEF RecordsInv, PricedOnce
<1>4. \A e, d \in C : e.session = d.session => e = d
  BY <1>3 DEF RecordsInv, PricedOnce
<1>5. \A x \in S : \E e \in C : e.session = x
  <2> SUFFICES ASSUME NEW x \in S PROVE \E e \in C : e.session = x
    OBVIOUS
  <2>1. PICK i \in 1..Len(own) : IsCost(own[i]) /\ own[i].session = x
    BY DEF RecordsInv, PricedOnce
  <2>2. own[i] \in C
    BY <2>1, OwnEntries
  <2> QED BY <2>1, <2>2
<1> HIDE DEF m, C
<1>6. Naturals(price)
  <2>1. DOMAIN costs \in SUBSET (Sessions \cup Seeds) /\ IsFiniteSet(Sessions \cup Seeds)
    BY RecordAssumption, FS_Union DEF RecordsInv
  <2>2. IsFiniteSet(DOMAIN costs)
    BY <2>1, FS_Subset
  <2> QED BY <2>2 DEF Naturals, RecordsInv
<1>7. Records!Sum(price) = Records!Sum(ofRuns) + Records!Sum(ofSeeds)
  <2>1. DOMAIN price = S \cup T /\ S \cap T = {}
    BY RecordAssumption DEF RecordsInv
  <2>2. ofRuns = [x \in S |-> price[x]] /\ ofSeeds = [x \in T |-> price[x]]
    OBVIOUS
  <2> HIDE DEF price, S, T, ofRuns, ofSeeds
  <2>3. Records!Sum(price) = Records!Sum([x \in S |-> price[x]]) + Records!Sum([x \in T |-> price[x]])
    BY <1>6, <2>1, SumOfParts
  <2> QED BY <2>2, <2>3, Zenon
<1>8. Records!Sum(f) = Records!Sum(ofRuns)
  <2>1. DOMAIN f = 1..m /\ DOMAIN ofRuns = S
    BY <1>1
  <2>2. Naturals(f)
    <3>1. IsFiniteSet(1..m)
      BY <1>1, FS_Interval
    <3>2. \A i \in 1..m : f[i] \in Nat
      BY <1>1, <1>2, <1>3 DEF RecordsInv
    <3> HIDE DEF f
    <3> QED BY <2>1, <3>1, <3>2 DEF Naturals
  <2>3. b \in [1..m -> S]
    BY <1>2, <1>3
  <2>4. \A i, j \in 1..m : b[i] = b[j] => i = j
    BY <1>2, <1>4
  <2>5. \A x \in S : \E i \in 1..m : b[i] = x
    <3> SUFFICES ASSUME NEW x \in S PROVE \E i \in 1..m : b[i] = x
      OBVIOUS
    <3>1. PICK e \in C : e.session = x
      BY <1>5
    <3>2. PICK i \in 1..m : priced[i] = e
      BY <1>2
    <3> QED BY <3>1, <3>2
  <2>6. \A i \in 1..m : ofRuns[b[i]] = f[i]
    BY <1>1, <1>2, <1>3
  <2> HIDE DEF b, f, S, ofRuns
  <2>7. b \in Bijection(DOMAIN f, DOMAIN ofRuns)
    BY <2>1, <2>3, <2>4, <2>5 DEF Bijection, Injection, Surjection, IsInjective
  <2>8. \A i \in DOMAIN f : ofRuns[b[i]] = f[i]
    BY <2>1, <2>6
  <2> QED BY <2>2, <2>7, <2>8, SumOverBijection
<1>9. Records!Aggregate({}).total = Records!Sum(price)
  BY DEF Records!Aggregate
<1>10. IF T = {} THEN Records!Sum(ofSeeds) = 0 ELSE Records!Aggregate(T).total = Records!Sum(ofSeeds)
  <2>1. CASE T = {}
    <3>1. Naturals(ofSeeds) /\ DOMAIN ofSeeds = {}
      BY <2>1, FS_EmptySet DEF Naturals
    <3> HIDE DEF ofSeeds
    <3>2. Copies(ofSeeds, {}) = {}
      BY DEF Copies
    <3>3. Records!Sum(ofSeeds) = Cardinality(Copies(ofSeeds, DOMAIN ofSeeds))
      BY <3>1, SumCounts
    <3> QED BY <2>1, <3>1, <3>2, <3>3, FS_EmptySet
  <2>2. CASE T # {}
    <3>1. T \cap DOMAIN costs = T
      OBVIOUS
    <3> HIDE DEF T
    <3> QED BY <2>2, <3>1 DEF Records!Aggregate
  <2> QED BY <2>1, <2>2
<1>11. Records!Sum(ofRuns) \in Nat
  <2>1. Naturals(ofRuns)
    <3>1. IsFiniteSet(S)
      BY <1>6, FS_Subset DEF Naturals
    <3> QED BY <3>1 DEF Naturals, RecordsInv
  <2> HIDE DEF ofRuns
  <2> QED BY <2>1, SumCounts
<1> DEFINE seeds == IF T = {} THEN 0 ELSE Records!Aggregate(T).total
<1>12. Records!Sum(ofSeeds) = seeds
  BY <1>10, Zenon
<1>13. Records!Aggregate({}).total = Records!Sum(f) + seeds
  <2> HIDE DEF f, ofRuns, ofSeeds, price, seeds
  <2> QED BY <1>7, <1>8, <1>9, <1>12
<1> QED BY <1>13, Zenon DEF priced

\* DashboardAgrees: whichever runs failed where, and however the two logs interleave,
\* a timeline shows the newest matching entries of both in order, and the aggregate
\* cost is the sum of the cost entries and of what was seeded.
THEOREM DashboardIsRight == ServicesSpec => []DashboardAgrees
<1>1. ASSUME RecordsInv PROVE Records!DashboardAgrees
  <2>1. ASSUME NEW domain \in PolicyDomains \cup {""},
               NEW type \in {"", "cost_computed", "conflict_detected"}
        PROVE  LET shown == Records!Timeline(TimelineLimit, domain, type)
                   all == {e \in Records!Range(own) \cup Records!Range(federated) :
                             Records!Matches(e, domain, type)}
               IN  /\ \A e \in all : e \in Records!Range(shown) \/
                        (Len(shown) = TimelineLimit /\ \A i \in DOMAIN shown : shown[i].at > e.at)
                   /\ \A i \in 1..Len(shown) - 1 : shown[i].at > shown[i + 1].at
    <3> DEFINE shown == Records!Timeline(TimelineLimit, domain, type)
               all == {e \in Records!Range(own) \cup Records!Range(federated) :
                         Records!Matches(e, domain, type)}
    <3>1. /\ shown \in Seq(all) /\ DOMAIN shown = 1..Len(shown)
          /\ \A e \in all : \/ e \in Records!Range(shown)
                            \/ Len(shown) = TimelineLimit /\ \A i \in DOMAIN shown : shown[i].at > e.at
          /\ \A i \in 1..Len(shown) - 1 : shown[i].at > shown[i + 1].at
      BY <1>1, TimelineIsNewest, Zenon
    <3> HIDE DEF shown, all
    <3> QED BY <3>1, Zenon DEF shown, all
  <2>2. LET priced == Records!Timeline(Len(own), "", "cost_computed")
            sum == Records!Sum([i \in DOMAIN priced |-> priced[i].cost])
            seeded == Records!Aggregate(DOMAIN costs \cap Seeds)
        IN  Records!Aggregate({}).total = sum + (IF DOMAIN costs \cap Seeds = {} THEN 0 ELSE seeded.total)
    BY <1>1, PricesAddUp, Zenon
  <2> QED BY <2>1, <2>2, Zenon DEF Records!DashboardAgrees
<1>2. RecordsInv => DashboardAgrees
  BY <1>1 DEF DashboardAgrees
<1> QED BY <1>2, RecordsInvHolds, PTL

-----------------------------------------------------------------------------
(* Counting and recursion.  Inclusion among the initial intervals is well   *)
(* founded, which is all the induction there is.                            *)

\* A set of numbers that holds 0 and, with each, the next one holds them all.
LEMMA Counting ==
  ASSUME NEW T, 0 \in T, \A n \in Nat : n \in T => n + 1 \in T
  PROVE  Nat \subseteq T
<1> SUFFICES ASSUME NEW k \in Nat, k \notin T PROVE FALSE
  OBVIOUS
<1> DEFINE missing == Nat \ T
           upTo(n) == 1..n
           intervals == {upTo(n) : n \in missing}
<1>1. intervals # {} /\ intervals \subseteq FiniteSubsetsOf(Nat)
  <2>1. \A n \in missing : IsFiniteSet(upTo(n)) /\ upTo(n) \subseteq Nat
    BY FS_Interval
  <2> QED
    BY <2>1, Zenon DEF FiniteSubsetsOf
<1>2. PICK I \in intervals : \A J \in intervals : <<J, I>> \notin StrictSubsetOrdering(Nat)
  BY <1>1, FS_StrictSubsetOrderingWellFounded, WFMin, Zenon
<1>3. PICK n \in missing : I = upTo(n)
  OBVIOUS
<1>4. n \in Nat /\ n - 1 \in Nat /\ n - 1 + 1 = n
  OBVIOUS
<1>5. n - 1 \in missing
  BY <1>4
<1>6. upTo(n - 1) \in intervals /\ upTo(n - 1) \subseteq upTo(n) /\ n \in upTo(n) \ upTo(n - 1)
  BY <1>4, <1>5
<1>7. <<upTo(n - 1), I>> \in StrictSubsetOrdering(Nat)
  BY <1>3, <1>6 DEF StrictSubsetOrdering
<1> QED
  BY <1>2, <1>6, <1>7

Walks(w, S, a, step, n) ==
  w \in [0..n -> S] /\ w[0] = a /\ \A i \in 1..n : w[i] = step[<<i, w[i - 1]>>]

LEMMA OneStepMore ==
  ASSUME NEW S, NEW a \in S, NEW n \in Nat, NEW step \in [(1..n) \X S -> S],
         NEW m \in Nat, m + 1 <= n, NEW g, Walks(g, S, a, step, m)
  PROVE  \E w : Walks(w, S, a, step, m + 1)
<1> DEFINE next == step[<<m + 1, g[m]>>]
           h == [i \in 0..m + 1 |-> IF i <= m THEN g[i] ELSE next]
<1>1. g \in [0..m -> S] /\ g[0] = a /\ \A i \in 1..m : g[i] = step[<<i, g[i - 1]>>]
  BY DEF Walks
<1>2. next \in S
  <2>1. g[m] \in S /\ m + 1 \in 1..n
    BY <1>1
  <2>2. <<m + 1, g[m]>> \in (1..n) \X S
    BY <2>1
  <2> QED BY <2>2
<1>3. next = step[<<m + 1, g[m]>>]
  OBVIOUS
<1> HIDE DEF next
<1>4. h \in [0..m + 1 -> S] /\ h[0] = a /\ h[m] = g[m] /\ h[m + 1] = next
  BY <1>1, <1>2
<1>5. \A i \in 1..m : h[i] = g[i] /\ h[i - 1] = g[i - 1]
  OBVIOUS
<1> HIDE DEF h
<1>6. ASSUME NEW i \in 1..m + 1 PROVE h[i] = step[<<i, h[i - 1]>>]
  <2>1. CASE i \in 1..m
    <3>1. g[i] = step[<<i, g[i - 1]>>] /\ h[i] = g[i] /\ h[i - 1] = g[i - 1]
      BY <1>1, <1>5, <2>1
    <3> QED BY <3>1, Zenon
  <2>2. CASE i = m + 1
    <3>1. i - 1 = m
      BY <2>2
    <3> QED BY <1>3, <1>4, <2>2, <3>1, Zenon
  <2>3. i \in 1..m \/ i = m + 1
    OBVIOUS
  <2> QED BY <2>1, <2>2, <2>3
<1>7. Walks(h, S, a, step, m + 1)
  BY <1>4, <1>6 DEF Walks
<1> QED BY <1>7

\* A walk of n steps inside a set exists.
LEMMA Recursion ==
  ASSUME NEW S, NEW a \in S, NEW n \in Nat, NEW step \in [(1..n) \X S -> S]
  PROVE  \E w : Walks(w, S, a, step, n)
<1> DEFINE T == {m \in Nat : m <= n => \E w : Walks(w, S, a, step, m)}
<1>1. 0 \in T
  <2>1. Walks([i \in 0..0 |-> a], S, a, step, 0)
    BY DEF Walks
  <2> QED BY <2>1
<1>2. ASSUME NEW m \in Nat, m \in T PROVE m + 1 \in T
  <2>1. ASSUME m + 1 <= n PROVE \E w : Walks(w, S, a, step, m + 1)
    <3>1. m <= n
      BY <2>1
    <3>2. \E g : Walks(g, S, a, step, m)
      BY <1>2, <3>1
    <3> HIDE DEF T
    <3> QED BY <2>1, <3>2, OneStepMore
  <2> QED BY <2>1
<1>3. \A m \in Nat : m \in T => m + 1 \in T
  BY <1>2
<1> HIDE DEF T
<1>4. Nat \subseteq T
  BY <1>1, <1>3, Counting
<1> QED BY <1>4 DEF T

LEMMA UpTo ==
  ASSUME NEW n \in Nat, NEW T, 0 \in T, \A i \in 1..n : i - 1 \in T => i \in T
  PROVE  \A i \in 0..n : i \in T
<1> DEFINE U == {i \in Nat : i <= n => i \in T}
<1>1. 0 \in U
  OBVIOUS
<1>2. ASSUME NEW i \in Nat, i \in U PROVE i + 1 \in U
  <2> SUFFICES ASSUME i + 1 <= n PROVE i + 1 \in T
    OBVIOUS
  <2>1. i + 1 \in 1..n /\ i + 1 - 1 = i /\ i \in T
    BY <1>2
  <2> QED BY <2>1
<1>3. Nat \subseteq U
  <2> HIDE DEF U
  <2> QED BY <1>1, <1>2, Counting
<1> QED BY <1>3

-----------------------------------------------------------------------------
(* The reflector's accounts *)

Keeps(kept, list, T) ==
  kept = [i \in 0..Len(list) |->
            IF i = 0 THEN <<>>
            ELSE IF list[i] \in T THEN Append(kept[i - 1], list[i]) ELSE kept[i - 1]]

LEMMA ThoseAreKept ==
  ASSUME NEW M, NEW list \in Seq(M), NEW T
  PROVE  \E kept : Keeps(kept, list, T)
<1> DEFINE n == Len(list)
           S == Seq(M)
           next(i, s) == IF list[i] \in T THEN Append(s, list[i]) ELSE s
           step == [p \in (1..n) \X S |-> next(p[1], p[2])]
<1>1. n \in Nat /\ <<>> \in S /\ step \in [(1..n) \X S -> S]
  OBVIOUS
<1>2. PICK w : Walks(w, S, <<>>, step, n)
  <2> HIDE DEF S, step, n
  <2> QED BY <1>1, Recursion
<1>3. w \in [0..n -> S] /\ w[0] = <<>> /\ \A i \in 1..n : w[i] = step[<<i, w[i - 1]>>]
  BY <1>2, Zenon DEF Walks
<1>4. \A i \in 1..n : w[i] = next(i, w[i - 1])
  <2> SUFFICES ASSUME NEW i \in 1..n PROVE w[i] = next(i, w[i - 1])
    OBVIOUS
  <2> HIDE DEF n, S, next
  <2>1. <<i, w[i - 1]>> \in (1..n) \X S
    BY <1>1, <1>3
  <2>2. step[<<i, w[i - 1]>>] = next(i, w[i - 1])
    BY <2>1
  <2> HIDE DEF step
  <2> QED BY <1>3, <2>2
<1>5. w = [i \in 0..n |-> IF i = 0 THEN <<>> ELSE next(i, w[i - 1])]
  <2> HIDE DEF n, S, next, step
  <2>1. \A i \in 0..n : w[i] = IF i = 0 THEN <<>> ELSE next(i, w[i - 1])
    BY <1>1, <1>3, <1>4
  <2> QED BY <1>3, <2>1
<1> QED BY <1>5 DEF Keeps

At(s, kind) == {i \in 1..Len(s) : s[i] = kind}
Count(s, kind) == Cardinality(At(s, kind))

LEMMA CountIsANumber ==
  ASSUME NEW M, NEW s \in Seq(M), NEW kind
  PROVE  IsFiniteSet(At(s, kind)) /\ Count(s, kind) \in Nat
<1>1. Len(s) \in Nat
  OBVIOUS
<1>2. IsFiniteSet(1..Len(s))
  BY <1>1, FS_Interval
<1>3. IsFiniteSet(At(s, kind))
  BY <1>2, FS_Subset DEF At
<1> QED BY <1>3, FS_CardinalityType DEF Count

LEMMA OccursCounts ==
  ASSUME NEW M, NEW s \in Seq(M), NEW kind
  PROVE  Reflector!Occurs(s, kind) = Count(s, kind)
<1>1. DOMAIN s = 1..Len(s)
  OBVIOUS
<1>2. \A S : Reflector!Cardinality(S) = Cardinality(S)
  BY Zenon DEF Reflector!Cardinality, Cardinality
<1> QED BY <1>1, <1>2, Zenon DEF Reflector!Occurs, Count, At

LEMMA CountOfNone ==
  ASSUME NEW kind
  PROVE  Count(<<>>, kind) = 0
<1>1. At(<<>>, kind) = {}
  BY DEF At
<1> QED BY <1>1, FS_EmptySet DEF Count

LEMMA CountOfAppended ==
  ASSUME NEW M, NEW s \in Seq(M), NEW x \in M, NEW kind
  PROVE  Count(Append(s, x), kind) = IF x = kind THEN Count(s, kind) + 1 ELSE Count(s, kind)
<1> DEFINE t == Append(s, x)
           n == Len(s)
<1>1. n \in Nat /\ Len(t) = n + 1 /\ t[n + 1] = x /\ \A i \in 1..n : t[i] = s[i]
  OBVIOUS
<1> HIDE DEF t
<1>2. 1..n + 1 = 1..n \cup {n + 1} /\ n + 1 \notin 1..n
  BY <1>1
<1>3. CASE x = kind
  <2>1. At(t, kind) = At(s, kind) \cup {n + 1} /\ n + 1 \notin At(s, kind)
    BY <1>1, <1>2, <1>3 DEF At
  <2>2. IsFiniteSet(At(s, kind))
    BY CountIsANumber
  <2>3. Cardinality(At(s, kind) \cup {n + 1}) = Cardinality(At(s, kind)) + 1
    BY <2>1, <2>2, FS_AddElement
  <2> QED BY <1>3, <2>1, <2>3 DEF Count, t
<1>4. CASE x # kind
  <2>1. At(t, kind) = At(s, kind)
    BY <1>1, <1>2, <1>4 DEF At
  <2> QED BY <1>4, <2>1 DEF Count, t
<1> QED BY <1>3, <1>4

LEMMA CountOfJoined ==
  ASSUME NEW M, NEW s \in Seq(M), NEW r \in Seq(M), NEW kind
  PROVE  Count(s \o r, kind) = Count(s, kind) + Count(r, kind)
<1> DEFINE t == s \o r
           n == Len(s)
           m == Len(r)
           S == At(s, kind)
           R == At(r, kind)
           U == {i \in n + 1..n + m : t[i] = kind}
           f == [i \in R |-> n + i]
<1>1. /\ n \in Nat /\ m \in Nat /\ Len(t) = n + m
      /\ \A i \in 1..n : t[i] = s[i]
      /\ \A i \in n + 1..n + m : t[i] = r[i - n] /\ i - n \in 1..m
  OBVIOUS
<1>2. \A i \in 1..m : t[n + i] = r[i] /\ n + i \in n + 1..n + m
  BY <1>1
<1> HIDE DEF t, n, m
<1>3. At(t, kind) = S \cup U /\ S \cap U = {}
  <2>1. 1..n + m = 1..n \cup (n + 1..n + m) /\ 1..n \cap (n + 1..n + m) = {}
    BY <1>1
  <2> QED BY <1>1, <2>1 DEF At, n
<1>4. f \in Bijection(R, U)
  <2>1. \A i \in R : n + i \in U
    BY <1>1, <1>2 DEF At, m
  <2>2. \A u \in U : u - n \in R /\ n + (u - n) = u
    BY <1>1 DEF At, m
  <2>3. \A i \in R : i \in Nat
    BY <1>1 DEF At, m
  <2> HIDE DEF R, U
  <2>4. f \in [R -> U] /\ (\A i, j \in R : f[i] = f[j] => i = j) /\ \A u \in U : \E i \in R : f[i] = u
    <3>1. f \in [R -> U]
      BY <2>1
    <3>2. \A i, j \in R : f[i] = f[j] => i = j
      BY <1>1, <2>3
    <3>3. ASSUME NEW u \in U PROVE \E i \in R : f[i] = u
      BY <2>2
    <3> QED BY <3>1, <3>2, <3>3
  <2> HIDE DEF f
  <2> QED BY <2>4 DEF Bijection, Injection, Surjection, IsInjective
<1>5. IsFiniteSet(S) /\ IsFiniteSet(R) /\ Cardinality(S) \in Nat /\ Cardinality(R) \in Nat
  BY CountIsANumber DEF Count
<1>6. IsFiniteSet(U) /\ Cardinality(U) = Cardinality(R)
  <2>1. ExistsBijection(R, U)
    BY <1>4, Zenon DEF ExistsBijection
  <2> HIDE DEF R, U
  <2> QED BY <1>5, <2>1, FS_Bijection
<1>7. Cardinality(S \cup U) = Cardinality(S) + Cardinality(R)
  <2> HIDE DEF S, R, U
  <2>1. Cardinality(S \cup U) = Cardinality(S) + Cardinality(U) - Cardinality(S \cap U)
    BY <1>5, <1>6, FS_Union
  <2>2. Cardinality(S \cap U) = 0
    BY <1>3, FS_EmptySet
  <2> QED BY <1>5, <1>6, <2>1, <2>2
<1> QED BY <1>3, <1>7 DEF Count, t

\* Filtering a list keeps every occurrence of what it should, and no other.
LEMMA ThoseCount ==
  ASSUME NEW M, NEW list \in Seq(M), NEW T
  PROVE  /\ Reflector!Those(list, T) \in Seq(M)
         /\ \A kind : Count(Reflector!Those(list, T), kind) = IF kind \in T THEN Count(list, kind) ELSE 0
<1> DEFINE n == Len(list)
           kept == CHOOSE k : Keeps(k, list, T)
<1>1. Reflector!Those(list, T) = kept[n]
  BY DEF Reflector!Those, Keeps
<1>2. Keeps(kept, list, T)
  BY ThoseAreKept, Zenon
<1> HIDE DEF kept
<1>3. n \in Nat /\ \A i \in 1..n : list[i] \in M
  OBVIOUS
<1>4. /\ kept[0] = <<>>
      /\ \A i \in 1..n : kept[i] = IF list[i] \in T THEN Append(kept[i - 1], list[i]) ELSE kept[i - 1]
  <2> HIDE DEF n
  <2>1. kept = [i \in 0..n |-> IF i = 0 THEN <<>>
                               ELSE IF list[i] \in T THEN Append(kept[i - 1], list[i]) ELSE kept[i - 1]]
    BY <1>2 DEF Keeps, n
  <2>2. 0 \in 0..n /\ \A i \in 1..n : i \in 0..n /\ i # 0
    BY <1>3
  <2> QED BY <2>1, <2>2
<1> DEFINE upTo(i, kind) == {j \in 1..i : list[j] = kind}
           Good(i) == /\ kept[i] \in Seq(M)
                      /\ \A kind : Count(kept[i], kind) = IF kind \in T THEN Cardinality(upTo(i, kind)) ELSE 0
<1>5. Good(0)
  <2>1. \A kind : upTo(0, kind) = {}
    OBVIOUS
  <2>2. \A kind : Count(kept[0], kind) = 0
    BY <1>4, CountOfNone
  <2>3. Cardinality({}) = 0 /\ <<>> \in Seq(M)
    BY FS_EmptySet
  <2> HIDE DEF upTo
  <2> QED BY <1>4, <2>1, <2>2, <2>3
<1>6. ASSUME NEW i \in 1..n, Good(i - 1) PROVE Good(i)
  <2> DEFINE x == list[i]
             s == kept[i - 1]
  <2>1. \A kind : /\ x = kind => Cardinality(upTo(i, kind)) = Cardinality(upTo(i - 1, kind)) + 1
                  /\ x # kind => upTo(i, kind) = upTo(i - 1, kind)
    <3> SUFFICES ASSUME NEW kind
                 PROVE  /\ x = kind => Cardinality(upTo(i, kind)) = Cardinality(upTo(i - 1, kind)) + 1
                        /\ x # kind => upTo(i, kind) = upTo(i - 1, kind)
      OBVIOUS
    <3>1. 1..i = 1..i - 1 \cup {i} /\ i \notin 1..i - 1 /\ i - 1 \in Nat
      BY <1>3
    <3>2. CASE x = kind
      <4>1. upTo(i, kind) = upTo(i - 1, kind) \cup {i} /\ i \notin upTo(i - 1, kind)
        BY <3>1, <3>2
      <4>2. IsFiniteSet(upTo(i - 1, kind))
        <5>1. IsFiniteSet(1..i - 1)
          BY <3>1, FS_Interval
        <5> QED BY <5>1, FS_Subset
      <4> HIDE DEF upTo
      <4>3. Cardinality(upTo(i - 1, kind) \cup {i}) = Cardinality(upTo(i - 1, kind)) + 1
        BY <4>1, <4>2, FS_AddElement
      <4> QED BY <3>2, <4>1, <4>3
    <3>3. CASE x # kind
      BY <3>1, <3>3
    <3> QED BY <3>2, <3>3
  <2> HIDE DEF upTo
  <2>2. s \in Seq(M) /\ x \in M
    BY <1>3, <1>6
  <2>3. CASE x \in T
    <3>1. kept[i] = Append(s, x)
      BY <1>4, <2>3
    <3>2. \A kind : Count(Append(s, x), kind) = IF x = kind THEN Count(s, kind) + 1 ELSE Count(s, kind)
      <4> HIDE DEF s, x
      <4> QED BY <2>2, CountOfAppended
    <3>3. \A kind : Count(s, kind) = IF kind \in T THEN Cardinality(upTo(i - 1, kind)) ELSE 0
      BY <1>6
    <3>4. Append(s, x) \in Seq(M)
      BY <2>2
    <3> HIDE DEF s, x
    <3> QED BY <2>1, <2>3, <3>1, <3>2, <3>3, <3>4
  <2>4. CASE x \notin T
    <3>1. kept[i] = s
      BY <1>4, <2>4
    <3>2. \A kind : Count(s, kind) = IF kind \in T THEN Cardinality(upTo(i - 1, kind)) ELSE 0
      BY <1>6
    <3> HIDE DEF s, x
    <3> QED BY <2>1, <2>2, <2>4, <3>1, <3>2
  <2> QED BY <2>3, <2>4
<1> DEFINE U == {i \in 0..n : Good(i)}
<1>7. \A i \in 0..n : i \in U
  <2>1. 0 \in U /\ \A i \in 1..n : i - 1 \in U => i \in U
    <3> HIDE DEF Good
    <3> QED BY <1>3, <1>5, <1>6
  <2> HIDE DEF U, n
  <2> QED BY <1>3, <2>1, UpTo
<1>8. Good(n)
  <2> HIDE DEF Good, n
  <2> QED BY <1>3, <1>7
<1>9. \A kind : upTo(n, kind) = At(list, kind)
  BY DEF At
<1> QED BY <1>1, <1>8, <1>9 DEF Count

\* What a repair did with the violations it was given.
Accounts(r, viols) ==
  /\ r.addressed \in Seq(Reflector!Kinds) /\ r.remaining \in Seq(Reflector!Kinds)
  /\ \A kind : Count(viols, kind) = Count(r.addressed, kind) + Count(r.remaining, kind)

LEMMA LlmAccounts ==
  ASSUME NEW a, NEW viols \in Seq(Reflector!Kinds)
  PROVE  Accounts(Reflector!Llm(a, viols), viols)
<1>1. \A kind : Count(<<>>, kind) = 0 /\ Count(viols, kind) \in Nat
  BY CountOfNone, CountIsANumber
<1>2. <<>> \in Seq(Reflector!Kinds)
  OBVIOUS
<1>3. CASE testMode
  <2>1. /\ Reflector!Llm(a, viols).addressed = viols
        /\ Reflector!Llm(a, viols).remaining = <<>>
    BY <1>3 DEF Reflector!Llm, Reflector!Result
  <2> QED BY <1>1, <1>2, <2>1 DEF Accounts
<1>4. CASE ~testMode
  <2>1. /\ Reflector!Llm(a, viols).addressed = <<>>
        /\ Reflector!Llm(a, viols).remaining = viols
    BY <1>4 DEF Reflector!Llm, Reflector!Result
  <2> QED BY <1>1, <1>2, <2>1 DEF Accounts
<1> QED BY <1>3, <1>4

LEMMA HeuristicAccounts ==
  ASSUME NEW a, NEW viols \in Seq(Reflector!Kinds)
  PROVE  Accounts(Reflector!Heuristic(a, viols), viols)
<1> DEFINE known == {k \in Reflector!Kinds : Reflector!Known(k)}
           unknown == {k \in Reflector!Kinds : ~Reflector!Known(k)}
           h == Reflector!Heuristic(a, viols)
<1>1. h.addressed = Reflector!Those(viols, known) /\ h.remaining = Reflector!Those(viols, unknown)
  BY DEF Reflector!Heuristic, Reflector!Result
<1> HIDE DEF h
<1>2. /\ h.addressed \in Seq(Reflector!Kinds) /\ h.remaining \in Seq(Reflector!Kinds)
      /\ \A kind : Count(h.addressed, kind) = IF kind \in known THEN Count(viols, kind) ELSE 0
      /\ \A kind : Count(h.remaining, kind) = IF kind \in unknown THEN Count(viols, kind) ELSE 0
  <2> HIDE DEF known, unknown
  <2> QED BY <1>1, ThoseCount
<1>3. ASSUME NEW kind PROVE Count(viols, kind) = Count(h.addressed, kind) + Count(h.remaining, kind)
  <2>1. Count(viols, kind) \in Nat
    BY CountIsANumber
  <2>2. CASE kind \in Reflector!Kinds
    <3>1. (kind \in known /\ kind \notin unknown) \/ (kind \notin known /\ kind \in unknown)
      BY <2>2
    <3> HIDE DEF known, unknown
    <3> QED BY <1>2, <2>1, <3>1
  <2>3. CASE kind \notin Reflector!Kinds
    <3>1. kind \notin known /\ kind \notin unknown
      BY <2>3
    <3>2. At(viols, kind) = {}
      BY <2>3 DEF At
    <3>3. Count(viols, kind) = 0
      BY <3>2, FS_EmptySet DEF Count
    <3> HIDE DEF known, unknown
    <3> QED BY <1>2, <3>1, <3>3
  <2> QED BY <2>2, <2>3
<1> QED BY <1>2, <1>3 DEF Accounts, h

LEMMA RepairAccounts ==
  ASSUME NEW a, NEW viols \in Seq(Reflector!Kinds)
  PROVE  Accounts(Reflector!Repair(a, viols), viols)
<1> DEFINE h == Reflector!Heuristic(a, viols)
           l == Reflector!Llm(h.repaired, h.remaining)
           none == Reflector!Result(a, 0, <<>>, viols)
           r == Reflector!Repair(a, viols)
<1>1. r = Reflector!Llm(a, viols) \/ r = none \/ r = Reflector!Merge(h, l) \/ r = h
  <2> DEFINE matched == \E i \in DOMAIN viols : Reflector!Known(viols[i])
             llm == Reflector!Llm(a, viols)
             merged == Reflector!Merge(h, l)
  <2>1. r = CASE strategy = "llm" -> llm
              [] strategy # "llm" /\ ~matched -> IF strategy = "hybrid" THEN llm ELSE none
              [] strategy = "hybrid" /\ matched /\ h.remaining # <<>> -> merged
              [] OTHER -> h
    BY Zenon DEF Reflector!Repair
  <2> HIDE DEF r, h, l, none, matched, llm, merged
  <2>2. r = llm \/ r = none \/ r = merged \/ r = h
    BY <2>1
  <2> QED BY <2>2 DEF llm, merged
<1>2. Accounts(none, viols)
  <2>1. none.addressed = <<>> /\ none.remaining = viols /\ <<>> \in Seq(Reflector!Kinds)
    BY DEF Reflector!Result
  <2>2. \A kind : Count(<<>>, kind) = 0 /\ Count(viols, kind) \in Nat
    BY CountOfNone, CountIsANumber
  <2> HIDE DEF none
  <2> QED BY <2>1, <2>2 DEF Accounts
<1>3. Accounts(h, viols)
  BY HeuristicAccounts
<1>4. Accounts(Reflector!Llm(a, viols), viols)
  BY LlmAccounts
<1>5. Accounts(Reflector!Merge(h, l), viols)
  <2> DEFINE m == Reflector!Merge(h, l)
  <2>1. m.addressed = h.addressed \o l.addressed /\ m.remaining = l.remaining
    BY DEF Reflector!Merge, Reflector!Result
  <2>2. h.addressed \in Seq(Reflector!Kinds) /\ h.remaining \in Seq(Reflector!Kinds)
    BY <1>3 DEF Accounts
  <2>3. Accounts(l, h.remaining)
    BY <2>2, LlmAccounts
  <2> HIDE DEF m, l, h
  <2>4. /\ l.addressed \in Seq(Reflector!Kinds) /\ l.remaining \in Seq(Reflector!Kinds)
        /\ m.addressed \in Seq(Reflector!Kinds)
    BY <2>1, <2>2, <2>3 DEF Accounts
  <2>5. ASSUME NEW kind PROVE Count(viols, kind) = Count(m.addressed, kind) + Count(m.remaining, kind)
    <3>1. Count(viols, kind) = Count(h.addressed, kind) + Count(h.remaining, kind)
      BY <1>3 DEF Accounts
    <3>2. Count(h.remaining, kind) = Count(l.addressed, kind) + Count(l.remaining, kind)
      BY <2>3 DEF Accounts
    <3>3. Count(h.addressed \o l.addressed, kind) = Count(h.addressed, kind) + Count(l.addressed, kind)
      BY <2>2, <2>4, CountOfJoined
    <3>4. /\ Count(h.addressed, kind) \in Nat /\ Count(l.addressed, kind) \in Nat
          /\ Count(l.remaining, kind) \in Nat
      BY <2>2, <2>4, CountIsANumber
    <3> QED BY <2>1, <3>1, <3>2, <3>3, <3>4
  <2>6. Accounts(m, viols)
    BY <2>1, <2>4, <2>5 DEF Accounts
  <2> QED BY <2>6 DEF m, l, h
<1> HIDE DEF h, l, none, r
<1>6. Accounts(r, viols)
  BY <1>1, <1>2, <1>3, <1>4, <1>5
<1> QED BY <1>6 DEF r

\* EveryViolationAccounted: each strategy, and the merge of two, addresses a violation
\* or says that it remains, and never both, however many a rejection lists.
THEOREM RepairsAccountForAll == ServicesSpec => []EveryViolationAccounted
<1>1. Reflector!EveryViolationAccounted
  <2> SUFFICES ASSUME NEW viols \in Reflector!Violations, NEW kind \in Reflector!Kinds
               PROVE  LET r == Reflector!Repair(client, viols)
                      IN  Reflector!Occurs(viols, kind) = Reflector!Occurs(r.addressed \o r.remaining, kind)
    BY Zenon DEF Reflector!EveryViolationAccounted
  <2> DEFINE r == Reflector!Repair(client, viols)
             K == Reflector!Kinds
  <2>1. viols \in Seq(K)
    BY DEF Reflector!Violations, Reflector!SeqOf
  <2>2. Accounts(r, viols)
    BY <2>1, RepairAccounts
  <2> HIDE DEF r
  <2>3. /\ r.addressed \in Seq(K) /\ r.remaining \in Seq(K)
        /\ Count(viols, kind) = Count(r.addressed, kind) + Count(r.remaining, kind)
    BY <2>2 DEF Accounts
  <2> HIDE DEF K
  <2>4. r.addressed \o r.remaining \in Seq(K)
    BY <2>3
  <2>5. Count(r.addressed \o r.remaining, kind) = Count(r.addressed, kind) + Count(r.remaining, kind)
    BY <2>3, CountOfJoined
  <2>6. Reflector!Occurs(viols, kind) = Reflector!Occurs(r.addressed \o r.remaining, kind)
    BY <2>1, <2>3, <2>4, <2>5, OccursCounts DEF K
  <2> QED BY <2>6 DEF r
<1>2. EveryViolationAccounted
  BY <1>1 DEF EveryViolationAccounted
<1> QED BY <1>2, PTL
===============================================================================
