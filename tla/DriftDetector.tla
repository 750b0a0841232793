------------------------------ MODULE DriftDetector ------------------------------
(***************************************************************************)
(* DriftDetector (src/src/services/drift_detector.py), the process-wide    *)
(* singleton that run_carf feeds with the domain of every finished query   *)
(* and that the monitoring API reads and resets.  A distribution is kept   *)
(* as its counts.  Whether the KL divergence exceeds its threshold is not  *)
(* computed: it does not for equal distributions, it does where the window *)
(* has a domain the baseline lacks, and anything in between.               *)
(***************************************************************************)
EXTENDS Naturals, Sequences, FiniteSets, FiniteSetsExt

CONSTANTS
  Domains,
  BaselineWindow,
  DetectionWindow,
  MaxHistory,    \* maxlen of _observations
  ShiftPercent,  \* domain_shift_threshold, in percent
  MaxAlerts,     \* bound: _alert_count is kept up to here
  None

VARIABLES
  observations, \* _observations
  total,        \* _total_observations, folded to one of its residues beyond Steady
  baseline,     \* _baseline
  alerts,       \* _alert_count
  last,         \* the last of _snapshots
  since         \* history: observations since the baseline was set, up to DetectionWindow
vars == <<observations, total, baseline, alerts, last, since>>

Steady == BaselineWindow + 2 * DetectionWindow
Folded(n) == IF n = Steady + DetectionWindow THEN Steady ELSE n
AtMost(n, bound) == IF n <= bound THEN n ELSE bound

Recent(s, n) == SubSeq(s, Len(s) - n + 1, Len(s))
Append2(s, d) == IF Len(s) = MaxHistory THEN Append(Tail(s), d) ELSE Append(s, d)

Distribution(s) == [d \in Domains |-> Cardinality({i \in DOMAIN s : s[i] = d})]

Init ==
  /\ observations = <<>> /\ total = 0
  /\ baseline = None /\ alerts = 0 /\ last = None /\ since = 0

-----------------------------------------------------------------------------
(* Shares are compared by cross-multiplication: c / DetectionWindow in the *)
(* window against b / BaselineWindow in the baseline.                      *)

Distance(m, n) == IF m > n THEN m - n ELSE n - m

Shifted(window, base) ==
  \E d \in Domains :
    100 * Distance(window[d] * BaselineWindow, base[d] * DetectionWindow)
      > ShiftPercent * BaselineWindow * DetectionWindow

KlMayExceed(window, base) ==
  {exceeds \in BOOLEAN :
     /\ (\E d \in Domains : window[d] > 0 /\ base[d] = 0) => exceeds
     /\ (\A d \in Domains : window[d] * BaselineWindow = base[d] * DetectionWindow) => ~exceeds}

\* A mutant of LatestWindow that takes the oldest observations.
WindowOldest(s) == SubSeq(s, 1, DetectionWindow)

LatestWindow(s) == Recent(s, DetectionWindow)

CheckDrift(s, base) ==
  LET window == Distribution(LatestWindow(s))
      shifted == Shifted(window, base)
  IN  \E kl \in KlMayExceed(window, base) :
        /\ alerts' = AtMost(alerts + Cardinality({r \in {"kl", "shift"} : (r = "kl" /\ kl) \/ (r = "shift" /\ shifted)}),
                            MaxAlerts)
        /\ last' = [window |-> window, baseline |-> base, drift |-> kl \/ shifted]

RecordRouting(domain) ==
  LET s == Append2(observations, domain)
      establish == baseline = None /\ total + 1 >= BaselineWindow
      base == IF establish THEN Distribution(SubSeq(s, 1, BaselineWindow)) ELSE baseline
  IN  /\ observations' = s /\ total' = Folded(total + 1)
      /\ baseline' = base
      /\ since' = IF establish \/ baseline = None THEN 0 ELSE AtMost(since + 1, DetectionWindow)
      /\ IF /\ base # None
            /\ total + 1 >= BaselineWindow + DetectionWindow
            /\ (total + 1) % DetectionWindow = 0
         THEN CheckDrift(s, base)
         ELSE UNCHANGED <<alerts, last>>

\* POST /monitoring/drift/reset, which answers "baseline_reset" in either case.
ResetBaseline ==
  /\ IF Len(observations) >= BaselineWindow
     THEN /\ baseline' = Distribution(Recent(observations, BaselineWindow))
          /\ alerts' = 0 /\ since' = 0
     ELSE UNCHANGED <<baseline, alerts, since>>
  /\ UNCHANGED <<observations, total, last>>

Next == ResetBaseline \/ \E d \in Domains : RecordRouting(d)

Spec == Init /\ [][Next]_vars

-----------------------------------------------------------------------------
(* Properties *)

\* A shift that lasts is reported whatever its phase against the detection windows:
\* once 2 * DetectionWindow - 1 queries in a row went to one domain, whose share in
\* the baseline is further below than the threshold, the last snapshot says drift.
LastingShiftIsReported ==
  LET n == 2 * DetectionWindow - 1 IN
  /\ baseline # None /\ since = DetectionWindow /\ total >= BaselineWindow + n
  => \A d \in Domains :
       /\ \A i \in DOMAIN Recent(observations, n) : Recent(observations, n)[i] = d
       /\ 100 * (BaselineWindow - baseline[d]) > ShiftPercent * BaselineWindow
       => last # None /\ last.drift

===============================================================================
