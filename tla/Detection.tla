------------------------------ MODULE Detection -------------------------------
(***************************************************************************)
(* What cancellai-guardian makes of a series of measurements.              *)
(*                                                                         *)
(*   baseline.rs    Baseline::observe, assess, observe_and_assess          *)
(*   structural.rs  the three signals and assess_layout                    *)
(*   forecast.rs    fit_growth, estimate_growth, forecast_time_to_threshold *)
(*                                                                         *)
(* Values are integers instead of floats, so that medians are exact and a  *)
(* least-squares line is a quotient of two integers; comparisons of        *)
(* quotients are multiplied out.                                           *)
(***************************************************************************)
EXTENDS StableSort, Integers

CONSTANTS
    NotFinite,      \* a measurement that is infinite or not a number
    Measured,       \* the values that are measured
    Watched,        \* the signals that are watched
    Capacity,       \* of the window, as asked for
    Markers0,       \* entries of a provider's directory
    KnownLayouts,   \* sets of them that are recognised
    MinSpan,        \* MIN_SPAN_SECS
    Seeds,          \* the series a behaviour may begin with
    MaxPoints,      \* bound on the observations of a forecast
    Instants        \* bound on the times of later ones

ASSUME DetectionAssumption ==
    /\ Watched \subseteq {"session_count", "artifact_size", "orphan_count"}
    /\ Measured \subseteq Int /\ NotFinite \notin Int
    /\ Capacity \in Nat /\ MinSpan \in Nat \ {0} /\ MaxPoints \in Nat
    /\ Instants \subseteq Nat /\ Seeds \subseteq Seq(Nat \X (Int \cup {NotFinite}))

VARIABLES
    window,    \* the last measurements of each signal
    assessed,  \* [signal, severity] of the last assessment
    layout,    \* what the provider's directory was last seen to be
    series,    \* the observations of a forecast
    outlook    \* what was made of them

detectionVars == <<window, assessed, layout, series, outlook>>

Signals == {"session_count", "artifact_size", "orphan_count"}

Abs(x) == IF x < 0 THEN -x ELSE x
NoMore(x, y) == x <= y
AtMiddle(s) == s[Len(s) \div 2 + 1]
Median(s) == AtMiddle(Sorted(s, NoMore))

-----------------------------------------------------------------------------
(* Baseline: never fewer than three places, and nothing that is not finite. *)

MinObservations == 3
WindowSize == IF Capacity < MinObservations THEN MinObservations ELSE Capacity

Observed(w, value) ==
    IF value = NotFinite THEN w
    ELSE Append(IF Len(w) = WindowSize THEN Tail(w) ELSE w, value)

\* The deviation of the median is at least a hundredth of the median, and
\* more than nothing.  All three are multiplied by 100.
Mad(w) ==
    LET m == Median(w)
        raw == 100 * Median([n \in DOMAIN w |-> Abs(w[n] - m)])
    IN  IF raw > Abs(m) THEN raw ELSE Abs(m)

Severity(w, value) ==
    IF Len(w) < MinObservations THEN "insufficient"
    ELSE IF value = NotFinite THEN "anomalous"
    ELSE LET away == 100 * Abs(value - Median(w)) IN
         IF away = 0 THEN "normal"
         ELSE IF away >= 6 * Mad(w) THEN "anomalous"
         ELSE IF away >= 3 * Mad(w) THEN "elevated" ELSE "normal"

AssessLayout(found) == IF found \in KnownLayouts THEN "recognized" ELSE "drifted"

-----------------------------------------------------------------------------
(* Forecast: least squares over points <<seconds, value>>.                 *)

SumTo(s, n) ==
    LET upto[k \in 0 .. n] == IF k = 0 THEN 0 ELSE upto[k - 1] + s[k] IN upto[n]
Times(s, r) == [k \in DOMAIN s |-> s[k] * r[k]]

\* The line has slope num/den through the mean; its r-squared is
\* num^2 / (den * tot).  None when all times are one.
OlsFit(p) ==
    LET n == Len(p)
        t == [k \in 1 .. n |-> p[k][1]]
        v == [k \in 1 .. n |-> p[k][2]]
        st == SumTo(t, n)  sv == SumTo(v, n)
    IN  [n |-> n, st |-> st, sv |-> sv,
         num |-> n * SumTo(Times(t, v), n) - st * sv,
         den |-> n * SumTo(Times(t, t), n) - st * st,
         tot |-> n * SumTo(Times(v, v), n) - sv * sv]

Fits(fit) == fit.den > 0

\* How far a point is from the line, times n * den.
Residual(fit, point) ==
    Abs(fit.den * fit.n * point[2]
        - (fit.num * fit.n * point[1] + fit.den * fit.sv - fit.num * fit.st))

Without(s, n) == [k \in 1 .. Len(s) - 1 |-> IF k < n THEN s[k] ELSE s[k + 1]]

\* One point that is far from the line, among five or more, is left out.
TrimmedFit(p) ==
    LET fit == OlsFit(p)
        far == [k \in DOMAIN p |-> Residual(fit, p[k])]
        mid == Median(far)
        mad == Median([k \in DOMAIN far |-> Abs(far[k] - mid)])
        worst == CHOOSE k \in DOMAIN far :
                    /\ \A m \in DOMAIN far : far[m] <= far[k]
                    /\ \A m \in DOMAIN far : m > k => far[m] < far[k]
        again == OlsFit(Without(p, worst))
    IN  IF Len(p) < 5 \/ far[worst] <= 3 * mad \/ ~Fits(again) THEN fit ELSE again

\* slope(a) >= slope(b) / 2
AtLeastHalf(a, b) == 2 * a.num * b.den >= b.num * a.den

\* Mutant of TrendStillHolds: the trend of the whole is enough.
TrendStillHoldsAlways(p, fit) == TRUE

\* The latest half of a rising series still rises at half the rate.
TrendStillHolds(p, fit) ==
    LET count == (Len(p) + 1) \div 2
        size  == IF count < 2 THEN 2 ELSE count
        recent == SubSeq(p, Len(p) - size + 1, Len(p))
    IN  \/ fit.num <= 0
        \/ ~Fits(OlsFit(recent))
        \/ AtLeastHalf(TrimmedFit(recent), fit)

\* r-squared is at least a per cent.
Explains(fit, percent) ==
    fit.tot = 0 \/ 100 * fit.num * fit.num >= percent * fit.den * fit.tot

ConfidenceOfFit(fit) ==
    IF Explains(fit, 85) THEN "high" ELSE IF Explains(fit, 65) THEN "medium" ELSE "low"

Usable(s) ==
    LET kept[n \in 0 .. Len(s)] ==
            IF n = 0 THEN <<>>
            ELSE IF s[n][2] = NotFinite THEN kept[n - 1] ELSE Append(kept[n - 1], s[n])
    IN  kept[Len(s)]
Earlier(o, q) == o[1] <= q[1]

\* fit_growth
FitGrowth(s) ==
    LET kept == Sorted(Usable(s), Earlier)
        from == kept[1][1]
        p == [n \in DOMAIN kept |-> <<kept[n][1] - from, kept[n][2]>>]
        fit == TrimmedFit(p)
    IN  IF Len(kept) < MinObservations THEN [fault |-> "too_few"]
        ELSE IF kept[Len(kept)][1] - from < MinSpan THEN [fault |-> "too_short"]
        ELSE IF ~Explains(fit, 50) \/ ~TrendStillHolds(p, fit) THEN [fault |-> "no_trend"]
        ELSE [fault |-> "none", fit |-> fit, confidence |-> ConfidenceOfFit(fit)]

\* forecast_time_to_threshold: seconds, rounded down, to the threshold.
Forecast(s, current, threshold) ==
    LET g == FitGrowth(s) IN
    IF g.fault # "none" THEN g.fault
    ELSE IF threshold <= current \/ g.fit.num <= 0 THEN "not_trending"
    ELSE "forecast"

-----------------------------------------------------------------------------
DetectionTypeOK ==
    /\ \A g \in Signals : Len(window[g]) <= WindowSize
                          /\ \A n \in DOMAIN window[g] : window[g][n] \in Measured
    /\ assessed \in [signal : Signals,
                     severity : {"insufficient", "normal", "elevated", "anomalous"}]
    /\ layout \in {"recognized", "drifted"}
    /\ outlook \in {"none", "too_few", "too_short", "no_trend", "not_trending", "forecast"}

DetectionInit ==
    /\ window = [g \in Signals |-> <<>>]
    /\ assessed = [signal |-> "session_count", severity |-> "insufficient"]
    /\ layout = "recognized"
    /\ series \in Seeds /\ outlook = "none"

\* observe_and_assess: judged by what came before, and only then taken in.
ObserveAndAssess(g) ==
    \E value \in Measured \cup {NotFinite} :
        /\ assessed' = [signal |-> g, severity |-> Severity(window[g], value)]
        /\ window' = [window EXCEPT ![g] = Observed(@, value)]
        /\ UNCHANGED <<layout, series, outlook>>

LookAtLayout ==
    /\ \E found \in SUBSET Markers0 : layout' = AssessLayout(found)
    /\ UNCHANGED <<window, assessed, series, outlook>>

\* An observation arrives, in no order of time, and the forecast is made anew.
AddObservation ==
    /\ Len(series) < MaxPoints
    /\ \E t \in Instants, value \in Measured \cup {NotFinite} :
          series' = Append(series, <<t, value>>)
    /\ \E current, threshold \in Measured : outlook' = Forecast(series', current, threshold)
    /\ UNCHANGED <<window, assessed, layout>>

DetectionNext ==
    (\E g \in Watched : ObserveAndAssess(g)) \/ LookAtLayout \/ AddObservation

-----------------------------------------------------------------------------
(* Properties.                                                             *)

\* A threshold is never forecast from a series whose latest half only falls,
\* however steeply it rose before, and whatever is mixed in that is no number.
StaleTrendIsNoForecast ==
    LET kept == Sorted(Usable(series), Earlier)
        n == Len(kept)
        half == IF (n + 1) \div 2 < 2 THEN 2 ELSE (n + 1) \div 2
    IN  /\ n >= MinObservations
        /\ \A k \in n - half + 1 .. n - 1 :
              kept[k][1] < kept[k + 1][1] /\ kept[k][2] > kept[k + 1][2]
        => outlook # "forecast"
=============================================================================
