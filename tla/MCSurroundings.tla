---------------------------- MODULE MCSurroundings ----------------------------
(* One or two processes of each kind, and a handful of measurements.        *)
EXTENDS Surroundings

\* Readings whose scores lie on both sides of the thresholds and of the bands
\* below them, and one in which nothing could be measured.
SomeReadings ==
    LET Reading(free, growth) == [free |-> free, budget |-> 0, growth |-> growth,
                                  reclaimable |-> 0, workload |-> FALSE]
    IN  {Reading(100, 0), Reading(53, 0), Reading(50, 0), Reading(27, 0), Reading(10, 0),
         [Reading(24, 30) EXCEPT !.reclaimable = 100],
         [Reading(60, NaN) EXCEPT !.workload = TRUE],
         [Reading(NaN, NaN) EXCEPT !.budget = NaN, !.reclaimable = NaN]}

\* Too few to say anything, a rise with one point far from it, and a rise that
\* has just turned.
SomeSeries ==
    {<<<<0, 0>>, <<1, NotFinite>>, <<2, 9>>>>,
     <<<<0, 0>>, <<1, 1>>, <<2, 10>>, <<3, 3>>>>,
     <<<<0, 0>>, <<1, 18>>, <<2, 30>>, <<3, 29>>>>}

\* Three requests of one controller, the last of which names another machine,
\* and two of the other, the first of which expires.
SomeRequests ==
    LET Numbered(c, n) == [controller |-> c, sequence |-> n, target |-> Here,
                           action |-> "quarantine", expires |-> 0]
        c == CHOOSE x \in Controllers : TRUE
        d == CHOOSE x \in Controllers : x # c
    IN  {Numbered(c, 0), [Numbered(c, 1) EXCEPT !.action = "delete"],
         [Numbered(c, 2) EXCEPT !.target = "there"],
         [Numbered(d, 0) EXCEPT !.expires = MaxClock], Numbered(d, 1)}
=============================================================================
