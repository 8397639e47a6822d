------------------------------ MODULE Contraction ------------------------------
(***************************************************************************)
(* How fast the estimate gave way to a pressure on Bedrock, and came back, *)
(* as plot_contraction.py reads it from the events of a run: the estimate  *)
(* is averaged in bins of the time since the first arrival, and a date is  *)
(* the beginning of the first bin that passes a test.                      *)
(*                                                                         *)
(* A log gives for each request the time of its arrival, the estimate its  *)
(* event carries (under adaptive-slo each one does) and whether it was     *)
(* hurt (a 429, or admitted and too late).                                 *)
(***************************************************************************)
EXTENDS Integers, FiniteSets, FiniteSetsExt

CONSTANTS
    BinS,                          \* bin_s
    PressureStart, PressureEnd,    \* the window of the background
    Lead,                          \* the seconds before it that count as normal
    Latency,                       \* the longest a request waits and streams
    Never,                         \* no date
    Traces                         \* what happened in the runs looked at

ASSUME ContractionAssumption ==
    /\ BinS \in Nat \ {0} /\ Lead \in Nat /\ Latency \in Nat
    /\ PressureStart \in Nat \ {0} /\ PressureEnd \in Nat
    /\ Never \notin Int

First(S) == IF S = {} THEN Never ELSE Min(S)
Beginning(log) == Min({log[e].at : e \in DOMAIN log})
Since(log, e) == log[e].at - Beginning(log)

\* Mutant: windows counted from the start of the clock.
WithinClock(log, from, to) == {e \in DOMAIN log : from <= log[e].at /\ log[e].at < to}

Within(log, from, to) == {e \in DOMAIN log : from <= Since(log, e) /\ Since(log, e) < to}

\* t_s: the beginnings of the bins that hold an event.
BinsOf(log) == {(Since(log, e) \div BinS) * BinS : e \in DOMAIN log}

Estimates(log, S) == SumFunctionOnSet([e \in DOMAIN log |-> log[e].cap], S)

\* Below, at or above 0 as the average of S is below, at or above num / den of
\* that of P.
Compare(log, S, P, num, den) ==
    den * Estimates(log, S) * Cardinality(P) - num * Estimates(log, P) * Cardinality(S)

\* The events before the pressure.
Normal(log) ==
    LET near == Within(log, PressureStart - Lead, PressureStart)
    IN  IF near # {} THEN near ELSE Within(log, 0, PressureStart)

FirstPressure(log) ==
    First({Since(log, e) : e \in {e \in Within(log, PressureStart, PressureEnd) : log[e].hurt}})

\* The events of a bin.
Bin(log, x) == Within(log, x, x + BinS)

\* The first from a date on of the bins that pass a test.
FirstCapacity(passing, after) == First({x \in passing : x >= after})

\* From when on a fall is looked for.
Onset(log) == IF FirstPressure(log) = Never THEN PressureStart ELSE FirstPressure(log)

\* The dates of t_contract_<percent>_abs_s and of t_recover_90_abs_s.
Contracted(log, percent) ==
    FirstCapacity(
        {x \in BinsOf(log) : /\ Normal(log) # {}
                             /\ Compare(log, Bin(log, x), Normal(log), 100 - percent, 100) <= 0},
        Onset(log))

Recovered(log) ==
    FirstCapacity(
        {x \in BinsOf(log) : /\ Normal(log) # {}
                             /\ Compare(log, Bin(log, x), Normal(log), 9, 10) >= 0},
        PressureEnd)

-----------------------------------------------------------------------------
\* What happened in a run: [requests, est], the estimate at each moment and for
\* each request [id, at, stamp, hurt].  A request is decided or has its answer
\* within Latency, and no bin is empty.
Legible(trace) ==
    LET arrivals == {e.at : e \in trace.requests}
    IN  /\ trace.requests # {} /\ IsFiniteSet(trace.requests)
        /\ \A e \in trace.requests :
              /\ e.at \in Nat /\ e.hurt \in BOOLEAN
              /\ e.stamp \in e.at .. e.at + Latency /\ e.stamp \in DOMAIN trace.est
        /\ DOMAIN trace.est \subseteq Nat
        /\ \A m \in DOMAIN trace.est : trace.est[m] \in Nat
        /\ \A k \in 0 .. (Max(arrivals) - Min(arrivals)) \div BinS :
              \E t \in arrivals : (t - Min(arrivals)) \div BinS = k

ASSUME TraceAssumption == \A trace \in Traces : Legible(trace)

\* An event has the time of the arrival but the estimate of a later moment: of
\* the decision if it was turned away, of the end of its stream if not.
LogOf(trace) ==
    [e \in trace.requests |->
        [at |-> e.at, cap |-> trace.est[e.stamp], hurt |-> e.hurt]]

\* As Compare, for an estimate instead of the average of events.
Against(log, c, num, den) ==
    den * c * Cardinality(Normal(log)) - num * Estimates(log, Normal(log))

\* The moments, from the first arrival, when the estimate itself was as low, or
\* as high, as a date says.
LowAt(trace, percent) ==
    LET log == LogOf(trace)
    IN  {m - Beginning(log) :
            m \in {m \in DOMAIN trace.est : Against(log, trace.est[m], 100 - percent, 100) <= 0}}

HighAt(trace) ==
    LET log == LogOf(trace)
    IN  {m - Beginning(log) :
            m \in {m \in DOMAIN trace.est : Against(log, trace.est[m], 9, 10) >= 0}}

\* There is a date only if the estimate passed the test itself, and it is less
\* than a bin and the latency before the first moment it did, if it is before;
\* and if the estimate goes on to pass it as long as two bins and the latency
\* while requests come, there is a date, less than a bin after that moment.
Dates(date, holding, after, length) ==
    LET truth == First({m \in holding : m >= after})
        lasting == /\ truth # Never /\ truth + BinS <= length
                   /\ truth .. truth + 2 * BinS + Latency \subseteq holding
    IN  /\ date # Never => /\ date >= after /\ truth # Never
                           /\ date - truth > -(BinS + Latency)
        /\ lasting => date # Never /\ date - truth < BinS

\* Whatever the estimate does and whenever requests come: its fall by 20 and by
\* 50 percent of what the average before the pressure was is dated from the
\* first harm on, if any is done, and its return to 90 percent from the end of
\* the pressure on.  A slow answer can make a date too early by its latency:
\* the event is binned by its arrival and carries the estimate of its end
\* (main.py 254-261, plot_adaptive_trace.py 45).
Dated(trace) ==
    LET log == LogOf(trace)
        length == Max({log[e].at : e \in DOMAIN log}) - Beginning(log)
    IN  /\ \A percent \in {20, 50} :
              Dates(Contracted(log, percent), LowAt(trace, percent), Onset(log), length)
        /\ Dates(Recovered(log), HighAt(trace), PressureEnd, length)
=============================================================================
