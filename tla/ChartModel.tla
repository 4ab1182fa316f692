----------------------------- MODULE ChartModel -----------------------------
(***************************************************************************)
(* The points of the plot and what is drawn of them                        *)
(* (app/renderer/model/chart-model.ts): each axis has a series of points   *)
(* in the order of their times, of which the last window is kept.  Times   *)
(* and windows are in one unit, 0 is no time.                              *)
(***************************************************************************)
EXTENDS Integers, FiniteSets, Sequences, SequencesExt, FiniteSetsExt

CONSTANTS Axes,       \* AXES
          ForceAxes,  \* those of a force
          Windows     \* TIME_WINDOWS_SECONDS

ASSUME ChartConstants == ForceAxes \subseteq Axes /\ IsFiniteSet(Axes) /\ Windows \subseteq Nat

Point(time, value) == [time |-> time, value |-> value]

\* originNs, by which times are only shifted, is left out.
NewChart(window) ==
  [series |-> [a \in Axes |-> <<>>], latest |-> 0, window |-> window]

\* Mutant: the search goes past a point of the same time.
Narrowed_past(points, t, w) ==
  LET middle == w.low + (w.high - w.low) \div 2
  IN IF w.low >= w.high THEN w
     ELSE IF points[middle].time <= t THEN [low |-> middle + 1, high |-> w.high]
     ELSE [low |-> w.low, high |-> middle]

\* One turn of the search's loop.
Narrowed(points, t, w) ==
  LET middle == w.low + (w.high - w.low) \div 2
  IN IF w.low >= w.high THEN w
     ELSE IF points[middle].time < t THEN [low |-> middle + 1, high |-> w.high]
     ELSE [low |-> w.low, high |-> middle]

\* The first index whose time is not before t.  As many turns as there are points are
\* enough, and more change nothing.
LowerBound(points, t) ==
  LET after[n \in 0..Len(points)] ==
        IF n = 0 THEN [low |-> 1, high |-> Len(points) + 1]
        ELSE Narrowed(points, t, after[n - 1])
  IN after[Len(points)].low

EvictBefore(series, cutoff) ==
  [a \in Axes |-> SubSeq(series[a], LowerBound(series[a], cutoff), Len(series[a]))]

Insert(points, p) ==
  LET i == LowerBound(points, p.time)
  IN IF i <= Len(points) /\ points[i].time = p.time
     THEN [points EXCEPT ![i] = p]
     ELSE InsertAt(points, i, p)

\* A batch is the sequence of its points, each with its axis.
Filled(points, axis, batch, cutoff) ==
  LET upTo[n \in 0..Len(batch)] ==
        IF n = 0 THEN points
        ELSE IF batch[n].axis = axis /\ batch[n].time >= cutoff
             THEN Insert(upTo[n - 1], Point(batch[n].time, batch[n].value))
        ELSE upTo[n - 1]
  IN upTo[Len(batch)]

Appended(chart, batch) ==
  LET times  == {batch[i].time : i \in DOMAIN batch}
      latest == Max(times \union {chart.latest})
      cutoff == latest - chart.window
      filled == [a \in Axes |-> Filled(chart.series[a], a, batch, cutoff)]
  IN IF times = {} THEN chart
     ELSE [chart EXCEPT !.latest = latest, !.series = EvictBefore(filled, cutoff)]

WithWindow(chart, window) ==
  [chart EXCEPT !.window = window,
                !.series = IF chart.latest = 0 THEN @
                           ELSE EvictBefore(@, chart.latest - window)]

Cleared(chart) == NewChart(chart.window)

Times(chart) ==
  UNION {{chart.series[a][i].time : i \in DOMAIN chart.series[a]} : a \in Axes}
-----------------------------------------------------------------------------
(* What is drawn: buildCombinedOption and buildPanelOption *)

\* buildXAxis
TimeAxis(view) == (-view.window)..0

\* symmetricExtent: the largest magnitude to either side (the padding of a
\* twentieth is left out), and 1 when there is nothing.
Extent(chart, axes) ==
  LET values == UNION {{chart.series[a][i].value : i \in DOMAIN chart.series[a]} :
                         a \in axes}
      magnitude == Max({0} \union {IF v < 0 THEN -v ELSE v : v \in values})
      padded == IF magnitude = 0 THEN 1 ELSE magnitude
  IN (-padded)..padded

\* buildSeries: a point is drawn at its distance from the newest one.
Drawn(chart, axis) ==
  [i \in DOMAIN chart.series[axis] |->
     [x |-> chart.series[axis][i].time - chart.latest,
      y |-> chart.series[axis][i].value]]

\* In the combined plot forces share one axis and torques the other; a panel
\* has its own.
ValueAxis(chart, view, axis) ==
  IF view.mode = "panels" THEN Extent(chart, {axis})
  ELSE Extent(chart, IF axis \in ForceAxes THEN ForceAxes ELSE Axes \ ForceAxes)
-----------------------------------------------------------------------------
(* The view: which mode, window and axes are chosen *)

CreateView(prefs) ==
  [mode |-> prefs.plotMode, window |-> prefs.window, axes |-> prefs.axes]

\* reduceChartViewState
ReduceView(view, a) ==
  CASE a.type = "mode_changed"   -> [view EXCEPT !.mode = a.mode]
    [] a.type = "window_changed" -> [view EXCEPT !.window = a.window]
    [] a.type = "axis_visibility_changed" ->
         [view EXCEPT !.axes = IF a.visible THEN @ \union {a.axis} ELSE @ \ {a.axis}]
    [] a.type = "preferences_received" -> CreateView(a.preferences)
=============================================================================
