----------------------------- MODULE ChartSeries -----------------------------
(***************************************************************************)
(* A chart's model on its own, under the calls ChartWorkspace makes of it: *)
(* batches whose points come in any order of their times, late, or again;  *)
(* a window that is changed; and a reset.  What it keeps in sorted         *)
(* sequences, searched by halving, is compared with sets.                  *)
(***************************************************************************)
EXTENDS ChartModel

CONSTANTS MaxTime,  \* bound: the times of points
          Values    \* their values

ASSUME SeriesConstants == MaxTime \in Nat /\ Values \subseteq Int

VARIABLES model,   \* the ChartModel
          stored   \* reference: by axis the points there should be, as a set

seriesVars == <<model, stored>>

SeriesInit ==
  \E w \in Windows : model = NewChart(w) /\ stored = [a \in Axes |-> {}]

\* What is not older than the window, which ends with the newest time.
Within(points, latest, window) == {p \in points : p.time >= latest - window}

Batches ==
  LET point == [axis : Axes, time : 1..MaxTime, value : Values]
  IN {<<p>> : p \in point} \union {<<p, q>> : p \in point, q \in point}

\* A point takes the place of one of the same time, also of one earlier in the batch.
Overwritten(points, axis, batch) ==
  LET mine == {i \in DOMAIN batch : batch[i].axis = axis}
  IN {q \in points : \A i \in mine : batch[i].time # q.time} \union
     {Point(batch[i].time, batch[i].value) :
        i \in {j \in mine : \A k \in mine : k > j => batch[k].time # batch[j].time}}

AppendsBatch ==
  \E batch \in Batches :
    /\ model' = Appended(model, batch)
    /\ stored' = [a \in Axes |-> Within(Overwritten(stored[a], a, batch),
                                        model'.latest, model.window)]

SetsWindow ==
  \E w \in Windows :
    /\ w # model.window
    /\ model' = WithWindow(model, w)
    /\ stored' = [a \in Axes |-> Within(stored[a], model.latest, w)]

Resets == model' = Cleared(model) /\ stored' = [a \in Axes |-> {}]

SeriesNext == AppendsBatch \/ SetsWindow \/ Resets
-----------------------------------------------------------------------------
InFrame(view, axis) ==
  \A i \in DOMAIN Drawn(model, axis) :
    /\ Drawn(model, axis)[i].x \in TimeAxis(view)
    /\ Drawn(model, axis)[i].y \in ValueAxis(model, view, axis)

\* chart-model.test.ts: the series of an axis is what was appended within the window,
\* in the order of its times and once for each of them, however late, repeated or out
\* of order the points came; and every point of it is drawn within the axes of the
\* plot, combined or in its own panel.
ChartIsItsReference ==
  \A a \in Axes :
    /\ ToSet(model.series[a]) = stored[a]
    /\ \A i, j \in DOMAIN model.series[a] :
         i < j => model.series[a][i].time < model.series[a][j].time
    /\ \A mode \in {"combined", "panels"} :
         InFrame([mode |-> mode, window |-> model.window, axes |-> Axes], a)
=============================================================================
