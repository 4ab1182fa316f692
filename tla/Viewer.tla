------------------------------- MODULE Viewer -------------------------------
(***************************************************************************)
(* The viewer on the operator's side of the supervisor, in scenes: what is *)
(* displayed, the controls, the choices and their settings, the series of  *)
(* the plot, a chart on the page, the window and its process, the log, the *)
(* menu of the title bar.  The parts meet in AppState and ChartModel, by   *)
(* which display, controls, choices and series are written; none of them   *)
(* waits for another, so a scene plays one part from its beginning while   *)
(* the others rest in theirs.                                              *)
(***************************************************************************)
EXTENDS Controls, Preferences, ChartSeries, Surface, Desktop, LogStore, TitleBarMenu

VARIABLE scene  \* the part that is played

Scenes == {"display", "controls", "choices", "series", "surface", "desktop", "log",
           "titlebar"}

controlVars == <<renderer, main, biased>>
vars == <<scene, liveVars, controlVars, prefsVars, seriesVars, surfaceVars,
          desktopVars, logVars, titleVars>>

Init ==
  /\ scene \in Scenes
  /\ \E events \in {<<>>, BackendUp, SensorUp} :
       /\ LiveInit(Defaults, events)
       /\ ControlsInit(IF scene = "controls" /\ events = SensorUp THEN {"bias"} ELSE {})
       /\ scene = "controls" => events # <<>>
       /\ scene \notin {"display", "controls"} => events = <<>>
  /\ PrefsInit /\ SeriesInit /\ SurfaceInit /\ DesktopInit /\ LogInit /\ TitleInit
  /\ scene = "series" \/ model.window = Defaults.window
  /\ scene = "log" \/ entries = 0
  /\ scene = "titlebar" \/ available = Always

\* One part moves, and the others stay as they are.
Only(part) ==
  /\ scene = part /\ UNCHANGED scene
  /\ IF part \in {"display", "controls"} THEN TRUE ELSE UNCHANGED liveVars
  /\ IF part = "controls" THEN TRUE ELSE UNCHANGED controlVars
  /\ IF part = "choices"  THEN TRUE ELSE UNCHANGED prefsVars
  /\ IF part = "series"   THEN TRUE ELSE UNCHANGED seriesVars
  /\ IF part = "surface"  THEN TRUE ELSE UNCHANGED surfaceVars
  /\ IF part = "desktop"  THEN TRUE ELSE UNCHANGED desktopVars
  /\ IF part = "log"      THEN TRUE ELSE UNCHANGED logVars
  /\ IF part = "titlebar" THEN TRUE ELSE UNCHANGED titleVars

Next ==
  \/ Only("display")  /\ LiveNext
  \/ Only("controls") /\ ControlsNext
  \/ Only("choices")  /\ PrefsNext
  \/ Only("series")   /\ SeriesNext
  \/ Only("surface")  /\ SurfaceNext
  \/ Only("desktop")  /\ DesktopNext
  \/ Only("log")      /\ LogNext
  \/ Only("titlebar") /\ TitleNext

Spec == Init /\ [][Next]_vars
=============================================================================
