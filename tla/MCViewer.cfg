\* Every part of the viewer, each in a scene of its own.
SPECIFICATION Spec
CONSTANTS
  Axes = {"Fx", "Tx"}
  ForceAxes = {"Fx"}
  PlotAxis = "Fx"
  Windows = {1, 20}
  Defaults <- Factory
  MaxEvents = 6
  MaxMail = 2
  MaxLag = 4
  MaxCalls = 2
  MaxStamps = 6
  MaxEdits = 2
  MaxCrashes = 2
  MaxTime = 3
  Values <- Readings
  MaxOptions = 4
  MaxMounts = 2
  MaxNative = 3
  RetainedFiles = 4
  MaximumBytes = 2
  MaxEntries = 6
INVARIANTS
  PlotIsOfOneSession
  ButtonsComeBack
  FeedbackIsOfThisSession
  StoredIsKept
  ChoicesArrive
  ChartIsItsReference
  SurfaceShowsTheLast
  QuitWaitsForTheBackend
  TitleBarIsCurrent
  LogIsATail
  ActiveIsOnScreen
PROPERTIES
  WrenchIsCurrent
  ErrorsOfANewSensorAreShown
\* the bounds stop whoever acts by himself
CHECK_DEADLOCK FALSE
