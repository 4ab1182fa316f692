---------------------------- MODULE ViewerProofs ----------------------------
(***************************************************************************)
(* The viewer's scenes without their bounds: how the application ends and  *)
(* what its title bar shows; what the plot's series hold and a chart on    *)
(* the page shows; what of the settings a crash leaves; what the log's     *)
(* files hold; where the menu's active item is; and which samples and      *)
(* errors the live view shows and what its plot holds, with any lag of the *)
(* frames, renders and effects behind the events.  For any number of       *)
(* events, changes, points, options, mounts, choices, entries and keys.    *)
(***************************************************************************)
EXTENDS Viewer, SequenceLemmas

\* How the window is, as the page is told of it.
States == [focused : BOOLEAN, full : BOOLEAN]

DesktopType ==
  /\ boot \in {"snapshot", "load", "up", "failed"}
  /\ win \in [open : BOOLEAN, focused : BOOLEAN, full : BOOLEAN]
  /\ quitting \in [requested : BOOLEAN, allowed : BOOLEAN, logsClosed : BOOLEAN]
  /\ exited \in BOOLEAN /\ missed \in BOOLEAN
  /\ announce \in Nat /\ lane \in Seq(States) /\ changes \in Nat

\* One flag is ahead of the other: the logs are closed, and the application may quit,
\* only when stop has settled; until then whoever asked is remembered, nothing is
\* handled any more and the backend is stopping.  A window is open from its creation
\* until it is asked to quit.
QuitInvariant ==
  /\ quitting.allowed = quitting.logsClosed
  /\ quitting.logsClosed => exited /\ backend \in {"stopped", "stuck"}
  /\ quitting.requested => boot = "up" /\ handled = {}
  /\ quitting.requested /\ ~exited => backend = "stopping"
  /\ backend = "stopping" => quitting.requested
  /\ boot = "load" => win.open \/ exited
  /\ boot = "up" /\ ~win.open => quitting.requested
  /\ boot = "up" /\ exited => quitting.logsClosed

\* What the page will show once all that is on its way has come: the last state in
\* the lane, or what it shows already.  A page is gone with its window, which is
\* created only once.
TitleInvariant ==
  /\ page = "gone" /\ ~exited => boot = "up"
  /\ ~missed /\ announce = 0 /\ page # "gone" =>
       Published = IF lane = <<>> THEN titled ELSE lane[Len(lane)]
-----------------------------------------------------------------------------
\* Nothing is on its way when the process starts, and nothing is asked of it.
LEMMA DesktopTypeInit ==
  ASSUME DesktopInit
  PROVE  DesktopType
<1>1. lane \in Seq(States) /\ announce \in Nat /\ changes \in Nat
  <2>1. <<>> \in Seq(States)
    BY EmptySeq
  <2> QED
    BY <2>1 DEF DesktopInit
<1>2. win \in [open : BOOLEAN, focused : BOOLEAN, full : BOOLEAN]
  BY DEF DesktopInit
<1>3. quitting \in [requested : BOOLEAN, allowed : BOOLEAN, logsClosed : BOOLEAN]
  BY DEF DesktopInit
<1> QED
  BY <1>1, <1>2, <1>3 DEF DesktopInit, DesktopType

\* Every step keeps the types.
LEMMA DesktopTypeStep ==
  ASSUME DesktopType, DesktopNext
  PROVE  DesktopType'
<1> USE DEF DesktopType
<1>1. CASE CreatesWindow \/ PageSubscribes \/ Boots
  BY <1>1 DEF CreatesWindow, PageSubscribes, Boots, windowVars
<1>2. CASE SystemQuits
  BY <1>2 DEF SystemQuits, Quit, Exits, RequestQuit
<1>3. CASE WindowCloses
  BY <1>3 DEF WindowCloses, Exits, RequestQuit
<1>4. CASE StopSettles
  BY <1>4 DEF StopSettles, Exits
<1>5. CASE NativeChanges
  BY <1>5 DEF NativeChanges
<1>6. CASE Announces
  <2>1. Published \in States
    BY DEF Published, States
  <2>2. Append(lane, Published) \in Seq(States)
    BY <2>1, AppendProperties
  <2>3. lane' = Append(lane, Published) \/ lane' = lane
    BY <1>6 DEF Announces
  <2>4. lane' \in Seq(States)
    BY <2>2, <2>3
  <2>5. announce' \in Nat /\ missed' \in BOOLEAN
    <3>1. missed' = TRUE \/ missed' = FALSE
      BY <1>6 DEF Announces
    <3>2. announce' \in Nat
      BY <1>6 DEF Announces
    <3> QED
      BY <3>1, <3>2, Zenon
  <2>6. UNCHANGED <<boot, win, quitting, exited, changes>>
    BY <1>6 DEF Announces
  <2> QED
    BY <2>4, <2>5, <2>6
<1>7. CASE Delivers
  BY <1>7, HeadTailProperties DEF Delivers
<1>8. CASE PageAsks
  BY <1>8 DEF PageAsks
<1>9. CASE WindowCommanded
  <2>1. CASE Quit /\ UNCHANGED <<announce, changes, lane, missed, boot>>
    BY <2>1 DEF Quit, Exits, RequestQuit
  <2>2. CASE ~(Quit /\ UNCHANGED <<announce, changes, lane, missed, boot>>)
    BY <1>9, <2>2 DEF WindowCommanded, ExecuteWindowCommand
  <2> QED
    BY <2>1, <2>2
<1> QED
  BY <1>1, <1>2, <1>3, <1>4, <1>5, <1>6, <1>7, <1>8, <1>9 DEF DesktopNext

\* Whoever asks the application to quit, and however often.
LEMMA QuittingKeepsInvariant ==
  ASSUME DesktopType, QuitInvariant, Quit, ~exited, UNCHANGED boot
  PROVE  QuitInvariant'
<1>1. CASE boot # "up" \/ quitting.allowed
  BY <1>1 DEF DesktopType, QuitInvariant, Quit, Exits
<1>2. CASE boot = "up" /\ ~quitting.allowed
  BY <1>2 DEF DesktopType, QuitInvariant, Quit, RequestQuit
<1> QED
  BY <1>1, <1>2 DEF DesktopType

\* Every step keeps the end of the application in order.
LEMMA QuitStep ==
  ASSUME DesktopType, QuitInvariant, DesktopNext
  PROVE  QuitInvariant'
<1> USE DEF DesktopType, QuitInvariant
<1>1. CASE CreatesWindow
  BY <1>1 DEF CreatesWindow
<1>2. CASE Boots
  BY <1>2 DEF Boots, windowVars
<1>3. CASE SystemQuits
  BY <1>3, QuittingKeepsInvariant DEF SystemQuits
<1>4. CASE WindowCloses
  BY <1>4 DEF WindowCloses, Exits, RequestQuit
<1>5. CASE StopSettles
  BY <1>5 DEF StopSettles, Exits
<1>6. CASE NativeChanges
  BY <1>6 DEF NativeChanges
<1>7. CASE PageSubscribes \/ Announces \/ Delivers \/ PageAsks
  BY <1>7 DEF PageSubscribes, Announces, Delivers, PageAsks
<1>8. CASE WindowCommanded
  <2>1. ~exited /\ UNCHANGED boot
    BY <1>8 DEF WindowCommanded
  <2>2. CASE Quit
    BY <2>1, <2>2, QuittingKeepsInvariant
  <2>3. CASE ~Quit
    BY <1>8, <2>3 DEF WindowCommanded, ExecuteWindowCommand
  <2> QED
    BY <2>2, <2>3
<1> QED
  BY <1>1, <1>2, <1>3, <1>4, <1>5, <1>6, <1>7, <1>8 DEF DesktopNext

\* The application ends only when stop has settled and the logs are closed, from
\* wherever and however often it was asked to (main.ts:600).
THEOREM QuitWaits == Spec => []QuitWaitsForTheBackend
<1>1. Init => DesktopType /\ QuitInvariant
  <2> SUFFICES ASSUME DesktopInit PROVE DesktopType /\ QuitInvariant
    BY DEF Init
  <2>1. ~quitting.requested /\ ~quitting.allowed /\ ~quitting.logsClosed
    BY DEF DesktopInit
  <2>2. quitting.allowed = quitting.logsClosed
    BY DEF DesktopInit
  <2> QED
    BY <2>1, <2>2, DesktopTypeInit DEF DesktopInit, QuitInvariant
<1>2. DesktopType /\ QuitInvariant /\ [Next]_vars => DesktopType' /\ QuitInvariant'
  <2> SUFFICES ASSUME DesktopType, QuitInvariant, [Next]_vars
               PROVE  DesktopType' /\ QuitInvariant'
    OBVIOUS
  <2>1. CASE Only("desktop") /\ DesktopNext
    BY <2>1, DesktopTypeStep, QuitStep
  <2>2. CASE UNCHANGED desktopVars
    BY <2>2 DEF desktopVars, windowVars, DesktopType, QuitInvariant
  <2> QED
    BY <2>1, <2>2 DEF Next, Only, vars
<1>3. DesktopType /\ QuitInvariant => QuitWaitsForTheBackend
  BY DEF DesktopType, QuitInvariant, QuitWaitsForTheBackend
<1> QED
  BY <1>1, <1>2, <1>3, PTL DEF Spec
-----------------------------------------------------------------------------
(* The title bar *)

\* Every step keeps the last state that is on its way that of the window.
LEMMA TitleStep ==
  ASSUME DesktopType, TitleInvariant, DesktopNext
  PROVE  TitleInvariant'
<1> USE DEF DesktopType, TitleInvariant, Published
<1>1. CASE CreatesWindow \/ PageSubscribes \/ Boots
  <2>1. CASE CreatesWindow
    BY <2>1 DEF CreatesWindow
  <2>2. CASE PageSubscribes
    BY <2>2 DEF PageSubscribes
  <2>3. CASE Boots
    BY <2>3 DEF Boots, windowVars
  <2> QED
    BY <1>1, <2>1, <2>2, <2>3
<1>2. CASE SystemQuits
  BY <1>2 DEF SystemQuits, Quit, Exits, RequestQuit
<1>3. CASE WindowCloses
  BY <1>3 DEF WindowCloses, Exits, RequestQuit
<1>4. CASE StopSettles
  BY <1>4 DEF StopSettles, Exits
<1>5. CASE NativeChanges
  BY <1>5 DEF NativeChanges
<1>6. CASE Announces
  <2>1. CASE lane' = Append(lane, Published)
    <3>1. Published \in States
      BY DEF States
    <3>2. lane' # <<>> /\ lane'[Len(lane')] = Published
      BY <2>1, <3>1, AppendProperties
    <3> QED
      BY <1>6, <3>2 DEF Announces
  <2>2. CASE lane' # Append(lane, Published)
    BY <1>6, <2>2 DEF Announces
  <2> QED
    BY <2>1, <2>2
<1>7. CASE Delivers
  <2> DEFINE rest == Tail(lane)
  <2>1. /\ Len(lane) \in Nat \ {0} /\ Len(rest) = Len(lane) - 1
        /\ rest \in Seq(States)
        /\ \A i \in 1..Len(rest) : rest[i] = lane[i + 1]
    BY <1>7, HeadTailProperties, EmptySeq DEF Delivers
  <2>2. lane' = rest /\ Head(lane) = lane[1]
    BY <1>7 DEF Delivers
  <2> HIDE DEF rest
  <2>3. CASE rest # <<>>
    <3>1. Len(rest) \in Nat \ {0}
      BY <2>1, <2>3, EmptySeq
    <3>2. rest[Len(rest)] = lane[Len(lane)]
      BY <2>1, <3>1
    <3> QED
      BY <1>7, <2>2, <2>3, <3>2 DEF Delivers
  <2>4. CASE rest = <<>>
    <3>1. Len(lane) = 1
      BY <2>1, <2>4, EmptySeq
    <3> QED
      BY <1>7, <2>2, <2>4, <3>1 DEF Delivers
  <2> QED
    BY <2>3, <2>4
<1>8. CASE PageAsks
  BY <1>8 DEF PageAsks
<1>9. CASE WindowCommanded
  BY <1>9 DEF WindowCommanded, ExecuteWindowCommand, Quit, Exits, RequestQuit
<1> QED
  BY <1>1, <1>2, <1>3, <1>4, <1>5, <1>6, <1>7, <1>8, <1>9 DEF DesktopNext

\* Once nothing is on its way the title bar shows the window as it is, if the last
\* change was announced to somebody (window-command-handler.ts:116).
THEOREM TitleBarFollows == Spec => []TitleBarIsCurrent
<1>1. Init => DesktopType /\ TitleInvariant
  <2> SUFFICES ASSUME DesktopInit PROVE DesktopType /\ TitleInvariant
    BY DEF Init
  <2>1. Published = titled
    BY DEF DesktopInit, Published
  <2> QED
    BY <2>1, DesktopTypeInit DEF DesktopInit, TitleInvariant
<1>2. DesktopType /\ TitleInvariant /\ [Next]_vars => DesktopType' /\ TitleInvariant'
  <2> SUFFICES ASSUME DesktopType, TitleInvariant, [Next]_vars
               PROVE  DesktopType' /\ TitleInvariant'
    OBVIOUS
  <2>1. CASE Only("desktop") /\ DesktopNext
    BY <2>1, DesktopTypeStep, TitleStep
  <2>2. CASE UNCHANGED desktopVars
    BY <2>2 DEF desktopVars, windowVars, DesktopType, TitleInvariant, Published
  <2> QED
    BY <2>1, <2>2 DEF Next, Only, vars
<1>3. TitleInvariant => TitleBarIsCurrent
  BY DEF TitleInvariant, TitleBarIsCurrent, Published
<1> QED
  BY <1>1, <1>2, <1>3, PTL DEF Spec
-----------------------------------------------------------------------------
(* A chart on the page *)

\* A chart is made by an effect or by the observer, whichever comes first with a
\* size, so there is one as soon as neither is still to come; it is given the last
\* option then or by the effect of a later render.  A fallback has no container,
\* hence no size, and nothing is made behind it.
SurfaceInvariant ==
  /\ onPage \in BOOLEAN /\ sized \in BOOLEAN /\ instance \in BOOLEAN
  /\ failing \in BOOLEAN /\ fallback \in BOOLEAN /\ setup \in BOOLEAN
  /\ update \in BOOLEAN /\ observed \in BOOLEAN
  /\ alive = (IF instance THEN 1 ELSE 0)
  /\ ~onPage => ~instance /\ ~setup /\ ~observed
  /\ setup => onPage /\ ~instance /\ ~observed /\ ~fallback
  /\ failing => ~instance
  /\ fallback => ~instance /\ ~sized
  /\ instance /\ ~update => applied = option
  /\ onPage /\ sized /\ ~failing => instance \/ setup \/ observed

\* Every step of a chart keeps it.
LEMMA SurfaceStep ==
  ASSUME SurfaceInvariant, SurfaceNext
  PROVE  SurfaceInvariant'
<1> USE DEF SurfaceInvariant
<1>1. CASE Mounts
  BY <1>1 DEF Mounts
<1>2. CASE SetsUp
  <2>1. CASE ~sized
    BY <1>2, <2>1 DEF SetsUp
  <2>2. CASE sized /\ Fail
    BY <1>2, <2>2 DEF SetsUp, Fail
  <2>3. CASE sized /\ instance' = TRUE /\ alive' = 1 /\ applied' = option /\ failing' = FALSE
    BY <1>2, <2>3 DEF SetsUp
  <2> QED
    BY <1>2, <2>1, <2>2, <2>3 DEF SetsUp, Initialize
<1>3. CASE Updates
  <2>1. CASE Fail
    BY <1>3, <2>1 DEF Updates, Fail
  <2>2. CASE applied' = option /\ UNCHANGED <<instance, failing, alive>>
    BY <1>3, <2>2 DEF Updates
  <2>3. CASE (~instance \/ applied = option) /\ UNCHANGED <<instance, applied, failing, alive>>
    BY <1>3, <2>3 DEF Updates
  <2> QED
    BY <1>3, <2>1, <2>2, <2>3 DEF Updates
<1>4. CASE Draws
  <2>1. (sized' <=> sized /\ ~failing) /\ (fallback' <=> failing)
    BY <1>4 DEF Draws
  <2>2. CASE update' = TRUE
    BY <1>4, <2>1, <2>2 DEF Draws
  <2>3. CASE failing # fallback /\ UNCHANGED <<option, update>>
    BY <1>4, <2>1, <2>3 DEF Draws
  <2> QED
    BY <1>4, <2>2, <2>3 DEF Draws
<1>5. CASE Resized
  BY <1>5 DEF Resized
<1>6. CASE Observed
  <2>1. CASE Fail
    BY <1>6, <2>1 DEF Observed, Fail
  <2>2. CASE sized /\ instance' = TRUE /\ alive' = 1 /\ applied' = option /\ failing' = FALSE
    BY <1>6, <2>2 DEF Observed
  <2>3. CASE (~sized \/ instance) /\ UNCHANGED <<instance, applied, failing, alive>>
    BY <1>6, <2>3 DEF Observed
  <2> QED
    BY <1>6, <2>1, <2>2, <2>3 DEF Observed, Initialize
<1>7. CASE Unmounts
  BY <1>7 DEF Unmounts
<1> QED
  BY <1>1, <1>2, <1>3, <1>4, <1>5, <1>6, <1>7 DEF SurfaceNext

\* What is on the page and has a size shows the option of the last render or the
\* fallback, and there is no instance besides the one that is shown
\* (use-echart.ts:87, 195).
THEOREM SurfaceIsRight == Spec => []SurfaceShowsTheLast
<1>1. Init => SurfaceInvariant
  BY DEF Init, SurfaceInit, SurfaceInvariant
<1>2. SurfaceInvariant /\ [Next]_vars => SurfaceInvariant'
  <2> SUFFICES ASSUME SurfaceInvariant, [Next]_vars PROVE SurfaceInvariant'
    OBVIOUS
  <2>1. CASE Only("surface") /\ SurfaceNext
    BY <2>1, SurfaceStep
  <2>2. CASE UNCHANGED surfaceVars
    BY <2>2 DEF surfaceVars, SurfaceInvariant
  <2> QED
    BY <2>1, <2>2 DEF Next, Only, vars
<1>3. SurfaceInvariant => SurfaceShowsTheLast
  BY DEF SurfaceInvariant, SurfaceShowsTheLast
<1> QED
  BY <1>1, <1>2, <1>3, PTL DEF Spec
-----------------------------------------------------------------------------
(* A chart's series *)

\* What a series is: points in the order of their times, one for each.
Points == [time : Nat, value : Int]
IsSeries(points) ==
  /\ points \in Seq(Points)
  /\ \A i, j \in 1..Len(points) : i < j => points[i].time < points[j].time

\* The function inside LowerBound is what its equation says.
LEMMA SearchEquation ==
  ASSUME NEW points, NEW t, Len(points) \in Nat
  PROVE  \E f : /\ f[0] = [low |-> 1, high |-> Len(points) + 1]
                /\ \A n \in Nat : n < Len(points) => f[n + 1] = Narrowed(points, t, f[n])
                /\ LowerBound(points, t) = f[Len(points)].low
<1> DEFINE first == [low |-> 1, high |-> Len(points) + 1]
           Is(f, n) == f = [i \in 0..n |-> IF i = 0 THEN first
                                           ELSE Narrowed(points, t, f[i - 1])]
           T == {n \in Nat : \E f : Is(f, n)}
<1>1. 0 \in T
  <2>1. Is([i \in 0..0 |-> first], 0)
    OBVIOUS
  <2> QED
    BY <2>1
<1>2. ASSUME NEW n \in Nat, n \in T PROVE n + 1 \in T
  <2>1. PICK f : Is(f, n)
    BY <1>2
  <2> DEFINE e == Narrowed(points, t, f[n])
             g == [i \in 0..(n + 1) |-> IF i = n + 1 THEN e ELSE f[i]]
  <2>2. ASSUME NEW i \in 0..(n + 1)
        PROVE  g[i] = IF i = 0 THEN first ELSE Narrowed(points, t, g[i - 1])
    <3>1. CASE i = n + 1
      BY <3>1
    <3>2. CASE i \in 0..n
      <4>1. g[i] = f[i] /\ (i # 0 => g[i - 1] = f[i - 1])
        BY <3>2
      <4>2. f[i] = IF i = 0 THEN first ELSE Narrowed(points, t, f[i - 1])
        BY <2>1, <3>2
      <4> QED
        BY <4>1, <4>2
    <3> QED
      BY <3>1, <3>2
  <2>3. Is(g, n + 1)
    BY <2>2
  <2>4. \E h : Is(h, n + 1)
    <3> HIDE DEF g, Is
    <3> QED
      BY <2>3
  <2> HIDE DEF Is
  <2> QED
    BY <2>4
<1>3. Len(points) \in T
  <2> HIDE DEF T
  <2> QED
    BY <1>1, <1>2, SetInduction
<1>4. PICK f : Is(f, Len(points))
  BY <1>3
<1> DEFINE g == CHOOSE h : Is(h, Len(points))
<1>5. Is(g, Len(points))
  BY <1>4
<1>6. LowerBound(points, t) = g[Len(points)].low
  BY DEF LowerBound
<1> HIDE DEF g
<1>7. g[0] = first
  BY <1>5
<1>8. ASSUME NEW n \in Nat, n < Len(points)
      PROVE  g[n + 1] = Narrowed(points, t, g[n])
  <2>1. n + 1 \in 0..Len(points) /\ n + 1 # 0 /\ (n + 1) - 1 = n
    BY <1>8
  <2> QED
    BY <1>5, <2>1
<1> QED
  BY <1>6, <1>7, <1>8

\* The bounds of the search after n turns: what is below them is earlier, what is not below
\* them is not, and there is less between them with each turn.
Between(points, t, w, n) ==
  /\ w = [low |-> w.low, high |-> w.high]
  /\ w.low \in 1..(Len(points) + 1) /\ w.high \in w.low..(Len(points) + 1)
  /\ \A i \in 1..Len(points) : i < w.low => points[i].time < t
  /\ \A i \in 1..Len(points) : i >= w.high => points[i].time >= t
  /\ w.low = w.high \/ w.high - w.low <= Len(points) - n

LEMMA SearchNarrows ==
  ASSUME NEW points, IsSeries(points), NEW t \in Int, NEW w, NEW n \in Nat,
         Between(points, t, w, n)
  PROVE  Between(points, t, Narrowed(points, t, w), n + 1)
<1>1. PICK L \in Nat, low \in Nat, high \in Nat :
        L = Len(points) /\ low = w.low /\ high = w.high
  BY LenProperties DEF IsSeries, Between
<1>2. /\ low \in 1..(L + 1) /\ high \in low..(L + 1)
      /\ \A i \in 1..L : i < low => points[i].time < t
      /\ \A i \in 1..L : i >= high => points[i].time >= t
      /\ low = high \/ high - low <= L - n
  BY <1>1 DEF Between
<1>3. PICK m \in Int : m = low + (high - low) \div 2
  OBVIOUS
<1>4. \A i \in 1..L : points[i].time \in Nat
  <2>1. \A i \in 1..L : points[i] \in Points
    BY <1>1, LenProperties DEF IsSeries
  <2> QED
    BY <2>1 DEF Points
<1>5. \A i, j \in 1..L : i < j => points[i].time < points[j].time
  BY <1>1 DEF IsSeries
<1>6. CASE low >= high
  <2>1. Narrowed(points, t, w) = w
    BY <1>1, <1>6 DEF Narrowed
  <2>2. low = high
    BY <1>2, <1>6
  <2> QED
    BY <1>1, <2>1, <2>2 DEF Between
<1>7. CASE low < high
  <2>1. m \in low..(high - 1) /\ m \in 1..L
    BY <1>2, <1>3, <1>7
  <2>2. Narrowed(points, t, w) = IF points[m].time < t
                                 THEN [low |-> m + 1, high |-> high]
                                 ELSE [low |-> low, high |-> m]
    BY <1>1, <1>3, <1>7 DEF Narrowed
  <2>3. CASE points[m].time < t
    <3>1. \A i \in 1..L : i < m + 1 => points[i].time < t
      BY <1>4, <1>5, <2>1, <2>3
    <3>2. m + 1 \in 1..(L + 1) /\ high \in (m + 1)..(L + 1) /\ high - (m + 1) <= L - (n + 1)
      BY <1>2, <1>7, <2>1
    <3>3. PICK v : v = [low |-> m + 1, high |-> high]
      OBVIOUS
    <3>4. v = [low |-> v.low, high |-> v.high] /\ v.low = m + 1 /\ v.high = high
      BY <3>3
    <3>5. Between(points, t, v, n + 1)
      BY <1>1, <1>2, <3>1, <3>2, <3>4 DEF Between
    <3> QED
      BY <2>2, <2>3, <3>3, <3>5
  <2>4. CASE ~(points[m].time < t)
    <3>1. \A i \in 1..L : i >= m => points[i].time >= t
      BY <1>4, <1>5, <2>1, <2>4
    <3>2. m \in low..(L + 1) /\ m - low <= L - (n + 1)
      BY <1>2, <1>7, <2>1
    <3>3. PICK v : v = [low |-> low, high |-> m]
      OBVIOUS
    <3>4. v = [low |-> v.low, high |-> v.high] /\ v.low = low /\ v.high = m
      BY <3>3
    <3>5. Between(points, t, v, n + 1)
      BY <1>1, <1>2, <3>1, <3>2, <3>4 DEF Between
    <3> QED
      BY <2>2, <2>4, <3>3, <3>5
  <2> QED
    BY <2>3, <2>4
<1> QED
  BY <1>2, <1>6, <1>7

\* The search finds the first point that is not earlier.
LEMMA SearchFindsFirst ==
  ASSUME NEW points, IsSeries(points), NEW t \in Int
  PROVE  /\ LowerBound(points, t) \in 1..(Len(points) + 1)
         /\ \A i \in 1..Len(points) : i < LowerBound(points, t) => points[i].time < t
         /\ \A i \in 1..Len(points) : i >= LowerBound(points, t) => points[i].time >= t
<1>1. PICK L \in Nat : L = Len(points)
  BY LenProperties DEF IsSeries
<1>2. PICK f : /\ f[0] = [low |-> 1, high |-> L + 1]
               /\ \A n \in Nat : n < L => f[n + 1] = Narrowed(points, t, f[n])
               /\ LowerBound(points, t) = f[L].low
  BY <1>1, SearchEquation
<1> DEFINE T == {n \in Nat : n <= L => Between(points, t, f[n], n)}
<1>3. 0 \in T
  <2>1. PICK v : v = f[0]
    OBVIOUS
  <2>2. v = [low |-> v.low, high |-> v.high] /\ v.low = 1 /\ v.high = L + 1
    BY <1>2, <2>1
  <2>3. Between(points, t, v, 0)
    BY <1>1, <2>2 DEF Between
  <2> QED
    BY <2>1, <2>3
<1>4. ASSUME NEW n \in Nat, n \in T PROVE n + 1 \in T
  <2>1. CASE n < L
    <3>1. f[n + 1] = Narrowed(points, t, f[n])
      BY <1>2, <2>1
    <3>2. Between(points, t, f[n], n)
      BY <1>4, <2>1
    <3>3. Between(points, t, Narrowed(points, t, f[n]), n + 1)
      BY <3>2, SearchNarrows
    <3> QED
      BY <3>1, <3>3
  <2>2. CASE ~(n < L)
    BY <2>2
  <2> QED
    BY <2>1, <2>2
<1>5. L \in T
  <2> HIDE DEF T
  <2> QED
    BY <1>3, <1>4, SetInduction
<1>6. PICK v : v = f[L]
  OBVIOUS
<1>7. Between(points, t, v, L)
  BY <1>5, <1>6
<1>8. v.low = v.high /\ v.low \in 1..(L + 1)
  BY <1>1, <1>7 DEF Between
<1>9. /\ \A i \in 1..L : i < v.low => points[i].time < t
      /\ \A i \in 1..L : i >= v.low => points[i].time >= t
  BY <1>1, <1>7, <1>8 DEF Between
<1> QED
  BY <1>1, <1>2, <1>6, <1>8, <1>9

\* An insertion keeps the order, and the point takes the place of one of its time.
LEMMA InsertKeepsOrder ==
  ASSUME NEW points, IsSeries(points), NEW p \in Points
  PROVE  /\ IsSeries(Insert(points, p))
         /\ ToSet(Insert(points, p)) = {q \in ToSet(points) : q.time # p.time} \union {p}
<1>1. PICK i : i = LowerBound(points, p.time)
  OBVIOUS
<1>2. PICK t \in Nat : t = p.time
  BY DEF Points
<1>3. PICK L \in Nat : L = Len(points) /\ DOMAIN points = 1..L
  BY LenProperties DEF IsSeries
<1>4. /\ i \in 1..(L + 1)
      /\ \A j \in 1..L : j < i => points[j].time < t
      /\ \A j \in 1..L : j >= i => points[j].time >= t
  <2>1. p.time \in Int
    BY <1>2
  <2> QED
    BY <1>1, <1>2, <1>3, <2>1, SearchFindsFirst
<1>5. \A j \in 1..L : points[j] \in Points /\ points[j].time \in Nat
  <2>1. \A j \in 1..L : points[j] \in Points
    BY <1>3, ElementOfSeq DEF IsSeries
  <2> QED
    BY <2>1 DEF Points
<1>6. \A j, k \in 1..L : j < k => points[j].time < points[k].time
  BY <1>3 DEF IsSeries
<1>7. CASE i <= L /\ points[i].time = t
  <2>1. Insert(points, p) = [points EXCEPT ![i] = p]
    BY <1>1, <1>2, <1>3, <1>7 DEF Insert
  <2>2. PICK r : r = [points EXCEPT ![i] = p]
    OBVIOUS
  <2>3. /\ r \in Seq(Points) /\ Len(r) = L /\ DOMAIN r = 1..L
        /\ \A j \in 1..L : r[j] = IF j = i THEN p ELSE points[j]
    BY <1>3, <1>4, <1>7, <2>2, ExceptSeq, LenProperties DEF IsSeries
  <2>4. \A j \in 1..L : r[j].time = points[j].time
    BY <1>2, <1>7, <2>3
  <2>5. IsSeries(r)
    BY <1>6, <2>3, <2>4 DEF IsSeries
  <2>6. \A j \in 1..L : j # i => points[j].time # t
    BY <1>4, <1>5, <1>6, <1>7
  <2>7. ToSet(r) = {q \in ToSet(points) : q.time # t} \union {p}
    BY <1>2, <1>3, <1>4, <1>7, <2>3, <2>6 DEF ToSet
  <2> QED
    BY <1>2, <2>1, <2>2, <2>5, <2>7
<1>8. CASE ~(i <= L /\ points[i].time = t)
  <2>1. Insert(points, p) = InsertAt(points, i, p)
    BY <1>1, <1>2, <1>3, <1>8 DEF Insert
  <2>2. PICK r : r = InsertAt(points, i, p)
    OBVIOUS
  <2>3. /\ r \in Seq(Points) /\ Len(r) = L + 1 /\ DOMAIN r = 1..(L + 1)
        /\ \A j \in 1..L : j < i => r[j] = points[j]
        /\ r[i] = p
        /\ \A j \in 1..L : j >= i => r[j + 1] = points[j]
    <3>1. points \in Seq(Points) /\ i \in 1..(Len(points) + 1)
      BY <1>3, <1>4 DEF IsSeries
    <3>2. /\ InsertAt(points, i, p) \in Seq(Points)
          /\ Len(InsertAt(points, i, p)) = Len(points) + 1
          /\ \A j \in 1..(Len(points) + 1) :
               InsertAt(points, i, p)[j] = IF j < i THEN points[j]
                                           ELSE IF j = i THEN p ELSE points[j - 1]
      BY <3>1, InsertAtProperties
    <3>3. /\ r \in Seq(Points) /\ Len(r) = L + 1
          /\ \A j \in 1..(L + 1) :
               r[j] = IF j < i THEN points[j] ELSE IF j = i THEN p ELSE points[j - 1]
      BY <1>3, <2>2, <3>2
    <3>4. DOMAIN r = 1..(L + 1)
      BY <3>3, LenProperties
    <3>5. \A j \in 1..L : j \in 1..(L + 1) /\ j + 1 \in 1..(L + 1) /\ (j + 1) - 1 = j
      OBVIOUS
    <3>6. \A j \in 1..L : j >= i => ~(j + 1 < i) /\ j + 1 # i
      BY <1>4
    <3>7. \A j \in 1..L : j < i => r[j] = points[j]
      BY <3>3, <3>5
    <3>8. r[i] = p
      BY <1>4, <3>3
    <3>9. ASSUME NEW j \in 1..L, j >= i PROVE r[j + 1] = points[j]
      BY <3>3, <3>5, <3>6, <3>9
    <3> QED
      BY <3>3, <3>4, <3>7, <3>8, <3>9
  <2>4. \A j \in 1..L : /\ j < i => points[j].time < t
                        /\ j >= i => points[j].time > t
    <3>1. \A j \in 1..L : j > i => points[i].time < points[j].time
      BY <1>4, <1>6
    <3>2. i \in 1..L => points[i].time > t
      BY <1>4, <1>5, <1>8
    <3> QED
      BY <1>4, <1>5, <3>1, <3>2
  \* What stands at a place of the new sequence.
  <2>5. ASSUME NEW k \in 1..(L + 1)
        PROVE  k = i \/ (k < i /\ k \in 1..L) \/ \E j \in 1..L : j >= i /\ k = j + 1
    <3>1. k > i => k - 1 \in 1..L /\ k - 1 >= i /\ k = (k - 1) + 1
      BY <1>4
    <3>2. k < i => k \in 1..L
      BY <1>4
    <3> QED
      BY <1>4, <3>1, <3>2
  <2>6. ASSUME NEW j \in 1..(L + 1), NEW k \in 1..(L + 1), j < k
        PROVE  r[j].time < r[k].time
    <3>1. CASE k < i /\ k \in 1..L
      <4>1. j \in 1..L /\ j < i
        BY <1>4, <2>6, <3>1
      <4>2. points[j].time < points[k].time
        BY <1>6, <2>6, <3>1, <4>1
      <4> QED
        BY <2>3, <3>1, <4>1, <4>2
    <3>2. CASE k = i
      <4>1. j \in 1..L /\ j < i
        BY <1>4, <2>6, <3>2
      <4> QED
        BY <1>2, <2>3, <2>4, <3>2, <4>1
    <3>3. CASE \E m \in 1..L : m >= i /\ k = m + 1
      <4>1. PICK m \in 1..L : m >= i /\ k = m + 1
        BY <3>3
      <4>2. r[k] = points[m] /\ points[m].time > t
        BY <2>3, <2>4, <4>1
      <4>3. CASE j < i /\ j \in 1..L
        <5>1. r[j] = points[j] /\ points[j].time < t
          BY <2>3, <2>4, <4>3
        <5> QED
          BY <1>5, <4>2, <4>3, <5>1
      <4>4. CASE j = i
        BY <1>2, <2>3, <4>2, <4>4
      <4>5. CASE \E n \in 1..L : n >= i /\ j = n + 1
        <5>1. PICK n \in 1..L : n >= i /\ j = n + 1
          BY <4>5
        <5>2. n < m
          BY <2>6, <4>1, <5>1
        <5>3. r[j] = points[n]
          BY <2>3, <5>1
        <5> QED
          BY <1>6, <4>2, <5>2, <5>3
      <4> QED
        BY <2>5, <4>3, <4>4, <4>5
    <3> QED
      BY <2>5, <3>1, <3>2, <3>3
  <2>7. IsSeries(r)
    BY <2>3, <2>6 DEF IsSeries
  <2>8. {q \in ToSet(points) : q.time # t} = ToSet(points)
    <3>1. \A j \in 1..L : points[j].time # t
      BY <1>4, <1>5, <2>4
    <3> QED
      BY <1>3, <3>1 DEF ToSet
  <2>9. ToSet(r) = ToSet(points) \union {p}
    <3>1. ASSUME NEW k \in 1..(L + 1)
          PROVE  r[k] = p \/ \E j \in 1..L : r[k] = points[j]
      BY <2>3, <2>5
    <3>2. ASSUME NEW j \in 1..L PROVE \E k \in 1..(L + 1) : r[k] = points[j]
      <4>1. j < i \/ j >= i
        BY <1>4
      <4>2. j \in 1..(L + 1) /\ j + 1 \in 1..(L + 1)
        OBVIOUS
      <4> QED
        BY <2>3, <4>1, <4>2
    <3>3. ToSet(r) = {r[k] : k \in 1..(L + 1)} /\ ToSet(points) = {points[j] : j \in 1..L}
      BY <1>3, <2>3 DEF ToSet
    <3>4. p \in ToSet(r)
      BY <1>4, <2>3, <3>3
    <3>5. ToSet(r) \subseteq ToSet(points) \union {p}
      BY <3>1, <3>3
    <3>6. ToSet(points) \subseteq ToSet(r)
      BY <3>2, <3>3
    <3> QED
      BY <3>4, <3>5, <3>6
  <2> QED
    BY <1>2, <2>1, <2>2, <2>7, <2>8, <2>9
<1> QED
  BY <1>7, <1>8

\* The function inside Filled is what its equation says.
LEMMA FilledEquation ==
  ASSUME NEW points, NEW axis, NEW batch, NEW cutoff, Len(batch) \in Nat
  PROVE  \E f : /\ f[0] = points
                /\ \A n \in Nat : n < Len(batch) =>
                     f[n + 1] = IF batch[n + 1].axis = axis /\ batch[n + 1].time >= cutoff
                                THEN Insert(f[n], Point(batch[n + 1].time, batch[n + 1].value))
                                ELSE f[n]
                /\ Filled(points, axis, batch, cutoff) = f[Len(batch)]
<1> DEFINE Next1(v, i) == IF batch[i].axis = axis /\ batch[i].time >= cutoff
                          THEN Insert(v, Point(batch[i].time, batch[i].value)) ELSE v
           Is(f, n) == f = [i \in 0..n |-> IF i = 0 THEN points
                              ELSE IF batch[i].axis = axis /\ batch[i].time >= cutoff
                              THEN Insert(f[i - 1], Point(batch[i].time, batch[i].value))
                              ELSE f[i - 1]]
           T == {n \in Nat : \E f : Is(f, n)}
<1>1. 0 \in T
  <2>1. Is([i \in 0..0 |-> points], 0)
    OBVIOUS
  <2> QED
    BY <2>1
<1>2. ASSUME NEW n \in Nat, n \in T PROVE n + 1 \in T
  <2>1. PICK f : Is(f, n)
    BY <1>2
  <2> DEFINE e == Next1(f[n], n + 1)
             g == [i \in 0..(n + 1) |-> IF i = n + 1 THEN e ELSE f[i]]
  <2>2. ASSUME NEW i \in 0..(n + 1)
        PROVE  g[i] = IF i = 0 THEN points ELSE Next1(g[i - 1], i)
    <3>1. CASE i = n + 1
      BY <3>1
    <3>2. CASE i \in 0..n
      <4>1. g[i] = f[i] /\ (i # 0 => g[i - 1] = f[i - 1])
        BY <3>2
      <4>2. f[i] = IF i = 0 THEN points ELSE Next1(f[i - 1], i)
        BY <2>1, <3>2
      <4> QED
        BY <4>1, <4>2
    <3> QED
      BY <3>1, <3>2
  <2>3. Is(g, n + 1)
    BY <2>2
  <2>4. \E h : Is(h, n + 1)
    <3> HIDE DEF g, Is
    <3> QED
      BY <2>3
  <2> HIDE DEF Is
  <2> QED
    BY <2>4
<1>3. Len(batch) \in T
  <2> HIDE DEF T
  <2> QED
    BY <1>1, <1>2, SetInduction
<1>4. PICK f : Is(f, Len(batch))
  BY <1>3
<1> DEFINE g == CHOOSE h : Is(h, Len(batch))
<1>5. Is(g, Len(batch))
  BY <1>4
<1>6. Filled(points, axis, batch, cutoff) = g[Len(batch)]
  BY DEF Filled
<1> HIDE DEF g
<1>7. g[0] = points
  BY <1>5
<1>8. ASSUME NEW n \in Nat, n < Len(batch)
      PROVE  g[n + 1] = Next1(g[n], n + 1)
  <2>1. n + 1 \in 0..Len(batch) /\ n + 1 # 0 /\ (n + 1) - 1 = n
    BY <1>8
  <2> QED
    BY <1>5, <2>1
<1> QED
  BY <1>6, <1>7, <1>8

\* The points of a batch, each with its axis.
IsBatch(batch) ==
  /\ Len(batch) \in Nat /\ DOMAIN batch = 1..Len(batch)
  /\ \A i \in DOMAIN batch : batch[i].time \in Nat /\ batch[i].value \in Int

\* The points there are after the first n of a batch: the old ones of other times, and of
\* its points of the axis and not before the cutoff the last of each time.
Chosen(batch, axis, cutoff, i) == batch[i].axis = axis /\ batch[i].time >= cutoff
IsIn(x, old, axis, batch, cutoff, n) ==
  \/ /\ x \in old
     /\ \A i \in 1..n : Chosen(batch, axis, cutoff, i) => batch[i].time # x.time
  \/ \E i \in 1..n :
       /\ Chosen(batch, axis, cutoff, i) /\ x = Point(batch[i].time, batch[i].value)
       /\ \A k \in 1..n : Chosen(batch, axis, cutoff, k) /\ k > i =>
            batch[k].time # batch[i].time

LEMMA OneMoreIsIn ==
  ASSUME NEW old, NEW axis, NEW batch, NEW cutoff, NEW n \in Nat, NEW x
  PROVE  /\ ~Chosen(batch, axis, cutoff, n + 1) =>
              (IsIn(x, old, axis, batch, cutoff, n + 1) <=>
                 IsIn(x, old, axis, batch, cutoff, n))
         /\ Chosen(batch, axis, cutoff, n + 1) =>
              (IsIn(x, old, axis, batch, cutoff, n + 1) <=>
                 \/ x = Point(batch[n + 1].time, batch[n + 1].value)
                 \/ /\ IsIn(x, old, axis, batch, cutoff, n)
                    /\ x.time # batch[n + 1].time)
<1> DEFINE C(i) == Chosen(batch, axis, cutoff, i)
           P(i) == Point(batch[i].time, batch[i].value)
           t(i) == batch[i].time
<1>1. /\ \A i \in 1..n : i \in 1..(n + 1) /\ i # n + 1 /\ n + 1 > i /\ ~(i > n + 1)
      /\ n + 1 \in 1..(n + 1) /\ ~(n + 1 > n + 1)
      /\ \A i \in 1..(n + 1) : i \in 1..n \/ i = n + 1
  OBVIOUS
<1>2. \A i : P(i).time = t(i)
  BY DEF Point
<1>3. IsIn(x, old, axis, batch, cutoff, n) <=>
        \/ x \in old /\ \A i \in 1..n : C(i) => t(i) # x.time
        \/ \E i \in 1..n : C(i) /\ x = P(i) /\ \A k \in 1..n : C(k) /\ k > i => t(k) # t(i)
  BY DEF IsIn
<1>4. IsIn(x, old, axis, batch, cutoff, n + 1) <=>
        \/ x \in old /\ \A i \in 1..(n + 1) : C(i) => t(i) # x.time
        \/ \E i \in 1..(n + 1) :
             C(i) /\ x = P(i) /\ \A k \in 1..(n + 1) : C(k) /\ k > i => t(k) # t(i)
  BY DEF IsIn
<1>5. Chosen(batch, axis, cutoff, n + 1) <=> C(n + 1)
  OBVIOUS
<1>6. Point(batch[n + 1].time, batch[n + 1].value) = P(n + 1) /\ batch[n + 1].time = t(n + 1)
  OBVIOUS
<1> HIDE DEF C, P, t
<1>7. CASE ~C(n + 1)
  BY <1>1, <1>3, <1>4, <1>5, <1>7, Zenon
<1>8. CASE C(n + 1)
  <2>1. (\A i \in 1..(n + 1) : C(i) => t(i) # x.time) <=>
          (\A i \in 1..n : C(i) => t(i) # x.time) /\ t(n + 1) # x.time
    BY <1>1, <1>8, Zenon
  <2>2. (\E i \in 1..(n + 1) :
           C(i) /\ x = P(i) /\ \A k \in 1..(n + 1) : C(k) /\ k > i => t(k) # t(i)) <=>
          \/ x = P(n + 1)
          \/ \E i \in 1..n : /\ C(i) /\ x = P(i) /\ t(n + 1) # t(i)
                             /\ \A k \in 1..n : C(k) /\ k > i => t(k) # t(i)
    <3>1. \A k \in 1..(n + 1) : ~(k > n + 1)
      BY <1>1
    <3>2. ASSUME NEW i \in 1..n
          PROVE  (\A k \in 1..(n + 1) : C(k) /\ k > i => t(k) # t(i)) <=>
                   (\A k \in 1..n : C(k) /\ k > i => t(k) # t(i)) /\ t(n + 1) # t(i)
      BY <1>1, <1>8, Zenon
    <3> QED
      BY <1>1, <1>8, <3>1, <3>2, Zenon
  <2>3. \A i : x = P(i) => x.time = t(i)
    BY <1>2
  <2>4. IsIn(x, old, axis, batch, cutoff, n + 1) <=>
          x = P(n + 1) \/ (IsIn(x, old, axis, batch, cutoff, n) /\ x.time # t(n + 1))
    BY <1>3, <1>4, <2>1, <2>2, <2>3, Zenon
  <2> QED
    BY <1>5, <1>6, <1>8, <2>4
<1> QED
  BY <1>7, <1>8

\* What a batch leaves of a series.
LEMMA BatchIsFilledIn ==
  ASSUME NEW points, IsSeries(points), NEW axis, NEW batch, IsBatch(batch), NEW cutoff \in Int
  PROVE  /\ IsSeries(Filled(points, axis, batch, cutoff))
         /\ \A x : x \in ToSet(Filled(points, axis, batch, cutoff)) <=>
                     IsIn(x, ToSet(points), axis, batch, cutoff, Len(batch))
<1>1. PICK f : /\ f[0] = points
               /\ \A n \in Nat : n < Len(batch) =>
                    f[n + 1] = IF batch[n + 1].axis = axis /\ batch[n + 1].time >= cutoff
                               THEN Insert(f[n], Point(batch[n + 1].time, batch[n + 1].value))
                               ELSE f[n]
               /\ Filled(points, axis, batch, cutoff) = f[Len(batch)]
  BY FilledEquation DEF IsBatch
<1> DEFINE I(x, n) == IsIn(x, ToSet(points), axis, batch, cutoff, n)
           T == {n \in Nat : n <= Len(batch) =>
                   IsSeries(f[n]) /\ \A x : x \in ToSet(f[n]) <=> I(x, n)}
<1>2. 0 \in T
  <2>1. \A x : x \in ToSet(points) <=> I(x, 0)
    BY DEF IsIn
  <2> QED
    BY <1>1, <2>1
<1>3. ASSUME NEW n \in Nat, n \in T PROVE n + 1 \in T
  <2>1. CASE n < Len(batch)
    <3>1. IsSeries(f[n]) /\ \A x : x \in ToSet(f[n]) <=> I(x, n)
      BY <1>3, <2>1
    <3>2. CASE ~Chosen(batch, axis, cutoff, n + 1)
      <4>1. f[n + 1] = f[n]
        BY <1>1, <2>1, <3>2 DEF Chosen
      <4>2. \A x : I(x, n + 1) <=> I(x, n)
        BY <3>2, OneMoreIsIn
      <4> HIDE DEF I
      <4> QED
        BY <3>1, <4>1, <4>2
    <3>3. CASE Chosen(batch, axis, cutoff, n + 1)
      <4>1. PICK p : p = Point(batch[n + 1].time, batch[n + 1].value)
        OBVIOUS
      <4>2. f[n + 1] = Insert(f[n], p)
        BY <1>1, <2>1, <3>3, <4>1 DEF Chosen
      <4>3. n + 1 \in DOMAIN batch
        BY <2>1 DEF IsBatch
      <4>4. p \in Points /\ p.time = batch[n + 1].time
        BY <4>1, <4>3 DEF IsBatch, Point, Points
      <4>5. /\ IsSeries(f[n + 1])
            /\ ToSet(f[n + 1]) = {q \in ToSet(f[n]) : q.time # p.time} \union {p}
        BY <3>1, <4>2, <4>4, InsertKeepsOrder
      <4>6. \A x : I(x, n + 1) <=> x = p \/ (I(x, n) /\ x.time # p.time)
        BY <3>3, <4>1, <4>4, OneMoreIsIn
      <4> HIDE DEF I
      <4>7. \A x : x \in ToSet(f[n + 1]) <=> I(x, n + 1)
        BY <3>1, <4>5, <4>6
      <4> QED
        BY <4>5, <4>7
    <3> QED
      BY <3>2, <3>3
  <2>2. CASE ~(n < Len(batch))
    BY <2>2 DEF IsBatch
  <2> QED
    BY <2>1, <2>2
<1>4. Len(batch) \in T
  <2> HIDE DEF T
  <2> QED
    BY <1>2, <1>3, SetInduction DEF IsBatch
<1> QED
  BY <1>1, <1>4 DEF IsBatch

\* What an eviction leaves of a series.
LEMMA EvictedAreEarlier ==
  ASSUME NEW points, IsSeries(points), NEW cutoff \in Int, NEW e,
         e = SubSeq(points, LowerBound(points, cutoff), Len(points))
  PROVE  /\ IsSeries(e)
         /\ ToSet(e) = {q \in ToSet(points) : q.time >= cutoff}
<1>1. PICK i : i = LowerBound(points, cutoff)
  OBVIOUS
<1>2. PICK L \in Nat : L = Len(points) /\ DOMAIN points = 1..L
  BY LenProperties DEF IsSeries
<1>3. /\ i \in 1..(L + 1)
      /\ \A j \in 1..L : j < i => points[j].time < cutoff
      /\ \A j \in 1..L : j >= i => points[j].time >= cutoff
  BY <1>1, <1>2, SearchFindsFirst
<1>4. \A j \in 1..L : points[j] \in Points
  BY <1>2, ElementOfSeq DEF IsSeries
<1>5. \A j \in 1..L : points[j].time \in Nat
  BY <1>4 DEF Points
<1>6. /\ e \in Seq(Points) /\ Len(e) = L + 1 - i /\ DOMAIN e = 1..(L + 1 - i)
      /\ \A j \in 1..(L + 1 - i) : e[j] = points[i + j - 1]
  <2>1. i \in Int /\ L \in Int /\ \A j \in i..L : points[j] \in Points
    BY <1>3, <1>4
  <2>2. /\ e \in Seq(Points) /\ Len(e) = IF i <= L THEN L - i + 1 ELSE 0
        /\ \A j \in 1..(L - i + 1) : e[j] = points[i + j - 1]
    BY <1>1, <1>2, <2>1, SubSeqProperties
  <2>3. DOMAIN e = 1..Len(e)
    BY <2>2, LenProperties
  <2>4. L - i + 1 = L + 1 - i /\ (IF i <= L THEN L - i + 1 ELSE 0) = L + 1 - i
    BY <1>3
  <2> QED
    BY <2>2, <2>3, <2>4
<1>7. \A j, k \in 1..(L + 1 - i) :
        j < k => /\ i + j - 1 \in 1..L /\ i + k - 1 \in 1..L /\ i + j - 1 < i + k - 1
  BY <1>3
<1>8. IsSeries(e)
  <2>1. ASSUME NEW j \in 1..(L + 1 - i), NEW k \in 1..(L + 1 - i), j < k
        PROVE  e[j].time < e[k].time
    <3>1. points[i + j - 1].time < points[i + k - 1].time
      BY <1>2, <1>7, <2>1 DEF IsSeries
    <3> QED
      BY <1>6, <3>1
  <2> QED
    BY <1>6, <2>1 DEF IsSeries
<1>9. ASSUME NEW j \in 1..(L + 1 - i)
      PROVE  \E k \in 1..L : k >= i /\ e[j] = points[k]
  <2>1. i + j - 1 \in 1..L /\ i + j - 1 >= i
    BY <1>3
  <2> QED
    BY <1>6, <2>1
<1>10. ASSUME NEW k \in 1..L, k >= i
       PROVE  \E j \in 1..(L + 1 - i) : e[j] = points[k]
  <2>1. k + 1 - i \in 1..(L + 1 - i) /\ i + (k + 1 - i) - 1 = k
    BY <1>3, <1>10
  <2> QED
    BY <1>6, <2>1
<1>11. ToSet(e) = {points[k] : k \in {m \in 1..L : m >= i}}
  <2>1. ToSet(e) = {e[j] : j \in 1..(L + 1 - i)}
    BY <1>6 DEF ToSet
  <2>2. ToSet(e) \subseteq {points[k] : k \in {m \in 1..L : m >= i}}
    BY <1>9, <2>1
  <2>3. {points[k] : k \in {m \in 1..L : m >= i}} \subseteq ToSet(e)
    BY <1>10, <2>1
  <2> QED
    BY <2>2, <2>3
<1>12. \A k \in 1..L : k >= i <=> points[k].time >= cutoff
  BY <1>3, <1>5
<1>13. ToSet(points) = {points[k] : k \in 1..L}
  BY <1>2 DEF ToSet
<1> QED
  BY <1>8, <1>11, <1>12, <1>13

\* What a chart's model is: the series of its axes, within the window that ends with the
\* newest time.
IsChart(c) ==
  /\ c = [series |-> c.series, latest |-> c.latest, window |-> c.window]
  /\ c.latest \in Nat /\ c.window \in Nat
  /\ c.series = [a \in Axes |-> c.series[a]]
  /\ \A a \in Axes :
       /\ IsSeries(c.series[a])
       /\ \A x \in ToSet(c.series[a]) : x.time <= c.latest /\ x.time >= c.latest - c.window

LEMMA NewChartIsRight ==
  ASSUME NEW w \in Nat
  PROVE  /\ IsChart(NewChart(w)) /\ NewChart(w).latest = 0 /\ NewChart(w).window = w
         /\ \A a \in Axes : ToSet(NewChart(w).series[a]) = {}
<1>1. PICK c : c = NewChart(w)
  OBVIOUS
<1>2. PICK s : s = [a \in Axes |-> <<>>]
  OBVIOUS
<1>3. c = [series |-> s, latest |-> 0, window |-> w]
  BY <1>1, <1>2 DEF NewChart
<1>4. c.series = s /\ c.latest = 0 /\ c.window = w
  BY <1>3
<1>5. <<>> \in Seq(Points) /\ Len(<<>>) = 0 /\ DOMAIN <<>> = {}
  BY EmptySeq
<1>6. IsSeries(<<>>) /\ ToSet(<<>>) = {}
  BY <1>5 DEF IsSeries, ToSet
<1>7. \A a \in Axes : IsSeries(s[a]) /\ ToSet(s[a]) = {}
  BY <1>2, <1>6
<1>8. IsChart(c)
  BY <1>2, <1>3, <1>4, <1>7 DEF IsChart
<1> QED
  BY <1>1, <1>4, <1>7, <1>8

\* The newest time after a batch.
LEMMA NewestTime ==
  ASSUME NEW S, S \subseteq Nat, IsFiniteSet(S), NEW latest \in Nat
  PROVE  /\ Max(S \union {latest}) \in Nat
         /\ Max(S \union {latest}) \in S \union {latest}
         /\ \A y \in S \union {latest} : Max(S \union {latest}) >= y
<1>1. PICK U : U = S \union {latest}
  OBVIOUS
<1>2. IsFiniteSet(U)
  BY <1>1, FS_AddElement
<1>3. U \subseteq Int /\ U # {} /\ U \subseteq Nat
  BY <1>1
<1>4. Max(U) \in U /\ \A y \in U : Max(U) >= y
  BY <1>2, <1>3, MaxIsGreatest
<1> QED
  BY <1>1, <1>3, <1>4

LEMMA TimesAreFinite ==
  ASSUME NEW batch, IsBatch(batch), NEW S, S = {batch[i].time : i \in DOMAIN batch}
  PROVE  S \subseteq Nat /\ IsFiniteSet(S)
<1> DEFINE f == [i \in DOMAIN batch |-> batch[i].time]
<1>1. IsFiniteSet(DOMAIN batch)
  BY FS_Interval DEF IsBatch
<1>2. S = {f[i] : i \in DOMAIN batch}
  OBVIOUS
<1>3. S \subseteq Nat
  BY DEF IsBatch
<1> HIDE DEF f
<1>4. IsFiniteSet({f[i] : i \in DOMAIN batch})
  BY <1>1, ImageIsFinite
<1> QED
  BY <1>2, <1>3, <1>4

\* A chart after a batch: the newest time, and in each series what is in it by then and
\* within the window.
LEMMA AppendedIsRight ==
  ASSUME NEW c, IsChart(c), NEW batch, IsBatch(batch), NEW r, r = Appended(c, batch)
  PROVE  /\ IsChart(r) /\ r.window = c.window
         /\ r.latest >= c.latest
         /\ \A i \in DOMAIN batch : r.latest >= batch[i].time
         /\ r.latest = c.latest \/ \E i \in DOMAIN batch : r.latest = batch[i].time
         /\ \A a \in Axes : \A x :
              x \in ToSet(r.series[a]) <=>
                /\ IsIn(x, ToSet(c.series[a]), a, batch, r.latest - c.window, Len(batch))
                /\ x.time >= r.latest - c.window
<1>1. r = Appended(c, batch)
  OBVIOUS
<1>2. PICK S : S = {batch[i].time : i \in DOMAIN batch}
  OBVIOUS
<1>3. PICK s, l, w : s = c.series /\ l = c.latest /\ w = c.window
  OBVIOUS
<1>4. /\ l \in Nat /\ w \in Nat /\ s = [a \in Axes |-> s[a]]
      /\ c = [series |-> s, latest |-> l, window |-> w]
      /\ \A a \in Axes : /\ IsSeries(s[a])
                         /\ \A x \in ToSet(s[a]) : x.time <= l /\ x.time >= l - w
  BY <1>3 DEF IsChart
<1>5. CASE S = {}
  <2>1. r = c
    <3>1. {batch[i].time : i \in DOMAIN batch} = {}
      BY <1>2, <1>5
    <3> QED
      BY <1>1, <3>1, Zenon DEF Appended
  <2>2. DOMAIN batch = {} /\ Len(batch) = 0
    <3>1. \A i \in DOMAIN batch : batch[i].time \in S
      BY <1>2
    <3>2. DOMAIN batch = {}
      BY <1>5, <3>1
    <3>3. PICK n \in Nat : n = Len(batch) /\ DOMAIN batch = 1..n
      BY DEF IsBatch
    <3>4. n = 0
      BY <3>2, <3>3
    <3> QED
      BY <3>2, <3>3, <3>4
  <2>3. \A a \in Axes : \A x : IsIn(x, ToSet(s[a]), a, batch, l - w, 0) <=> x \in ToSet(s[a])
    BY DEF IsIn
  <2>4. \A a \in Axes : \A x :
          x \in ToSet(s[a]) <=>
            IsIn(x, ToSet(s[a]), a, batch, l - w, 0) /\ x.time >= l - w
    BY <1>4, <2>3
  <2>5. IsChart(r) /\ r.series = s /\ r.latest = l /\ r.window = w
    BY <1>3, <2>1
  <2>6. r.latest >= c.latest
    BY <1>3, <1>4, <2>5
  <2>7. \A a \in Axes : \A x :
          x \in ToSet(r.series[a]) <=>
            /\ IsIn(x, ToSet(c.series[a]), a, batch, r.latest - c.window, Len(batch))
            /\ x.time >= r.latest - c.window
    BY <1>3, <2>2, <2>4, <2>5, Zenon
  <2> QED
    BY <1>3, <2>2, <2>5, <2>6, <2>7
<1>6. CASE S # {}
  <2>1. PICK m : m = Max(S \union {l})
    OBVIOUS
  <2>2. /\ m \in Nat /\ m >= l /\ \A i \in DOMAIN batch : m >= batch[i].time
        /\ m = l \/ \E i \in DOMAIN batch : m = batch[i].time
    <3>1. l \in Nat
      BY <1>4
    <3>2. S \subseteq Nat /\ IsFiniteSet(S)
      BY <1>2, TimesAreFinite
    <3>3. m \in Nat /\ m \in S \union {l} /\ \A y \in S \union {l} : m >= y
      BY <2>1, <3>1, <3>2, NewestTime
    <3>4. /\ \A i \in DOMAIN batch : batch[i].time \in S
          /\ \A x \in S : \E i \in DOMAIN batch : x = batch[i].time
      BY <1>2
    <3> QED
      BY <3>3, <3>4
  <2>3. PICK k \in Int : k = m - w
    BY <1>4, <2>2
  <2>4. PICK g : g = [a \in Axes |-> Filled(s[a], a, batch, k)]
    OBVIOUS
  <2>5. PICK e : e = EvictBefore(g, k)
    OBVIOUS
  <2>6. r = [c EXCEPT !.latest = m, !.series = e]
    BY <1>1, <1>2, <1>3, <1>6, <2>1, <2>3, <2>4, <2>5 DEF Appended
  <2>7. r = [series |-> e, latest |-> m, window |-> w]
    BY <1>4, <2>6
  <2>8. r.series = e /\ r.latest = m /\ r.window = w
    BY <2>7
  <2>9. e = [a \in Axes |-> SubSeq(g[a], LowerBound(g[a], k), Len(g[a]))]
    BY <2>5 DEF EvictBefore
  <2>10. ASSUME NEW a \in Axes
         PROVE  /\ IsSeries(e[a])
                /\ \A x : x \in ToSet(e[a]) <=>
                            IsIn(x, ToSet(s[a]), a, batch, k, Len(batch)) /\ x.time >= k
                /\ \A x \in ToSet(e[a]) : x.time <= m
    <3>1. PICK v : v = g[a]
      OBVIOUS
    <3>2. v = Filled(s[a], a, batch, k)
      BY <2>4, <3>1
    <3>3. IsSeries(v) /\ \A x : x \in ToSet(v) <=>
                                  IsIn(x, ToSet(s[a]), a, batch, k, Len(batch))
      BY <1>4, <3>2, BatchIsFilledIn
    <3>4. e[a] = SubSeq(v, LowerBound(v, k), Len(v))
      BY <2>9, <3>1
    <3>5. IsSeries(e[a]) /\ ToSet(e[a]) = {q \in ToSet(v) : q.time >= k}
      BY <3>3, <3>4, EvictedAreEarlier
    <3>6. \A x \in ToSet(s[a]) : x.time \in Nat
      <4>1. \A i \in DOMAIN s[a] : s[a][i] \in Points
        BY <1>4, ElementOfSeq, LenProperties DEF IsSeries
      <4> QED
        BY <4>1 DEF ToSet, Points
    <3>7. ASSUME NEW x, IsIn(x, ToSet(s[a]), a, batch, k, Len(batch)) PROVE x.time <= m
      <4>1. CASE x \in ToSet(s[a])
        BY <1>4, <2>2, <3>6, <4>1
      <4>2. CASE \E i \in 1..Len(batch) : x = Point(batch[i].time, batch[i].value)
        <5>1. PICK i \in 1..Len(batch) : x = Point(batch[i].time, batch[i].value)
          BY <4>2
        <5>2. x.time = batch[i].time /\ i \in DOMAIN batch
          BY <5>1 DEF Point, IsBatch
        <5> QED
          BY <2>2, <5>2 DEF IsBatch
      <4> QED
        BY <3>7, <4>1, <4>2 DEF IsIn
    <3> QED
      BY <3>3, <3>5, <3>7
  <2>11. e = [a \in Axes |-> e[a]]
    BY <2>9
  <2>12. IsChart(r)
    <3>1. \A a \in Axes : IsSeries(e[a]) /\ \A x \in ToSet(e[a]) : x.time <= m /\ x.time >= k
      BY <2>10
    <3> QED
      BY <1>4, <2>2, <2>3, <2>7, <2>8, <2>11, <3>1 DEF IsChart
  <2> QED
    BY <1>1, <1>3, <1>4, <2>2, <2>3, <2>8, <2>10, <2>12
<1> QED
  BY <1>5, <1>6

\* A chart with another window, which does not begin before the old points did.
LEMMA WindowIsRight ==
  ASSUME NEW c, IsChart(c), NEW w \in Nat, NEW r, r = WithWindow(c, w)
  PROVE  /\ IsChart(r) /\ r.window = w /\ r.latest = c.latest
         /\ \A a \in Axes : ToSet(r.series[a]) = {x \in ToSet(c.series[a]) : x.time >= c.latest - w}
<1>1. PICK s, l, v : s = c.series /\ l = c.latest /\ v = c.window
  OBVIOUS
<1>2. /\ l \in Nat /\ v \in Nat /\ s = [a \in Axes |-> s[a]]
      /\ c = [series |-> s, latest |-> l, window |-> v]
      /\ \A a \in Axes : /\ IsSeries(s[a])
                         /\ \A x \in ToSet(s[a]) : x.time <= l /\ x.time >= l - v
  BY <1>1 DEF IsChart
<1>3. PICK k \in Int : k = l - w
  BY <1>2
<1>4. PICK e : e = IF l = 0 THEN s ELSE EvictBefore(s, k)
  OBVIOUS
<1>5. r = [series |-> e, latest |-> l, window |-> w]
  <2>1. r = [c EXCEPT !.window = w, !.series = e]
    BY <1>1, <1>3, <1>4 DEF WithWindow
  <2> QED
    BY <1>2, <2>1
<1>6. r.series = e /\ r.latest = l /\ r.window = w
  BY <1>5
<1>7. \A a \in Axes : \A x \in ToSet(s[a]) : x.time \in Nat
  <2>1. \A a \in Axes : \A i \in DOMAIN s[a] : s[a][i] \in Points
    BY <1>2, ElementOfSeq, LenProperties DEF IsSeries
  <2> QED
    BY <2>1 DEF ToSet, Points
<1>8. ASSUME NEW a \in Axes
      PROVE  IsSeries(e[a]) /\ ToSet(e[a]) = {x \in ToSet(s[a]) : x.time >= k}
  <2>1. CASE l = 0
    <3>1. \A x \in ToSet(s[a]) : x.time >= k
      BY <1>3, <1>7, <2>1
    <3> QED
      BY <1>2, <1>4, <2>1, <3>1
  <2>2. CASE l # 0
    <3>1. e[a] = SubSeq(s[a], LowerBound(s[a], k), Len(s[a]))
      BY <1>4, <2>2 DEF EvictBefore
    <3>2. PICK p, f : p = s[a] /\ f = e[a]
      OBVIOUS
    <3>3. IsSeries(p) /\ f = SubSeq(p, LowerBound(p, k), Len(p))
      BY <1>2, <3>1, <3>2
    <3>4. IsSeries(f) /\ ToSet(f) = {x \in ToSet(p) : x.time >= k}
      BY <1>3, <3>3, EvictedAreEarlier
    <3> QED
      BY <3>2, <3>4
  <2> QED
    BY <2>1, <2>2
<1>9. e = [a \in Axes |-> e[a]]
  <2>1. CASE l = 0
    BY <1>2, <1>4, <2>1, Zenon
  <2>2. CASE l # 0
    BY <1>4, <2>2 DEF EvictBefore
  <2> QED
    BY <2>1, <2>2
<1>10. IsChart(r)
  <2>1. \A a \in Axes : IsSeries(e[a]) /\ \A x \in ToSet(e[a]) : x.time <= l /\ x.time >= l - w
    BY <1>2, <1>3, <1>8
  <2> QED
    BY <1>2, <1>5, <1>6, <1>9, <2>1 DEF IsChart
<1> QED
  BY <1>1, <1>3, <1>6, <1>8, <1>10

LEMMA BatchesAreBatches ==
  ASSUME NEW batch \in Batches
  PROVE  IsBatch(batch)
<1>1. PICK P : P = [axis : Axes, time : 1..MaxTime, value : Values]
  OBVIOUS
<1>2. ASSUME NEW p \in P PROVE p.time \in Nat /\ p.value \in Int
  <2>1. p.time \in 1..MaxTime /\ p.value \in Values
    BY <1>1
  <2>2. PICK t, v : t = p.time /\ v = p.value
    OBVIOUS
  <2>3. t \in 1..MaxTime /\ v \in Values
    BY <2>1, <2>2
  <2>4. t \in Nat
    BY <2>3, SeriesConstants
  <2>5. v \in Int
    BY <2>3, SeriesConstants
  <2> QED
    BY <2>2, <2>4, <2>5
<1>3. (\E p \in P : batch = <<p>>) \/ (\E p, q \in P : batch = <<p, q>>)
  BY <1>1 DEF Batches
<1>4. ASSUME NEW p \in P, batch = <<p>> PROVE IsBatch(batch)
  BY <1>2, <1>4 DEF IsBatch
<1>5. ASSUME NEW p \in P, NEW q \in P, batch = <<p, q>> PROVE IsBatch(batch)
  <2>1. Len(batch) = 2 /\ DOMAIN batch = 1..2 /\ batch[1] = p /\ batch[2] = q
    BY <1>5
  <2> QED
    BY <1>2, <2>1 DEF IsBatch
<1> QED
  BY <1>3, <1>4, <1>5

\* Of what is within the window, it makes no difference whether a point before it is
\* stored first.
LEMMA OverwrittenIsIn ==
  ASSUME NEW old, NEW axis, NEW batch, IsBatch(batch), NEW k, NEW x
  PROVE  x \in Overwritten(old, axis, batch) /\ x.time >= k <=>
           IsIn(x, old, axis, batch, k, Len(batch)) /\ x.time >= k
<1> DEFINE M(i) == batch[i].axis = axis
           P(i) == Point(batch[i].time, batch[i].value)
           t(i) == batch[i].time
           D == DOMAIN batch
<1>1. D = 1..Len(batch)
  BY DEF IsBatch
<1>2. x \in Overwritten(old, axis, batch) <=>
        \/ x \in old /\ \A i \in D : M(i) => t(i) # x.time
        \/ \E i \in D : M(i) /\ x = P(i) /\ \A j \in D : M(j) /\ j > i => t(j) # t(i)
  BY DEF Overwritten
<1>3. IsIn(x, old, axis, batch, k, Len(batch)) <=>
        \/ x \in old /\ \A i \in D : M(i) /\ t(i) >= k => t(i) # x.time
        \/ \E i \in D : /\ M(i) /\ t(i) >= k /\ x = P(i)
                        /\ \A j \in D : M(j) /\ t(j) >= k /\ j > i => t(j) # t(i)
  BY <1>1, Zenon DEF IsIn, Chosen
<1>4. \A i : P(i).time = t(i)
  BY DEF Point
<1> HIDE DEF M, P, t, D
<1>5. SUFFICES ASSUME x.time >= k
               PROVE  x \in Overwritten(old, axis, batch) <=>
                        IsIn(x, old, axis, batch, k, Len(batch))
  OBVIOUS
<1>6. \A i : t(i) = x.time => t(i) >= k
  BY <1>5
<1>7. \A i : x = P(i) => t(i) = x.time
  BY <1>4
<1> QED
  BY <1>2, <1>3, <1>6, <1>7, Zenon

\* The reference has the same points.
SeriesInvariant ==
  /\ IsChart(model)
  /\ \A a \in Axes : ToSet(model.series[a]) = stored[a]

LEMMA SeriesAppends ==
  ASSUME SeriesInvariant, AppendsBatch
  PROVE  SeriesInvariant'
<1>1. PICK batch \in Batches :
        /\ model' = Appended(model, batch)
        /\ stored' = [a \in Axes |-> Within(Overwritten(stored[a], a, batch),
                                            model'.latest, model.window)]
  BY DEF AppendsBatch
<1>2. IsBatch(batch)
  BY <1>1, BatchesAreBatches
<1>3. PICK c, r : c = model /\ r = model'
  OBVIOUS
<1>4. IsChart(c) /\ r = Appended(c, batch)
  BY <1>1, <1>3 DEF SeriesInvariant
<1>5. /\ IsChart(r) /\ r.window = c.window
      /\ \A a \in Axes : \A x :
           x \in ToSet(r.series[a]) <=>
             /\ IsIn(x, ToSet(c.series[a]), a, batch, r.latest - c.window, Len(batch))
             /\ x.time >= r.latest - c.window
  BY <1>2, <1>4, AppendedIsRight
<1>6. PICK k : k = r.latest - c.window
  OBVIOUS
<1>7. ASSUME NEW a \in Axes PROVE ToSet(r.series[a]) = stored'[a]
  <2>1. PICK old : old = ToSet(c.series[a]) /\ old = stored[a]
    BY <1>3 DEF SeriesInvariant
  <2>2. stored'[a] = {x \in Overwritten(old, a, batch) : x.time >= k}
    BY <1>1, <1>3, <1>6, <2>1 DEF Within
  <2>3. \A x : x \in ToSet(r.series[a]) <=>
                 IsIn(x, old, a, batch, k, Len(batch)) /\ x.time >= k
    BY <1>5, <1>6, <2>1
  <2>4. \A x : x \in Overwritten(old, a, batch) /\ x.time >= k <=>
                 IsIn(x, old, a, batch, k, Len(batch)) /\ x.time >= k
    BY <1>2, OverwrittenIsIn
  <2> QED
    BY <2>2, <2>3, <2>4
<1> QED
  BY <1>3, <1>5, <1>7 DEF SeriesInvariant

LEMMA SeriesChangesWindow ==
  ASSUME SeriesInvariant, SetsWindow
  PROVE  SeriesInvariant'
<1>1. PICK w \in Windows :
        /\ model' = WithWindow(model, w)
        /\ stored' = [a \in Axes |-> Within(stored[a], model.latest, w)]
  BY DEF SetsWindow
<1>2. w \in Nat
  BY ChartConstants
<1>3. PICK c, r : c = model /\ r = model'
  OBVIOUS
<1>4. IsChart(c) /\ r = WithWindow(c, w)
  BY <1>1, <1>3 DEF SeriesInvariant
<1>5. /\ IsChart(r)
      /\ \A a \in Axes : ToSet(r.series[a]) = {x \in ToSet(c.series[a]) : x.time >= c.latest - w}
  BY <1>2, <1>4, WindowIsRight
<1>6. ASSUME NEW a \in Axes PROVE ToSet(r.series[a]) = stored'[a]
  <2>1. ToSet(c.series[a]) = stored[a]
    BY <1>3 DEF SeriesInvariant
  <2>2. stored'[a] = {x \in stored[a] : x.time >= c.latest - w}
    BY <1>1, <1>3 DEF Within
  <2> QED
    BY <1>5, <2>1, <2>2, Zenon
<1> QED
  BY <1>3, <1>5, <1>6 DEF SeriesInvariant

LEMMA NewSeriesAreRight ==
  ASSUME NEW w \in Nat, model = NewChart(w), stored = [a \in Axes |-> {}]
  PROVE  SeriesInvariant
<1>1. /\ IsChart(model)
      /\ \A a \in Axes : ToSet(model.series[a]) = {}
  BY NewChartIsRight
<1> QED
  BY <1>1 DEF SeriesInvariant

LEMMA SeriesReset ==
  ASSUME SeriesInvariant, Resets
  PROVE  SeriesInvariant'
<1>1. PICK w, r : w = model.window /\ r = model'
  OBVIOUS
<1>2. w \in Nat /\ r = NewChart(w)
  BY <1>1 DEF SeriesInvariant, IsChart, Resets, Cleared
<1>3. /\ IsChart(r)
      /\ \A a \in Axes : ToSet(r.series[a]) = {}
  BY <1>2, NewChartIsRight
<1> QED
  BY <1>1, <1>3 DEF SeriesInvariant, Resets

LEMMA SeriesStep ==
  ASSUME SeriesInvariant, SeriesNext
  PROVE  SeriesInvariant'
BY SeriesAppends, SeriesChangesWindow, SeriesReset DEF SeriesNext

\* No point of the axes is farther from zero than their extent.
LEMMA ExtentHolds ==
  ASSUME NEW c, IsChart(c), NEW A, A \subseteq Axes, NEW a \in A, NEW x \in ToSet(c.series[a])
  PROVE  x.value \in Extent(c, A)
<1>1. PICK s : s = c.series
  OBVIOUS
<1> DEFINE V(b) == {s[b][i].value : i \in DOMAIN s[b]}
           values == UNION {V(b) : b \in A}
           abs == [v \in values |-> IF v < 0 THEN -v ELSE v]
           M == {0} \union {abs[v] : v \in values}
<1>2. \A b \in Axes : Len(s[b]) \in Nat /\ DOMAIN s[b] = 1..Len(s[b])
                      /\ \A i \in DOMAIN s[b] : s[b][i].value \in Int
  <2>1. ASSUME NEW b \in Axes
        PROVE  /\ Len(s[b]) \in Nat /\ DOMAIN s[b] = 1..Len(s[b])
               /\ \A i \in DOMAIN s[b] : s[b][i].value \in Int
    <3>1. s[b] \in Seq(Points)
      BY <1>1 DEF IsChart, IsSeries
    <3>2. PICK q \in Seq(Points) : q = s[b]
      BY <3>1
    <3>3. Len(q) \in Nat /\ DOMAIN q = 1..Len(q) /\ \A i \in 1..Len(q) : q[i] \in Points
      BY LenProperties, ElementOfSeq
    <3>4. \A p \in Points : p.value \in Int
      BY DEF Points
    <3> QED
      BY <3>2, <3>3, <3>4
  <2> QED
    BY <2>1
<1>3. IsFiniteSet(values)
  <2>1. ASSUME NEW b \in A PROVE IsFiniteSet(V(b))
    <3>1. PICK f : f = [i \in DOMAIN s[b] |-> s[b][i].value]
      OBVIOUS
    <3>2. PICK D : D = DOMAIN s[b] /\ IsFiniteSet(D)
      BY <1>2, FS_Interval
    <3>3. IsFiniteSet({f[i] : i \in D})
      BY <3>2, ImageIsFinite
    <3>4. V(b) = {f[i] : i \in D}
      BY <3>1, <3>2
    <3> QED
      BY <3>3, <3>4
  <2>2. IsFiniteSet(A)
    BY ChartConstants, FS_Subset
  <2>3. PICK v : v = [b \in A |-> V(b)]
    OBVIOUS
  <2>4. PICK W : W = {v[b] : b \in A} /\ IsFiniteSet(W)
    BY <2>2, ImageIsFinite
  <2>5. \A w \in W : IsFiniteSet(w)
    BY <2>1, <2>3, <2>4
  <2>6. IsFiniteSet(UNION W)
    BY <2>4, <2>5, FS_UNION
  <2>7. W = {V(b) : b \in A}
    BY <2>3, <2>4
  <2> QED
    BY <2>6, <2>7
<1>4. values \subseteq Int
  BY <1>2
<1>5. x.value \in values
  <2>1. PICK i \in DOMAIN s[a] : x = s[a][i]
    BY <1>1 DEF ToSet
  <2>2. x.value \in V(a)
    BY <2>1
  <2> QED
    BY <2>2
<1>6. Extent(c, A) = LET m == Max({0} \union {IF v < 0 THEN -v ELSE v : v \in values})
                         p == IF m = 0 THEN 1 ELSE m
                     IN (-p)..p
  BY <1>1 DEF Extent
<1> HIDE DEF values
<1>7. M = {0} \union {IF v < 0 THEN -v ELSE v : v \in values}
  OBVIOUS
<1>8. IsFiniteSet({abs[v] : v \in values})
  <2>1. PICK f : f = abs
    OBVIOUS
  <2>2. IsFiniteSet({f[v] : v \in values})
    BY <1>3, ImageIsFinite
  <2> QED
    BY <2>1, <2>2
<1>9. IsFiniteSet(M) /\ M \subseteq Int /\ M # {}
  <2>1. IsFiniteSet({0})
    BY FS_Singleton
  <2>2. PICK X, Y : X = {0} /\ Y = {abs[v] : v \in values} /\ M = X \union Y
    OBVIOUS
  <2>3. IsFiniteSet(X \union Y)
    BY <1>8, <2>1, <2>2, FS_Union
  <2>4. \A v \in values : abs[v] \in Int
    BY <1>4
  <2> QED
    BY <2>2, <2>3, <2>4
<1>10. PICK S : S = M /\ abs[x.value] \in S /\ 0 \in S
  <2>1. PICK X, v : X = {abs[y] : y \in values} /\ v = abs[x.value]
    OBVIOUS
  <2>2. v \in X
    BY <1>5, <2>1
  <2> QED
    BY <2>1, <2>2
<1>11. PICK m : m = Max(S) /\ \A y \in S : m >= y
  BY <1>9, <1>10, MaxIsGreatest
<1>12. m \in Int
  BY <1>9, <1>10, <1>11, MaxIsGreatest
<1>13. m >= 0 /\ m >= (IF x.value < 0 THEN -x.value ELSE x.value)
  BY <1>5, <1>10, <1>11
<1>14. PICK p : p = IF m = 0 THEN 1 ELSE m
  OBVIOUS
<1>15. Extent(c, A) = (-p)..p
  BY <1>6, <1>7, <1>10, <1>11, <1>14
<1>16. x.value \in Int
  BY <1>4, <1>5
<1>17. p \in Int /\ p >= m
  BY <1>12, <1>14
<1>18. x.value \in (-p)..p
  BY <1>12, <1>13, <1>16, <1>17
<1> QED
  BY <1>15, <1>18

LEMMA SeriesAreReference ==
  ASSUME SeriesInvariant
  PROVE  ChartIsItsReference
<1>1. PICK c : c = model /\ IsChart(c)
  BY DEF SeriesInvariant
<1>2. ASSUME NEW a \in Axes
      PROVE  /\ ToSet(model.series[a]) = stored[a]
             /\ \A i, j \in DOMAIN model.series[a] :
                  i < j => model.series[a][i].time < model.series[a][j].time
  <2>1. PICK q : q = model.series[a] /\ IsSeries(q)
    BY <1>1 DEF IsChart
  <2>2. DOMAIN q = 1..Len(q)
    BY <2>1, LenProperties DEF IsSeries
  <2> QED
    BY <2>1, <2>2 DEF IsSeries, SeriesInvariant
<1>3. ASSUME NEW a \in Axes, NEW mode \in {"combined", "panels"}
      PROVE  InFrame([mode |-> mode, window |-> model.window, axes |-> Axes], a)
  <2>1. PICK both : both = [mode |-> mode, window |-> c.window, axes |-> Axes]
    OBVIOUS
  <2>2. PICK q : q = c.series[a] /\ IsSeries(q) /\ DOMAIN q = 1..Len(q)
    <3>1. PICK z : z = c.series[a] /\ IsSeries(z)
      BY <1>1 DEF IsChart
    <3> QED
      BY <3>1, LenProperties DEF IsSeries
  <2>3. PICK A : A \subseteq Axes /\ a \in A /\ ValueAxis(c, both, a) = Extent(c, A)
    <3>1. CASE mode = "panels"
      BY <2>1, <3>1 DEF ValueAxis
    <3>2. CASE mode # "panels" /\ a \in ForceAxes
      BY <2>1, <3>2, ChartConstants DEF ValueAxis
    <3>3. CASE mode # "panels" /\ a \notin ForceAxes
      BY <2>1, <3>3, ChartConstants DEF ValueAxis
    <3> QED
      BY <3>1, <3>2, <3>3
  <2>4. ASSUME NEW i \in DOMAIN q
        PROVE  /\ q[i].time - c.latest \in (-c.window)..0
               /\ q[i].value \in Extent(c, A)
    <3>1. PICK x : x = q[i] /\ x \in ToSet(c.series[a])
      BY <2>2 DEF ToSet
    <3>2. x.value \in Extent(c, A)
      BY <1>1, <2>3, <3>1, ExtentHolds
    <3>3. x.time <= c.latest /\ x.time >= c.latest - c.window
      BY <1>1, <3>1 DEF IsChart
    <3>4. x.time \in Nat /\ c.latest \in Nat /\ c.window \in Nat
      <4>1. x \in Points
        BY <2>2, <3>1, ElementOfSeq DEF IsSeries
      <4> QED
        BY <1>1, <4>1 DEF IsChart, Points
    <3> QED
      BY <3>1, <3>2, <3>3, <3>4
  <2>5. InFrame(both, a)
    <3>1. DOMAIN Drawn(model, a) = DOMAIN q
      BY <1>1, <2>2 DEF Drawn
    <3>2. \A i \in DOMAIN q : /\ Drawn(model, a)[i].x = q[i].time - c.latest
                              /\ Drawn(model, a)[i].y = q[i].value
      BY <1>1, <2>2 DEF Drawn
    <3>3. TimeAxis(both) = (-c.window)..0 /\ ValueAxis(model, both, a) = Extent(c, A)
      BY <1>1, <2>1, <2>3 DEF TimeAxis
    <3> QED
      BY <2>4, <3>1, <3>2, <3>3 DEF InFrame
  <2> QED
    BY <1>1, <2>1, <2>5
<1> QED
  BY <1>2, <1>3 DEF ChartIsItsReference

LEMMA SeriesBegins ==
  ASSUME SeriesInit
  PROVE  SeriesInvariant
<1>1. PICK w \in Windows : model = NewChart(w) /\ stored = [a \in Axes |-> {}]
  BY DEF SeriesInit
<1>2. w \in Nat
  BY ChartConstants
<1> QED
  BY <1>1, <1>2, NewSeriesAreRight

\* What a chart keeps is what came of the last window, each time once and in order, and
\* all of it is drawn inside the axes of its plot: for batches in any number, with any
\* times and values in them.
THEOREM ChartIsRight == Spec => []ChartIsItsReference
<1>1. Init => SeriesInvariant
  BY SeriesBegins DEF Init
<1>2. SeriesInvariant /\ [Next]_vars => SeriesInvariant'
  <2> SUFFICES ASSUME SeriesInvariant, [Next]_vars PROVE SeriesInvariant'
    OBVIOUS
  <2>1. CASE Only("series") /\ SeriesNext
    BY <2>1, SeriesStep
  <2>2. CASE UNCHANGED seriesVars
    BY <2>2 DEF seriesVars, SeriesInvariant
  <2> QED
    BY <2>1, <2>2 DEF Next, Only, vars
<1>3. SeriesInvariant => ChartIsItsReference
  BY SeriesAreReference
<1> QED
  BY <1>1, <1>2, <1>3, PTL DEF Spec
-----------------------------------------------------------------------------
(* The settings store.  Of all that happens in the viewer six things reach it, and
   each of them keeps an invariant that says at every step of a write what is under
   the name. *)

\* A sequence, whatever it is a sequence of: patches have no set of their own.
IsSequence(s) == s \in Seq({s[i] : i \in DOMAIN s})

\* What is under the name at each step of a write.  The first conjunct is the
\* property; the rest says why a flush of the directory and an answer keep it: the
\* file is the patched value from the rename on, and it was whole before.
StoreInvariant ==
  /\ StoredIsKept
  /\ IsSequence(chain)
  /\ step \in Steps
  /\ step # "idle" => chain # <<>>
  /\ step = "flushed" => temporary = "whole"
  /\ step \in {"renamed", "permitted"} => file = Content(TRUE, Written)

-----------------------------------------------------------------------------
(* Sequences *)

\* A sequence of elements of any set is one of its own elements.
LEMMA SequenceOf ==
  ASSUME NEW S, NEW s \in Seq(S)
  PROVE  IsSequence(s)
<1> DEFINE R == {s[i] : i \in DOMAIN s}
<1>1. Len(s) \in Nat /\ s \in [1..Len(s) -> S]
  BY LenProperties
<1>2. s \in [1..Len(s) -> R]
  BY <1>1
<1>3. s \in UNION {[1..n -> R] : n \in Nat}
  BY <1>1, <1>2
<1> QED
  BY <1>3, SeqDef DEF IsSequence

\* What is appended comes last, and leaves the first where it was.
LEMMA AppendKeepsHead ==
  ASSUME NEW s, IsSequence(s), NEW x
  PROVE  /\ IsSequence(Append(s, x)) /\ Append(s, x) # <<>>
         /\ s # <<>> => Head(Append(s, x)) = Head(s)
<1> DEFINE S == {s[i] : i \in DOMAIN s} \union {x}
           t == Append(s, x)
<1>1. s \in Seq(S) /\ x \in S
  <2>1. \A i \in 1..Len(s) : s[i] \in S
    BY LenProperties DEF IsSequence
  <2>2. Len(s) \in Nat /\ s \in [1..Len(s) -> S]
    BY <2>1, LenProperties DEF IsSequence
  <2> QED
    BY <2>2, SeqDef
<1>2. /\ t \in Seq(S) /\ t # <<>>
      /\ \A i \in 1..Len(s) : t[i] = s[i]
  BY <1>1, AppendProperties, LenProperties
<1>3. IsSequence(t)
  BY <1>2, SequenceOf
<1>4. s # <<>> => 1 \in 1..Len(s)
  BY <1>1, EmptySeq, LenProperties
<1>5. s # <<>> => Head(t) = Head(s)
  BY <1>2, <1>4
<1> QED
  BY <1>2, <1>3, <1>5

\* What is left of a sequence is one.
LEMMA TailIsSequence ==
  ASSUME NEW s, IsSequence(s), s # <<>>
  PROVE  IsSequence(Tail(s))
<1>1. Tail(s) \in Seq({s[i] : i \in DOMAIN s})
  BY HeadTailProperties DEF IsSequence
<1> QED
  BY <1>1, SequenceOf
-----------------------------------------------------------------------------
(* What reaches the store *)

\* Patches come by three ways, and the store is otherwise left to itself.
Patches == \E patch : Update(patch) /\ UNCHANGED <<value, step, temporary, file, durable,
                                                   answered, refused, crashes>>
StoreMoves == StoreStep \/ Fails \/ Restarts \/ Patches \/ UNCHANGED storeVars

LEMMA WhatReachesTheStore ==
  ASSUME [Next]_vars
  PROVE  StoreMoves
<1>1. CASE Only("choices") /\ PrefsNext
  <2>1. CASE MenuChooses
    BY <2>1 DEF MenuChooses, Changes, StoreMoves
  <2>2. CASE Toolbar
    BY <2>2 DEF Toolbar, ToolbarChooses, Changes, StoreMoves
  <2>3. CASE HostConnects
    BY <2>3 DEF HostConnects, StoreMoves, Patches
  <2>4. CASE TimerFires
    BY <2>4 DEF TimerFires, StoreMoves, Patches, storeVars
  <2>5. CASE HydrationAnswered \/ Hydrates \/ HydrationFails
    BY <2>5 DEF HydrationAnswered, Hydrates, HydrationFails, StoreMoves
  <2>6. CASE Stores \/ Refuses \/ StartsAgain
    BY <2>6 DEF Stores, Refuses, StartsAgain, StoreMoves
  <2>7. CASE Paints \/ Follows \/ Registers \/ Quits \/ Closes
    BY <2>7 DEF Paints, Follows, Registers, Quits, Closes, StoreMoves
  <2> QED
    BY <1>1, <2>1, <2>2, <2>3, <2>4, <2>5, <2>6, <2>7 DEF PrefsNext
<1>2. CASE ~(Only("choices") /\ PrefsNext)
  BY <1>2 DEF Next, Only, vars, prefsVars, StoreMoves
<1> QED
  BY <1>1, <1>2
-----------------------------------------------------------------------------
(* The invariant *)

LEMMA StoreInvariantInit ==
  ASSUME Init
  PROVE  StoreInvariant
<1> USE DEF StoreInvariant, StoredIsKept, Init, PrefsInit, StoreInit, Content, Steps
<1>1. IsSequence(chain)
  BY EmptySeq, SequenceOf
<1> QED
  BY <1>1

\* A step of the first update's write, or its answer.
LEMMA WriteKeepsInvariant ==
  ASSUME StoreInvariant, StoreStep
  PROVE  StoreInvariant'
<1> USE DEF StoreInvariant, StoredIsKept, Unanswered, Written, Content, Steps
<1>1. CASE Opens
  BY <1>1 DEF Opens, Advance
<1>2. CASE Flushes
  BY <1>2 DEF Flushes, Advance
<1>3. CASE Renames
  <2>1. step = "flushed" /\ temporary = "whole" /\ step' = "renamed"
    BY <1>3 DEF Renames, Advance
  <2>2. file' = Content(TRUE, Written) /\ durable' \in {durable, Content(TRUE, Written)}
    BY <1>3, <2>1 DEF Renames
  <2>3. Written' = Written /\ Unanswered = refused /\ Unanswered' = refused \union {Written}
    BY <1>3, <2>1 DEF Renames
  <2>4. StoredIsKept'
    BY <1>3, <2>2, <2>3 DEF Renames
  <2> QED
    BY <1>3, <2>1, <2>2, <2>3, <2>4 DEF Renames, Advance
<1>4. CASE Permits
  BY <1>4 DEF Permits, Advance
<1>5. CASE Acknowledges
  <2>1. IsSequence(chain')
    BY <1>5, TailIsSequence DEF Acknowledges, Advance
  <2> QED
    BY <1>5, <2>1 DEF Acknowledges, Advance
<1> QED
  BY <1>1, <1>2, <1>3, <1>4, <1>5 DEF StoreStep

\* A write that fails keeps what it has put there as refused.
LEMMA FailureKeepsInvariant ==
  ASSUME StoreInvariant, Fails
  PROVE  StoreInvariant'
<1>1. IsSequence(chain')
  BY TailIsSequence DEF Fails, StoreInvariant
<1> QED
  BY <1>1 DEF StoreInvariant, StoredIsKept, Unanswered, Fails, Steps

\* The next start reads one of the files, and goes by it.
LEMMA RestartKeepsInvariant ==
  ASSUME StoreInvariant, Restarts
  PROVE  StoreInvariant'
<1>1. IsSequence(chain')
  BY EmptySeq, SequenceOf DEF Restarts
<1> QED
  BY <1>1 DEF StoreInvariant, StoredIsKept, Unanswered, Restarts, Read, Steps

\* Whoever waits behind the write changes nothing of it.
LEMMA PatchKeepsInvariant ==
  ASSUME StoreInvariant, Patches
  PROVE  StoreInvariant'
<1>1. PICK patch : Update(patch)
  BY DEF Patches
<1>2. /\ IsSequence(chain') /\ chain' # <<>>
      /\ chain # <<>> => Head(chain') = Head(chain)
  BY <1>1, AppendKeepsHead DEF Update, StoreInvariant
<1>3. chain # <<>> => Written' = Written
  BY <1>2 DEF Written, Patched, Patches
<1>4. Unanswered' = Unanswered
  BY <1>3 DEF Unanswered, StoreInvariant, Patches
<1> QED
  BY <1>2, <1>3, <1>4 DEF StoreInvariant, StoredIsKept, Patches

\* Whenever the program or the machine ends, the next start finds a whole settings
\* file with what was last answered, or with an update put there and not answered
\* (settings-store.ts:188, 228).
THEOREM SettingsAreKept == Spec => []StoredIsKept
<1>1. Init => StoreInvariant
  BY StoreInvariantInit
<1>2. StoreInvariant /\ [Next]_vars => StoreInvariant'
  <2> SUFFICES ASSUME StoreInvariant, [Next]_vars PROVE StoreInvariant'
    OBVIOUS
  <2>1. StoreMoves
    BY WhatReachesTheStore
  <2>2. CASE UNCHANGED storeVars
    BY <2>2 DEF storeVars, StoreInvariant, StoredIsKept, Unanswered, Written
  <2> QED
    BY <2>1, <2>2, WriteKeepsInvariant, FailureKeepsInvariant,
       RestartKeepsInvariant, PatchKeepsInvariant DEF StoreMoves
<1>3. StoreInvariant => StoredIsKept
  BY DEF StoreInvariant
<1> QED
  BY <1>1, <1>2, <1>3, PTL DEF Spec
-----------------------------------------------------------------------------
(* The operator's choices *)

\* Preferences have the fields the defaults have.
IsPrefs(p) == p = [f \in DOMAIN Defaults |-> p[f]]

\* A view has its fields.
IsView(v) == v = [mode |-> v.mode, window |-> v.window, axes |-> v.axes]

\* What the store will have for a field once its updates are written: what the last
\* patch of it says, or what is there.
InStore(f, v) ==
  \/ \E i \in DOMAIN chain :
       /\ f \in DOMAIN chain[i] /\ chain[i][f] = v
       /\ \A j \in DOMAIN chain : j > i => f \notin DOMAIN chain[j]
  \/ (\A j \in DOMAIN chain : f \notin DOMAIN chain[j]) /\ value[f] = v

\* And once the renderer's queue has followed, if the last choice was not lost.
Comes(f, v) == IF f \in DOMAIN queue THEN queue[f] = v ELSE f \in lost \/ InStore(f, v)

\* The renderer does not have the stored choices yet.
Early == {"asked", "answered", "refused"}

\* What was chosen is on its way to the store, and what the effects have seen is what
\* the view shows.  A queue that is not empty has a timer once the stored choices are
\* there; before, all that was chosen is in it and nothing has reached the store.
StoringInvariant ==
  /\ IsSequence(chain)
  /\ IsPrefs(value) /\ IsPrefs(file.value) /\ IsPrefs(durable.value)
  /\ IsPrefs(chosen) /\ IsPrefs(painted.prefs)
  /\ hydration.state \in Early \union {"done", "closed"}
  /\ hydration.state = "answered" => IsPrefs(hydration.prefs) /\ hydration.prefs.sensorHost = host
  /\ hydration.state \in Early =>
       chain = <<>> /\ ~lossy /\ ~timer /\ lost = {} /\ DOMAIN queue = touched
  /\ touched \subseteq {"window", "axes"}
  /\ hydration.state = "done" /\ queue # NoPatch => timer
  /\ hydration.state = "closed" => queue = NoPatch
  /\ ~lossy => (\A f \in touched : Comes(f, chosen[f])) /\ Comes("sensorHost", host)

FollowingInvariant ==
  /\ view = CreateView(followed) /\ IsView(painted.view)
  /\ ~late => followed = painted.prefs /\ window = painted.view.window

ChoicesInvariant == StoringInvariant /\ FollowingInvariant

\* The defaults have their fields, and a patched value those it had.
LEMMA DefaultsArePrefs == IsPrefs(Defaults)
BY StoreConstants DEF IsPrefs

LEMMA PatchedIsPrefs ==
  ASSUME NEW p, IsPrefs(p), NEW patch
  PROVE  /\ IsPrefs(Patched(p, patch))
         /\ \A f \in DOMAIN Defaults :
              Patched(p, patch)[f] = IF f \in DOMAIN patch THEN patch[f] ELSE p[f]
<1>1. DOMAIN p = DOMAIN Defaults
  BY DEF IsPrefs
<1> QED
  BY <1>1 DEF IsPrefs, Patched

\* The queue as one more patch that waits.
LEMMA QueueJoinsChain ==
  ASSUME IsSequence(chain), NEW patch, chain' = Append(chain, patch), value' = value,
         NEW f, NEW v
  PROVE  /\ IsSequence(chain')
         /\ f \in DOMAIN patch /\ patch[f] = v => InStore(f, v)'
         /\ f \notin DOMAIN patch /\ InStore(f, v) => InStore(f, v)'
<1> DEFINE S == {chain[i] : i \in DOMAIN chain} \union {patch}
<1>1. chain \in Seq(S) /\ patch \in S
  <2>1. \A i \in 1..Len(chain) : chain[i] \in S
    BY LenProperties DEF IsSequence
  <2>2. Len(chain) \in Nat /\ chain \in [1..Len(chain) -> S]
    BY <2>1, LenProperties DEF IsSequence
  <2> QED
    BY <2>2, SeqDef
<1>2. PICK n \in Nat : n = Len(chain)
  BY <1>1, LenProperties
<1>3. DOMAIN chain = 1..n /\ DOMAIN chain' = 1..(n + 1) /\ chain'[n + 1] = patch
  BY <1>1, <1>2, AppendProperties, LenProperties
<1>4. \A i \in 1..n : chain'[i] = chain[i]
  BY <1>1, <1>2, AppendProperties, LenProperties
<1>5. IsSequence(chain')
  BY AppendKeepsHead
<1>6. ASSUME f \in DOMAIN patch, patch[f] = v
      PROVE  InStore(f, v)'
  <2>1. n + 1 \in DOMAIN chain' /\ \A j \in DOMAIN chain' : ~(j > n + 1)
    BY <1>3
  <2> QED
    BY <1>3, <1>6, <2>1 DEF InStore
<1>7. ASSUME f \notin DOMAIN patch, InStore(f, v)
      PROVE  InStore(f, v)'
  <2>1. CASE (\A j \in DOMAIN chain : f \notin DOMAIN chain[j]) /\ value[f] = v
    <3>1. \A j \in DOMAIN chain' : f \notin DOMAIN chain'[j]
      <4> TAKE j \in DOMAIN chain'
      <4>1. CASE j = n + 1
        BY <1>3, <1>7, <4>1
      <4>2. CASE j \in 1..n
        BY <1>3, <1>4, <2>1, <4>2
      <4> QED
        BY <1>3, <4>1, <4>2
    <3> QED
      BY <2>1, <3>1 DEF InStore
  <2>2. ASSUME NEW i \in DOMAIN chain, f \in DOMAIN chain[i], chain[i][f] = v,
               \A j \in DOMAIN chain : j > i => f \notin DOMAIN chain[j]
        PROVE  InStore(f, v)'
    <3>1. i \in 1..n /\ i \in DOMAIN chain' /\ chain'[i] = chain[i]
      BY <1>3, <1>4
    <3>2. \A j \in DOMAIN chain' : j > i => f \notin DOMAIN chain'[j]
      <4> TAKE j \in DOMAIN chain'
      <4>1. CASE j = n + 1
        BY <1>3, <1>7, <4>1
      <4>2. CASE j \in 1..n
        BY <1>3, <1>4, <2>2, <4>2
      <4> QED
        BY <1>3, <4>1, <4>2
    <3> QED
      BY <2>2, <3>1, <3>2 DEF InStore
  <2> QED
    BY <1>7, <2>1, <2>2 DEF InStore
<1> QED
  BY <1>5, <1>6, <1>7

\* An update that is answered is in the value, and the others wait as before.
LEMMA AnswerKeepsWhatComes ==
  ASSUME IsSequence(chain), chain # <<>>, IsPrefs(value),
         chain' = Tail(chain), value' = Patched(value, Head(chain)),
         NEW f \in DOMAIN Defaults, NEW v, InStore(f, v)
  PROVE  InStore(f, v)'
<1>1. PICK n \in Nat : n = Len(chain)
  BY LenProperties DEF IsSequence
<1>2. n # 0 /\ DOMAIN chain = 1..n /\ Head(chain) = chain[1]
  BY <1>1, EmptySeq, LenProperties, HeadTailProperties DEF IsSequence
<1>3. DOMAIN chain' = 1..(n - 1) /\ \A i \in 1..(n - 1) : chain'[i] = chain[i + 1]
  BY <1>1, <1>2, HeadTailProperties, LenProperties DEF IsSequence
<1>4. value'[f] = IF f \in DOMAIN chain[1] THEN chain[1][f] ELSE value[f]
  BY <1>2, PatchedIsPrefs
<1>5. CASE (\A j \in DOMAIN chain : f \notin DOMAIN chain[j]) /\ value[f] = v
  <2>1. value'[f] = v
    BY <1>2, <1>4, <1>5
  <2>2. \A j \in DOMAIN chain' : f \notin DOMAIN chain'[j]
    <3> TAKE j \in DOMAIN chain'
    <3>1. j + 1 \in DOMAIN chain /\ chain'[j] = chain[j + 1]
      BY <1>2, <1>3
    <3> QED
      BY <1>5, <3>1
  <2> QED
    BY <2>1, <2>2 DEF InStore
<1>6. ASSUME NEW i \in DOMAIN chain, f \in DOMAIN chain[i], chain[i][f] = v,
             \A j \in DOMAIN chain : j > i => f \notin DOMAIN chain[j]
      PROVE  InStore(f, v)'
  <2>1. \A j \in DOMAIN chain' : j + 1 > i => f \notin DOMAIN chain'[j]
    <3> TAKE j \in DOMAIN chain'
    <3>1. j + 1 \in DOMAIN chain /\ chain'[j] = chain[j + 1]
      BY <1>2, <1>3
    <3> QED
      BY <1>6, <3>1
  <2>2. CASE i = 1
    <3>1. \A j \in DOMAIN chain' : f \notin DOMAIN chain'[j]
      BY <1>3, <2>1, <2>2
    <3>2. value'[f] = v
      BY <1>4, <1>6, <2>2
    <3> QED
      BY <3>1, <3>2 DEF InStore
  <2>3. CASE i # 1
    <3>1. i - 1 \in DOMAIN chain' /\ chain'[i - 1] = chain[i]
      BY <1>2, <1>3, <2>3
    <3>2. \A j \in DOMAIN chain' : j > i - 1 => f \notin DOMAIN chain'[j]
      <4> TAKE j \in DOMAIN chain'
      <4>1. j > i - 1 => j + 1 > i
        BY <1>2, <1>3
      <4> QED
        BY <2>1, <4>1
    <3> QED
      BY <1>6, <3>1, <3>2 DEF InStore
  <2> QED
    BY <2>2, <2>3
<1> QED
  BY <1>5, <1>6 DEF InStore

\* The queue is flushed, or lost: what was in it is now the last patch that waits.
LEMMA FlushKeepsWhatComes ==
  ASSUME IsSequence(chain), value' = value, queue' = NoPatch, NEW f, NEW v, Comes(f, v),
         \/ Update(queue) /\ lost' = lost \ DOMAIN queue
         \/ UNCHANGED chain /\ lost' = lost \union DOMAIN queue
  PROVE  IsSequence(chain') /\ Comes(f, v)'
<1>1. f \notin DOMAIN queue'
  BY DEF NoPatch
<1>2. CASE UNCHANGED chain /\ lost' = lost \union DOMAIN queue
  <2>1. IsSequence(chain') /\ (InStore(f, v) => InStore(f, v)')
    BY <1>2 DEF IsSequence, InStore
  <2> QED
    BY <1>1, <1>2, <2>1 DEF Comes
<1>3. CASE Update(queue) /\ lost' = lost \ DOMAIN queue
  <2>1. chain' = Append(chain, queue)
    BY <1>3 DEF Update
  <2>2. /\ IsSequence(chain')
        /\ f \in DOMAIN queue /\ queue[f] = v => InStore(f, v)'
        /\ f \notin DOMAIN queue /\ InStore(f, v) => InStore(f, v)'
    BY <2>1, QueueJoinsChain
  <2> QED
    BY <1>1, <1>3, <2>2 DEF Comes
<1> QED
  BY <1>2, <1>3

\* Who leaves the choices and the store alone keeps what is on its way.
LEMMA StoringStays ==
  ASSUME StoringInvariant, IsPrefs(painted'.prefs),
         UNCHANGED <<value, chain, file, durable, chosen, queue, timer, hydration, touched,
                     host, lossy, lost>>
  PROVE  StoringInvariant'
<1>1. (\A f \in touched : Comes(f, chosen[f]))' <=> \A f \in touched : Comes(f, chosen[f])
  BY DEF Comes, InStore
<1>2. Comes("sensorHost", host)' <=> Comes("sensorHost", host)
  BY DEF Comes, InStore
<1>3. /\ IsSequence(chain') /\ IsPrefs(value') /\ IsPrefs(file'.value)
      /\ IsPrefs(durable'.value) /\ IsPrefs(chosen')
  BY DEF StoringInvariant, IsPrefs, IsSequence
<1>4. ~lossy' => (\A f \in touched : Comes(f, chosen[f]))' /\ Comes("sensorHost", host)'
  BY <1>1, <1>2 DEF StoringInvariant
<1>5. /\ hydration'.state \in Early \union {"done", "closed"}
      /\ hydration'.state = "answered" =>
           IsPrefs(hydration'.prefs) /\ hydration'.prefs.sensorHost = host'
  BY DEF StoringInvariant, IsPrefs
<1>6. /\ hydration'.state \in Early =>
           chain' = <<>> /\ ~lossy' /\ ~timer' /\ lost' = {} /\ DOMAIN queue' = touched'
      /\ touched' \subseteq {"window", "axes"}
  BY DEF StoringInvariant
<1>7. /\ hydration'.state = "done" /\ queue' # NoPatch => timer'
      /\ hydration'.state = "closed" => queue' = NoPatch
  BY DEF StoringInvariant, NoPatch
<1> QED
  BY <1>3, <1>4, <1>5, <1>6, <1>7 DEF StoringInvariant

\* A choice is remembered in the queue, over an older one of its field.
LEMMA ChoiceIsQueued ==
  ASSUME StoringInvariant, NEW patch, DOMAIN patch \subseteq {"window", "axes"},
         Changes(patch), IsPrefs(painted'.prefs)
  PROVE  StoringInvariant'
<1>1. /\ chosen' = Patched(chosen, patch) /\ queue' = Merge(queue, patch)
      /\ touched' = touched \union DOMAIN patch
      /\ UNCHANGED <<value, chain, file, durable, hydration, host, lossy, lost>>
      /\ hydration.state # "closed" /\ timer' = (timer \/ hydration.state = "done")
  BY DEF Changes, storeVars
<1>2. /\ IsPrefs(chosen')
      /\ \A f \in DOMAIN Defaults :
           chosen'[f] = IF f \in DOMAIN patch THEN patch[f] ELSE chosen[f]
  BY <1>1, PatchedIsPrefs DEF StoringInvariant
<1>3. /\ DOMAIN queue' = DOMAIN queue \union DOMAIN patch
      /\ \A f \in DOMAIN queue' :
           queue'[f] = IF f \in DOMAIN patch THEN patch[f] ELSE queue[f]
  BY <1>1 DEF Merge
<1>4. \A f, v : f \notin DOMAIN patch => (Comes(f, v)' <=> Comes(f, v))
  BY <1>1, <1>3 DEF Comes, InStore
<1>5. touched' \subseteq {"window", "axes"} /\ "sensorHost" \notin DOMAIN patch
      /\ touched' \subseteq DOMAIN Defaults
  BY <1>1, StoreConstants DEF StoringInvariant
<1>6. ASSUME ~lossy, NEW f \in touched'
      PROVE  Comes(f, chosen[f])'
  <2>1. CASE f \in DOMAIN patch
    <3>1. f \in DOMAIN queue' /\ queue'[f] = chosen'[f]
      BY <1>2, <1>3, <1>5, <2>1
    <3> QED
      BY <3>1 DEF Comes
  <2>2. CASE f \notin DOMAIN patch
    <3>1. chosen'[f] = chosen[f] /\ Comes(f, chosen[f])
      BY <1>1, <1>2, <1>5, <1>6, <2>2 DEF StoringInvariant
    <3>2. PICK v : v = chosen[f]
      OBVIOUS
    <3>3. Comes(f, v)'
      BY <1>4, <2>2, <3>1, <3>2
    <3>4. v = chosen'[f]
      BY <3>1, <3>2
    <3> QED
      BY <3>3, <3>4 DEF Comes, InStore
  <2> QED
    BY <2>1, <2>2
<1>7. ASSUME ~lossy
      PROVE  Comes("sensorHost", host)'
  <2>1. Comes("sensorHost", host)
    BY <1>7 DEF StoringInvariant
  <2>2. PICK v : v = host
    OBVIOUS
  <2>3. Comes("sensorHost", v)'
    BY <1>4, <1>5, <2>1, <2>2
  <2>4. v = host'
    BY <1>1, <2>2
  <2> QED
    BY <2>3, <2>4 DEF Comes, InStore
<1>8. /\ hydration'.state = "answered" => IsPrefs(hydration'.prefs) /\ hydration'.prefs.sensorHost = host'
      /\ hydration'.state \in Early =>
           chain' = <<>> /\ ~lossy' /\ ~timer' /\ lost' = {} /\ DOMAIN queue' = touched'
  <2>1. hydration'.state = "answered" => IsPrefs(hydration'.prefs) /\ hydration'.prefs.sensorHost = host'
    BY <1>1 DEF StoringInvariant, IsPrefs
  <2>2. CASE hydration.state \in Early
    <3>1. chain = <<>> /\ ~lossy /\ ~timer /\ lost = {} /\ DOMAIN queue = touched
      BY <2>2 DEF StoringInvariant
    <3>2. hydration.state # "done"
      BY <2>2 DEF Early
    <3>3. ~timer'
      BY <1>1, <3>1, <3>2, Zenon
    <3> QED
      BY <1>1, <1>3, <2>1, <3>1, <3>3
  <2> QED
    BY <1>1, <2>1, <2>2
<1>9. /\ IsSequence(chain') /\ IsPrefs(value') /\ IsPrefs(file'.value) /\ IsPrefs(durable'.value)
      /\ hydration'.state \in Early \union {"done", "closed"}
  BY <1>1 DEF StoringInvariant, IsPrefs, IsSequence
<1>10. hydration'.state = "done" => timer'
  BY <1>1
<1>11. hydration'.state # "closed" /\ lossy' = lossy
  BY <1>1
<1> QED
  BY <1>2, <1>5, <1>6, <1>7, <1>8, <1>9, <1>10, <1>11 DEF StoringInvariant, IsPrefs

\* The queue is flushed by its timer, or lost with the page or for want of a handler.
LEMMA FlushKeepsStoring ==
  ASSUME StoringInvariant, TimerFires \/ Closes
  PROVE  StoringInvariant'
<1>0. /\ queue' = NoPatch
      /\ UNCHANGED <<value, file, durable, chosen, painted, touched, host, lossy>>
      /\ \/ hydration' = hydration /\ timer
         \/ hydration' = [state |-> "closed"]
      /\ \/ Update(queue) /\ lost' = lost \ DOMAIN queue
         \/ UNCHANGED chain /\ lost' = lost \union DOMAIN queue
  BY DEF TimerFires, Closes, storeVars
<1>1. IsSequence(chain')
  <2>1. CASE UNCHANGED chain
    BY <2>1 DEF StoringInvariant, IsSequence
  <2>2. CASE Update(queue)
    BY <2>2, AppendKeepsHead DEF Update, StoringInvariant
  <2> QED
    BY <1>0, <2>1, <2>2
<1>2. \A f, v : Comes(f, v) => Comes(f, v)'
  BY <1>0, FlushKeepsWhatComes DEF StoringInvariant
<1>3. ~lossy' => (\A f \in touched' : Comes(f, chosen[f])') /\ Comes("sensorHost", host)'
  <2>1. \A f \in touched : ~lossy => Comes(f, chosen[f])'
    <3> SUFFICES ASSUME NEW f \in touched, ~lossy PROVE Comes(f, chosen[f])'
      OBVIOUS
    <3>1. PICK v : v = chosen[f]
      OBVIOUS
    <3>2. Comes(f, v)'
      BY <1>2, <3>1 DEF StoringInvariant
    <3>3. v = chosen'[f]
      BY <1>0, <3>1
    <3> QED
      BY <3>2, <3>3 DEF Comes, InStore
  <2>2. ~lossy => Comes("sensorHost", host)'
    <3> SUFFICES ASSUME ~lossy PROVE Comes("sensorHost", host)'
      OBVIOUS
    <3>1. PICK v : v = host
      OBVIOUS
    <3>2. Comes("sensorHost", v)'
      BY <1>2, <3>1 DEF StoringInvariant
    <3>3. v = host'
      BY <1>0, <3>1
    <3> QED
      BY <3>2, <3>3 DEF Comes, InStore
  <2> QED
    BY <1>0, <2>1, <2>2
<1>4. hydration'.state \in Early \union {"done", "closed"} /\ hydration'.state \notin Early
  BY <1>0 DEF StoringInvariant, Early
<1> QED
  BY <1>0, <1>1, <1>3, <1>4 DEF StoringInvariant, IsPrefs, Early

\* The stored choices arrive under what was chosen meanwhile, or do not arrive.
LEMMA HydrationKeepsStoring ==
  ASSUME StoringInvariant, HydrationAnswered \/ Hydrates \/ HydrationFails
  PROVE  StoringInvariant'
<1>1. UNCHANGED <<value, chain, file, durable, painted, touched, lossy, lost>>
  BY DEF HydrationAnswered, Hydrates, HydrationFails, storeVars, editVars
<1>2. hydration.state \in Early
  BY DEF HydrationAnswered, Hydrates, HydrationFails, Early
<1>3. /\ chain = <<>> /\ ~lossy /\ ~timer /\ lost = {} /\ DOMAIN queue = touched
      /\ "sensorHost" \notin DOMAIN queue /\ touched \subseteq DOMAIN Defaults
      /\ "sensorHost" \in DOMAIN Defaults
  BY <1>2, StoreConstants DEF StoringInvariant
<1>4. value.sensorHost = host
  <2>1. DOMAIN chain = {}
    BY <1>3, EmptySeq
  <2> QED
    BY <1>3, <2>1 DEF StoringInvariant, Comes, InStore
<1>5. \A f \in touched : queue[f] = chosen[f]
  BY <1>3 DEF StoringInvariant, Comes
<1>6. /\ IsSequence(chain') /\ IsPrefs(value') /\ IsPrefs(file'.value)
      /\ IsPrefs(durable'.value) /\ IsPrefs(painted'.prefs)
  BY <1>1 DEF StoringInvariant, IsPrefs, IsSequence
<1>7. CASE HydrationAnswered
  <2>1. UNCHANGED <<chosen, queue, timer, host>>
    BY <1>7 DEF HydrationAnswered, editVars
  <2>2. \/ hydration' = [state |-> "answered", prefs |-> value]
        \/ hydration' = [state |-> "refused"]
    BY <1>7 DEF HydrationAnswered
  <2>3. /\ hydration'.state \in Early \union {"done", "closed"}
        /\ hydration'.state = "answered" =>
             IsPrefs(hydration'.prefs) /\ hydration'.prefs.sensorHost = host'
        /\ hydration'.state # "done" /\ hydration'.state # "closed"
    BY <1>4, <2>1, <2>2 DEF Early, StoringInvariant, IsPrefs
  <2>4. (\A f \in touched : Comes(f, chosen[f]))' /\ Comes("sensorHost", host)'
    BY <1>1, <1>3, <2>1 DEF StoringInvariant, Comes, InStore
  <2> QED
    BY <1>1, <1>3, <1>6, <2>1, <2>3, <2>4 DEF StoringInvariant, IsPrefs
<1>8. CASE Hydrates
  <2>1. /\ hydration.state = "answered" /\ hydration' = [state |-> "done"] /\ host' = host
        /\ chosen' = Patched(hydration.prefs, queue)
        /\ queue' = IF queue = NoPatch THEN queue ELSE chosen'
        /\ timer' = (queue # NoPatch)
    BY <1>8 DEF Hydrates, editVars
  <2>2. IsPrefs(hydration.prefs) /\ hydration.prefs.sensorHost = host
    BY <2>1 DEF StoringInvariant
  <2>3. /\ IsPrefs(chosen') /\ DOMAIN chosen' = DOMAIN Defaults
        /\ \A f \in DOMAIN Defaults :
             chosen'[f] = IF f \in DOMAIN queue THEN queue[f] ELSE hydration.prefs[f]
    BY <2>1, <2>2, PatchedIsPrefs DEF IsPrefs
  <2>4. (\A f \in touched : Comes(f, chosen[f]))' /\ Comes("sensorHost", host)'
    <3>1. CASE queue = NoPatch
      <4>1. touched' = {} /\ DOMAIN queue' = {}
        BY <1>1, <1>3, <2>1, <3>1 DEF NoPatch
      <4>2. DOMAIN chain' = {} /\ value'["sensorHost"] = host'
        BY <1>1, <1>3, <1>4, <2>1, EmptySeq
      <4> QED
        BY <4>1, <4>2 DEF Comes, InStore
    <3>2. CASE queue # NoPatch
      <4>1. queue' = chosen' /\ chosen'["sensorHost"] = host'
        BY <1>3, <2>1, <2>2, <2>3, <3>2
      <4>2. \A f \in touched' : f \in DOMAIN queue' /\ queue'[f] = chosen'[f]
        BY <1>1, <1>3, <2>3, <4>1
      <4>3. "sensorHost" \in DOMAIN queue' /\ queue'["sensorHost"] = host'
        BY <1>3, <2>3, <4>1
      <4> QED
        BY <4>2, <4>3 DEF Comes
    <3> QED
      BY <3>1, <3>2
  <2>5. hydration'.state = "done" /\ (queue' # NoPatch => timer')
    BY <2>1
  <2> QED
    BY <1>1, <1>6, <2>3, <2>4, <2>5 DEF StoringInvariant, Early, IsPrefs
<1>9. CASE HydrationFails
  <2>1. /\ hydration' = [state |-> "done"] /\ chosen' = chosen
        /\ queue' = IF queue = NoPatch THEN queue ELSE Merge(painted.prefs, queue)
        /\ timer' = (queue # NoPatch)
        /\ host' = IF queue = NoPatch THEN host ELSE painted.prefs.sensorHost
    BY <1>9 DEF HydrationFails
  <2>2. (\A f \in touched : Comes(f, chosen[f]))' /\ Comes("sensorHost", host)'
    <3>1. CASE queue = NoPatch
      <4>1. touched' = {} /\ DOMAIN queue' = {}
        BY <1>1, <1>3, <2>1, <3>1 DEF NoPatch
      <4>2. DOMAIN chain' = {} /\ value'["sensorHost"] = host'
        BY <1>1, <1>3, <1>4, <2>1, <3>1, EmptySeq
      <4> QED
        BY <4>1, <4>2 DEF Comes, InStore
    <3>2. CASE queue # NoPatch
      <4>1. DOMAIN painted.prefs = DOMAIN Defaults
        BY DEF StoringInvariant, IsPrefs
      <4>2. queue' = Merge(painted.prefs, queue)
        BY <2>1, <3>2
      <4>3. /\ DOMAIN queue' = DOMAIN Defaults \union DOMAIN queue
            /\ \A f \in DOMAIN queue' :
                 queue'[f] = IF f \in DOMAIN queue THEN queue[f] ELSE painted.prefs[f]
        BY <4>1, <4>2 DEF Merge
      <4>4. \A f \in touched' : f \in DOMAIN queue' /\ queue'[f] = chosen'[f]
        BY <1>1, <1>3, <1>5, <2>1, <4>3
      <4>5. "sensorHost" \in DOMAIN queue' /\ queue'["sensorHost"] = host'
        BY <1>3, <2>1, <3>2, <4>3
      <4> QED
        BY <4>4, <4>5 DEF Comes
    <3> QED
      BY <3>1, <3>2
  <2>3. hydration'.state = "done" /\ (queue' # NoPatch => timer')
    BY <2>1
  <2> QED
    BY <1>1, <1>6, <2>1, <2>2, <2>3 DEF StoringInvariant, Early, IsPrefs
<1> QED
  BY <1>7, <1>8, <1>9

\* A write goes on, or is answered.
LEMMA WriteKeepsStoring ==
  ASSUME StoringInvariant, StoreStep, UNCHANGED <<choiceVars, editVars>>
  PROVE  StoringInvariant'
<1>1. /\ UNCHANGED <<chosen, painted, queue, timer, hydration, touched, host, lossy, lost>>
      /\ chain # <<>>
  BY DEF choiceVars, editVars, StoreStep, Opens, Flushes, Renames, Permits, Acknowledges,
         Advance
<1>2. hydration.state \notin Early
  BY <1>1 DEF StoringInvariant
<1>3. IsPrefs(Written)
  BY PatchedIsPrefs DEF Written, StoringInvariant
<1>4. IsPrefs(file'.value) /\ IsPrefs(durable'.value)
  BY <1>3 DEF StoreStep, Opens, Flushes, Renames, Permits, Acknowledges, StoringInvariant,
              Content, IsPrefs
<1>5. CASE UNCHANGED <<value, chain>>
  <2>1. (\A f \in touched : Comes(f, chosen[f]))' <=> \A f \in touched : Comes(f, chosen[f])
    BY <1>1, <1>5 DEF Comes, InStore
  <2>2. Comes("sensorHost", host)' <=> Comes("sensorHost", host)
    BY <1>1, <1>5 DEF Comes, InStore
  <2>3. IsSequence(chain') /\ IsPrefs(value') /\ IsPrefs(chosen') /\ IsPrefs(painted'.prefs)
    BY <1>1, <1>5 DEF StoringInvariant, IsPrefs, IsSequence
  <2>4. ~lossy => (\A f \in touched : Comes(f, chosen[f])) /\ Comes("sensorHost", host)
    BY DEF StoringInvariant
  <2>5. ~lossy' => (\A f \in touched : Comes(f, chosen[f]))' /\ Comes("sensorHost", host)'
    BY <1>1, <2>1, <2>2, <2>4
  <2> QED
    BY <1>1, <1>2, <1>4, <2>3, <2>5 DEF StoringInvariant
<1>6. CASE Acknowledges
  <2>1. value' = Patched(value, Head(chain)) /\ chain' = Tail(chain)
    BY <1>6 DEF Acknowledges, Written
  <2>2. IsSequence(chain') /\ IsPrefs(value')
    BY <1>1, <2>1, TailIsSequence, PatchedIsPrefs DEF StoringInvariant
  <2>3. \A f \in DOMAIN Defaults : \A v : Comes(f, v) => Comes(f, v)'
    <3> SUFFICES ASSUME NEW f \in DOMAIN Defaults, NEW v, Comes(f, v)
                 PROVE  Comes(f, v)'
      OBVIOUS
    <3>1. CASE f \in DOMAIN queue
      BY <1>1, <3>1 DEF Comes
    <3>2. CASE f \notin DOMAIN queue
      <4>1. InStore(f, v) => InStore(f, v)'
        BY <1>1, <2>1, AnswerKeepsWhatComes DEF StoringInvariant
      <4> QED
        BY <1>1, <3>2, <4>1 DEF Comes
    <3> QED
      BY <3>1, <3>2
  <2>4. touched \subseteq DOMAIN Defaults /\ "sensorHost" \in DOMAIN Defaults
    BY StoreConstants DEF StoringInvariant
  <2>5. ASSUME ~lossy, NEW f \in touched
        PROVE  Comes(f, chosen[f])'
    <3>1. PICK v : v = chosen[f]
      OBVIOUS
    <3>2. Comes(f, v)'
      BY <2>3, <2>4, <2>5, <3>1 DEF StoringInvariant
    <3>3. v = chosen'[f]
      BY <1>1, <3>1
    <3> QED
      BY <3>2, <3>3 DEF Comes, InStore
  <2>6. ASSUME ~lossy
        PROVE  Comes("sensorHost", host)'
    <3>1. PICK v : v = host
      OBVIOUS
    <3>2. Comes("sensorHost", v)'
      BY <2>3, <2>4, <2>6, <3>1 DEF StoringInvariant
    <3>3. v = host'
      BY <1>1, <3>1
    <3> QED
      BY <3>2, <3>3 DEF Comes, InStore
  <2> QED
    BY <1>1, <1>2, <1>4, <2>2, <2>5, <2>6 DEF StoringInvariant, IsPrefs
<1> QED
  BY <1>5, <1>6 DEF StoreStep, Opens, Flushes, Renames, Permits

\* The host of a connection is stored over what waits.
LEMMA HostKeepsStoring ==
  ASSUME StoringInvariant, HostConnects
  PROVE  StoringInvariant'
<1>1. /\ UNCHANGED <<value, file, durable, chosen, painted, queue, timer, hydration,
                     touched, lossy>>
      /\ hydration.state = "done" /\ "sensorHost" \notin DOMAIN queue
      /\ lost' = lost \ {"sensorHost"}
  BY DEF HostConnects, choiceVars
<1>2. PICK patch : patch = [sensorHost |-> host'] /\ chain' = Append(chain, patch)
  BY DEF HostConnects, Update
<1>3. /\ IsSequence(chain')
      /\ \A f, v : f \in DOMAIN patch /\ patch[f] = v => InStore(f, v)'
      /\ \A f, v : f \notin DOMAIN patch /\ InStore(f, v) => InStore(f, v)'
  BY <1>1, <1>2, QueueJoinsChain DEF StoringInvariant
<1>4. "sensorHost" \notin touched
  BY DEF StoringInvariant
<1>5. ASSUME ~lossy, NEW f \in touched
      PROVE  Comes(f, chosen[f])'
  <2>1. PICK v : v = chosen[f]
    OBVIOUS
  <2>2. f \notin DOMAIN patch
    BY <1>2, <1>4
  <2>3. Comes(f, v)
    BY <1>5, <2>1 DEF StoringInvariant
  <2>4. Comes(f, v)'
    <3>1. f # "sensorHost" /\ (InStore(f, v) => InStore(f, v)')
      BY <1>3, <1>4, <1>5, <2>2
    <3> QED
      BY <1>1, <2>3, <3>1 DEF Comes
  <2>5. v = chosen'[f]
    BY <1>1, <2>1
  <2> QED
    BY <2>4, <2>5 DEF Comes, InStore
<1>6. Comes("sensorHost", host)'
  <2>1. PICK v : v = host'
    OBVIOUS
  <2>2. InStore("sensorHost", v)'
    BY <1>2, <1>3, <2>1
  <2> QED
    BY <1>1, <2>1, <2>2 DEF Comes, InStore
<1> QED
  BY <1>1, <1>3, <1>5, <1>6 DEF StoringInvariant, Early, IsPrefs

\* The program is started again: nothing was chosen yet, and nothing waits.
LEMMA StartKeepsStoring ==
  ASSUME StoringInvariant, StartsAgain
  PROVE  StoringInvariant'
<1>1. /\ file' \in {file, durable} /\ durable' = durable /\ value' = Read(file')
      /\ chain' = <<>>
      /\ chosen' = Defaults /\ painted'.prefs = Defaults /\ queue' = NoPatch /\ timer' = FALSE
      /\ hydration' = [state |-> "asked"] /\ touched' = {} /\ host' = value'.sensorHost
      /\ lossy' = FALSE /\ lost' = {}
  BY DEF StartsAgain, Restarts
<1>2. IsPrefs(file'.value) /\ IsPrefs(durable'.value)
  BY <1>1 DEF StoringInvariant, IsPrefs
<1>3. IsPrefs(Defaults)
  BY DefaultsArePrefs
<1>4. IsPrefs(value')
  BY <1>1, <1>2, <1>3 DEF Read
<1>5. IsPrefs(chosen') /\ IsPrefs(painted'.prefs)
  BY <1>1, <1>3
<1>6. IsSequence(chain')
  BY <1>1, EmptySeq, SequenceOf
<1>7. Comes("sensorHost", host)'
  <2>1. DOMAIN chain' = {} /\ DOMAIN queue' = {}
    BY <1>1, EmptySeq DEF NoPatch
  <2> QED
    BY <1>1, <2>1 DEF Comes, InStore
<1> QED
  BY <1>1, <1>2, <1>4, <1>5, <1>6, <1>7 DEF StoringInvariant, Early, NoPatch, IsPrefs

\* A choice by a menu is not seen by the view before its effects; one by the toolbar
\* is put into the view as it is made, which then is what the effects would make it.
LEMMA ChoiceIsMade ==
  ASSUME ChoicesInvariant, MenuChooses \/ Toolbar
  PROVE  ChoicesInvariant'
<1>1. IsPrefs(chosen) /\ IsPrefs(painted.prefs)
  BY DEF ChoicesInvariant, StoringInvariant
<1>2. CASE MenuChooses
  <2>1. PICK patch : Changes(patch) /\ DOMAIN patch \subseteq {"window", "axes"}
    <3>1. \A w : DOMAIN [window |-> w] \subseteq {"window", "axes"}
      OBVIOUS
    <3>2. \A s : DOMAIN [axes |-> s] \subseteq {"window", "axes"}
      OBVIOUS
    <3>3. \/ \E w \in Windows : Changes([window |-> w])
          \/ \E a \in Axes : Changes([axes |-> Toggled(painted.prefs.axes, a)])
      BY <1>2 DEF MenuChooses
    <3> QED
      BY <3>1, <3>2, <3>3, Zenon
  <2>2. UNCHANGED <<view, window, painted, late, followed>>
    BY <1>2 DEF MenuChooses
  <2>3. StoringInvariant'
    BY <1>1, <2>1, <2>2, ChoiceIsQueued DEF ChoicesInvariant, IsPrefs
  <2> QED
    BY <2>2, <2>3 DEF ChoicesInvariant, FollowingInvariant, CreateView, IsView
<1>3. CASE Toolbar
  <2>1. PICK action, patch :
          /\ ToolbarChooses(action, patch)
          /\ DOMAIN patch \subseteq {"window", "axes"}
          /\ \/ \E w \in Windows : /\ action = [type |-> "window_changed", window |-> w]
                                   /\ patch = [window |-> w]
             \/ \E a \in Axes :
                  /\ action = [type |-> "axis_visibility_changed", axis |-> a,
                               visible |-> a \notin painted.view.axes]
                  /\ patch = [axes |-> ReduceView(painted.view, action).axes]
    <3>1. \A w : DOMAIN [window |-> w] \subseteq {"window", "axes"}
      OBVIOUS
    <3>2. \A s : DOMAIN [axes |-> s] \subseteq {"window", "axes"}
      OBVIOUS
    <3>3. CASE \E w \in Windows :
                 ToolbarChooses([type |-> "window_changed", window |-> w], [window |-> w])
      BY <3>1, <3>3, Zenon
    <3>4. CASE \E a \in Axes :
                 LET action == [type |-> "axis_visibility_changed", axis |-> a,
                                visible |-> a \notin painted.view.axes]
                 IN ToolbarChooses(action, [axes |-> ReduceView(painted.view, action).axes])
      BY <3>2, <3>4, Zenon
    <3> QED
      BY <1>3, <3>3, <3>4 DEF Toolbar
  <2>2. /\ ~late /\ ~late' /\ Changes(patch)
        /\ painted' = [prefs |-> chosen', view |-> ReduceView(view, action)]
        /\ view' = FollowedBy(followed, chosen', ReduceView(view, action))
        /\ window' = painted'.view.window /\ followed' = chosen'
    BY <2>1 DEF ToolbarChooses
  <2>3. chosen' = Patched(chosen, patch)
    BY <2>2 DEF Changes
  <2>4. /\ IsPrefs(chosen')
        /\ \A f \in DOMAIN Defaults :
             chosen'[f] = IF f \in DOMAIN patch THEN patch[f] ELSE chosen[f]
    BY <1>1, <2>3, PatchedIsPrefs
  <2>5. StoringInvariant'
    BY <2>1, <2>2, <2>4, ChoiceIsQueued DEF ChoicesInvariant
  <2>6. view' = CreateView(chosen')
    <3>1. view = CreateView(followed)
      BY DEF ChoicesInvariant, FollowingInvariant
    <3>2. CASE CreateView(followed) # CreateView(chosen')
      BY <2>2, <3>2 DEF FollowedBy, ReduceView
    <3>3. CASE CreateView(followed) = CreateView(chosen')
      <4>1. view = CreateView(chosen') /\ view' = ReduceView(view, action)
        BY <2>2, <3>1, <3>3 DEF FollowedBy
      <4>2. ASSUME NEW w \in Windows, action = [type |-> "window_changed", window |-> w],
                   patch = [window |-> w]
            PROVE  ReduceView(view, action) = view
        <5>1. chosen'["window"] = w
          BY <2>4, <4>2, StoreConstants
        <5>2. view.window = w
          BY <4>1, <5>1 DEF CreateView
        <5>3. ReduceView(view, action) = [view EXCEPT !.window = w]
          BY <4>2 DEF ReduceView
        <5> QED
          BY <4>1, <5>2, <5>3 DEF CreateView
      <4>3. ASSUME NEW a \in Axes,
                   action = [type |-> "axis_visibility_changed", axis |-> a,
                             visible |-> a \notin painted.view.axes],
                   patch = [axes |-> ReduceView(painted.view, action).axes]
            PROVE  ReduceView(view, action) = view
        <5>1. chosen'["axes"] = ReduceView(painted.view, action).axes
          BY <2>4, <4>3, StoreConstants
        <5>2. PICK old : old = painted.view.axes
          OBVIOUS
        <5>3. view.axes = IF a \notin old THEN old \union {a} ELSE old \ {a}
          <6>1. ReduceView(painted.view, action) =
                  [painted.view EXCEPT !.axes = IF a \notin old THEN @ \union {a} ELSE @ \ {a}]
            BY <4>3, <5>2 DEF ReduceView
          <6>2. ReduceView(painted.view, action).axes =
                  IF a \notin old THEN old \union {a} ELSE old \ {a}
            BY <5>2, <6>1 DEF ChoicesInvariant, FollowingInvariant, IsView
          <6> QED
            BY <4>1, <5>1, <6>2 DEF CreateView
        <5>4. ReduceView(view, action) =
                [view EXCEPT !.axes = IF a \notin old THEN @ \union {a} ELSE @ \ {a}]
          BY <4>3, <5>2 DEF ReduceView
        <5>5. PICK axes : axes = view.axes
          OBVIOUS
        <5>6. (IF a \notin old THEN axes \union {a} ELSE axes \ {a}) = axes
          BY <5>3, <5>5
        <5> QED
          BY <4>1, <5>4, <5>5, <5>6 DEF CreateView
      <4> QED
        BY <2>1, <4>1, <4>2, <4>3
    <3> QED
      BY <3>2, <3>3
  <2>7. IsView(ReduceView(view, action))
    <3>1. PICK m, w, s : view = [mode |-> m, window |-> w, axes |-> s]
      BY DEF ChoicesInvariant, FollowingInvariant, CreateView
    <3>2. \/ \E n : ReduceView(view, action) = [view EXCEPT !.window = n]
          \/ \E n : ReduceView(view, action) = [view EXCEPT !.axes = n]
      <4>1. ASSUME NEW n, action = [type |-> "window_changed", window |-> n]
            PROVE  ReduceView(view, action) = [view EXCEPT !.window = n]
        BY <4>1 DEF ReduceView
      <4>2. ASSUME NEW a, NEW b,
                   action = [type |-> "axis_visibility_changed", axis |-> a, visible |-> b]
            PROVE  \E n : ReduceView(view, action) = [view EXCEPT !.axes = n]
        <5>1. ReduceView(view, action) =
                [view EXCEPT !.axes = IF b THEN @ \union {a} ELSE @ \ {a}]
          BY <4>2 DEF ReduceView
        <5>2. \E n : n = IF b THEN view.axes \union {a} ELSE view.axes \ {a}
          OBVIOUS
        <5> QED
          BY <5>1, <5>2
      <4> QED
        BY <2>1, <4>1, <4>2, Zenon
    <3> QED
      BY <3>1, <3>2 DEF IsView
  <2>8. IsView(painted'.view)
    BY <2>2, <2>7
  <2> QED
    BY <2>2, <2>5, <2>6, <2>8 DEF ChoicesInvariant, FollowingInvariant
<1> QED
  BY <1>2, <1>3

\* A render, and its effects.
LEMMA ViewFollows ==
  ASSUME ChoicesInvariant, Paints \/ Follows
  PROVE  ChoicesInvariant'
<1>1. UNCHANGED <<value, chain, file, durable, chosen, queue, timer, hydration, touched,
                  host, lossy, lost>>
  BY DEF Paints, Follows, storeVars, editVars
<1>2. painted'.prefs \in {chosen, painted.prefs}
  BY DEF Paints, Follows
<1>3. StoringInvariant'
  <2>1. IsPrefs(painted'.prefs)
    BY <1>2 DEF ChoicesInvariant, StoringInvariant, IsPrefs
  <2> QED
    BY <1>1, <2>1, StoringStays DEF ChoicesInvariant
<1>4. FollowingInvariant'
  <2>1. CASE Paints
    <3>1. /\ UNCHANGED <<view, window, followed>> /\ late' = TRUE
          /\ painted' = [prefs |-> chosen, view |-> view]
      BY <2>1 DEF Paints
    <3>2. IsView(view)
      BY DEF ChoicesInvariant, FollowingInvariant, CreateView, IsView
    <3>3. view' = CreateView(followed')
      BY <3>1 DEF ChoicesInvariant, FollowingInvariant
    <3>4. IsView(painted'.view)
      BY <3>1, <3>2 DEF IsView
    <3> QED
      BY <3>1, <3>3, <3>4 DEF FollowingInvariant
  <2>2. CASE Follows
    <3>1. /\ late' = FALSE /\ followed' = painted.prefs /\ painted' = painted
          /\ view' = FollowedBy(followed, painted.prefs, view)
          /\ window' = painted.view.window
      BY <2>2 DEF Follows
    <3>2. view = CreateView(followed)
      BY DEF ChoicesInvariant, FollowingInvariant
    <3>3. view' = CreateView(painted.prefs)
      BY <3>1, <3>2 DEF FollowedBy, ReduceView
    <3>4. IsView(painted'.view)
      BY <3>1 DEF ChoicesInvariant, FollowingInvariant, IsView
    <3> QED
      BY <3>1, <3>3, <3>4 DEF FollowingInvariant
  <2> QED
    BY <2>1, <2>2
<1> QED
  BY <1>3, <1>4 DEF ChoicesInvariant

\* Who leaves the view alone keeps what follows it.
LEMMA FollowingStays ==
  ASSUME FollowingInvariant, UNCHANGED <<view, window, painted, late, followed>>
  PROVE  FollowingInvariant'
BY DEF FollowingInvariant, CreateView, IsView

LEMMA ChoicesStep ==
  ASSUME ChoicesInvariant, [Next]_vars
  PROVE  ChoicesInvariant'
<1>1. CASE Only("choices") /\ PrefsNext
  <2>1. CASE MenuChooses \/ Toolbar
    BY <2>1, ChoiceIsMade
  <2>2. CASE Paints \/ Follows
    BY <2>2, ViewFollows
  <2>3. CASE HostConnects
    BY <2>3, HostKeepsStoring, FollowingStays DEF ChoicesInvariant, HostConnects, choiceVars
  <2>4. CASE TimerFires \/ Closes
    <3>1. UNCHANGED <<view, window, painted, late, followed>>
      BY <2>4 DEF TimerFires, Closes
    <3> QED
      BY <2>4, <3>1, FlushKeepsStoring, FollowingStays DEF ChoicesInvariant
  <2>5. CASE HydrationAnswered \/ Hydrates \/ HydrationFails
    <3>1. UNCHANGED <<view, window, painted, late, followed>>
      BY <2>5 DEF HydrationAnswered, Hydrates, HydrationFails
    <3> QED
      BY <2>5, <3>1, HydrationKeepsStoring, FollowingStays DEF ChoicesInvariant
  <2>6. CASE Stores
    BY <2>6, WriteKeepsStoring, FollowingStays DEF ChoicesInvariant, Stores, choiceVars
  <2>7. CASE Refuses
    <3>1. /\ chain # <<>> /\ chain' = Tail(chain) /\ lossy' = TRUE
          /\ UNCHANGED <<value, file, durable, chosen, view, window, painted, late, followed,
                         queue, timer, hydration, touched, host, lost>>
      BY <2>7 DEF Refuses, Fails, choiceVars
    <3>2. IsSequence(chain')
      BY <3>1, TailIsSequence DEF ChoicesInvariant, StoringInvariant
    <3>3. hydration.state \notin Early
      BY <3>1 DEF ChoicesInvariant, StoringInvariant
    <3>4. StoringInvariant'
      BY <3>1, <3>2, <3>3 DEF ChoicesInvariant, StoringInvariant, IsPrefs
    <3> QED
      BY <3>1, <3>4, FollowingStays DEF ChoicesInvariant
  <2>8. CASE StartsAgain
    <3>1. FollowingInvariant'
      BY <2>8 DEF StartsAgain, FollowingInvariant, CreateView, IsView
    <3> QED
      BY <2>8, <3>1, StartKeepsStoring DEF ChoicesInvariant
  <2>9. CASE Registers \/ Quits
    <3>1. UNCHANGED <<value, chain, file, durable, chosen, queue, timer, hydration, touched,
                      host, lossy, lost, painted, view, window, late, followed>>
      BY <2>9 DEF Registers, Quits, storeVars, editVars
    <3>2. IsPrefs(painted'.prefs)
      BY <3>1 DEF ChoicesInvariant, StoringInvariant, IsPrefs
    <3> QED
      BY <3>1, <3>2, StoringStays, FollowingStays DEF ChoicesInvariant
  <2> QED
    BY <1>1, <2>1, <2>2, <2>3, <2>4, <2>5, <2>6, <2>7, <2>8, <2>9 DEF PrefsNext
<1>2. CASE ~(Only("choices") /\ PrefsNext)
  <2>1. UNCHANGED prefsVars
    BY <1>2 DEF Next, Only, vars
  <2>2. UNCHANGED <<value, chain, file, durable, chosen, queue, timer, hydration, touched,
                    host, lossy, lost, painted, view, window, late, followed>>
    BY <2>1 DEF prefsVars, storeVars, choiceVars, editVars
  <2>3. IsPrefs(painted'.prefs)
    BY <2>2 DEF ChoicesInvariant, StoringInvariant, IsPrefs
  <2> QED
    BY <2>2, <2>3, StoringStays, FollowingStays DEF ChoicesInvariant
<1> QED
  BY <1>1, <1>2

LEMMA ChoicesBegin ==
  ASSUME Init
  PROVE  ChoicesInvariant
<1>1. StoreInit /\ StartsViewer(Defaults.sensorHost)
  BY DEF Init, PrefsInit
<1>2. /\ value = Defaults /\ chain = <<>> /\ file.value = Defaults /\ durable.value = Defaults
      /\ chosen = Defaults /\ painted.prefs = Defaults /\ queue = NoPatch /\ timer = FALSE
      /\ hydration = [state |-> "asked"] /\ touched = {} /\ host = Defaults.sensorHost
      /\ lossy = FALSE /\ lost = {}
  BY <1>1 DEF StoreInit, StartsViewer, Content
<1>3. IsSequence(chain)
  BY <1>2, EmptySeq, SequenceOf
<1>4. Comes("sensorHost", host)
  <2>1. DOMAIN chain = {} /\ DOMAIN queue = {}
    BY <1>2, EmptySeq DEF NoPatch
  <2> QED
    BY <1>2, <2>1 DEF Comes, InStore
<1>5. StoringInvariant
  BY <1>2, <1>3, <1>4, DefaultsArePrefs DEF StoringInvariant, Early, NoPatch, IsPrefs
<1>6. FollowingInvariant
  BY <1>1 DEF StartsViewer, FollowingInvariant, CreateView, IsView
<1> QED
  BY <1>5, <1>6 DEF ChoicesInvariant

\* Once nothing of it is on its way, what was chosen is what is stored and what is
\* shown, before and after the stored choices came, whichever way it took, unless an
\* update was refused (App.tsx:107, 300; ChartWorkspace.tsx:260).
THEOREM ChoicesAreKept == Spec => []ChoicesArrive
<1>1. ChoicesInvariant => ChoicesArrive
  <2> SUFFICES ASSUME ChoicesInvariant PROVE ChoicesArrive
    OBVIOUS
  <2>1. Stored
    <3> SUFFICES ASSUME hydration.state \in {"done", "closed"}, chain = <<>>, ~timer, ~lossy
                 PROVE  /\ \A f \in touched \ lost : value[f] = chosen[f]
                        /\ "sensorHost" \notin lost => value.sensorHost = host
      BY DEF Stored
    <3>1. DOMAIN chain = {} /\ queue = NoPatch /\ DOMAIN queue = {}
      BY EmptySeq DEF ChoicesInvariant, StoringInvariant, NoPatch
    <3>2. (\A f \in touched : Comes(f, chosen[f])) /\ Comes("sensorHost", host)
      BY DEF ChoicesInvariant, StoringInvariant
    <3> QED
      BY <3>1, <3>2 DEF Comes, InStore
  <2>2. Followed
    BY DEF Followed, ChoicesInvariant, FollowingInvariant
  <2> QED
    BY <2>1, <2>2 DEF ChoicesArrive
<1> QED
  BY <1>1, ChoicesBegin, ChoicesStep, PTL DEF Spec
-----------------------------------------------------------------------------
(* The log *)

\* What SizeOf and Bytes say of an entry, of no file and of one that has grown.
LEMMA SizeIsSmall ==
  ASSUME NEW n \in Nat
  PROVE  SizeOf(n) \in {1, 2}
BY DEF SizeOf

LEMMA BytesEquation ==
  ASSUME NEW q, Len(q) \in Nat
  PROVE  \E f : /\ f[0] = 0
                /\ \A n \in Nat : n < Len(q) => f[n + 1] = f[n] + SizeOf(q[n + 1])
                /\ Bytes(q) = f[Len(q)]
<1> DEFINE Is(f, n) == f = [i \in 0..n |-> IF i = 0 THEN 0 ELSE f[i - 1] + SizeOf(q[i])]
           T == {n \in Nat : \E f : Is(f, n)}
<1>1. 0 \in T
  <2>1. Is([i \in 0..0 |-> 0], 0)
    OBVIOUS
  <2> QED
    BY <2>1
<1>2. ASSUME NEW n \in Nat, n \in T PROVE n + 1 \in T
  <2>1. PICK f : Is(f, n)
    BY <1>2
  <2> DEFINE e == f[n] + SizeOf(q[n + 1])
             g == [i \in 0..(n + 1) |-> IF i = n + 1 THEN e ELSE f[i]]
  <2>2. ASSUME NEW i \in 0..(n + 1)
        PROVE  g[i] = IF i = 0 THEN 0 ELSE g[i - 1] + SizeOf(q[i])
    <3>1. CASE i = n + 1
      BY <3>1
    <3>2. CASE i \in 0..n
      <4>1. g[i] = f[i] /\ (i # 0 => g[i - 1] = f[i - 1])
        BY <3>2
      <4>2. f[i] = IF i = 0 THEN 0 ELSE f[i - 1] + SizeOf(q[i])
        BY <2>1, <3>2
      <4> QED
        BY <4>1, <4>2
    <3> QED
      BY <3>1, <3>2
  <2>3. Is(g, n + 1)
    BY <2>2
  <2>4. \E h : Is(h, n + 1)
    <3> HIDE DEF g, Is
    <3> QED
      BY <2>3
  <2> HIDE DEF Is
  <2> QED
    BY <2>4
<1>3. Len(q) \in T
  <2> HIDE DEF T
  <2> QED
    BY <1>1, <1>2, SetInduction
<1>4. PICK f : Is(f, Len(q))
  BY <1>3
<1> DEFINE g == CHOOSE h : Is(h, Len(q))
<1>5. Is(g, Len(q))
  BY <1>4
<1>6. Bytes(q) = g[Len(q)]
  BY DEF Bytes
<1> HIDE DEF g
<1>7. g[0] = 0
  BY <1>5
<1>8. ASSUME NEW n \in Nat, n < Len(q) PROVE g[n + 1] = g[n] + SizeOf(q[n + 1])
  <2>1. n + 1 \in 0..Len(q) /\ n + 1 # 0 /\ (n + 1) - 1 = n
    BY <1>8
  <2> QED
    BY <1>5, <2>1
<1> QED
  BY <1>6, <1>7, <1>8

LEMMA BytesAreCounted ==
  ASSUME NEW q \in Seq(Nat)
  PROVE  /\ Bytes(q) \in Nat
         /\ q = <<>> => Bytes(q) = 0
         /\ Len(q) = 1 => Bytes(q) = SizeOf(q[1])
         /\ \A n \in Nat : Bytes(Append(q, n)) = Bytes(q) + SizeOf(n)
<1>1. Len(q) \in Nat /\ \A i \in 1..Len(q) : q[i] \in Nat
  BY LenProperties, ElementOfSeq
<1>2. PICK f : /\ f[0] = 0
               /\ \A n \in Nat : n < Len(q) => f[n + 1] = f[n] + SizeOf(q[n + 1])
               /\ Bytes(q) = f[Len(q)]
  BY <1>1, BytesEquation
<1>3. Bytes(q) \in Nat
  <2> DEFINE T == {n \in Nat : n <= Len(q) => f[n] \in Nat}
  <2>1. 0 \in T
    BY <1>2
  <2>2. ASSUME NEW n \in Nat, n \in T PROVE n + 1 \in T
    <3>1. SUFFICES ASSUME n + 1 <= Len(q) PROVE f[n + 1] \in Nat
      OBVIOUS
    <3>2. f[n] \in Nat /\ f[n + 1] = f[n] + SizeOf(q[n + 1]) /\ q[n + 1] \in Nat
      BY <1>1, <1>2, <2>2, <3>1
    <3>3. SizeOf(q[n + 1]) \in Nat
      BY <3>2, SizeIsSmall
    <3> QED
      BY <3>2, <3>3
  <2>3. Len(q) \in T
    <3> HIDE DEF T
    <3> QED
      BY <1>1, <2>1, <2>2, SetInduction
  <2> QED
    BY <1>1, <1>2, <2>3
<1>4. q = <<>> => Bytes(q) = 0
  BY <1>2
<1>5. ASSUME Len(q) = 1 PROVE Bytes(q) = SizeOf(q[1])
  <2>1. f[0 + 1] = f[0] + SizeOf(q[0 + 1])
    BY <1>2, <1>5
  <2>2. SizeOf(q[1]) \in Nat
    BY <1>1, <1>5, SizeIsSmall
  <2> QED
    BY <1>2, <1>5, <2>1, <2>2
<1>6. ASSUME NEW x \in Nat PROVE Bytes(Append(q, x)) = Bytes(q) + SizeOf(x)
  <2> DEFINE r == Append(q, x)
  <2>1. /\ Len(r) = Len(q) + 1 /\ r[Len(q) + 1] = x
        /\ \A i \in 1..Len(q) : r[i] = q[i]
    BY <1>6, AppendProperties
  <2> HIDE DEF r
  <2>2. PICK g : /\ g[0] = 0
                 /\ \A n \in Nat : n < Len(r) => g[n + 1] = g[n] + SizeOf(r[n + 1])
                 /\ Bytes(r) = g[Len(r)]
    BY <1>1, <2>1, BytesEquation, SMTT(30)
  <2> DEFINE T == {n \in Nat : n <= Len(q) => f[n] = g[n]}
  <2>3. 0 \in T
    BY <1>2, <2>2
  <2>4. ASSUME NEW n \in Nat, n \in T PROVE n + 1 \in T
    <3>1. SUFFICES ASSUME n + 1 <= Len(q) PROVE f[n + 1] = g[n + 1]
      OBVIOUS
    <3>2. n < Len(q) /\ n < Len(r) /\ n + 1 \in 1..Len(q)
      BY <1>1, <2>1, <3>1
    <3>3. f[n] = g[n] /\ q[n + 1] = r[n + 1]
      BY <1>1, <2>1, <2>4, <3>2
    <3>4. f[n + 1] = f[n] + SizeOf(q[n + 1])
      BY <1>2, <3>2
    <3>5. g[n + 1] = g[n] + SizeOf(r[n + 1])
      BY <2>2, <3>2
    <3> QED
      BY <3>3, <3>4, <3>5, Zenon
  <2>5. Len(q) \in T
    <3> HIDE DEF T
    <3> QED
      BY <1>1, <2>3, <2>4, SetInduction
  <2>6. g[Len(q) + 1] = g[Len(q)] + SizeOf(r[Len(q) + 1])
    BY <1>1, <2>1, <2>2
  <2> QED
    BY <1>1, <1>2, <2>1, <2>2, <2>5, <2>6 DEF r
<1> QED
  BY <1>3, <1>4, <1>5, <1>6

\* The function inside FlattenSeq is what its equation says.
LEMMA FlattenEquation ==
  ASSUME NEW seqs, Len(seqs) \in Nat, Len(seqs) > 0
  PROVE  \E f : /\ f[1] = seqs[1]
                /\ \A n \in Nat : 1 <= n /\ n < Len(seqs) => f[n + 1] = f[n] \o seqs[n + 1]
                /\ FlattenSeq(seqs) = f[Len(seqs)]
<1> DEFINE Is(f, n) == f = [i \in 1..n |-> IF i = 1 THEN seqs[i] ELSE f[i - 1] \o seqs[i]]
           T == {n \in Nat : \E f : Is(f, n)}
<1>1. 0 \in T
  <2>1. Is([i \in 1..0 |-> <<>>], 0)
    OBVIOUS
  <2> QED
    BY <2>1
<1>2. ASSUME NEW n \in Nat, n \in T PROVE n + 1 \in T
  <2>1. PICK f : Is(f, n)
    BY <1>2
  <2> DEFINE e == IF n = 0 THEN seqs[n + 1] ELSE f[n] \o seqs[n + 1]
             g == [i \in 1..(n + 1) |-> IF i = n + 1 THEN e ELSE f[i]]
  <2>2. ASSUME NEW i \in 1..(n + 1)
        PROVE  g[i] = IF i = 1 THEN seqs[i] ELSE g[i - 1] \o seqs[i]
    <3>1. CASE i = n + 1
      BY <3>1
    <3>2. CASE i \in 1..n
      <4>1. g[i] = f[i] /\ (i # 1 => g[i - 1] = f[i - 1])
        BY <3>2
      <4>2. f[i] = IF i = 1 THEN seqs[i] ELSE f[i - 1] \o seqs[i]
        BY <2>1, <3>2
      <4> QED
        BY <4>1, <4>2
    <3> QED
      BY <3>1, <3>2
  <2>3. Is(g, n + 1)
    BY <2>2
  <2>4. \E h : Is(h, n + 1)
    <3> HIDE DEF g, Is
    <3> QED
      BY <2>3
  <2> HIDE DEF Is
  <2> QED
    BY <2>4
<1>3. Len(seqs) \in T
  <2> HIDE DEF T
  <2> QED
    BY <1>1, <1>2, SetInduction
<1>4. PICK f : Is(f, Len(seqs))
  BY <1>3
<1> DEFINE g == CHOOSE h : Is(h, Len(seqs))
<1>5. Is(g, Len(seqs))
  BY <1>4
<1>6. FlattenSeq(seqs) = g[Len(seqs)]
  BY DEF FlattenSeq
<1> HIDE DEF g
<1>7. g[1] = seqs[1]
  BY <1>5
<1>8. ASSUME NEW n \in Nat, 1 <= n, n < Len(seqs) PROVE g[n + 1] = g[n] \o seqs[n + 1]
  <2>1. n + 1 \in 1..Len(seqs) /\ n + 1 # 1 /\ (n + 1) - 1 = n
    BY <1>8
  <2> QED
    BY <1>5, <2>1
<1> QED
  BY <1>6, <1>7, <1>8

\* A sequence that agrees with the end of another is a suffix of it.
LEMMA SuffixOf ==
  ASSUME NEW S, NEW s \in Seq(S), NEW t \in Seq(S), NEW m \in Nat, Len(t) = m + Len(s),
         \A k \in 1..Len(s) : s[k] = t[m + k]
  PROVE  IsSuffix(s, t)
<1> DEFINE a == Reverse(s)
           b == Reverse(t)
<1>1. /\ Len(s) \in Nat /\ Len(t) \in Nat
      /\ \A i \in 1..Len(s) : s[i] \in S
      /\ \A i \in 1..Len(t) : t[i] \in S
  BY LenProperties, ElementOfSeq
<1>2. /\ Len(a) = Len(s) /\ \A i \in 1..Len(s) : a[i] = s[(Len(s) - i) + 1]
      /\ Len(b) = Len(t) /\ \A i \in 1..Len(t) : b[i] = t[(Len(t) - i) + 1]
  BY <1>1 DEF Reverse
<1> HIDE DEF a, b
<1>3. \A i \in 1..Len(s) : a[i] \in S /\ b[i] = a[i]
  <2> SUFFICES ASSUME NEW i \in 1..Len(s) PROVE a[i] \in S /\ b[i] = a[i]
    OBVIOUS
  <2>1. (Len(s) - i) + 1 \in 1..Len(s) /\ i \in 1..Len(t)
        /\ (Len(t) - i) + 1 = m + ((Len(s) - i) + 1)
    BY <1>1
  <2> QED
    BY <1>1, <1>2, <2>1
<1>4. 1 \in Int /\ Len(s) \in Int
  BY <1>1
<1>5. /\ SubSeq(a, 1, Len(s)) \in Seq(S)
      /\ Len(SubSeq(a, 1, Len(s))) = IF 1 <= Len(s) THEN Len(s) - 1 + 1 ELSE 0
      /\ \A i \in 1..(Len(s) - 1 + 1) : SubSeq(a, 1, Len(s))[i] = a[1 + i - 1]
  BY <1>3, <1>4, SubSeqProperties
<1>6. /\ SubSeq(b, 1, Len(s)) \in Seq(S)
      /\ Len(SubSeq(b, 1, Len(s))) = IF 1 <= Len(s) THEN Len(s) - 1 + 1 ELSE 0
      /\ \A i \in 1..(Len(s) - 1 + 1) : SubSeq(b, 1, Len(s))[i] = b[1 + i - 1]
  BY <1>3, <1>4, SubSeqProperties
<1>7. SubSeq(a, 1, Len(s)) = SubSeq(b, 1, Len(s))
  <2>1. \A i \in 1..(Len(s) - 1 + 1) : 1 + i - 1 = i /\ i \in 1..Len(s)
    BY <1>1
  <2>2. PICK u : u = SubSeq(a, 1, Len(s))
    OBVIOUS
  <2>3. PICK v : v = SubSeq(b, 1, Len(s))
    OBVIOUS
  <2>4. /\ u \in Seq(S) /\ v \in Seq(S) /\ Len(u) = Len(s) /\ Len(v) = Len(s)
        /\ \A i \in 1..Len(s) : u[i] = v[i]
    BY <1>1, <1>3, <1>5, <1>6, <2>1, <2>2, <2>3
  <2>5. u = v
    BY <2>4, SeqEqual
  <2> QED
    BY <2>2, <2>3, <2>5
<1>8. Len(a) <= Len(b)
  BY <1>1, <1>2
<1> QED
  BY <1>2, <1>7, <1>8 DEF IsSuffix, IsPrefix, a, b

LogType ==
  /\ files \in [Indices -> Seq(Nat)] /\ kept \in Seq(Nat) /\ entries \in Nat
  /\ appending \in {"idle", "unlink", "rename", "write"}
  /\ moving \in 0..(RetainedFiles - 2)

\* What the store believes of the log's size is so; a file holds no more than it may, and
\* an entry is written where there is room for it.  While the files move up, the place
\* that is to be taken is free.
Sized ==
  /\ currentBytes = Bytes(files[0])
  /\ \A i \in Indices : Bytes(files[i]) <= MaximumBytes
  /\ appending = "write" => currentBytes + SizeOf(entries) <= MaximumBytes
  /\ appending = "rename" => files[moving + 1] = <<>>

\* The files are what was written, cut into pieces: file i is what lies between two cuts.
Cuts(cut) ==
  /\ cut[0] = Len(kept) /\ \A i \in 0..RetainedFiles : cut[i] <= Len(kept)
  /\ \A i \in Indices : cut[i + 1] <= cut[i] /\ Len(files[i]) = cut[i] - cut[i + 1]
  /\ \A i \in Indices : \A k \in 1..Len(files[i]) : files[i][k] = kept[cut[i + 1] + k]

\* Where no rotation was cut short only the oldest files are empty, but for the place that
\* is free while they move up, and none is once something is gone.
Gap == IF appending = "rename" THEN moving + 1 ELSE RetainedFiles
Full(cut) ==
  "rotate" \notin cutShort =>
    /\ appending \in {"unlink", "rename"} => files[0] # <<>>
    /\ \A i, j \in Indices : 0 < i /\ i < j /\ i # Gap /\ files[i] = <<>> => files[j] = <<>>
    /\ cut[RetainedFiles] > 0 => \A i \in Indices \ {0, Gap} : files[i] # <<>>

Pieces == \E cut \in [0..RetainedFiles -> Nat] : Cuts(cut) /\ Full(cut)

LogInvariant == LogType /\ Sized /\ Pieces

\* What there is to read is then the end of what was written.
LEMMA RetainedIsTheEnd ==
  ASSUME LogType, NEW cut \in [0..RetainedFiles -> Nat], Cuts(cut)
  PROVE  IsSuffix(Retained, kept) /\ (Retained # kept => cut[RetainedFiles] > 0)
<1> DEFINE R == RetainedFiles
           seqs == [i \in 1..R |-> files[R - i]]
<1>1. R \in Nat /\ R > 1 /\ Len(seqs) = R /\ Retained = FlattenSeq(seqs)
  BY LogAssumption DEF Retained
<1>2. /\ \A i \in 0..(R - 1) : files[i] \in Seq(Nat) /\ Len(files[i]) \in Nat
      /\ kept \in Seq(Nat) /\ Len(kept) \in Nat
  BY <1>1, LenProperties DEF LogType, Indices
<1>3. \A i \in 1..R : seqs[i] = files[R - i]
  OBVIOUS
<1> HIDE DEF seqs, R
<1>4. PICK f : /\ f[1] = seqs[1]
               /\ \A n \in Nat : 1 <= n /\ n < R => f[n + 1] = f[n] \o seqs[n + 1]
               /\ Retained = f[R]
  <2>1. Len(seqs) \in Nat /\ Len(seqs) > 0
    BY <1>1
  <2>2. PICK f : /\ f[1] = seqs[1]
                 /\ \A n \in Nat : 1 <= n /\ n < Len(seqs) => f[n + 1] = f[n] \o seqs[n + 1]
                 /\ FlattenSeq(seqs) = f[Len(seqs)]
    BY <2>1, FlattenEquation
  <2> QED
    BY <1>1, <2>2
<1>5. /\ \A i \in 0..R : cut[i] \in Nat
      /\ cut[0] = Len(kept)
      /\ \A i \in 0..(R - 1) : cut[i + 1] <= cut[i] /\ Len(files[i]) = cut[i] - cut[i + 1]
      /\ \A i \in 0..(R - 1) : \A k \in 1..Len(files[i]) : files[i][k] = kept[cut[i + 1] + k]
  BY DEF Cuts, Indices, R
<1> DEFINE Good(g, n) == /\ g \in Seq(Nat) /\ cut[R] <= cut[R - n]
                         /\ Len(g) = cut[R - n] - cut[R]
                         /\ \A k \in 1..Len(g) : g[k] = kept[cut[R] + k]
           T == {n \in Nat : n + 1 <= R => Good(f[n + 1], n + 1)}
<1>6. 0 \in T
  <2>1. R - 1 \in 0..(R - 1) /\ (R - 1) + 1 = R /\ 1 \in 1..R
    BY <1>1
  <2>2. f[0 + 1] = files[R - 1]
    BY <1>3, <1>4, <2>1
  <2>3. PICK g : g = files[R - 1]
    OBVIOUS
  <2>4. /\ g \in Seq(Nat) /\ cut[R] <= cut[R - 1] /\ Len(g) = cut[R - 1] - cut[R]
        /\ \A k \in 1..Len(g) : g[k] = kept[cut[R] + k]
    <3>1. PICK i : i = R - 1 /\ i \in 0..(R - 1) /\ i + 1 = R
      BY <2>1
    <3> QED
      BY <1>2, <1>5, <2>3, <3>1
  <2>5. Good(g, 0 + 1)
    BY <2>4
  <2> HIDE DEF Good
  <2> QED
    BY <2>2, <2>3, <2>5
<1>7. ASSUME NEW n \in Nat, n \in T PROVE n + 1 \in T
  <2>1. SUFFICES ASSUME (n + 1) + 1 <= R PROVE Good(f[(n + 1) + 1], (n + 1) + 1)
    OBVIOUS
  <2> DEFINE m == n + 1
             i == R - (n + 2)
  <2>2. /\ m \in Nat /\ 1 <= m /\ m < R /\ m + 1 \in 1..R /\ R - (m + 1) = i /\ R - m = i + 1
        /\ i \in 0..(R - 1) /\ i + 1 \in 0..R /\ R \in 0..R
    BY <1>1, <2>1
  <2>3. Good(f[m], m)
    BY <1>1, <1>7, <2>1
  <2>4. f[m + 1] = f[m] \o files[i]
    BY <1>3, <1>4, <2>2
  <2>5. PICK g : g = f[m]
    OBVIOUS
  <2>6. PICK h : h = files[i]
    OBVIOUS
  <2> HIDE DEF m, i
  <2>7. /\ g \in Seq(Nat) /\ cut[R] <= cut[i + 1] /\ Len(g) = cut[i + 1] - cut[R]
        /\ \A k \in 1..Len(g) : g[k] = kept[cut[R] + k]
    BY <2>2, <2>3, <2>5
  <2>8. /\ h \in Seq(Nat) /\ cut[i + 1] <= cut[i] /\ Len(h) = cut[i] - cut[i + 1]
        /\ \A k \in 1..Len(h) : h[k] = kept[cut[i + 1] + k]
        /\ cut[i] \in Nat /\ cut[i + 1] \in Nat /\ cut[R] \in Nat
    <3>1. cut[i] \in Nat /\ cut[i + 1] \in Nat /\ cut[R] \in Nat
      BY <1>5, <2>2
    <3>2. cut[i + 1] <= cut[i] /\ Len(files[i]) = cut[i] - cut[i + 1]
      BY <1>5, <2>2
    <3>3. \A k \in 1..Len(files[i]) : files[i][k] = kept[cut[i + 1] + k]
      BY <1>5, <2>2
    <3>4. files[i] \in Seq(Nat)
      BY <1>2, <2>2
    <3> QED
      BY <2>6, <3>1, <3>2, <3>3, <3>4
  <2>9. /\ g \o h \in Seq(Nat) /\ Len(g \o h) = Len(g) + Len(h)
        /\ \A k \in 1..(Len(g) + Len(h)) :
             (g \o h)[k] = IF k <= Len(g) THEN g[k] ELSE h[k - Len(g)]
    BY <2>7, <2>8, ConcatProperties, ZenonT(60)
  <2>10. PICK e : e = g \o h
    OBVIOUS
  <2>11. ASSUME NEW k \in 1..(Len(g) + Len(h)) PROVE e[k] = kept[cut[R] + k]
    <3>1. CASE k <= Len(g)
      <4>1. k \in 1..Len(g)
        BY <2>7, <2>8, <3>1
      <4> QED
        BY <2>7, <2>9, <2>10, <3>1, <4>1
    <3>2. CASE ~(k <= Len(g))
      <4>1. k - Len(g) \in 1..Len(h) /\ cut[i + 1] + (k - Len(g)) = cut[R] + k
        <5>1. PICK a, b, c \in Nat : a = cut[R] /\ b = cut[i + 1] /\ c = cut[i]
          BY <2>8
        <5>2. PICK l, o \in Nat : l = Len(g) /\ o = Len(h) /\ l = b - a
          BY <2>7, <2>8, <5>1
        <5>3. k - l \in 1..o /\ b + (k - l) = a + k
          BY <3>2, <5>2
        <5> QED
          BY <5>1, <5>2, <5>3
      <4>2. e[k] = h[k - Len(g)]
        BY <2>9, <2>10, <3>2
      <4> QED
        BY <2>8, <4>1, <4>2
    <3> QED
      BY <3>1, <3>2
  <2>12. e \in Seq(Nat) /\ cut[R] <= cut[i] /\ Len(e) = cut[i] - cut[R]
    BY <2>7, <2>8, <2>9, <2>10, SMTT(30)
  <2>13. Len(e) = Len(g) + Len(h)
    BY <2>9, <2>10
  <2>14. Good(e, m + 1)
    BY <2>2, <2>11, <2>12, <2>13
  <2>15. e = f[m + 1]
    BY <2>4, <2>5, <2>6, <2>10
  <2> HIDE DEF Good
  <2> QED
    BY <2>14, <2>15 DEF m
<1>8. Good(Retained, R)
  <2>1. R - 1 \in T
    <3> HIDE DEF T
    <3> QED
      BY <1>1, <1>6, <1>7, SetInduction
  <2> HIDE DEF Good
  <2> QED
    BY <1>1, <1>4, <2>1
<1>9. PICK e : e = Retained
  OBVIOUS
<1>10. /\ e \in Seq(Nat) /\ Len(kept) = cut[R] + Len(e) /\ cut[R] \in Nat
       /\ \A k \in 1..Len(e) : e[k] = kept[cut[R] + k]
  <2>1. R - R = 0 /\ 0 \in 0..R /\ R \in 0..R
    BY <1>1
  <2> QED
    BY <1>2, <1>5, <1>8, <1>9, <2>1, SMTT(30)
<1>11. IsSuffix(e, kept)
  BY <1>2, <1>10, SuffixOf
<1>12. ASSUME ~(cut[R] > 0) PROVE e = kept
  <2>1. Len(kept) = Len(e) /\ \A k \in 1..Len(e) : e[k] = kept[k]
    BY <1>2, <1>10, <1>12, LenProperties
  <2> QED
    BY <1>2, <1>10, <2>1, SeqEqual
<1> QED
  BY <1>9, <1>11, <1>12 DEF R

\* What a rotation does to the pieces: the oldest is let go, and a file moves up into the
\* free place, which leaves its own.
LEMMA OldestGoes ==
  ASSUME LogType, NEW cut \in [0..RetainedFiles -> Nat], Cuts(cut), UNCHANGED kept,
         files' = [files EXCEPT ![RetainedFiles - 1] = <<>>]
  PROVE  \E after \in [0..RetainedFiles -> Nat] :
           Cuts(after)' /\ after[RetainedFiles] = cut[RetainedFiles - 1]
<1> DEFINE R == RetainedFiles
           after == [cut EXCEPT ![R] = cut[R - 1]]
<1>1. R \in Nat /\ R > 1 /\ Indices = 0..(R - 1)
  BY LogAssumption DEF Indices
<1>2. \A i \in 0..R : cut[i] \in Nat
  OBVIOUS
<1> HIDE DEF R
<1>3. /\ \A i \in 0..R : after[i] = IF i = R THEN cut[R - 1] ELSE cut[i]
      /\ after \in [0..R -> Nat]
  BY <1>1, <1>2 DEF R
<1> HIDE DEF after
<1>4. \A i \in 0..(R - 1) : files'[i] = IF i = R - 1 THEN <<>> ELSE files[i]
  BY <1>1 DEF LogType, R
<1>5. Len(<<>>) = 0 /\ 0 \in 0..R /\ R \in 0..R /\ R - 1 \in 0..(R - 1) /\ R - 1 \in 0..R
  BY <1>1
<1>6. after[0] = Len(kept') /\ \A i \in 0..R : after[i] <= Len(kept')
  <2>1. cut[0] = Len(kept) /\ \A i \in 0..R : cut[i] <= Len(kept)
    BY DEF Cuts, R
  <2>2. 0 # R /\ R - 1 \in 0..R
    BY <1>1
  <2>3. after[0] = cut[0]
    BY <1>3, <1>5, <2>2
  <2> QED
    BY <1>3, <2>1, <2>2, <2>3
<1>7. ASSUME NEW i \in 0..(R - 1)
      PROVE  /\ after[i + 1] <= after[i] /\ Len(files'[i]) = after[i] - after[i + 1]
             /\ \A k \in 1..Len(files'[i]) : files'[i][k] = kept'[after[i + 1] + k]
  <2>1. CASE i = R - 1
    <3>1. after[i + 1] = cut[R - 1] /\ after[i] = cut[R - 1] /\ files'[i] = <<>>
      BY <1>1, <1>3, <1>4, <1>5, <2>1
    <3> QED
      BY <1>2, <1>5, <3>1
  <2>2. CASE i # R - 1
    <3>1. i + 1 \in 0..R /\ i \in 0..R /\ i + 1 # R /\ i # R
      BY <1>1, <2>2
    <3>2. after[i + 1] = cut[i + 1] /\ after[i] = cut[i] /\ files'[i] = files[i]
      BY <1>3, <1>4, <2>2, <3>1
    <3> QED
      BY <1>1, <3>2 DEF Cuts
  <2> QED
    BY <2>1, <2>2
<1>8. Cuts(after)'
  BY <1>1, <1>6, <1>7 DEF Cuts, R
<1> QED
  BY <1>3, <1>5, <1>8 DEF R

LEMMA FileMovesUp ==
  ASSUME LogType, NEW cut \in [0..RetainedFiles -> Nat], Cuts(cut), UNCHANGED kept,
         NEW m \in 0..(RetainedFiles - 2), files[m + 1] = <<>>, files' = Renamed(m)
  PROVE  /\ files' \in [Indices -> Seq(Nat)]
         /\ \A i \in Indices : files'[i] = IF i = m THEN <<>>
                                           ELSE IF i = m + 1 THEN files[m] ELSE files[i]
         /\ \E after \in [0..RetainedFiles -> Nat] :
              Cuts(after)' /\ after[RetainedFiles] = cut[RetainedFiles]
<1> DEFINE R == RetainedFiles
           after == [cut EXCEPT ![m + 1] = cut[m]]
<1>1. R \in Nat /\ R > 1 /\ Indices = 0..(R - 1)
  BY LogAssumption DEF Indices
<1>2. \A i \in 0..R : cut[i] \in Nat
  OBVIOUS
<1>3. m \in 0..(R - 1) /\ m + 1 \in 0..(R - 1) /\ m \in 0..R /\ m + 1 \in 0..R /\ m + 2 \in 0..R
      /\ m + 1 # R /\ m # m + 1 /\ 0 \in 0..R /\ R \in 0..R
  BY <1>1
<1>4. /\ files' \in [Indices -> Seq(Nat)]
      /\ \A i \in Indices : files'[i] = IF i = m THEN <<>>
                                        ELSE IF i = m + 1 THEN files[m] ELSE files[i]
  BY <1>1, <1>3, EmptySeq DEF LogType, Renamed
<1> HIDE DEF R
<1>5. /\ \A i \in 0..R : after[i] = IF i = m + 1 THEN cut[m] ELSE cut[i]
      /\ after \in [0..R -> Nat]
  BY <1>2, <1>3 DEF R
<1> HIDE DEF after
<1>6. Len(<<>>) = 0 /\ cut[m + 2] = cut[m + 1]
  <2>1. (m + 1) + 1 = m + 2 /\ Len(files[m + 1]) = 0
    BY <1>3
  <2>2. Len(files[m + 1]) = cut[m + 1] - cut[(m + 1) + 1]
    BY <1>1, <1>3 DEF Cuts
  <2> QED
    BY <1>2, <1>3, <2>1, <2>2
<1>7. after[0] = Len(kept') /\ \A i \in 0..R : after[i] <= Len(kept')
  BY <1>3, <1>5 DEF Cuts, R
<1>8. ASSUME NEW i \in 0..(R - 1)
      PROVE  /\ after[i + 1] <= after[i] /\ Len(files'[i]) = after[i] - after[i + 1]
             /\ \A k \in 1..Len(files'[i]) : files'[i][k] = kept'[after[i + 1] + k]
  <2>1. i \in 0..R /\ i + 1 \in 0..R
    BY <1>1
  <2>2. CASE i = m
    <3>1. after[i + 1] = cut[m] /\ after[i] = cut[m] /\ files'[i] = <<>>
      BY <1>1, <1>3, <1>4, <1>5, <2>2
    <3> QED
      BY <1>2, <1>3, <1>6, <3>1
  <2>3. CASE i = m + 1
    <3>1. i + 1 = m + 2 /\ i + 1 # m + 1 /\ i # m
      BY <1>1, <2>3
    <3>2. after[i] = cut[m] /\ after[i + 1] = cut[m + 1] /\ files'[i] = files[m]
      <4>1. after[i] = cut[m]
        BY <1>5, <2>1, <2>3
      <4>2. after[i + 1] = cut[i + 1]
        BY <1>5, <2>1, <3>1
      <4>3. files'[i] = files[m]
        BY <1>1, <1>4, <2>3, <3>1
      <4> QED
        BY <1>6, <3>1, <4>1, <4>2, <4>3
    <3> QED
      BY <1>1, <1>3, <3>2 DEF Cuts
  <2>4. CASE i # m /\ i # m + 1
    <3>1. i + 1 # m + 1
      BY <1>1, <2>4
    <3>2. after[i + 1] = cut[i + 1] /\ after[i] = cut[i] /\ files'[i] = files[i]
      BY <1>1, <1>4, <1>5, <2>1, <2>4, <3>1
    <3> QED
      BY <1>1, <3>2 DEF Cuts
  <2> QED
    BY <2>2, <2>3, <2>4
<1>9. Cuts(after)'
  BY <1>1, <1>7, <1>8 DEF Cuts, R
<1>10. after[R] = cut[R]
  BY <1>3, <1>5
<1> QED
  BY <1>4, <1>5, <1>9, <1>10 DEF R

\* What is written last is written to the log.
LEMMA LogGrows ==
  ASSUME LogType, NEW cut \in [0..RetainedFiles -> Nat], Cuts(cut),
         files' = [files EXCEPT ![0] = Append(@, entries)], kept' = Append(kept, entries)
  PROVE  \E after \in [0..RetainedFiles -> Nat] :
           Cuts(after)' /\ after[RetainedFiles] = cut[RetainedFiles]
<1> DEFINE R == RetainedFiles
           after == [cut EXCEPT ![0] = cut[0] + 1]
<1>1. R \in Nat /\ R > 1 /\ Indices = 0..(R - 1) /\ entries \in Nat
  BY LogAssumption DEF Indices, LogType
<1>2. \A i \in 0..R : cut[i] \in Nat /\ cut[i] <= Len(kept)
  BY DEF Cuts
<1>3. 0 \in 0..R /\ 1 \in 0..R /\ R \in 0..R /\ 0 \in 0..(R - 1) /\ R # 0
  BY <1>1
<1> HIDE DEF R
<1>4. /\ \A i \in 0..R : after[i] = IF i = 0 THEN cut[0] + 1 ELSE cut[i]
      /\ after \in [0..R -> Nat]
  BY <1>2, <1>3 DEF R
<1> HIDE DEF after
<1>5. \A i \in 0..(R - 1) : files'[i] = IF i = 0 THEN Append(files[0], entries) ELSE files[i]
  BY <1>1, <1>3 DEF LogType
<1>6. /\ Len(kept) \in Nat /\ Len(kept') = Len(kept) + 1 /\ kept'[Len(kept) + 1] = entries
      /\ \A k \in 1..Len(kept) : kept'[k] = kept[k]
  BY <1>1, AppendProperties, LenProperties DEF LogType
<1>7. after[0] = Len(kept') /\ \A i \in 0..R : after[i] <= Len(kept')
  BY <1>2, <1>3, <1>4, <1>6 DEF Cuts
<1>8. ASSUME NEW i \in 0..(R - 1)
      PROVE  /\ after[i + 1] <= after[i] /\ Len(files'[i]) = after[i] - after[i + 1]
             /\ \A k \in 1..Len(files'[i]) : files'[i][k] = kept'[after[i + 1] + k]
  <2>1. /\ i \in 0..R /\ i + 1 \in 0..R /\ i + 1 # 0
        /\ cut[i] \in Nat /\ cut[i + 1] \in Nat /\ cut[i] <= Len(kept)
    BY <1>1, <1>2
  <2>2. /\ cut[i + 1] <= cut[i] /\ Len(files[i]) = cut[i] - cut[i + 1]
        /\ \A k \in 1..Len(files[i]) : files[i][k] = kept[cut[i + 1] + k]
    BY <1>1 DEF Cuts
  <2>3. \A k \in 1..Len(files[i]) : cut[i + 1] + k \in 1..Len(kept)
    <3>1. PICK a, b \in Nat : a = cut[i] /\ b = cut[i + 1] /\ a <= Len(kept)
      BY <2>1
    <3> QED
      BY <1>6, <2>2, <3>1, SMTT(30)
  <2>4. \A k \in 1..Len(files[i]) : files[i][k] = kept'[cut[i + 1] + k]
    BY <1>6, <2>2, <2>3
  <2>5. CASE i = 0
    <3>1. PICK f : f = files[0] /\ f \in Seq(Nat)
      BY <1>1, <1>3 DEF LogType
    <3>2. PICK g : g = Append(f, entries)
      OBVIOUS
    <3>3. /\ Len(f) \in Nat /\ Len(g) = Len(f) + 1 /\ g[Len(f) + 1] = entries
          /\ \A k \in 1..Len(f) : g[k] = f[k]
      BY <1>1, <3>1, <3>2, AppendProperties, LenProperties
    <3>4. PICK a : a = cut[i] /\ a \in Nat
      BY <2>1
    <3>5. PICK b : b = cut[i + 1] /\ b \in Nat
      BY <2>1
    <3>6. b <= a /\ Len(f) = a - b /\ \A k \in 1..Len(f) : f[k] = kept'[b + k]
      BY <2>2, <2>4, <2>5, <3>1, <3>4, <3>5
    <3>7. files'[i] = g /\ after[i] = a + 1 /\ after[i + 1] = b
      BY <1>4, <1>5, <2>1, <2>5, <3>1, <3>2, <3>4, <3>5
    <3>8. a = Len(kept)
      BY <2>5, <3>4 DEF Cuts
    <3>9. \A k \in 1..Len(g) : g[k] = kept'[b + k]
      <4> SUFFICES ASSUME NEW k \in 1..Len(g) PROVE g[k] = kept'[b + k]
        OBVIOUS
      <4>1. CASE k = Len(f) + 1
        <5>1. b + k = Len(kept) + 1
          <6>1. PICK l : l = Len(f) /\ l \in Nat
            BY <3>3
          <6>2. l = a - b /\ k = l + 1
            BY <3>6, <4>1, <6>1
          <6>3. b + k = a + 1
            BY <3>4, <3>5, <6>1, <6>2, SMTT(30)
          <6> QED
            BY <3>8, <6>3
        <5> QED
          BY <1>6, <3>3, <4>1, <5>1
      <4>2. CASE k \in 1..Len(f)
        BY <3>3, <3>6, <4>2
      <4>3. k \in 1..Len(f) \/ k = Len(f) + 1
        BY <3>3
      <4> QED
        BY <4>1, <4>2, <4>3
    <3>10. b <= a + 1 /\ Len(g) = (a + 1) - b
      BY <3>3, <3>4, <3>5, <3>6, SMTT(30)
    <3>11. PICK x, y : x = after[i] /\ y = after[i + 1]
      OBVIOUS
    <3>12. x = a + 1 /\ y = b
      BY <3>7, <3>11
    <3>13. y <= x /\ Len(g) = x - y /\ \A k \in 1..Len(g) : g[k] = kept'[y + k]
      BY <3>9, <3>10, <3>12
    <3> QED
      BY <3>7, <3>11, <3>13
  <2>6. CASE i # 0
    <3>1. files'[i] = files[i] /\ after[i] = cut[i] /\ after[i + 1] = cut[i + 1]
      BY <1>4, <1>5, <2>1, <2>6
    <3> QED
      BY <2>2, <2>4, <3>1
  <2> QED
    BY <2>5, <2>6
<1>9. Cuts(after)'
  BY <1>1, <1>7, <1>8 DEF Cuts, R
<1>10. after[R] = cut[R]
  BY <1>3, <1>4
<1> QED
  BY <1>4, <1>9, <1>10 DEF R

\* What is known of the files, for the steps below.
LEMMA FilesAreKnown ==
  ASSUME LogType, Sized
  PROVE  /\ RetainedFiles \in Nat /\ RetainedFiles > 1 /\ MaximumBytes \in Nat /\ MaximumBytes > 1
         /\ Indices = 0..(RetainedFiles - 1)
         /\ \A i \in Indices : files[i] \in Seq(Nat) /\ Bytes(files[i]) \in Nat
         /\ Bytes(<<>>) = 0 /\ <<>> \in Seq(Nat)
         /\ \A n \in Nat : SizeOf(n) \in Nat /\ SizeOf(n) <= 2
<1>1. RetainedFiles \in Nat /\ RetainedFiles > 1 /\ MaximumBytes \in Nat /\ MaximumBytes > 1
  BY LogAssumption
<1>2. <<>> \in Seq(Nat)
  BY EmptySeq
<1>3. \A q \in Seq(Nat) : Bytes(q) \in Nat /\ (q = <<>> => Bytes(q) = 0)
  BY BytesAreCounted
<1>4. \A i \in Indices : files[i] \in Seq(Nat)
  BY DEF LogType
<1>5. \A n \in Nat : SizeOf(n) \in Nat /\ SizeOf(n) <= 2
  BY SizeIsSmall
<1> QED
  BY <1>1, <1>2, <1>3, <1>4, <1>5 DEF Indices

\* A call of append begins: there is room in the log, or there is something in it.
LEMMA AppendBegins ==
  ASSUME LogInvariant, Appends
  PROVE  LogInvariant'
<1> USE DEF LogInvariant
<1>1. PICK cut \in [0..RetainedFiles -> Nat] : Cuts(cut) /\ Full(cut)
  BY DEF Pieces
<1>2. LogType'
  BY DEF Appends, LogType, Indices
<1>3. PICK size : size = SizeOf(entries') /\ size \in Nat /\ size <= 2
  <2>1. entries' \in Nat
    BY <1>2 DEF LogType
  <2> QED
    BY <2>1, SizeIsSmall
<1>4. /\ currentBytes \in Nat /\ currentBytes = Bytes(files[0])
      /\ MaximumBytes \in Nat /\ MaximumBytes > 1 /\ Bytes(<<>>) = 0
  <2>1. 0 \in Indices
    BY FilesAreKnown
  <2> QED
    BY <2>1, FilesAreKnown DEF Sized
<1>5. appending' = IF currentBytes + size > MaximumBytes THEN "unlink" ELSE "write"
  BY <1>3 DEF Appends
<1>6. appending' = "unlink" => files[0] # <<>>
  <2>1. appending' = "unlink" => currentBytes # 0
    BY <1>3, <1>4, <1>5
  <2> QED
    BY <1>4, <2>1
<1>7. Sized'
  <2>1. appending' = "write" => currentBytes + size <= MaximumBytes
    BY <1>3, <1>4, <1>5
  <2> QED
    BY <1>3, <1>5, <2>1 DEF Appends, Sized, Indices
<1>8. Cuts(cut)'
  BY <1>1 DEF Appends, Cuts, Indices
<1>9. Full(cut)'
  BY <1>1, <1>5, <1>6 DEF Appends, Full, Gap, Indices
<1> QED
  BY <1>2, <1>7, <1>8, <1>9 DEF Pieces

\* The oldest is removed: if it held something, every older file did.
LEMMA OldestIsRemoved ==
  ASSUME LogInvariant, Unlinks
  PROVE  LogInvariant'
<1> USE DEF LogInvariant
<1> DEFINE R == RetainedFiles
<1>1. PICK cut \in [0..R -> Nat] : Cuts(cut) /\ Full(cut)
  BY DEF Pieces
<1>2. /\ R \in Nat /\ R > 1 /\ Indices = 0..(R - 1) /\ Bytes(<<>>) = 0 /\ <<>> \in Seq(Nat)
      /\ MaximumBytes \in Nat
  BY FilesAreKnown
<1>3. /\ appending = "unlink" /\ appending' = "rename" /\ moving' = R - 2
      /\ files' = [files EXCEPT ![R - 1] = <<>>]
      /\ UNCHANGED <<entries, kept, cutShort, currentBytes>>
  BY DEF Unlinks, Progress
<1>4. /\ \A i \in 0..(R - 1) : files'[i] = IF i = R - 1 THEN <<>> ELSE files[i]
      /\ files' \in [Indices -> Seq(Nat)]
  BY <1>2, <1>3 DEF LogType
<1>5. PICK after \in [0..R -> Nat] : Cuts(after)' /\ after[R] = cut[R - 1]
  BY <1>1, <1>3, OldestGoes
<1>6. R - 2 \in 0..(R - 2) /\ (R - 2) + 1 = R - 1 /\ R - 1 # 0 /\ R - 1 \in 0..(R - 1)
      /\ (R - 1) + 1 = R
  BY <1>2
<1>7. LogType'
  BY <1>3, <1>4, <1>6 DEF LogType, Indices
<1>8. Sized'
  BY <1>2, <1>3, <1>4, <1>6 DEF Sized, Indices
<1>9. Full(after)'
  <2>1. SUFFICES ASSUME "rotate" \notin cutShort
        PROVE  /\ files'[0] # <<>>
               /\ \A i, j \in 0..(R - 1) :
                    0 < i /\ i < j /\ i # R - 1 /\ files'[i] = <<>> => files'[j] = <<>>
               /\ after[R] > 0 => \A i \in (0..(R - 1)) \ {0, R - 1} : files'[i] # <<>>
    BY <1>2, <1>3, <1>6 DEF Full, Gap, Indices
  <2>2. /\ files[0] # <<>>
        /\ \A i, j \in 0..(R - 1) :
             0 < i /\ i < j /\ i # R /\ files[i] = <<>> => files[j] = <<>>
        /\ cut[R] > 0 => \A i \in (0..(R - 1)) \ {0, R} : files[i] # <<>>
    BY <1>1, <1>2, <1>3, <2>1 DEF Full, Gap
  <2>3. files'[0] # <<>>
    BY <1>4, <1>6, <2>2, SMTT(30)
  <2>4. ASSUME NEW i \in 0..(R - 1), NEW j \in 0..(R - 1), 0 < i, i < j, i # R - 1,
               files'[i] = <<>>
        PROVE  files'[j] = <<>>
    <3>1. i # R
      BY <1>2, <2>4
    <3>2. i # R /\ files[i] = <<>>
      <4>1. files'[i] = files[i]
        BY <1>4, <2>4
      <4> QED
        BY <2>4, <3>1, <4>1
    <3>3. files[j] = <<>>
      BY <2>2, <2>4, <3>2
    <3> QED
      BY <1>4, <3>3
  <2>5. ASSUME after[R] > 0, NEW i \in (0..(R - 1)) \ {0, R - 1} PROVE files'[i] # <<>>
    <3>1. CASE cut[R] > 0
      <4>1. i \in (0..(R - 1)) \ {0, R}
        BY <1>2
      <4>2. files[i] # <<>>
        BY <2>2, <3>1, <4>1
      <4> QED
        BY <1>4, <4>2
    <3>2. CASE ~(cut[R] > 0)
      <4>1. Len(files[R - 1]) = cut[R - 1] - cut[R]
        BY <1>1, <1>2, <1>6 DEF Cuts
      <4>2. cut[R] \in Nat /\ cut[R - 1] \in Nat
        BY <1>2
      <4>3. files[R - 1] # <<>>
        BY <1>5, <2>5, <3>2, <4>1, <4>2
      <4>4. 0 < i /\ i < R - 1 /\ i # R /\ i # R - 1
        BY <1>2
      <4> QED
        BY <1>4, <1>6, <2>2, <4>3, <4>4
    <3> QED
      BY <3>1, <3>2
  <2> QED
    BY <2>3, <2>4, <2>5
<1> QED
  BY <1>5, <1>7, <1>8, <1>9 DEF Pieces

\* A file moves up into the place that is free; its own is free then, or, when it is the
\* log, the log is.
LEMMA FileIsRenamed ==
  ASSUME LogInvariant, RenamesOlder \/ RenamesCurrent
  PROVE  LogInvariant'
<1> USE DEF LogInvariant
<1> DEFINE R == RetainedFiles
<1>1. PICK cut \in [0..R -> Nat] : Cuts(cut) /\ Full(cut)
  BY DEF Pieces
<1>2. /\ R \in Nat /\ R > 1 /\ Indices = 0..(R - 1) /\ Bytes(<<>>) = 0
      /\ MaximumBytes \in Nat /\ MaximumBytes > 1
      /\ \A n \in Nat : SizeOf(n) \in Nat /\ SizeOf(n) <= 2
  BY FilesAreKnown
<1>3. PICK m : m = moving /\ m \in 0..(R - 2)
  BY DEF LogType
<1>4. /\ appending = "rename" /\ files' = Renamed(m)
      /\ UNCHANGED <<entries, kept, cutShort>>
  BY <1>3 DEF RenamesOlder, RenamesCurrent, Progress
<1>5. \/ m >= 1 /\ moving' = m - 1 /\ appending' = "rename" /\ UNCHANGED currentBytes
      \/ m = 0 /\ moving' = 0 /\ appending' = "write" /\ currentBytes' = 0
  BY <1>3 DEF RenamesOlder, RenamesCurrent, Progress
<1>6. files[m + 1] = <<>>
  BY <1>3, <1>4 DEF Sized
<1>7. m + 1 \in 0..(R - 1) /\ m \in 0..(R - 1) /\ m + 1 # R
  BY <1>2, <1>3
<1>8. /\ files' \in [Indices -> Seq(Nat)]
      /\ \A i \in Indices : files'[i] = IF i = m THEN <<>>
                                        ELSE IF i = m + 1 THEN files[m] ELSE files[i]
      /\ \E after \in [0..R -> Nat] : Cuts(after)' /\ after[R] = cut[R]
  BY <1>1, <1>3, <1>4, <1>6, FileMovesUp
<1>9. PICK after \in [0..R -> Nat] : Cuts(after)' /\ after[R] = cut[R]
  BY <1>8
<1>10. LogType'
  <2>1. moving' \in 0..(R - 2)
    <3>1. CASE m = 0
      BY <1>2, <1>3, <1>5, <3>1
    <3>2. CASE m >= 1
      <4>1. moving' = m - 1
        <5>1. m # 0
          BY <1>3, <3>2
        <5> QED
          BY <1>5, <5>1, Zenon
      <4>2. \A k \in 0..(R - 2) : k >= 1 => k - 1 \in 0..(R - 2)
        BY <1>2
      <4> QED
        BY <1>3, <3>2, <4>1, <4>2
    <3> QED
      BY <1>5, <3>1, <3>2
  <2>2. files' \in [Indices -> Seq(Nat)] /\ kept' \in Seq(Nat) /\ entries' \in Nat
    BY <1>4, <1>8 DEF LogType
  <2> QED
    BY <1>5, <2>1, <2>2 DEF LogType, Indices
<1>11. Sized'
  <2>1. \A i \in Indices : Bytes(files'[i]) <= MaximumBytes
    <3>1. \A i \in Indices : Bytes(files[i]) <= MaximumBytes
      BY DEF Sized
    <3>2. Bytes(<<>>) <= MaximumBytes /\ m \in Indices
      BY <1>2, <1>7
    <3> SUFFICES ASSUME NEW i \in Indices PROVE Bytes(files'[i]) <= MaximumBytes
      OBVIOUS
    <3>3. files'[i] = <<>> \/ \E j \in Indices : files'[i] = files[j]
      BY <1>8, <3>2
    <3> QED
      BY <3>1, <3>2, <3>3
  <2>2. currentBytes' = Bytes(files'[0])
    <3>1. currentBytes = Bytes(files[0]) /\ 0 \in Indices
      BY <1>2 DEF Sized
    <3>2. m # 0 => files'[0] = files[0]
      BY <1>3, <1>8, <3>1
    <3>3. m = 0 => files'[0] = <<>>
      BY <1>8, <3>1
    <3>4. CASE m = 0
      <4>1. ~(m >= 1)
        BY <3>4
      <4> QED
        BY <1>2, <1>5, <3>3, <3>4, <4>1
    <3>5. CASE m # 0
      BY <1>5, <3>1, <3>2, <3>5
    <3> QED
      BY <3>4, <3>5
  <2>3. appending' = "write" => currentBytes' + SizeOf(entries') <= MaximumBytes
    <3>1. SUFFICES ASSUME appending' = "write" PROVE currentBytes' + SizeOf(entries') <= MaximumBytes
      OBVIOUS
    <3>2. currentBytes' = 0 /\ entries' = entries /\ entries \in Nat
      BY <1>4, <1>5, <3>1 DEF LogType
    <3>3. PICK size : size = SizeOf(entries') /\ size \in Nat /\ size <= 2
      BY <1>2, <3>2
    <3> QED
      BY <1>2, <3>2, <3>3
  <2>4. appending' = "rename" => files'[moving' + 1] = <<>>
    <3>1. SUFFICES ASSUME appending' = "rename" PROVE files'[moving' + 1] = <<>>
      OBVIOUS
    <3>2. moving' + 1 = m
      BY <1>3, <1>5, <3>1
    <3> QED
      BY <1>2, <1>7, <1>8, <3>2
  <2> QED
    BY <2>1, <2>2, <2>3, <2>4 DEF Sized, Indices
<1>12. Full(after)'
  <2>1. PICK gap : gap = Gap' /\ ((m >= 1 /\ gap = m) \/ (m = 0 /\ gap = R))
    <3>1. m >= 1 /\ moving' = m - 1 => moving' + 1 = m
      BY <1>3
    <3> QED
      BY <1>5, <3>1 DEF Gap
  <2>2. SUFFICES ASSUME "rotate" \notin cutShort
        PROVE  /\ m >= 1 => files'[0] # <<>>
               /\ \A i, j \in 0..(R - 1) :
                    0 < i /\ i < j /\ i # gap /\ files'[i] = <<>> => files'[j] = <<>>
               /\ after[R] > 0 => \A i \in (0..(R - 1)) \ {0, gap} : files'[i] # <<>>
    BY <1>2, <1>4, <1>5, <2>1 DEF Full, Indices
  <2>3. Gap = m + 1
    BY <1>3, <1>4 DEF Gap
  <2>4. /\ files[0] # <<>>
        /\ \A i, j \in 0..(R - 1) :
             0 < i /\ i < j /\ i # m + 1 /\ files[i] = <<>> => files[j] = <<>>
        /\ cut[R] > 0 => \A i \in (0..(R - 1)) \ {0, m + 1} : files[i] # <<>>
    BY <1>1, <1>2, <1>4, <2>2, <2>3 DEF Full
  <2>5. m >= 1 => files'[0] # <<>>
    <3>1. 0 \in Indices /\ (m >= 1 => 0 # m /\ 0 # m + 1)
      BY <1>2, <1>3
    <3> QED
      BY <1>8, <2>4, <3>1
  <2>6. ASSUME NEW i \in 0..(R - 1), NEW j \in 0..(R - 1), 0 < i, i < j, i # gap,
               files'[i] = <<>>
        PROVE  files'[j] = <<>>
    <3>1. /\ files'[i] = IF i = m THEN <<>> ELSE IF i = m + 1 THEN files[m] ELSE files[i]
          /\ files'[j] = IF j = m THEN <<>> ELSE IF j = m + 1 THEN files[m] ELSE files[j]
      BY <1>2, <1>8
    <3>2. i # m
      BY <2>1, <2>6
    <3>3. CASE i = m + 1
      <4>1. files[m] = <<>> /\ m # 0
        BY <2>4, <2>6, <3>1, <3>2, <3>3
      <4>2. 0 < m /\ m < j /\ m # m + 1 /\ j # m /\ j # m + 1
        BY <1>3, <2>6, <3>3, <4>1
      <4>3. files[j] = <<>>
        BY <1>7, <2>4, <4>1, <4>2
      <4> QED
        BY <3>1, <4>2, <4>3
    <3>4. CASE i # m + 1
      <4>1. files[i] = <<>>
        BY <2>6, <3>1, <3>2, <3>4
      <4>2. \A k \in 0..(R - 1) : i < k => files[k] = <<>>
        BY <2>4, <2>6, <3>4, <4>1
      <4>3. j = m + 1 => i < m
        BY <1>3, <2>6, <3>2
      <4> QED
        BY <1>7, <2>6, <3>1, <4>2, <4>3
    <3> QED
      BY <3>3, <3>4
  <2>7. ASSUME after[R] > 0, NEW i \in (0..(R - 1)) \ {0, gap} PROVE files'[i] # <<>>
    <3>1. files'[i] = IF i = m THEN <<>> ELSE IF i = m + 1 THEN files[m] ELSE files[i]
      BY <1>2, <1>8
    <3>2. i # m
      BY <2>1
    <3>3. \A k \in (0..(R - 1)) \ {0, m + 1} : files[k] # <<>>
      BY <1>9, <2>4, <2>7
    <3>4. m # m + 1
      BY <1>3
    <3> QED
      BY <1>7, <2>4, <3>1, <3>2, <3>3, <3>4
  <2> QED
    BY <2>5, <2>6, <2>7
<1> QED
  BY <1>9, <1>10, <1>11, <1>12 DEF Pieces

\* The entry is written where there is room for it.
LEMMA EntryIsWritten ==
  ASSUME LogInvariant, Writes
  PROVE  LogInvariant'
<1> USE DEF LogInvariant
<1> DEFINE R == RetainedFiles
<1>1. PICK cut \in [0..R -> Nat] : Cuts(cut) /\ Full(cut)
  BY DEF Pieces
<1>2. /\ R \in Nat /\ R > 1 /\ Indices = 0..(R - 1) /\ MaximumBytes \in Nat
      /\ 0 \in Indices /\ files[0] \in Seq(Nat) /\ entries \in Nat /\ kept \in Seq(Nat)
  <2>1. R \in Nat /\ R > 1 /\ Indices = 0..(R - 1) /\ MaximumBytes \in Nat
    BY FilesAreKnown
  <2> QED
    BY <2>1 DEF LogType
<1>3. PICK grown : grown = Append(files[0], entries)
  OBVIOUS
<1>4. /\ appending = "write" /\ appending' = "idle"
      /\ files' = [files EXCEPT ![0] = grown]
      /\ currentBytes' = currentBytes + SizeOf(entries)
      /\ kept' = Append(kept, entries)
      /\ UNCHANGED <<moving, entries, cutShort>>
  BY <1>3 DEF Writes
<1>5. grown \in Seq(Nat) /\ Bytes(grown) = Bytes(files[0]) + SizeOf(entries) /\ grown # <<>>
  <2>1. Bytes(grown) = Bytes(files[0]) + SizeOf(entries)
    BY <1>2, <1>3, BytesAreCounted
  <2>2. grown \in Seq(Nat) /\ Len(grown) = Len(files[0]) + 1 /\ Len(files[0]) \in Nat
    BY <1>2, <1>3, AppendProperties, LenProperties
  <2>3. grown # <<>>
    BY <2>2
  <2> QED
    BY <2>1, <2>2, <2>3
<1>6. /\ files' \in [Indices -> Seq(Nat)]
      /\ \A i \in Indices : files'[i] = IF i = 0 THEN grown ELSE files[i]
  BY <1>2, <1>4, <1>5 DEF LogType
<1>7. kept' \in Seq(Nat)
  BY <1>2, <1>4, AppendProperties
<1>8. LogType'
  BY <1>4, <1>6, <1>7 DEF LogType, Indices
<1>9. Sized'
  <2>1. /\ currentBytes = Bytes(files[0]) /\ currentBytes + SizeOf(entries) <= MaximumBytes
        /\ \A i \in Indices : Bytes(files[i]) <= MaximumBytes
    BY <1>4 DEF Sized
  <2>2. currentBytes' = Bytes(files'[0]) /\ Bytes(grown) <= MaximumBytes
    BY <1>2, <1>4, <1>5, <1>6, <2>1
  <2>3. \A i \in Indices : Bytes(files'[i]) <= MaximumBytes
    BY <1>6, <2>1, <2>2
  <2> QED
    BY <1>4, <2>2, <2>3 DEF Sized, Indices
<1>10. PICK after \in [0..R -> Nat] : Cuts(after)' /\ after[R] = cut[R]
  <2>1. files' = [files EXCEPT ![0] = Append(@, entries)]
    BY DEF Writes
  <2> QED
    BY <1>1, <1>4, <2>1, LogGrows
<1>11. Full(after)'
  <2>1. Gap = R /\ Gap' = R
    BY <1>4 DEF Gap
  <2>2. SUFFICES ASSUME "rotate" \notin cutShort
        PROVE  /\ \A i, j \in 0..(R - 1) :
                    0 < i /\ i < j /\ i # R /\ files'[i] = <<>> => files'[j] = <<>>
               /\ after[R] > 0 => \A i \in (0..(R - 1)) \ {0, R} : files'[i] # <<>>
    BY <1>2, <1>4, <2>1 DEF Full, Indices
  <2>3. /\ \A i, j \in 0..(R - 1) :
             0 < i /\ i < j /\ i # R /\ files[i] = <<>> => files[j] = <<>>
        /\ cut[R] > 0 => \A i \in (0..(R - 1)) \ {0, R} : files[i] # <<>>
    BY <1>1, <1>2, <2>1, <2>2 DEF Full
  <2>4. \A i \in 0..(R - 1) : 0 < i => files'[i] = files[i]
    BY <1>2, <1>6
  <2>5. \A i, j \in 0..(R - 1) : 0 < i /\ i < j => 0 < j
    BY <1>2
  <2>6. \A i \in (0..(R - 1)) \ {0, R} : 0 < i
    BY <1>2
  <2>7. ASSUME NEW i \in 0..(R - 1), NEW j \in 0..(R - 1), 0 < i, i < j, i # R,
               files'[i] = <<>>
        PROVE  files'[j] = <<>>
    <3>1. \A k \in 0..(R - 1) : i < k => files[k] = <<>>
      BY <2>3, <2>4, <2>7
    <3> QED
      BY <2>4, <2>5, <2>7, <3>1
  <2>8. after[R] > 0 => \A i \in (0..(R - 1)) \ {0, R} : files'[i] # <<>>
    BY <1>10, <2>3, <2>4, <2>6
  <2> QED
    BY <2>7, <2>8
<1> QED
  BY <1>8, <1>9, <1>10, <1>11 DEF Pieces

\* A step that fails, or the end of the process, leaves the files and ends the call; a
\* rotation that is cut short is remembered.
LEMMA CallIsCutShort ==
  ASSUME LogInvariant, AppendFails \/ LogReopened
  PROVE  LogInvariant'
<1> USE DEF LogInvariant
<1>1. PICK cut \in [0..RetainedFiles -> Nat] : Cuts(cut) /\ Full(cut)
  BY DEF Pieces
<1>2. /\ UNCHANGED <<files, moving, entries, kept>> /\ appending' = "idle"
      /\ currentBytes' = Bytes(files[0])
      /\ cutShort' = cutShort \union
                       (IF appending = "idle" THEN {} ELSE IF appending = "write" THEN {"write"}
                        ELSE {"rotate"})
  BY DEF AppendFails, LogReopened, CutShort, Sized
<1>3. LogType' /\ Sized'
  BY <1>2 DEF LogType, Sized, Indices
<1>4. Cuts(cut)'
  BY <1>1, <1>2 DEF Cuts, Indices
<1>5. Full(cut)'
  <2>1. "rotate" \notin cutShort' => "rotate" \notin cutShort /\ appending \in {"idle", "write"}
    BY <1>2 DEF LogType
  <2> QED
    BY <1>1, <1>2, <2>1 DEF Full, Gap, Indices
<1> QED
  BY <1>3, <1>4, <1>5 DEF Pieces

\* At the start every file holds at most one entry, the oldest in the oldest file.
LEMMA LogInvariantInit ==
  ASSUME LogInit
  PROVE  LogInvariant
<1> DEFINE R == RetainedFiles
           cut == [i \in 0..R |-> IF i < entries THEN entries - i ELSE 0]
<1>1. /\ R \in Nat /\ R > 1 /\ Indices = 0..(R - 1) /\ MaximumBytes \in Nat /\ MaximumBytes > 1
      /\ entries \in 0..R
  BY LogAssumption DEF Indices, LogInit
<1>2. /\ kept = [n \in 1..entries |-> n]
      /\ files = [i \in Indices |-> IF i < entries THEN <<entries - i>> ELSE <<>>]
      /\ currentBytes = Bytes(files[0]) /\ appending = "idle" /\ moving = 0 /\ cutShort = {}
  BY DEF LogInit
<1>3. PICK e : e = entries /\ e \in 0..R
  BY <1>1
<1>4. kept \in Seq(Nat) /\ Len(kept) = e /\ \A n \in 1..e : kept[n] = n
  BY <1>2, <1>3
<1>5. ASSUME NEW i \in Indices
      PROVE  /\ i < e => files[i] = <<e - i>> /\ e - i \in Nat
             /\ ~(i < e) => files[i] = <<>>
             /\ files[i] \in Seq(Nat) /\ Bytes(files[i]) <= MaximumBytes
  <2>1. CASE i < e
    <3>1. files[i] = <<e - i>> /\ e - i \in Nat
      BY <1>1, <1>2, <1>3, <2>1
    <3>2. PICK n \in Nat : n = e - i
      BY <3>1
    <3>3. PICK q : q = <<n>>
      OBVIOUS
    <3>4. q \in Seq(Nat) /\ Len(q) = 1 /\ q[1] = n
      BY <3>3
    <3>5. Bytes(q) = SizeOf(n)
      BY <3>4, BytesAreCounted
    <3>6. SizeOf(n) \in {1, 2}
      BY SizeIsSmall
    <3>7. Bytes(q) <= MaximumBytes
      BY <1>1, <3>5, <3>6
    <3> QED
      BY <2>1, <3>1, <3>2, <3>3, <3>4, <3>7
  <2>2. CASE ~(i < e)
    <3>1. files[i] = <<>>
      BY <1>2, <1>3, <2>2
    <3>2. PICK q : q = <<>> /\ q \in Seq(Nat)
      BY EmptySeq
    <3>3. Bytes(q) = 0
      BY <3>2, BytesAreCounted
    <3> QED
      BY <1>1, <2>2, <3>1, <3>2, <3>3
  <2> QED
    BY <2>1, <2>2
<1>6. files \in [Indices -> Seq(Nat)]
  BY <1>2, <1>5
<1>7. LogType
  BY <1>1, <1>2, <1>4, <1>6 DEF LogType
<1>8. Sized
  BY <1>2, <1>5 DEF Sized
<1>9. cut \in [0..R -> Nat] /\ \A i \in 0..R : cut[i] = IF i < e THEN e - i ELSE 0
  <2>1. \A i \in 0..R : i < e => e - i \in Nat
    BY <1>1, <1>3
  <2> QED
    BY <1>3, <2>1
<1> HIDE DEF cut
<1>10. Cuts(cut)
  <2>1. cut[0] = e
    BY <1>1, <1>3, <1>9
  <2>2. \A i \in 0..R : cut[i] <= e
    BY <1>1, <1>3, <1>9
  <2>3. ASSUME NEW i \in 0..(R - 1)
        PROVE  /\ cut[i + 1] <= cut[i] /\ Len(files[i]) = cut[i] - cut[i + 1]
               /\ \A k \in 1..Len(files[i]) : files[i][k] = kept[cut[i + 1] + k]
    <3>1. i \in 0..R /\ i + 1 \in 0..R
      BY <1>1
    <3>2. CASE i < e
      <4>1. cut[i] = e - i
        BY <1>9, <3>1, <3>2
      <4>2. cut[i + 1] = (e - i) - 1
        BY <1>3, <1>9, <3>1, <3>2
      <4>3. PICK n \in Nat : n = e - i /\ n \in 1..e
        BY <1>3, <3>1, <3>2
      <4>4. files[i] = <<n>>
        BY <1>1, <1>5, <3>2, <4>3
      <4>5. PICK q : q = <<n>>
        OBVIOUS
      <4>6. Len(q) = 1 /\ q[1] = n
        BY <4>5
      <4>7. cut[i] = n /\ cut[i + 1] = n - 1 /\ kept[n] = n
        BY <1>4, <4>1, <4>2, <4>3
      <4>8. \A k \in 1..1 : (n - 1) + k = n /\ k = 1
        OBVIOUS
      <4>9. Len(files[i]) = 1 /\ files[i][1] = n
        BY <4>4, <4>5, <4>6, Zenon
      <4>10. \A k \in 1..Len(files[i]) : k = 1 /\ cut[i + 1] + k = n
        BY <4>7, <4>8, <4>9
      <4>11. \A k \in 1..Len(files[i]) : files[i][k] = kept[cut[i + 1] + k]
        BY <4>7, <4>9, <4>10, Zenon
      <4>12. cut[i + 1] <= cut[i] /\ Len(files[i]) = cut[i] - cut[i + 1]
        BY <4>7, <4>9
      <4> QED
        BY <4>11, <4>12
    <3>3. CASE ~(i < e)
      <4>1. cut[i] = 0 /\ cut[i + 1] = 0
        BY <1>3, <1>9, <3>1, <3>3
      <4>2. files[i] = <<>>
        BY <1>1, <1>5, <3>3
      <4> QED
        BY <4>1, <4>2
    <3> QED
      BY <3>2, <3>3
  <2> QED
    BY <1>1, <1>4, <2>1, <2>2, <2>3 DEF Cuts
<1>11. Full(cut)
  <2>1. Gap = R
    BY <1>2 DEF Gap
  <2>2. ASSUME NEW i \in 0..(R - 1), NEW j \in 0..(R - 1), 0 < i, i < j, files[i] = <<>>
        PROVE  files[j] = <<>>
    <3>1. i < e => files[i] = <<e - i>>
      BY <1>1, <1>5
    <3>2. ~(i < e)
      BY <2>2, <3>1
    <3>3. ~(j < e)
      BY <1>3, <2>2, <3>2
    <3> QED
      BY <1>1, <1>5, <3>3
  <2>3. ~(cut[R] > 0)
    BY <1>1, <1>3, <1>9
  <2> QED
    BY <1>1, <1>2, <2>2, <2>3 DEF Full
<1> QED
  BY <1>7, <1>8, <1>9, <1>10, <1>11 DEF LogInvariant, Pieces

\* LogStore.LogIsATail, for any number of files, sizes and calls: what is left to read is
\* the end of what was written, whichever step of a rotation failed or never came.
THEOREM LogIsTheEnd == Spec => []LogIsATail
<1>1. Init => LogInvariant
  BY LogInvariantInit DEF Init
<1>2. LogInvariant /\ [Next]_vars => LogInvariant'
  <2> SUFFICES ASSUME LogInvariant, [Next]_vars PROVE LogInvariant'
    OBVIOUS
  <2>1. CASE LogNext
    BY <2>1, AppendBegins, OldestIsRemoved, FileIsRenamed, EntryIsWritten, CallIsCutShort
       DEF LogNext
  <2>2. CASE UNCHANGED logVars
    BY <2>2 DEF logVars, LogInvariant, LogType, Sized, Pieces, Cuts, Full, Gap, Indices
  <2> QED
    BY <2>1, <2>2 DEF Next, Only, vars
<1>3. LogInvariant => LogIsATail
  <2> SUFFICES ASSUME LogInvariant PROVE LogIsATail
    OBVIOUS
  <2>1. PICK cut \in [0..RetainedFiles -> Nat] : Cuts(cut) /\ Full(cut)
    BY DEF LogInvariant, Pieces
  <2>2. IsSuffix(Retained, kept) /\ (Retained # kept => cut[RetainedFiles] > 0)
    BY <2>1, RetainedIsTheEnd DEF LogInvariant
  <2>3. \A i \in Indices : Bytes(files[i]) <= MaximumBytes
    BY DEF LogInvariant, Sized
  <2>4. ASSUME appending = "idle", "rotate" \notin cutShort, Retained # kept
        PROVE  \A i \in Indices \ {0} : files[i] # <<>>
    <3>1. \A i \in Indices \ {0, RetainedFiles} : files[i] # <<>>
      BY <2>1, <2>2, <2>4 DEF Full, Gap
    <3>2. RetainedFiles \notin Indices
      BY LogAssumption DEF Indices
    <3> QED
      BY <3>1, <3>2
  <2> QED
    BY <2>2, <2>3, <2>4 DEF LogIsATail
<1> QED
  BY <1>1, <1>2, <1>3, PTL DEF Spec
-----------------------------------------------------------------------------
(* The menu in the window *)

MenuIds == DOMAIN Contents
Top     == {"file", "record", "view"}

\* The items of the menus that are open along a path.
Below(open) == UNION {{Append(SubSeq(open, 1, n), i) :
                         i \in ToSet(Contents[open[n]])} : n \in 1..Len(open)}

IsBar(b) == b = [focused |-> b.focused, open |-> b.open, active |-> b.active,
                 mnemonics |-> b.mnemonics]

\* What every operation of the reducer keeps.
BarIsRight(b) ==
  /\ IsBar(b) /\ b.focused \in Top \union {Nothing}
  /\ b.open \in Seq(MenuIds) /\ IsChain(b.open)
  /\ b.active # <<>> => b.active \in Below(b.open) \/ IsPrefix(b.active, b.open)

MenuInvariant ==
  /\ BarIsRight(bar)
  /\ focusOn \in Top \union {"page", "item"}
  /\ before \in Top \union {"page", "item", Nothing}
  /\ bar.open # <<>> <=> before # Nothing

LEMMA MenuTable ==
  /\ MenuIds = {"file", "record", "view", "layout", "axes"}
  /\ \A m \in MenuIds : /\ Len(Contents[m]) \in Nat /\ DOMAIN Contents[m] = 1..Len(Contents[m])
                        /\ Contents[m] \in Seq(ToSet(Contents[m]))
  /\ ToSet(TopLevel) = Top /\ Len(TopLevel) = 3 /\ Top \subseteq MenuIds
  /\ \A i \in 1..3 : TopLevel[i] \in Top
  /\ Submenus \subseteq MenuIds /\ Submenus \intersect Top = {}
<1>1. MenuIds = {"file", "record", "view", "layout", "axes"}
  BY DEF MenuIds, Contents
<1>2. ASSUME NEW m \in MenuIds
      PROVE  /\ Len(Contents[m]) \in Nat /\ DOMAIN Contents[m] = 1..Len(Contents[m])
             /\ Contents[m] \in Seq(ToSet(Contents[m]))
  <2> DEFINE Names == {"exit", "start", "stop", "layout", "axes", "full-screen", "combined",
                      "panels", "Fx"}
  <2>1. Contents[m] \in Seq(Names)
    <3>1. CASE m = "file"
      BY <3>1 DEF Contents
    <3>2. CASE m = "record"
      BY <3>2 DEF Contents
    <3>3. CASE m = "view"
      BY <3>3 DEF Contents
    <3>4. CASE m = "layout"
      BY <3>4 DEF Contents
    <3>5. CASE m = "axes"
      BY <3>5 DEF Contents
    <3> QED
      BY <1>1, <3>1, <3>2, <3>3, <3>4, <3>5
  <2> HIDE DEF Names
  <2>2. PICK q : q = Contents[m] /\ q \in Seq(Names)
    BY <2>1
  <2>3. Len(q) \in Nat /\ DOMAIN q = 1..Len(q) /\ \A i \in 1..Len(q) : q[i] \in ToSet(q)
    BY <2>2, LenProperties DEF ToSet
  <2>4. PICK P : P = ToSet(q)
    OBVIOUS
  <2>5. q \in Seq(P)
    BY <2>2, <2>3, <2>4, SeqInside
  <2> QED
    BY <2>2, <2>3, <2>4, <2>5
<1>3. /\ Len(TopLevel) = 3 /\ DOMAIN TopLevel = 1..3
      /\ TopLevel[1] = "file" /\ TopLevel[2] = "record" /\ TopLevel[3] = "view"
  BY DEF TopLevel
<1>4. ToSet(TopLevel) = Top
  <2>1. ToSet(TopLevel) = {TopLevel[1], TopLevel[2], TopLevel[3]}
    BY <1>3 DEF ToSet
  <2> QED
    BY <1>3, <2>1 DEF Top
<1>5. \A i \in 1..3 : TopLevel[i] \in Top
  BY <1>3 DEF Top
<1> QED
  BY <1>1, <1>2, <1>3, <1>4, <1>5 DEF Top, Submenus

\* What Around finds is in the circle.
LEMMA AroundStays ==
  ASSUME NEW S, NEW circle \in Seq(S), circle # <<>>, NEW from, NEW direction \in Int
  PROVE  Around(circle, from, direction) \in ToSet(circle)
<1> DEFINE here == IF from \in ToSet(circle) THEN CHOOSE i \in DOMAIN circle : circle[i] = from
                   ELSE 1
<1>1. Len(circle) \in Nat /\ Len(circle) # 0 /\ DOMAIN circle = 1..Len(circle)
  BY LenProperties, EmptySeq
<1>2. here \in 1..Len(circle)
  BY <1>1 DEF ToSet
<1> HIDE DEF here
<1>3. PICK n : n = Len(circle)
  OBVIOUS
<1>4. n \in Nat /\ n > 0
  <2>1. n \in Nat /\ n # 0
    BY <1>1, <1>3
  <2> QED
    BY <2>1
<1>5. PICK h : h = here
  OBVIOUS
<1>6. PICK x : x = h - 1 + direction + n
  OBVIOUS
<1>7. x \in Int
  <2>1. h \in 1..n
    BY <1>2, <1>3, <1>5
  <2> QED
    BY <1>6, <1>4, <2>1
<1>8. (x % n) + 1 \in 1..n
  BY <1>4, <1>7
<1>9. Around(circle, from, direction) = circle[(x % n) + 1]
  BY <1>3, <1>6, <1>5 DEF Around, here
<1> QED
  BY <1>1, <1>3, <1>8, <1>9 DEF ToSet

\* What can be chosen along a path is among the items of its last menu.
LEMMA FocusableAreItems ==
  ASSUME NEW path \in Seq(MenuIds), path # <<>>, IsChain(path)
  PROVE  /\ Focusable(path) \in Seq(ToSet(Contents[path[Len(path)]]))
         /\ path[Len(path)] \in MenuIds /\ Len(path) \in Nat /\ Len(path) >= 1
<1>1. Len(path) \in Nat /\ Len(path) >= 1 /\ path[Len(path)] \in MenuIds
  BY EmptySeq, LenProperties, ElementOfSeq
<1>2. PICK m \in MenuIds : m = path[Len(path)]
  BY <1>1
<1>3. PICK items : items = ItemsAtPath(path)
  OBVIOUS
<1>4. items = Contents[m]
  BY <1>2, <1>3 DEF ItemsAtPath, Last
<1>5. PICK P : P = ToSet(items)
  OBVIOUS
<1>6. items \in Seq(P)
  BY <1>4, <1>5, MenuTable
<1>7. PICK offered : offered = {i \in DOMAIN items : items[i] \in Submenus \union available}
  OBVIOUS
<1>8. Keep(items, offered) \in Seq(P)
  BY <1>6, KeepProperties
<1>9. Focusable(path) = Keep(items, offered)
  BY <1>3, <1>7 DEF Focusable
<1> QED
  BY <1>1, <1>2, <1>4, <1>5, <1>8, <1>9

\* An item of the last menu that is open is on the screen.
LEMMA ItemIsBelow ==
  ASSUME NEW path \in Seq(MenuIds), path # <<>>, NEW i \in ToSet(Contents[path[Len(path)]])
  PROVE  Append(path, i) \in Below(path)
<1>1. Len(path) \in Nat /\ Len(path) >= 1
  BY EmptySeq, LenProperties
<1>2. SubSeq(path, 1, Len(path)) = path
  <2>1. PICK s : s = SubSeq(path, 1, Len(path))
    OBVIOUS
  <2>2. s \in Seq(MenuIds) /\ Len(s) = Len(path) /\ \A k \in 1..Len(s) : s[k] = path[k]
    <3>1. \A k \in 1..Len(path) : path[k] \in MenuIds
      BY ElementOfSeq
    <3>2. /\ SubSeq(path, 1, Len(path)) \in Seq(MenuIds)
          /\ Len(SubSeq(path, 1, Len(path))) = IF 1 <= Len(path) THEN Len(path) - 1 + 1 ELSE 0
          /\ \A k \in 1..(Len(path) - 1 + 1) : SubSeq(path, 1, Len(path))[k] = path[1 + k - 1]
      BY <1>1, <3>1, SubSeqProperties
    <3>3. \A k \in 1..Len(path) : 1 + k - 1 = k
      BY <1>1
    <3> QED
      BY <1>1, <2>1, <3>2, <3>3
  <2>3. s = path
    BY <2>2, SeqEqual
  <2> QED
    BY <2>1, <2>3
<1>3. Append(path, i) \in {Append(SubSeq(path, 1, Len(path)), x) :
                             x \in ToSet(Contents[path[Len(path)]])}
  BY <1>2
<1>4. Len(path) \in 1..Len(path)
  BY <1>1
<1>5. PICK x : x = Append(path, i)
  OBVIOUS
<1>6. \E n \in 1..Len(path) : x \in {Append(SubSeq(path, 1, n), y) : y \in ToSet(Contents[path[n]])}
  BY <1>3, <1>4, <1>5
<1> QED
  BY <1>5, <1>6, Zenon DEF Below

\* A path and the first item there: on the screen, or the path itself.
LEMMA FirstIsRight ==
  ASSUME NEW path \in Seq(MenuIds), path # <<>>, IsChain(path)
  PROVE  WithFirst(path) \in Below(path) \/ IsPrefix(WithFirst(path), path)
<1>1. CASE Focusable(path) = <<>>
  <2>1. WithFirst(path) = path /\ Len(path) \in Nat
    BY <1>1, LenProperties DEF WithFirst
  <2>2. Len(path) <= Len(path)
    BY <2>1
  <2> QED
    BY <2>1, <2>2 DEF IsPrefix
<1>2. CASE Focusable(path) # <<>>
  <2>1. PICK S : S = ToSet(Contents[path[Len(path)]])
    OBVIOUS
  <2>2. PICK q : q = Focusable(path) /\ q \in Seq(S) /\ q # <<>>
    BY <1>2, <2>1, FocusableAreItems
  <2>3. Head(q) \in S
    BY <2>2, HeadTailProperties
  <2>4. WithFirst(path) = Append(path, Head(q))
    BY <1>2, <2>2 DEF WithFirst
  <2> QED
    BY <2>1, <2>3, <2>4, ItemIsBelow
<1> QED
  BY <1>1, <1>2

\* A menu of the bar is opened.
LEMMA OpenMenuIsRight ==
  ASSUME NEW b, BarIsRight(b), NEW m \in Top
  PROVE  BarIsRight(OpenMenu(b, m)) /\ OpenMenu(b, m).open # <<>>
<1>1. PICK path : path = <<m>>
  OBVIOUS
<1>2. m \in MenuIds
  BY MenuTable
<1>3. path \in Seq(MenuIds) /\ Len(path) = 1 /\ path # <<>>
  BY <1>1, <1>2
<1>4. IsChain(path)
  BY <1>3 DEF IsChain
<1>5. WithFirst(path) \in Below(path) \/ IsPrefix(WithFirst(path), path)
  BY <1>3, <1>4, FirstIsRight
<1>6. PICK a : a = WithFirst(path)
  OBVIOUS
<1>7. OpenMenu(b, m) = [focused |-> m, open |-> path, active |-> a, mnemonics |-> b.mnemonics]
  <2>1. OpenMenu(b, m) = [b EXCEPT !.focused = m, !.open = path, !.active = a]
    BY <1>1, <1>6, Zenon DEF OpenMenu
  <2> QED
    BY <2>1 DEF BarIsRight, IsBar
<1> QED
  BY <1>3, <1>4, <1>5, <1>6, <1>7 DEF BarIsRight, IsBar

LEMMA MoveTopLevelIsRight ==
  ASSUME NEW b, BarIsRight(b), NEW direction \in {-1, 1}
  PROVE  /\ BarIsRight(MoveTopLevel(b, direction))
         /\ MoveTopLevel(b, direction).open = <<>> <=> b.open = <<>>
<1>1. PICK m : m = Around(TopLevel, b.focused, direction)
  OBVIOUS
<1>2. m \in Top
  <2>1. TopLevel \in Seq(Top) /\ TopLevel # <<>>
    BY DEF TopLevel, Top
  <2>2. direction \in Int
    OBVIOUS
  <2>3. m \in ToSet(TopLevel)
    BY <1>1, <2>1, <2>2, AroundStays
  <2> QED
    BY <2>3, MenuTable
<1>3. CASE b.open # <<>>
  <2>1. MoveTopLevel(b, direction) = OpenMenu(b, m)
    BY <1>1, <1>3 DEF MoveTopLevel
  <2> QED
    BY <1>2, <1>3, <2>1, OpenMenuIsRight
<1>4. CASE b.open = <<>>
  <2>1. MoveTopLevel(b, direction) = [focused |-> m, open |-> b.open, active |-> b.active,
                                      mnemonics |-> b.mnemonics]
    BY <1>1, <1>4 DEF MoveTopLevel, BarIsRight, IsBar
  <2> QED
    BY <1>2, <1>4, <2>1 DEF BarIsRight, IsBar
<1> QED
  BY <1>3, <1>4

LEMMA MoveItemIsRight ==
  ASSUME NEW b, BarIsRight(b), NEW direction \in {-1, 1}
  PROVE  /\ BarIsRight(MoveItem(b, direction))
         /\ MoveItem(b, direction).open = b.open
<1>1. CASE b.open = <<>> \/ Focusable(b.open) = <<>>
  BY <1>1 DEF MoveItem
<1>2. CASE ~(b.open = <<>> \/ Focusable(b.open) = <<>>)
  <2>1. PICK path : path = b.open /\ path \in Seq(MenuIds) /\ path # <<>> /\ IsChain(path)
    BY <1>2 DEF BarIsRight
  <2>2. PICK S : S = ToSet(Contents[path[Len(path)]])
    OBVIOUS
  <2>3. PICK circle : circle = Focusable(path) /\ circle \in Seq(S) /\ circle # <<>>
    BY <1>2, <2>1, <2>2, FocusableAreItems
  <2>4. PICK from : from = IF b.active = <<>> THEN Nothing ELSE Last(b.active)
    OBVIOUS
  <2>5. PICK i : i = Around(circle, from, direction)
    OBVIOUS
  <2>6. i \in S
    <3>1. direction \in Int
      OBVIOUS
    <3>2. i \in ToSet(circle)
      BY <2>3, <2>5, <3>1, AroundStays
    <3> QED
      BY <2>3, <3>2, LenProperties, ElementOfSeq DEF ToSet
  <2>7. PICK a : a = Append(path, i) /\ a \in Below(path)
    BY <2>1, <2>2, <2>6, ItemIsBelow
  <2>8. MoveItem(b, direction) = [focused |-> b.focused, open |-> path, active |-> a,
                                  mnemonics |-> b.mnemonics]
    BY <1>2, <2>1, <2>3, <2>4, <2>5, <2>7 DEF MoveItem, BarIsRight, IsBar
  <2> QED
    BY <2>1, <2>7, <2>8 DEF BarIsRight, IsBar
<1> QED
  BY <1>1, <1>2

LEMMA OpenSubmenuIsRight ==
  ASSUME NEW b, BarIsRight(b)
  PROVE  /\ BarIsRight(OpenSubmenu(b))
         /\ OpenSubmenu(b).open = <<>> <=> b.open = <<>>
<1> DEFINE item == Last(b.active)
<1>1. CASE ~(b.active # <<>> /\ item \in Submenus \intersect ToSet(ItemsAtPath(b.open)))
  BY <1>1 DEF OpenSubmenu
<1>2. CASE b.active # <<>> /\ item \in Submenus \intersect ToSet(ItemsAtPath(b.open))
  <2>1. PICK sub : sub = item /\ sub \in Submenus /\ sub \in MenuIds
    BY <1>2, MenuTable
  <2>2. PICK open : open = b.open /\ open \in Seq(MenuIds) /\ IsChain(open)
    BY DEF BarIsRight
  <2>3. open # <<>> /\ sub \in ToSet(Contents[open[Len(open)]])
    <3>1. ToSet(<<>>) = {}
      BY DEF ToSet
    <3>2. ItemsAtPath(open) # <<>>
      BY <1>2, <2>1, <2>2, <3>1
    <3> QED
      BY <1>2, <2>1, <2>2, <3>2 DEF ItemsAtPath, Last
  <2>4. PICK path : path = Append(open, sub)
    OBVIOUS
  <2>5. /\ path \in Seq(MenuIds) /\ Len(open) \in Nat /\ Len(path) = Len(open) + 1
        /\ path[Len(open) + 1] = sub /\ \A k \in 1..Len(open) : path[k] = open[k]
        /\ Len(open) >= 1
    BY <2>1, <2>2, <2>3, <2>4, AppendProperties, LenProperties, EmptySeq
  <2>6. path # <<>>
    BY <2>5
  <2>7. IsChain(path)
    <3> SUFFICES ASSUME NEW k \in 2..Len(path)
                 PROVE  path[k] \in Submenus \intersect ToSet(Contents[path[k - 1]])
      BY DEF IsChain
    <3>1. k - 1 \in 1..Len(open)
      BY <2>5
    <3>2. path[k - 1] = open[k - 1]
      BY <2>5, <3>1
    <3>3. CASE k = Len(open) + 1
      <4>1. k - 1 = Len(open)
        BY <2>5, <3>3
      <4> QED
        BY <2>1, <2>3, <2>5, <3>2, <3>3, <4>1
    <3>4. CASE k \in 2..Len(open)
      <4>1. path[k] = open[k]
        BY <2>5, <3>4
      <4>2. open[k] \in Submenus \intersect ToSet(Contents[open[k - 1]])
        BY <2>2, <3>4 DEF IsChain
      <4> QED
        BY <3>2, <4>1, <4>2
    <3> QED
      BY <2>5, <3>3, <3>4
  <2>8. PICK a : a = WithFirst(path) /\ (a \in Below(path) \/ IsPrefix(a, path))
    BY <2>5, <2>6, <2>7, FirstIsRight
  <2>9. OpenSubmenu(b) = [focused |-> b.focused, open |-> path, active |-> a,
                          mnemonics |-> b.mnemonics]
    BY <1>2, <2>1, <2>2, <2>4, <2>8 DEF OpenSubmenu, BarIsRight, IsBar
  <2>10. b.open # <<>> /\ b.focused \in Top \union {Nothing}
    BY <2>2, <2>3 DEF BarIsRight
  <2> QED
    BY <2>5, <2>6, <2>7, <2>8, <2>9, <2>10 DEF BarIsRight, IsBar
<1> QED
  BY <1>1, <1>2

\* A submenu is closed: the item it hangs from becomes active.
LEMMA CloseSubmenuIsRight ==
  ASSUME NEW b, BarIsRight(b)
  PROVE  /\ BarIsRight(CloseSubmenu(b))
         /\ CloseSubmenu(b).open = <<>> <=> b.open = <<>>
<1>1. CASE Len(b.open) <= 1
  BY <1>1 DEF CloseSubmenu
<1>2. CASE ~(Len(b.open) <= 1)
  <2>1. PICK open : open = b.open /\ open \in Seq(MenuIds) /\ IsChain(open)
    BY DEF BarIsRight
  <2>2. PICK n : n = Len(open) /\ n \in Nat /\ n >= 2
    <3>1. Len(open) \in Nat
      BY <2>1, LenProperties
    <3> QED
      BY <1>2, <2>1, <3>1
  <2>3. PICK path : path = Front(open)
    OBVIOUS
  <2>4. path \in Seq(MenuIds) /\ Len(path) = n - 1 /\ \A k \in 1..(n - 1) : path[k] = open[k]
    <3>1. \A k \in 1..(n - 1) : open[k] \in MenuIds
      BY <2>1, <2>2, ElementOfSeq
    <3>2. 1 \in Int /\ n - 1 \in Int
      BY <2>2
    <3>3. /\ SubSeq(open, 1, n - 1) \in Seq(MenuIds)
          /\ Len(SubSeq(open, 1, n - 1)) = IF 1 <= n - 1 THEN (n - 1) - 1 + 1 ELSE 0
          /\ \A k \in 1..((n - 1) - 1 + 1) : SubSeq(open, 1, n - 1)[k] = open[1 + k - 1]
      BY <3>1, <3>2, SubSeqProperties
    <3>4. (n - 1) - 1 + 1 = n - 1 /\ 1 <= n - 1 /\ \A k \in 1..(n - 1) : 1 + k - 1 = k
      BY <2>2
    <3>5. path = SubSeq(open, 1, n - 1)
      BY <2>2, <2>3 DEF Front
    <3> QED
      BY <3>3, <3>4, <3>5
  <2>5. path # <<>> /\ open # <<>>
    BY <2>2, <2>4
  <2>6. IsChain(path)
    <3> SUFFICES ASSUME NEW k \in 2..Len(path)
                 PROVE  path[k] \in Submenus \intersect ToSet(Contents[path[k - 1]])
      BY DEF IsChain
    <3>1. k \in 1..(n - 1) /\ k - 1 \in 1..(n - 1) /\ k \in 2..n
      BY <2>2, <2>4
    <3> QED
      BY <2>1, <2>2, <2>4, <3>1 DEF IsChain
  <2>7. open[n] \in ToSet(Contents[path[n - 1]])
    <3>1. n \in 2..n /\ n - 1 \in 1..(n - 1)
      BY <2>2
    <3>2. open[n] \in ToSet(Contents[open[n - 1]])
      BY <2>1, <2>2, <3>1 DEF IsChain
    <3> QED
      BY <2>4, <3>1, <3>2
  <2>8. Append(path, open[n]) \in Below(path)
    BY <2>4, <2>5, <2>7, ItemIsBelow
  <2>9. Append(path, open[n]) = open
    <3>1. open[n] \in MenuIds
      BY <2>1, <2>2, ElementOfSeq
    <3>2. PICK s : s = Append(path, open[n])
      OBVIOUS
    <3>3. s \in Seq(MenuIds) /\ Len(s) = (n - 1) + 1 /\ s[(n - 1) + 1] = open[n]
          /\ \A k \in 1..(n - 1) : s[k] = path[k]
      BY <2>4, <3>1, <3>2, AppendProperties
    <3>4. Len(s) = n /\ \A k \in 1..n : s[k] = open[k]
      BY <2>2, <2>4, <3>3
    <3>5. s = open
      BY <2>1, <2>2, <3>3, <3>4, SeqEqual
    <3> QED
      BY <3>2, <3>5
  <2>10. CloseSubmenu(b) = [focused |-> b.focused, open |-> path, active |-> open,
                            mnemonics |-> b.mnemonics]
    BY <1>2, <2>1, <2>3 DEF CloseSubmenu, BarIsRight, IsBar
  <2>11. b.open # <<>> /\ b.focused \in Top \union {Nothing}
    BY <2>1, <2>5 DEF BarIsRight
  <2> QED
    BY <2>4, <2>5, <2>6, <2>8, <2>9, <2>10, <2>11 DEF BarIsRight, IsBar
<1> QED
  BY <1>1, <1>2

\* What OnScreen is, in the terms of the reducer.
LEMMA OnScreenIsBelow == OnScreen = Below(bar.open)
BY DEF OnScreen, Below

\* The pointer makes an item active, and opens what hangs from it.
LEMMA PointedIsRight ==
  ASSUME NEW b, BarIsRight(b), NEW path \in Below(b.open)
  PROVE  BarIsRight([b EXCEPT !.active = path]) /\ b.open # <<>>
<1>1. [b EXCEPT !.active = path] = [focused |-> b.focused, open |-> b.open, active |-> path,
                                   mnemonics |-> b.mnemonics]
  BY DEF BarIsRight, IsBar
<1>2. b.open # <<>>
  <2>1. Below(<<>>) = {}
    BY DEF Below
  <2> QED
    BY <2>1
<1> QED
  BY <1>1, <1>2 DEF BarIsRight, IsBar

\* Nothing is open when the menus are closed.
LEMMA ClosedIsRight ==
  /\ Closed.open = <<>>
  /\ BarIsRight(Closed)
<1>1. /\ Closed.open = <<>> /\ Closed.active = <<>> /\ Closed.focused = Nothing
      /\ IsBar(Closed)
  BY DEF Closed, IsBar
<1>2. IsChain(<<>>) /\ <<>> \in Seq(MenuIds)
  BY DEF IsChain
<1> QED
  BY <1>1, <1>2 DEF BarIsRight

LEMMA MenusClose ==
  ASSUME MenuInvariant, NEW restoreFocus, CloseMenus(restoreFocus)
  PROVE  MenuInvariant'
<1>1. bar' = Closed /\ before' = Nothing
  BY DEF CloseMenus
<1>2. focusOn' \in Top \union {"page", "item"}
  BY DEF CloseMenus, MenuInvariant
<1>3. BarIsRight(bar')
  BY <1>1, ClosedIsRight
<1>4. bar'.open = <<>>
  BY <1>1, ClosedIsRight
<1> QED
  BY <1>1, <1>2, <1>3, <1>4 DEF MenuInvariant, BarIsRight, IsBar

LEMMA MenuOpens ==
  ASSUME MenuInvariant, NEW m \in Top, NEW mnemonics, NEW pressed \in Top \union {"page", "item"},
         OpensMenu(m, mnemonics, pressed)
  PROVE  MenuInvariant'
<1>1. PICK b : b = [bar EXCEPT !.mnemonics = @ \/ mnemonics]
  OBVIOUS
<1>2. BarIsRight(b)
  <2>1. PICK n : n = (bar.mnemonics \/ mnemonics)
    OBVIOUS
  <2>2. b = [bar EXCEPT !.mnemonics = n]
    BY <1>1, <2>1, Zenon
  <2>3. b = [focused |-> bar.focused, open |-> bar.open, active |-> bar.active, mnemonics |-> n]
    BY <2>2 DEF MenuInvariant, BarIsRight, IsBar
  <2> QED
    BY <2>3 DEF MenuInvariant, BarIsRight, IsBar
<1>3. bar' = OpenMenu(b, m) /\ focusOn' = m
      /\ before' = IF bar.open = <<>> THEN pressed ELSE before
  BY <1>1 DEF OpensMenu
<1>4. BarIsRight(bar') /\ bar'.open # <<>>
  BY <1>2, <1>3, OpenMenuIsRight
<1>5. before' # Nothing /\ before' \in Top \union {"page", "item", Nothing}
  BY <1>3 DEF MenuInvariant, Nothing, Top
<1> QED
  BY <1>3, <1>4, <1>5 DEF MenuInvariant, BarIsRight, IsBar

\* A dispatch to the reducer leaves what is open, or open still.
LEMMA BarIsShown ==
  ASSUME MenuInvariant, NEW b, BarIsRight(b), b.open = <<>> <=> bar.open = <<>>, Shows(b),
         UNCHANGED <<before, available>>
  PROVE  MenuInvariant'
<1>1. bar' = b /\ focusOn' \in Top \union {"page", "item"}
  BY DEF Shows, MenuInvariant, BarIsRight
<1> QED
  BY <1>1 DEF MenuInvariant, BarIsRight, IsBar

LEMMA ArrowIsRight ==
  ASSUME MenuInvariant, Arrow
  PROVE  MenuInvariant'
<1> DEFINE Step(key) == IF key \in {"left", "up"} THEN -1 ELSE 1
           Looked(key) == IF key \in {"left", "right"} /\ focusOn \in ToSet(TopLevel)
                        THEN MoveTopLevel(bar, Step(key)) ELSE bar
           OnSub(b)  == b.active # <<>> /\ Last(b.active) \in Submenus
           Acts(key, b, onSub) ==
             CASE b.open = <<>>             -> b
               [] key \in {"up", "down"}    -> MoveItem(b, Step(key))
               [] key = "right" /\ onSub    -> OpenSubmenu(b)
               [] key = "left" /\ Len(b.open) > 1 -> CloseSubmenu(b)
               [] OTHER                     -> MoveTopLevel(b, Step(key))
<1>1. PICK key \in {"up", "down", "left", "right"} :
        Shows(Acts(key, Looked(key), OnSub(Looked(key)))) /\ UNCHANGED <<before, available>>
  BY DEF Arrow
<1>2. PICK way : way = Step(key) /\ way \in {-1, 1}
  OBVIOUS
<1>3. PICK b : b = Looked(key)
  OBVIOUS
<1>4. BarIsRight(b) /\ (b.open = <<>> <=> bar.open = <<>>)
  BY <1>2, <1>3, MoveTopLevelIsRight DEF MenuInvariant
<1>5. PICK c : c = Acts(key, b, OnSub(b))
  OBVIOUS
<1>6. \/ c = b
      \/ c = MoveItem(b, way)
      \/ c = OpenSubmenu(b)
      \/ c = CloseSubmenu(b)
      \/ c = MoveTopLevel(b, way)
  <2>1. PICK onSub : onSub = OnSub(b)
    OBVIOUS
  <2>2. PICK long : long = (Len(b.open) > 1)
    OBVIOUS
  <2>3. c = Acts(key, b, onSub)
    BY <1>5, <2>1
  <2> HIDE DEF OnSub
  <2>4. PICK v, w, x, y : v = MoveItem(b, way) /\ w = OpenSubmenu(b) /\ x = CloseSubmenu(b)
                          /\ y = MoveTopLevel(b, way)
    OBVIOUS
  <2>5. c = CASE b.open = <<>> -> b [] key \in {"up", "down"} -> v
              [] key = "right" /\ onSub -> w [] key = "left" /\ long -> x [] OTHER -> y
    BY <1>2, <2>2, <2>3, <2>4, Zenon
  <2>6. c = b \/ c = v \/ c = w \/ c = x \/ c = y
    BY <2>5
  <2> QED
    BY <2>4, <2>6
<1>7. BarIsRight(c) /\ (c.open = <<>> <=> b.open = <<>>)
  BY <1>2, <1>4, <1>6, MoveItemIsRight, OpenSubmenuIsRight, CloseSubmenuIsRight,
     MoveTopLevelIsRight
<1>8. Shows(c) /\ UNCHANGED <<before, available>>
  BY <1>1, <1>3, <1>5
<1> QED
  BY <1>4, <1>7, <1>8, BarIsShown

LEMMA MenuStep ==
  ASSUME MenuInvariant, TitleNext
  PROVE  MenuInvariant'
<1>1. ToSet(TopLevel) = Top /\ TopLevel[1] \in Top
  BY MenuTable
<1>2. focusOn \in Top \union {"page", "item"}
  BY DEF MenuInvariant
<1>3. CASE Accelerator \/ Enter \/ Escape \/ ItemClicked
  <2>1. CASE \E m : OpensMenu(m, FALSE, focusOn) /\ m \in Top
    BY <1>2, <2>1, MenuOpens
  <2>2. CASE \E restoreFocus : CloseMenus(restoreFocus)
    BY <2>2, MenusClose
  <2> QED
    BY <1>1, <1>3, <2>1, <2>2 DEF Accelerator, Enter, Escape, ItemClicked, Activate
<1>4. CASE Mnemonic
  <2>1. CASE \E m \in ToSet(TopLevel) : OpensMenu(m, TRUE, focusOn)
    BY <1>1, <1>2, <2>1, MenuOpens
  <2>2. CASE /\ Shows([bar EXCEPT !.focused = TopLevel[1], !.mnemonics = TRUE])
             /\ UNCHANGED <<before, available>>
    <3>1. PICK m \in Top : m = TopLevel[1]
      BY <1>1
    <3>2. PICK b : b = [bar EXCEPT !.focused = m, !.mnemonics = TRUE]
      OBVIOUS
    <3>3. b = [focused |-> m, open |-> bar.open, active |-> bar.active, mnemonics |-> TRUE]
      BY <3>2 DEF MenuInvariant, BarIsRight, IsBar
    <3>4. BarIsRight(b) /\ (b.open = <<>> <=> bar.open = <<>>)
      BY <3>3 DEF MenuInvariant, BarIsRight, IsBar
    <3>5. Shows(b)
      BY <2>2, <3>1, <3>2
    <3> QED
      BY <2>2, <3>4, <3>5, BarIsShown
  <2> QED
    BY <1>4, <2>1, <2>2 DEF Mnemonic
<1>5. CASE Arrow
  BY <1>5, ArrowIsRight
<1>6. CASE TopLevelPointed
  <2>1. CASE \E m \in Top : OpensMenu(m, FALSE, focusOn) \/ OpensMenu(m, FALSE, m)
    BY <1>2, <2>1, MenuOpens
  <2>2. CASE CloseMenus(FALSE)
    BY <2>2, MenusClose
  <2> QED
    BY <1>1, <1>6, <2>1, <2>2 DEF TopLevelPointed
<1>7. CASE ItemPointed
  <2>1. PICK path \in Below(bar.open) :
          /\ bar' = IF Last(path) \in Submenus THEN OpenSubmenu([bar EXCEPT !.active = path])
                    ELSE [bar EXCEPT !.active = path]
          /\ focusOn' \in IF Last(path) \in Submenus THEN {focusOn, "item"} ELSE {focusOn}
          /\ UNCHANGED <<before, available>>
    BY <1>7, OnScreenIsBelow DEF ItemPointed
  <2>2. BarIsRight(bar)
    BY DEF MenuInvariant
  <2>3. PICK b : b = [bar EXCEPT !.active = path]
    OBVIOUS
  <2>4. BarIsRight(b) /\ bar.open # <<>>
    BY <2>2, <2>3, PointedIsRight
  <2>5. b.open = bar.open
    BY <2>2, <2>3 DEF BarIsRight, IsBar
  <2>6. BarIsRight(bar') /\ bar'.open # <<>>
    BY <2>1, <2>3, <2>4, <2>5, OpenSubmenuIsRight
  <2>7. focusOn' \in Top \union {"page", "item"} /\ before' = before
    BY <1>2, <2>1
  <2> QED
    BY <2>4, <2>6, <2>7 DEF MenuInvariant, BarIsRight, IsBar
<1>8. CASE Left
  <2>1. CASE CloseMenus(FALSE)
    BY <2>1, MenusClose
  <2>2. CASE focusOn' = "page" /\ UNCHANGED <<bar, before, available>>
    BY <2>2 DEF MenuInvariant, BarIsRight, IsBar
  <2> QED
    BY <1>8, <2>1, <2>2 DEF Left
<1>9. CASE Availability
  BY <1>9 DEF Availability, MenuInvariant, BarIsRight, IsBar
<1> QED
  BY <1>3, <1>4, <1>5, <1>6, <1>7, <1>8, <1>9 DEF TitleNext

\* TitleBarMenu.ActiveIsOnScreen, whatever the pointer, the keys and the items that become
\* available have done: the open menus are a chain, and what Enter would run is on the screen.
THEOREM ActiveCanBeSeen == Spec => []ActiveIsOnScreen
<1>1. Init => MenuInvariant
  <2> SUFFICES ASSUME TitleInit PROVE MenuInvariant
    BY DEF Init
  <2>1. bar = Closed /\ focusOn = "page" /\ before = Nothing
    BY DEF TitleInit
  <2>2. BarIsRight(bar) /\ bar.open = <<>>
    BY <2>1, ClosedIsRight
  <2> QED
    BY <2>1, <2>2 DEF MenuInvariant
<1>2. MenuInvariant /\ [Next]_vars => MenuInvariant'
  <2> SUFFICES ASSUME MenuInvariant, [Next]_vars PROVE MenuInvariant'
    OBVIOUS
  <2>1. CASE TitleNext
    BY <2>1, MenuStep
  <2>2. CASE UNCHANGED titleVars
    BY <2>2 DEF titleVars, MenuInvariant, BarIsRight, IsBar
  <2> QED
    BY <2>1, <2>2 DEF Next, Only, vars
<1>3. MenuInvariant => ActiveIsOnScreen
  BY OnScreenIsBelow DEF MenuInvariant, BarIsRight, ActiveIsOnScreen
<1> QED
  BY <1>1, <1>2, <1>3, PTL DEF Spec
-----------------------------------------------------------------------------
(* The live view: what the reducer does with the fields its times depend on *)

IsBackend(b) == b = [state |-> b.state, restart |-> b.restart, error |-> b.error, at |-> b.at]

Fields == {"backend", "connection", "generation", "connectionAt", "paused", "sensorHost",
           "health", "wrench", "recording", "plot", "configuration", "preferences",
           "partialPath", "settingsError", "errorSequence"}

\* The shape of the renderer's state.
IsApp(s) ==
  /\ s = [f \in DOMAIN s |-> s[f]]
  /\ DOMAIN s = Fields
  /\ IsBackend(s.backend) /\ s.wrench = [at |-> s.wrench.at]
  /\ s.backend.at \in Nat /\ s.generation \in Nat /\ s.connectionAt \in Nat
  /\ s.wrench.at \in Nat /\ s.errorSequence \in Nat

\* A backend ends, or has none.
Ends(e) == \/ e.type = "backend_disconnected"
           \/ e.type = "backend_state" /\ e.state # "running"

\* What a sensor has told is forgotten.
LEMMA SensorIsForgotten ==
  ASSUME NEW s, IsApp(s)
  PROVE  /\ IsApp(ClearSensorIdentity(s))
         /\ ClearSensorIdentity(s).wrench.at = 0 /\ ClearSensorIdentity(s).errorSequence = 0
         /\ ClearSensorIdentity(s).plot = EmptyPlot
         /\ \A f \in {"backend", "connection", "generation", "connectionAt", "paused",
                      "preferences"} :
              ClearSensorIdentity(s)[f] = s[f]
<1>1. PICK h, w, p, c : /\ h = [EmptyHealth EXCEPT !.state = s.health.state]
                        /\ w = EmptyWrench /\ p = EmptyPlot /\ c = EmptyConfiguration
  OBVIOUS
<1>2. PICK r : r = ClearSensorIdentity(s)
  OBVIOUS
<1>3. r = [s EXCEPT !.health = h, !.wrench = w, !.plot = p, !.configuration = c,
                    !.errorSequence = 0]
  BY <1>1, <1>2, Zenon DEF ClearSensorIdentity
<1>4. w = [at |-> w.at] /\ w.at = 0
  BY <1>1 DEF EmptyWrench
<1>5. /\ r = [f \in DOMAIN r |-> r[f]] /\ DOMAIN r = DOMAIN s /\ r.wrench = w /\ r.errorSequence = 0
      /\ r.plot = p
      /\ \A f \in {"backend", "connection", "generation", "connectionAt", "paused",
                   "preferences"} : r[f] = s[f]
  BY <1>3 DEF IsApp, Fields
<1> QED
  BY <1>1, <1>2, <1>4, <1>5 DEF IsApp, IsBackend

LEMMA StreamIsForgotten ==
  ASSUME NEW s, IsApp(s)
  PROVE  /\ IsApp(ClearTransientMeasurement(s))
         /\ ClearTransientMeasurement(s).wrench.at = 0
         /\ ClearTransientMeasurement(s).plot = EmptyPlot
         /\ \A f \in {"backend", "connection", "generation", "connectionAt", "paused",
                      "errorSequence", "preferences"} : ClearTransientMeasurement(s)[f] = s[f]
<1>1. PICK w, p : w = EmptyWrench /\ p = EmptyPlot
  OBVIOUS
<1>2. PICK r : r = ClearTransientMeasurement(s)
  OBVIOUS
<1>3. r = [s EXCEPT !.wrench = w, !.plot = p]
  BY <1>1, <1>2, Zenon DEF ClearTransientMeasurement
<1>4. w = [at |-> w.at] /\ w.at = 0
  BY <1>1 DEF EmptyWrench
<1>5. /\ r = [f \in DOMAIN r |-> r[f]] /\ DOMAIN r = DOMAIN s /\ r.wrench = w /\ r.plot = p
      /\ \A f \in {"backend", "connection", "generation", "connectionAt", "paused",
                   "errorSequence", "preferences"} : r[f] = s[f]
  BY <1>3 DEF IsApp, Fields
<1> QED
  BY <1>1, <1>2, <1>4, <1>5 DEF IsApp, IsBackend

LEMMA SessionIsForgotten ==
  ASSUME NEW s, IsApp(s)
  PROVE  /\ IsApp(ClearLiveSession(s))
         /\ ClearLiveSession(s).wrench.at = 0 /\ ClearLiveSession(s).errorSequence = 0
         /\ ClearLiveSession(s).plot = EmptyPlot
         /\ \A f \in {"backend", "connection", "generation", "connectionAt", "preferences"} :
              ClearLiveSession(s)[f] = s[f]
<1>1. PICK c : c = ClearSensorIdentity(s)
  OBVIOUS
<1>2. /\ IsApp(c) /\ c.wrench.at = 0 /\ c.errorSequence = 0 /\ c.plot = EmptyPlot
      /\ \A f \in {"backend", "connection", "generation", "connectionAt", "preferences"} : c[f] = s[f]
  BY <1>1, SensorIsForgotten
<1>3. PICK r : r = EmptyRecording
  OBVIOUS
<1>4. ClearLiveSession(s) = [c EXCEPT !.paused = FALSE, !.health.state = "stopped",
                                      !.recording = r]
  BY <1>1, <1>3, Zenon DEF ClearLiveSession
<1> QED
  BY <1>2, <1>4, ZenonT(60) DEF IsApp, IsBackend, Fields

LEMMA BackendIsForgotten ==
  ASSUME NEW s, IsApp(s)
  PROVE  /\ IsApp(ClearBackendSession(s))
         /\ ClearBackendSession(s).wrench.at = 0 /\ ClearBackendSession(s).errorSequence = 0
         /\ ClearBackendSession(s).backend = s.backend
         /\ ClearBackendSession(s).plot = EmptyPlot
         /\ ClearBackendSession(s).preferences = s.preferences
         /\ ClearBackendSession(s).connection = "disconnected"
         /\ ClearBackendSession(s).generation = 0 /\ ClearBackendSession(s).connectionAt = 0
<1>1. PICK c : c = ClearLiveSession(s)
  OBVIOUS
<1>2. IsApp(c) /\ c.wrench.at = 0 /\ c.errorSequence = 0 /\ c.backend = s.backend
      /\ c.plot = EmptyPlot /\ c.preferences = s.preferences
  BY <1>1, SessionIsForgotten
<1>3. PICK r : r = ClearBackendSession(s)
  OBVIOUS
<1>4. r = [c EXCEPT !.connection = "disconnected", !.generation = 0, !.connectionAt = 0]
  BY <1>1, <1>3, Zenon DEF ClearBackendSession
<1>5. /\ r = [f \in DOMAIN r |-> r[f]] /\ DOMAIN r = DOMAIN c
      /\ r.connection = "disconnected" /\ r.generation = 0 /\ r.connectionAt = 0
      /\ \A f \in {"backend", "wrench", "errorSequence", "plot", "preferences"} : r[f] = c[f]
  BY <1>2, <1>4 DEF IsApp, Fields
<1> QED
  BY <1>2, <1>3, <1>5 DEF IsApp, IsBackend

\* The end of a backend, which is newer than what is known of it, ends everything.
LEMMA EndIsReduced ==
  ASSUME NEW s, IsApp(s), NEW e, Ends(e), e.at \in Nat, e.at > s.backend.at
  PROVE  /\ IsApp(Reduce(s, e)) /\ Reduce(s, e).wrench.at = 0 /\ Reduce(s, e).errorSequence = 0
         /\ Reduce(s, e).connection = "disconnected" /\ Reduce(s, e).generation = 0
         /\ Reduce(s, e).connectionAt = 0 /\ Reduce(s, e).backend.at = e.at
         /\ Reduce(s, e).plot = EmptyPlot /\ Reduce(s, e).preferences = s.preferences
<1>1. PICK c : c = ClearBackendSession(s)
  OBVIOUS
<1>2. /\ IsApp(c) /\ c.wrench.at = 0 /\ c.errorSequence = 0 /\ c.connection = "disconnected"
      /\ c.generation = 0 /\ c.connectionAt = 0
      /\ c.plot = EmptyPlot /\ c.preferences = s.preferences
  BY <1>1, BackendIsForgotten
<1>3. IsNewer(e.at, s.backend.at)
  BY DEF IsNewer
<1>4. PICK b : Reduce(s, e) = [c EXCEPT !.backend = b] /\ IsBackend(b) /\ b.at = e.at
  <2>1. CASE e.type = "backend_disconnected"
    <3>1. PICK state : state = IF e.restart THEN "starting" ELSE "stopped"
      OBVIOUS
    <3>2. PICK restart : restart = e.restart
      OBVIOUS
    <3>3. PICK b : b = [s.backend EXCEPT !.state = state, !.restart = restart, !.at = e.at]
      OBVIOUS
    <3>4. Reduce(s, e) = ReduceDisconnected(s, e)
      BY <2>1 DEF Reduce
    <3>5. ReduceDisconnected(s, e) = [c EXCEPT !.backend = b]
      BY <1>1, <1>3, <3>1, <3>2, <3>3, Zenon DEF ReduceDisconnected
    <3>6. IsBackend(b) /\ b.at = e.at
      BY <3>3 DEF IsApp, IsBackend
    <3> QED
      BY <3>4, <3>5, <3>6
  <2>2. CASE e.type = "backend_state" /\ e.state # "running"
    <3>1. PICK b : b = [state |-> e.state, restart |-> e.state = "starting",
                        error |-> e.error, at |-> e.at]
      OBVIOUS
    <3>2. Reduce(s, e) = ReduceBackend(s, e)
      BY <2>2 DEF Reduce
    <3>3. ReduceBackend(s, e) = [c EXCEPT !.backend = b]
      BY <1>1, <1>3, <2>2, <3>1, Zenon DEF ReduceBackend
    <3>4. IsBackend(b) /\ b.at = e.at
      BY <3>1 DEF IsBackend
    <3> QED
      BY <3>2, <3>3, <3>4
  <2> QED
    BY <2>1, <2>2 DEF Ends
<1>5. PICK r : r = Reduce(s, e)
  OBVIOUS
<1>6. /\ r = [f \in DOMAIN r |-> r[f]] /\ DOMAIN r = DOMAIN c /\ r.backend = b
      /\ \A f \in {"wrench", "errorSequence", "connection", "generation",
                   "connectionAt", "plot", "preferences"} :
           r[f] = c[f]
  BY <1>2, <1>4, <1>5 DEF IsApp, Fields
<1> QED
  BY <1>2, <1>4, <1>5, <1>6 DEF IsApp

\* A backend that runs is only noted.
LEMMA RunningIsReduced ==
  ASSUME NEW s, IsApp(s), NEW e, e.type = "backend_state", e.state = "running",
         e.at \in Nat, e.at > s.backend.at
  PROVE  /\ IsApp(Reduce(s, e)) /\ Reduce(s, e).backend.at = e.at
         /\ \A f \in {"wrench", "errorSequence", "connection", "generation",
                      "connectionAt", "plot", "preferences"} :
              Reduce(s, e)[f] = s[f]
<1>1. IsNewer(e.at, s.backend.at)
  BY DEF IsNewer
<1>2. PICK b : b = [state |-> e.state, restart |-> e.state = "starting",
                    error |-> e.error, at |-> e.at]
  OBVIOUS
<1>3. Reduce(s, e) = ReduceBackend(s, e)
  BY DEF Reduce
<1>4. PICK r : r = Reduce(s, e)
  OBVIOUS
<1>5. r = [s EXCEPT !.backend = b]
  BY <1>1, <1>2, <1>3, <1>4, Zenon DEF ReduceBackend
<1>6. IsBackend(b) /\ b.at = e.at
  BY <1>2 DEF IsBackend
<1>7. /\ r = [f \in DOMAIN r |-> r[f]] /\ DOMAIN r = DOMAIN s /\ r.backend = b
      /\ \A f \in {"wrench", "errorSequence", "connection", "generation",
                   "connectionAt", "plot", "preferences"} :
           r[f] = s[f]
  BY <1>5 DEF IsApp, Fields
<1> QED
  BY <1>4, <1>6, <1>7 DEF IsApp

\* A state of the connection that is not of an earlier generation, and newer: it is taken,
\* with another sensor everything is forgotten, and the measurement with the stream.
LEMMA ConnectionIsReduced ==
  ASSUME NEW s, IsApp(s), NEW e, e.type = "connection_state", e.at \in Nat, e.gen \in Nat,
         e.gen >= s.generation, e.at > s.connectionAt
  PROVE  /\ IsApp(Reduce(s, e)) /\ Reduce(s, e).connection = e.state
         /\ Reduce(s, e).generation = e.gen /\ Reduce(s, e).connectionAt = e.at
         /\ Reduce(s, e).backend = s.backend /\ Reduce(s, e).preferences = s.preferences
         /\ Reduce(s, e).plot \in {EmptyPlot, s.plot}
         /\ Reduce(s, e).wrench.at \in {0, s.wrench.at}
         /\ Reduce(s, e).errorSequence \in {0, s.errorSequence}
         /\ e.gen > s.generation \/ e.state = "disconnected" =>
              Reduce(s, e).wrench.at = 0 /\ Reduce(s, e).errorSequence = 0
              /\ Reduce(s, e).plot = EmptyPlot
         /\ e.state = "reconnecting" /\ s.connection # "reconnecting" =>
              Reduce(s, e).wrench.at = 0 /\ Reduce(s, e).plot = EmptyPlot
<1>1. PICK scoped : scoped = IF e.gen > s.generation THEN ClearSensorIdentity(s)
                             ELSE IF e.state = "reconnecting" /\ s.connection # "reconnecting"
                             THEN ClearTransientMeasurement(s) ELSE s
  OBVIOUS
<1>2. /\ IsApp(scoped) /\ scoped.backend = s.backend
      /\ scoped.preferences = s.preferences /\ scoped.plot \in {EmptyPlot, s.plot}
      /\ scoped.wrench.at \in {0, s.wrench.at} /\ scoped.errorSequence \in {0, s.errorSequence}
      /\ e.gen > s.generation => scoped.wrench.at = 0 /\ scoped.errorSequence = 0
                                /\ scoped.plot = EmptyPlot
      /\ e.state = "reconnecting" /\ s.connection # "reconnecting" =>
           scoped.wrench.at = 0 /\ scoped.plot = EmptyPlot
  <2>1. CASE e.gen > s.generation
    BY <1>1, <2>1, SensorIsForgotten
  <2>2. CASE ~(e.gen > s.generation) /\ e.state = "reconnecting" /\ s.connection # "reconnecting"
    BY <1>1, <2>2, StreamIsForgotten
  <2>3. CASE ~(e.gen > s.generation) /\ ~(e.state = "reconnecting" /\ s.connection # "reconnecting")
    BY <1>1, <2>3
  <2> QED
    BY <2>1, <2>2, <2>3
<1>3. PICK next : next = [scoped EXCEPT !.connection = e.state, !.generation = e.gen,
                                        !.connectionAt = e.at, !.paused = e.paused,
                                        !.health.error = e.error]
  OBVIOUS
<1>4. /\ next = [f \in DOMAIN next |-> next[f]] /\ DOMAIN next = DOMAIN scoped
      /\ next.connection = e.state /\ next.generation = e.gen /\ next.connectionAt = e.at
      /\ \A f \in {"backend", "wrench", "errorSequence", "plot", "preferences"} : next[f] = scoped[f]
  BY <1>2, <1>3, ZenonT(60) DEF IsApp, Fields
<1>5. IsApp(next)
  BY <1>2, <1>4 DEF IsApp
<1>6. Reduce(s, e) = IF e.state = "disconnected" THEN ClearLiveSession(next) ELSE next
  <2>1. Reduce(s, e) = ReduceConnection(s, e)
    BY DEF Reduce
  <2>2. ~(e.gen < s.generation \/ (e.gen = s.generation /\ ~IsNewer(e.at, s.connectionAt)))
    BY DEF IsNewer, IsApp
  <2> QED
    BY <1>1, <1>3, <2>1, <2>2, Zenon DEF ReduceConnection
<1>7. CASE e.state = "disconnected"
  <2>1. PICK r : r = ClearLiveSession(next)
    OBVIOUS
  <2>2. /\ IsApp(r) /\ r.wrench.at = 0 /\ r.errorSequence = 0 /\ r.plot = EmptyPlot
        /\ \A f \in {"backend", "connection", "generation", "connectionAt", "preferences"} :
             r[f] = next[f]
    BY <1>5, <2>1, SessionIsForgotten
  <2>3. Reduce(s, e) = r
    BY <1>6, <1>7, <2>1
  <2> QED
    BY <1>2, <1>4, <1>7, <2>2, <2>3
<1>8. CASE e.state # "disconnected"
  BY <1>2, <1>4, <1>5, <1>6, <1>8
<1> QED
  BY <1>7, <1>8

\* A sample is shown when it is newer and the stream is live.
LEMMA SampleIsReduced ==
  ASSUME NEW s, IsApp(s), NEW e, e.type = "live_wrench", e.at \in Nat
  PROVE  /\ IsApp(Reduce(s, e))
         /\ \A f \in {"backend", "errorSequence", "connection", "generation",
                      "connectionAt", "plot", "preferences"} :
              Reduce(s, e)[f] = s[f]
         /\ Reduce(s, e).wrench.at \in {s.wrench.at, e.at}
         /\ Reduce(s, e).wrench.at # s.wrench.at => s.connection = "streaming"
<1>1. Reduce(s, e) = ReduceWrench(s, e)
  BY DEF Reduce
<1>2. CASE Live(s) /\ IsNewer(e.at, s.wrench.at)
  <2>1. PICK r : r = Reduce(s, e)
    OBVIOUS
  <2>2. r = [s EXCEPT !.wrench.at = e.at]
    BY <1>1, <1>2, <2>1 DEF ReduceWrench
  <2>3. /\ r = [f \in DOMAIN r |-> r[f]] /\ DOMAIN r = DOMAIN s
        /\ r.wrench = [s.wrench EXCEPT !.at = e.at]
        /\ \A f \in {"backend", "errorSequence", "connection", "generation",
                     "connectionAt", "plot", "preferences"} :
             r[f] = s[f]
    BY <2>2 DEF IsApp, Fields
  <2>4. r.wrench = [at |-> r.wrench.at] /\ r.wrench.at = e.at
    BY <2>3 DEF IsApp
  <2> QED
    BY <1>2, <2>1, <2>3, <2>4 DEF IsApp, Live
<1>3. CASE ~(Live(s) /\ IsNewer(e.at, s.wrench.at))
  BY <1>1, <1>3 DEF ReduceWrench
<1> QED
  BY <1>2, <1>3

LEMMA ErrorIsReduced ==
  ASSUME NEW s, IsApp(s), NEW e, e.type = "error", e.sequence \in Nat
  PROVE  /\ IsApp(Reduce(s, e))
         /\ \A f \in {"backend", "wrench", "connection", "generation", "connectionAt", "plot",
                      "preferences"} :
              Reduce(s, e)[f] = s[f]
         /\ Reduce(s, e).errorSequence = IF e.sequence <= s.errorSequence THEN s.errorSequence
                                         ELSE e.sequence
<1>1. Reduce(s, e) = ReduceError(s, e)
  BY DEF Reduce
<1>2. CASE ~(e.sequence <= s.errorSequence)
  <2>1. PICK r : r = Reduce(s, e)
    OBVIOUS
  <2>2. PICK error : error = IF e.operation = "recording" THEN e.error ELSE s.recording.error
    OBVIOUS
  <2>3. r = [s EXCEPT !.health.error = e.error, !.errorSequence = e.sequence,
                      !.recording.error = error]
    BY <1>1, <1>2, <2>1, <2>2 DEF ReduceError
  <2>4. /\ r = [f \in DOMAIN r |-> r[f]] /\ DOMAIN r = DOMAIN s /\ r.errorSequence = e.sequence
        /\ \A f \in {"backend", "wrench", "connection", "generation", "connectionAt", "plot",
                     "preferences"} :
             r[f] = s[f]
    BY <2>3 DEF IsApp, Fields
  <2> QED
    BY <1>2, <2>1, <2>4 DEF IsApp
<1>3. CASE e.sequence <= s.errorSequence
  BY <1>1, <1>3 DEF ReduceError
<1> QED
  BY <1>2, <1>3

\* What a batch leaves to be drawn, and what nothing else touches.
Plotted(e) == [batch |-> e.at, at |-> e.at]
KeepsBatch(s, e, r) ==
  \/ r.plot = s.plot
  \/ e.type = "plot_batch" /\ s.connection = "streaming" /\ r.plot = Plotted(e)

\* The other events that are sent change none of this.
LEMMA OthersAreReduced ==
  ASSUME NEW s, IsApp(s), NEW e,
         e.type \in {"plot_batch", "configuration_changed", "recording_state"}
  PROVE  /\ IsApp(Reduce(s, e))
         /\ \A f \in {"backend", "wrench", "errorSequence", "connection", "generation",
                      "connectionAt", "preferences"} : Reduce(s, e)[f] = s[f]
         /\ KeepsBatch(s, e, Reduce(s, e))
<1> DEFINE Same(r) == /\ r = [f \in DOMAIN r |-> r[f]] /\ DOMAIN r = DOMAIN s
                      /\ \A f \in {"backend", "wrench", "errorSequence", "connection",
                                   "generation", "connectionAt", "preferences"} : r[f] = s[f]
<1>1. Same(s)
  BY DEF IsApp
<1>2. \A x : Same([s EXCEPT !.plot = x]) /\ Same([s EXCEPT !.configuration = x])
             /\ Same([s EXCEPT !.partialPath = x])
  BY DEF IsApp, Fields
<1>3. /\ \A x : [s EXCEPT !.plot = x].plot = x
      /\ \A x : [s EXCEPT !.configuration = x].plot = s.plot
      /\ \A x : [s EXCEPT !.partialPath = x].plot = s.plot
  BY DEF IsApp, Fields
<1>4. CASE e.type = "plot_batch"
  <2>1. Reduce(s, e) = ReducePlot(s, e)
    BY <1>4 DEF Reduce
  <2>2. PICK x : x = [batch |-> e.at, at |-> e.at] /\ x = Plotted(e)
    BY DEF Plotted
  <2>3. Reduce(s, e) = s \/ (Live(s) /\ Reduce(s, e) = [s EXCEPT !.plot = x])
    BY <2>1, <2>2, Zenon DEF ReducePlot
  <2>4. Same(Reduce(s, e))
    <3> HIDE DEF Same
    <3> QED
      BY <1>1, <1>2, <2>3
  <2>5. Reduce(s, e).plot = s.plot \/ (s.connection = "streaming" /\ Reduce(s, e).plot = x)
    BY <1>3, <2>3 DEF Live
  <2> QED
    BY <1>4, <2>2, <2>4, <2>5 DEF IsApp, KeepsBatch
<1>5. CASE e.type = "configuration_changed"
  <2>1. Reduce(s, e) = ReduceConfiguration(s, e)
    BY <1>5 DEF Reduce
  <2>2. PICK x : x = [available |-> TRUE, revision |-> e.revision, at |-> e.at]
    OBVIOUS
  <2>3. Reduce(s, e) = s \/ Reduce(s, e) = [s EXCEPT !.configuration = x]
    BY <2>1, <2>2, Zenon DEF ReduceConfiguration
  <2>4. Same(Reduce(s, e))
    <3> HIDE DEF Same
    <3> QED
      BY <1>1, <1>2, <2>3
  <2>5. Reduce(s, e).plot = s.plot
    BY <1>3, <2>3
  <2> QED
    BY <2>4, <2>5 DEF IsApp, KeepsBatch
<1>6. CASE e.type = "recording_state"
  <2>1. Reduce(s, e) = ReduceRecordingState(s, e)
    BY <1>6 DEF Reduce
  <2>2. PICK pathed : pathed = IF e.path # "" THEN [s EXCEPT !.partialPath = e.path] ELSE s
    OBVIOUS
  <2>3. PICK path : path = e.path
    OBVIOUS
  <2>4. pathed = s \/ pathed = [s EXCEPT !.partialPath = path]
    BY <2>2, <2>3
  <2>5. Same(pathed)
    <3> HIDE DEF Same
    <3> QED
      BY <1>1, <1>2, <2>4
  <2>6. \A x : Same([pathed EXCEPT !.recording = x])
    BY <2>5 DEF IsApp, Fields
  <2>7. \/ Reduce(s, e) = pathed
        \/ \E x : Reduce(s, e) = [pathed EXCEPT !.recording = x]
    BY <2>1, <2>2, Zenon DEF ReduceRecordingState
  <2>8. Same(Reduce(s, e))
    <3> HIDE DEF Same
    <3> QED
      BY <2>5, <2>6, <2>7
  <2>9. pathed.plot = s.plot
    BY <1>3, <2>4
  <2>10. \A x : [pathed EXCEPT !.recording = x].plot = pathed.plot
    BY <2>5 DEF Fields, IsApp
  <2>11. Reduce(s, e).plot = s.plot
    BY <2>7, <2>9, <2>10
  <2> QED
    BY <2>8, <2>11 DEF IsApp, KeepsBatch
<1> QED
  BY <1>4, <1>5, <1>6
-----------------------------------------------------------------------------
(* The live view: what the reducer does with what the controls show *)

\* A connection is over, or its backend: nothing is left of its session.
Gone(e) == Ends(e) \/ (e.type = "connection_state" /\ e.state = "disconnected")

\* A recording, of a stamp that is not later than a time.
Recorded(s, t) == /\ DOMAIN s.recording = DOMAIN EmptyRecording
                  /\ s.recording.at \in Nat /\ s.recording.at <= t

Looks(r, connection, paused, recording) ==
  /\ DOMAIN r = Fields
  /\ r.connection = connection /\ r.paused = paused /\ r.recording = recording

LEMMA SightIsForgotten ==
  ASSUME NEW s, DOMAIN s = Fields
  PROVE  /\ Looks(ClearSensorIdentity(s), s.connection, s.paused, s.recording)
         /\ Looks(ClearTransientMeasurement(s), s.connection, s.paused, s.recording)
         /\ Looks(ClearLiveSession(s), s.connection, FALSE, EmptyRecording)
         /\ Looks(ClearBackendSession(s), "disconnected", FALSE, EmptyRecording)
<1>1. PICK h, w, p, c, n : /\ h = [EmptyHealth EXCEPT !.state = s.health.state]
                           /\ w = EmptyWrench /\ p = EmptyPlot /\ c = EmptyConfiguration
                           /\ n = EmptyRecording
  OBVIOUS
<1>2. PICK a : a = ClearSensorIdentity(s)
  OBVIOUS
<1>3. a = [s EXCEPT !.health = h, !.wrench = w, !.plot = p, !.configuration = c,
                    !.errorSequence = 0]
  BY <1>1, <1>2, Zenon DEF ClearSensorIdentity
<1>4. Looks(a, s.connection, s.paused, s.recording)
  BY <1>3 DEF Looks, Fields
<1>5. PICK b : b = ClearTransientMeasurement(s)
  OBVIOUS
<1>6. b = [s EXCEPT !.wrench = w, !.plot = p]
  BY <1>1, <1>5, Zenon DEF ClearTransientMeasurement
<1>7. Looks(b, s.connection, s.paused, s.recording)
  BY <1>6 DEF Looks, Fields
<1>8. PICK l : l = ClearLiveSession(s)
  OBVIOUS
<1>9. l = [a EXCEPT !.paused = FALSE, !.health.state = "stopped", !.recording = n]
  BY <1>1, <1>2, <1>8, Zenon DEF ClearLiveSession
<1>10. Looks(l, s.connection, FALSE, n)
  BY <1>4, <1>9, ZenonT(60) DEF Looks, Fields
<1>11. PICK d : d = ClearBackendSession(s)
  OBVIOUS
<1>12. d = [l EXCEPT !.connection = "disconnected", !.generation = 0, !.connectionAt = 0]
  BY <1>8, <1>11, Zenon DEF ClearBackendSession
<1>13. Looks(d, "disconnected", FALSE, n)
  BY <1>10, <1>12 DEF Looks, Fields
<1> QED
  BY <1>1, <1>2, <1>4, <1>5, <1>7, <1>8, <1>10, <1>11, <1>13

\* What is shown of a connection that is over is that there is none.
LEMMA GoneIsSeen ==
  ASSUME NEW s, IsApp(s), NEW e, Gone(e), e.at \in Nat, e.at > s.backend.at,
         e.at > s.connectionAt,
         e.type = "connection_state" => e.gen \in Nat /\ e.gen >= s.generation
  PROVE  Looks(Reduce(s, e), "disconnected", FALSE, EmptyRecording)
<1>1. DOMAIN s = Fields
  BY DEF IsApp
<1>2. IsNewer(e.at, s.backend.at)
  BY DEF IsNewer
<1>3. CASE Ends(e)
  <2>1. PICK c : c = ClearBackendSession(s)
    OBVIOUS
  <2>2. Looks(c, "disconnected", FALSE, EmptyRecording)
    BY <1>1, <2>1, SightIsForgotten
  <2>3. PICK b : Reduce(s, e) = [c EXCEPT !.backend = b]
    <3>1. CASE e.type = "backend_disconnected"
      <4>1. Reduce(s, e) = ReduceDisconnected(s, e)
        BY <3>1 DEF Reduce
      <4> QED
        BY <1>2, <2>1, <4>1, Zenon DEF ReduceDisconnected
    <3>2. CASE e.type = "backend_state" /\ e.state # "running"
      <4>1. Reduce(s, e) = ReduceBackend(s, e)
        BY <3>2 DEF Reduce
      <4> QED
        BY <1>2, <2>1, <3>2, <4>1, Zenon DEF ReduceBackend
    <3> QED
      BY <1>3, <3>1, <3>2 DEF Ends
  <2> QED
    BY <2>2, <2>3 DEF Looks, Fields
<1>4. CASE ~Ends(e)
  <2>1. e.type = "connection_state" /\ e.state = "disconnected"
    BY <1>4 DEF Gone
  <2>2. Reduce(s, e) = ReduceConnection(s, e)
    BY <2>1 DEF Reduce
  <2>3. ~(e.gen < s.generation \/ (e.gen = s.generation /\ ~IsNewer(e.at, s.connectionAt)))
    BY <2>1 DEF IsNewer, IsApp
  <2>4. PICK scoped : scoped = IF e.gen > s.generation THEN ClearSensorIdentity(s)
                               ELSE IF e.state = "reconnecting" /\ s.connection # "reconnecting"
                               THEN ClearTransientMeasurement(s) ELSE s
    OBVIOUS
  <2>5. DOMAIN scoped = Fields
    BY <1>1, <2>4, SightIsForgotten DEF Looks
  <2>6. PICK next : next = [scoped EXCEPT !.connection = e.state, !.generation = e.gen,
                                          !.connectionAt = e.at, !.paused = e.paused,
                                          !.health.error = e.error]
    OBVIOUS
  <2>7. DOMAIN next = Fields /\ next.connection = e.state
    BY <2>5, <2>6, ZenonT(60) DEF Fields
  <2>8. Reduce(s, e) = ClearLiveSession(next)
    BY <2>1, <2>2, <2>3, <2>4, <2>6, Zenon DEF ReduceConnection
  <2> QED
    BY <2>1, <2>7, <2>8, SightIsForgotten
<1> QED
  BY <1>3, <1>4

\* The state of a connection that goes on is shown, and a backend that runs changes nothing.
LEMMA StateIsSeen ==
  ASSUME NEW s, IsApp(s), NEW e, ~Gone(e), e.at \in Nat, e.at > s.backend.at,
         e.at > s.connectionAt,
         e.type = "connection_state" => e.gen \in Nat /\ e.gen >= s.generation
  PROVE  /\ e.type = "backend_state" =>
              Looks(Reduce(s, e), s.connection, s.paused, s.recording)
         /\ e.type = "connection_state" =>
              Looks(Reduce(s, e), e.state, e.paused, s.recording)
<1>1. DOMAIN s = Fields /\ IsNewer(e.at, s.backend.at)
  BY DEF IsApp, IsNewer
<1>2. CASE e.type = "backend_state"
  <2>1. e.state = "running"
    BY <1>2 DEF Gone, Ends
  <2>2. Reduce(s, e) = ReduceBackend(s, e)
    BY <1>2 DEF Reduce
  <2>3. PICK b : Reduce(s, e) = [s EXCEPT !.backend = b]
    BY <1>1, <2>1, <2>2, Zenon DEF ReduceBackend
  <2>4. Looks(Reduce(s, e), s.connection, s.paused, s.recording)
    BY <1>1, <2>3 DEF Looks, Fields
  <2> QED
    BY <1>2, <2>4
<1>3. CASE e.type = "connection_state"
  <2>1. e.state # "disconnected"
    BY <1>3 DEF Gone
  <2>2. Reduce(s, e) = ReduceConnection(s, e)
    BY <1>3 DEF Reduce
  <2>3. ~(e.gen < s.generation \/ (e.gen = s.generation /\ ~IsNewer(e.at, s.connectionAt)))
    BY <1>3 DEF IsNewer, IsApp
  <2>4. PICK scoped : scoped = IF e.gen > s.generation THEN ClearSensorIdentity(s)
                               ELSE IF e.state = "reconnecting" /\ s.connection # "reconnecting"
                               THEN ClearTransientMeasurement(s) ELSE s
    OBVIOUS
  <2>5. Looks(scoped, s.connection, s.paused, s.recording)
    BY <1>1, <2>4, SightIsForgotten DEF Looks
  <2>6. PICK next : next = [scoped EXCEPT !.connection = e.state, !.generation = e.gen,
                                          !.connectionAt = e.at, !.paused = e.paused,
                                          !.health.error = e.error]
    OBVIOUS
  <2>7. Looks(next, e.state, e.paused, s.recording)
    BY <2>5, <2>6, ZenonT(60) DEF Looks, Fields
  <2>8. Reduce(s, e) = next
    BY <2>1, <2>2, <2>3, <2>4, <2>6, Zenon DEF ReduceConnection
  <2> QED
    BY <1>3, <2>7, <2>8
<1> QED
  BY <1>2, <1>3

\* A recording is shown while the sensor streams, its end always.
LEMMA RecordingIsSeen ==
  ASSUME NEW s, IsApp(s), NEW e, e.type = "recording_state", e.at \in Nat,
         DOMAIN s.recording = DOMAIN EmptyRecording, s.recording.at \in Nat,
         e.at > s.recording.at
  PROVE  \E r : /\ Looks(Reduce(s, e), s.connection, s.paused, r)
                /\ s.connection # "streaming" /\ e.state \notin Idle => r = s.recording
                /\ s.connection = "streaming" \/ e.state \in Idle =>
                     /\ DOMAIN r = DOMAIN EmptyRecording
                     /\ r.state = e.state /\ r.at = e.at
<1>1. DOMAIN s = Fields /\ IsNewer(e.at, s.recording.at)
  BY DEF IsApp, IsNewer
<1>2. PICK f : f = DOMAIN EmptyRecording
  OBVIOUS
<1>3. f = {"state", "path", "error", "startedAt", "elapsed", "at"}
  BY <1>2 DEF EmptyRecording
<1>4. PICK path : path = e.path
  OBVIOUS
<1>5. PICK base : base = IF e.path # "" THEN [s EXCEPT !.partialPath = e.path] ELSE s
  OBVIOUS
<1>6. base = s \/ base = [s EXCEPT !.partialPath = path]
  BY <1>4, <1>5
<1>7. Looks(base, s.connection, s.paused, s.recording)
  BY <1>1, <1>6 DEF Looks, Fields
<1>8. Reduce(s, e) = ReduceRecordingState(s, e)
  BY DEF Reduce
<1>9. CASE s.connection # "streaming" /\ e.state \notin Idle
  <2>1. Reduce(s, e) = base
    BY <1>5, <1>8, <1>9, Zenon DEF ReduceRecordingState
  <2> QED
    BY <1>7, <1>9, <2>1
<1>10. CASE ~(s.connection # "streaming" /\ e.state \notin Idle)
  <2>1. PICK old, begun : /\ old = s.recording
                          /\ begun = IF old.state \in Idle THEN e.at ELSE old.startedAt
    OBVIOUS
  <2>2. PICK r : r = IF e.state = "idle" THEN [EmptyRecording EXCEPT !.at = e.at]
                     ELSE [old EXCEPT !.state = e.state, !.path = e.path, !.error = e.error,
                                      !.at = e.at, !.startedAt = begun]
    OBVIOUS
  <2>3. Reduce(s, e) = [base EXCEPT !.recording = r]
    BY <1>1, <1>5, <1>8, <1>10, <2>1, <2>2, Zenon DEF ReduceRecordingState
  <2>4. DOMAIN r = f /\ r.state = e.state /\ r.at = e.at
    BY <1>2, <1>3, <2>1, <2>2 DEF EmptyRecording
  <2>5. Looks(Reduce(s, e), s.connection, s.paused, r)
    BY <1>7, <2>3 DEF Looks, Fields
  <2> QED
    BY <1>2, <1>10, <2>4, <2>5
<1> QED
  BY <1>9, <1>10
-----------------------------------------------------------------------------
(* The live view: its invariant *)

\* What is neither of the recording, the plot nor the configuration they leave.
LEMMA OthersAreKept ==
  ASSUME NEW s, IsApp(s), NEW e,
         e.type \in {"plot_batch", "configuration_changed", "recording_state"}
  PROVE  /\ IsApp(Reduce(s, e))
         /\ Reduce(s, e).backend = s.backend /\ Reduce(s, e).wrench = s.wrench
         /\ Reduce(s, e).errorSequence = s.errorSequence
         /\ Reduce(s, e).connection = s.connection
         /\ Reduce(s, e).generation = s.generation
         /\ Reduce(s, e).connectionAt = s.connectionAt
         /\ Reduce(s, e).preferences = s.preferences
<1>1. /\ IsApp(Reduce(s, e))
      /\ \A f \in {"backend", "wrench", "errorSequence", "connection", "generation",
                   "connectionAt", "preferences"} : Reduce(s, e)[f] = s[f]
  BY OthersAreReduced
<1>2. PICK r : /\ r = Reduce(s, e) /\ IsApp(r)
               /\ \A f \in {"backend", "wrench", "errorSequence", "connection", "generation",
                             "connectionAt", "preferences"} : r[f] = s[f]
  BY <1>1, Zenon
<1>3. /\ r.backend = s.backend /\ r.wrench = s.wrench /\ r.errorSequence = s.errorSequence
      /\ r.connection = s.connection /\ r.generation = s.generation
      /\ r.connectionAt = s.connectionAt /\ r.preferences = s.preferences
  BY <1>2
<1> QED
  BY <1>2, <1>3, Zenon

\* What an event that is on its way may be.
IsEvent(e) ==
  /\ e.type \in {"backend_disconnected", "backend_state", "connection_state", "recording_state",
                 "configuration_changed", "live_wrench", "plot_batch", "error"}
  /\ \A k \in e.cuts : IsScopeBoundary(e) /\ k \in {"scope", "stream", "plot", "sensor", "pause"}
  /\ "stream" \in e.cuts =>
       /\ "scope" \in e.cuts
       /\ Ends(e) \/ (e.type = "connection_state" /\
                        e.state \in {"connecting", "reconnecting", "disconnected"})
  /\ "sensor" \in e.cuts =>
       Ends(e) \/ (e.type = "connection_state" /\ e.state \in {"connecting", "disconnected"})
  /\ e.type = "connection_state" => e.gen \in Nat
  /\ e.type = "error" => e.sequence \in Nat \ {0}

\* The generation after an event, and what one may follow: none is of an earlier
\* connection of its backend, and the first of a connection is of none before.
GenerationAfter(generation, e) ==
  IF Ends(e) THEN 0 ELSE IF e.type = "connection_state" THEN e.gen ELSE generation
MayFollow(e, generation) ==
  e.type = "connection_state" =>
    e.gen >= generation /\ (e.state = "connecting" => e.gen > generation)

\* The generations as the events on their way will take them from what the renderer
\* knows to what the session is in.
Generations(gens) ==
  /\ gens \in [0..Len(mail) -> Nat]
  /\ gens[0] = app.generation /\ gens[Len(mail)] = peer.generation
  /\ \A k \in 1..Len(mail) : /\ gens[k] = GenerationAfter(gens[k - 1], mail[k])
                             /\ MayFollow(mail[k], gens[k - 1])

Causes == {"scope", "stream", "plot", "sensor", "pause", "error"}

\* The stamp of the last event that was taken.
Taken == clock - Len(mail)

MailIsRight ==
  /\ clock \in Nat /\ Taken \in Nat /\ \E S : mail \in Seq(S)
  /\ \A k \in 1..Len(mail) : mail[k].at = Taken + k /\ IsEvent(mail[k])
  /\ \E gens : Generations(gens)

PeerFields == {"backend", "link", "generation", "paused", "revision", "errors", "rejects",
               "recording"}
PeerIsRight ==
  /\ peer = [f \in DOMAIN peer |-> peer[f]] /\ DOMAIN peer = PeerFields
  /\ peer.generation \in Nat /\ peer.errors \in Nat /\ peer.rejects \in Nat
  /\ peer.backend # "running" => peer.generation = 0 /\ peer.link = "disconnected"

\* What is shown, and what waits for a frame, is not older than what has ended it.
TimesAreRight ==
  /\ past \in [Causes -> Nat] /\ \A k \in Causes : past[k] <= Taken
  /\ past["stream"] <= past["scope"]
  /\ IsApp(app) /\ app.backend.at <= Taken /\ app.connectionAt <= Taken
  /\ app.wrench.at # 0 => app.wrench.at > past["stream"]
  /\ app.connection = "reconnecting" => app.wrench.at = 0
  /\ past["error"] <= past["sensor"] => app.errorSequence = 0
  /\ frame => callback
  /\ sample \in Nat /\ (sample # 0 => callback /\ sample > past["scope"])

DisplayInvariant == MailIsRight /\ PeerIsRight /\ TimesAreRight

\* The other scenes measure nothing and have no errors.
CalmTypes == {"backend_disconnected", "backend_state", "connection_state", "recording_state",
              "reply"}
CalmMail(q) ==
  \E S : q \in Seq(S) /\ \A x \in S : "type" \in DOMAIN x /\ x.type \in CalmTypes
CalmApp(s) == s = [f \in DOMAIN s |-> s[f]] /\ DOMAIN s = Fields /\ s.wrench.at = 0
CalmInvariant == CalmApp(app) /\ sample = 0 /\ CalmMail(mail)

LiveInvariant == IF scene = "display" THEN DisplayInvariant ELSE CalmInvariant

\* A stamp is added to an event.
Carries(e) ==
  /\ {"type", "cuts"} \subseteq DOMAIN e /\ "at" \notin DOMAIN e
  /\ e.type \in {"backend_state", "connection_state"} => "state" \in DOMAIN e
  /\ e.type = "connection_state" => "gen" \in DOMAIN e
  /\ e.type = "error" => "sequence" \in DOMAIN e

LEMMA EventIsStamped ==
  ASSUME NEW e, Carries(e), NEW n
  PROVE  /\ At(n, e).at = n /\ At(n, e).type = e.type
         /\ IsEvent(e) => IsEvent(At(n, e))
         /\ \A g : /\ GenerationAfter(g, At(n, e)) = GenerationAfter(g, e)
                   /\ MayFollow(At(n, e), g) <=> MayFollow(e, g)
<1>1. PICK x : x = At(n, e)
  OBVIOUS
<1>2. x.at = n /\ \A f \in DOMAIN e : x[f] = e[f]
  BY <1>1 DEF At, Carries
<1>3. /\ x.type = e.type /\ x.cuts = e.cuts
      /\ e.type \in {"backend_state", "connection_state"} => x.state = e.state
      /\ e.type = "connection_state" => x.gen = e.gen
      /\ e.type = "error" => x.sequence = e.sequence
  BY <1>2 DEF Carries
<1>4. Ends(x) <=> Ends(e)
  BY <1>3 DEF Ends
<1>5. IsEvent(e) => IsEvent(x)
  BY <1>3, <1>4 DEF IsEvent, IsScopeBoundary
<1>6. \A g : GenerationAfter(g, x) = GenerationAfter(g, e)
  BY <1>3, <1>4 DEF GenerationAfter
<1>7. \A g : MayFollow(x, g) <=> MayFollow(e, g)
  BY <1>3 DEF MayFollow
<1> QED
  BY <1>1, <1>2, <1>3, <1>5, <1>6, <1>7

\* Events were sent, and none was taken.
Grows == Len(mail') >= Len(mail) /\ app' = app

\* Events are sent behind those that are on their way.
LEMMA EventsAreSent ==
  ASSUME DisplayInvariant, NEW es, Sends(es), Len(es) \in Nat, DOMAIN es = 1..Len(es), PeerIsRight',
         \A i \in 1..Len(es) : Carries(es[i]) /\ IsEvent(es[i]),
         NEW more \in [0..Len(es) -> Nat], more[0] = peer.generation,
         more[Len(es)] = peer'.generation,
         \A i \in 1..Len(es) : /\ more[i] = GenerationAfter(more[i - 1], es[i])
                               /\ MayFollow(es[i], more[i - 1])
  PROVE  DisplayInvariant' /\ Grows
<1>1. PICK added : added = [i \in DOMAIN es |-> At(clock + i, es[i])]
  OBVIOUS
<1>2. mail' = mail \o added /\ clock' = clock + Len(es) /\ UNCHANGED Renderer
  BY <1>1 DEF Sends
<1>3. \A i \in 1..Len(es) : /\ added[i].at = clock + i /\ IsEvent(added[i])
                            /\ \A g : /\ GenerationAfter(g, added[i]) = GenerationAfter(g, es[i])
                                      /\ MayFollow(added[i], g) <=> MayFollow(es[i], g)
  BY <1>1, EventIsStamped
<1>4. PICK S : mail \in Seq(S)
  BY DEF DisplayInvariant, MailIsRight
<1>5. PICK gens : Generations(gens)
  BY DEF DisplayInvariant, MailIsRight
<1>6. PICK m \in Nat : m = Len(mail)
  BY <1>4, LenProperties
<1>7. PICK n \in Nat : n = Len(es)
  OBVIOUS
<1>8. PICK U : U = S \union {added[i] : i \in 1..n}
  OBVIOUS
<1>9. mail \in Seq(U) /\ added \in Seq(U) /\ Len(added) = n
  <2>1. mail \in Seq(U)
    <3>1. \A i \in 1..Len(mail) : mail[i] \in U
      BY <1>4, <1>8, ElementOfSeq
    <3> QED
      BY <1>4, <3>1, SeqInside
  <2>2. added = [i \in 1..n |-> added[i]] /\ \A i \in 1..n : added[i] \in U
    BY <1>1, <1>7, <1>8
  <2>3. added \in Seq(U) /\ Len(added) = n
    BY <2>2
  <2> QED
    BY <2>1, <2>3
<1>10. /\ mail' \in Seq(U) /\ Len(mail') = m + n
       /\ \A k \in 1..(m + n) : mail'[k] = IF k <= m THEN mail[k] ELSE added[k - m]
  BY <1>2, <1>6, <1>9, ConcatProperties
<1>11. clock \in Nat /\ Taken \in Nat
  BY DEF DisplayInvariant, MailIsRight
<1>12. Taken = clock - m /\ Taken' = clock' - Len(mail')
  BY <1>6 DEF Taken
<1>13. PICK taken \in Nat : taken = Taken /\ clock = taken + m
  <2>1. clock = Taken + m
    BY <1>11, <1>12
  <2> QED
    BY <1>11, <2>1
<1>14. Taken' = taken /\ clock' \in Nat
  <2>1. clock' = clock + n /\ Len(mail') = m + n
    BY <1>2, <1>7, <1>10
  <2>2. clock' - Len(mail') = taken
    BY <1>13, <2>1
  <2> QED
    BY <1>13, <1>12, <2>1, <2>2
<1>15. ASSUME NEW k \in 1..(m + n) PROVE mail'[k].at = taken + k /\ IsEvent(mail'[k])
  <2>1. CASE k <= m
    <3>1. k \in 1..m
      BY <2>1
    <3> QED
      BY <1>6, <1>10, <1>13, <2>1, <3>1 DEF DisplayInvariant, MailIsRight
  <2>2. CASE ~(k <= m)
    <3>1. k - m \in 1..n /\ clock + (k - m) = taken + k
      BY <1>13, <2>2
    <3> QED
      BY <1>3, <1>7, <1>10, <2>2, <3>1
  <2> QED
    BY <2>1, <2>2
<1> DEFINE after == [k \in 0..(m + n) |-> IF k <= m THEN gens[k] ELSE more[k - m]]
<1>16. /\ \A k \in 0..m : gens[k] \in Nat
       /\ gens[0] = app.generation /\ gens[m] = peer.generation
       /\ \A k \in 1..m : gens[k] = GenerationAfter(gens[k - 1], mail[k])
                          /\ MayFollow(mail[k], gens[k - 1])
  BY <1>5, <1>6 DEF Generations
<1>17. /\ after \in [0..(m + n) -> Nat] /\ after[0] = app.generation
       /\ \A k \in 0..m : after[k] = gens[k]
       /\ \A i \in 0..n : after[m + i] = more[i]
  <2>1. \A k \in 0..(m + n) : ~(k <= m) => k - m \in 0..n
    OBVIOUS
  <2>2. \A k \in 0..(m + n) : after[k] \in Nat
    BY <1>7, <1>16, <2>1
  <2>3. \A k \in 0..m : after[k] = gens[k]
    OBVIOUS
  <2>4. \A i \in 0..n : after[m + i] = more[i]
    <3> SUFFICES ASSUME NEW i \in 0..n PROVE after[m + i] = more[i]
      OBVIOUS
    <3>1. CASE i = 0
      BY <1>16, <3>1
    <3>2. CASE i # 0
      <4>1. m + i \in 0..(m + n) /\ ~(m + i <= m) /\ (m + i) - m = i
        BY <3>2
      <4> QED
        BY <4>1
    <3> QED
      BY <3>1, <3>2
  <2> QED
    BY <1>16, <2>2, <2>3, <2>4
<1> HIDE DEF after
<1>18. ASSUME NEW k \in 1..(m + n)
       PROVE  after[k] = GenerationAfter(after[k - 1], mail'[k]) /\ MayFollow(mail'[k], after[k - 1])
  <2>1. CASE k <= m
    <3>1. k \in 1..m /\ k \in 0..m /\ k - 1 \in 0..m
      BY <2>1
    <3>2. after[k] = gens[k] /\ after[k - 1] = gens[k - 1] /\ mail'[k] = mail[k]
      BY <1>10, <1>17, <2>1, <3>1
    <3> QED
      BY <1>16, <3>1, <3>2
  <2>2. CASE ~(k <= m)
    <3>1. PICK i \in 1..n : i = k - m
      BY <2>2
    <3>2. m + i = k /\ m + (i - 1) = k - 1 /\ i - 1 \in 0..n /\ i \in 0..n
      BY <3>1
    <3>3. after[k] = more[i] /\ after[k - 1] = more[i - 1] /\ mail'[k] = added[i]
      BY <1>10, <1>17, <2>2, <3>1, <3>2
    <3>4. more[i] = GenerationAfter(more[i - 1], es[i]) /\ MayFollow(es[i], more[i - 1])
      BY <1>7
    <3> QED
      BY <1>3, <1>7, <3>3, <3>4
  <2> QED
    BY <2>1, <2>2
<1>19. Generations(after)'
  <2>1. after[m + n] = peer'.generation
    BY <1>7, <1>17
  <2>2. app' = app
    BY <1>2 DEF Renderer
  <2> QED
    BY <1>10, <1>17, <1>18, <2>1, <2>2 DEF Generations
<1>20. MailIsRight'
  BY <1>10, <1>13, <1>14, <1>15, <1>19 DEF MailIsRight
<1>21. TimesAreRight'
  BY <1>2, <1>13, <1>14 DEF Renderer, scheduler, DisplayInvariant, TimesAreRight
<1>22. Grows
  BY <1>2, <1>6, <1>10 DEF Grows, Renderer
<1> QED
  BY <1>20, <1>21, <1>22 DEF DisplayInvariant

LEMMA OneIsSent ==
  ASSUME DisplayInvariant, NEW e, Sends(<<e>>), PeerIsRight', Carries(e), IsEvent(e),
         MayFollow(e, peer.generation), peer'.generation = GenerationAfter(peer.generation, e)
  PROVE  DisplayInvariant' /\ Grows
<1>1. PICK es : es = <<e>>
  OBVIOUS
<1>2. Len(es) \in Nat /\ Len(es) = 1 /\ DOMAIN es = 1..Len(es) /\ es[1] = e
  BY <1>1
<1>3. PICK g \in Nat : g = peer.generation
  BY DEF DisplayInvariant, PeerIsRight
<1>4. PICK h \in Nat : h = peer'.generation
  BY DEF PeerIsRight
<1>5. PICK more : more = [k \in 0..1 |-> IF k = 0 THEN g ELSE h]
  OBVIOUS
<1>6. more \in [0..1 -> Nat] /\ more[0] = g /\ more[1] = h
  BY <1>5
<1>7. \A i \in 1..1 : i = 1 /\ i - 1 = 0
  OBVIOUS
<1>8. \A i \in 1..Len(es) : /\ Carries(es[i]) /\ IsEvent(es[i])
                            /\ more[i] = GenerationAfter(more[i - 1], es[i])
                            /\ MayFollow(es[i], more[i - 1])
  BY <1>2, <1>3, <1>4, <1>6, <1>7
<1>9. Sends(es)
  BY <1>1
<1> QED
  BY <1>2, <1>3, <1>4, <1>6, <1>8, <1>9, EventsAreSent

LEMMA TwoAreSent ==
  ASSUME DisplayInvariant, NEW d, NEW e, Sends(<<d, e>>), PeerIsRight',
         Carries(d), IsEvent(d), MayFollow(d, peer.generation),
         GenerationAfter(peer.generation, d) \in Nat,
         Carries(e), IsEvent(e), MayFollow(e, GenerationAfter(peer.generation, d)),
         peer'.generation = GenerationAfter(GenerationAfter(peer.generation, d), e)
  PROVE  DisplayInvariant' /\ Grows
<1>1. PICK es : es = <<d, e>>
  OBVIOUS
<1>2. Len(es) \in Nat /\ Len(es) = 2 /\ DOMAIN es = 1..Len(es) /\ es[1] = d /\ es[2] = e
  BY <1>1
<1>3. PICK g \in Nat : g = peer.generation
  BY DEF DisplayInvariant, PeerIsRight
<1>4. PICK h \in Nat : h = peer'.generation
  BY DEF PeerIsRight
<1>5. PICK f \in Nat : f = GenerationAfter(peer.generation, d)
  OBVIOUS
<1>6. PICK more : more = [k \in 0..2 |-> IF k = 0 THEN g ELSE IF k = 1 THEN f ELSE h]
  OBVIOUS
<1>7. more \in [0..2 -> Nat] /\ more[0] = g /\ more[1] = f /\ more[2] = h
  BY <1>6
<1>8. \A i \in 1..2 : (i = 1 /\ i - 1 = 0) \/ (i = 2 /\ i - 1 = 1)
  OBVIOUS
<1>9. ASSUME NEW i \in 1..Len(es)
      PROVE  /\ Carries(es[i]) /\ IsEvent(es[i])
             /\ more[i] = GenerationAfter(more[i - 1], es[i])
             /\ MayFollow(es[i], more[i - 1])
  <2>1. CASE i = 1
    <3>1. i - 1 = 0
      BY <2>1
    <3> QED
      BY <1>2, <1>3, <1>7, <1>5, <2>1, <3>1
  <2>2. CASE i = 2
    <3>1. i - 1 = 1
      BY <2>2
    <3> QED
      BY <1>2, <1>4, <1>7, <1>5, <2>2, <3>1
  <2> QED
    BY <1>2, <2>1, <2>2
<1>10. Sends(es)
  BY <1>1
<1> QED
  BY <1>2, <1>3, <1>4, <1>7, <1>9, <1>10, EventsAreSent

\* The events of the backend and of a link.
LEMMA BackendEventIsRight ==
  ASSUME NEW state
  PROVE  /\ Carries(BackendEvent(state)) /\ IsEvent(BackendEvent(state))
         /\ \A g : MayFollow(BackendEvent(state), g)
         /\ \A g : GenerationAfter(g, BackendEvent(state)) = IF state = "running" THEN g ELSE 0
<1>1. PICK e : e = BackendEvent(state)
  OBVIOUS
<1>2. /\ DOMAIN e = {"type", "state", "error", "cuts"}
      /\ e.type = "backend_state" /\ e.state = state
      /\ e.cuts = {"scope", "plot"} \union
                    IF state = "running" THEN {} ELSE {"stream", "sensor"}
  BY <1>1 DEF BackendEvent
<1>3. Carries(e)
  BY <1>2 DEF Carries
<1>4. Ends(e) <=> state # "running"
  BY <1>2 DEF Ends
<1>5. IsEvent(e)
  BY <1>2, <1>4 DEF IsEvent, IsScopeBoundary
<1>6. \A g : MayFollow(e, g)
  BY <1>2 DEF MayFollow
<1>7. \A g : GenerationAfter(g, e) = IF state = "running" THEN g ELSE 0
  BY <1>2, <1>4 DEF GenerationAfter
<1> QED
  BY <1>1, <1>3, <1>5, <1>6, <1>7

\* The state of a link, with what it ends.
IsLinkEvent(e, state, gen) ==
  /\ Carries(e) /\ IsEvent(e)
  /\ \A g \in Nat : MayFollow(e, g) <=> (gen >= g /\ (state = "connecting" => gen > g))
  /\ \A g : GenerationAfter(g, e) = gen

LEMMA LinkEventIsRight ==
  ASSUME NEW state, NEW gen \in Nat, NEW paused, NEW extra \in SUBSET {"pause"}
  PROVE  IsLinkEvent([LinkEvent(state, gen, paused) EXCEPT !.cuts = @ \union extra], state, gen)
<1>1. PICK cuts : /\ cuts = {"scope"}
                       \union (IF state \in {"connecting", "reconnecting", "disconnected"}
                               THEN {"stream"} ELSE {})
                       \union (IF state # "streaming" THEN {"plot"} ELSE {})
                       \union (IF state \in {"connecting", "disconnected"} THEN {"sensor"} ELSE {})
  OBVIOUS
<1>2. PICK x : x = LinkEvent(state, gen, paused)
  OBVIOUS
<1>3. x = [type |-> "connection_state", state |-> state, gen |-> gen,
           paused |-> paused, error |-> "", cuts |-> cuts]
  BY <1>1, <1>2, Zenon DEF LinkEvent
<1>4. PICK all : all = cuts \union extra
  OBVIOUS
<1>5. x.cuts \union extra = all
  BY <1>3, <1>4
<1>6. PICK e : e = [x EXCEPT !.cuts = @ \union extra]
  OBVIOUS
<1>7. e = [x EXCEPT !.cuts = all]
  BY <1>5, <1>6
<1>8. /\ DOMAIN e = {"type", "state", "gen", "paused", "error", "cuts"}
      /\ e.type = "connection_state" /\ e.state = state /\ e.gen = gen /\ e.cuts = all
  BY <1>3, <1>7
<1>9. Carries(e)
  BY <1>8 DEF Carries
<1>10. ~Ends(e)
  BY <1>8 DEF Ends
<1>11. /\ all \subseteq {"scope", "stream", "plot", "sensor", "pause"} /\ "scope" \in all
       /\ "stream" \in all => state \in {"connecting", "reconnecting", "disconnected"}
       /\ "sensor" \in all => state \in {"connecting", "disconnected"}
  BY <1>1, <1>4
<1>12. IsEvent(e)
  BY <1>8, <1>10, <1>11 DEF IsEvent, IsScopeBoundary
<1>13. \A g \in Nat : MayFollow(e, g) <=> (gen >= g /\ (state = "connecting" => gen > g))
  BY <1>8 DEF MayFollow
<1>14. \A g : GenerationAfter(g, e) = gen
  BY <1>8, <1>10 DEF GenerationAfter
<1> QED
  BY <1>2, <1>6, <1>9, <1>12, <1>13, <1>14 DEF IsLinkEvent

LEMMA PlainLinkEventIsRight ==
  ASSUME NEW state, NEW gen \in Nat, NEW paused
  PROVE  IsLinkEvent(LinkEvent(state, gen, paused), state, gen)
<1>1. PICK none \in SUBSET {"pause"} : none = {}
  OBVIOUS
<1>2. [LinkEvent(state, gen, paused) EXCEPT !.cuts = @ \union none] = LinkEvent(state, gen, paused)
  <2>1. PICK cuts : cuts = LinkEvent(state, gen, paused).cuts
    OBVIOUS
  <2>2. cuts \union none = cuts
    BY <1>1
  <2>3. PICK x : x = LinkEvent(state, gen, paused)
    OBVIOUS
  <2>4. x = [type |-> x.type, state |-> x.state, gen |-> x.gen,
             paused |-> x.paused, error |-> x.error, cuts |-> x.cuts]
    BY <2>3 DEF LinkEvent
  <2>5. [x EXCEPT !.cuts = cuts] = x
    BY <2>1, <2>3, <2>4
  <2> QED
    BY <2>1, <2>2, <2>3, <2>5
<1>3. IsLinkEvent([LinkEvent(state, gen, paused) EXCEPT !.cuts = @ \union none], state, gen)
  BY LinkEventIsRight
<1> QED
  BY <1>2, <1>3

\* What the backend and the session do.
LEMMA WorldIsRight ==
  ASSUME DisplayInvariant, World
  PROVE  DisplayInvariant' /\ Grows
<1>1. PeerIsRight
  BY DEF DisplayInvariant
<1>2. PICK g : g = peer.generation /\ g \in Nat
  BY <1>1 DEF PeerIsRight, PeerFields
<1>3. ASSUME NEW state, peer' = [NoLink EXCEPT !.backend = state]
      PROVE  PeerIsRight' /\ peer'.generation = 0
  <2>1. PICK x : x = NoLink
    OBVIOUS
  <2>2. x = [peer EXCEPT !.link = "disconnected", !.generation = 0, !.paused = FALSE,
                         !.revision = 0, !.errors = 0, !.rejects = 0, !.recording = "idle"]
    BY <2>1, Zenon DEF NoLink
  <2>3. /\ x = [f \in DOMAIN x |-> x[f]] /\ DOMAIN x = PeerFields
        /\ x.link = "disconnected" /\ x.generation = 0 /\ x.errors = 0 /\ x.rejects = 0
    BY <1>1, <2>2 DEF PeerIsRight, PeerFields
  <2>4. peer' = [x EXCEPT !.backend = state]
    BY <1>3, <2>1, Zenon
  <2> QED
    BY <2>3, <2>4 DEF PeerIsRight, PeerFields
<1>4. CASE BackendRuns
  <2>1. PeerIsRight' /\ peer'.generation = 0 /\ g = 0 /\ Sends(<<BackendEvent("running")>>)
    BY <1>1, <1>2, <1>3, <1>4 DEF BackendRuns, PeerIsRight, PeerFields
  <2> QED
    BY <1>2, <2>1, BackendEventIsRight, OneIsSent
<1>5. CASE BackendRetried
  <2>1. peer' = [peer EXCEPT !.backend = "starting"] /\ peer.backend = "failed"
        /\ Sends(<<BackendEvent("starting")>>)
    BY <1>5 DEF BackendRetried
  <2>2. PeerIsRight' /\ peer'.generation = 0
    BY <1>1, <2>1 DEF PeerIsRight, PeerFields
  <2> QED
    BY <2>1, <2>2, BackendEventIsRight, OneIsSent
<1>6. CASE \E next \in {"starting", "stopped", "failed"} : BackendEnds(next)
  <2>1. PICK next \in {"starting", "stopped", "failed"} : BackendEnds(next)
    BY <1>6
  <2>2. PICK d : d = [type |-> "backend_disconnected", restart |-> next = "starting",
                      cuts |-> {"scope", "stream", "plot", "sensor"}]
    OBVIOUS
  <2>3. PeerIsRight' /\ peer'.generation = 0 /\ Sends(<<d, BackendEvent(next)>>)
    BY <1>3, <2>1, <2>2 DEF BackendEnds
  <2>4. DOMAIN d = {"type", "restart", "cuts"} /\ d.type = "backend_disconnected"
        /\ d.cuts = {"scope", "stream", "plot", "sensor"}
    BY <2>2
  <2>5. Carries(d) /\ IsEvent(d) /\ MayFollow(d, peer.generation)
        /\ GenerationAfter(peer.generation, d) = 0
    BY <2>4 DEF Carries, IsEvent, IsScopeBoundary, Ends, MayFollow, GenerationAfter
  <2> QED
    BY <2>3, <2>5, BackendEventIsRight, TwoAreSent
<1>7. CASE \E link \in Connections : LinkChanges(link)
  <2>1. PICK link \in Connections : LinkChanges(link)
    BY <1>7
  <2>2. link # "connecting" /\ peer.backend = "running"
        /\ peer' = [peer EXCEPT !.link = link] /\ Sends(<<LinkEvent(link, g, peer.paused)>>)
    BY <1>2, <2>1 DEF LinkChanges, LinkSteps
  <2>3. PeerIsRight' /\ peer'.generation = g
    BY <1>1, <1>2, <2>2 DEF PeerIsRight, PeerFields
  <2>4. PICK e : e = LinkEvent(link, g, peer.paused)
    OBVIOUS
  <2>5. IsLinkEvent(e, link, g)
    BY <1>2, <2>4, PlainLinkEventIsRight
  <2>6. Carries(e) /\ IsEvent(e) /\ MayFollow(e, g) /\ GenerationAfter(g, e) = g
    BY <1>2, <2>2, <2>5 DEF IsLinkEvent
  <2> QED
    BY <1>2, <2>2, <2>3, <2>4, <2>6, OneIsSent
<1>8. CASE LinkBegins
  <2>1. peer.backend = "running" /\ Sends(<<LinkEvent("connecting", g + 1, FALSE)>>)
        /\ peer' = [peer EXCEPT !.link = "connecting", !.generation = g + 1, !.revision = 0]
    BY <1>2, <1>8 DEF LinkBegins
  <2>2. PICK n : n = g + 1
    OBVIOUS
  <2>3. n \in Nat /\ n > g
    BY <1>2, <2>2
  <2>4. peer' = [peer EXCEPT !.link = "connecting", !.generation = n, !.revision = 0]
    BY <2>1, <2>2
  <2>5. peer.backend = "running" /\ n \in Nat
    BY <2>1, <2>3
  <2>6. PeerIsRight' /\ peer'.generation = n
    BY <1>1, <2>4, <2>5 DEF PeerIsRight, PeerFields
  <2>7. PICK e : e = LinkEvent("connecting", n, FALSE)
    OBVIOUS
  <2>8. IsLinkEvent(e, "connecting", n)
    BY <2>7, <2>3, PlainLinkEventIsRight
  <2>9. Carries(e) /\ IsEvent(e) /\ MayFollow(e, g) /\ GenerationAfter(g, e) = n
    BY <1>2, <2>8, <2>3 DEF IsLinkEvent
  <2>10. Sends(<<e>>)
    BY <2>1, <2>7, <2>2
  <2> QED
    BY <1>2, <2>6, <2>9, <2>10, OneIsSent
<1>9. CASE LinkEnds
  <2>1. peer' = [peer EXCEPT !.link = "disconnected", !.paused = FALSE]
        /\ Sends(<<LinkEvent("disconnecting", g, FALSE), LinkEvent("disconnected", g, FALSE)>>)
    BY <1>2, <1>9 DEF LinkEnds
  <2>2. PeerIsRight' /\ peer'.generation = g
    BY <1>1, <1>2, <2>1 DEF PeerIsRight, PeerFields
  <2>3. PICK d, e : d = LinkEvent("disconnecting", g, FALSE) /\ e = LinkEvent("disconnected", g, FALSE)
    OBVIOUS
  <2>4. IsLinkEvent(d, "disconnecting", g)
    BY <1>2, <2>3, PlainLinkEventIsRight
  <2>5. IsLinkEvent(e, "disconnected", g)
    BY <1>2, <2>3, PlainLinkEventIsRight
  <2>6. Carries(d) /\ IsEvent(d) /\ MayFollow(d, g) /\ GenerationAfter(g, d) = g
    BY <1>2, <2>4 DEF IsLinkEvent
  <2>7. Carries(e) /\ IsEvent(e) /\ MayFollow(e, g) /\ GenerationAfter(g, e) = g
    BY <1>2, <2>5 DEF IsLinkEvent
  <2> QED
    BY <1>2, <2>1, <2>2, <2>3, <2>6, <2>7, TwoAreSent
<1>10. CASE PauseChanges
  <2>1. PICK extra \in SUBSET {"pause"} : extra = (IF peer.paused THEN {"pause"} ELSE {})
    OBVIOUS
  <2>2. PICK paused : paused = ~peer.paused
    OBVIOUS
  <2>3. PICK e : e = [LinkEvent("streaming", g, paused) EXCEPT !.cuts = @ \union extra]
    OBVIOUS
  <2>4. Sends(<<e>>) /\ peer' = [peer EXCEPT !.paused = ~@]
    BY <1>2, <1>10, <2>1, <2>2, <2>3, Zenon DEF PauseChanges
  <2>5. PeerIsRight' /\ peer'.generation = g
    BY <1>1, <1>2, <1>10, <2>4 DEF PeerIsRight, PeerFields
  <2>6. IsLinkEvent(e, "streaming", g)
    BY <1>2, <2>3, LinkEventIsRight
  <2>7. Carries(e) /\ IsEvent(e) /\ MayFollow(e, g) /\ GenerationAfter(g, e) = g
    BY <1>2, <2>6 DEF IsLinkEvent
  <2> QED
    BY <1>2, <2>4, <2>5, <2>7, OneIsSent
<1>11. CASE Configured
  <2>1. PICK e : e = [type |-> "configuration_changed", revision |-> peer.revision + 1,
                      cuts |-> {"scope"}]
    OBVIOUS
  <2>2. Sends(<<e>>) /\ peer' = [peer EXCEPT !.revision = @ + 1] /\ peer.link # "disconnected"
    BY <1>11, <2>1 DEF Configured
  <2>3. PICK n : n = peer.revision + 1
    OBVIOUS
  <2>4. peer' = [peer EXCEPT !.revision = n]
    BY <2>2, <2>3
  <2>5. PeerIsRight' /\ peer'.generation = g
    BY <1>1, <1>2, <2>4 DEF PeerIsRight, PeerFields
  <2>6. DOMAIN e = {"type", "revision", "cuts"} /\ e.type = "configuration_changed"
        /\ e.cuts = {"scope"}
    BY <2>1
  <2>7. Carries(e) /\ IsEvent(e) /\ MayFollow(e, g) /\ GenerationAfter(g, e) = g
    BY <2>6 DEF Carries, IsEvent, IsScopeBoundary, Ends, MayFollow, GenerationAfter
  <2> QED
    BY <1>2, <2>2, <2>5, <2>7, OneIsSent
<1>12. CASE \E type \in {"live_wrench", "plot_batch"} : Measured(type)
  <2>1. PICK type \in {"live_wrench", "plot_batch"} : Measured(type)
    BY <1>12
  <2>2. PICK e : e = [type |-> type, cuts |-> {}]
    OBVIOUS
  <2>3. Sends(<<e>>) /\ peer' = peer
    BY <2>1, <2>2 DEF Measured
  <2>4. DOMAIN e = {"type", "cuts"} /\ e.type = type /\ e.cuts = {}
    BY <2>2
  <2>5. Carries(e) /\ IsEvent(e) /\ MayFollow(e, g) /\ GenerationAfter(g, e) = g
    BY <2>4 DEF Carries, IsEvent, IsScopeBoundary, Ends, MayFollow, GenerationAfter
  <2>6. PeerIsRight' /\ peer'.generation = g
    BY <1>1, <1>2, <2>3 DEF PeerIsRight, PeerFields
  <2> QED
    BY <1>2, <2>3, <2>5, <2>6, OneIsSent
<1>13. CASE \E counter \in {"errors", "rejects"} : Complained(counter)
  <2>1. PICK counter \in {"errors", "rejects"} : Complained(counter)
    BY <1>13
  <2>2. PICK sequence : sequence = peer[counter] + 1
    OBVIOUS
  <2>3. PICK e : e = [type |-> "error", sequence |-> sequence, error |-> "failed",
                      operation |-> "recording", cuts |-> {}]
    OBVIOUS
  <2>4. /\ Sends(<<e>>) /\ peer' = [peer EXCEPT ![counter] = sequence]
        /\ peer.backend = "running"
    BY <2>1, <2>2, <2>3 DEF Complained
  <2>5. sequence \in Nat /\ sequence # 0
    BY <1>1, <2>2 DEF PeerIsRight
  <2>6. PeerIsRight' /\ peer'.generation = g
    BY <1>1, <1>2, <2>4, <2>5 DEF PeerIsRight, PeerFields
  <2>7. DOMAIN e = {"type", "sequence", "error", "operation", "cuts"} /\ e.type = "error"
        /\ e.cuts = {} /\ e.sequence = sequence
    BY <2>3
  <2>8. Carries(e) /\ IsEvent(e) /\ MayFollow(e, g) /\ GenerationAfter(g, e) = g
    BY <2>5, <2>7 DEF Carries, IsEvent, IsScopeBoundary, Ends, MayFollow, GenerationAfter
  <2> QED
    BY <1>2, <2>4, <2>6, <2>8, OneIsSent
<1> QED
  BY <1>4, <1>5, <1>6, <1>7, <1>8, <1>9, <1>10, <1>11, <1>12, <1>13 DEF World

\* What the reducer makes of an event that is newer than all it has had, a sample apart.
LEMMA EventIsReduced ==
  ASSUME NEW s, IsApp(s), NEW e, IsEvent(e), e.type # "live_wrench", e.at \in Nat,
         e.at > s.backend.at, e.at > s.connectionAt, MayFollow(e, s.generation),
         s.connection = "reconnecting" => s.wrench.at = 0
  PROVE  /\ IsApp(Reduce(s, e))
         /\ Reduce(s, e).backend.at <= e.at /\ Reduce(s, e).connectionAt <= e.at
         /\ Reduce(s, e).generation = GenerationAfter(s.generation, e)
         /\ Reduce(s, e).wrench.at \in {0, s.wrench.at}
         /\ "stream" \in e.cuts => Reduce(s, e).wrench.at = 0
         /\ Reduce(s, e).connection = "reconnecting" => Reduce(s, e).wrench.at = 0
         /\ "sensor" \in e.cuts => Reduce(s, e).errorSequence = 0
         /\ e.type # "error" => Reduce(s, e).errorSequence \in {0, s.errorSequence}
         /\ e.type = "error" /\ s.errorSequence = 0 => Reduce(s, e).errorSequence = e.sequence
<1>1. PICK r : r = Reduce(s, e)
  OBVIOUS
<1>2. /\ s.backend.at \in Nat /\ s.connectionAt \in Nat /\ s.generation \in Nat
      /\ s.wrench.at \in Nat /\ s.errorSequence \in Nat
  BY DEF IsApp
<1>3. CASE Ends(e)
  <2>1. /\ IsApp(r) /\ r.wrench.at = 0 /\ r.errorSequence = 0 /\ r.connection = "disconnected"
        /\ r.generation = 0 /\ r.connectionAt = 0 /\ r.backend.at = e.at
    BY <1>1, <1>3, EndIsReduced
  <2>2. GenerationAfter(s.generation, e) = 0 /\ e.type # "error"
    BY <1>3 DEF GenerationAfter, Ends
  <2> QED
    BY <1>1, <2>1, <2>2
<1>4. CASE e.type = "backend_state" /\ e.state = "running"
  <2>1. /\ IsApp(r) /\ r.backend.at = e.at
        /\ \A f \in {"wrench", "errorSequence", "connection", "generation", "connectionAt"} :
             r[f] = s[f]
    BY <1>1, <1>4, RunningIsReduced
  <2>2. ~Ends(e)
    BY <1>4 DEF Ends
  <2>3. GenerationAfter(s.generation, e) = s.generation /\ "stream" \notin e.cuts
        /\ "sensor" \notin e.cuts
    BY <1>4, <2>2 DEF GenerationAfter, IsEvent
  <2> QED
    BY <1>1, <1>2, <1>4, <2>1, <2>3
<1>5. CASE e.type = "connection_state"
  <2>1. e.gen \in Nat /\ e.gen >= s.generation /\ (e.state = "connecting" => e.gen > s.generation)
    BY <1>5 DEF IsEvent, MayFollow
  <2>2. /\ IsApp(r) /\ r.connection = e.state /\ r.generation = e.gen /\ r.connectionAt = e.at
        /\ r.backend = s.backend
        /\ r.wrench.at \in {0, s.wrench.at} /\ r.errorSequence \in {0, s.errorSequence}
        /\ (e.gen > s.generation \/ e.state = "disconnected") =>
             (r.wrench.at = 0 /\ r.errorSequence = 0)
        /\ (e.state = "reconnecting" /\ s.connection # "reconnecting") => r.wrench.at = 0
    BY <1>1, <1>5, <2>1, ConnectionIsReduced
  <2>3. ~Ends(e)
    BY <1>5 DEF Ends
  <2>4. GenerationAfter(s.generation, e) = e.gen
    BY <1>5, <2>3 DEF GenerationAfter
  <2>5. /\ "stream" \in e.cuts => e.state \in {"connecting", "reconnecting", "disconnected"}
        /\ "sensor" \in e.cuts => e.state \in {"connecting", "disconnected"}
    BY <2>3 DEF IsEvent
  <2>6. e.state = "reconnecting" => r.wrench.at = 0
    BY <1>2, <2>2
  <2> QED
    BY <1>1, <1>2, <1>5, <2>1, <2>2, <2>4, <2>5, <2>6
<1>6. CASE e.type = "error"
  <2>1. e.sequence \in Nat /\ e.sequence # 0
    BY <1>6 DEF IsEvent
  <2>2. /\ IsApp(r)
        /\ \A f \in {"backend", "wrench", "connection", "generation", "connectionAt"} : r[f] = s[f]
        /\ r.errorSequence = IF e.sequence <= s.errorSequence THEN s.errorSequence ELSE e.sequence
    BY <1>1, <1>6, <2>1, ErrorIsReduced
  <2>3. GenerationAfter(s.generation, e) = s.generation /\ e.cuts = {}
    BY <1>6 DEF GenerationAfter, Ends, IsEvent, IsScopeBoundary
  <2> QED
    BY <1>1, <1>2, <1>6, <2>1, <2>2, <2>3
<1>7. CASE e.type \in {"plot_batch", "configuration_changed", "recording_state"}
  <2>1. /\ IsApp(r)
        /\ \A f \in {"backend", "wrench", "errorSequence", "connection", "generation",
                     "connectionAt"} : r[f] = s[f]
    BY <1>1, <1>7, OthersAreKept
  <2>2. ~Ends(e)
    BY <1>7 DEF Ends
  <2>3. GenerationAfter(s.generation, e) = s.generation /\ "stream" \notin e.cuts
        /\ "sensor" \notin e.cuts
    BY <1>7, <2>2 DEF GenerationAfter, IsEvent
  <2> QED
    BY <1>1, <1>2, <1>7, <2>1, <2>3
<1> QED
  BY <1>3, <1>4, <1>5, <1>6, <1>7 DEF IsEvent, Ends

\* What is first in the mail, and what is left when it was taken.
LEMMA MailIsTaken ==
  ASSUME MailIsRight, mail # <<>>, mail' = Tail(mail), clock' = clock
  PROVE  /\ Taken \in Nat /\ Taken' = Taken + 1 /\ clock' \in Nat /\ \E S : mail' \in Seq(S)
         /\ Head(mail).at = Taken + 1 /\ IsEvent(Head(mail)) /\ Head(mail) = mail[1]
         /\ \A k \in 1..Len(mail') : mail'[k].at = Taken' + k /\ IsEvent(mail'[k])
<1>1. PICK S : mail \in Seq(S)
  BY DEF MailIsRight
<1>2. PICK m \in Nat : m = Len(mail)
  BY <1>1, LenProperties
<1>3. /\ m # 0 /\ mail' \in Seq(S) /\ Len(mail') = m - 1 /\ Head(mail) = mail[1]
      /\ \A k \in 1..(m - 1) : mail'[k] = mail[k + 1]
  BY <1>1, <1>2, HeadTailProperties, EmptySeq
<1>4. Taken = clock - m /\ Taken' = clock' - Len(mail') /\ clock \in Nat /\ Taken \in Nat
  BY <1>2 DEF Taken, MailIsRight
<1>5. PICK taken \in Nat : taken = Taken
  BY <1>4
<1>6. Taken' = taken + 1
  BY <1>3, <1>4, <1>5
<1>7. \A k \in 1..m : mail[k].at = taken + k /\ IsEvent(mail[k])
  BY <1>2, <1>5 DEF MailIsRight
<1>8. mail[1].at = taken + 1 /\ IsEvent(mail[1])
  BY <1>3, <1>7
<1>9. ASSUME NEW k \in 1..(m - 1)
      PROVE  mail'[k].at = (taken + 1) + k /\ IsEvent(mail'[k])
  <2>1. k + 1 \in 1..m /\ taken + (k + 1) = (taken + 1) + k
    OBVIOUS
  <2> QED
    BY <1>3, <1>7, <2>1
<1> QED
  BY <1>3, <1>4, <1>5, <1>6, <1>8, <1>9

\* The generations of what is left begin with the event that was taken.
LEMMA GenerationsAreTaken ==
  ASSUME MailIsRight, mail # <<>>, mail' = Tail(mail), peer' = peer,
         app'.generation = GenerationAfter(app.generation, mail[1])
  PROVE  MayFollow(mail[1], app.generation) /\ \E gens : Generations(gens)'
<1>1. PICK S : mail \in Seq(S)
  BY DEF MailIsRight
<1>2. PICK m \in Nat : m = Len(mail)
  BY <1>1, LenProperties
<1>3. /\ m # 0 /\ Len(mail') = m - 1 /\ \A k \in 1..(m - 1) : mail'[k] = mail[k + 1]
  BY <1>1, <1>2, HeadTailProperties, EmptySeq
<1>4. PICK gens : Generations(gens)
  BY DEF MailIsRight
<1>5. /\ \A k \in 0..m : gens[k] \in Nat
      /\ gens[0] = app.generation /\ gens[m] = peer.generation
      /\ \A k \in 1..m : /\ gens[k] = GenerationAfter(gens[k - 1], mail[k])
                         /\ MayFollow(mail[k], gens[k - 1])
  BY <1>2, <1>4 DEF Generations
<1>6. 1 \in 1..m /\ 1 - 1 = 0
  BY <1>3
<1>7. gens[1] = GenerationAfter(app.generation, mail[1]) /\ MayFollow(mail[1], app.generation)
  BY <1>5, <1>6
<1>8. PICK left : left = [k \in 0..(m - 1) |-> gens[k + 1]]
  OBVIOUS
<1>9. left \in [0..(m - 1) -> Nat] /\ \A k \in 0..(m - 1) : left[k] = gens[k + 1]
  BY <1>5, <1>8
<1>10. left[0] = app'.generation /\ left[m - 1] = peer'.generation
  <2>1. 0 \in 0..(m - 1) /\ m - 1 \in 0..(m - 1) /\ (m - 1) + 1 = m /\ 0 + 1 = 1
    BY <1>3
  <2> QED
    BY <1>5, <1>7, <1>9, <2>1
<1>11. ASSUME NEW k \in 1..(m - 1)
       PROVE  left[k] = GenerationAfter(left[k - 1], mail'[k]) /\ MayFollow(mail'[k], left[k - 1])
  <2>1. k + 1 \in 1..m /\ (k + 1) - 1 = k /\ k - 1 \in 0..(m - 1) /\ (k - 1) + 1 = k
        /\ k \in 0..(m - 1)
    OBVIOUS
  <2>2. left[k] = gens[k + 1] /\ left[k - 1] = gens[k] /\ mail'[k] = mail[k + 1]
    BY <1>3, <1>9, <2>1
  <2>3. gens[k + 1] = GenerationAfter(gens[k], mail[k + 1]) /\ MayFollow(mail[k + 1], gens[k])
    BY <1>5, <2>1
  <2> QED
    BY <2>2, <2>3
<1>12. Generations(left)'
  BY <1>3, <1>9, <1>10, <1>11 DEF Generations
<1> QED
  BY <1>7, <1>12

\* The next event is taken: it waits for a frame, or is dispatched.
LEMMA EventIsTaken ==
  ASSUME DisplayInvariant, TakeEvent
  PROVE  /\ DisplayInvariant' /\ mail # <<>> /\ app'.wrench.at \in {0, app.wrench.at}
         /\ mail[1].type = "error" /\ past["error"] <= past["sensor"] =>
              app'.errorSequence = mail[1].sequence
<1>1. PICK e : e = Head(mail)
  OBVIOUS
<1>2. /\ mail # <<>> /\ mail' = Tail(mail) /\ clock' = clock /\ peer' = peer
      /\ past' = [k \in DOMAIN past |-> IF k \in e.cuts \/ k = e.type THEN e.at ELSE past[k]]
  BY <1>1, Zenon DEF TakeEvent, world
<1>3. MailIsRight /\ PeerIsRight /\ TimesAreRight
  BY DEF DisplayInvariant
<1>4. /\ Taken \in Nat /\ Taken' = Taken + 1 /\ clock' \in Nat /\ \E S : mail' \in Seq(S)
      /\ e.at = Taken + 1 /\ IsEvent(e) /\ e = mail[1]
      /\ \A k \in 1..Len(mail') : mail'[k].at = Taken' + k /\ IsEvent(mail'[k])
  BY <1>1, <1>2, <1>3, MailIsTaken
<1>5. MayFollow(e, app.generation)
  <2>1. 1 \in 1..Len(mail) /\ 1 - 1 = 0
    BY <1>2, <1>3, LenProperties, EmptySeq DEF MailIsRight
  <2> QED
    BY <1>3, <1>4, <2>1 DEF MailIsRight, Generations
<1>6. PICK taken \in Nat : taken = Taken /\ Taken' = taken + 1 /\ e.at = taken + 1
  BY <1>4
<1>7. /\ past \in [Causes -> Nat] /\ \A k \in Causes : past[k] \in Nat /\ past[k] <= taken
      /\ past["stream"] <= past["scope"]
      /\ IsApp(app) /\ app.backend.at <= taken /\ app.connectionAt <= taken
      /\ app.wrench.at # 0 => app.wrench.at > past["stream"]
      /\ app.connection = "reconnecting" => app.wrench.at = 0
      /\ past["error"] <= past["sensor"] => app.errorSequence = 0
      /\ frame => callback
      /\ sample \in Nat /\ (sample # 0 => callback /\ sample > past["scope"])
  BY <1>3, <1>6 DEF TimesAreRight
<1>8. /\ past' \in [Causes -> Nat]
      /\ \A k \in Causes : past'[k] = IF k \in e.cuts \/ k = e.type THEN e.at ELSE past[k]
  BY <1>2, <1>6, <1>7
<1>9. \A k \in Causes : past'[k] <= taken + 1
  BY <1>6, <1>7, <1>8
<1>10. past'["stream"] <= past'["scope"]
  <2>1. "stream" \in e.cuts => "scope" \in e.cuts
    BY <1>4 DEF IsEvent
  <2>2. e.type \notin {"stream", "scope"}
    BY <1>4 DEF IsEvent
  <2>3. past["stream"] <= taken /\ past["stream"] \in Nat
    BY <1>7 DEF Causes
  <2> QED
    BY <1>6, <1>7, <1>8, <2>1, <2>2, <2>3 DEF Causes
<1>11. CASE e.type = "live_wrench"
  <2>1. sample' = e.at /\ frame' = TRUE /\ callback' = (callback \/ ~frame) /\ app' = app
    BY <1>1, <1>11, Zenon DEF TakeEvent
  <2>2. e.cuts = {}
    BY <1>4, <1>11 DEF IsEvent, IsScopeBoundary
  <2>3. \A k \in Causes : past'[k] = past[k]
    BY <1>8, <1>11, <2>2 DEF Causes
  <2>4. app'.generation = GenerationAfter(app.generation, mail[1])
    BY <1>4, <1>11, <2>1 DEF GenerationAfter, Ends
  <2>5. MailIsRight'
    BY <1>2, <1>3, <1>4, <2>4, GenerationsAreTaken DEF MailIsRight
  <2>6. callback'
    BY <1>7, <2>1
  <2>7. sample' > past'["scope"] /\ sample' \in Nat
    BY <1>6, <1>7, <2>1, <2>3 DEF Causes
  <2>8. /\ past'["stream"] = past["stream"] /\ past'["error"] = past["error"]
        /\ past'["sensor"] = past["sensor"]
    BY <2>3 DEF Causes
  <2>9. app.backend.at \in Nat /\ app.connectionAt \in Nat
    BY <1>7 DEF IsApp
  <2>10. app'.backend.at <= Taken' /\ app'.connectionAt <= Taken'
    BY <1>6, <1>7, <2>1, <2>9
  <2>11. \A k \in Causes : past'[k] <= Taken'
    BY <1>6, <1>9
  <2>12. /\ IsApp(app')
         /\ app'.wrench.at # 0 => app'.wrench.at > past'["stream"]
         /\ app'.connection = "reconnecting" => app'.wrench.at = 0
         /\ past'["error"] <= past'["sensor"] => app'.errorSequence = 0
    BY <1>7, <2>1, <2>8
  <2>13. TimesAreRight'
    BY <1>8, <1>10, <2>6, <2>7, <2>10, <2>11, <2>12 DEF TimesAreRight
  <2>14. PeerIsRight'
    BY <1>2, <1>3 DEF PeerIsRight
  <2>15. app'.wrench.at = app.wrench.at
    BY <2>1
  <2> QED
    BY <1>2, <1>4, <1>11, <2>5, <2>13, <2>14, <2>15 DEF DisplayInvariant
<1>12. CASE e.type # "live_wrench"
  <2>1. app' = Reduce(app, e)
    BY <1>1, <1>12, Zenon DEF TakeEvent, Dispatch
  <2>2. IF IsScopeBoundary(e) THEN sample' = 0 /\ frame' = FALSE /\ callback' = FALSE
        ELSE sample' = sample /\ frame' = frame /\ callback' = callback
    BY <1>1, <1>12 DEF TakeEvent, Revoke, scheduler
  <2>3. app.backend.at \in Nat /\ app.connectionAt \in Nat /\ app.wrench.at \in Nat
    BY <1>7 DEF IsApp
  <2>4. e.at \in Nat /\ e.at > app.backend.at /\ e.at > app.connectionAt
    BY <1>6, <1>7, <2>3
  <2>5. /\ IsApp(app')
        /\ app'.backend.at <= e.at /\ app'.connectionAt <= e.at
        /\ app'.generation = GenerationAfter(app.generation, e)
        /\ app'.wrench.at \in {0, app.wrench.at}
        /\ "stream" \in e.cuts => app'.wrench.at = 0
        /\ app'.connection = "reconnecting" => app'.wrench.at = 0
        /\ "sensor" \in e.cuts => app'.errorSequence = 0
        /\ e.type # "error" => app'.errorSequence \in {0, app.errorSequence}
        /\ (e.type = "error" /\ app.errorSequence = 0) => app'.errorSequence = e.sequence
    <3>1. /\ IsApp(app) /\ IsEvent(e) /\ e.type # "live_wrench" /\ e.at \in Nat
          /\ e.at > app.backend.at /\ e.at > app.connectionAt /\ MayFollow(e, app.generation)
          /\ app.connection = "reconnecting" => app.wrench.at = 0
      BY <1>4, <1>5, <1>7, <1>12, <2>4
    <3>2. /\ IsApp(Reduce(app, e))
          /\ Reduce(app, e).backend.at <= e.at /\ Reduce(app, e).connectionAt <= e.at
          /\ Reduce(app, e).generation = GenerationAfter(app.generation, e)
          /\ Reduce(app, e).wrench.at \in {0, app.wrench.at}
          /\ "stream" \in e.cuts => Reduce(app, e).wrench.at = 0
          /\ Reduce(app, e).connection = "reconnecting" => Reduce(app, e).wrench.at = 0
          /\ "sensor" \in e.cuts => Reduce(app, e).errorSequence = 0
          /\ e.type # "error" => Reduce(app, e).errorSequence \in {0, app.errorSequence}
          /\ e.type = "error" /\ app.errorSequence = 0 => Reduce(app, e).errorSequence = e.sequence
      BY <3>1, EventIsReduced, Zenon
    <3> QED
      BY <2>1, <3>2, Zenon
  <2>6. MailIsRight'
    BY <1>2, <1>3, <1>4, <2>5, GenerationsAreTaken DEF MailIsRight
  <2>7. e.type \notin Causes \ {"error"} /\ (e.type = "error" => e.cuts = {})
        /\ "error" \notin e.cuts
    BY <1>4 DEF IsEvent, IsScopeBoundary, Causes
  <2>8. app'.wrench.at # 0 => app'.wrench.at > past'["stream"]
    BY <1>7, <1>8, <2>5, <2>7 DEF Causes
  <2>9. past'["error"] <= past'["sensor"] => app'.errorSequence = 0
    <3>1. CASE e.type = "error"
      <4>1. past'["error"] = e.at /\ past'["sensor"] = past["sensor"]
            /\ past["sensor"] <= taken /\ past["sensor"] \in Nat
        BY <1>7, <1>8, <2>7, <3>1 DEF Causes
      <4> QED
        BY <1>6, <4>1
    <3>2. CASE "sensor" \in e.cuts
      BY <2>5, <3>2
    <3>3. CASE e.type # "error" /\ "sensor" \notin e.cuts
      <4>1. past'["error"] = past["error"] /\ past'["sensor"] = past["sensor"]
        BY <1>8, <2>7, <3>3 DEF Causes
      <4> QED
        BY <1>7, <2>5, <3>3, <4>1
    <3> QED
      BY <3>1, <3>2, <3>3
  <2>10. ~IsScopeBoundary(e) => past'["scope"] = past["scope"]
    <3>1. ~IsScopeBoundary(e) => e.cuts = {}
      BY <1>4 DEF IsEvent
    <3> QED
      BY <1>8, <2>7, <3>1 DEF Causes
  <2>11. sample' \in Nat /\ (sample' # 0 => callback' /\ sample' > past'["scope"])
         /\ (frame' => callback')
    BY <1>7, <2>2, <2>10
  <2>12. TimesAreRight'
    BY <1>6, <1>8, <1>9, <1>10, <2>5, <2>8, <2>9, <2>11 DEF TimesAreRight
  <2>13. PeerIsRight'
    BY <1>2, <1>3 DEF PeerIsRight
  <2>14. mail[1].type = "error" /\ past["error"] <= past["sensor"] =>
           app'.errorSequence = mail[1].sequence
    BY <1>4, <1>7, <2>5
  <2> QED
    BY <1>2, <2>5, <2>6, <2>12, <2>13, <2>14 DEF DisplayInvariant
<1> QED
  BY <1>11, <1>12

\* A frame shows the sample that waits, if one still does.
LEMMA FrameIsShown ==
  ASSUME DisplayInvariant, Frame
  PROVE  /\ DisplayInvariant' /\ mail' = mail
         /\ app'.wrench.at \notin {0, app.wrench.at} => app'.wrench.at > past["scope"]
<1>1. MailIsRight /\ PeerIsRight /\ TimesAreRight
  BY DEF DisplayInvariant
<1>2. callback' = FALSE /\ frame' = FALSE /\ sample' = 0 /\ peer' = peer /\ clock' = clock
      /\ mail' = mail /\ past' = past
  BY DEF Frame, world
<1>3. /\ IsApp(app) /\ IsApp(app')
      /\ app'.backend.at = app.backend.at /\ app'.connection = app.connection
      /\ app'.generation = app.generation /\ app'.connectionAt = app.connectionAt
      /\ app'.errorSequence = app.errorSequence
      /\ app'.wrench.at \in {app.wrench.at, sample}
      /\ app'.wrench.at # app.wrench.at =>
           sample # 0 /\ app.connection = "streaming" /\ app'.wrench.at = sample
  <2>1. IsApp(app)
    BY <1>1 DEF TimesAreRight
  <2>2. CASE sample = 0
    <3>1. app' = app
      BY <2>2 DEF Frame
    <3> QED
      BY <2>1, <3>1
  <2>3. CASE sample # 0
    <3>1. PICK e : e = [type |-> "live_wrench", at |-> sample]
      OBVIOUS
    <3>2. app' = Reduce(app, e)
      BY <2>3, <3>1 DEF Frame
    <3>3. e.type = "live_wrench" /\ e.at = sample /\ e.at \in Nat
      BY <1>1, <3>1 DEF TimesAreRight
    <3>4. /\ IsApp(app')
          /\ \A f \in {"backend", "errorSequence", "connection", "generation", "connectionAt"} :
               app'[f] = app[f]
          /\ app'.wrench.at \in {app.wrench.at, e.at}
          /\ app'.wrench.at # app.wrench.at => app.connection = "streaming"
      BY <2>1, <3>2, <3>3, SampleIsReduced
    <3> QED
      BY <2>1, <2>3, <3>3, <3>4
  <2> QED
    BY <2>2, <2>3
<1>4. Taken' = Taken
  BY <1>2 DEF Taken
<1>5. MailIsRight'
  <2>1. \A gens : Generations(gens) => Generations(gens)'
    BY <1>2, <1>3 DEF Generations
  <2> QED
    BY <1>1, <1>2, <1>4, <2>1 DEF MailIsRight
<1>6. /\ past["stream"] \in Nat /\ past["scope"] \in Nat /\ past["stream"] <= past["scope"]
      /\ sample \in Nat /\ app.wrench.at \in Nat
      /\ sample # 0 => sample > past["scope"]
      /\ app.wrench.at # 0 => app.wrench.at > past["stream"]
      /\ app.connection = "reconnecting" => app.wrench.at = 0
  BY <1>1 DEF TimesAreRight, IsApp, Causes
<1>7. app'.wrench.at # 0 => app'.wrench.at > past["stream"]
  BY <1>3, <1>6
<1>8. app'.connection = "reconnecting" => app'.wrench.at = 0
  BY <1>3, <1>6
<1>9. TimesAreRight'
  BY <1>1, <1>2, <1>3, <1>4, <1>7, <1>8 DEF TimesAreRight
<1>10. PeerIsRight'
  BY <1>1, <1>2 DEF PeerIsRight
<1> QED
  BY <1>2, <1>3, <1>5, <1>6, <1>9, <1>10 DEF DisplayInvariant

\* What the properties say of a step.
SampleIsCurrent == app'.wrench.at \notin {0, app.wrench.at} => app'.wrench.at > past["scope"]
ErrorIsShown ==
  \A i \in {1} \intersect DOMAIN mail :
    mail' = Tail(mail) /\ mail[i].type = "error" /\ past["error"] <= past["sensor"] =>
      app'.errorSequence = mail[i].sequence

\* A step of the display in which no event is taken and no sample shown.
LEMMA NothingIsTaken ==
  ASSUME DisplayInvariant, Grows
  PROVE  SampleIsCurrent /\ ErrorIsShown
<1>1. PICK S : mail \in Seq(S)
  BY DEF DisplayInvariant, MailIsRight
<1>2. PICK m \in Nat : m = Len(mail)
  BY <1>1, LenProperties
<1>3. SampleIsCurrent
  BY DEF Grows, SampleIsCurrent
<1>4. 1 \in DOMAIN mail => mail' # Tail(mail)
  <2> SUFFICES ASSUME 1 \in DOMAIN mail, mail' = Tail(mail) PROVE FALSE
    OBVIOUS
  <2>1. 1 \in 1..m
    BY <1>1, <1>2, LenProperties
  <2>2. mail # <<>>
    BY <1>2, <2>1, EmptySeq
  <2>3. Len(mail') = m - 1
    BY <1>1, <1>2, <2>2, HeadTailProperties
  <2> QED
    BY <1>2, <2>1, <2>3 DEF Grows
<1> QED
  BY <1>3, <1>4 DEF ErrorIsShown

\* Every step of the display keeps the invariant and does what the properties ask.
LEMMA DisplayStep ==
  ASSUME DisplayInvariant, LiveNext
  PROVE  DisplayInvariant' /\ SampleIsCurrent /\ ErrorIsShown
<1>1. CASE World
  BY <1>1, WorldIsRight, NothingIsTaken
<1>2. CASE TakeEvent
  <2>1. /\ DisplayInvariant' /\ app'.wrench.at \in {0, app.wrench.at}
        /\ mail[1].type = "error" /\ past["error"] <= past["sensor"] =>
             app'.errorSequence = mail[1].sequence
    BY <1>2, EventIsTaken
  <2> QED
    BY <2>1 DEF SampleIsCurrent, ErrorIsShown
<1>3. CASE Frame
  <2>1. /\ DisplayInvariant' /\ mail' = mail
        /\ app'.wrench.at \notin {0, app.wrench.at} => app'.wrench.at > past["scope"]
    BY <1>3, FrameIsShown
  <2>2. ErrorIsShown
    <3>1. PICK S : mail \in Seq(S)
      BY DEF DisplayInvariant, MailIsRight
    <3>2. PICK m \in Nat : m = Len(mail)
      BY <3>1, LenProperties
    <3>3. 1 \in DOMAIN mail => mail' # Tail(mail)
      <4> SUFFICES ASSUME 1 \in DOMAIN mail, mail' = Tail(mail) PROVE FALSE
        OBVIOUS
      <4>1. 1 \in 1..m
        BY <3>1, <3>2, LenProperties
      <4>2. mail # <<>>
        BY <3>2, <4>1, EmptySeq
      <4>3. Len(mail') = m - 1
        BY <3>1, <3>2, <4>2, HeadTailProperties
      <4> QED
        BY <2>1, <3>2, <4>1, <4>3
    <3> QED
      BY <3>3 DEF ErrorIsShown
  <2> QED
    BY <2>1, <2>2 DEF SampleIsCurrent
<1>4. CASE Render \/ Effects
  <2>1. UNCHANGED <<peer, clock, mail, app, sample, frame, callback, past>>
    BY <1>4 DEF Render, Effects, world, scheduler
  <2>2. Taken' = Taken /\ Grows
    BY <2>1 DEF Taken, Grows, DisplayInvariant, MailIsRight
  <2>3. DisplayInvariant'
    BY <2>1, <2>2 DEF DisplayInvariant, MailIsRight, PeerIsRight, TimesAreRight, Generations
  <2> QED
    BY <2>2, <2>3, NothingIsTaken
<1> QED
  BY <1>1, <1>2, <1>3, <1>4 DEF LiveNext

\* A state after events is the one after the first of them, and so on.
LEMMA ReducedEquation ==
  ASSUME NEW s, NEW q, Len(q) \in Nat
  PROVE  \E f : /\ f[0] = s
                /\ \A n \in Nat : n < Len(q) => f[n + 1] = Reduce(f[n], q[n + 1])
                /\ Reduced(s, q) = f[Len(q)]
<1> DEFINE Is(f, n) == f = [i \in 0..n |-> IF i = 0 THEN s ELSE Reduce(f[i - 1], q[i])]
           T == {n \in Nat : \E f : Is(f, n)}
<1>1. 0 \in T
  <2>1. Is([i \in 0..0 |-> s], 0)
    OBVIOUS
  <2> QED
    BY <2>1
<1>2. ASSUME NEW n \in Nat, n \in T PROVE n + 1 \in T
  <2>1. PICK f : Is(f, n)
    BY <1>2
  <2> DEFINE e == Reduce(f[n], q[n + 1])
             g == [i \in 0..(n + 1) |-> IF i = n + 1 THEN e ELSE f[i]]
  <2>2. ASSUME NEW i \in 0..(n + 1)
        PROVE  g[i] = IF i = 0 THEN s ELSE Reduce(g[i - 1], q[i])
    <3>1. CASE i = n + 1
      BY <3>1
    <3>2. CASE i \in 0..n
      <4>1. g[i] = f[i] /\ (i # 0 => g[i - 1] = f[i - 1])
        BY <3>2
      <4>2. f[i] = IF i = 0 THEN s ELSE Reduce(f[i - 1], q[i])
        BY <2>1, <3>2
      <4> QED
        BY <4>1, <4>2
    <3> QED
      BY <3>1, <3>2
  <2>3. Is(g, n + 1)
    BY <2>2
  <2>4. \E h : Is(h, n + 1)
    <3> HIDE DEF g, Is
    <3> QED
      BY <2>3
  <2> HIDE DEF Is
  <2> QED
    BY <2>4
<1>3. Len(q) \in T
  <2> HIDE DEF T
  <2> QED
    BY <1>1, <1>2, SetInduction
<1>4. PICK f : Is(f, Len(q))
  BY <1>3
<1> DEFINE g == CHOOSE h : Is(h, Len(q))
<1>5. Is(g, Len(q))
  BY <1>4
<1>6. Reduced(s, q) = g[Len(q)]
  BY DEF Reduced
<1> HIDE DEF g
<1>7. g[0] = s
  BY <1>5
<1>8. ASSUME NEW n \in Nat, n < Len(q) PROVE g[n + 1] = Reduce(g[n], q[n + 1])
  <2>1. n + 1 \in 0..Len(q) /\ n + 1 # 0 /\ (n + 1) - 1 = n
    BY <1>8
  <2> QED
    BY <1>5, <2>1
<1> QED
  BY <1>6, <1>7, <1>8

\* Of some stamps, 0 among them, the last.
LEMMA LastOfStamps ==
  ASSUME NEW n \in Nat, NEW S \in SUBSET (0..n), 0 \in S
  PROVE  Max(S) \in S /\ \A y \in S : Max(S) >= y
<1>1. PICK T : T = {n - x : x \in S}
  OBVIOUS
<1>2. T \subseteq Nat /\ T # {}
  BY <1>1
<1>3. PICK m : m = Min(T)
  OBVIOUS
<1>4. m \in T /\ \A y \in T : m <= y
  BY <1>2, <1>3, MinIsLeast
<1>5. PICK x \in S : m = n - x
  BY <1>1, <1>4
<1>6. \A y \in S : x >= y
  BY <1>1, <1>4, <1>5
<1> QED
  BY <1>5, <1>6 DEF Max

\* What the renderer begins with.
LEMMA FirstState ==
  ASSUME NEW prefs
  PROVE  /\ IsApp(InitialAppState(prefs))
         /\ InitialAppState(prefs).backend.at = 0 /\ InitialAppState(prefs).connectionAt = 0
         /\ InitialAppState(prefs).generation = 0 /\ InitialAppState(prefs).wrench.at = 0
         /\ InitialAppState(prefs).errorSequence = 0
         /\ InitialAppState(prefs).connection = "disconnected"
         /\ InitialAppState(prefs).plot = EmptyPlot /\ InitialAppState(prefs).preferences = prefs
         /\ InitialAppState(prefs).paused = FALSE
         /\ InitialAppState(prefs).recording = EmptyRecording
<1>1. PICK b : b = [state |-> "starting", restart |-> TRUE, error |-> "", at |-> 0]
  OBVIOUS
<1>2. IsBackend(b) /\ b.at = 0
  BY <1>1 DEF IsBackend
<1>3. PICK h, w, r, p, c : /\ h = EmptyHealth /\ w = EmptyWrench /\ r = EmptyRecording
                           /\ p = EmptyPlot /\ c = EmptyConfiguration
  OBVIOUS
<1>4. w = [at |-> w.at] /\ w.at = 0
  BY <1>3 DEF EmptyWrench
<1>5. PICK named : named = prefs.sensorHost
  OBVIOUS
<1>6. PICK s : s = InitialAppState(prefs)
  OBVIOUS
<1>7. s = [backend |-> b, connection |-> "disconnected", generation |-> 0, connectionAt |-> 0,
           paused |-> FALSE, sensorHost |-> named, health |-> h, wrench |-> w, recording |-> r,
           plot |-> p, configuration |-> c, preferences |-> prefs, partialPath |-> "",
           settingsError |-> FALSE, errorSequence |-> 0]
  BY <1>1, <1>3, <1>5, <1>6, Zenon DEF InitialAppState
<1>8. DOMAIN s = Fields
  BY <1>7 DEF Fields
<1>9. s = [f \in DOMAIN s |-> s[f]]
  BY <1>7
<1>10. /\ s.backend = b /\ s.wrench = w /\ s.generation = 0 /\ s.connectionAt = 0
       /\ s.errorSequence = 0 /\ s.connection = "disconnected"
       /\ s.plot = p /\ s.preferences = prefs /\ s.paused = FALSE /\ s.recording = r
  BY <1>7
<1>11. IsApp(s)
  BY <1>2, <1>4, <1>8, <1>9, <1>10 DEF IsApp
<1> QED
  BY <1>2, <1>3, <1>4, <1>6, <1>10, <1>11

\* The viewer as the operator finds it: what came before, and what it made of it.
Starts(prefs, events, s) ==
  /\ Len(events) \in Nat /\ DOMAIN events = 1..Len(events)
  /\ \A i \in 1..Len(events) : IsEvent(events[i])
  /\ IsApp(s) /\ s.backend.at <= Len(events) /\ s.connectionAt <= Len(events)
  /\ s.wrench.at = 0 /\ s.errorSequence = 0
  /\ s.plot = EmptyPlot /\ s.preferences = prefs
  /\ s.paused = FALSE /\ s.recording = EmptyRecording
  /\ s.generation = IF Len(events) < 3 THEN 0 ELSE 1
  /\ s.connection = IF Len(events) < 3 THEN "disconnected" ELSE "streaming"

LEMMA NothingCame ==
  ASSUME NEW prefs
  PROVE  Starts(prefs, <<>>, Reduced(InitialAppState(prefs), <<>>))
<1>1. PICK q : q = <<>>
  OBVIOUS
<1>2. Len(q) = 0 /\ DOMAIN q = 1..Len(q)
  BY <1>1
<1>3. PICK s : s = InitialAppState(prefs)
  OBVIOUS
<1>4. PICK f : f[0] = s /\ Reduced(s, q) = f[Len(q)]
  BY <1>2, ReducedEquation
<1>5. Reduced(s, q) = s
  BY <1>2, <1>4
<1>6. /\ IsApp(s) /\ s.backend.at = 0 /\ s.connectionAt = 0 /\ s.generation = 0
      /\ s.wrench.at = 0 /\ s.errorSequence = 0 /\ s.connection = "disconnected"
      /\ s.plot = EmptyPlot /\ s.preferences = prefs
      /\ s.paused = FALSE /\ s.recording = EmptyRecording
  BY <1>3, FirstState
<1>7. Starts(prefs, q, s)
  BY <1>2, <1>6 DEF Starts
<1> QED
  BY <1>1, <1>3, <1>5, <1>7

LEMMA BackendCame ==
  ASSUME NEW prefs
  PROVE  Starts(prefs, BackendUp, Reduced(InitialAppState(prefs), BackendUp))
<1>1. PICK q : q = BackendUp
  OBVIOUS
<1>2. PICK d : d = BackendEvent("running")
  OBVIOUS
<1>3. Carries(d) /\ IsEvent(d) /\ d.type = "backend_state" /\ d.state = "running"
      /\ DOMAIN d = {"type", "state", "error", "cuts"}
  BY <1>2, BackendEventIsRight DEF BackendEvent
<1>4. PICK e : e = At(1, d)
  OBVIOUS
<1>5. e.at = 1 /\ e.type = "backend_state" /\ IsEvent(e) /\ e.state = "running"
  <2>1. e.at = 1 /\ e.type = d.type /\ IsEvent(e)
    BY <1>3, <1>4, EventIsStamped
  <2>2. e.state = d.state
    BY <1>3, <1>4 DEF At
  <2> QED
    BY <1>3, <2>1, <2>2
<1>6. q = <<e>>
  BY <1>1, <1>2, <1>4, Zenon DEF BackendUp
<1>7. Len(q) = 1 /\ DOMAIN q = 1..Len(q) /\ q[1] = e
  BY <1>6
<1>8. PICK s : s = InitialAppState(prefs)
  OBVIOUS
<1>9. /\ IsApp(s) /\ s.backend.at = 0 /\ s.connectionAt = 0 /\ s.generation = 0
      /\ s.wrench.at = 0 /\ s.errorSequence = 0 /\ s.connection = "disconnected"
      /\ s.plot = EmptyPlot /\ s.preferences = prefs
      /\ s.paused = FALSE /\ s.recording = EmptyRecording
  BY <1>8, FirstState
<1>10. PICK f : /\ f[0] = s /\ \A n \in Nat : n < Len(q) => f[n + 1] = Reduce(f[n], q[n + 1])
                /\ Reduced(s, q) = f[Len(q)]
  BY <1>7, ReducedEquation
<1>11. f[1] = Reduce(s, e)
  <2>1. 0 \in Nat /\ 0 < Len(q) /\ 0 + 1 = 1
    BY <1>7
  <2>2. f[0 + 1] = Reduce(f[0], q[0 + 1])
    BY <1>10, <2>1
  <2> QED
    BY <1>7, <1>10, <2>1, <2>2
<1>12. PICK r : r = Reduce(s, e)
  OBVIOUS
<1>13. Reduced(s, q) = r
  BY <1>7, <1>10, <1>11, <1>12
<1>14. /\ IsApp(r) /\ r.backend.at = 1
       /\ \A g \in {"wrench", "errorSequence", "connection", "generation",
                    "connectionAt", "plot", "preferences"} : r[g] = s[g]
  BY <1>5, <1>9, <1>12, RunningIsReduced
<1>15. \A i \in 1..Len(q) : IsEvent(q[i])
  BY <1>5, <1>7
<1>16. r.paused = FALSE /\ r.recording = EmptyRecording
  <2>1. ~Gone(e)
    BY <1>5 DEF Gone, Ends
  <2>2. Looks(r, s.connection, s.paused, s.recording)
    BY <1>5, <1>9, <1>12, <2>1, StateIsSeen
  <2> QED
    BY <1>9, <2>2 DEF Looks
<1>17. Starts(prefs, q, r)
  BY <1>7, <1>9, <1>14, <1>15, <1>16 DEF Starts
<1> QED
  BY <1>1, <1>8, <1>13, <1>17

LEMMA SensorCame ==
  ASSUME NEW prefs
  PROVE  Starts(prefs, SensorUp, Reduced(InitialAppState(prefs), SensorUp))
<1>1. PICK q : q = SensorUp
  OBVIOUS
<1>2. PICK d, c, t : /\ d = BackendEvent("running") /\ c = LinkEvent("connecting", 1, FALSE)
                     /\ t = LinkEvent("streaming", 1, FALSE)
  OBVIOUS
<1>3. Carries(d) /\ IsEvent(d) /\ d.type = "backend_state" /\ d.state = "running"
      /\ DOMAIN d = {"type", "state", "error", "cuts"}
  BY <1>2, BackendEventIsRight DEF BackendEvent
<1>4. /\ Carries(c) /\ IsEvent(c) /\ c.type = "connection_state" /\ c.state = "connecting"
      /\ c.gen = 1 /\ c.paused = FALSE
      /\ DOMAIN c = {"type", "state", "gen", "paused", "error", "cuts"}
  <2>1. IsLinkEvent(c, "connecting", 1)
    BY <1>2, PlainLinkEventIsRight
  <2> QED
    BY <1>2, <2>1 DEF LinkEvent, IsLinkEvent
<1>5. /\ Carries(t) /\ IsEvent(t) /\ t.type = "connection_state" /\ t.state = "streaming"
      /\ t.gen = 1 /\ t.paused = FALSE
      /\ DOMAIN t = {"type", "state", "gen", "paused", "error", "cuts"}
  <2>1. IsLinkEvent(t, "streaming", 1)
    BY <1>2, PlainLinkEventIsRight
  <2> QED
    BY <1>2, <2>1 DEF LinkEvent, IsLinkEvent
<1>6. PICK e1, e2, e3 : e1 = At(1, d) /\ e2 = At(2, c) /\ e3 = At(3, t)
  OBVIOUS
<1>7. e1.at = 1 /\ e1.type = "backend_state" /\ IsEvent(e1) /\ e1.state = "running"
  <2>1. e1.at = 1 /\ e1.type = d.type /\ IsEvent(e1)
    BY <1>3, <1>6, EventIsStamped
  <2>2. e1.state = d.state
    BY <1>3, <1>6 DEF At
  <2> QED
    BY <1>3, <2>1, <2>2
<1>8. /\ e2.at = 2 /\ e2.type = "connection_state" /\ IsEvent(e2) /\ e2.state = "connecting"
      /\ e2.gen = 1 /\ e2.paused = FALSE
  <2>1. e2.at = 2 /\ e2.type = c.type /\ IsEvent(e2)
    BY <1>4, <1>6, EventIsStamped
  <2>2. e2.state = c.state /\ e2.gen = c.gen /\ e2.paused = c.paused
    BY <1>4, <1>6 DEF At
  <2> QED
    BY <1>4, <2>1, <2>2
<1>9. /\ e3.at = 3 /\ e3.type = "connection_state" /\ IsEvent(e3) /\ e3.state = "streaming"
      /\ e3.gen = 1 /\ e3.paused = FALSE
  <2>1. e3.at = 3 /\ e3.type = t.type /\ IsEvent(e3)
    BY <1>5, <1>6, EventIsStamped
  <2>2. e3.state = t.state /\ e3.gen = t.gen /\ e3.paused = t.paused
    BY <1>5, <1>6 DEF At
  <2> QED
    BY <1>5, <2>1, <2>2
<1>10. q = <<e1, e2, e3>>
  BY <1>1, <1>2, <1>6, Zenon DEF SensorUp
<1>11. Len(q) = 3 /\ DOMAIN q = 1..Len(q) /\ q[1] = e1 /\ q[2] = e2 /\ q[3] = e3
  BY <1>10
<1>12. PICK s : s = InitialAppState(prefs)
  OBVIOUS
<1>13. /\ IsApp(s) /\ s.backend.at = 0 /\ s.connectionAt = 0 /\ s.generation = 0
       /\ s.wrench.at = 0 /\ s.errorSequence = 0 /\ s.connection = "disconnected"
       /\ s.plot = EmptyPlot /\ s.preferences = prefs
       /\ s.paused = FALSE /\ s.recording = EmptyRecording
  BY <1>12, FirstState
<1>14. PICK f : /\ f[0] = s /\ \A n \in Nat : n < Len(q) => f[n + 1] = Reduce(f[n], q[n + 1])
                /\ Reduced(s, q) = f[Len(q)]
  BY <1>11, ReducedEquation
<1>15. f[1] = Reduce(s, e1) /\ f[2] = Reduce(f[1], e2) /\ f[3] = Reduce(f[2], e3)
  <2>1. /\ 0 < Len(q) /\ 1 < Len(q) /\ 2 < Len(q)
        /\ 0 + 1 = 1 /\ 1 + 1 = 2 /\ 2 + 1 = 3
    BY <1>11
  <2>2. f[0 + 1] = Reduce(f[0], q[0 + 1])
    BY <1>14, <2>1
  <2>3. f[1 + 1] = Reduce(f[1], q[1 + 1])
    BY <1>14, <2>1
  <2>4. f[2 + 1] = Reduce(f[2], q[2 + 1])
    BY <1>14, <2>1
  <2> QED
    BY <1>11, <1>14, <2>1, <2>2, <2>3, <2>4
<1>16. PICK r1 : r1 = Reduce(s, e1)
  OBVIOUS
<1>17. /\ IsApp(r1) /\ r1.backend.at = 1
       /\ \A g \in {"wrench", "errorSequence", "connection", "generation",
                    "connectionAt", "plot", "preferences"} : r1[g] = s[g]
  BY <1>7, <1>13, <1>16, RunningIsReduced
<1>18. /\ r1.generation = 0 /\ r1.connectionAt = 0 /\ r1.wrench.at = 0 /\ r1.errorSequence = 0
       /\ r1.plot = EmptyPlot /\ r1.preferences = prefs
  BY <1>13, <1>17
<1>19. PICK r2 : r2 = Reduce(r1, e2)
  OBVIOUS
<1>20. /\ IsApp(r2) /\ r2.generation = 1 /\ r2.connectionAt = 2
       /\ r2.backend = r1.backend /\ r2.wrench.at = 0 /\ r2.errorSequence = 0
       /\ r2.plot = EmptyPlot /\ r2.preferences = prefs
  BY <1>8, <1>17, <1>18, <1>19, ConnectionIsReduced
<1>21. PICK r3 : r3 = Reduce(r2, e3)
  OBVIOUS
<1>22. /\ IsApp(r3) /\ r3.connection = "streaming" /\ r3.generation = 1 /\ r3.connectionAt = 3
       /\ r3.backend = r2.backend /\ r3.wrench.at = 0 /\ r3.errorSequence = 0
       /\ r3.plot = EmptyPlot /\ r3.preferences = prefs
  BY <1>9, <1>20, <1>21, ConnectionIsReduced
<1>23. Reduced(s, q) = r3
  BY <1>11, <1>14, <1>15, <1>16, <1>19, <1>21
<1>24. \A i \in 1..Len(q) : IsEvent(q[i])
  <2>1. \A i \in 1..3 : i = 1 \/ i = 2 \/ i = 3
    OBVIOUS
  <2> QED
    BY <1>7, <1>8, <1>9, <1>11, <2>1
<1>25. r3.backend.at = 1
  BY <1>17, <1>20, <1>22
<1>26. r3.paused = FALSE /\ r3.recording = EmptyRecording
  <2>1. ~Gone(e1) /\ ~Gone(e2) /\ ~Gone(e3)
    BY <1>7, <1>8, <1>9 DEF Gone, Ends
  <2>2. Looks(r1, s.connection, s.paused, s.recording)
    BY <1>7, <1>13, <1>16, <2>1, StateIsSeen
  <2>3. Looks(r2, e2.state, e2.paused, r1.recording)
    BY <1>8, <1>17, <1>18, <1>19, <2>1, StateIsSeen
  <2>4. Looks(r3, e3.state, e3.paused, r2.recording)
    <3>1. r2.backend.at = 1 /\ 3 > 1 /\ 3 > 2 /\ 1 >= 1 /\ 1 \in Nat /\ 3 \in Nat
      BY <1>17, <1>20
    <3> QED
      BY <1>9, <1>20, <1>21, <2>1, <3>1, StateIsSeen
  <2> QED
    BY <1>9, <1>13, <2>2, <2>3, <2>4 DEF Looks
<1>27. Starts(prefs, q, r3)
  BY <1>11, <1>22, <1>24, <1>25, <1>26 DEF Starts
<1> QED
  BY <1>1, <1>12, <1>23, <1>27

\* So the invariant holds at first.
LEMMA LiveStarts ==
  ASSUME NEW events \in {<<>>, BackendUp, SensorUp}, NEW prefs, LiveInit(prefs, events)
  PROVE  /\ DisplayInvariant /\ mail = <<>> /\ app.wrench.at = 0 /\ sample = 0
         /\ app.paused = FALSE /\ app.recording = EmptyRecording
         /\ app.connection = peer.link /\ peer.paused = FALSE /\ peer.recording = "idle"
<1>1. app = Reduced(InitialAppState(prefs), events)
  BY DEF LiveInit
<1>2. Starts(prefs, events, app)
  BY <1>1, NothingCame, BackendCame, SensorCame
<1>3. PICK n \in Nat : n = Len(events)
  BY <1>2 DEF Starts
<1>4. /\ clock = n /\ mail = <<>> /\ sample = 0 /\ frame = FALSE
      /\ peer = [backend |-> IF events = <<>> THEN "starting" ELSE "running",
                 link |-> IF n < 3 THEN "disconnected" ELSE "streaming",
                 generation |-> IF n < 3 THEN 0 ELSE 1,
                 paused |-> FALSE, revision |-> 0, errors |-> 0, rejects |-> 0,
                 recording |-> "idle"]
      /\ past = [k \in {"scope", "stream", "plot", "sensor", "pause", "error"} |->
                   Max({0} \union {i \in DOMAIN events : k \in events[i].cuts})]
  BY <1>3, Zenon DEF LiveInit
<1>5. Len(mail) = 0 /\ Taken = n /\ mail \in Seq({})
  BY <1>3, <1>4 DEF Taken
<1>6. /\ PeerIsRight /\ peer.generation = (IF n < 3 THEN 0 ELSE 1)
      /\ peer.link = (IF n < 3 THEN "disconnected" ELSE "streaming")
      /\ peer.paused = FALSE /\ peer.recording = "idle"
  <2>1. PICK b, l, g : /\ b = (IF events = <<>> THEN "starting" ELSE "running")
                       /\ l = (IF n < 3 THEN "disconnected" ELSE "streaming")
                       /\ g = (IF n < 3 THEN 0 ELSE 1)
    OBVIOUS
  <2>2. peer = [backend |-> b, link |-> l, generation |-> g, paused |-> FALSE, revision |-> 0,
                errors |-> 0, rejects |-> 0, recording |-> "idle"]
    BY <1>4, <2>1, Zenon
  <2>3. g \in Nat /\ (b # "running" => g = 0 /\ l = "disconnected")
    BY <1>3, <2>1
  <2>4. /\ DOMAIN peer = PeerFields /\ peer = [f \in DOMAIN peer |-> peer[f]]
        /\ peer.generation = g /\ peer.errors = 0 /\ peer.rejects = 0 /\ peer.backend = b
        /\ peer.link = l
        /\ peer.paused = FALSE /\ peer.recording = "idle"
    BY <2>2 DEF PeerFields
  <2> QED
    BY <2>1, <2>3, <2>4 DEF PeerIsRight
<1>7. MailIsRight
  <2>1. PICK gens : gens = [k \in 0..0 |-> app.generation]
    OBVIOUS
  <2>2. app.generation \in Nat /\ app.generation = peer.generation
    BY <1>2, <1>3, <1>6 DEF Starts, IsApp
  <2>3. Generations(gens)
    BY <1>5, <2>1, <2>2 DEF Generations
  <2> QED
    BY <1>3, <1>4, <1>5, <2>3 DEF MailIsRight
<1>8. ASSUME NEW k \in Causes
      PROVE  past[k] \in Nat /\ past[k] <= n
             /\ past[k] \in {0} \union {i \in 1..n : k \in events[i].cuts}
             /\ \A i \in 1..n : k \in events[i].cuts => i <= past[k]
  <2>1. PICK S : S = {0} \union {i \in 1..n : k \in events[i].cuts}
    OBVIOUS
  <2>2. S \in SUBSET (0..n) /\ 0 \in S
    BY <2>1
  <2>3. DOMAIN events = 1..n
    BY <1>2, <1>3 DEF Starts
  <2>4. past[k] = Max(S)
    BY <1>4, <2>1, <2>3 DEF Causes
  <2>5. past[k] \in S /\ \A y \in S : past[k] >= y
    BY <2>2, <2>4, LastOfStamps
  <2> QED
    BY <2>1, <2>2, <2>5
<1>9. past["stream"] <= past["scope"]
  <2>1. "stream" \in Causes /\ "scope" \in Causes
    BY DEF Causes
  <2>2. \A i \in 1..n : "stream" \in events[i].cuts => "scope" \in events[i].cuts
    BY <1>2, <1>3 DEF Starts, IsEvent
  <2>3. CASE past["stream"] = 0
    BY <1>8, <2>1, <2>3
  <2>4. CASE past["stream"] # 0
    <3>1. past["stream"] \in 1..n /\ "stream" \in events[past["stream"]].cuts
      BY <1>8, <2>1, <2>4
    <3> QED
      BY <1>8, <2>1, <2>2, <3>1
  <2> QED
    BY <2>3, <2>4
<1>10. past \in [Causes -> Nat] /\ \A k \in Causes : past[k] <= n
  <2>1. DOMAIN past = Causes /\ past = [k \in Causes |-> past[k]]
    BY <1>4 DEF Causes
  <2> QED
    BY <1>8, <2>1
<1>11. TimesAreRight
  BY <1>2, <1>3, <1>4, <1>5, <1>9, <1>10 DEF TimesAreRight, Starts
<1>12. app.connection = peer.link
  BY <1>2, <1>3, <1>6 DEF Starts
<1> QED
  BY <1>2, <1>4, <1>6, <1>7, <1>11, <1>12 DEF DisplayInvariant, Starts

\* The reducer measures nothing by itself.
LEMMA CalmIsReduced ==
  ASSUME NEW s, CalmApp(s), NEW e, e.type \in CalmTypes
  PROVE  CalmApp(Reduce(s, e))
<1>1. ASSUME NEW t, CalmApp(t), NEW f \in Fields \ {"wrench"}, NEW x
      PROVE  CalmApp([t EXCEPT ![f] = x])
  <2>1. PICK r : r = [t EXCEPT ![f] = x]
    OBVIOUS
  <2>2. r = [g \in DOMAIN r |-> r[g]] /\ DOMAIN r = DOMAIN t /\ r.wrench = t.wrench
    BY <1>1, <2>1 DEF CalmApp, Fields
  <2> QED
    BY <1>1, <2>1, <2>2 DEF CalmApp
<1>2. PICK w : w = EmptyWrench
  OBVIOUS
<1>3. w.at = 0
  BY <1>2 DEF EmptyWrench
<1>4. ASSUME NEW t, CalmApp(t) PROVE CalmApp(ClearSensorIdentity(t))
  <2>1. PICK h, p, c : /\ h = [EmptyHealth EXCEPT !.state = t.health.state]
                       /\ p = EmptyPlot /\ c = EmptyConfiguration
    OBVIOUS
  <2>2. PICK r : r = ClearSensorIdentity(t)
    OBVIOUS
  <2>3. r = [t EXCEPT !.health = h, !.wrench = w, !.plot = p, !.configuration = c,
                      !.errorSequence = 0]
    BY <1>2, <2>1, <2>2, Zenon DEF ClearSensorIdentity
  <2>4. r = [f \in DOMAIN r |-> r[f]] /\ DOMAIN r = DOMAIN t /\ r.wrench = w
    BY <1>4, <2>3 DEF CalmApp, Fields
  <2> QED
    BY <1>3, <1>4, <2>2, <2>4 DEF CalmApp
<1>5. ASSUME NEW t, CalmApp(t) PROVE CalmApp(ClearTransientMeasurement(t))
  <2>1. PICK p : p = EmptyPlot
    OBVIOUS
  <2>2. PICK r : r = ClearTransientMeasurement(t)
    OBVIOUS
  <2>3. r = [t EXCEPT !.wrench = w, !.plot = p]
    BY <1>2, <2>1, <2>2, Zenon DEF ClearTransientMeasurement
  <2>4. r = [f \in DOMAIN r |-> r[f]] /\ DOMAIN r = DOMAIN t /\ r.wrench = w
    BY <1>5, <2>3 DEF CalmApp, Fields
  <2> QED
    BY <1>3, <1>5, <2>2, <2>4 DEF CalmApp
<1>6. ASSUME NEW t, CalmApp(t) PROVE CalmApp(ClearLiveSession(t))
  <2>1. PICK c : c = ClearSensorIdentity(t)
    OBVIOUS
  <2>2. CalmApp(c)
    BY <1>4, <1>6, <2>1
  <2>3. PICK r : r = EmptyRecording
    OBVIOUS
  <2>4. PICK v : v = ClearLiveSession(t)
    OBVIOUS
  <2>5. v = [c EXCEPT !.paused = FALSE, !.health.state = "stopped", !.recording = r]
    BY <2>1, <2>3, <2>4, Zenon DEF ClearLiveSession
  <2>6. v = [f \in DOMAIN v |-> v[f]] /\ DOMAIN v = DOMAIN c /\ v.wrench = c.wrench
    BY <2>2, <2>5 DEF CalmApp, Fields
  <2> QED
    BY <2>2, <2>4, <2>6 DEF CalmApp
<1>7. ASSUME NEW t, CalmApp(t) PROVE CalmApp(ClearBackendSession(t))
  <2>1. PICK c : c = ClearLiveSession(t)
    OBVIOUS
  <2>2. CalmApp(c)
    BY <1>6, <1>7, <2>1
  <2>3. PICK r : r = ClearBackendSession(t)
    OBVIOUS
  <2>4. r = [c EXCEPT !.connection = "disconnected", !.generation = 0, !.connectionAt = 0]
    BY <2>1, <2>3, Zenon DEF ClearBackendSession
  <2>5. r = [f \in DOMAIN r |-> r[f]] /\ DOMAIN r = DOMAIN c /\ r.wrench = c.wrench
    BY <2>2, <2>4 DEF CalmApp, Fields
  <2> QED
    BY <2>2, <2>3, <2>5 DEF CalmApp
<1>8. "backend" \in Fields \ {"wrench"} /\ "recording" \in Fields \ {"wrench"}
      /\ "partialPath" \in Fields \ {"wrench"}
  BY DEF Fields
<1>9. CASE e.type = "backend_disconnected"
  <2>1. Reduce(s, e) = ReduceDisconnected(s, e)
    BY <1>9 DEF Reduce
  <2>2. PICK c : c = ClearBackendSession(s)
    OBVIOUS
  <2>3. Reduce(s, e) = s \/ \E b : Reduce(s, e) = [c EXCEPT !.backend = b]
    BY <2>1, <2>2, Zenon DEF ReduceDisconnected
  <2> QED
    BY <1>1, <1>7, <1>8, <2>2, <2>3
<1>10. CASE e.type = "backend_state"
  <2>1. Reduce(s, e) = ReduceBackend(s, e)
    BY <1>10 DEF Reduce
  <2>2. PICK c : c = ClearBackendSession(s)
    OBVIOUS
  <2>3. \/ Reduce(s, e) = s
        \/ \E b : Reduce(s, e) = [c EXCEPT !.backend = b] \/ Reduce(s, e) = [s EXCEPT !.backend = b]
    BY <2>1, <2>2, Zenon DEF ReduceBackend
  <2> QED
    BY <1>1, <1>7, <1>8, <2>2, <2>3
<1>11. CASE e.type = "connection_state"
  <2>1. Reduce(s, e) = ReduceConnection(s, e)
    BY <1>11 DEF Reduce
  <2>2. PICK scoped : scoped = IF e.gen > s.generation THEN ClearSensorIdentity(s)
                               ELSE IF e.state = "reconnecting" /\ s.connection # "reconnecting"
                               THEN ClearTransientMeasurement(s) ELSE s
    OBVIOUS
  <2>3. CalmApp(scoped)
    BY <1>4, <1>5, <2>2
  <2>4. PICK state, gen, at, paused, error :
          /\ state = e.state /\ gen = e.gen /\ at = e.at /\ paused = e.paused /\ error = e.error
    OBVIOUS
  <2>5. PICK next : next = [scoped EXCEPT !.connection = state, !.generation = gen,
                                          !.connectionAt = at, !.paused = paused,
                                          !.health.error = error]
    OBVIOUS
  <2>6. next = [f \in DOMAIN next |-> next[f]] /\ DOMAIN next = DOMAIN scoped
        /\ next.wrench = scoped.wrench
    BY <2>3, <2>5 DEF CalmApp, Fields
  <2>7. CalmApp(next)
    BY <2>3, <2>6 DEF CalmApp
  <2>8. Reduce(s, e) \in {s, next, ClearLiveSession(next)}
    BY <2>1, <2>2, <2>4, <2>5, Zenon DEF ReduceConnection
  <2> QED
    BY <1>6, <2>7, <2>8
<1>12. CASE e.type = "recording_state"
  <2>1. Reduce(s, e) = ReduceRecordingState(s, e)
    BY <1>12 DEF Reduce
  <2>2. PICK pathed : pathed = IF e.path # "" THEN [s EXCEPT !.partialPath = e.path] ELSE s
    OBVIOUS
  <2>3. CalmApp(pathed)
    BY <1>1, <1>8, <2>2
  <2>4. Reduce(s, e) = pathed \/ \E x : Reduce(s, e) = [pathed EXCEPT !.recording = x]
    BY <2>1, <2>2, Zenon DEF ReduceRecordingState
  <2> QED
    BY <1>1, <1>8, <2>3, <2>4
<1>13. CASE e.type = "reply"
  <2>1. Reduce(s, e) = s
    BY <1>13 DEF Reduce
  <2> QED
    BY <2>1
<1> QED
  BY <1>9, <1>10, <1>11, <1>12, <1>13 DEF CalmTypes
-----------------------------------------------------------------------------
(* What is on its way to the controls *)

LEMMA CalmNothing == CalmMail(<<>>)
<1>1. PICK S : S = {}
  OBVIOUS
<1>2. <<>> \in Seq(S)
  BY EmptySeq
<1>3. \A x \in S : "type" \in DOMAIN x /\ x.type \in CalmTypes
  BY <1>1
<1> QED
  BY <1>2, <1>3 DEF CalmMail

LEMMA CalmOne ==
  ASSUME NEW x, "type" \in DOMAIN x, x.type \in CalmTypes
  PROVE  CalmMail(<<x>>)
<1>1. PICK S : S = {x}
  OBVIOUS
<1>2. <<x>> \in Seq(S)
  BY <1>1
<1> QED
  BY <1>1, <1>2 DEF CalmMail

LEMMA CalmBoth ==
  ASSUME NEW p, NEW q, CalmMail(p), CalmMail(q)
  PROVE  CalmMail(p \o q)
<1>1. PICK S : p \in Seq(S) /\ \A x \in S : "type" \in DOMAIN x /\ x.type \in CalmTypes
  BY DEF CalmMail
<1>2. PICK T : q \in Seq(T) /\ \A x \in T : "type" \in DOMAIN x /\ x.type \in CalmTypes
  BY DEF CalmMail
<1>3. PICK U : U = S \union T
  OBVIOUS
<1>4. p \in Seq(U)
  <2>1. \A i \in 1..Len(p) : p[i] \in U
    BY <1>1, <1>3, ElementOfSeq
  <2> QED
    BY <1>1, <2>1, SeqInside
<1>5. q \in Seq(U)
  <2>1. \A i \in 1..Len(q) : q[i] \in U
    BY <1>2, <1>3, ElementOfSeq
  <2> QED
    BY <1>2, <2>1, SeqInside
<1>6. p \o q \in Seq(U)
  BY <1>4, <1>5, ConcatProperties
<1> QED
  BY <1>1, <1>2, <1>3, <1>6 DEF CalmMail

LEMMA CalmAppended ==
  ASSUME NEW q, CalmMail(q), NEW x, "type" \in DOMAIN x, x.type \in CalmTypes
  PROVE  CalmMail(Append(q, x))
<1>1. PICK S : q \in Seq(S) /\ \A y \in S : "type" \in DOMAIN y /\ y.type \in CalmTypes
  BY DEF CalmMail
<1>2. PICK U : U = S \union {x}
  OBVIOUS
<1>3. q \in Seq(U)
  <2>1. \A i \in 1..Len(q) : q[i] \in U
    BY <1>1, <1>2, ElementOfSeq
  <2> QED
    BY <1>1, <2>1, SeqInside
<1>4. Append(q, x) \in Seq(U)
  BY <1>2, <1>3, AppendProperties
<1> QED
  BY <1>1, <1>2, <1>4 DEF CalmMail

LEMMA CalmFirst ==
  ASSUME NEW q, CalmMail(q), q # <<>>
  PROVE  CalmMail(Tail(q)) /\ Head(q).type \in CalmTypes
<1>1. PICK S : q \in Seq(S) /\ \A y \in S : "type" \in DOMAIN y /\ y.type \in CalmTypes
  BY DEF CalmMail
<1>2. Tail(q) \in Seq(S) /\ Head(q) \in S
  BY <1>1, HeadTailProperties
<1> QED
  BY <1>1, <1>2 DEF CalmMail

LEMMA CalmStamped ==
  ASSUME NEW q, CalmMail(q)
  PROVE  CalmMail(Stamped(q))
<1>1. PICK S : q \in Seq(S) /\ \A y \in S : "type" \in DOMAIN y /\ y.type \in CalmTypes
  BY DEF CalmMail
<1>2. PICK n \in Nat : n = Len(q) /\ DOMAIN q = 1..n
  BY <1>1, LenProperties
<1>3. PICK r : r = [i \in 1..n |-> At(clock + i, q[i])]
  OBVIOUS
<1>4. Stamped(q) = r
  BY <1>2, <1>3 DEF Stamped
<1>5. PICK U : U = {r[i] : i \in 1..n}
  OBVIOUS
<1>6. r \in Seq(U)
  <2>1. r = [i \in 1..n |-> r[i]] /\ \A i \in 1..n : r[i] \in U
    BY <1>3, <1>5
  <2> QED
    BY <1>2, <2>1
<1>7. ASSUME NEW i \in 1..n
      PROVE  "type" \in DOMAIN r[i] /\ r[i].type \in CalmTypes
  <2>1. PICK y : y = q[i]
    OBVIOUS
  <2>2. "type" \in DOMAIN y /\ y.type \in CalmTypes
    <3>1. y \in S
      BY <1>1, <1>2, <2>1, ElementOfSeq
    <3> QED
      BY <1>1, <3>1
  <2>3. PICK c : c = clock + i
    OBVIOUS
  <2>4. r[i] = At(c, y)
    BY <1>3, <2>1, <2>3
  <2>5. "type" \in DOMAIN At(c, y) /\ At(c, y).type = y.type
    BY <2>2 DEF At
  <2> QED
    BY <2>2, <2>4, <2>5
<1> QED
  BY <1>4, <1>5, <1>6, <1>7 DEF CalmMail

Calm(e) == "type" \in DOMAIN e /\ e.type \in CalmTypes

LEMMA CalmEvents ==
  /\ \A state : Calm(BackendEvent(state)) /\ Calm(RecordingEvent(state))
  /\ \A state, gen, paused : Calm(LinkEvent(state, gen, paused))
  /\ \A channel, result : Calm(Reply(channel, result))
<1>1. ASSUME NEW state PROVE Calm(BackendEvent(state))
  <2>1. PICK e : e = BackendEvent(state)
    OBVIOUS
  <2>2. DOMAIN e = {"type", "state", "error", "cuts"} /\ e.type = "backend_state"
    BY <2>1 DEF BackendEvent
  <2> QED
    BY <2>1, <2>2 DEF Calm, CalmTypes
<1>2. ASSUME NEW state PROVE Calm(RecordingEvent(state))
  <2>1. PICK e : e = RecordingEvent(state)
    OBVIOUS
  <2>2. DOMAIN e = {"type", "state", "path", "error", "cuts"} /\ e.type = "recording_state"
    BY <2>1 DEF RecordingEvent
  <2> QED
    BY <2>1, <2>2 DEF Calm, CalmTypes
<1>3. ASSUME NEW state, NEW gen, NEW paused PROVE Calm(LinkEvent(state, gen, paused))
  <2>1. PICK e : e = LinkEvent(state, gen, paused)
    OBVIOUS
  <2>2. DOMAIN e = {"type", "state", "gen", "paused", "error", "cuts"}
        /\ e.type = "connection_state"
    BY <2>1 DEF LinkEvent
  <2> QED
    BY <2>1, <2>2 DEF Calm, CalmTypes
<1>4. ASSUME NEW channel, NEW result PROVE Calm(Reply(channel, result))
  <2>1. PICK e : e = Reply(channel, result)
    OBVIOUS
  <2>2. DOMAIN e = {"type", "channel", "callers", "result", "at"} /\ e.type = "reply"
    BY <2>1 DEF Reply
  <2> QED
    BY <2>1, <2>2 DEF Calm, CalmTypes
<1> QED
  BY <1>1, <1>2, <1>3, <1>4

\* A command is sent to the companion, or answered at once where none runs.
LEMMA CalmCommands ==
  ASSUME CalmMail(mail), NEW channel, NEW op, Commands(channel, op)
  PROVE  CalmMail(mail')
<1>1. CASE peer.backend = "running"
  BY <1>1 DEF Commands
<1>2. CASE ~(peer.backend = "running")
  <2>1. PICK e : e = [type |-> "reply", channel |-> channel, at |-> 0,
                      callers |-> op.callers, result |-> "thrown"]
    OBVIOUS
  <2>2. "type" \in DOMAIN e /\ e.type \in CalmTypes
    BY <2>1 DEF CalmTypes
  <2>3. mail' = Append(mail, e)
    BY <1>2, <2>1 DEF Commands
  <2> QED
    BY <2>2, <2>3, CalmAppended
<1> QED
  BY <1>1, <1>2

\* What the companion sends when it answers a command.
LEMMA CalmAnswers ==
  ASSUME NEW kind, NEW does \in Answers(kind)
  PROVE  CalmMail(does.events)
<1>1. ASSUME NEW next, NEW es, NEW results, NEW d \in Does(next, es, results)
      PROVE  d.events = es
  BY DEF Does
<1>2. CalmMail(<<>>)
  BY CalmNothing
<1>3. \A state : CalmMail(<<RecordingEvent(state)>>)
  <2> SUFFICES ASSUME NEW state PROVE CalmMail(<<RecordingEvent(state)>>)
    OBVIOUS
  <2> QED
    BY CalmEvents, CalmOne DEF Calm
<1>4. \A state, gen, paused : CalmMail(<<LinkEvent(state, gen, paused)>>)
  <2> SUFFICES ASSUME NEW state, NEW gen, NEW paused
               PROVE  CalmMail(<<LinkEvent(state, gen, paused)>>)
    OBVIOUS
  <2> QED
    BY CalmEvents, CalmOne DEF Calm
<1>5. ASSUME NEW results, does \in Does(peer, <<>>, results)
      PROVE  CalmMail(does.events)
  BY <1>1, <1>2, <1>5
<1>6. CASE does \in Disconnected
  <2>1. PICK p : p = (IF peer.recording = "idle" THEN <<>> ELSE <<RecordingEvent("idle")>>)
    OBVIOUS
  <2>2. PICK d, e : /\ d = <<LinkEvent("disconnecting", peer.generation, FALSE)>>
                    /\ e = <<LinkEvent("disconnected", peer.generation, FALSE)>>
    OBVIOUS
  <2>3. CalmMail(p) /\ CalmMail(d) /\ CalmMail(e)
    BY <1>2, <1>3, <1>4, <2>1, <2>2
  <2>4. CalmMail(d \o p)
    BY <2>3, CalmBoth
  <2>5. CalmMail((d \o p) \o e)
    BY <2>3, <2>4, CalmBoth
  <2>6. PICK next : next = [peer EXCEPT !.link = "disconnected", !.paused = FALSE,
                                        !.recording = "idle"]
    OBVIOUS
  <2>7. Disconnected = Does(next, (d \o p) \o e, {TRUE})
    BY <2>1, <2>2, <2>6, Zenon DEF Disconnected
  <2> QED
    BY <1>1, <1>6, <2>5, <2>7
<1>7. CASE \E flag : does \in Paused(flag)
  <2>1. PICK flag : does \in Paused(flag)
    BY <1>7
  <2>2. PICK q : q = <<LinkEvent("streaming", peer.generation, flag)>>
    OBVIOUS
  <2>3. Paused(flag) = Does([peer EXCEPT !.paused = flag], q, BOOLEAN)
    BY <2>2, Zenon DEF Paused
  <2> QED
    BY <1>1, <1>4, <2>1, <2>2, <2>3
<1>8. CASE does \in Connected
  <2>1. PICK gen : gen = peer.generation + 1
    OBVIOUS
  <2>2. PICK begun : begun = [peer EXCEPT !.link = "connecting", !.generation = gen]
    OBVIOUS
  <2>3. PICK c, x : c = LinkEvent("connecting", gen, FALSE) /\ x = LinkEvent("error", gen, FALSE)
    OBVIOUS
  <2>4. PICK q, r : q = <<c>> /\ r = <<c, x>>
    OBVIOUS
  <2>5. Connected = Does(begun, q, {TRUE}) \union Does([begun EXCEPT !.link = "error"], r, {FALSE})
    BY <2>1, <2>2, <2>3, <2>4, Zenon DEF Connected
  <2>6. CalmMail(q)
    BY <1>4, <2>3, <2>4
  <2>7. PICK S : S = {c, x}
    OBVIOUS
  <2>8. r \in Seq(S) /\ \A y \in S : "type" \in DOMAIN y /\ y.type \in CalmTypes
    <3>1. Calm(c) /\ Calm(x)
      BY <2>3, CalmEvents
    <3>2. \A y \in S : "type" \in DOMAIN y /\ y.type \in CalmTypes
      BY <2>7, <3>1 DEF Calm
    <3>3. r \in Seq(S)
      BY <2>4, <2>7
    <3> QED
      BY <3>2, <3>3
  <2>9. CalmMail(r)
    BY <2>8 DEF CalmMail
  <2> QED
    BY <1>1, <1>8, <2>5, <2>6, <2>9
<1>9. CASE \E next, state, results : does \in Does(next, <<RecordingEvent(state)>>, results)
  BY <1>1, <1>3, <1>9
<1>10. \/ \E results : does \in Does(peer, <<>>, results)
       \/ does \in Disconnected \/ (\E flag : does \in Paused(flag)) \/ does \in Connected
       \/ \E next, state, results : does \in Does(next, <<RecordingEvent(state)>>, results)
  <2>1. CASE kind = "connect"
    BY <2>1, Zenon DEF Answers
  <2>2. CASE kind = "disconnect"
    BY <2>2, Zenon DEF Answers
  <2>3. CASE kind \in {"pause", "resume"}
    BY <2>3 DEF Answers
  <2>4. CASE kind = "bias"
    BY <2>4 DEF Answers
  <2>5. CASE kind = "record"
    <3>1. PICK none, one : /\ none = Does(peer, <<>>, {FALSE})
                           /\ one = Does([peer EXCEPT !.recording = "recording"],
                                         <<RecordingEvent("recording")>>, {TRUE})
      OBVIOUS
    <3>2. Answers(kind) = IF /\ peer.link = "streaming" /\ ~peer.paused
                             /\ peer.recording = "idle"
                          THEN none \union one ELSE none
      BY <2>5, <3>1 DEF Answers
    <3>3. does \in none \/ does \in one
      BY <3>2
    <3> QED
      BY <3>1, <3>3, Zenon
  <2>6. CASE kind \notin {"connect", "disconnect", "pause", "resume", "bias", "record"}
    BY <2>6 DEF Answers
  <2> QED
    BY <2>1, <2>2, <2>3, <2>4, <2>5, <2>6
<1> QED
  BY <1>5, <1>6, <1>7, <1>8, <1>9, <1>10

\* Those who waited for the companion are told one after the other.
LEMMA LostAreListed ==
  ASSUME NEW unserved, unserved = SetToSeq({c \in Channels : ops[c].step \in {"sent", "done"}})
  PROVE  \E n \in Nat : /\ DOMAIN unserved = 1..n
                         /\ \A i \in 1..n : /\ unserved[i] \in Channels
                                             /\ ops[unserved[i]].step \in {"sent", "done"}
<1>1. IsFiniteSet(Channels)
  <2>1. PICK a1, a2, a3, a4, a5, a6 :
          /\ a1 = "connect" /\ a2 = "disconnect" /\ a3 = "set_paused" /\ a4 = "bias"
          /\ a5 = "record" /\ a6 = "stop"
    OBVIOUS
  <2>2. IsFiniteSet({} \union {a1})
    BY FS_EmptySet, FS_AddElement
  <2>3. IsFiniteSet(({} \union {a1}) \union {a2})
    BY <2>2, FS_AddElement
  <2>4. IsFiniteSet((({} \union {a1}) \union {a2}) \union {a3})
    BY <2>3, FS_AddElement
  <2>5. IsFiniteSet(((({} \union {a1}) \union {a2}) \union {a3}) \union {a4})
    BY <2>4, FS_AddElement
  <2>6. IsFiniteSet((((({} \union {a1}) \union {a2}) \union {a3}) \union {a4}) \union {a5})
    BY <2>5, FS_AddElement
  <2>7. IsFiniteSet(((((({} \union {a1}) \union {a2}) \union {a3}) \union {a4}) \union {a5}) \union {a6})
    BY <2>6, FS_AddElement
  <2>8. PICK all : all = ((((({} \union {a1}) \union {a2}) \union {a3}) \union {a4}) \union {a5}) \union {a6}
    OBVIOUS
  <2>9. \A c \in Channels : c \in {a1, a2, a3, a4, a5, a6}
    BY <2>1 DEF Channels, Channel, Kinds
  <2>10. Channels \in SUBSET all
    BY <2>8, <2>9
  <2> QED
    BY <2>7, <2>8, <2>10, FS_Subset
<1>2. PICK S : S = {c \in Channels : ops[c].step \in {"sent", "done"}}
  OBVIOUS
<1>3. IsFiniteSet(S)
  <2>1. S \in SUBSET Channels
    BY <1>2
  <2> QED
    BY <1>1, <2>1, FS_Subset
<1>4. Cardinality(S) \in Nat /\ \E f \in [1..Cardinality(S) -> S] : IsInjective(f)
  <2>1. Cardinality(S) \in Nat /\ ExistsBijection(1..Cardinality(S), S)
    BY <1>3, FS_CardinalityType
  <2>2. PICK f \in Bijection(1..Cardinality(S), S) : TRUE
    BY <2>1 DEF ExistsBijection
  <2>3. f \in [1..Cardinality(S) -> S] /\ \A a, b \in 1..Cardinality(S) : f[a] = f[b] => a = b
    BY <2>2 DEF Bijection, Injection, Surjection, IsInjective
  <2> QED
    BY <2>1, <2>3 DEF IsInjective
<1>5. unserved \in [1..Cardinality(S) -> S]
  BY <1>2, <1>4 DEF SetToSeq
<1>6. \A i \in 1..Cardinality(S) : unserved[i] \in S
  BY <1>5
<1> QED
  BY <1>2, <1>4, <1>5, <1>6

\* Nothing of the controls measures anything, or has errors.
LEMMA CalmStep ==
  ASSUME CalmInvariant, ControlsNext
  PROVE  CalmInvariant'
<1>1. CalmApp(app) /\ sample = 0 /\ CalmMail(mail)
  BY DEF CalmInvariant
<1>2. ASSUME NEW es, Sends(es), CalmMail(es) PROVE CalmInvariant'
  <2>1. mail' = mail \o Stamped(es) /\ app' = app /\ sample' = sample
    BY <1>2 DEF Sends, Stamped, Renderer, scheduler
  <2>2. CalmMail(mail')
    BY <1>1, <1>2, <2>1, CalmStamped, CalmBoth
  <2> QED
    BY <1>1, <2>1, <2>2 DEF CalmInvariant
<1>3. ASSUME app' = app, sample' = sample, CalmMail(mail') PROVE CalmInvariant'
  BY <1>1, <1>3 DEF CalmInvariant
<1>4. \A channel, does : CalmMail(Told(channel, does))
  <2> SUFFICES ASSUME NEW channel, NEW does PROVE CalmMail(Told(channel, does))
    OBVIOUS
  <2>1. PICK e : e = Reply(channel, Result(does))
    OBVIOUS
  <2>2. CalmMail(<<e>>)
    BY <2>1, CalmEvents, CalmOne DEF Calm
  <2>3. Told(channel, does) = <<>> \/ Told(channel, does) = <<e>>
    BY <2>1 DEF Told
  <2> QED
    BY <2>2, <2>3, CalmNothing
<1>5. CASE DialogAnswered
  <2>1. PICK channel \in {"bias", "record"} :
          /\ \/ Commands(channel, ops[channel])
             \/ \E result \in {"cancelled", "thrown"} : mail' = Append(mail, Reply(channel, result))
          /\ app' = app /\ sample' = sample
    BY <1>5 DEF DialogAnswered, resting, scheduler
  <2>2. CalmMail(mail')
    <3>1. CASE Commands(channel, ops[channel])
      BY <1>1, <3>1, CalmCommands
    <3>2. CASE \E result \in {"cancelled", "thrown"} : mail' = Append(mail, Reply(channel, result))
      BY <1>1, <3>2, CalmEvents, CalmAppended DEF Calm
    <3> QED
      BY <2>1, <3>1, <3>2
  <2> QED
    BY <1>3, <2>1, <2>2
<1>6. CASE HostStored
  <2>1. mail' = Append(mail, Reply("connect", "ok")) /\ app' = app /\ sample' = sample
    BY <1>6 DEF HostStored, resting, scheduler
  <2>2. CalmMail(mail')
    BY <1>1, <2>1, CalmEvents, CalmAppended DEF Calm
  <2> QED
    BY <1>3, <2>1, <2>2
<1>7. CASE Executes
  <2>1. app' = app /\ sample' = sample
    BY <1>7 DEF Executes, resting, scheduler
  <2>2. PICK channel, does :
          /\ does \in Answers(ops[channel].kind)
          /\ \/ mail' = mail \o Told(channel, does) \o Stamped(does.events)
             \/ mail' = mail \o Stamped(does.events)
    BY <1>7 DEF Executes
  <2>3. PICK told, stamped : told = Told(channel, does) /\ stamped = Stamped(does.events)
    OBVIOUS
  <2>4. CalmMail(told) /\ CalmMail(stamped)
    BY <1>4, <2>2, <2>3, CalmAnswers, CalmStamped
  <2>5. CalmMail(mail \o told) /\ CalmMail(mail \o stamped)
    BY <1>1, <2>4, CalmBoth
  <2>6. CalmMail((mail \o told) \o stamped)
    BY <2>4, <2>5, CalmBoth
  <2>7. CalmMail(mail')
    BY <2>2, <2>3, <2>5, <2>6
  <2> QED
    BY <1>3, <2>1, <2>7
<1>8. CASE Answered
  <2>1. PICK channel \in Channels :
          /\ mail' = mail \o Told(channel, [ok |-> ops[channel].result = "ok"])
          /\ app' = app /\ sample' = sample
    BY <1>8 DEF Answered, resting, scheduler
  <2>2. CalmMail(mail')
    BY <1>1, <1>4, <2>1, CalmBoth
  <2> QED
    BY <1>3, <2>1, <2>2
<1>9. CASE Unasked
  <2>1. CASE BackendRuns
    <3>1. Sends(<<BackendEvent("running")>>)
      BY <2>1 DEF BackendRuns
    <3>2. CalmMail(<<BackendEvent("running")>>)
      BY CalmEvents, CalmOne DEF Calm
    <3> QED
      BY <1>2, <3>1, <3>2
  <2>2. CASE RecordingFails
    <3>1. Sends(<<RecordingEvent("error")>>)
      BY <2>2 DEF RecordingFails
    <3>2. CalmMail(<<RecordingEvent("error")>>)
      BY CalmEvents, CalmOne DEF Calm
    <3> QED
      BY <1>2, <3>1, <3>2
  <2>3. CASE \E link \in Connections : LinkChanges(link)
    <3>1. PICK link \in Connections : Sends(<<LinkEvent(link, peer.generation, peer.paused)>>)
      BY <2>3 DEF LinkChanges
    <3>2. CalmMail(<<LinkEvent(link, peer.generation, peer.paused)>>)
      BY CalmEvents, CalmOne DEF Calm
    <3> QED
      BY <1>2, <3>1, <3>2
  <2> QED
    BY <1>9, <2>1, <2>2, <2>3 DEF Unasked
<1>10. CASE CompanionDies
  <2>1. PICK unserved : unserved = SetToSeq({c \in Channels : ops[c].step \in {"sent", "done"}})
    OBVIOUS
  <2>2. PICK d : d = [type |-> "backend_disconnected", restart |-> TRUE, cuts |-> {}]
    OBVIOUS
  <2>3. PICK ends : ends = <<d, BackendEvent("starting")>>
    OBVIOUS
  <2>4. PICK replies : replies = [i \in DOMAIN unserved |-> Reply(unserved[i], "thrown")]
    OBVIOUS
  <2>5. mail' = (mail \o Stamped(ends)) \o replies /\ app' = app /\ sample' = sample
    BY <1>10, <2>1, <2>2, <2>3, <2>4 DEF CompanionDies, resting, scheduler
  <2>6. CalmMail(ends)
    <3>1. PICK b : b = BackendEvent("starting")
      OBVIOUS
    <3>2. Calm(b)
      BY <3>1, CalmEvents
    <3>3. Calm(d)
      BY <2>2 DEF Calm, CalmTypes
    <3>4. PICK S : S = {d, b}
      OBVIOUS
    <3>5. ends \in Seq(S)
      BY <2>3, <3>1, <3>4
    <3>6. \A x \in S : "type" \in DOMAIN x /\ x.type \in CalmTypes
      BY <3>2, <3>3, <3>4 DEF Calm
    <3> QED
      BY <3>5, <3>6 DEF CalmMail
  <2>7. CalmMail(replies)
    <3>1. PICK n \in Nat : DOMAIN unserved = 1..n
      BY <2>1, LostAreListed
    <3>2. PICK S : S = {replies[i] : i \in 1..n}
      OBVIOUS
    <3>3. replies \in Seq(S)
      BY <2>4, <3>1, <3>2
    <3>4. \A i \in 1..n : Calm(replies[i])
      BY <2>4, <3>1, CalmEvents
    <3>5. \A x \in S : "type" \in DOMAIN x /\ x.type \in CalmTypes
      BY <3>2, <3>4 DEF Calm
    <3> QED
      BY <3>3, <3>5 DEF CalmMail
  <2>8. CalmMail(Stamped(ends))
    BY <2>6, CalmStamped
  <2>9. CalmMail(mail \o Stamped(ends))
    BY <1>1, <2>8, CalmBoth
  <2>10. CalmMail((mail \o Stamped(ends)) \o replies)
    BY <2>7, <2>9, CalmBoth
  <2> QED
    BY <1>3, <2>5, <2>10
<1>11. ASSUME NEW kind, Gives(kind) PROVE CalmInvariant'
  <2>1. app' = app /\ sample' = sample /\ Invoke(kind, calls')
    BY <1>11 DEF Gives, resting, scheduler
  <2>2. mail' = mail \/ \E op : Commands(Channel(kind), op)
    BY <2>1, Zenon DEF Invoke
  <2>3. CalmMail(mail')
    BY <1>1, <2>2, CalmCommands
  <2> QED
    BY <1>3, <2>1, <2>3
<1>12. CASE Click \/ MenuChosen
  <2>1. \E kind : Gives(kind)
    BY <1>12, Zenon DEF Click, MenuChosen
  <2> QED
    BY <1>11, <2>1
<1>13. CASE TakeMail
  <2>1. PICK e : e = Head(mail)
    OBVIOUS
  <2>2. mail # <<>> /\ mail' = Tail(mail) /\ sample' = sample /\ (app' = app \/ app' = Reduce(app, e))
    BY <1>13, <2>1 DEF TakeMail, resting, scheduler
  <2>3. CalmMail(mail') /\ e.type \in CalmTypes
    BY <1>1, <2>1, <2>2, CalmFirst
  <2>4. CalmApp(app')
    BY <1>1, <2>2, <2>3, CalmIsReduced
  <2> QED
    BY <1>1, <2>2, <2>3, <2>4 DEF CalmInvariant
<1>14. CASE RenderControls \/ ControlsEffects
  <2>1. UNCHANGED <<app, sample, mail>>
    BY <1>14 DEF RenderControls, ControlsEffects, resting, scheduler
  <2> QED
    BY <1>1, <1>3, <2>1
<1> QED
  BY <1>5, <1>6, <1>7, <1>8, <1>9, <1>10, <1>12, <1>13, <1>14 DEF ControlsNext
-----------------------------------------------------------------------------
LEMMA LiveInvariantInit ==
  ASSUME Init
  PROVE  LiveInvariant
<1>1. PICK events \in {<<>>, BackendUp, SensorUp} : LiveInit(Defaults, events)
  BY DEF Init
<1>2. DisplayInvariant /\ mail = <<>> /\ app.wrench.at = 0 /\ sample = 0
  BY <1>1, LiveStarts
<1>3. CalmInvariant
  BY <1>2, CalmNothing DEF CalmInvariant, CalmApp, DisplayInvariant, TimesAreRight, IsApp
<1> QED
  BY <1>2, <1>3 DEF LiveInvariant

\* Where nothing moves that the live view is made of, it stays as it is.
LEMMA LiveRests ==
  ASSUME UNCHANGED liveVars
  PROVE  /\ DisplayInvariant => DisplayInvariant'
         /\ CalmInvariant => CalmInvariant'
<1>1. UNCHANGED <<peer, clock, mail, app, sample, frame, callback, past>>
  BY DEF liveVars, world, scheduler
<1>2. Taken' = Taken
  BY <1>1 DEF Taken
<1>3. DisplayInvariant => DisplayInvariant'
  BY <1>1, <1>2 DEF DisplayInvariant, MailIsRight, PeerIsRight, TimesAreRight, Generations
<1>4. CalmInvariant => CalmInvariant'
  BY <1>1 DEF CalmInvariant
<1> QED
  BY <1>3, <1>4

LEMMA LiveInvariantStep ==
  ASSUME LiveInvariant, [Next]_vars
  PROVE  /\ LiveInvariant'
         /\ [app'.wrench.at \notin {0, app.wrench.at} => app'.wrench.at > past.scope]_liveVars
         /\ [\A i \in {1} \intersect DOMAIN mail :
               mail' = Tail(mail) /\ mail[i].type = "error" /\ past.error <= past.sensor
                 => app'.errorSequence = mail[i].sequence]_liveVars
<1>1. CASE Only("display") /\ LiveNext
  <2>1. scene = "display" /\ scene' = scene
    BY <1>1 DEF Only
  <2>2. DisplayInvariant' /\ SampleIsCurrent /\ ErrorIsShown
    BY <1>1, <2>1, DisplayStep DEF LiveInvariant
  <2> QED
    BY <2>1, <2>2 DEF LiveInvariant, SampleIsCurrent, ErrorIsShown
<1>2. CASE Only("controls") /\ ControlsNext
  <2>1. scene = "controls" /\ scene' = scene
    BY <1>2 DEF Only
  <2>2. CalmInvariant /\ CalmInvariant'
    BY <1>2, <2>1, CalmStep DEF LiveInvariant
  <2>3. app'.wrench.at = 0
    BY <2>2 DEF CalmInvariant, CalmApp
  <2>4. \A i \in {1} \intersect DOMAIN mail : mail[i].type # "error"
    <3>1. PICK S : mail \in Seq(S) /\ \A x \in S : "type" \in DOMAIN x /\ x.type \in CalmTypes
      BY <2>2 DEF CalmInvariant, CalmMail
    <3>2. \A i \in DOMAIN mail : mail[i] \in S
      BY <3>1, LenProperties, ElementOfSeq
    <3> QED
      BY <3>1, <3>2 DEF CalmTypes
  <2> QED
    BY <2>1, <2>2, <2>3, <2>4 DEF LiveInvariant
<1>3. ASSUME scene' = scene, UNCHANGED liveVars
      PROVE  /\ LiveInvariant'
             /\ [app'.wrench.at \notin {0, app.wrench.at} => app'.wrench.at > past.scope]_liveVars
             /\ [\A i \in {1} \intersect DOMAIN mail :
                   mail' = Tail(mail) /\ mail[i].type = "error" /\ past.error <= past.sensor
                     => app'.errorSequence = mail[i].sequence]_liveVars
  <2>1. LiveInvariant'
    BY <1>3, LiveRests DEF LiveInvariant
  <2> QED
    BY <1>3, <2>1
<1>4. CASE \E part \in Scenes \ {"display", "controls"} : Only(part)
  <2>1. scene' = scene /\ UNCHANGED liveVars
    BY <1>4 DEF Only
  <2> QED
    BY <1>3, <2>1
<1>5. CASE UNCHANGED vars
  <2>1. scene' = scene /\ UNCHANGED liveVars
    BY <1>5 DEF vars
  <2> QED
    BY <1>3, <2>1
<1> QED
  BY <1>1, <1>2, <1>4, <1>5, Zenon DEF Next, Scenes

\* No sample is shown that was measured before the last event that ended its stream, none is
\* newly shown that crossed a boundary, and what waits has a frame coming: for events in
\* any number, with any lag of the frames behind them.
THEOREM SamplesAreCurrent == Spec => WrenchIsCurrent
<1>1. LiveInvariant => (sample # 0 => callback)
  BY DEF LiveInvariant, DisplayInvariant, TimesAreRight, CalmInvariant
<1>2. LiveInvariant => (app.wrench.at # 0 => app.wrench.at > past.stream)
  BY DEF LiveInvariant, DisplayInvariant, TimesAreRight, CalmInvariant, CalmApp
<1>3. LiveInvariant /\ [Next]_vars => LiveInvariant'
  BY LiveInvariantStep
<1>4. LiveInvariant /\ [Next]_vars =>
        [app'.wrench.at \notin {0, app.wrench.at} => app'.wrench.at > past.scope]_liveVars
  BY LiveInvariantStep
<1> QED
  BY LiveInvariantInit, <1>1, <1>2, <1>3, <1>4, PTL DEF Spec, WrenchIsCurrent

\* The first error after a change of backend or of sensor is shown, of whichever numbering
\* it is and whatever numbers those before it had (app-state.ts:167, 543).
THEOREM NewErrorsAreShown == Spec => ErrorsOfANewSensorAreShown
<1>1. LiveInvariant /\ [Next]_vars => LiveInvariant'
  BY LiveInvariantStep
<1>2. LiveInvariant /\ [Next]_vars =>
        [\A i \in {1} \intersect DOMAIN mail :
           mail' = Tail(mail) /\ mail[i].type = "error" /\ past.error <= past.sensor
             => app'.errorSequence = mail[i].sequence]_liveVars
  BY LiveInvariantStep
<1> QED
  BY LiveInvariantInit, <1>1, <1>2, PTL DEF Spec, ErrorsOfANewSensorAreShown
-----------------------------------------------------------------------------
(* The plot: the times of its points *)

LEMMA TimesAre ==
  ASSUME NEW c
  PROVE  \A t : t \in Times(c) <=> \E a \in Axes : \E x \in ToSet(c.series[a]) : t = x.time
<1> DEFINE T(a) == {c.series[a][i].time : i \in DOMAIN c.series[a]}
<1>1. \A a : \A t : t \in T(a) <=> \E x \in ToSet(c.series[a]) : t = x.time
  BY DEF ToSet
<1>2. Times(c) = UNION {T(a) : a \in Axes}
  BY DEF Times
<1> HIDE DEF T
<1>3. \A t : t \in Times(c) <=> \E a \in Axes : t \in T(a)
  BY <1>2
<1> QED
  BY <1>1, <1>3

LEMMA NewChartIsEmpty ==
  ASSUME NEW w \in Nat
  PROVE  IsChart(NewChart(w)) /\ Times(NewChart(w)) = {}
<1>1. PICK c : c = NewChart(w)
  OBVIOUS
<1>2. IsChart(c) /\ \A a \in Axes : ToSet(c.series[a]) = {}
  BY <1>1, NewChartIsRight
<1>3. Times(c) = {}
  BY <1>2, TimesAre
<1> QED
  BY <1>1, <1>2, <1>3

LEMMA ClearedIsEmpty ==
  ASSUME NEW c, IsChart(c)
  PROVE  IsChart(Cleared(c)) /\ Times(Cleared(c)) = {}
<1>1. c.window \in Nat
  BY DEF IsChart
<1> QED
  BY <1>1, NewChartIsEmpty DEF Cleared

\* A batch brings no other time than its own.
LEMMA PointIsAppended ==
  ASSUME NEW c, IsChart(c), NEW at \in Nat
  PROVE  LET r == Appended(c, <<[axis |-> PlotAxis, time |-> at, value |-> 1]>>)
         IN IsChart(r) /\ Times(r) \subseteq Times(c) \union {at}
<1>1. PICK p : p = [axis |-> PlotAxis, time |-> at, value |-> 1]
  OBVIOUS
<1>2. p.time = at /\ p.value = 1
  BY <1>1
<1>3. PICK batch : batch = <<p>>
  OBVIOUS
<1>4. Len(batch) = 1 /\ DOMAIN batch = 1..1 /\ batch[1] = p
  BY <1>3
<1>5. IsBatch(batch)
  BY <1>2, <1>4 DEF IsBatch
<1>6. PICK r : r = Appended(c, batch)
  OBVIOUS
<1>7. /\ IsChart(r)
      /\ \A a \in Axes : \A x :
           x \in ToSet(r.series[a]) =>
             IsIn(x, ToSet(c.series[a]), a, batch, r.latest - c.window, Len(batch))
  BY <1>5, <1>6, AppendedIsRight
<1>8. ASSUME NEW a \in Axes, NEW x \in ToSet(r.series[a])
      PROVE  x \in ToSet(c.series[a]) \/ x.time = at
  <2>1. \/ x \in ToSet(c.series[a])
        \/ \E i \in 1..1 : x = Point(batch[i].time, batch[i].value)
    BY <1>4, <1>7 DEF IsIn
  <2>2. \A i \in 1..1 : i = 1
    OBVIOUS
  <2> QED
    BY <1>2, <1>4, <2>1, <2>2 DEF Point
<1>9. Times(r) \subseteq Times(c) \union {at}
  BY <1>8, TimesAre
<1> QED
  BY <1>1, <1>3, <1>6, <1>7, <1>9, Zenon
-----------------------------------------------------------------------------
(* The plot: what the reducer keeps for it *)

IsOfBackend(e) == e.type \in {"backend_disconnected", "backend_state"}
IsStreaming(e) == e.type = "connection_state" /\ e.state = "streaming"

\* What leaves the plot empty.
Moves(e) == IsOfBackend(e) \/ (e.type = "connection_state" /\ e.state # "streaming")

\* Where an event takes the link.
LinkAfter(link, e) ==
  IF Ends(e) THEN "disconnected" ELSE IF e.type = "connection_state" THEN e.state ELSE link

\* What an event finds the link in: a backend has none before it runs, a connection
\* begins with its first state, and streams from there or after an interruption.
Fits(e, link) ==
  /\ e.type = "backend_state" => link = "disconnected"
  /\ e.type = "connection_state" /\ link = "disconnected" => e.state = "connecting"
  /\ IsStreaming(e) => link \in {"connecting", "streaming", "reconnecting"}
  /\ "plot" \in e.cuts => Moves(e)

\* The links in which no batch is left.
Unplotted == {"disconnected", "connecting", "reconnecting"}

\* A batch is kept, dropped, or new of a stream.
BatchIs(s, e, r) ==
  /\ r.plot.batch \in {0, s.plot.batch} \/ (e.type = "plot_batch" /\ r.plot.batch = e.at)
  /\ r.connection \in Unplotted => r.plot.batch = 0

\* What an event makes of the fields the plot goes by.
Moved(s, e, r) ==
  /\ r.connection = LinkAfter(s.connection, e)
  /\ r.generation = GenerationAfter(s.generation, e)
  /\ r.backend.at = IF IsOfBackend(e) THEN e.at ELSE s.backend.at
  /\ ~IsOfBackend(e) => r.connectionAt = IF e.type = "connection_state" THEN e.at
                                         ELSE s.connectionAt
  /\ r.preferences = s.preferences
  /\ BatchIs(s, e, r)

LEMMA StateIsMoved ==
  ASSUME NEW s, IsApp(s), NEW e, IsEvent(e), e.type # "live_wrench", e.at \in Nat,
         e.at > s.backend.at, e.at > s.connectionAt, MayFollow(e, s.generation),
         s.connection \in Unplotted => s.plot.batch = 0
  PROVE  Moved(s, e, Reduce(s, e))
<1>1. PICK r : r = Reduce(s, e)
  OBVIOUS
<1>2. s.generation \in Nat /\ EmptyPlot.batch = 0
  BY DEF IsApp, EmptyPlot
<1>3. CASE Ends(e)
  <2>1. /\ r.connection = "disconnected" /\ r.plot = EmptyPlot /\ r.preferences = s.preferences
        /\ r.generation = 0 /\ r.backend.at = e.at
    BY <1>1, <1>3, EndIsReduced
  <2>2. IsOfBackend(e) /\ LinkAfter(s.connection, e) = "disconnected"
        /\ GenerationAfter(s.generation, e) = 0
    BY <1>3 DEF Ends, IsOfBackend, LinkAfter, GenerationAfter
  <2> QED
    BY <1>1, <1>2, <2>1, <2>2 DEF Moved, BatchIs
<1>4. CASE e.type = "backend_state" /\ e.state = "running"
  <2>1. /\ r.backend.at = e.at
        /\ \A f \in {"connection", "generation", "plot", "preferences"} : r[f] = s[f]
    BY <1>1, <1>4, RunningIsReduced
  <2>2. IsOfBackend(e) /\ LinkAfter(s.connection, e) = s.connection
        /\ GenerationAfter(s.generation, e) = s.generation
    BY <1>4 DEF Ends, IsOfBackend, LinkAfter, GenerationAfter
  <2>3. /\ r.connection = s.connection /\ r.generation = s.generation
        /\ r.plot = s.plot /\ r.preferences = s.preferences
    BY <2>1
  <2> QED
    BY <1>1, <2>1, <2>2, <2>3 DEF Moved, BatchIs
<1>5. CASE e.type = "connection_state"
  <2>1. e.gen \in Nat /\ e.gen >= s.generation /\ (e.state = "connecting" => e.gen > s.generation)
    BY <1>5 DEF IsEvent, MayFollow
  <2>2. /\ r.connection = e.state /\ r.generation = e.gen /\ r.connectionAt = e.at
        /\ r.backend = s.backend /\ r.preferences = s.preferences
        /\ r.plot \in {EmptyPlot, s.plot}
        /\ (e.gen > s.generation \/ e.state = "disconnected") => r.plot = EmptyPlot
        /\ (e.state = "reconnecting" /\ s.connection # "reconnecting") => r.plot = EmptyPlot
    BY <1>1, <1>5, <2>1, ConnectionIsReduced
  <2>3. ~IsOfBackend(e) /\ LinkAfter(s.connection, e) = e.state
        /\ GenerationAfter(s.generation, e) = e.gen
    BY <1>5 DEF Ends, IsOfBackend, LinkAfter, GenerationAfter
  <2>4. BatchIs(s, e, r)
    BY <1>2, <2>1, <2>2 DEF BatchIs, Unplotted
  <2> QED
    BY <1>1, <1>5, <2>2, <2>3, <2>4 DEF Moved
<1>6. ASSUME ~IsOfBackend(e), e.type # "connection_state",
             r.connection = s.connection, r.generation = s.generation, r.backend = s.backend,
             r.connectionAt = s.connectionAt, r.preferences = s.preferences,
             r.plot = s.plot \/ (e.type = "plot_batch" /\ s.connection = "streaming"
                                   /\ r.plot = Plotted(e))
      PROVE  Moved(s, e, r)
  <2>1. LinkAfter(s.connection, e) = s.connection /\ GenerationAfter(s.generation, e) = s.generation
    BY <1>6 DEF Ends, IsOfBackend, LinkAfter, GenerationAfter
  <2>2. Plotted(e).batch = e.at
    BY DEF Plotted
  <2>3. BatchIs(s, e, r)
    BY <1>6, <2>2 DEF BatchIs, Unplotted
  <2> QED
    BY <1>6, <2>1, <2>3 DEF Moved
<1>7. CASE e.type = "error"
  <2>1. e.sequence \in Nat
    BY <1>7 DEF IsEvent
  <2>2. \A f \in {"backend", "connection", "generation", "connectionAt", "plot", "preferences"} :
          r[f] = s[f]
    BY <1>1, <1>7, <2>1, ErrorIsReduced
  <2>3. /\ r.connection = s.connection /\ r.generation = s.generation /\ r.backend = s.backend
        /\ r.connectionAt = s.connectionAt /\ r.preferences = s.preferences /\ r.plot = s.plot
    BY <2>2
  <2> QED
    BY <1>1, <1>6, <1>7, <2>3 DEF IsOfBackend
<1>8. CASE e.type \in {"plot_batch", "configuration_changed", "recording_state"}
  <2>1. /\ r.connection = s.connection /\ r.generation = s.generation /\ r.backend = s.backend
        /\ r.connectionAt = s.connectionAt /\ r.preferences = s.preferences
    BY <1>1, <1>8, OthersAreKept
  <2>2. KeepsBatch(s, e, r)
    BY <1>1, <1>8, OthersAreReduced
  <2>3. \/ r.plot = s.plot
        \/ e.type = "plot_batch" /\ s.connection = "streaming" /\ r.plot = Plotted(e)
    BY <2>2, Zenon DEF KeepsBatch
  <2> QED
    BY <1>1, <1>6, <1>8, <2>1, <2>3 DEF IsOfBackend
<1> QED
  BY <1>3, <1>4, <1>5, <1>7, <1>8 DEF IsEvent, Ends
-----------------------------------------------------------------------------
(* The plot: what its sink does with an event *)

IsBoundary(b) ==
  /\ b = [epoch |-> b.epoch, revision |-> b.revision, generation |-> b.generation,
          connection |-> b.connection, paused |-> b.paused]
  /\ b.epoch \in Nat /\ b.generation \in Nat

\* The points an event leaves: none, or those there were and those of a batch, which
\* one of another connection does not leave.
PointsAre(e) ==
  \/ Times(chart') = {}
  \/ /\ ~Moves(e) /\ (e.type = "connection_state" => e.gen = boundary.generation)
     /\ \/ chart' = chart
        \/ /\ e.type = "plot_batch" /\ boundary.connection = "streaming"
           /\ Times(chart') \subseteq Times(chart) \union {e.at}

\* The sink follows what the reducer makes of an event.
Sunk(e) ==
  /\ mounted' = mounted /\ IsChart(chart') /\ IsBoundary(boundary')
  /\ mounted =>
       /\ boundary'.connection = LinkAfter(boundary.connection, e)
       /\ boundary'.generation = GenerationAfter(boundary.generation, e)
       /\ boundary'.epoch = IF IsOfBackend(e) THEN e.at ELSE boundary.epoch
       /\ PointsAre(e)

LEMMA SinkIsRight ==
  ASSUME NEW e, IsEvent(e), e.type # "live_wrench", e.at \in Nat, Sink(e), IsChart(chart),
         IsBoundary(boundary)
  PROVE  Sunk(e)
<1>1. mounted' = mounted
  BY DEF Sink
<1>2. CASE ~mounted
  <2>1. chart' = chart /\ boundary' = boundary
    BY <1>2 DEF Sink
  <2> QED
    BY <1>1, <1>2, <2>1 DEF Sunk
<1> SUFFICES ASSUME mounted PROVE Sunk(e)
  BY <1>2
<1>3. PICK ep, rev, gen, con, pau :
        /\ boundary = [epoch |-> ep, revision |-> rev, generation |-> gen,
                       connection |-> con, paused |-> pau]
        /\ ep \in Nat /\ gen \in Nat
  <2>1. PICK b : b = boundary
    OBVIOUS
  <2>2. /\ b = [epoch |-> b.epoch, revision |-> b.revision, generation |-> b.generation,
                connection |-> b.connection, paused |-> b.paused]
        /\ b.epoch \in Nat /\ b.generation \in Nat
    BY <2>1 DEF IsBoundary
  <2> QED
    BY <2>1, <2>2
<1>4. boundary.connection = con /\ boundary.generation = gen /\ boundary.epoch = ep
  BY <1>3
<1>5. ASSUME NEW b1 \in Nat, NEW b2, NEW b3 \in Nat, NEW b4, NEW b5,
             boundary' = [epoch |-> b1, revision |-> b2, generation |-> b3,
                          connection |-> b4, paused |-> b5]
      PROVE  /\ IsBoundary(boundary') /\ boundary'.connection = b4
             /\ boundary'.generation = b3 /\ boundary'.epoch = b1
  <2>1. PICK b : b = boundary'
    OBVIOUS
  <2>2. b = [epoch |-> b1, revision |-> b2, generation |-> b3, connection |-> b4, paused |-> b5]
    BY <1>5, <2>1
  <2>3. IsBoundary(b) /\ b.connection = b4 /\ b.generation = b3 /\ b.epoch = b1
    BY <2>2 DEF IsBoundary
  <2> QED
    BY <2>1, <2>3
<1>6. ASSUME chart' = Cleared(chart)
      PROVE  IsChart(chart') /\ PointsAre(e)
  BY <1>6, ClearedIsEmpty DEF PointsAre
<1>7. CASE IsOfBackend(e)
  <2>1. SinkBackend(e)
    BY <1>7 DEF Sink, IsOfBackend
  <2>2. IsChart(chart') /\ PointsAre(e)
    BY <1>6, <2>1 DEF SinkBackend, ResetPlot
  <2>3. PICK at \in Nat : at = e.at
    OBVIOUS
  <2>4. CASE e.type = "backend_state" /\ e.state = "running"
    <3>1. boundary' = [boundary EXCEPT !.epoch = at]
      BY <2>1, <2>3, <2>4 DEF SinkBackend
    <3>2. boundary' = [epoch |-> at, revision |-> rev, generation |-> gen,
                       connection |-> con, paused |-> pau]
      BY <1>3, <3>1
    <3>3. /\ IsBoundary(boundary') /\ boundary'.connection = con
          /\ boundary'.generation = gen /\ boundary'.epoch = at
      BY <1>3, <1>5, <3>2
    <3>4. LinkAfter(con, e) = con /\ GenerationAfter(gen, e) = gen
      BY <2>4 DEF LinkAfter, GenerationAfter, Ends
    <3> QED
      BY <1>1, <1>4, <1>7, <2>2, <2>3, <3>3, <3>4 DEF Sunk
  <2>5. CASE ~(e.type = "backend_state" /\ e.state = "running")
    <3>1. boundary' = [epoch |-> at, revision |-> 0, generation |-> 0,
                       connection |-> "disconnected", paused |-> FALSE]
      BY <2>1, <2>3, <2>5, Zenon DEF SinkBackend
    <3>2. PICK z \in Nat : z = 0
      OBVIOUS
    <3>3. boundary' = [epoch |-> at, revision |-> z, generation |-> z,
                       connection |-> "disconnected", paused |-> FALSE]
      BY <3>1, <3>2
    <3>4. /\ IsBoundary(boundary') /\ boundary'.connection = "disconnected"
          /\ boundary'.generation = z /\ boundary'.epoch = at
      BY <1>5, <3>3
    <3>5. LinkAfter(con, e) = "disconnected" /\ GenerationAfter(gen, e) = z
      BY <1>7, <2>5, <3>2 DEF LinkAfter, GenerationAfter, Ends, IsOfBackend
    <3> QED
      BY <1>1, <1>4, <1>7, <2>2, <2>3, <3>4, <3>5 DEF Sunk
  <2> QED
    BY <2>4, <2>5
<1>8. CASE e.type = "connection_state"
  <2>1. SinkConnection(e)
    BY <1>8 DEF Sink
  <2>2. boundary' = [boundary EXCEPT !.generation = e.gen, !.connection = e.state,
                                     !.paused = e.paused]
    BY <2>1 DEF SinkConnection
  <2>3. PICK g, s, p : g = e.gen /\ s = e.state /\ p = e.paused
    OBVIOUS
  <2>4. boundary' = [epoch |-> ep, revision |-> rev, generation |-> g,
                     connection |-> s, paused |-> p]
    BY <1>3, <2>2, <2>3
  <2>5. g \in Nat
    BY <1>8, <2>3 DEF IsEvent
  <2>6. /\ IsBoundary(boundary') /\ boundary'.connection = e.state
        /\ boundary'.generation = e.gen /\ boundary'.epoch = ep
    BY <1>3, <1>5, <2>3, <2>4, <2>5
  <2>7. LinkAfter(con, e) = e.state /\ GenerationAfter(gen, e) = e.gen /\ ~IsOfBackend(e)
    BY <1>8 DEF LinkAfter, GenerationAfter, Ends, IsOfBackend
  <2>8. \/ chart' = Cleared(chart)
        \/ chart' = chart /\ e.state = "streaming" /\ e.gen = boundary.generation
    BY <2>1 DEF SinkConnection, ResetPlot
  <2>9. IsChart(chart') /\ PointsAre(e)
    <3>1. CASE chart' = chart /\ e.state = "streaming" /\ e.gen = boundary.generation
      BY <2>7, <3>1 DEF PointsAre, Moves
    <3> QED
      BY <1>6, <2>8, <3>1
  <2> QED
    BY <1>1, <1>4, <2>6, <2>7, <2>9 DEF Sunk
<1>9. CASE ~IsOfBackend(e) /\ e.type # "connection_state"
  <2>1. LinkAfter(con, e) = con /\ GenerationAfter(gen, e) = gen /\ ~Moves(e)
    BY <1>9 DEF LinkAfter, GenerationAfter, Ends, IsOfBackend, Moves
  <2>2. ASSUME boundary' = boundary, IsChart(chart'), PointsAre(e)
        PROVE  Sunk(e)
    BY <1>1, <1>4, <1>9, <2>1, <2>2 DEF Sunk
  <2>3. chart' = chart => IsChart(chart') /\ PointsAre(e)
    BY <1>9, <2>1 DEF PointsAre
  <2>4. CASE e.type = "configuration_changed"
    <3>1. SinkConfiguration(e)
      BY <2>4 DEF Sink
    <3>2. CASE e.revision = boundary.revision
      <4>1. boundary' = boundary /\ chart' = chart
        BY <3>1, <3>2 DEF SinkConfiguration
      <4> QED
        BY <2>2, <2>3, <4>1
    <3>3. CASE e.revision # boundary.revision
      <4>1. boundary' = [boundary EXCEPT !.revision = e.revision] /\ chart' = Cleared(chart)
        BY <3>1, <3>3 DEF SinkConfiguration, ResetPlot
      <4>2. PICK r : r = e.revision
        OBVIOUS
      <4>3. boundary' = [epoch |-> ep, revision |-> r, generation |-> gen,
                         connection |-> con, paused |-> pau]
        BY <1>3, <4>1, <4>2
      <4>4. /\ IsBoundary(boundary') /\ boundary'.connection = con
            /\ boundary'.generation = gen /\ boundary'.epoch = ep
        BY <1>3, <1>5, <4>3
      <4> QED
        BY <1>1, <1>4, <1>6, <1>9, <2>1, <4>1, <4>4 DEF Sunk
    <3> QED
      BY <3>2, <3>3
  <2>5. CASE e.type = "plot_batch"
    <3>1. SinkBatch(e)
      BY <2>5 DEF Sink
    <3>2. boundary' = boundary
      BY <3>1 DEF SinkBatch
    <3>3. \/ chart' = chart
          \/ /\ boundary.connection = "streaming"
             /\ chart' = Appended(chart, <<[axis |-> PlotAxis, time |-> e.at, value |-> 1]>>)
      BY <3>1 DEF SinkBatch, AppendPlot
    <3>4. CASE chart' = chart
      BY <2>2, <2>3, <3>2, <3>4
    <3>5. CASE /\ boundary.connection = "streaming"
               /\ chart' = Appended(chart, <<[axis |-> PlotAxis, time |-> e.at, value |-> 1]>>)
      <4>1. IsChart(chart') /\ Times(chart') \subseteq Times(chart) \union {e.at}
        BY <3>5, PointIsAppended
      <4>2. PointsAre(e)
        BY <2>1, <2>5, <3>5, <4>1 DEF PointsAre
      <4> QED
        BY <2>2, <3>2, <4>1, <4>2
    <3> QED
      BY <3>3, <3>4, <3>5
  <2>6. CASE e.type \notin {"configuration_changed", "plot_batch"}
    <3>1. boundary' = boundary /\ chart' = chart
      BY <1>9, <2>6 DEF Sink, IsOfBackend
    <3> QED
      BY <2>2, <2>3, <3>1
  <2> QED
    BY <2>4, <2>5, <2>6
<1> QED
  BY <1>7, <1>8, <1>9
-----------------------------------------------------------------------------
(* The plot: what is of an earlier connection *)

\* A boundary the plot has seen is not of the connection a state is in.
Differs(b, s) ==
  b.epoch # s.backend.at \/ b.generation < s.generation \/ s.connection = "disconnected"

\* What differs still does after the next event: a boundary that was rendered,
LEMMA DifferenceStays ==
  ASSUME NEW b, NEW s, NEW r, NEW e, IsEvent(e), e.at \in Nat, e.at > s.backend.at,
         b.epoch \in Nat, b.generation \in Nat, s.backend.at \in Nat, s.generation \in Nat,
         b.epoch <= s.backend.at, b.epoch = s.backend.at => b.generation <= s.generation,
         Fits(e, s.connection), MayFollow(e, s.generation), Moved(s, e, r), Differs(b, s)
  PROVE  Differs(b, r)
<1>1. CASE IsOfBackend(e)
  <2>1. r.backend.at = e.at
    BY <1>1 DEF Moved
  <2> QED
    BY <2>1 DEF Differs
<1>2. CASE e.type = "connection_state"
  <2>1. /\ r.backend.at = s.backend.at /\ r.generation = e.gen
        /\ e.gen \in Nat /\ e.gen >= s.generation /\ (e.state = "connecting" => e.gen > s.generation)
    BY <1>2 DEF Moved, IsOfBackend, GenerationAfter, Ends, IsEvent, MayFollow
  <2>2. s.connection = "disconnected" => e.state = "connecting"
    BY <1>2 DEF Fits
  <2> QED
    BY <2>1, <2>2 DEF Differs
<1>3. CASE ~IsOfBackend(e) /\ e.type # "connection_state"
  <2>1. /\ r.backend.at = s.backend.at /\ r.generation = s.generation
        /\ r.connection = s.connection
    BY <1>3 DEF Moved, IsOfBackend, GenerationAfter, Ends, LinkAfter
  <2> QED
    BY <2>1 DEF Differs
<1> QED
  BY <1>1, <1>2, <1>3

\* and one the sink has moved, where it leaves points.
LEMMA DifferenceMoves ==
  ASSUME NEW s, NEW r, NEW e, IsEvent(e), mounted, IsBoundary(boundary), s.generation \in Nat,
         Fits(e, s.connection), MayFollow(e, s.generation), Moved(s, e, r), Sunk(e),
         ~Moves(e), e.type = "connection_state" => e.gen = boundary.generation,
         Differs(boundary, s)
  PROVE  Differs(boundary', r)
<1>1. ~IsOfBackend(e) /\ boundary.generation \in Nat
  BY DEF Moves, IsBoundary
<1>2. r.backend.at = s.backend.at /\ boundary'.epoch = boundary.epoch
  BY <1>1 DEF Moved, Sunk
<1>3. CASE e.type = "connection_state"
  <2>1. /\ r.generation = e.gen /\ boundary'.generation = e.gen
        /\ e.gen \in Nat /\ e.gen >= s.generation /\ e.gen = boundary.generation
    BY <1>1, <1>3 DEF Moved, Sunk, GenerationAfter, Ends, IsOfBackend, IsEvent, MayFollow
  <2>2. s.connection # "disconnected"
    BY <1>1, <1>3 DEF Fits, Moves
  <2> QED
    BY <1>1, <1>2, <2>1, <2>2 DEF Differs
<1>4. CASE e.type # "connection_state"
  <2>1. /\ r.generation = s.generation /\ r.connection = s.connection
        /\ boundary'.generation = boundary.generation
    BY <1>1, <1>4 DEF Moved, Sunk, GenerationAfter, LinkAfter, Ends, IsOfBackend
  <2> QED
    BY <1>2, <2>1 DEF Differs
<1> QED
  BY <1>3, <1>4
-----------------------------------------------------------------------------
(* The plot: its invariant *)

\* The links as the events on their way will take them from what the renderer knows to
\* what the session is in.
Links(links) ==
  /\ links[0] = app.connection /\ links[Len(mail)] = peer.link
  /\ \A k \in 1..Len(mail) : /\ links[k] = LinkAfter(links[k - 1], mail[k])
                             /\ Fits(mail[k], links[k - 1])
LinksFit == \E links : Links(links)

PlotShape ==
  /\ IsChart(chart) /\ IsBoundary(boundary) /\ IsApp(shown) /\ due \in Nat
  /\ app.preferences = Defaults /\ shown.preferences = Defaults
  /\ app.plot.batch \in Nat /\ shown.plot.batch \in Nat
  /\ app.connection \in Unplotted => app.plot.batch = 0

\* What was dispatched has no older batch,
BatchIsNew ==
  /\ app.plot.batch = 0 \/ app.plot.batch > past["sensor"]
  /\ app.connection = "streaming" => app.plot.batch = 0 \/ app.plot.batch > past["plot"]

\* what is rendered is of no later connection, and of another one where its batch is,
ShownIsBehind ==
  /\ shown.backend.at <= app.backend.at
  /\ shown.backend.at = app.backend.at => /\ shown.generation <= app.generation
                                          /\ shown.connectionAt <= app.connectionAt
RenderedDiffers ==
  shown.connection = "streaming" /\ shown.plot.batch \in 1..past["sensor"]
    => Differs(Boundary(shown), app)

\* and the boundary is as rendered once the effects have run and nothing was dispatched.
RenderIsSeen ==
  shown.backend.at = app.backend.at /\ shown.connectionAt = app.connectionAt =>
    /\ app.generation = shown.generation /\ app.connection = shown.connection
    /\ due = 0 /\ mounted => /\ boundary.epoch = app.backend.at
                             /\ boundary.generation = app.generation
                             /\ boundary.connection = app.connection

\* Where the plot has a point from before a connection, or two from before an
\* interruption, its boundary is not of the connection the viewer is in; and where the
\* effects that are due may append such a point it is the only one.
PointsAreOfBoundary ==
  mounted =>
    /\ Times(chart) # {} => boundary.connection = "streaming"
    /\ \A t \in Times(chart) : t <= past["sensor"] => Differs(boundary, app)
    /\ \A t, u \in Times(chart) :
         t <= past["plot"] /\ u <= past["plot"] => t = u \/ Differs(boundary, app)
    /\ due # 0 /\ shown.connection = "streaming" /\ shown.plot.batch \in 1..past["plot"] =>
         \A t \in Times(chart) :
           t <= past["plot"] => t = shown.plot.batch \/ Differs(boundary, app)

PlotIsRight ==
  /\ PlotShape /\ LinksFit /\ BatchIsNew /\ ShownIsBehind /\ RenderedDiffers /\ RenderIsSeen
  /\ PointsAreOfBoundary

PlotInvariant ==
  IF scene = "display" THEN DisplayInvariant /\ PlotIsRight ELSE Times(chart) = {}

LEMMA StampedMoves ==
  ASSUME NEW e, Carries(e), NEW n
  PROVE  \A link : /\ LinkAfter(link, At(n, e)) = LinkAfter(link, e)
                   /\ Fits(At(n, e), link) <=> Fits(e, link)
<1>1. PICK x : x = At(n, e)
  OBVIOUS
<1>2. \A f \in DOMAIN e : x[f] = e[f]
  BY <1>1 DEF At, Carries
<1>3. /\ x.type = e.type /\ x.cuts = e.cuts
      /\ e.type \in {"backend_state", "connection_state"} => x.state = e.state
  BY <1>2 DEF Carries
<1>4. Ends(x) <=> Ends(e)
  BY <1>3 DEF Ends
<1>5. \A link : LinkAfter(link, x) = LinkAfter(link, e)
  BY <1>3, <1>4 DEF LinkAfter
<1>6. (IsStreaming(x) <=> IsStreaming(e)) /\ (Moves(x) <=> Moves(e))
  BY <1>3 DEF IsStreaming, Moves, IsOfBackend
<1>7. \A link : Fits(x, link) <=> Fits(e, link)
  BY <1>3, <1>6 DEF Fits
<1> QED
  BY <1>1, <1>5, <1>7

\* Events are sent behind those that are on their way.
LEMMA LinksAreSent ==
  ASSUME DisplayInvariant, LinksFit, NEW es, Sends(es), Len(es) \in Nat,
         DOMAIN es = 1..Len(es), \A i \in 1..Len(es) : Carries(es[i]),
         NEW more, more[0] = peer.link, more[Len(es)] = peer'.link,
         \A i \in 1..Len(es) : more[i] = LinkAfter(more[i - 1], es[i]) /\ Fits(es[i], more[i - 1])
  PROVE  LinksFit' /\ UNCHANGED Renderer
<1>1. PICK added : added = [i \in DOMAIN es |-> At(clock + i, es[i])]
  OBVIOUS
<1>2. mail' = mail \o added /\ UNCHANGED Renderer
  BY <1>1 DEF Sends
<1>3. PICK n \in Nat : n = Len(es)
  OBVIOUS
<1>4. \A i \in 1..n : \A link : /\ LinkAfter(link, added[i]) = LinkAfter(link, es[i])
                                /\ Fits(added[i], link) <=> Fits(es[i], link)
  BY <1>1, <1>3, StampedMoves
<1>5. PICK S : mail \in Seq(S)
  BY DEF DisplayInvariant, MailIsRight
<1>6. PICK m \in Nat : m = Len(mail)
  BY <1>5, LenProperties
<1>7. PICK U : U = S \union {added[i] : i \in 1..n}
  OBVIOUS
<1>8. mail \in Seq(U) /\ added \in Seq(U) /\ Len(added) = n
  <2>1. mail \in Seq(U)
    <3>1. \A i \in 1..Len(mail) : mail[i] \in U
      BY <1>5, <1>7, ElementOfSeq
    <3> QED
      BY <1>5, <3>1, SeqInside
  <2>2. added = [i \in 1..n |-> added[i]] /\ \A i \in 1..n : added[i] \in U
    BY <1>1, <1>3, <1>7
  <2>3. added \in Seq(U) /\ Len(added) = n
    BY <2>2
  <2> QED
    BY <2>1, <2>3
<1>9. /\ Len(mail') = m + n
      /\ \A k \in 1..(m + n) : mail'[k] = IF k <= m THEN mail[k] ELSE added[k - m]
  BY <1>2, <1>6, <1>8, ConcatProperties
<1>10. ASSUME NEW k \in 1..(m + n)
       PROVE  \/ k \in 1..m /\ mail'[k] = mail[k]
              \/ \E i \in 1..n : k = m + i /\ mail'[k] = added[i]
  <2>1. CASE k <= m
    BY <1>9, <2>1
  <2>2. CASE ~(k <= m)
    <3>1. k - m \in 1..n /\ m + (k - m) = k
      BY <2>2
    <3> QED
      BY <1>9, <2>2, <3>1
  <2> QED
    BY <2>1, <2>2
<1>11. PICK links : Links(links)
  BY DEF LinksFit
<1> DEFINE after == [k \in 0..(m + n) |-> IF k <= m THEN links[k] ELSE more[k - m]]
<1>12. /\ \A k \in 0..m : after[k] = links[k]
       /\ \A i \in 0..n : after[m + i] = more[i]
  <2>1. \A k \in 0..m : after[k] = links[k]
    OBVIOUS
  <2>2. ASSUME NEW i \in 0..n PROVE after[m + i] = more[i]
    <3>1. CASE i = 0
      BY <1>6, <1>11, <3>1 DEF Links
    <3>2. CASE i # 0
      <4>1. m + i \in 0..(m + n) /\ ~(m + i <= m) /\ (m + i) - m = i
        BY <3>2
      <4> QED
        BY <4>1
    <3> QED
      BY <3>1, <3>2
  <2> QED
    BY <2>1, <2>2
<1> HIDE DEF after
<1>13. ASSUME NEW k \in 1..(m + n)
       PROVE  after[k] = LinkAfter(after[k - 1], mail'[k]) /\ Fits(mail'[k], after[k - 1])
  <2>1. CASE k \in 1..m /\ mail'[k] = mail[k]
    <3>1. k \in 0..m /\ k - 1 \in 0..m
      BY <2>1
    <3>2. after[k] = links[k] /\ after[k - 1] = links[k - 1]
      BY <1>12, <3>1
    <3> QED
      BY <1>6, <1>11, <2>1, <3>2 DEF Links
  <2>2. CASE \E i \in 1..n : k = m + i /\ mail'[k] = added[i]
    <3>1. PICK i \in 1..n : k = m + i /\ mail'[k] = added[i]
      BY <2>2
    <3>2. i - 1 \in 0..n /\ i \in 0..n /\ m + (i - 1) = k - 1
      BY <3>1
    <3>3. after[k] = more[i] /\ after[k - 1] = more[i - 1]
      BY <1>12, <3>1, <3>2
    <3>4. more[i] = LinkAfter(more[i - 1], es[i]) /\ Fits(es[i], more[i - 1])
      BY <1>3
    <3> QED
      BY <1>4, <3>1, <3>3, <3>4
  <2> QED
    BY <1>10, <2>1, <2>2
<1>14. app' = app
  BY <1>2 DEF Renderer
<1>15. Links(after)'
  <2>1. after[0] = app'.connection
    BY <1>11, <1>12, <1>14 DEF Links
  <2>2. after[m + n] = peer'.link
    BY <1>3, <1>12
  <2> QED
    BY <1>9, <1>13, <2>1, <2>2 DEF Links
<1> QED
  BY <1>2, <1>15 DEF LinksFit

LEMMA LinkIsSent ==
  ASSUME DisplayInvariant, LinksFit, NEW e, Sends(<<e>>), Carries(e),
         peer'.link = LinkAfter(peer.link, e), Fits(e, peer.link)
  PROVE  LinksFit' /\ UNCHANGED Renderer
<1>1. PICK es : es = <<e>>
  OBVIOUS
<1>2. Len(es) \in Nat /\ Len(es) = 1 /\ DOMAIN es = 1..Len(es) /\ es[1] = e /\ Sends(es)
  BY <1>1
<1>3. PICK g, h : g = peer.link /\ h = peer'.link
  OBVIOUS
<1>4. PICK more : more = [k \in 0..1 |-> IF k = 0 THEN g ELSE h]
  OBVIOUS
<1>5. more[0] = g /\ more[1] = h
  BY <1>4
<1>6. \A i \in 1..Len(es) : i = 1 /\ i - 1 = 0
  BY <1>2
<1>7. ASSUME NEW i \in 1..Len(es)
      PROVE  /\ Carries(es[i]) /\ more[i] = LinkAfter(more[i - 1], es[i])
             /\ Fits(es[i], more[i - 1])
  <2>1. i = 1 /\ i - 1 = 0
    BY <1>6
  <2> QED
    BY <1>2, <1>3, <1>5, <2>1
<1>8. more[0] = peer.link /\ more[Len(es)] = peer'.link
  BY <1>2, <1>3, <1>5
<1>9. \A i \in 1..Len(es) : Carries(es[i])
  BY <1>7, Zenon
<1>10. \A i \in 1..Len(es) : /\ more[i] = LinkAfter(more[i - 1], es[i])
                             /\ Fits(es[i], more[i - 1])
  BY <1>7, Zenon
<1> QED
  BY <1>2, <1>8, <1>9, <1>10, LinksAreSent

LEMMA LinksAreCut ==
  ASSUME DisplayInvariant, LinksFit, NEW d, NEW e, Sends(<<d, e>>), Carries(d), Carries(e),
         Fits(d, peer.link), Fits(e, LinkAfter(peer.link, d)),
         peer'.link = LinkAfter(LinkAfter(peer.link, d), e)
  PROVE  LinksFit' /\ UNCHANGED Renderer
<1>1. PICK es : es = <<d, e>>
  OBVIOUS
<1>2. Len(es) \in Nat /\ Len(es) = 2 /\ DOMAIN es = 1..Len(es) /\ es[1] = d /\ es[2] = e
      /\ Sends(es)
  BY <1>1
<1>3. PICK f, g, h : f = peer.link /\ g = LinkAfter(peer.link, d) /\ h = peer'.link
  OBVIOUS
<1>4. PICK more : more = [k \in 0..2 |-> IF k = 0 THEN f ELSE IF k = 1 THEN g ELSE h]
  OBVIOUS
<1>5. more[0] = f /\ more[1] = g /\ more[2] = h
  BY <1>4
<1>6. \A i \in 1..Len(es) : (i = 1 /\ i - 1 = 0) \/ (i = 2 /\ i - 1 = 1)
  BY <1>2
<1>7. ASSUME NEW i \in 1..Len(es)
      PROVE  /\ Carries(es[i]) /\ more[i] = LinkAfter(more[i - 1], es[i])
             /\ Fits(es[i], more[i - 1])
  <2>1. CASE i = 1 /\ i - 1 = 0
    BY <1>2, <1>3, <1>5, <2>1
  <2>2. CASE i = 2 /\ i - 1 = 1
    BY <1>2, <1>3, <1>5, <2>2
  <2> QED
    BY <1>6, <2>1, <2>2
<1>8. more[0] = peer.link /\ more[Len(es)] = peer'.link
  BY <1>2, <1>3, <1>5
<1>9. \A i \in 1..Len(es) : Carries(es[i])
  BY <1>7, Zenon
<1>10. \A i \in 1..Len(es) : /\ more[i] = LinkAfter(more[i - 1], es[i])
                             /\ Fits(es[i], more[i - 1])
  BY <1>7, Zenon
<1> QED
  BY <1>2, <1>8, <1>9, <1>10, LinksAreSent

\* The events by what they do to the link.
LEMMA BackendEventMoves ==
  ASSUME NEW state, NEW link, link = "disconnected"
  PROVE  LET e == BackendEvent(state)
         IN Carries(e) /\ LinkAfter(link, e) = "disconnected" /\ Fits(e, link)
<1>1. PICK e : e = BackendEvent(state)
  OBVIOUS
<1>2. DOMAIN e = {"type", "state", "error", "cuts"} /\ e.type = "backend_state" /\ e.state = state
  BY <1>1 DEF BackendEvent
<1>3. Carries(e)
  BY <1>2 DEF Carries
<1>4. LinkAfter(link, e) = "disconnected"
  BY <1>2 DEF LinkAfter, Ends
<1>5. Fits(e, link)
  BY <1>2 DEF Fits, Moves, IsOfBackend, IsStreaming
<1> QED
  BY <1>1, <1>3, <1>4, <1>5

LEMMA LinkEventMoves ==
  ASSUME NEW state, NEW gen, NEW paused, NEW link, link = "disconnected" => state = "connecting",
         state = "streaming" => link \in {"connecting", "streaming", "reconnecting"}
  PROVE  LET e == LinkEvent(state, gen, paused)
         IN Carries(e) /\ LinkAfter(link, e) = state /\ Fits(e, link)
<1>1. PICK cuts : /\ cuts = {"scope"}
                       \union (IF state \in {"connecting", "reconnecting", "disconnected"}
                               THEN {"stream"} ELSE {})
                       \union (IF state # "streaming" THEN {"plot"} ELSE {})
                       \union (IF state \in {"connecting", "disconnected"} THEN {"sensor"} ELSE {})
  OBVIOUS
<1>2. PICK e : e = LinkEvent(state, gen, paused)
  OBVIOUS
<1>3. e = [type |-> "connection_state", state |-> state, gen |-> gen,
           paused |-> paused, error |-> "", cuts |-> cuts]
  BY <1>1, <1>2, Zenon DEF LinkEvent
<1>4. /\ DOMAIN e = {"type", "state", "gen", "paused", "error", "cuts"}
      /\ e.type = "connection_state" /\ e.state = state /\ e.cuts = cuts
  BY <1>3
<1>5. "plot" \in cuts => state # "streaming"
  BY <1>1
<1>6. Carries(e) /\ LinkAfter(link, e) = state
  BY <1>4 DEF Carries, LinkAfter, Ends
<1>7. Fits(e, link)
  BY <1>4, <1>5 DEF Fits, Moves, IsStreaming
<1> QED
  BY <1>2, <1>6, <1>7

LEMMA PauseEventMoves ==
  ASSUME NEW gen, NEW paused, NEW extra \in SUBSET {"pause"}, NEW link, link = "streaming"
  PROVE  LET e == [LinkEvent("streaming", gen, paused) EXCEPT !.cuts = @ \union extra]
         IN Carries(e) /\ LinkAfter(link, e) = "streaming" /\ Fits(e, link)
<1>1. PICK x : x = LinkEvent("streaming", gen, paused)
  OBVIOUS
<1>2. x = [type |-> "connection_state", state |-> "streaming", gen |-> gen,
           paused |-> x.paused, error |-> "", cuts |-> x.cuts]
  BY <1>1 DEF LinkEvent
<1>3. "plot" \notin x.cuts
  <2>1. x.cuts = {"scope"} \union {} \union {} \union {}
    BY <1>1 DEF LinkEvent
  <2> QED
    BY <2>1
<1>4. PICK c, p : c = x.cuts /\ p = x.paused
  OBVIOUS
<1>5. PICK all : all = x.cuts \union extra
  OBVIOUS
<1>6. PICK e : e = [x EXCEPT !.cuts = all]
  OBVIOUS
<1>7. /\ DOMAIN e = {"type", "state", "gen", "paused", "error", "cuts"}
      /\ e.type = "connection_state" /\ e.state = "streaming" /\ e.cuts = all
  <2>1. x = [type |-> "connection_state", state |-> "streaming", gen |-> gen,
             paused |-> p, error |-> "", cuts |-> c]
    BY <1>2, <1>4
  <2> QED
    BY <1>6, <2>1
<1>8. Carries(e) /\ LinkAfter(link, e) = "streaming"
  BY <1>7 DEF Carries, LinkAfter, Ends
<1>9. "plot" \notin all
  BY <1>3, <1>5
<1>10. Fits(e, link)
  BY <1>7, <1>9 DEF Fits, Moves, IsStreaming
<1>11. e = [x EXCEPT !.cuts = @ \union extra]
  BY <1>5, <1>6
<1> QED
  BY <1>1, <1>8, <1>10, <1>11

\* What the backend and the session do leaves what is shown as it is.
LEMMA WorldKeepsPlot ==
  ASSUME DisplayInvariant, PlotIsRight, World
  PROVE  PlotIsRight'
<1>1. PICK p : p = peer
  OBVIOUS
<1>2. /\ p = [f \in DOMAIN p |-> p[f]] /\ DOMAIN p = PeerFields
      /\ p.backend # "running" => p.link = "disconnected"
  BY <1>1 DEF DisplayInvariant, PeerIsRight
<1>3. LinksFit
  BY DEF PlotIsRight
<1>4. ASSUME LinksFit', UNCHANGED Renderer
      PROVE  PlotIsRight'
  <2>1. UNCHANGED <<app, shown, due, mounted, chart, boundary, past>>
    BY <1>4 DEF Renderer, plot
  <2>2. PlotShape' /\ BatchIsNew' /\ ShownIsBehind' /\ RenderedDiffers'
    BY <2>1 DEF PlotIsRight, PlotShape, BatchIsNew, ShownIsBehind, RenderedDiffers
  <2>3. RenderIsSeen' /\ PointsAreOfBoundary'
    BY <2>1 DEF PlotIsRight, RenderIsSeen, PointsAreOfBoundary
  <2> QED
    BY <1>4, <2>2, <2>3 DEF PlotIsRight
<1>5. ASSUME NEW state, peer' = [NoLink EXCEPT !.backend = state]
      PROVE  peer'.link = "disconnected"
  <2>1. PICK x : x = NoLink
    OBVIOUS
  <2>2. x = [p EXCEPT !.link = "disconnected", !.generation = 0, !.paused = FALSE,
                      !.revision = 0, !.errors = 0, !.rejects = 0, !.recording = "idle"]
    BY <1>1, <2>1, Zenon DEF NoLink
  <2>3. x = [f \in DOMAIN x |-> x[f]] /\ DOMAIN x = PeerFields /\ x.link = "disconnected"
    BY <1>2, <2>2 DEF PeerFields
  <2>4. peer' = [x EXCEPT !.backend = state]
    BY <1>5, <2>1, Zenon
  <2> QED
    BY <2>3, <2>4 DEF PeerFields
<1>6. CASE BackendRuns
  <2>1. peer' = [NoLink EXCEPT !.backend = "running"] /\ Sends(<<BackendEvent("running")>>)
        /\ peer.link = "disconnected"
    BY <1>1, <1>2, <1>6 DEF BackendRuns
  <2>2. peer'.link = "disconnected"
    BY <1>5, <2>1
  <2>3. PICK e : e = BackendEvent("running")
    OBVIOUS
  <2>4. Carries(e) /\ LinkAfter(peer.link, e) = "disconnected" /\ Fits(e, peer.link)
    BY <2>1, <2>3, BackendEventMoves
  <2> QED
    BY <1>3, <1>4, <2>1, <2>2, <2>3, <2>4, LinkIsSent
<1>7. CASE BackendRetried
  <2>1. peer' = [p EXCEPT !.backend = "starting"] /\ peer.link = "disconnected"
        /\ Sends(<<BackendEvent("starting")>>)
    BY <1>1, <1>2, <1>7 DEF BackendRetried
  <2>2. peer'.link = "disconnected"
    BY <1>1, <1>2, <2>1 DEF PeerFields
  <2>3. PICK e : e = BackendEvent("starting")
    OBVIOUS
  <2>4. Carries(e) /\ LinkAfter(peer.link, e) = "disconnected" /\ Fits(e, peer.link)
    BY <2>1, <2>3, BackendEventMoves
  <2> QED
    BY <1>3, <1>4, <2>1, <2>2, <2>3, <2>4, LinkIsSent
<1>8. CASE \E next \in {"starting", "stopped", "failed"} : BackendEnds(next)
  <2>1. PICK next \in {"starting", "stopped", "failed"} : BackendEnds(next)
    BY <1>8
  <2>2. PICK d : d = [type |-> "backend_disconnected", restart |-> next = "starting",
                      cuts |-> {"scope", "stream", "plot", "sensor"}]
    OBVIOUS
  <2>3. peer'.link = "disconnected" /\ Sends(<<d, BackendEvent(next)>>)
    BY <1>5, <2>1, <2>2 DEF BackendEnds
  <2>4. DOMAIN d = {"type", "restart", "cuts"} /\ d.type = "backend_disconnected"
    BY <2>2
  <2>5. Carries(d) /\ LinkAfter(peer.link, d) = "disconnected"
    BY <2>4 DEF Carries, LinkAfter, Ends
  <2>6. Fits(d, peer.link)
    BY <2>4 DEF Fits, Moves, IsOfBackend, IsStreaming
  <2>7. PICK link : link = LinkAfter(peer.link, d)
    OBVIOUS
  <2>8. PICK e : e = BackendEvent(next)
    OBVIOUS
  <2>9. Carries(e) /\ LinkAfter(link, e) = "disconnected" /\ Fits(e, link)
    BY <2>5, <2>7, <2>8, BackendEventMoves
  <2>10. Sends(<<d, e>>) /\ peer'.link = LinkAfter(LinkAfter(peer.link, d), e)
         /\ Fits(e, LinkAfter(peer.link, d))
    BY <2>3, <2>7, <2>8, <2>9
  <2> QED
    BY <1>3, <1>4, <2>5, <2>6, <2>9, <2>10, LinksAreCut
<1>9. CASE \E link \in Connections : LinkChanges(link)
  <2>1. PICK link \in Connections : LinkChanges(link)
    BY <1>9
  <2>2. /\ peer' = [p EXCEPT !.link = link]
        /\ Sends(<<LinkEvent(link, peer.generation, peer.paused)>>)
        /\ peer.link # "disconnected"
        /\ link = "streaming" => peer.link \in {"connecting", "reconnecting"}
    BY <1>1, <2>1 DEF LinkChanges, LinkSteps
  <2>3. peer'.link = link
    BY <1>2, <2>2 DEF PeerFields
  <2>4. PICK e : e = LinkEvent(link, peer.generation, peer.paused)
    OBVIOUS
  <2>5. Carries(e) /\ LinkAfter(peer.link, e) = link /\ Fits(e, peer.link)
    BY <2>2, <2>4, LinkEventMoves
  <2> QED
    BY <1>3, <1>4, <2>2, <2>3, <2>4, <2>5, LinkIsSent
<1>10. CASE LinkBegins
  <2>1. PICK n : n = peer.generation + 1
    OBVIOUS
  <2>2. /\ Sends(<<LinkEvent("connecting", n, FALSE)>>)
        /\ peer' = [p EXCEPT !.link = "connecting", !.generation = n, !.revision = 0]
    BY <1>1, <1>2, <1>10, <2>1 DEF LinkBegins
  <2>3. peer'.link = "connecting"
    BY <1>2, <2>2 DEF PeerFields
  <2>4. PICK state, paused : state = "connecting" /\ paused = FALSE
    OBVIOUS
  <2>5. PICK e : e = LinkEvent(state, n, paused)
    OBVIOUS
  <2>6. Carries(e) /\ LinkAfter(peer.link, e) = state /\ Fits(e, peer.link)
    BY <2>4, <2>5, LinkEventMoves
  <2>7. Sends(<<e>>)
    BY <2>2, <2>4, <2>5
  <2> QED
    BY <1>3, <1>4, <2>3, <2>4, <2>6, <2>7, LinkIsSent
<1>11. CASE LinkEnds
  <2>1. PICK g, paused, first, last :
          g = peer.generation /\ paused = FALSE /\ first = "disconnecting" /\ last = "disconnected"
    OBVIOUS
  <2>2. /\ peer' = [p EXCEPT !.link = "disconnected", !.paused = FALSE]
        /\ Sends(<<LinkEvent(first, g, paused), LinkEvent(last, g, paused)>>)
        /\ peer.link # "disconnected"
    BY <1>1, <1>11, <2>1 DEF LinkEnds
  <2>3. peer'.link = last
    BY <1>2, <2>1, <2>2 DEF PeerFields
  <2>4. PICK d, e : d = LinkEvent(first, g, paused) /\ e = LinkEvent(last, g, paused)
    OBVIOUS
  <2>5. Carries(d) /\ LinkAfter(peer.link, d) = first /\ Fits(d, peer.link)
    BY <2>1, <2>2, <2>4, LinkEventMoves
  <2>6. Carries(e) /\ LinkAfter(first, e) = last /\ Fits(e, first)
    BY <2>1, <2>4, LinkEventMoves
  <2>7. Sends(<<d, e>>) /\ peer'.link = LinkAfter(LinkAfter(peer.link, d), e)
        /\ Fits(e, LinkAfter(peer.link, d))
    BY <2>2, <2>3, <2>4, <2>5, <2>6
  <2> QED
    BY <1>3, <1>4, <2>5, <2>6, <2>7, LinksAreCut
<1>12. CASE PauseChanges
  <2>1. PICK extra \in SUBSET {"pause"} : extra = (IF peer.paused THEN {"pause"} ELSE {})
    OBVIOUS
  <2>2. PICK paused : paused = ~peer.paused
    OBVIOUS
  <2>3. PICK e : e = [LinkEvent("streaming", peer.generation, paused) EXCEPT !.cuts = @ \union extra]
    OBVIOUS
  <2>4. Sends(<<e>>) /\ peer' = [p EXCEPT !.paused = ~@] /\ peer.link = "streaming"
    BY <1>1, <1>12, <2>1, <2>2, <2>3, Zenon DEF PauseChanges
  <2>5. peer'.link = "streaming"
    BY <1>1, <1>2, <2>4 DEF PeerFields
  <2>6. Carries(e) /\ LinkAfter(peer.link, e) = "streaming" /\ Fits(e, peer.link)
    BY <2>3, <2>4, PauseEventMoves
  <2> QED
    BY <1>3, <1>4, <2>4, <2>5, <2>6, LinkIsSent
<1>13. ASSUME NEW e, Sends(<<e>>), peer'.link = peer.link, Carries(e), "plot" \notin e.cuts,
             e.type \in {"configuration_changed", "live_wrench", "plot_batch", "error"}
       PROVE PlotIsRight'
  <2>1. Fits(e, peer.link) /\ LinkAfter(peer.link, e) = peer.link
    BY <1>13 DEF IsStreaming, LinkAfter, Ends, Fits
  <2> QED
    BY <1>3, <1>4, <1>13, <2>1, LinkIsSent
<1>14. CASE Configured
  <2>1. PICK n : n = peer.revision + 1
    OBVIOUS
  <2>2. PICK e : e = [type |-> "configuration_changed", revision |-> n, cuts |-> {"scope"}]
    OBVIOUS
  <2>3. Sends(<<e>>) /\ peer' = [p EXCEPT !.revision = n]
    BY <1>1, <1>2, <1>14, <2>1, <2>2 DEF Configured
  <2>4. peer'.link = peer.link
    BY <1>1, <1>2, <2>3 DEF PeerFields
  <2>5. DOMAIN e = {"type", "revision", "cuts"} /\ e.type = "configuration_changed"
        /\ e.cuts = {"scope"}
    BY <2>2
  <2>6. Carries(e)
    BY <2>5 DEF Carries
  <2> QED
    BY <1>13, <2>3, <2>4, <2>5, <2>6
<1>15. CASE \E type \in {"live_wrench", "plot_batch"} : Measured(type)
  <2>1. PICK type \in {"live_wrench", "plot_batch"} : Measured(type)
    BY <1>15
  <2>2. PICK e : e = [type |-> type, cuts |-> {}]
    OBVIOUS
  <2>3. Sends(<<e>>) /\ peer' = peer
    BY <2>1, <2>2 DEF Measured
  <2>4. DOMAIN e = {"type", "cuts"} /\ e.type = type /\ e.cuts = {}
    BY <2>2
  <2>5. Carries(e) /\ peer'.link = peer.link
    BY <2>3, <2>4 DEF Carries
  <2> QED
    BY <1>13, <2>3, <2>4, <2>5
<1>16. CASE \E counter \in {"errors", "rejects"} : Complained(counter)
  <2>1. PICK counter \in {"errors", "rejects"} : Complained(counter)
    BY <1>16
  <2>2. PICK sequence : sequence = peer[counter] + 1
    OBVIOUS
  <2>3. PICK e : e = [type |-> "error", sequence |-> sequence, error |-> "failed",
                      operation |-> "recording", cuts |-> {}]
    OBVIOUS
  <2>4. Sends(<<e>>) /\ peer' = [p EXCEPT ![counter] = sequence]
    BY <1>1, <2>1, <2>2, <2>3 DEF Complained
  <2>5. peer'.link = peer.link
    BY <1>1, <1>2, <2>1, <2>4 DEF PeerFields
  <2>6. DOMAIN e = {"type", "sequence", "error", "operation", "cuts"} /\ e.type = "error"
        /\ e.cuts = {}
    BY <2>3
  <2>7. Carries(e)
    BY <2>6 DEF Carries
  <2> QED
    BY <1>13, <2>4, <2>5, <2>6, <2>7
<1> QED
  BY <1>6, <1>7, <1>8, <1>9, <1>10, <1>11, <1>12, <1>14, <1>15, <1>16 DEF World
-----------------------------------------------------------------------------
(* The plot: the next event is taken *)

\* The links of what is left begin with the event that was taken.
LEMMA LinksAreTaken ==
  ASSUME DisplayInvariant, LinksFit, mail # <<>>, mail' = Tail(mail), peer' = peer
  PROVE  /\ Fits(mail[1], app.connection)
         /\ app'.connection = LinkAfter(app.connection, mail[1]) => LinksFit'
<1>1. PICK S : mail \in Seq(S)
  BY DEF DisplayInvariant, MailIsRight
<1>2. PICK m \in Nat : m = Len(mail)
  BY <1>1, LenProperties
<1>3. /\ m # 0 /\ Len(mail') = m - 1 /\ \A k \in 1..(m - 1) : mail'[k] = mail[k + 1]
  BY <1>1, <1>2, HeadTailProperties, EmptySeq
<1>4. PICK links : Links(links)
  BY DEF LinksFit
<1>5. /\ links[0] = app.connection /\ links[m] = peer.link
      /\ \A k \in 1..m : links[k] = LinkAfter(links[k - 1], mail[k]) /\ Fits(mail[k], links[k - 1])
  BY <1>2, <1>4 DEF Links
<1>6. 1 \in 1..m /\ 1 - 1 = 0
  BY <1>3
<1>7. links[1] = LinkAfter(app.connection, mail[1]) /\ Fits(mail[1], app.connection)
  BY <1>5, <1>6
<1> SUFFICES ASSUME app'.connection = LinkAfter(app.connection, mail[1]) PROVE LinksFit'
  BY <1>7
<1>8. PICK left : left = [k \in 0..(m - 1) |-> links[k + 1]]
  OBVIOUS
<1>9. \A k \in 0..(m - 1) : left[k] = links[k + 1]
  BY <1>8
<1>10. left[0] = app'.connection /\ left[m - 1] = peer'.link
  <2>1. 0 \in 0..(m - 1) /\ m - 1 \in 0..(m - 1) /\ (m - 1) + 1 = m /\ 0 + 1 = 1
    BY <1>3
  <2> QED
    BY <1>5, <1>7, <1>9, <2>1
<1>11. ASSUME NEW k \in 1..(m - 1)
       PROVE  left[k] = LinkAfter(left[k - 1], mail'[k]) /\ Fits(mail'[k], left[k - 1])
  <2>1. k + 1 \in 1..m /\ (k + 1) - 1 = k /\ k - 1 \in 0..(m - 1) /\ (k - 1) + 1 = k
        /\ k \in 0..(m - 1)
    OBVIOUS
  <2>2. left[k] = links[k + 1] /\ left[k - 1] = links[k] /\ mail'[k] = mail[k + 1]
    BY <1>3, <1>9, <2>1
  <2>3. links[k + 1] = LinkAfter(links[k], mail[k + 1]) /\ Fits(mail[k + 1], links[k])
    BY <1>5, <2>1
  <2> QED
    BY <2>2, <2>3
<1>12. Links(left)'
  BY <1>3, <1>10, <1>11 DEF Links
<1> QED
  BY <1>12 DEF LinksFit

\* An event is dispatched and given to the sink, or waits for a frame.
LEMMA EventIsPlotted ==
  ASSUME DisplayInvariant, PlotIsRight, TakeEvent, NEW e, e = Head(mail)
  PROVE  /\ mail # <<>> /\ mail' = Tail(mail) /\ peer' = peer /\ shown' = shown
         /\ due' \in Nat /\ (due' = 0 <=> due = 0)
         /\ IsEvent(e) /\ e = mail[1] /\ MayFollow(e, app.generation) /\ e.at \in Nat
         /\ past \in [Causes -> Nat] /\ \A k \in {"sensor", "plot"} : past[k] \in Nat /\ past[k] < e.at
         /\ \A k \in {"sensor", "plot"} : past'[k] = IF k \in e.cuts THEN e.at ELSE past[k]
         /\ IsApp(app) /\ app.backend.at < e.at /\ app.connectionAt < e.at
         /\ Fits(e, app.connection) /\ Moved(app, e, app') /\ Sunk(e)
<1>1. /\ mail # <<>> /\ mail' = Tail(mail) /\ clock' = clock /\ peer' = peer /\ shown' = shown
      /\ due' = IF due = 0 THEN 0 ELSE due + 1
      /\ past' = [k \in DOMAIN past |-> IF k \in e.cuts \/ k = e.type THEN e.at ELSE past[k]]
  BY Zenon DEF TakeEvent, world
<1>2. MailIsRight /\ TimesAreRight /\ PlotShape /\ LinksFit
  BY DEF DisplayInvariant, PlotIsRight
<1>3. Taken \in Nat /\ e.at = Taken + 1 /\ IsEvent(e) /\ e = mail[1]
  BY <1>1, <1>2, MailIsTaken
<1>4. MayFollow(e, app.generation)
  <2>1. 1 \in 1..Len(mail) /\ 1 - 1 = 0
    BY <1>1, <1>2, LenProperties, EmptySeq DEF MailIsRight
  <2> QED
    BY <1>2, <1>3, <2>1 DEF MailIsRight, Generations
<1>5. PICK taken \in Nat : taken = Taken /\ e.at = taken + 1
  BY <1>3
<1>6. /\ past \in [Causes -> Nat] /\ \A k \in Causes : past[k] \in Nat /\ past[k] <= taken
      /\ IsApp(app) /\ app.backend.at <= taken /\ app.connectionAt <= taken
  BY <1>2, <1>5 DEF TimesAreRight
<1>7. e.at \in Nat /\ e.at > app.backend.at /\ e.at > app.connectionAt
  <2>1. app.backend.at \in Nat /\ app.connectionAt \in Nat
    BY <1>6 DEF IsApp
  <2> QED
    BY <1>5, <1>6, <2>1
<1>8. \A k \in {"sensor", "plot"} : past[k] \in Nat /\ past[k] < e.at
  BY <1>5, <1>6 DEF Causes
<1>9. \A k \in {"sensor", "plot"} : past'[k] = IF k \in e.cuts THEN e.at ELSE past[k]
  <2>1. e.type \notin {"sensor", "plot"} /\ {"sensor", "plot"} \subseteq DOMAIN past
    BY <1>3, <1>6 DEF IsEvent, Causes
  <2> QED
    BY <1>1, <2>1
<1>10. /\ IsChart(chart) /\ IsBoundary(boundary) /\ due \in Nat
       /\ app.connection \in Unplotted => app.plot.batch = 0
  BY <1>2 DEF PlotShape
<1>11. Fits(e, app.connection)
  BY <1>1, <1>2, <1>3, LinksAreTaken
<1>12. Moved(app, e, app') /\ Sunk(e)
  <2>1. CASE e.type = "live_wrench"
    <3>1. app' = app /\ mounted' = mounted /\ chart' = chart /\ boundary' = boundary
      BY <2>1, Zenon DEF TakeEvent, plot
    <3>2. /\ \A link : LinkAfter(link, e) = link
          /\ \A g : GenerationAfter(g, e) = g
          /\ ~IsOfBackend(e) /\ ~Moves(e)
      BY <2>1 DEF LinkAfter, GenerationAfter, Ends, IsOfBackend, Moves
    <3>3. Moved(app, e, app')
      BY <1>10, <2>1, <3>1, <3>2 DEF Moved, BatchIs
    <3>4. PointsAre(e)
      BY <2>1, <3>1, <3>2 DEF PointsAre
    <3>5. Sunk(e)
      BY <1>10, <3>1, <3>2, <3>4 DEF Sunk
    <3> QED
      BY <3>3, <3>5
  <2>2. CASE e.type # "live_wrench"
    <3>1. app' = Reduce(app, e) /\ Sink(e)
      BY <2>2, Zenon DEF TakeEvent, Dispatch
    <3>2. Moved(app, e, Reduce(app, e))
      BY <1>3, <1>4, <1>6, <1>7, <1>10, <2>2, StateIsMoved
    <3>3. Sunk(e)
      BY <1>3, <1>7, <1>10, <2>2, <3>1, SinkIsRight
    <3> QED
      BY <3>1, <3>2, <3>3
  <2> QED
    BY <2>1, <2>2
<1> QED
  BY <1>1, <1>3, <1>4, <1>6, <1>7, <1>8, <1>9, <1>10, <1>11, <1>12

LEMMA TakeKeepsPlot ==
  ASSUME DisplayInvariant, PlotIsRight, TakeEvent
  PROVE  PlotIsRight'
<1>1. PICK e : e = Head(mail)
  OBVIOUS
<1>2. /\ mail # <<>> /\ mail' = Tail(mail) /\ peer' = peer /\ shown' = shown
      /\ due' \in Nat /\ (due' = 0 <=> due = 0)
      /\ IsEvent(e) /\ e = mail[1] /\ MayFollow(e, app.generation) /\ e.at \in Nat
      /\ IsApp(app) /\ app.backend.at < e.at /\ app.connectionAt < e.at
      /\ Fits(e, app.connection) /\ Moved(app, e, app') /\ Sunk(e)
  BY <1>1, EventIsPlotted
<1>3. /\ \A k \in {"sensor", "plot"} : past[k] \in Nat /\ past[k] < e.at
      /\ \A k \in {"sensor", "plot"} : past'[k] = IF k \in e.cuts THEN e.at ELSE past[k]
  BY <1>1, EventIsPlotted
<1>4. PICK begun, cut : begun = past["sensor"] /\ cut = past["plot"]
  OBVIOUS
<1>5. /\ begun \in Nat /\ begun < e.at /\ cut \in Nat /\ cut < e.at
      /\ past'["sensor"] = (IF "sensor" \in e.cuts THEN e.at ELSE begun)
      /\ past'["plot"] = (IF "plot" \in e.cuts THEN e.at ELSE cut)
  BY <1>3, <1>4
<1>6. /\ app'.connection = LinkAfter(app.connection, e)
      /\ app'.generation = GenerationAfter(app.generation, e)
      /\ app'.backend.at = (IF IsOfBackend(e) THEN e.at ELSE app.backend.at)
      /\ ~IsOfBackend(e) => app'.connectionAt = IF e.type = "connection_state" THEN e.at
                                                ELSE app.connectionAt
      /\ app'.preferences = app.preferences
      /\ app'.plot.batch \in {0, app.plot.batch} \/ (e.type = "plot_batch" /\ app'.plot.batch = e.at)
      /\ app'.connection \in Unplotted => app'.plot.batch = 0
  BY <1>2 DEF Moved, BatchIs
<1>7. /\ IsChart(chart) /\ IsBoundary(boundary) /\ IsApp(shown) /\ due \in Nat
      /\ app.preferences = Defaults /\ shown.preferences = Defaults
      /\ app.plot.batch \in Nat /\ shown.plot.batch \in Nat
      /\ app.connection \in Unplotted => app.plot.batch = 0
  BY DEF PlotIsRight, PlotShape
<1>8. /\ app.backend.at \in Nat /\ app.generation \in Nat /\ app.connectionAt \in Nat
      /\ shown.backend.at \in Nat /\ shown.generation \in Nat /\ shown.connectionAt \in Nat
  BY <1>2, <1>7 DEF IsApp
<1>9. /\ shown.backend.at <= app.backend.at
      /\ shown.backend.at = app.backend.at => /\ shown.generation <= app.generation
                                              /\ shown.connectionAt <= app.connectionAt
  BY DEF PlotIsRight, ShownIsBehind
\* What ends a sensor or a plot's points moves the link.
<1>10. "plot" \in e.cuts => Moves(e)
  BY <1>2 DEF Fits
<1>11. "sensor" \in e.cuts => /\ Moves(e) /\ app'.connection \in {"disconnected", "connecting"}
                              /\ Ends(e) \/ e.type = "connection_state"
  BY <1>2, <1>6 DEF IsEvent, Moves, IsOfBackend, Ends, LinkAfter
<1>12. e.type = "connection_state" =>
         /\ e.gen \in Nat /\ e.gen >= app.generation /\ (e.state = "connecting" => e.gen > app.generation)
         /\ app'.generation = e.gen /\ app'.connection = e.state /\ ~IsOfBackend(e)
  BY <1>2, <1>6 DEF IsEvent, MayFollow, GenerationAfter, LinkAfter, Ends, IsOfBackend
<1>13. ~IsOfBackend(e) /\ e.type # "connection_state" =>
         app'.generation = app.generation /\ app'.connection = app.connection
  BY <1>6 DEF GenerationAfter, LinkAfter, Ends, IsOfBackend
<1>14. PlotShape'
  BY <1>2, <1>6, <1>7 DEF PlotShape, Sunk
<1>15. LinksFit'
  <2>1. LinksFit /\ app'.connection = LinkAfter(app.connection, mail[1])
    BY <1>2, <1>6 DEF PlotIsRight
  <2> QED
    BY <1>2, <2>1, LinksAreTaken
<1>16. BatchIsNew'
  <2>1. /\ app.plot.batch = 0 \/ app.plot.batch > begun
        /\ app.connection = "streaming" => app.plot.batch = 0 \/ app.plot.batch > cut
    BY <1>4 DEF PlotIsRight, BatchIsNew
  <2>2. app'.plot.batch = 0 \/ app'.plot.batch > past'["sensor"]
    <3>1. CASE "sensor" \in e.cuts
      BY <1>6, <1>11, <3>1 DEF Unplotted
    <3>2. CASE "sensor" \notin e.cuts
      BY <1>5, <1>6, <2>1, <3>2
    <3> QED
      BY <3>1, <3>2
  <2>3. ASSUME app'.connection = "streaming"
        PROVE  app'.plot.batch = 0 \/ app'.plot.batch > past'["plot"]
    <3>1. ~Moves(e)
      <4>1. CASE IsOfBackend(e)
        <5>1. app'.connection = "disconnected"
          BY <1>2, <1>6, <4>1 DEF Fits, IsOfBackend, LinkAfter, Ends
        <5> QED
          BY <2>3, <5>1
      <4>2. CASE ~IsOfBackend(e)
        BY <1>12, <2>3, <4>2 DEF Moves
      <4> QED
        BY <4>1, <4>2
    <3>2. past'["plot"] = cut
      BY <1>5, <1>10, <3>1
    <3>3. CASE app.connection = "streaming"
      BY <1>5, <1>6, <2>1, <3>2, <3>3
    <3>4. CASE app.connection # "streaming"
      <4>1. e.type = "connection_state" /\ e.state = "streaming"
        BY <1>12, <1>13, <2>3, <3>1, <3>4 DEF Moves
      <4>2. app.connection \in {"connecting", "reconnecting"}
        BY <1>2, <3>4, <4>1 DEF Fits, IsStreaming
      <4> QED
        BY <1>6, <1>7, <4>1, <4>2 DEF Unplotted
    <3> QED
      BY <3>3, <3>4
  <2> QED
    BY <2>2, <2>3 DEF BatchIsNew
<1>17. ShownIsBehind'
  <2>1. CASE IsOfBackend(e)
    BY <1>2, <1>6, <1>8, <1>9, <2>1 DEF ShownIsBehind
  <2>2. CASE ~IsOfBackend(e)
    BY <1>2, <1>6, <1>8, <1>9, <1>12, <1>13, <2>2 DEF ShownIsBehind
  <2> QED
    BY <2>1, <2>2
<1>18. RenderedDiffers'
  <2> SUFFICES ASSUME shown.connection = "streaming", shown.plot.batch \in 1..(past'["sensor"])
               PROVE  Differs(Boundary(shown), app')
    BY <1>2 DEF RenderedDiffers
  <2>1. PICK b : b = Boundary(shown)
    OBVIOUS
  <2>2. b.epoch = shown.backend.at /\ b.generation = shown.generation
    BY <2>1 DEF Boundary
  <2>3. CASE "sensor" \notin e.cuts
    <3>1. Differs(b, app)
      BY <1>4, <1>5, <2>1, <2>3 DEF PlotIsRight, RenderedDiffers
    <3> QED
      BY <1>2, <1>8, <1>9, <2>1, <2>2, <3>1, DifferenceStays
  <2>4. CASE "sensor" \in e.cuts
    <3>1. CASE Ends(e)
      BY <1>6, <2>1, <3>1 DEF Differs, LinkAfter
    <3>2. CASE e.type = "connection_state"
      <4>1. app'.backend.at = app.backend.at
        BY <1>6, <1>12, <3>2
      <4>2. e.state \in {"connecting", "disconnected"}
        BY <1>11, <1>12, <2>4, <3>2
      <4> QED
        BY <1>8, <1>9, <1>12, <2>1, <2>2, <3>2, <4>1, <4>2 DEF Differs
    <3> QED
      BY <1>11, <2>4, <3>1, <3>2
  <2> QED
    BY <2>3, <2>4
<1>19. RenderIsSeen'
  <2> SUFFICES ASSUME shown.backend.at = app'.backend.at, shown.connectionAt = app'.connectionAt
               PROVE  /\ app'.generation = shown.generation /\ app'.connection = shown.connection
                      /\ due' = 0 /\ mounted' => /\ boundary'.epoch = app'.backend.at
                                                 /\ boundary'.generation = app'.generation
                                                 /\ boundary'.connection = app'.connection
    BY <1>2 DEF RenderIsSeen
  <2>1. ~IsOfBackend(e)
    BY <1>2, <1>6, <1>8, <1>9
  <2>2. e.type # "connection_state"
    BY <1>2, <1>6, <1>8, <1>9, <2>1
  <2>3. /\ app'.generation = app.generation /\ app'.connection = app.connection
        /\ app'.backend.at = app.backend.at /\ app'.connectionAt = app.connectionAt
    BY <1>6, <1>13, <2>1, <2>2
  <2>4. mounted' = mounted
    BY <1>2 DEF Sunk
  <2>5. mounted => /\ boundary'.epoch = boundary.epoch
                   /\ boundary'.generation = boundary.generation
                   /\ boundary'.connection = boundary.connection
    BY <1>2, <2>1, <2>2 DEF Sunk, GenerationAfter, LinkAfter, Ends, IsOfBackend
  <2> QED
    BY <1>2, <2>3, <2>4, <2>5 DEF PlotIsRight, RenderIsSeen
<1>20. PointsAreOfBoundary'
  <2>1. mounted' = mounted
    BY <1>2 DEF Sunk
  <2>2. CASE ~mounted
    BY <2>1, <2>2 DEF PointsAreOfBoundary
  <2>3. CASE Times(chart') = {}
    BY <2>3 DEF PointsAreOfBoundary
  <2>4. CASE mounted /\ Times(chart') # {}
    <3>1. /\ ~Moves(e) /\ (e.type = "connection_state" => e.gen = boundary.generation)
          /\ \/ chart' = chart
             \/ boundary.connection = "streaming" /\ Times(chart') \subseteq Times(chart) \union {e.at}
      BY <1>2, <2>4 DEF Sunk, PointsAre
    <3>2. past'["sensor"] = begun /\ past'["plot"] = cut
      BY <1>5, <1>10, <1>11, <3>1
    <3>3. \A t \in Times(chart') : t \in Times(chart) \/ t = e.at
      BY <3>1
    <3>4. /\ Times(chart) # {} => boundary.connection = "streaming"
          /\ \A t \in Times(chart) : t <= begun => Differs(boundary, app)
          /\ \A t, u \in Times(chart) : t <= cut /\ u <= cut => t = u \/ Differs(boundary, app)
          /\ due # 0 /\ shown.connection = "streaming" /\ shown.plot.batch \in 1..cut =>
               \A t \in Times(chart) : t <= cut => t = shown.plot.batch \/ Differs(boundary, app)
      BY <1>4, <2>4 DEF PlotIsRight, PointsAreOfBoundary
    <3>5. Differs(boundary, app) => Differs(boundary', app')
      BY <1>2, <1>7, <1>8, <2>4, <3>1, DifferenceMoves
    <3>6. boundary'.connection = "streaming"
      <4>1. boundary.connection = "streaming"
        BY <2>4, <3>1, <3>4
      <4>2. boundary'.connection = LinkAfter(boundary.connection, e)
        BY <1>2, <2>4 DEF Sunk
      <4> QED
        BY <3>1, <4>1, <4>2 DEF LinkAfter, Moves, IsOfBackend, Ends
    <3>7. ASSUME NEW t \in Times(chart'), t <= begun \/ t <= cut
          PROVE  t \in Times(chart)
      <4>1. PICK at \in Nat : at = e.at /\ begun < at /\ cut < at
        BY <1>2, <1>5
      <4>2. t # at
        <5>1. ~(at <= begun) /\ ~(at <= cut)
          BY <1>5, <4>1
        <5> QED
          BY <3>7, <5>1
      <4> QED
        BY <3>3, <4>1, <4>2
    <3>8. \A t \in Times(chart') : t <= begun => Differs(boundary', app')
      BY <3>4, <3>5, <3>7
    <3>9. \A t, u \in Times(chart') : t <= cut /\ u <= cut => t = u \/ Differs(boundary', app')
      BY <3>4, <3>5, <3>7
    <3>10. due # 0 /\ shown.connection = "streaming" /\ shown.plot.batch \in 1..cut =>
             \A t \in Times(chart') : t <= cut => t = shown.plot.batch \/ Differs(boundary', app')
      BY <3>4, <3>5, <3>7
    <3> QED
      BY <1>2, <2>1, <3>2, <3>6, <3>8, <3>9, <3>10 DEF PointsAreOfBoundary
  <2> QED
    BY <2>2, <2>3, <2>4
<1> QED
  BY <1>14, <1>15, <1>16, <1>17, <1>18, <1>19, <1>20 DEF PlotIsRight
-----------------------------------------------------------------------------
(* The plot: frames, renders and their effects *)

LEMMA FrameKeepsPlot ==
  ASSUME DisplayInvariant, PlotIsRight, Frame
  PROVE  PlotIsRight'
<1>1. UNCHANGED <<peer, mail, shown, due, mounted, chart, boundary, past>>
  BY DEF Frame, world, plot
<1>2. /\ app'.connection = app.connection /\ app'.plot = app.plot /\ app'.backend = app.backend
      /\ app'.preferences = app.preferences /\ app'.generation = app.generation
      /\ app'.connectionAt = app.connectionAt
  <2>1. CASE sample = 0
    BY <2>1 DEF Frame
  <2>2. CASE sample # 0
    <3>1. PICK e : e = [type |-> "live_wrench", at |-> sample]
      OBVIOUS
    <3>2. app' = Reduce(app, e)
      BY <2>2, <3>1 DEF Frame
    <3>3. e.type = "live_wrench" /\ e.at \in Nat /\ IsApp(app)
      BY <3>1 DEF DisplayInvariant, TimesAreRight
    <3>4. \A f \in {"backend", "connection", "generation", "connectionAt", "plot", "preferences"} :
            app'[f] = app[f]
      BY <3>2, <3>3, SampleIsReduced
    <3> QED
      BY <3>4
  <2> QED
    BY <2>1, <2>2
<1>3. PlotShape' /\ BatchIsNew' /\ ShownIsBehind'
  BY <1>1, <1>2 DEF PlotIsRight, PlotShape, BatchIsNew, ShownIsBehind
<1>4. LinksFit'
  BY <1>1, <1>2 DEF PlotIsRight, LinksFit, Links
<1>5. RenderedDiffers' /\ RenderIsSeen' /\ PointsAreOfBoundary'
  BY <1>1, <1>2 DEF PlotIsRight, RenderedDiffers, RenderIsSeen, PointsAreOfBoundary, Differs, Boundary
<1> QED
  BY <1>3, <1>4, <1>5 DEF PlotIsRight

\* What is rendered is what was dispatched, which has no older batch.
LEMMA RenderKeepsPlot ==
  ASSUME DisplayInvariant, PlotIsRight, Render
  PROVE  PlotIsRight'
<1>1. /\ UNCHANGED <<peer, mail, app, mounted, chart, boundary, past>>
      /\ shown' = app /\ due' = 1 /\ due = 0
  BY DEF Render, world, plot
<1>2. /\ IsApp(app) /\ past["sensor"] \in Nat /\ past["plot"] \in Nat
  BY DEF DisplayInvariant, TimesAreRight, Causes
<1>3. PlotShape' /\ BatchIsNew'
  BY <1>1, <1>2 DEF PlotIsRight, PlotShape, BatchIsNew
<1>4. LinksFit'
  BY <1>1 DEF PlotIsRight, LinksFit, Links
<1>5. ShownIsBehind'
  BY <1>1, <1>2 DEF ShownIsBehind, IsApp
<1>6. app.plot.batch \notin 1..(past["sensor"])
  BY <1>2 DEF PlotIsRight, BatchIsNew, PlotShape
<1>7. app.connection = "streaming" => app.plot.batch \notin 1..(past["plot"])
  BY <1>2 DEF PlotIsRight, BatchIsNew, PlotShape
<1>8. RenderedDiffers'
  BY <1>1, <1>6 DEF RenderedDiffers
<1>9. RenderIsSeen'
  BY <1>1 DEF RenderIsSeen
<1>10. PointsAreOfBoundary'
  BY <1>1, <1>7 DEF PlotIsRight, PointsAreOfBoundary
<1> QED
  BY <1>3, <1>4, <1>5, <1>8, <1>9, <1>10 DEF PlotIsRight

\* The effects leave the plot with the points it had, where its boundary was of the
\* connection that is rendered, and with the batch that is rendered in a stream.
LEMMA PlotIsEffected ==
  ASSUME PlotEffects, IsChart(chart), IsBoundary(boundary), IsApp(shown),
         shown.preferences = Defaults, shown.plot.batch \in Nat,
         mounted /\ Times(chart) # {} => boundary.connection = "streaming"
  PROVE  /\ IsChart(chart') /\ IsBoundary(boundary') /\ boundary' = Boundary(shown)
         /\ Times(chart') # {} => shown.connection = "streaming"
         /\ \A t \in Times(chart') :
              \/ /\ mounted /\ t \in Times(chart)
                 /\ boundary.epoch = shown.backend.at /\ boundary.generation = shown.generation
              \/ t = shown.plot.batch /\ t # 0 /\ shown.connection = "streaming"
<1>1. PICK b : b = Before
  OBVIOUS
<1>2. PICK now : now = Boundary(shown)
  OBVIOUS
<1>3. IsBoundary(now) /\ now.connection = shown.connection
      /\ now.epoch = shown.backend.at /\ now.generation = shown.generation
  BY <1>2 DEF Boundary, IsBoundary, IsApp
<1>4. /\ IsChart(b.chart) /\ (~mounted => Times(b.chart) = {}) /\ (mounted => b.chart = chart)
      /\ b.boundary = IF mounted THEN boundary ELSE now
  <2>1. CASE mounted
    <3>1. b = [boundary |-> boundary, chart |-> chart, last |-> appended]
      BY <1>1, <2>1 DEF Before
    <3> QED
      BY <2>1, <3>1
  <2>2. CASE ~mounted
    <3>1. PICK fresh : fresh = NewChart(Defaults.window)
      OBVIOUS
    <3>2. IsChart(fresh) /\ Times(fresh) = {}
      BY <3>1, NewChartIsEmpty, WindowIsOffered, ChartConstants
    <3>3. b = [boundary |-> now, last |-> 0, chart |-> fresh]
      BY <1>1, <1>2, <2>2, <3>1, Zenon DEF Before
    <3> QED
      BY <2>2, <3>2, <3>3
  <2> QED
    BY <2>1, <2>2
<1>5. PICK r : r = BoundaryEffect(shown, b.boundary, b.chart, b.last)
  OBVIOUS
<1>6. /\ r.chart \in {b.chart, Cleared(b.chart)}
      /\ \/ r.chart = Cleared(b.chart)
         \/ b.boundary = now
         \/ /\ b.boundary.epoch = now.epoch /\ b.boundary.generation = now.generation
            /\ now.connection = "streaming"
  <2>1. PICK cleared, last : /\ cleared = Cleared(b.chart)
                             /\ r \in {[chart |-> cleared, last |-> last],
                                       [chart |-> b.chart, last |-> b.last]}
                             /\ \/ r = [chart |-> cleared, last |-> last]
                                \/ b.boundary = now
                                \/ /\ b.boundary.epoch = now.epoch
                                   /\ b.boundary.generation = now.generation
                                   /\ now.connection = "streaming"
    BY <1>2, <1>5 DEF BoundaryEffect
  <2> QED
    BY <2>1
<1>7. IsChart(Cleared(b.chart)) /\ Times(Cleared(b.chart)) = {}
  BY <1>4, ClearedIsEmpty
<1>8. /\ IsChart(r.chart)
      /\ Times(r.chart) # {} => /\ mounted /\ r.chart = chart /\ shown.connection = "streaming"
                                /\ boundary.epoch = shown.backend.at
                                /\ boundary.generation = shown.generation
  <2>1. IsChart(r.chart)
    BY <1>4, <1>6, <1>7
  <2>2. ASSUME Times(r.chart) # {}
        PROVE  /\ mounted /\ r.chart = chart /\ shown.connection = "streaming"
               /\ boundary.epoch = shown.backend.at /\ boundary.generation = shown.generation
    <3>1. r.chart # Cleared(b.chart)
      BY <1>7, <2>2
    <3>2. mounted /\ r.chart = chart /\ b.boundary = boundary
      BY <1>4, <1>6, <2>2, <3>1
    <3>3. CASE boundary = now
      BY <1>3, <2>2, <3>2, <3>3
    <3>4. CASE boundary # now
      BY <1>3, <1>6, <3>1, <3>2, <3>4
    <3> QED
      BY <3>3, <3>4
  <2> QED
    BY <2>1, <2>2
<1>9. /\ boundary' = now
      /\ \/ chart' = r.chart
         \/ /\ chart' = Appended(r.chart, <<[axis |-> PlotAxis, time |-> shown.plot.batch,
                                             value |-> 1]>>)
            /\ shown.plot.batch # 0 /\ shown.connection = "streaming"
  BY <1>1, <1>2, <1>5, Zenon DEF PlotEffects, Live
<1>10. CASE chart' = r.chart
  BY <1>2, <1>3, <1>8, <1>9, <1>10
<1>11. CASE /\ chart' = Appended(r.chart, <<[axis |-> PlotAxis, time |-> shown.plot.batch,
                                             value |-> 1]>>)
            /\ shown.plot.batch # 0 /\ shown.connection = "streaming"
  <2>1. PICK at \in Nat : at = shown.plot.batch
    OBVIOUS
  <2>2. IsChart(chart') /\ Times(chart') \subseteq Times(r.chart) \union {at}
    BY <1>8, <1>11, <2>1, PointIsAppended
  <2> QED
    BY <1>2, <1>3, <1>8, <1>9, <1>11, <2>1, <2>2
<1> QED
  BY <1>9, <1>10, <1>11

LEMMA EffectsKeepPlot ==
  ASSUME DisplayInvariant, PlotIsRight, Effects
  PROVE  PlotIsRight'
<1>1. /\ UNCHANGED <<peer, mail, app, shown, past>> /\ due' = 0 /\ due # 0
      /\ IF mounted' THEN PlotEffects ELSE UNCHANGED <<chart, boundary>>
  BY DEF Effects, world
<1>2. /\ IsChart(chart) /\ IsBoundary(boundary) /\ IsApp(shown)
      /\ shown.preferences = Defaults /\ shown.plot.batch \in Nat
      /\ mounted /\ Times(chart) # {} => boundary.connection = "streaming"
  BY DEF PlotIsRight, PlotShape, PointsAreOfBoundary
<1>3. PICK old : old = boundary
  OBVIOUS
<1>4. mounted' =>
        /\ IsChart(chart') /\ IsBoundary(boundary') /\ boundary' = Boundary(shown)
        /\ Times(chart') # {} => shown.connection = "streaming"
        /\ \A t \in Times(chart') :
             \/ /\ mounted /\ t \in Times(chart)
                /\ old.epoch = shown.backend.at /\ old.generation = shown.generation
             \/ t = shown.plot.batch /\ t # 0 /\ shown.connection = "streaming"
  BY <1>1, <1>2, <1>3, PlotIsEffected
<1>5. PlotShape'
  <2>1. IsChart(chart') /\ IsBoundary(boundary')
    BY <1>1, <1>2, <1>4
  <2> QED
    BY <1>1, <2>1 DEF PlotIsRight, PlotShape
<1>6. LinksFit'
  BY <1>1 DEF PlotIsRight, LinksFit, Links
<1>7. BatchIsNew' /\ ShownIsBehind' /\ RenderedDiffers'
  BY <1>1 DEF PlotIsRight, BatchIsNew, ShownIsBehind, RenderedDiffers
<1>8. mounted' => /\ boundary'.epoch = shown.backend.at /\ boundary'.generation = shown.generation
                  /\ boundary'.connection = shown.connection
  BY <1>4 DEF Boundary
<1>9. RenderIsSeen'
  BY <1>1, <1>8 DEF PlotIsRight, RenderIsSeen
<1>10. PointsAreOfBoundary'
  <2> SUFFICES ASSUME mounted' PROVE PointsAreOfBoundary'
    BY DEF PointsAreOfBoundary
  <2>1. PICK begun, cut : begun = past["sensor"] /\ cut = past["plot"]
    OBVIOUS
  <2>2. PICK stay : stay = {t \in Times(chart') :
                              /\ mounted /\ t \in Times(chart)
                              /\ old.epoch = shown.backend.at /\ old.generation = shown.generation}
    OBVIOUS
  <2>3. \A t \in Times(chart') :
          t \in stay \/ (t = shown.plot.batch /\ t # 0 /\ shown.connection = "streaming")
    BY <1>4, <2>2
  <2>4. ASSUME NEW t \in stay
        PROVE  mounted /\ t \in Times(chart) /\ (Differs(old, app) => Differs(boundary', app))
    <3>1. /\ mounted /\ t \in Times(chart)
          /\ old.epoch = shown.backend.at /\ old.generation = shown.generation
      BY <2>2
    <3> QED
      BY <1>8, <3>1 DEF Differs
  <2>5. mounted =>
          /\ \A t \in Times(chart) : t <= begun => Differs(old, app)
          /\ \A t, u \in Times(chart) : t <= cut /\ u <= cut => t = u \/ Differs(old, app)
          /\ shown.connection = "streaming" /\ shown.plot.batch \in 1..cut =>
               \A t \in Times(chart) : t <= cut => t = shown.plot.batch \/ Differs(old, app)
    BY <1>1, <1>3, <2>1 DEF PlotIsRight, PointsAreOfBoundary
  <2>6. begun \in Nat /\ cut \in Nat
    BY <2>1 DEF DisplayInvariant, TimesAreRight, Causes
  <2>7. ASSUME NEW t \in Times(chart'), t <= begun
        PROVE  Differs(boundary', app)
    <3>1. CASE t \in stay
      BY <2>4, <2>5, <2>7, <3>1
    <3>2. CASE t = shown.plot.batch /\ t # 0 /\ shown.connection = "streaming"
      <4>1. t \in 1..begun
        BY <1>2, <2>6, <2>7, <3>2
      <4>2. Differs(Boundary(shown), app)
        BY <2>1, <3>2, <4>1 DEF PlotIsRight, RenderedDiffers
      <4> QED
        BY <1>4, <4>2
    <3> QED
      BY <2>3, <3>1, <3>2
  <2>8. ASSUME NEW t \in Times(chart'), NEW u \in Times(chart'), t <= cut, u <= cut
        PROVE  t = u \/ Differs(boundary', app)
    <3>1. \A x \in {t, u} : x = shown.plot.batch /\ x # 0 => x \in 1..cut
      BY <1>2, <2>6, <2>8
    <3>2. ASSUME NEW x \in stay, NEW y, y = shown.plot.batch, y \in 1..cut, x <= cut,
                 shown.connection = "streaming"
          PROVE  x = y \/ Differs(boundary', app)
      BY <2>4, <2>5, <3>2
    <3>3. CASE t \in stay /\ u \in stay
      BY <2>4, <2>5, <2>8, <3>3
    <3>4. CASE t \notin stay
      <4>1. t = shown.plot.batch /\ t \in 1..cut /\ shown.connection = "streaming"
        BY <2>3, <3>1, <3>4
      <4> QED
        BY <2>3, <2>8, <3>2, <4>1
    <3>5. CASE u \notin stay
      <4>1. u = shown.plot.batch /\ u \in 1..cut /\ shown.connection = "streaming"
        BY <2>3, <3>1, <3>5
      <4> QED
        BY <2>3, <2>8, <3>2, <4>1
    <3> QED
      BY <3>3, <3>4, <3>5
  <2>9. Times(chart') # {} => boundary'.connection = "streaming"
    BY <1>4, <1>8
  <2> QED
    BY <1>1, <2>1, <2>7, <2>8, <2>9 DEF PointsAreOfBoundary
<1> QED
  BY <1>5, <1>6, <1>7, <1>9, <1>10 DEF PlotIsRight
-----------------------------------------------------------------------------
LEMMA PlotInvariantInit ==
  ASSUME Init
  PROVE  PlotInvariant
<1>1. PICK events \in {<<>>, BackendUp, SensorUp} : LiveInit(Defaults, events)
  BY DEF Init
<1>2. DisplayInvariant /\ mail = <<>>
  BY <1>1, LiveStarts
<1>3. Starts(Defaults, events, app)
  BY <1>1, NothingCame, BackendCame, SensorCame DEF LiveInit
<1>4. PICK n \in Nat : n = Len(events)
  BY <1>3 DEF Starts
<1>5. /\ shown = app /\ due = 0 /\ chart = NewChart(Defaults.window) /\ boundary = Boundary(app)
      /\ app.connection = peer.link
  BY <1>1, LiveStarts, Zenon DEF LiveInit
<1>6. IsChart(chart) /\ Times(chart) = {}
  BY <1>5, NewChartIsEmpty, WindowIsOffered, ChartConstants
<1>7. app.plot.batch = 0 /\ app.preferences = Defaults /\ IsApp(app)
  <2>1. app.plot = EmptyPlot /\ app.preferences = Defaults /\ IsApp(app)
    BY <1>3 DEF Starts
  <2> QED
    BY <2>1 DEF EmptyPlot
<1>8. IsBoundary(boundary) /\ boundary.connection = app.connection
      /\ boundary.epoch = app.backend.at /\ boundary.generation = app.generation
  BY <1>5, <1>7 DEF Boundary, IsBoundary, IsApp
<1>9. Len(mail) = 0
  BY <1>2
<1>10. PlotShape
  BY <1>5, <1>6, <1>7, <1>8 DEF PlotShape
<1>11. LinksFit
  <2>1. PICK links : links = [k \in 0..0 |-> app.connection]
    OBVIOUS
  <2>2. Links(links)
    BY <1>5, <1>9, <2>1 DEF Links
  <2> QED
    BY <2>2 DEF LinksFit
<1>12. BatchIsNew
  BY <1>7 DEF BatchIsNew
<1>13. ShownIsBehind
  BY <1>5, <1>7 DEF ShownIsBehind, IsApp
<1>14. RenderedDiffers
  BY <1>5, <1>7 DEF RenderedDiffers
<1>15. RenderIsSeen
  BY <1>5, <1>8 DEF RenderIsSeen
<1>16. PointsAreOfBoundary
  BY <1>6 DEF PointsAreOfBoundary
<1> QED
  BY <1>2, <1>6, <1>10, <1>11, <1>12, <1>13, <1>14, <1>15, <1>16 DEF PlotInvariant, PlotIsRight

\* The controls leave the plot alone.
LEMMA ControlsRest ==
  ASSUME ControlsNext
  PROVE  chart' = chart
<1>1. \A es : Sends(es) => chart' = chart
  BY DEF Sends, Renderer, plot
<1>2. \A kind : Gives(kind) => chart' = chart
  BY DEF Gives, resting, plot
<1>3. CASE Unasked
  BY <1>1, <1>3 DEF Unasked, BackendRuns, RecordingFails, LinkChanges
<1>4. CASE Click
  BY <1>2, <1>4 DEF Click
<1>5. CASE MenuChosen
  BY <1>2, <1>5 DEF MenuChosen
<1>6. CASE DialogAnswered \/ HostStored \/ Executes \/ Answered \/ CompanionDies
  BY <1>6, Zenon DEF DialogAnswered, HostStored, Executes, Answered, CompanionDies, resting, plot
<1>7. CASE TakeMail \/ RenderControls \/ ControlsEffects
  BY <1>7, Zenon DEF TakeMail, RenderControls, ControlsEffects, resting, plot
<1> QED
  BY <1>3, <1>4, <1>5, <1>6, <1>7 DEF ControlsNext

LEMMA PlotInvariantStep ==
  ASSUME PlotInvariant, [Next]_vars
  PROVE  PlotInvariant'
<1>1. CASE Only("display") /\ LiveNext
  <2>1. scene = "display" /\ scene' = scene
    BY <1>1 DEF Only
  <2>2. DisplayInvariant /\ PlotIsRight
    BY <2>1 DEF PlotInvariant
  <2>3. DisplayInvariant'
    BY <1>1, <2>2, DisplayStep
  <2>4. PlotIsRight'
    BY <1>1, <2>2, WorldKeepsPlot, TakeKeepsPlot, FrameKeepsPlot, RenderKeepsPlot, EffectsKeepPlot
       DEF LiveNext
  <2> QED
    BY <2>1, <2>3, <2>4 DEF PlotInvariant
<1>2. CASE Only("controls") /\ ControlsNext
  <2>1. scene = "controls" /\ scene' = scene /\ chart' = chart
    BY <1>2, ControlsRest DEF Only
  <2> QED
    BY <2>1 DEF PlotInvariant
<1>3. ASSUME scene' = scene, UNCHANGED liveVars
      PROVE  PlotInvariant'
  <2>1. UNCHANGED <<peer, mail, app, shown, due, mounted, chart, boundary, past>>
    BY <1>3 DEF liveVars, world, plot
  <2>2. CASE scene = "display"
    <3>1. DisplayInvariant' /\ PlotIsRight
      BY <1>3, <2>2, LiveRests DEF PlotInvariant
    <3>2. PlotShape' /\ BatchIsNew' /\ ShownIsBehind' /\ RenderedDiffers'
      BY <2>1, <3>1 DEF PlotIsRight, PlotShape, BatchIsNew, ShownIsBehind, RenderedDiffers
    <3>3. RenderIsSeen' /\ PointsAreOfBoundary'
      BY <2>1, <3>1 DEF PlotIsRight, RenderIsSeen, PointsAreOfBoundary
    <3>4. LinksFit'
      BY <2>1, <3>1 DEF PlotIsRight, LinksFit, Links
    <3> QED
      BY <1>3, <2>2, <3>1, <3>2, <3>3, <3>4 DEF PlotInvariant, PlotIsRight
  <2>3. CASE scene # "display"
    BY <1>3, <2>1, <2>3 DEF PlotInvariant
  <2> QED
    BY <2>2, <2>3
<1>4. CASE \E part \in Scenes \ {"display", "controls"} : Only(part)
  <2>1. scene' = scene /\ UNCHANGED liveVars
    BY <1>4 DEF Only
  <2> QED
    BY <1>3, <2>1
<1>5. CASE UNCHANGED vars
  <2>1. scene' = scene /\ UNCHANGED liveVars
    BY <1>5 DEF vars
  <2> QED
    BY <1>3, <2>1
<1> QED
  BY <1>1, <1>2, <1>4, <1>5, Zenon DEF Next, Scenes

\* Once the effects have run the plot holds nothing that was measured before the last
\* change of backend or connection, and of before the last interruption at most one batch
\* (ChartWorkspace.tsx:277, 337): for events in any number, with renders and effects that
\* lag behind them as far as they may.
THEOREM PlotIsOfTheSession == Spec => []PlotIsOfOneSession
<1>1. PlotInvariant => PlotIsOfOneSession
  <2> SUFFICES ASSUME PlotInvariant, Settled, Times(chart) # {}
               PROVE  /\ \A t \in Times(chart) : t > past["sensor"]
                      /\ \A t, u \in Times(chart) : t <= past["plot"] /\ u <= past["plot"] => t = u
    BY DEF PlotIsOfOneSession
  <2>1. DisplayInvariant /\ PlotIsRight
    BY DEF PlotInvariant
  <2>2. app = shown /\ due = 0 /\ mounted /\ IsChart(chart)
    BY <2>1 DEF Settled, PlotIsRight, PlotShape
  <2>3. /\ boundary.epoch = app.backend.at /\ boundary.generation = app.generation
        /\ boundary.connection = app.connection /\ boundary.connection = "streaming"
    BY <2>1, <2>2 DEF PlotIsRight, RenderIsSeen, PointsAreOfBoundary
  <2>4. ~Differs(boundary, app)
    <3>1. app.generation \in Nat
      BY <2>1 DEF DisplayInvariant, TimesAreRight, IsApp
    <3> QED
      BY <2>3, <3>1 DEF Differs
  <2>5. \A t \in Times(chart) : ~(t <= past["sensor"])
    BY <2>1, <2>2, <2>4 DEF PlotIsRight, PointsAreOfBoundary
  <2>6. \A t, u \in Times(chart) : t <= past["plot"] /\ u <= past["plot"] => t = u
    BY <2>1, <2>2, <2>4 DEF PlotIsRight, PointsAreOfBoundary
  <2>7. past["sensor"] \in Nat
    BY <2>1 DEF DisplayInvariant, TimesAreRight, Causes
  <2>8. ASSUME NEW t \in Times(chart) PROVE t \in Nat
    <3>1. PICK a \in Axes : \E x \in ToSet(chart.series[a]) : t = x.time
      BY TimesAre
    <3>2. PICK x \in ToSet(chart.series[a]) : t = x.time
      BY <3>1
    <3>3. IsSeries(chart.series[a])
      BY <2>2 DEF IsChart
    <3>4. x \in Points
      BY <3>3, LenProperties DEF IsSeries, ToSet
    <3> QED
      BY <3>2, <3>4 DEF Points
  <2> QED
    BY <2>5, <2>6, <2>7, <2>8
<1>2. PlotInvariant /\ [Next]_vars => PlotInvariant'
  BY PlotInvariantStep
<1> QED
  BY PlotInvariantInit, <1>1, <1>2, PTL DEF Spec
=============================================================================
