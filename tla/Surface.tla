------------------------------- MODULE Surface -------------------------------
(***************************************************************************)
(* A chart on the page (useEChart): the library's instance, made once its  *)
(* container has a size, is given the option of the last render, and is    *)
(* replaced by a fallback for good when the library throws.  Renders,      *)
(* their effects and the observer's calls come in any order; the size and  *)
(* whether the library throws are the environment's.                       *)
(***************************************************************************)
EXTENDS Naturals

CONSTANTS MaxOptions, \* bound: options the component is rendered with
          MaxMounts   \* bound: how often it is mounted

VARIABLES
  onPage,    \* the component is mounted
  sized,     \* its container has a size
  option,    \* optionRef: the option of the last render
  instance,  \* instanceRef: whether there is one
  applied,   \* appliedOptionRef, 0 for undefined
  failing,   \* the state failed, as last set
  fallback,  \* failed, as rendered: the container is gone
  setup,     \* the effect that mounts the chart is still to run
  update,    \* the effect of the option is still to run
  observed,  \* the observer has a size to tell of
  alive,     \* history: instances made and not disposed of
  mounts     \* bound

surfaceVars == <<onPage, sized, option, instance, applied, failing, fallback, setup,
                 update, observed, alive, mounts>>

SurfaceInit ==
  /\ onPage = FALSE /\ sized = FALSE /\ option = 0 /\ mounts = 0
  /\ instance = FALSE /\ applied = 0 /\ failing = FALSE /\ fallback = FALSE
  /\ setup = FALSE /\ update = FALSE /\ observed = FALSE /\ alive = 0

\* The plot is shown, in a layout that may not give it a size yet.
Mounts ==
  /\ ~onPage /\ mounts < MaxMounts /\ mounts' = mounts + 1
  /\ option < MaxOptions
  /\ onPage' = TRUE /\ sized' \in BOOLEAN /\ option' = option + 1
  /\ setup' = TRUE /\ update' = TRUE
  /\ instance' = FALSE /\ applied' = 0 /\ failing' = FALSE /\ fallback' = FALSE
  /\ UNCHANGED <<observed, alive>>

\* fail, and the catch of the option's effect: what there is is disposed of.
Fail == /\ instance' = FALSE /\ applied' = 0 /\ failing' = TRUE /\ alive' = 0

\* Mutant: the chart is made without an option.
Initialize_bare ==
  \/ instance' = TRUE /\ alive' = 1 /\ UNCHANGED applied /\ failing' = FALSE
  \/ Fail

\* initialize, where there is a size and no instance: init, setOption, or a throw.
Initialize ==
  \/ instance' = TRUE /\ alive' = 1 /\ applied' = option /\ failing' = FALSE
  \/ Fail

\* The first effect: the container is observed, and the chart made if it can be.
SetsUp ==
  /\ onPage /\ setup /\ setup' = FALSE
  /\ observed' = TRUE
  /\ IF sized THEN Initialize ELSE UNCHANGED <<instance, applied, failing, alive>>
  /\ UNCHANGED <<onPage, sized, option, fallback, update, mounts>>

\* The option's effect, after it.
Updates ==
  /\ onPage /\ ~setup /\ update /\ update' = FALSE
  /\ \/ /\ ~instance \/ applied = option
        /\ UNCHANGED <<instance, applied, failing, alive>>
     \/ /\ instance /\ applied # option
        /\ \/ applied' = option /\ UNCHANGED <<instance, failing, alive>>
           \/ Fail
  /\ UNCHANGED <<onPage, sized, option, fallback, setup, observed, mounts>>

\* Rendered with another option or because it failed; effects that wait run first.
\* A container that is gone has no size.
Draws ==
  /\ onPage /\ ~setup /\ ~update
  /\ \/ /\ option < MaxOptions /\ option' = option + 1 /\ update' = TRUE
     \/ /\ failing # fallback /\ UNCHANGED <<option, update>>
  /\ fallback' = failing /\ sized' = (sized /\ ~failing)
  /\ UNCHANGED <<onPage, instance, applied, failing, setup, observed, alive, mounts>>

Resized ==
  /\ onPage /\ ~fallback /\ sized' = ~sized
  /\ observed' = (observed \/ ~setup)
  /\ UNCHANGED <<onPage, option, instance, applied, failing, fallback, setup, update,
                 alive, mounts>>

\* The observer calls resize, which makes the chart if there is none yet.
Observed ==
  /\ observed /\ observed' = FALSE
  /\ \/ ~sized /\ UNCHANGED <<instance, applied, failing, alive>>
     \/ sized /\ ~instance /\ Initialize
     \/ sized /\ instance /\ \/ UNCHANGED <<instance, applied, failing, alive>>
                             \/ Fail
  /\ UNCHANGED <<onPage, sized, option, fallback, setup, update, mounts>>

\* Another layout or a failed backend takes its place.
Unmounts ==
  /\ onPage /\ ~setup /\ onPage' = FALSE
  /\ instance' = FALSE /\ applied' = 0 /\ observed' = FALSE /\ update' = FALSE
  /\ alive' = IF instance THEN 0 ELSE alive
  /\ UNCHANGED <<sized, option, failing, fallback, setup, mounts>>

SurfaceNext == Mounts \/ SetsUp \/ Updates \/ Draws \/ Resized \/ Observed \/ Unmounts
-----------------------------------------------------------------------------
\* chart-workspace.test.tsx: what is on the page and has a size shows the option of
\* the last render or the fallback, and there is never an instance besides the one
\* that is shown, whatever threw and in which order renders and sizes came.
SurfaceShowsTheLast ==
  /\ alive = (IF instance THEN 1 ELSE 0)
  /\ ~onPage \/ fallback => alive = 0
  /\ onPage /\ ~setup /\ ~update /\ ~observed =>
       /\ instance => applied = option
       /\ sized /\ ~failing => instance
=============================================================================
