------------------------------- MODULE Frames -------------------------------
(***************************************************************************)
(* When a program is drawn: makeStepper                                    *)
(* (virtual-dom/2.0.4/src/Native/VirtualDom.js, lines 1535 to 1585).       *)
(*                                                                         *)
(* A new model asks for an animation frame, and the frame draws the last   *)
(* model given.  A model is the virtual node that view gives for it; what  *)
(* drawing does to the page is in module Stepper.  frames counts the       *)
(* callbacks the browser still owes.                                       *)
(***************************************************************************)
EXTENDS Integers

CONSTANT
    Programs      \* programs: views, the virtual nodes that view gives, and
                  \* bound, how many models it goes through after the first

VARIABLES
    state,        \* makeStepper's state
    frames,       \* requestAnimationFrame callbacks not yet run
    currNode,     \* the virtual node last drawn
    nextModel,    \* the model the next frame draws
    models        \* how many models there were

frameVars == <<state, frames, currNode, nextModel, models>>

FramesTypeOK ==
    /\ state \in {"NO_REQUEST", "PENDING_REQUEST", "EXTRA_REQUEST"}
    /\ frames \in Nat
    /\ models \in Nat

FramesInit ==
    /\ state = "NO_REQUEST"
    /\ frames = 0
    /\ currNode \in UNION {program.views : program \in Programs}
    /\ nextModel = currNode
    /\ models = 0

\* Mutant of stepper: asks for a frame for every model.
stepperAlways(model) ==
    /\ frames' = frames + 1
    /\ state' = "PENDING_REQUEST"
    /\ nextModel' = model
    /\ UNCHANGED currNode

\* Mutant of stepper: leaves a pending draw its model.
stepperFirst(model) ==
    /\ frames' = IF state = "NO_REQUEST" THEN frames + 1 ELSE frames
    /\ state' = IF state = "EXTRA_REQUEST" THEN "EXTRA_REQUEST" ELSE "PENDING_REQUEST"
    /\ nextModel' = model
    /\ UNCHANGED currNode

\* The program has a new model.
stepper(model) ==
    /\ frames' = IF state = "NO_REQUEST" THEN frames + 1 ELSE frames
    /\ state' = "PENDING_REQUEST"
    /\ nextModel' = model
    /\ UNCHANGED currNode

\* One of a program's models after the other.
NewModel ==
    \E program \in Programs :
      /\ nextModel \in program.views
      /\ models < program.bound
      /\ \E model \in program.views : stepper(model)
      /\ models' = models + 1

\* A frame draws the last model and asks for another frame.
Draw ==
    /\ frames > 0
    /\ state = "PENDING_REQUEST"
    /\ frames' = frames
    /\ state' = "EXTRA_REQUEST"
    /\ currNode' = nextModel
    /\ UNCHANGED <<nextModel, models>>

\* A frame with nothing to draw.
Idle ==
    /\ frames > 0
    /\ state = "EXTRA_REQUEST"
    /\ frames' = frames - 1
    /\ state' = "NO_REQUEST"
    /\ UNCHANGED <<currNode, nextModel, models>>

FramesNext == NewModel \/ Draw \/ Idle

\* A step of updateIfNeeded, told by what it does to the state.
Callback ==
    /\ frames > 0
    /\ state' = IF state = "PENDING_REQUEST" THEN "EXTRA_REQUEST" ELSE "NO_REQUEST"

\* The browser runs the callbacks it was given.
FramesSpec == FramesInit /\ [][FramesNext]_frameVars /\ WF_state(Callback)

-----------------------------------------------------------------------------

\* There is a callback when, and only when, makeStepper waits for one, and
\* never two: a callback in state NO_REQUEST throws 'Unexpected draw
\* callback', and two would draw twice a frame.  And a model that is not
\* drawn has a callback coming that will draw it: the extra frame, which
\* draws nothing, is never what is left.
OneFrame ==
    /\ FramesTypeOK
    /\ frames = IF state = "NO_REQUEST" THEN 0 ELSE 1
    /\ currNode # nextModel => state = "PENDING_REQUEST"

\* However models and frames interleave, a model that is not drawn yet does
\* not stay so: a frame draws it, or one that came after it.
DrawsLatest == currNode # nextModel ~> currNode = nextModel

=============================================================================
