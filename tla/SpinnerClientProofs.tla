-------------------------- MODULE SpinnerClientProofs --------------------------
(***************************************************************************)
(* Theorems about the spinner's process, for any number of outputs, any    *)
(* command line and configuration, wherever a call fails or a signal       *)
(* comes.                                                                  *)
(*                                                                         *)
(* main() passes through four phases: nothing is made, the surfaces are    *)
(* made one after the other, they are painted, they are destroyed one      *)
(* after the other.  The invariant says, phase by phase, how far the loop  *)
(* of the phase has come: which outputs have a surface (Placement), which  *)
(* surfaces show the current frame (Frames), which are released            *)
(* (Release).                                                              *)
(***************************************************************************)
EXTENDS SpinnerClient, FiniteSetTheorems, TLAPS

Preparing ==
    {"options", "connect", "display", "context", "dummy", "first_current", "place"}
Constructing == {"window", "eglsurface", "interval"}
Readying == {"running", "sigint", "sigterm", "set_up"}
InFrame == {"make_current", "draw", "swap"}
Working == Readying \cup InFrame \cup {"frame", "update"}
Unwinding == {"destroy", "release", "release_app"}
Ended == Unwinding \cup {"exited"}

\* How main() ends is decided when it begins to unwind.
Control ==
    /\ stage \notin Ended => status = "none"
    /\ stage \in Unwinding => status \in {"success", "failure"}
    /\ stage = "options" => connection = "none"
    /\ status = "success" /\ connection = "open" => stage # "exited"

Wanted == to_be_covered(display_config)

\* The outputs of the surfaces that were constructed, and not of the one under
\* construction
Placed ==
    (Wanted \ to_place)
        \ (IF stage \in {"eglsurface", "interval"} THEN {surface[new].output} ELSE {})

\* Every output that is wanted has one of the surfaces 1 .. held, or is still
\* to be placed, or has the surface under construction.
Placement ==
    /\ stage \in Preparing => held = 0
    /\ stage \in Constructing \cup Working =>
          /\ to_place \subseteq Wanted
          /\ Wanted # {}
          /\ held = Cardinality(Placed)
          /\ {surface[k].output : k \in 1 .. held} = Placed
          /\ \A k \in 1 .. held : surface[k].interval = parm.swapinterval
    /\ stage \in {"eglsurface", "interval"} => surface[new].output \in Wanted \ to_place
    /\ stage = "window" => to_place # {}
    /\ stage \in Working => to_place = {}

\* A window whose EGL surface is gone, or will be with the current one
EglGone(k) ==
    \/ surface[k].eglsurface = "destroyed"
    \/ surface[k].eglsurface = "deferred" /\ current = k

\* What is left of surface k when the app is released
LeftBehind(k) ==
    \/ surface[k].window = "none"
    \/ k = new /\ status = "failure"
    \/ surface[k].window = "released" /\ surface[k].eglsurface = "destroyed"

\* Surfaces are released from the first on, the one under construction when an
\* exception came is not.
Release ==
    /\ \A k \in Slot : surface[k].window = "released" => stage \in Ended /\ EglGone(k)
    /\ \A k \in Slot :
          /\ k > new => surface[k].window = "none"
          /\ k = new /\ surface[k].window # "none" =>
                \/ stage \in {"eglsurface", "interval", "exited"}
                \/ status = "failure"
    /\ stage \in Unwinding => \A k \in 1 .. held : k < at => surface[k].window = "released"
    /\ stage = "release" => at <= held /\ EglGone(at)
    /\ stage = "destroy" => at <= held + 1
    /\ stage = "release_app" => at = held + 1
    /\ app = "released" => stage = "exited" /\ \A k \in Slot : LeftBehind(k)

Shows(dots, ks) == \A k \in ks : shown[k] = dots

\* In a frame, the surfaces before `at` show the counter's dots already.
Frames ==
    /\ shown = [k \in Slot |-> shown[k]]
    /\ stage \in Preparing \cup Constructing \cup Readying => Shows(NoFrame, Slot)
    /\ stage = "frame" =>
          \/ Shows(NoFrame, 1 .. held)
          \/ \E n \in 0 .. 5 : Shows(orange_dots(n), 1 .. held)
    /\ stage \in InFrame => at \in 1 .. held /\ Shows(orange_dots(counter), 1 .. at - 1)
    /\ stage = "update" => Shows(orange_dots(counter), 1 .. held)
    /\ stage \in {"draw", "swap"} => current = at
    /\ stage = "swap" => back.dots = orange_dots(counter)

IInv == TypeOK /\ Control /\ Placement /\ Release /\ Frames

-----------------------------------------------------------------------------
\* How many surfaces there are

LEMMA OutputCount == Cardinality(Output) \in Nat \ {0}
BY ClientAssumption, FS_CardinalityType, FS_EmptySet

LEMMA WantedCount ==
    ASSUME TypeOK
    PROVE  IsFiniteSet(Wanted) /\ Cardinality(Wanted) <= Cardinality(Output)
<1>1. CASE Wanted = {parm.output_id}
  <2>1. IsFiniteSet({parm.output_id}) /\ Cardinality({parm.output_id}) = 1
    BY FS_Singleton
  <2> QED BY <1>1, <2>1, OutputCount
<1>2. CASE Wanted = display_config
  BY <1>2, ClientAssumption, FS_Subset DEF TypeOK
<1> QED BY <1>1, <1>2 DEF Wanted, to_be_covered

\* There is a slot for the surface under construction: an output is left.
LEMMA SlotLeft ==
    ASSUME TypeOK, Placement, stage \in Constructing
    PROVE  new \in Slot
<1> USE DEF Placement, Constructing
<1>1. Placed \subseteq Wanted /\ Placed # Wanted
  BY DEF Placed
<1>2. Cardinality(Placed) < Cardinality(Wanted)
  <2>1. /\ Cardinality(Placed) <= Cardinality(Wanted)
        /\ Cardinality(Placed) # Cardinality(Wanted)
    BY <1>1, WantedCount, FS_Subset
  <2>2. Cardinality(Placed) \in Nat /\ Cardinality(Wanted) \in Nat
    BY <1>1, WantedCount, FS_Subset, FS_CardinalityType
  <2> QED BY <2>1, <2>2
<1>3. Cardinality(Wanted) \in Nat
  BY WantedCount, FS_CardinalityType
<1> QED BY <1>2, <1>3, WantedCount, OutputCount DEF TypeOK, new, Slot

\* The dots are lit from the first one on.
LEMMA DotsInOrder == \A n \in 0 .. 5 : orange_dots(n) = {i \in 0 .. 4 : i < n}
<1>1. 2 ^ 0 = 1 /\ 2 ^ 1 = 2 /\ 2 ^ 2 = 4 /\ 2 ^ 3 = 8 /\ 2 ^ 4 = 16
  OBVIOUS
<1>2. ASSUME NEW n \in 0 .. 5, NEW i \in 0 .. 4
      PROVE  sequence[n + 1] \div 2 ^ i # 0 <=> i < n
  <2> DEFINE power == 2 ^ i
             mask == sequence[n + 1]
  <2>1. i \in {0, 1, 2, 3, 4}
    OBVIOUS
  <2>2. <<i, power>> \in {<<0, 1>>, <<1, 2>>, <<2, 4>>, <<3, 8>>, <<4, 16>>}
    BY <1>1, <2>1, Zenon
  <2>3. <<n, mask>> \in {<<0, 0>>, <<1, 1>>, <<2, 3>>, <<3, 7>>, <<4, 15>>, <<5, 31>>}
    BY DEF sequence
  <2> HIDE DEF power, mask
  <2>4. mask \div power # 0 <=> i < n
    BY <2>2, <2>3
  <2> QED BY <2>4 DEF power, mask
<1> QED BY <1>2 DEF orange_dots

-----------------------------------------------------------------------------
\* One lemma per part of the invariant

LEMMA TypeStep == IInv /\ [Next]_vars => TypeOK'
<1> SUFFICES ASSUME IInv, [Next]_vars
             PROVE  TypeOK'
  OBVIOUS
<1> USE OutputCount DEF IInv, TypeOK, Stage, goto, exit, throw, leave_main, Slot
<1>1. CASE read_options
  BY <1>1 DEF read_options, env, egl, painting
<1>2. CASE connect
  BY <1>2 DEF connect, env, placing, painting
<1>3. CASE initialize_display \/ create_context \/ create_dummy \/ first_make_current
  BY <1>3
  DEF initialize_display, create_context, create_dummy, first_make_current, construct_app,
      env, placing, painting
<1>4. CASE place
  BY <1>4 DEF place, to_be_covered, active_outputs, Parm, env, egl, painting
<1>5. CASE create_window
  <2>1. CASE UNCHANGED <<surface, to_place>> /\ throw
    BY <1>5, <2>1 DEF create_window, env, painting
  <2>2. ASSUME NEW o \in to_place,
               surface' = [surface EXCEPT ![new] = [@ EXCEPT !.output = o, !.window = "open"]],
               to_place' = to_place \ {o}, goto("eglsurface")
        PROVE  TypeOK'
    <3>1. new \in Slot
      BY <1>5, SlotLeft DEF create_window, Constructing
    <3>2. surface' \in [Slot -> Surface]
      <4>1. surface[new] \in Surface /\ o \in Output \cup {InvalidOutput, AbsentOutput}
        BY <2>2, <3>1
      <4>2. [surface[new] EXCEPT !.output = o, !.window = "open"] \in Surface
        BY <4>1 DEF Surface
      <4> QED BY <2>2, <3>1, <4>2
    <3>3. to_place' \subseteq Output \cup {InvalidOutput, AbsentOutput}
      BY <2>2
    <3>4. /\ stage' \in Stage /\ UNCHANGED <<status, at>>
          /\ UNCHANGED <<composited, asked, connection, app, surfaceless, current, held, parm,
                         display_config, counter, second_over, handlers, running>>
      BY <1>5, <2>2 DEF create_window, painting
    <3> QED BY <3>2, <3>3, <3>4
  <2> QED BY <1>5, <2>1, <2>2 DEF create_window
<1>6. CASE create_surface
  <2>1. CASE surface' = [surface EXCEPT ![new].eglsurface = "open"] /\ goto("interval")
    <3>1. new \in Slot
      BY <1>6, SlotLeft DEF create_surface, Constructing
    <3>2. [surface[new] EXCEPT !.eglsurface = "open"] \in Surface
      <4>1. surface[new] \in Surface
        BY <3>1
      <4> QED BY <4>1 DEF Surface
    <3>3. surface' \in [Slot -> Surface]
      BY <2>1, <3>1, <3>2
    <3>4. stage' \in Stage /\ UNCHANGED <<status, at>>
      BY <2>1
    <3> QED BY <1>6, <3>3, <3>4 DEF create_surface, env, placing, painting
  <2>2. CASE UNCHANGED surface /\ throw
    BY <1>6, <2>2 DEF create_surface, env, placing, painting
  <2> QED BY <1>6, <2>1, <2>2 DEF create_surface
<1>7. CASE set_swap_interval
  <2>1. new \in Slot
    BY <1>7, SlotLeft DEF set_swap_interval, Constructing
  <2>2. surface' \in [Slot -> Surface]
    <3>1. \A k \in Slot : [surface[k] EXCEPT !.interval = parm.swapinterval] \in Surface
      BY DEF Surface, Parm
    <3> QED BY <1>7, <2>1, <3>1 DEF set_swap_interval
  <2>3. current' \in Slot \cup {EGL_NO_SURFACE, dummy_surface}
    BY <1>7, <2>1 DEF set_swap_interval, current_after_interval
  <2>4. held' \in 0 .. Cardinality(Output)
    BY <1>7, <2>1 DEF set_swap_interval, new
  <2>5. stage' \in Stage /\ status' \in {status, "failure"} /\ at' \in {at, 1}
    BY <1>7 DEF set_swap_interval
  <2> QED
    BY <1>7, <2>2, <2>3, <2>4, <2>5 DEF set_swap_interval, env, placing, painting
<1>8. CASE start_running
  <2> USE DEF set_running, install, unchanged_main, env, egl, placing, painting
  <2>1. CASE set_running("running", "sigint")
    BY <1>8, <2>1 DEF start_running
  <2>2. CASE install("sigint", "SIGINT", "sigterm") \/ install("sigterm", "SIGTERM", "set_up")
    <3>1. handlers' \subseteq Signal /\ UNCHANGED running /\ stage' \in Stage
      BY <2>2 DEF Signal
    <3> QED BY <1>8, <2>2, <3>1 DEF start_running
  <2> QED BY <1>8, <2>1, <2>2 DEF start_running, become_running
<1>9. CASE set_up
  BY <1>9 DEF set_up, unchanged_main, env, egl, placing, painting
<1>10. CASE next_frame
  BY <1>10 DEF next_frame, unchanged_main, env, egl, placing, painting
<1>11. CASE make_current
  BY <1>11 DEF make_current, Frames, InFrame, env, placing, painting
<1>12. CASE draw
  BY <1>12 DEF draw, unchanged_main, env, egl, placing
<1>13. CASE updateAnimation
  <2>1. second_over' \in BOOLEAN
    BY <1>13 DEF updateAnimation, animate
  <2>2. counter' \in 0 .. 5
    BY <1>13 DEF updateAnimation, animate
  <2> QED
    BY <1>13, <2>1, <2>2 DEF updateAnimation, unchanged_main, env, egl, placing
<1>14. CASE swap_buffers
  BY <1>14
  DEF swap_buffers, between_surfaces, unchanged_main, Frames, InFrame, env, egl, placing
<1>15. CASE destroy_surface
  <2>1. surface' \in [Slot -> Surface]
    <3>1. \A k \in Slot : [surface[k] EXCEPT !.eglsurface = IF current = k THEN "deferred"
                                                             ELSE "destroyed"] \in Surface
      BY DEF Surface
    <3> QED BY <1>15, <3>1 DEF destroy_surface
  <2> QED BY <1>15, <2>1 DEF destroy_surface, env, placing, painting
<1>16. CASE release_window
  <2>1. surface' \in [Slot -> Surface]
    <3>1. \A k \in Slot : [surface[k] EXCEPT !.window = "released"] \in Surface
      BY DEF Surface
    <3> QED BY <1>16, <3>1 DEF release_window
  <2>2. at' \in 1 .. Cardinality(Output) + 1
    BY <1>16 DEF release_window, Release
  <2> QED BY <1>16, <2>1, <2>2 DEF release_window, env, placing, painting
<1>17. CASE release_app
  <2>1. surface' \in [Slot -> Surface]
    <3>1. \A k \in Slot : [surface[k] EXCEPT !.eglsurface = "destroyed"] \in Surface
      BY DEF Surface
    <3> QED BY <1>17, <3>1 DEF release_app, surfaces_without_current
  <2> QED BY <1>17, <2>1 DEF release_app, env, placing, painting
<1>18. ASSUME NEW sig \in Signal, signal(sig)
       PROVE  TypeOK'
  <2>1. CASE sig \in handlers
    <3>1. /\ running' = FALSE /\ asked' = TRUE
          /\ UNCHANGED <<stage, status, at, composited, parm, display_config, to_place, handlers,
                         connection, app, surfaceless, current, surface, held, counter, second_over>>
      BY <1>18, <2>1 DEF signal, env, egl, placing, painting
    <3>2. asked' \in BOOLEAN /\ running' \in BOOLEAN
      BY <3>1
    <3> QED BY <3>1, <3>2
  <2>2. CASE sig \notin handlers
    BY <1>18, <2>2 DEF signal, env, egl, placing, painting
  <2> QED BY <2>1, <2>2
<1>19. CASE outputs_turn
  BY <1>19 DEF outputs_turn, env, egl, placing, painting, control
<1>20. CASE UNCHANGED vars
  BY <1>20 DEF vars, env, egl, placing, painting, control
<1> QED
  BY <1>1, <1>2, <1>3, <1>4, <1>5, <1>6, <1>7, <1>8, <1>9, <1>10, <1>11, <1>12, <1>13,
     <1>14, <1>15, <1>16, <1>17, <1>18, <1>19, <1>20
  DEF Next, Starting, Painting, Leaving

LEMMA ControlStep == IInv /\ [Next]_vars => Control'
<1> SUFFICES ASSUME IInv, [Next]_vars
             PROVE  Control'
  OBVIOUS
<1> USE DEF IInv, Control, Ended, Unwinding, goto, exit, throw, leave_main
<1>1. CASE read_options
  BY <1>1 DEF read_options, egl
<1>2. CASE connect
  BY <1>2 DEF connect
<1>3. CASE initialize_display \/ create_context \/ create_dummy \/ first_make_current
  BY <1>3
  DEF initialize_display, create_context, create_dummy, first_make_current, construct_app
<1>4. CASE place \/ create_window
  BY <1>4 DEF place, create_window, egl
<1>5. CASE create_surface
  BY <1>5 DEF create_surface
<1>6. CASE set_swap_interval
  BY <1>6 DEF set_swap_interval
<1>7. CASE start_running
  BY <1>7 DEF start_running, become_running, set_running, install, unchanged_main, egl
<1>8. CASE set_up \/ next_frame
  BY <1>8 DEF set_up, next_frame, unchanged_main, egl
<1>9. CASE make_current
  BY <1>9 DEF make_current
<1>10. CASE draw \/ updateAnimation
  BY <1>10 DEF draw, updateAnimation, unchanged_main, egl
<1>11. CASE swap_buffers
  BY <1>11 DEF swap_buffers, unchanged_main, egl
<1>12. CASE Leaving
  BY <1>12 DEF Leaving, destroy_surface, release_window, release_app
<1>13. CASE \E sig \in Signal : signal(sig)
  BY <1>13 DEF signal, egl
<1>14. CASE outputs_turn \/ UNCHANGED vars
  BY <1>14 DEF outputs_turn, vars, egl, control
<1> QED
  BY <1>1, <1>2, <1>3, <1>4, <1>5, <1>6, <1>7, <1>8, <1>9, <1>10, <1>11, <1>12, <1>13, <1>14
  DEF Next, Starting, Painting

\* Only four steps change what Placement is about.
LEMMA PlacementStep == IInv /\ [Next]_vars => Placement'
<1> SUFFICES ASSUME IInv, [Next]_vars
             PROVE  Placement'
  OBVIOUS
<1> USE DEF IInv, Placement, Preparing, Constructing, Working, Readying, InFrame,
            goto, exit, throw, leave_main
<1>1. ASSUME held' = held, stage' \in Ended
      PROVE  Placement'
  BY <1>1 DEF Ended, Unwinding
<1>2. ASSUME UNCHANGED <<held, surface>>, UNCHANGED placing, stage' = stage
      PROVE  Placement'
  BY <1>2 DEF placing, Wanted, Placed, to_be_covered, new
<1>3. ASSUME UNCHANGED <<held, surface>>, UNCHANGED placing, stage \in Working, stage' \in Working
      PROVE  Placement'
  BY <1>3 DEF placing, Wanted, Placed, to_be_covered, new
<1>4. ASSUME UNCHANGED held, stage \in Preparing, stage' \in Preparing
      PROVE  Placement'
  BY <1>4
<1>5. CASE place
  <2>1. CASE throw
    BY <1>1, <1>5, <2>1 DEF place, Ended, Unwinding, egl
  <2>2. CASE to_place' # {} /\ goto("window")
    <3>1. to_place' = Wanted' /\ held' = 0
      BY <1>5, <2>2 DEF place, Wanted, to_be_covered, egl
    <3>2. Placed' = {}
      BY <2>2, <3>1 DEF Placed
    <3>3. {surface'[k].output : k \in 1 .. held'} = {}
      BY <3>1
    <3> QED BY <2>2, <3>1, <3>2, <3>3, FS_EmptySet
  <2> QED BY <1>5, <2>1, <2>2 DEF place
<1>6. CASE create_window
  <2>1. CASE throw
    BY <1>1, <1>6, <2>1 DEF create_window, Ended, Unwinding
  <2>2. ASSUME NEW o \in to_place,
               surface' = [surface EXCEPT ![new] = [@ EXCEPT !.output = o, !.window = "open"]],
               to_place' = to_place \ {o}, goto("eglsurface")
        PROVE  Placement'
    <3>0. stage = "window"
      BY <1>6 DEF create_window
    <3>1. UNCHANGED <<held, parm, display_config>> /\ new' = new /\ Wanted' = Wanted
      BY <1>6 DEF create_window, Wanted, to_be_covered, new
    <3>2. new \in Slot /\ new \notin 1 .. held /\ 1 .. held \subseteq Slot
      BY <3>0, SlotLeft, OutputCount DEF TypeOK, new, Slot
    <3>3. surface'[new].output = o
      BY <2>2, <3>2 DEF TypeOK, Surface
    <3>4. Placed' = Placed
      <4>1. Placed' = (Wanted \ to_place') \ {o}
        BY <2>2, <3>1, <3>3 DEF Placed
      <4>2. Placed = Wanted \ to_place
        BY <3>0 DEF Placed
      <4> QED BY <2>2, <4>1, <4>2
    <3>5. \A k \in 1 .. held : surface'[k] = surface[k]
      BY <2>2, <3>2 DEF TypeOK
    <3>6. {surface'[k].output : k \in 1 .. held} = {surface[k].output : k \in 1 .. held}
      BY <3>5
    <3>7. stage' = "eglsurface" /\ o \in Wanted
      BY <2>2, <3>0
    <3> QED BY <2>2, <3>0, <3>1, <3>3, <3>4, <3>5, <3>6, <3>7
  <2> QED BY <1>6, <2>1, <2>2 DEF create_window
<1>7. CASE create_surface
  <2>1. CASE throw
    BY <1>1, <1>7, <2>1 DEF create_surface, Ended, Unwinding
  <2>2. CASE surface' = [surface EXCEPT ![new].eglsurface = "open"] /\ goto("interval")
    <3>1. UNCHANGED <<held, parm, to_place>> /\ new' = new /\ Wanted' = Wanted
      BY <1>7 DEF create_surface, placing, Wanted, to_be_covered, new
    <3>2. new \in Slot /\ 1 .. held \subseteq Slot
      BY <1>7, SlotLeft, OutputCount DEF create_surface, TypeOK, new, Slot
    <3>3. \A k \in Slot : /\ surface'[k].output = surface[k].output
                          /\ surface'[k].interval = surface[k].interval
      BY <2>2 DEF TypeOK, Surface
    <3>4. Placed' = Placed
      BY <1>7, <2>2, <3>1, <3>2, <3>3 DEF create_surface, Placed
    <3>5. {surface'[k].output : k \in 1 .. held} = {surface[k].output : k \in 1 .. held}
      BY <3>2, <3>3
    <3> QED BY <1>7, <2>2, <3>1, <3>2, <3>3, <3>4, <3>5 DEF create_surface
  <2> QED BY <1>7, <2>1, <2>2 DEF create_surface
<1>8. CASE set_swap_interval
  <2>1. CASE throw
    BY <1>1, <1>8, <2>1 DEF set_swap_interval, Ended, Unwinding
  <2>2. CASE /\ surface' = [k \in Slot |->
                    IF k = interval_set_on(new)
                    THEN [surface[k] EXCEPT !.interval = parm.swapinterval] ELSE surface[k]]
             /\ held' = new
             /\ goto(IF to_place = {} THEN "running" ELSE "window")
    <3>1. UNCHANGED <<parm, to_place>> /\ Wanted' = Wanted
      BY <1>8 DEF set_swap_interval, placing, Wanted, to_be_covered
    <3>2. new \in Slot /\ 1 .. held' = 1 .. held \cup {new} /\ 1 .. held' \subseteq Slot
      BY <1>8, <2>2, SlotLeft, OutputCount DEF set_swap_interval, TypeOK, new, Slot
    <3>3. /\ \A k \in Slot : surface'[k].output = surface[k].output
          /\ surface'[new].interval = parm.swapinterval
          /\ \A k \in 1 .. held : surface'[k].interval = surface[k].interval
      BY <2>2, <3>2
      DEF interval_set_on, interval_of_new_surface, TypeOK, Surface, Slot, new
    <3>4. Placed' = Placed \cup {surface[new].output} /\ surface[new].output \notin Placed
      BY <1>8, <2>2, <3>1 DEF set_swap_interval, Placed
    <3>5. {surface'[k].output : k \in 1 .. held'} = Placed'
      BY <1>8, <3>2, <3>3, <3>4 DEF set_swap_interval
    <3>6. held' = Cardinality(Placed')
      <4>1. IsFiniteSet(Placed)
        BY WantedCount, FS_Subset DEF Placed
      <4> QED BY <1>8, <2>2, <3>4, <4>1, FS_AddElement DEF set_swap_interval, new
    <3> QED BY <1>8, <2>2, <3>1, <3>2, <3>3, <3>5, <3>6 DEF set_swap_interval
  <2> QED BY <1>8, <2>1, <2>2 DEF set_swap_interval
<1>9. CASE read_options \/ connect
  BY <1>4, <1>1, <1>9 DEF read_options, connect, Ended, Unwinding, egl
<1>10. CASE initialize_display \/ create_context \/ create_dummy \/ first_make_current
  BY <1>4, <1>1, <1>10
  DEF initialize_display, create_context, create_dummy, first_make_current, construct_app,
      Ended, Unwinding
<1>11. CASE start_running
  BY <1>3, <1>11
  DEF start_running, become_running, set_running, install, unchanged_main, egl
<1>12. CASE set_up \/ next_frame
  BY <1>3, <1>1, <1>12 DEF set_up, next_frame, unchanged_main, egl, Ended, Unwinding
<1>13. CASE make_current
  BY <1>3, <1>1, <1>13 DEF make_current, Ended, Unwinding
<1>14. CASE draw \/ updateAnimation \/ swap_buffers
  BY <1>3, <1>14 DEF draw, updateAnimation, swap_buffers, unchanged_main, egl
<1>15. CASE Leaving
  BY <1>1, <1>15
  DEF Leaving, destroy_surface, release_window, release_app, Ended, Unwinding
<1>16. CASE \E sig \in Signal : signal(sig)
  BY <1>2, <1>1, <1>16 DEF signal, egl, Ended
<1>17. CASE outputs_turn \/ UNCHANGED vars
  BY <1>2, <1>17 DEF outputs_turn, vars, egl
<1> QED
  BY <1>5, <1>6, <1>7, <1>8, <1>9, <1>10, <1>11, <1>12, <1>13, <1>14, <1>15, <1>16, <1>17
  DEF Next, Starting, Painting

\* Before main() unwinds nothing is released, and then one surface after the
\* other is.
LEMMA ReleaseStep == IInv /\ [Next]_vars => Release'
<1> SUFFICES ASSUME IInv, [Next]_vars
             PROVE  Release'
  OBVIOUS
<1> USE DEF IInv, Control, Ended, Unwinding, goto, exit, throw, leave_main
<1>0. app = "released" => stage = "exited"
  BY DEF Release
<1>1. ASSUME stage \notin Ended, held' = held, app' # "released",
             \A k \in Slot : surface'[k].window = surface[k].window,
             stage' \in Unwinding => stage' = "destroy" /\ at' = 1,
             stage \in {"eglsurface", "interval"} =>
                 stage' \in {"eglsurface", "interval", "exited"} \/ status' = "failure"
      PROVE  Release'
  BY <1>1, OutputCount DEF Release, Slot, TypeOK, new
<1>2. CASE read_options \/ connect \/ place
  BY <1>0, <1>1, <1>2 DEF read_options, connect, place, egl
<1>3. CASE initialize_display \/ create_context \/ create_dummy \/ first_make_current
  BY <1>0, <1>1, <1>3
  DEF initialize_display, create_context, create_dummy, first_make_current, construct_app
<1>4. CASE create_window
  <2>1. CASE surface' = surface /\ throw
    BY <1>0, <1>1, <1>4, <2>1 DEF create_window
  <2>2. CASE /\ \A k \in Slot \ {new} : surface'[k] = surface[k]
             /\ surface'[new].window = "open"
             /\ goto("eglsurface")
    <3>1. stage = "window" /\ UNCHANGED <<held, app, status>>
      BY <1>4, <2>2 DEF create_window
    <3> QED BY <1>0, <2>2, <3>1, OutputCount DEF new, Release, TypeOK, Slot
  <2>3. new \in Slot
    BY <1>4, SlotLeft DEF create_window, Constructing
  <2> QED BY <1>4, <2>1, <2>2, <2>3 DEF create_window, TypeOK, Surface
<1>5. CASE create_surface
  <2>1. \A k \in Slot : surface'[k].window = surface[k].window
    BY <1>5 DEF create_surface, TypeOK, Surface
  <2> QED BY <1>0, <1>1, <1>5, <2>1 DEF create_surface
<1>6. CASE set_swap_interval
  <2>1. \A k \in Slot : surface'[k].window = surface[k].window
    BY <1>6 DEF set_swap_interval, TypeOK, Surface
  <2>2. CASE throw /\ held' = held
    BY <1>0, <1>1, <1>6, <2>1, <2>2 DEF set_swap_interval
  <2>3. CASE held' = new /\ stage' \in {"running", "window"}
    <3>1. stage = "interval" /\ UNCHANGED <<app, status>> /\ held' = held + 1
      BY <1>6, <2>3 DEF set_swap_interval, new
    <3>2. held \in Nat /\ Cardinality(Output) \in Nat
      BY OutputCount DEF TypeOK
    <3>3. \A k \in Slot : k > held + 1 => surface'[k].window = "none"
      BY <2>1 DEF Release, new
    <3>4. \A k \in Slot : surface'[k].window # "released"
      BY <2>1, <3>1 DEF Release, Ended, Unwinding
    <3>5. app # "released"
      BY <3>1 DEF Release
    <3> QED BY <2>3, <3>1, <3>2, <3>3, <3>4, <3>5 DEF Release, Unwinding, new, Slot
  <2> QED BY <1>6, <2>2, <2>3 DEF set_swap_interval
<1>7. CASE start_running
  BY <1>0, <1>1, <1>7 DEF start_running, become_running, set_running, install, unchanged_main, egl
<1>8. CASE set_up \/ next_frame
  BY <1>0, <1>1, <1>8 DEF set_up, next_frame, unchanged_main, egl
<1>9. CASE make_current
  BY <1>0, <1>1, <1>9 DEF make_current
<1>10. CASE draw \/ updateAnimation \/ swap_buffers
  BY <1>0, <1>1, <1>10 DEF draw, updateAnimation, swap_buffers, unchanged_main, egl
<1>11. CASE destroy_surface
  <2>1. CASE at > held
    BY <1>11, <2>1, OutputCount DEF destroy_surface, Release, EglGone, TypeOK, new
  <2>2. CASE at <= held
    <3>1. at \in Slot
      BY <2>2, OutputCount DEF TypeOK, Slot
    <3>2. /\ \A k \in Slot : surface'[k].window = surface[k].window
          /\ \A k \in Slot \ {at} : surface'[k] = surface[k]
          /\ surface'[at].eglsurface = IF current = at THEN "deferred" ELSE "destroyed"
      BY <1>11, <2>2, <3>1 DEF destroy_surface, TypeOK, Surface
    <3>3. /\ stage = "destroy" /\ stage' = "release" /\ at' = at
          /\ UNCHANGED <<held, app, status, current>>
      BY <1>11, <2>2, OutputCount DEF destroy_surface, TypeOK
    <3>4. at # new
      BY <2>2, <3>1 DEF TypeOK, new, Slot
    <3>5. EglGone(at)'
      BY <3>2, <3>3 DEF EglGone
    <3>6. \A k \in Slot \ {at} : EglGone(k)' <=> EglGone(k)
      BY <3>2, <3>3 DEF EglGone
    <3>7. new' = new /\ 1 .. held \subseteq Slot
      BY <3>3, OutputCount DEF new, TypeOK, Slot
    <3> QED BY <1>0, <2>2, <3>1, <3>2, <3>3, <3>4, <3>5, <3>6, <3>7 DEF Release
  <2> QED BY <2>1, <2>2, OutputCount DEF TypeOK
<1>12. CASE release_window
  <2>1. at \in Slot /\ at # new
    BY <1>12, OutputCount DEF release_window, Release, TypeOK, Slot, new
  <2>2. /\ \A k \in Slot : surface'[k].eglsurface = surface[k].eglsurface
        /\ \A k \in Slot \ {at} : surface'[k] = surface[k]
        /\ surface'[at].window = "released"
    BY <1>12, <2>1 DEF release_window, TypeOK, Surface
  <2> QED BY <1>12, <2>1, <2>2, OutputCount DEF release_window, Release, EglGone, TypeOK, Slot, new
<1>13. CASE release_app
  <2>1. \A k \in Slot :
           /\ surface'[k].window = surface[k].window
           /\ surface'[k].eglsurface =
                 IF surface[k].eglsurface = "deferred" THEN "destroyed" ELSE surface[k].eglsurface
    BY <1>13 DEF release_app, surfaces_without_current, TypeOK, Surface
  <2>2. \A k \in Slot : k < new \/ k = new \/ k > new
    BY DEF Slot, TypeOK, new
  <2> QED
    BY <1>13, <2>1, <2>2, OutputCount DEF release_app, Release, EglGone, LeftBehind, TypeOK, Slot, new
<1>14. CASE \E sig \in Signal : signal(sig)
  BY <1>14 DEF signal, egl, new, Release, EglGone, LeftBehind
<1>15. CASE outputs_turn \/ UNCHANGED vars
  BY <1>15 DEF outputs_turn, vars, egl, control, new, Release, EglGone, LeftBehind
<1> QED
  BY <1>2, <1>3, <1>4, <1>5, <1>6, <1>7, <1>8, <1>9, <1>10, <1>11, <1>12, <1>13, <1>14, <1>15
  DEF Next, Starting, Painting, Leaving

\* There is a surface to paint.
LEMMA SurfaceHeld ==
    ASSUME TypeOK, Placement, stage \in Working
    PROVE  1 \in 1 .. held
<1>1. Placed = Wanted /\ Wanted # {} /\ held = Cardinality(Placed)
  BY DEF Placement, Working, Readying, InFrame, Placed
<1>2. held # 0
  BY <1>1, WantedCount, FS_EmptySet
<1> QED BY <1>2 DEF TypeOK

\* Every surface is painted with the dots of one counter.
LEMMA FramesStep == IInv /\ [Next]_vars => Frames'
<1> SUFFICES ASSUME IInv, [Next]_vars
             PROVE  Frames'
  OBVIOUS
<1> USE DEF IInv, Preparing, Constructing, Readying, InFrame, Ended, Unwinding,
            goto, exit, throw, leave_main
<1>1. ASSUME shown' = shown, stage' \in Ended
      PROVE  Frames'
  BY <1>1 DEF Frames
<1>2. ASSUME shown' = shown,
             stage \in Preparing \cup Constructing \cup Readying,
             stage' \in Preparing \cup Constructing \cup Readying
      PROVE  Frames'
  BY <1>2 DEF Frames, Shows
<1>3. ASSUME UNCHANGED <<stage, shown, held, current, back, counter, at>>
      PROVE  Frames'
  BY <1>3 DEF Frames, Shows
<1>4. CASE read_options \/ connect \/ place
  BY <1>1, <1>2, <1>4 DEF read_options, connect, place, painting
<1>5. CASE initialize_display \/ create_context \/ create_dummy \/ first_make_current
  BY <1>1, <1>2, <1>5
  DEF initialize_display, create_context, create_dummy, first_make_current, construct_app,
      painting
<1>6. CASE create_window
  BY <1>1, <1>2, <1>6 DEF create_window, painting
<1>7. CASE create_surface
  BY <1>1, <1>2, <1>7 DEF create_surface, painting
<1>8. CASE set_swap_interval
  BY <1>1, <1>2, <1>8 DEF set_swap_interval, painting
<1>9. CASE start_running
  BY <1>2, <1>9 DEF start_running, become_running, set_running, install, painting
<1>10. CASE set_up
  <2>1. CASE goto("frame")
    BY <1>10, <2>1, OutputCount DEF set_up, unchanged_main, egl, painting, Frames, Shows,
                                    TypeOK, Slot
  <2> QED BY <1>1, <1>10, <2>1 DEF set_up, painting
<1>11. CASE next_frame
  <2>1. 1 \in 1 .. held
    BY <1>11, SurfaceHeld DEF next_frame, Working
  <2>2. CASE stage' = "make_current" /\ at' = 1
    BY <1>11, <2>1, <2>2 DEF next_frame, unchanged_main, egl, painting, Frames, Shows
  <2> QED BY <1>1, <1>11, <2>2 DEF next_frame, painting
<1>12. CASE make_current
  <2>1. CASE current' = at /\ goto("draw")
    BY <1>12, <2>1 DEF make_current, painting, Frames, Shows
  <2> QED BY <1>1, <1>12, <2>1 DEF make_current, painting
<1>13. CASE draw
  BY <1>13 DEF draw, unchanged_main, egl, Frames, Shows
<1>14. CASE swap_buffers
  <2>1. /\ at \in 1 .. held /\ current = at /\ back.dots = orange_dots(counter)
        /\ Shows(orange_dots(counter), 1 .. at - 1)
        /\ shown = [k \in Slot |-> shown[k]]
    BY <1>14 DEF swap_buffers, Frames
  <2>2. UNCHANGED <<held, counter>> /\ shown' = [shown EXCEPT ![at] = back.dots]
    BY <1>14, <2>1 DEF swap_buffers, between_surfaces, unchanged_main, egl
  <2>3. at \in Slot /\ held \in Slot
    BY <2>1, OutputCount DEF TypeOK, Slot
  <2>4. shown' = [k \in Slot |-> IF k = at THEN orange_dots(counter) ELSE shown[k]]
    BY <2>1, <2>2
  <2>5. \A k \in 1 .. at : shown'[k] = orange_dots(counter)
    <3> SUFFICES ASSUME NEW k \in 1 .. at
                 PROVE  shown'[k] = orange_dots(counter)
      OBVIOUS
    <3>1. k \in Slot /\ (k = at \/ k \in 1 .. at - 1)
      BY <2>1, <2>3, OutputCount DEF TypeOK, Slot
    <3> QED BY <2>1, <2>4, <3>1 DEF Shows
  <2>6. shown' = [k \in Slot |-> shown'[k]]
    BY <2>4
  <2>7. CASE at < held
    BY <1>14, <2>1, <2>2, <2>5, <2>6, <2>7 DEF swap_buffers, Frames, Shows, TypeOK
  <2>8. CASE ~ (at < held)
    BY <1>14, <2>1, <2>2, <2>5, <2>6, <2>8 DEF swap_buffers, Frames, Shows, TypeOK
  <2> QED BY <2>7, <2>8
<1>15. CASE updateAnimation
  BY <1>15 DEF updateAnimation, unchanged_main, egl, Frames, Shows, TypeOK
<1>16. CASE Leaving
  BY <1>1, <1>16
  DEF Leaving, destroy_surface, release_window, release_app, painting
<1>17. CASE \E sig \in Signal : signal(sig)
  BY <1>1, <1>3, <1>17 DEF signal, egl, painting
<1>18. CASE outputs_turn \/ UNCHANGED vars
  BY <1>3, <1>18 DEF outputs_turn, vars, egl, painting, control
<1> QED
  BY <1>4, <1>5, <1>6, <1>7, <1>8, <1>9, <1>10, <1>11, <1>12, <1>13, <1>14, <1>15, <1>16,
     <1>17, <1>18
  DEF Next, Starting, Painting

-----------------------------------------------------------------------------
\* The theorems

LEMMA InvariantHolds == Spec => []IInv
<1>1. Init => IInv
  <2> SUFFICES ASSUME Init
               PROVE  IInv
    OBVIOUS
  <2> USE OutputCount DEF Init
  <2>1. TypeOK
    <3>1. parm \in Parm
      BY DEF Parm, default_parm
    <3>2. surface \in [Slot -> Surface]
      BY DEF Surface, unmade
    <3>3. /\ stage \in Stage /\ at \in 1 .. Cardinality(Output) + 1
          /\ held \in 0 .. Cardinality(Output) /\ counter \in 0 .. 5
      BY DEF Stage
    <3>4. asked \in BOOLEAN /\ running \in BOOLEAN /\ second_over \in BOOLEAN
      OBVIOUS
    <3> QED BY <3>1, <3>2, <3>3, <3>4 DEF TypeOK
  <2>2. Control /\ Placement
    BY DEF Control, Placement, Preparing, Constructing, Working, Readying, InFrame, Ended,
           Unwinding
  <2>3. Release /\ Frames
    BY DEF Release, EglGone, Frames, Shows, Preparing, InFrame, Unwinding, unmade
  <2> QED BY <2>1, <2>2, <2>3 DEF IInv
<1>2. IInv /\ [Next]_vars => IInv'
  BY TypeStep, ControlStep, PlacementStep, ReleaseStep, FramesStep DEF IInv
<1> QED BY <1>1, <1>2, PTL DEF Spec

\* TypeOK
THEOREM TypeCorrect == Spec => []TypeOK
BY InvariantHolds, PTL DEF IInv

\* ReleasedInOrder: wherever a call fails or a signal comes, windows and EGL
\* surfaces go before the display and the connection.
THEOREM SurfacesReleased == Spec => []ReleasedInOrder
<1>1. IInv => ReleasedInOrder
  BY DEF IInv, Control, Release, EglGone, LeftBehind, ReleasedInOrder
<1> QED BY <1>1, InvariantHolds, PTL

\* SurfaceOnEveryOutput: every output that was active, or the one asked for,
\* has one surface with the interval asked for, however many there are.
THEOREM OutputsCovered == Spec => []SurfaceOnEveryOutput
<1>1. IInv => SurfaceOnEveryOutput
  BY DEF IInv, Placement, Placed, Wanted, Working, Readying, InFrame, SurfaceOnEveryOutput
<1> QED BY <1>1, InvariantHolds, PTL

\* FramesInStep: all surfaces show the same step of the animation.
THEOREM SurfacesInStep == Spec => []FramesInStep
<1>1. IInv => FramesInStep
  BY DotsInOrder DEF IInv, Frames, Shows, FramesInStep
<1> QED BY <1>1, InvariantHolds, PTL

=============================================================================
