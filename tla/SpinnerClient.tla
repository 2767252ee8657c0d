---------------------------- MODULE SpinnerClient ----------------------------
(***************************************************************************)
(* The spinner executable: what usc::ExternalSpinner forks, from main() to *)
(* the end of its process.                                                 *)
(*                                                                         *)
(* mir_eglapp_init() reads the options, connects to Mir, makes a           *)
(* MirEglApp (an EGL display and context) and one MirEglSurface (a Mir     *)
(* window and its EGL surface) on every active output.  main() then takes  *)
(* the signals and paints all surfaces, frame after frame, until one of    *)
(* the signals has come.  Every call to Mir and EGL that the code checks   *)
(* may fail, which unwinds main().  A signal may come between any two      *)
(* steps.                                                                  *)
(***************************************************************************)
EXTENDS Integers, FiniteSets, Sequences

CONSTANTS
    Output,         \* the ids of outputs
    InvalidOutput,  \* mir_display_output_id_invalid, that is 0
    AbsentOutput,   \* an id no output has
    CommandLine,    \* argument lists, without the program's name
    SessionConf,    \* contents of the session's configuration file
    Size            \* sizes of a surface

ASSUME ClientAssumption ==
    /\ IsFiniteSet(Output) /\ Output # {}
    /\ {InvalidOutput, AbsentOutput} \cap Output = {}
    /\ InvalidOutput # AbsentOutput
    /\ \A size \in Size : size \in [width : Nat, height : Nat]

VARIABLES
    stage,          \* where main() is
    status,         \* how the process has ended
    \* the environment
    argv,
    conf,           \* the lines of the configuration file
    composited,     \* Mir takes the buffers of this client: its outputs are on
    asked,          \* history: a signal was sent
    \* mir_eglapp_init()
    parm,           \* surfaceparm and swapinterval, as the options set them
    display_config, \* the active outputs, when the code looked
    to_place,       \* those that have no surface yet
    connection,     \* "none", "open", "released"
    app,            \* how far MirEglApp was constructed, "released" at its end
    surfaceless,    \* EGL_KHR_surfaceless_context
    current,        \* the current draw surface
    surface,        \* every MirEglSurface
    held,           \* surfaces 1 .. held were constructed: the result vector
    \* main()
    handlers,       \* the signals shutdown() is installed for
    running,
    at,             \* the surface that is painted or destroyed
    counter,        \* of updateAnimation(), modulo 6
    second_over,    \* its `second` has reached 1
    back,           \* drawn, and not swapped yet
    shown           \* the dots on each surface's front buffer

env == <<argv, conf>>
egl == <<connection, app, surfaceless, current, surface, held>>
placing == <<parm, display_config, to_place>>
painting == <<counter, second_over, back, shown>>
control == <<status, handlers, running, at>>
vars == <<stage, env, composited, asked, egl, placing, painting, control>>

Signal == {"SIGINT", "SIGTERM"}
Slot == 1 .. Cardinality(Output)

\* Draw surfaces besides those of the windows
EGL_NO_SURFACE == 0
dummy_surface == -1

NoFrame == {-1}         \* a surface that has not been painted
NoDrawing ==
    [dots |-> NoFrame, turned |-> 0, size |-> [width |-> 0, height |-> 0], width |-> 0, height |-> 0]

Surface ==
    [output : Output \cup {InvalidOutput, AbsentOutput},
     window : {"none", "open", "released"},
     eglsurface : {"none", "open", "deferred", "destroyed"},
     interval : {-1, 0, 1}]
unmade == [output |-> InvalidOutput, window |-> "none", eglsurface |-> "none",
           interval |-> -1]

Stage ==
    {"options", "connect", "display", "context", "dummy", "first_current",
     "place", "window", "eglsurface", "interval", "running", "sigint", "sigterm",
     "set_up", "frame", "make_current", "draw", "swap", "update", "destroy",
     "release", "release_app", "exited"}

Parm == [sized : BOOLEAN, output_id : Output \cup {InvalidOutput, AbsentOutput},
         swapinterval : {0, 1}]

TypeOK ==
    /\ stage \in Stage
    /\ status \in {"none", "success", "failure", "killed", "aborted"}
    /\ composited \in BOOLEAN /\ asked \in BOOLEAN
    /\ surfaceless \in BOOLEAN
    /\ running \in BOOLEAN /\ second_over \in BOOLEAN
    /\ parm \in Parm
    /\ display_config \subseteq Output
    /\ to_place \subseteq Output \cup {InvalidOutput, AbsentOutput}
    /\ connection \in {"none", "open", "released"}
    /\ app \in {"none", "display", "context", "dummy", "made", "released"}
    /\ current \in Slot \cup {EGL_NO_SURFACE, dummy_surface}
    /\ surface \in [Slot -> Surface]
    /\ held \in 0 .. Cardinality(Output)
    /\ handlers \subseteq Signal
    /\ at \in 1 .. Cardinality(Output) + 1
    /\ counter \in 0 .. 5

default_parm == [sized |-> FALSE, output_id |-> InvalidOutput, swapinterval |-> 1]

Init ==
    /\ stage = "options"
    /\ status = "none"
    /\ argv \in CommandLine
    /\ conf \in SessionConf
    /\ composited \in BOOLEAN
    /\ asked = FALSE
    /\ parm = default_parm
    /\ display_config = {}
    /\ to_place = {}
    /\ connection = "none"
    /\ app = "none"
    /\ surfaceless \in BOOLEAN
    /\ current = EGL_NO_SURFACE
    /\ surface = [k \in Slot |-> unmade]
    /\ held = 0
    /\ handlers = {}
    /\ running = FALSE
    /\ at = 1
    /\ counter = 0
    /\ second_over = FALSE
    /\ back = NoDrawing
    /\ shown = [k \in Slot |-> NoFrame]

-----------------------------------------------------------------------------
\* Control flow: what main() does next.

goto(next) == stage' = next /\ UNCHANGED <<status, at>>
exit(with) == stage' = "exited" /\ status' = with /\ UNCHANGED at

\* The vector of surfaces is destroyed from its first element on, and with the
\* last of them the MirEglApp they share, before main() returns.
leave_main(with) == stage' = "destroy" /\ status' = with /\ at' = 1
throw == leave_main("failure")

-----------------------------------------------------------------------------
\* The options.  An argument is [flag, text]: "-o1" has its value attached, in
\* "-o" "1" the value is the next argument, and an argument that is not an
\* option has the flag "none".  A text is nothing, "junk", a size, "zero"
\* (0x0, which reads as the number 0 too) or the id of an output.

raw_text(arg) == IF arg.flag = "none" THEN arg.text ELSE "junk"

\* sscanf(arg, "%u", &output_id)
number(text) ==
    CASE text \in Output -> text
      [] text = "zero" -> InvalidOutput
      [] text = "size" -> AbsentOutput

option(arg, text, p) ==
    CASE arg.flag = "s" -> [p EXCEPT !.sized = (text = "size")]
      [] arg.flag = "o" -> [p EXCEPT !.output_id = number(text)]
      [] arg.flag = "n" -> [p EXCEPT !.swapinterval = 0]
      [] OTHER -> p

is_usable(arg, text) ==
    CASE arg.flag = "s" -> text \in {"size", "zero"}
      [] arg.flag \in {"b", "o"} -> text \notin {"", "junk"}
      [] OTHER -> arg.flag \in {"n", "m", "q"}

\* The options from argument i on, where p is what those before it have set:
\* a set of one Parm, or none when the usage is printed.  -m takes the next
\* argument, whatever it is; at the end it reads the terminating NULL.
parse(args) ==
    LET from[i \in 1 .. Len(args) + 2, p \in Parm] ==
            IF i > Len(args) THEN {p}
            ELSE LET takes_next ==
                         args[i].flag \in {"b", "o", "s"} /\ args[i].text = "" /\ i < Len(args)
                     text == IF takes_next THEN raw_text(args[i + 1]) ELSE args[i].text
                     consumed == IF takes_next \/ args[i].flag = "m" THEN 2 ELSE 1
                 IN IF is_usable(args[i], text)
                    THEN from[i + consumed, option(args[i], text, p)]
                    ELSE {}
    IN from[1, default_parm]

\* With the usage printed there are no surfaces, and main() returns.
read_options ==
    /\ stage = "options"
    /\ \/ parse(argv) = {} /\ exit("success") /\ UNCHANGED parm
       \/ \E p \in Parm : parse(argv) = {p} /\ goto("connect") /\ parm' = p
    /\ UNCHANGED <<env, composited, asked, egl, display_config, to_place, painting,
                   handlers, running>>

-----------------------------------------------------------------------------
\* mir_connect_sync, and the constructor of MirEglApp.  What throws in it
\* releases nothing, the connection included: there is no MirEglApp yet.

connect ==
    /\ stage = "connect"
    /\ \/ connection' = "open" /\ goto("display")
       \/ UNCHANGED connection /\ exit("failure")
    /\ UNCHANGED <<env, composited, asked, app, surfaceless, current, surface, held,
                   placing, painting, handlers, running>>

construct_app(from, made, to) ==
    /\ stage = from
    /\ \/ app' = made /\ goto(to)
       \/ UNCHANGED app /\ exit("failure")
    /\ UNCHANGED <<env, composited, asked, connection, surfaceless, surface, held,
                   placing, painting, handlers, running>>

initialize_display ==
    construct_app("display", "display", "context") /\ UNCHANGED current

create_context ==
    /\ construct_app("context", "context", IF surfaceless THEN "first_current" ELSE "dummy")
    /\ UNCHANGED current

create_dummy == construct_app("dummy", "dummy", "first_current") /\ UNCHANGED current

first_make_current ==
    /\ construct_app("first_current", "made", "place")
    /\ current' = IF app' = "made" /\ ~ surfaceless THEN dummy_surface ELSE current

-----------------------------------------------------------------------------
\* The surfaces

\* What Mir says of an output
OutputState == [enabled : BOOLEAN, connected : BOOLEAN, has_mode : BOOLEAN]

active_outputs(config) ==
    {o \in Output : config[o].enabled /\ config[o].connected /\ config[o].has_mode}

to_be_covered(active) ==
    IF parm.sized \/ parm.output_id # InvalidOutput THEN {parm.output_id} ELSE active

\* One surface if its size or its output was given; else one for every active
\* output, and an exception if there is none.
place ==
    /\ stage = "place"
    /\ IF parm.sized
       THEN UNCHANGED display_config
       ELSE \E config \in [Output -> OutputState] : display_config' = active_outputs(config)
    /\ to_place' = to_be_covered(display_config')
    /\ IF to_place' = {} THEN throw ELSE goto("window")
    /\ UNCHANGED <<env, composited, asked, egl, parm, painting, handlers, running>>

\* The MirEglSurface under construction
new == held + 1

\* An invalid window is an exception.
create_window ==
    /\ stage = "window"
    /\ \/ \E o \in to_place :
             /\ surface' = [surface EXCEPT ![new] = [@ EXCEPT !.output = o, !.window = "open"]]
             /\ to_place' = to_place \ {o}
             /\ goto("eglsurface")
       \/ UNCHANGED <<surface, to_place>> /\ throw
    /\ UNCHANGED <<env, composited, asked, connection, app, surfaceless, current, held,
                   parm, display_config, painting, handlers, running>>

\* An exception here or in the next step leaves the window, whose
\* MirEglSurface was not constructed, to nobody.
create_surface ==
    /\ stage = "eglsurface"
    /\ \/ surface' = [surface EXCEPT ![new].eglsurface = "open"] /\ goto("interval")
       \/ UNCHANGED surface /\ throw
    /\ UNCHANGED <<env, composited, asked, connection, app, surfaceless, current, held,
                   placing, painting, handlers, running>>

interval_of_current_surface(k) == current
interval_of_new_surface(k) == k
\* The surface that is current when eglSwapInterval is called
interval_set_on(k) == interval_of_new_surface(k)

current_after_interval(k) == IF current = EGL_NO_SURFACE THEN k ELSE current

set_swap_interval ==
    /\ stage = "interval"
    /\ \/ \* the first make_current throws
          UNCHANGED <<surface, current, held>> /\ throw
       \/ \* the one that restores the previous surface throws
          /\ current # EGL_NO_SURFACE
          /\ surface' = [surface EXCEPT ![new].interval = parm.swapinterval]
          /\ current' = new
          /\ UNCHANGED held
          /\ throw
       \/ /\ surface' = [k \in Slot |->
                 IF k = interval_set_on(new)
                 THEN [surface[k] EXCEPT !.interval = parm.swapinterval] ELSE surface[k]]
          /\ current' = current_after_interval(new)
          /\ held' = new
          /\ goto(IF to_place = {} THEN "running" ELSE "window")
    /\ UNCHANGED <<env, composited, asked, connection, app, surfaceless, placing, painting,
                   handlers, running>>

-----------------------------------------------------------------------------
\* main(), once it has its surfaces

unchanged_main == UNCHANGED <<env, composited, asked, egl, placing>>

\* The handlers come after `running`, which they reset.
set_running(from, to) ==
    /\ stage = from
    /\ running' = TRUE
    /\ goto(to)
    /\ UNCHANGED handlers

install(from, sig, to) ==
    /\ stage = from
    /\ handlers' = handlers \cup {sig}
    /\ goto(to)
    /\ UNCHANGED running

handlers_before_running ==
    \/ install("running", "SIGINT", "sigint")
    \/ install("sigint", "SIGTERM", "sigterm")
    \/ set_running("sigterm", "set_up")
become_running ==
    \/ set_running("running", "sigint")
    \/ install("sigint", "SIGINT", "sigterm")
    \/ install("sigterm", "SIGTERM", "set_up")

start_running == become_running /\ unchanged_main /\ UNCHANGED painting

\* Shaders, textures and the timer.  A shader that does not compile fails an
\* assertion.
set_up ==
    /\ stage = "set_up"
    /\ goto("frame") \/ exit("aborted")
    /\ unchanged_main
    /\ UNCHANGED <<painting, handlers, running>>

next_frame ==
    /\ stage = "frame"
    /\ IF running
       THEN stage' = "make_current" /\ at' = 1 /\ UNCHANGED status
       ELSE leave_main("success")
    /\ unchanged_main
    /\ UNCHANGED <<painting, handlers, running>>

make_current ==
    /\ stage = "make_current"
    /\ \/ current' = at /\ goto("draw")
       \/ UNCHANGED current /\ throw
    /\ UNCHANGED <<env, composited, asked, connection, app, surfaceless, surface, held,
                   placing, painting, handlers, running>>

\* SessionConfig keeps the first line of a key.
get_string(key, default_value) ==
    LET lines == {i \in DOMAIN conf : conf[i].key = key}
    IN IF lines = {} THEN default_value
       ELSE conf[CHOOSE i \in lines : \A j \in lines : i <= j].value

native_orientation == get_string("NATIVE_ORIENTATION", "")

\* How the picture is turned on a surface of a size
rotation(size) ==
    CASE size.width < size.height /\ native_orientation = "landscape" -> 90
      [] size.width < size.height /\ native_orientation = "inverted_landscape" -> 270
      [] size.width > size.height /\ native_orientation = "portrait" -> 90
      [] size.width > size.height /\ native_orientation = "inverted_portrait" -> 270
      [] OTHER -> 0

swapped_upside_down_only(size) == rotation(size) = 270
sides_swapped(size) == rotation(size) \in {90, 270}

\* The dots that are orange, of the five, with dot_mask = sequence[counter % 6]
sequence == <<0, 1, 3, 7, 15, 31>>
orange_dots(n) == {i \in 0 .. 4 : sequence[n + 1] \div 2 ^ i # 0}

\* The painter, with the size EGL says the surface has
draw ==
    /\ stage = "draw"
    /\ \E size \in Size :
          back' = [dots |-> orange_dots(counter),
                   turned |-> rotation(size),
                   size |-> size,
                   width |-> IF sides_swapped(size) THEN size.height ELSE size.width,
                   height |-> IF sides_swapped(size) THEN size.width ELSE size.height]
    /\ goto("swap")
    /\ unchanged_main
    /\ UNCHANGED <<counter, second_over, shown, handlers, running>>

\* A surface that is synchronised to its output waits until Mir takes buffers.
may_swap == composited \/ surface[at].interval = 0

\* The time that has passed is added to `second`, until a second is over.
animate ==
    IF second_over
    THEN second_over' = FALSE /\ counter' = (counter + 1) % 6
    ELSE second_over' \in BOOLEAN /\ UNCHANGED counter

animate_between_surfaces == animate
between_surfaces == UNCHANGED <<counter, second_over>>

\* eglSwapBuffers shows what was drawn if it was drawn on this surface.
swap_buffers ==
    /\ stage = "swap"
    /\ may_swap
    /\ shown' = IF current = at THEN [shown EXCEPT ![at] = back.dots] ELSE shown
    /\ back' = NoDrawing
    /\ IF at < held
       THEN stage' = "make_current" /\ at' = at + 1
       ELSE stage' = "update" /\ UNCHANGED at
    /\ between_surfaces
    /\ unchanged_main
    /\ UNCHANGED <<status, handlers, running>>

updateAnimation ==
    /\ stage = "update"
    /\ animate
    /\ goto("frame")
    /\ unchanged_main
    /\ UNCHANGED <<back, shown, handlers, running>>

-----------------------------------------------------------------------------
\* The end of main(): ~MirEglSurface for one surface after the other, then
\* ~MirEglApp.

\* EGL keeps a current surface, whose destruction is asked for, until it is
\* not current any more.
destroy_surface ==
    /\ stage = "destroy"
    /\ IF at > held
       THEN goto("release_app") /\ UNCHANGED surface
       ELSE /\ surface' = [surface EXCEPT ![at].eglsurface =
                               IF current = at THEN "deferred" ELSE "destroyed"]
            /\ goto("release")
    /\ UNCHANGED <<env, composited, asked, connection, app, surfaceless, current, held,
                   placing, painting, handlers, running>>

release_window ==
    /\ stage = "release"
    /\ surface' = [surface EXCEPT ![at].window = "released"]
    /\ stage' = "destroy"
    /\ at' = at + 1
    /\ UNCHANGED <<env, composited, asked, connection, app, surfaceless, current, held,
                   placing, painting, status, handlers, running>>

surfaces_as_they_are == surface
\* eglMakeCurrent with no surface ends the deferral.
surfaces_without_current ==
    [k \in Slot |-> IF surface[k].eglsurface = "deferred"
                    THEN [surface[k] EXCEPT !.eglsurface = "destroyed"] ELSE surface[k]]

release_app ==
    /\ stage = "release_app"
    /\ current' = EGL_NO_SURFACE
    /\ surface' = surfaces_without_current
    /\ app' = "released"
    /\ connection' = "released"
    /\ exit(status)
    /\ UNCHANGED <<env, composited, asked, surfaceless, held, placing, painting,
                   handlers, running>>

-----------------------------------------------------------------------------
\* A signal ends the process, or is taken by shutdown() in the middle of
\* whatever main() does.
signal(sig) ==
    /\ stage # "exited"
    /\ asked' = TRUE
    /\ IF sig \in handlers
       THEN running' = FALSE /\ UNCHANGED <<stage, status, at>>
       ELSE exit("killed") /\ UNCHANGED running
    /\ UNCHANGED <<env, composited, egl, placing, painting, handlers>>

\* The compositor turns its outputs off and on.
outputs_turn ==
    /\ stage # "exited"
    /\ composited' = ~ composited
    /\ UNCHANGED <<stage, env, asked, egl, placing, painting, control>>

-----------------------------------------------------------------------------
Starting ==
    \/ read_options
    \/ connect
    \/ initialize_display
    \/ create_context
    \/ create_dummy
    \/ first_make_current
    \/ place
    \/ create_window
    \/ create_surface
    \/ set_swap_interval

Painting ==
    \/ start_running
    \/ set_up
    \/ next_frame
    \/ make_current
    \/ draw
    \/ updateAnimation

Leaving ==
    \/ destroy_surface
    \/ release_window
    \/ release_app

Next ==
    \/ Starting
    \/ Painting
    \/ swap_buffers
    \/ Leaving
    \/ \E sig \in Signal : signal(sig)
    \/ outputs_turn

\* The process is scheduled, and Mir answers its calls.  A frame that waits for
\* a buffer gets one when outputs are on often enough.
Fairness ==
    /\ WF_vars(Starting \/ Painting \/ Leaving)
    /\ SF_vars(swap_buffers)

Spec == Init /\ [][Next]_vars /\ Fairness

-----------------------------------------------------------------------------
\* A signal is never lost: whenever it comes, before the handlers are there,
\* between `running` and the handlers, during a frame or while an exception
\* unwinds main(), the process ends, unless its outputs stay off for ever
\* (then eglSwapBuffers does not return).  SpinnerLifecycle relies on this.
EndsWhenAsked == ([]<>composited) => (asked ~> (stage = "exited"))

\* Nothing is released before what uses it, and nothing is left when main()
\* returns: windows and EGL surfaces go before the display and the connection,
\* a window goes before its EGL surface only if that is the current one, and
\* what is left is what a constructor that threw had made.
ReleasedInOrder ==
    /\ \A k \in Slot :
          surface[k].window = "released" =>
              \/ surface[k].eglsurface = "destroyed"
              \/ surface[k].eglsurface = "deferred" /\ current = k
    /\ app = "released" =>
          \A k \in Slot :
              \/ surface[k].window = "none"
              \/ k = new /\ status = "failure"
              \/ surface[k].window = "released" /\ surface[k].eglsurface = "destroyed"
    /\ connection = "open" /\ status = "success" => stage # "exited"

\* Once all surfaces are made there is one on every output that was active, or
\* on the output that was asked for, and each has the swap interval, although
\* eglSwapInterval sets that of the current surface only.
SurfaceOnEveryOutput ==
    stage \in {"running", "sigint", "sigterm", "set_up", "frame", "swap"} =>
        /\ to_place = {}
        /\ held = Cardinality(to_be_covered(display_config))
        /\ {surface[k].output : k \in 1 .. held} = to_be_covered(display_config)
        /\ \A k \in 1 .. held : surface[k].interval = parm.swapinterval

\* Between two frames all surfaces show the same step of the animation, and
\* its dots fill up from the first one.
FramesInStep ==
    stage = "frame" =>
        \A k, l \in 1 .. held :
            /\ shown[k] = shown[l]
            /\ shown[k] # NoFrame => \E n \in 0 .. 5 : shown[k] = {i \in 0 .. 4 : i < n}

\* The picture has the device's native orientation, whatever the shape of the
\* surface it is drawn on: its longer side is the one the orientation names, it
\* is turned the other way round for an inverted orientation, and it is not
\* stretched, since each of its sides is as long as the side of the surface on
\* which it comes to lie.
DrawnUpright ==
    LET along == IF back.turned \in {90, 270}
                 THEN [width |-> back.size.height, height |-> back.size.width]
                 ELSE back.size
    IN back # NoDrawing =>
        /\ back.width = along.width /\ back.height = along.height
        /\ native_orientation \in {"landscape", "inverted_landscape"}
              => back.width >= back.height
        /\ native_orientation \in {"portrait", "inverted_portrait"}
              => back.width <= back.height
        /\ back.turned \notin
              (IF native_orientation \in {"inverted_landscape", "inverted_portrait"}
               THEN {90} ELSE {270})
=============================================================================
