# unity-system-compositor: a TLA+ development

unity-system-compositor (USC) is the Mir server that owns the screen of an
Ubuntu device. The display manager starts it and tells it which of the nested
sessions that connect to it (a greeter, a user shell) is *active* and which is
*next*; until they are there a *spinner* client is shown. USC also turns the
outputs on and off, and serves a few D-Bus interfaces.

The modules in this directory model that program from its C++ source. TLC checks
them on small instances; TLAPS proves the main safety properties for all
instances. `PROJECT.json` maps every definition to the lines it models.

Source paths below are relative to the repository's `src/` directory
(`src/src/` in `PROJECT.json`).

## 1. The system

| Component | State | Operations | Modelled by |
|---|---|---|---|
| `SessionSwitcher` (`session_switcher.cpp`) | map name -> session, readiness, active/next/spinner name, booting, has_active_outputs | add, remove, mark_ready, set_active_session, set_next_session, active outputs handler; each ends in `update_displayed_sessions` | `SessionSwitcher`, `SwitcherThreads` |
| `ExternalSpinner` (`external_spinner.cpp`) | `spinner_pid` | ensure_running (fork/exec), kill, pid; SIGCHLD handler | `SessionSwitcher` (what the switcher sees), `SpinnerLifecycle` |
| Spinner executable (`spinner/eglspinner.cpp`, `eglapp.cpp`, `miregl.cpp`) | the connection, the EGL display, a window and an EGL surface per output, `running`, the animation | main: options, connect, create surfaces, paint, release; signals | `SpinnerClient` |
| `WindowManager`, `session_monitor.h` | none of its own | forwards session added / removed / ready | steps of `SessionSwitcher` |
| `ServerStatusListener` (in `server.cpp`) | a reference to the focus controller | paused, resumed | `ServerStatus` |
| `MirScreen` (`mir_screen.cpp`) | counts of active outputs, handlers, mutex | turn_on, turn_off, (un)register handler, configuration observer | `MirScreen` |
| Display configuration options | the value of `display-config` | none: it selects Mir's policy | `MirScreen` |
| `DBusEventLoop`, `DBusConnectionThread` | `running`, action queue, wake-up pipe, watches, timeouts | enqueue, run, stop, thread join | `ActionQueue`, `DBusEventLoop`, `DBusWatches` |
| `AsioDMConnection` (`asio_dm_connection.cpp`) | header and payload buffers, the pipes | start, asynchronous reads, send | `AsioDMConnection` |
| `UnityDisplayService` | counts it publishes | TurnOn, TurnOff, Get, GetAll, ActiveOutputs signal | `DisplayService` |
| `ScreenEventHandler` and its D-Bus sinks | times of the last notifications | handle(event) with two throttles | `ScreenEventHandler` |
| `MirInputConfiguration`, `UnityInputService` | settings, devices | setters, device callbacks | `InputConfiguration` |
| `Server`, `SystemCompositor` | the components, shared | factories, init callback, destruction | `Lifetimes` |
| D-Bus handles | a connection, its filter | open, request_name, add_filter | `Lifetimes`, as far as others depend on them |
| Clock, thread name | none, or a single system call | | not modelled |

Interactions:

- The *display manager* writes messages to a pipe. `AsioDMConnection` reads them
  in an I/O thread and calls the `DMMessageHandler`, which is the switcher.
- *Mir* calls the switcher, through `WindowManager`, from its own threads when a
  session connects, gets ready or goes; and `MirScreen`, from its display thread,
  when an output was plugged or unplugged.
- The *D-Bus loop thread* serves `UnityDisplayService`, which calls `MirScreen`,
  and `UnityInputService`, which calls `MirInputConfiguration`.
- Mir's input threads call `MirInputConfiguration` when a device comes or goes,
  and `ScreenEventHandler` with every event; the latter's sinks send signals.
- `MirScreen` calls the handlers registered with it, under its own mutex, in
  whichever thread reports: the switcher's handler and the display service's.
- The switcher shows and hides Mir sessions and starts and kills the spinner,
  which is a client of the same compositor: it waits in `eglSwapBuffers` while
  the outputs that `MirScreen` turns off take no buffers.
- Mir pauses and resumes the server (a change of the virtual terminal), and
  `ServerStatusListener` tells whichever session has the focus at that moment.

What is hard here, and where the properties are aimed (section `hazards` of
`PROJECT.json` has the lines):

- *Histories*: what is displayed is not stored, it is what all the show and hide
  calls have added up to. A session must not be left over, or missing, after any
  order of connections, removals, names, readiness and outputs.
- *Interleaving*: the active outputs handler does not take the switcher's mutex;
  `set_power_mode` works on an unlocked copy of the display's configuration;
  actions are enqueued while a batch is performed; counts travel from two
  reporting threads through one queue; the setters of the input configuration
  iterate over the devices without the lock under which Mir changes them, and
  the settings are read without one.
- *Time*: a throttle reads the clock twice, around a report that blocks, with
  other threads waiting for the mutex.
- *Processes*: the spinner is forked, connects late, crashes, is killed; its pid
  is used again; fork may fail; a signal comes at any step of its start.
- *Partial construction*: any of the calls to Mir and EGL with which the spinner
  makes its surfaces may fail, and what was made before must be released in the
  order in which it depends on each other.
- *Partial input*: the display manager may end anywhere in a message.
- *Liveness*: no lost wake-up, no lost stop, no join that waits for ever.

## 2. The modules

### SessionSwitcher

One action per call that the switcher serves; each is the change the call makes
to the map, the names or the outputs (`insert`, `forget`, `note_ready`, ...)
conjoined with `update_displayed_sessions`, which every one of them ends in.
The operators of that function (`show_active`, `show_spinner_as_active`, ...)
are named after its locals and read the changed state primed. `visible` and
`focused` are not members of the class: they are what `show`, `hide` and
`raise_and_focus` did to Mir's sessions, and Mir's side of a disconnection
removes the session from both.

The constants: `Session` are connections to Mir, each with the name it connects
with; `SpinnerSession` are those a spinner opens. `ConstantsAssumption` is what
the types say. `WellNamed` is what the code relies on and does not check:
clients have non-empty names, and a spinner's name is neither another client's
nor one the display manager sends. The names of other clients may well
coincide. Outside `WellNamed`, the source behaves as follows, and no property
is claimed: a client with the empty name is found under the empty active name
and displayed when no session was named; and a client that is called like the
spinner replaces its entry.

`MayConnect` says that a client other than a spinner does not carry the pid of
the running spinner. A client whose process got the pid of a spinner that
crashed is taken for the spinner by the code (`spinner->pid() == pid`); this
too is outside the properties of `SessionSwitcher`. `SpinnerLifecycle` has such
clients.

### SwitcherThreads

The same calls, statement by statement, in two threads: the one that holds the
switcher's mutex, and the active outputs handler, which does not take it. The
locals of `update_displayed_sessions` are variables of each thread. The loops
over the map visit the names in the map's order, the constant `Order`. A thread
that dereferences the session of an entry that is gone sets `crashed`, and
nothing is said of what follows. `overlap` is history: who began while the other
was under way. `CallsAreAtomic` is the refinement of the one-step operations: the
mapping shows the state before the call while one is under way, a call happens at
its return, and the steps of calls that overlap are excepted, one by one. `NullOnlyInHandler` excepts nothing:
the lock protects the calls from each other, so that what a call has found in the
map stays there although the handler interrupts it; the handler has no such
protection. `NothingShownWithoutOutputs` and `ReadySessionFound` say what the
tests say of the handler and of a removal, and are violated.

### ServerStatus

`SessionSwitcher` with the listener that suspends the session in focus when Mir
pauses and resumes the one in focus when Mir resumes. The two need not be the
same: the switcher goes on moving the focus in between. `suspended` holds the
sessions whose last lifecycle state was `will_suspend`, and `left` is history:
those of them from which the focus was taken during a pause. The `switcher` run
is a run of this composition.

### SpinnerLifecycle

`SessionSwitcher` composed with `ExternalSpinner` and the processes of the
operating system. `system_calls` is what fork and kill do behind each change of
`spinner_pid`. Processes exit or crash at any time, their pids are free at once
(the SIGCHLD handler reaps), and other clients may get them. `opener` ties a
session to its process, so that a session goes only after its process. Three
things the source does are in the model and no property claims otherwise: a
spinner that died is not started again until `kill` has reset `spinner_pid`;
after a failed fork `kill` signals the pid -1, that is, every process; and a
process that got the pid of a dead spinner is signalled in its place.
A spinner that was told to terminate may still connect, and then takes the
entry of a successor, for both have the same name; when it goes, `spinner_name`
is reset and the switcher never shows the successor again. `SpinnerReplaced`
names this case, the only one in which `SpinnerAppears` claims nothing of a
spinner that is needed and lives.

### SpinnerClient

The process that `ExternalSpinner` forks, from `main` to its end. `stage` is
where `main` is; `goto`, `throw`, `leave_main` and `exit` are the ways on. The
options are read by `parse` (`-m` takes the next argument whatever it is, `-o`,
`-s` and `-b` only if nothing is attached to them), and a mistake ends the
process with success. `connect`, `initialize_display`, `create_context`,
`create_dummy` and `first_make_current` are the construction of `MirEglApp`,
each with its exception; `create_window`, `create_surface` and
`set_swap_interval` that of a `MirEglSurface`, one per output that `place` found
active. A constructor that throws has made no object, so that its destructor
does not run: what it had acquired is left to the end of the process, and what
was constructed before is released by `destroy_surface`, `release_window` (once
per surface) and `release_app`. `become_running` is in the order of the source,
`running` first and the handlers after it. A frame is `make_current`, `draw`
and `swap_buffers` per surface and one `updateAnimation`. `swap_buffers` waits
while the outputs are off, unless the interval is 0. EGL's part is external:
what is current, which surface `eglSwapInterval` and a drawing refer to, and
that the destruction of a current surface is deferred.

The picture is abstracted to the dots that are orange, the two sides of the
area it is drawn in, and how far it is turned on a surface of which size.

### ActionQueue and DBusEventLoop

`ActionQueue` is what the users of `enqueue` rely on: each action is performed
once, in the order of the calls, and eventually, as long as the loop is not
stopped. `DBusEventLoop` is the implementation: `enqueue` in two steps (push
under the mutex, write to the pipe without it), the loop with its wait, swap,
batch, flush and dispatch, and `DBusConnectionThread` with stop and join.
libdbus may ask for a wake-up in the loop thread itself. `IsActionQueue` is the
refinement, with what is left of the batch and the new actions as the queue.

### DBusWatches

The registry of watches and timeouts that libdbus keeps in the loop, and the
epoll set and the timers that `epoll_ctl` and `timerfd_settime` make of it.
libdbus calls back (`libdbus`) while it is itself called: before the thread runs,
when a watch is handled, and when the loop flushes and dispatches. `run` waits
for one descriptor, copies the enabled watches (`to_handle`) and handles them
one by one, or handles the timeout; the copy may hold a watch that has been
removed since, which is undefined in libdbus and does nothing here. `condition`
is what the sockets are ready for, raised by the other end and consumed by
libdbus; timers stay expired, for nobody reads them. The timeouts are those of
pending calls, which libdbus removes when they are handled. A hangup whose
watches are all disabled wakes the loop for nothing, again and again: such a
turn changes no state.

### Lifetimes

The components as nodes of the graph of shared pointers: what each factory of
`Server` passes to each constructor (`uses`), what the members of
`SystemCompositor` hold, and when the last reference goes. `CachedPtr` keeps a
weak reference, so that a factory creates again what nobody uses (`create`).
Besides the shared pointers there are plain ones, captured by callbacks: the
screen's handlers, the filters and watch functions of D-Bus connections, queued
actions, the observer of input devices. Each factory and constructor of the init
callback may throw, which ends in the destruction of what there is. Of Mir the
model assumes that it holds the window manager while `run` lasts and that its
threads call only then.

### MirScreen

`set_power_mode` is split where other threads can come between: the copy of the
configuration, `compositor->stop()`, `display->configure`, `start`, and the
report. Each of the three calls may throw, before or after it has had its effect
(`request_throws`); the function-try-block then skips the rest. `configuration_applied` takes the mutex (`lock`) and
calls the handlers one by one (`to_call`). Mir's display thread changes the
configuration and reports afterwards. `disturbed` is history: the *last* request
has thrown, or the last request or change of the hardware has overlapped with
one of the other. A later one that does neither clears it, so that the
properties say that the screen heals. Mir's own behaviour
(its policy, that it restarts the compositor around a change, that it reports
changes one at a time) is external. `layout` is the option `display-config`:
under `single` Mir uses one of the outputs that are connected.

### AsioDMConnection

The asynchronous reads as the steps of the I/O thread; the pipe as a sequence
of headers and payload bytes; the `streambuf`, whose unread bytes survive a
message, as `message_payload_buffer`. The display manager may end between
messages or inside a payload; a write to a closed pipe ends the process. A
message of any id may have a payload. The source reads it, and takes it from the
buffer only if the message names a session: what ignored messages carried is in
front of the next name. `Names` shows the whole as an `ActionQueue`, whose actions
are the names as the handler gets them: `named`, history, has for each message
that names a session and was written completely the payloads since the last such
message (`unclaimed`), then its own. So the property says exactly what becomes
part of a name and what does not; with a display manager that sends payloads only
with names it is what was sent.

### DisplayService

`UnityDisplayService` composed with `MirScreen` (whose every step is also one of
this module) and with the event loop as `ActionQueue` promises it, turn by turn:
the actions, then the messages. A TurnOn or TurnOff is served in the loop's
thread, so that `request # "idle"` only while the loop serves, and its report
enqueues an action for a later turn. Registering calls the handler at once,
which enqueues the first action before there is a thread. `may_destroy` is what
the order of the members of `SystemCompositor` gives. The other owner of a
handler is the switcher, whose handler `the_screen` registers before anyone
else has the screen; it is called in the same loop under the lock, before or
after the service's. `published` is what Get
and GetAll answer and what the last signal said.

### InputConfiguration

The setters (loop thread, no lock) against `device_added` and `device_removed`
(Mir's thread, under `devices_lock`), one application of a configuration to a
device at a time. `device_added` hands a setting over by reference, without a
lock that the setters take: it reads the setting in one step (`pointer_read`,
`touchpad_read`) and applies what it has read in another, and a whole setter may
come in between. A setter reads and applies in one step, because only its own
thread writes the settings. A change of a set of devices under a setter's loop
over it is undefined in the source; the model lets the rest of the loop visit any
subset of the devices. A crash, the other possible outcome, is left out. `raced`
remembers either meeting until the next setter of that kind, which applies the
settings to all its devices and so makes up for what one has missed.

### ScreenEventHandler

`handle` by threads: the classification of an event, the two throttles under the
one mutex, a report that takes up to `MaxReport`, and the two readings of the
clock. `reported` and `missed` are history. The initial time of the source (the
epoch of the clock, far in the past) is `-event_period`, the latest time that
does not throttle the first report.

The MC modules give the constants of each instance. `MCInput` checks
`InputConfiguration` and `ScreenEventHandler` in one run: they share no state and
do not call each other, and each behaviour is one of either.

## 3. The runs

| Run | Question | Result |
|---|---|---|
| `switcher` | Whatever the calls: are exactly the right sessions displayed and focused, does the boot end at once with both sessions, is the spinner kept exactly as long as needed, is an entry lost only for a reason, is a session left suspended only if the focus was taken from it during a pause? | holds |
| `switcher_threads` | With the unlocked handler: do calls that do not overlap, statement by statement, implement the one-step operations, and who can dereference a null session? | holds; only the handler can |
| `spinner_lifecycle` | With forks, crashes and recycled pids: is every running spinner known, none left idle, and does one that is needed get on the screen? | holds |
| `spinner_client` | With any call failing and signals at any step: does a signal always end the process, is everything released in order, has every active output a surface, and do all show the same upright frame? | holds |
| `event_loop` | Is no wake-up and no stop lost, every action performed once and in order, the thread joined? | holds |
| `dbus_watches` | Does epoll wait for exactly what libdbus has enabled, and is every enabled watch that is ready, and every expired timer, dealt with? | holds |
| `dm_connection` | To the switcher, is the connection a queue of the names that were sent (with the payloads of ignored messages in front), and is every ping answered, once? | holds |
| `display_service` | Do both handlers know the current counts, is none called after it was unregistered, do requests and changes leave active outputs composited and counted, and are clients told last, and in the end, what the screen reported last? | holds |
| `input` | Does every device get all settings of its kind, in whatever order setters and devices come, unless they meet over one? Are reports of one kind of activity a period apart, and is activity unreported only soon after a report of its kind? | holds |
| `lifetimes` | Does no callback lead to a component that is gone, is there one instance of each, and does nothing leak, exceptions included? | holds |
| `handler_race` | Test `hides_all_sessions_on_inactive_display` | violated: the unlocked handler overlaps a call, which then shows a session |
| `null_session` | Test `displays_spinner_when_active_is_removed_unexpectedly`, for a session that is removed while the handler is about to show it | violated: the handler found it ready, looks it up again with `operator[]` and dereferences null |

Bounds, and why they are enough:

- `switcher`: five sessions. Active, next and spinner are all the roles the code
  knows; the others are a second client and a second spinner under a name already
  taken, for which `add` and `remove` have their special case. Two pids: the
  spinner's and another. Nothing else is bounded. The pids are interchangeable,
  and so are the sessions of one name; the run uses that symmetry (its properties
  are about single states and single steps).
- `switcher_threads`: two sessions of the greeter, so that one can replace the
  other and its removal be ignored, one of the shell and one spinner, and every
  order of the statements of the two threads. The only bound is `MaxConnected = 3`
  sessions connected at a time: three are all the names there are, and a second
  greeter may take the place of any of the others. The names' order is fixed; the
  proofs are for any. The pids are interchangeable, and so are the greeter's
  sessions: the run uses that symmetry, and a view that leaves out history where it
  is not looked at (it checks single states and single steps only).
  `handler_race` and `null_session` find their counterexamples with one session of
  each name.
- `spinner_lifecycle`: one client, two sessions of spinners and two pids, so that
  a client can get a dead spinner's pid while a new spinner runs, and a spinner
  can connect while the session of an earlier one is still there.
- `spinner_client`: two outputs, in any state; the command line the compositor
  gives (none), ones with attached and separate values, a `-m` that swallows an
  option, an option without a value; every native orientation, with a wide, a tall
  and a square surface. A surface's size may differ from frame to frame. The
  counter is kept modulo the six steps of the animation.
- `event_loop`: two producers, two actions, `MaxPushes = 3` calls: the third can
  come while the first is performed and the second waits. The pipe holds six
  bytes, one more than the five that can be outstanding together with stop's;
  `MaxSelfWakeUps = 2`, one in an action and one in a connection. With a pipe as
  small as the wake-ups the loop thread would block on itself (hazard
  `deadlock`); a real pipe holds 65536 bytes.
- `dbus_watches`: two connections, one with both watches on its descriptor and one
  that only reads, and one timeout, so that two watches share a descriptor and
  three kinds of descriptors compete for the turns of the loop.
- `dm_connection`: names of up to two bytes, so that a name can be cut in two or
  joined to another, and three messages of any id, payloads included, so that a
  leftover can come before a name and one be followed by another.
- `display_service`: one internal and one external output, both layouts, the two
  owners of handlers the system has, and `MaxPending = 1`: an action that waits
  before a new cause of reports is let in. Reports under way add to it: a request
  in the loop and a change by Mir may report meanwhile, so that three wait.
- `input`: a mouse, a touchpad that is a pointer as well, a keyboard; speeds below,
  in and above the range; one switch of a touchpad, for the four (and the scroll
  scales) are alike. Nothing else is bounded of the configuration. Of the events:
  two threads, a period of 2, reports of up to 1 and a clock up to 6: three
  periods, room for two reports of a kind and an event on, before and after each
  boundary. The threads are interchangeable.
- `lifetimes`: the components are those of the program; nothing is bounded.

`CHECK_DEADLOCK FALSE` is set where the system may stop: a connection that ended,
a loop that returned, a switcher that crashed, a clock at its bound.

### Fairness

- `DBusEventLoop`: threads that can run are scheduled (weak fairness of the
  loop's own steps, of an enqueue already begun, of a stop begun and of the
  join). Nobody is required to enqueue or to stop, and no message arrives or
  signal interrupts by fairness.
- `AsioDMConnection`: the I/O thread runs, and the server starts the connection
  (`dm_connection->start()` in the init callback).
- `DisplayService`: the threads that can run are scheduled. A thread that waits
  for the screen's mutex gets it although others take it in between (strong
  fairness of the two reports): each holder lets it go, and no thread takes it
  in a loop. The loop does not serve messages for ever (strong fairness of the
  end of a turn): `run` dispatches what epoll returned and then comes back to
  the actions. The thread of the loop is started. Nothing makes a client call,
  an output change, or the compositor end.
- `DBusWatches`: the loop's thread runs and libdbus returns to it (weak fairness of
  the turn). epoll keeps the ready descriptors in a list from which it takes the
  first and to whose end it puts what is still ready, so that each is reported
  in turn (strong fairness of `epoll_wait` per descriptor). Nothing makes a peer
  write, a timer expire or libdbus call.
- `SpinnerClient`: the process is scheduled and Mir and EGL answer (weak fairness
  of the steps of `main`). A swap is possible only while the outputs are on, and
  is then done if they are on again and again (strong fairness). `EndsWhenAsked`
  names that condition.
- `SpinnerLifecycle`: a spinner that runs opens a session, one that was told to
  terminate exits, which is what `SpinnerClient` shows of it as long as outputs
  are on again and again, and Mir notices a client that is gone. Nothing makes a
  client start, connect or exit.
- `SessionSwitcher`, `ServerStatus`, `SwitcherThreads`, `MirScreen`,
  `InputConfiguration`, `ScreenEventHandler` and `Lifetimes` have safety
  properties only and state no fairness.

## 4. The proofs

All theorems hold for every value of the constants that satisfies the named
assumption of the module.

`SessionSwitcherProofs` (from `ConstantsAssumption`, and `WellNamed` where
stated). `TypeCorrect` proves `TypeOK`, which contains the consistency of the
map, by itself. Then

    IInv == TypeOK /\ SpinnerIsSpinner /\ DisplayMatches /\ BootShowsOnlySpinner

is inductive (`InvariantKept`, `Invariance`). `DisplayMatches` alone is not: an
update hides only tracked sessions other than active and next, so that it needs
the previous display to be exact; it needs `SpinnerIsSpinner` because the
spinner must be neither the active nor the next session, or it would be shown
and hidden by the same update; and the boot property needs to know whose entry
the spinner name leads to. `DisplayCorrect` and `BootCorrect` follow.
`FocusCorrect` and `SpinnerAccounted` are re-established by every update from
scratch, and kept by a removal that is ignored. `ActiveKept`, `BootEndsAtOnce`
and `EntriesStay` are about steps: the first and the last are proved call by
call from the types, the other from `IInv` before and after the step, for what
an update shows when the boot ends is what is then wanted.

The same module has the theorems about what surrounds the switcher
(`SpinnerLifecycle`, `ServerStatus`). `SpinnerKnown`: a running spinner is the one
`spinner_pid` names. Each of the four cases of `system_calls` keeps it; a fork happens only when the pid is
unset, when by the invariant no spinner runs. `IdleSpinnerKilled` adds the
switcher's side: the composition makes the same calls to the switcher
(`SwitcherMoves`), clients with recycled pids included, so that the step lemmas
of `TypeCorrect` and `SpinnerAccounted` apply to it. Those are stated for any
call of any client (`AnyCall`), without `MayConnect`. `LeftSuspended` needs to
know what is suspended during a pause: the session in focus, and those that were
left (`PauseInv`).

`SwitcherThreadsProofs` (from `ConstantsAssumption`; the order of the names is not
used):
`ThreadsImplementSwitcher`, the refinement `CallsAreAtomic` step by step, and
`NullSessionOnlyInHandler`, for any number of sessions and names. Both are about
every run of the code's two threads; what is excepted is in the properties. For
the second, `Lookups` says that the names a thread has still to look up are in
the map. It holds of the call always: a handler takes no entry out. It holds of
the handler until a call begins in its midst (`"call" \in overlap`), which is
what happens in the run `null_session`. For the first, the
invariant of calls that are alone (`AloneInv`) begins anew whenever both threads
are idle (`IdleAlone`), whatever display an overlap has left: an update starts by
hiding, and needs to know of the display no more than the abstract one does.
A call is seen by the abstract switcher when it returns. Until then callers see
`saved`, the switcher at the beginning of the call, and the invariant relates it
to the one the statements are changing: no other thread is inside a call
(`OneCall`); what the names and
the map are now is one of the operations applied to `saved` (`Entered`; `gone`
is the session that a removal has hidden); and what is visible, focused, booting
and in the locals is what `update_displayed_sessions` does up to `pc`
(`Progress`). One lemma per statement shows that it keeps this, and that the
switcher seen does not change (`...Unseen`); the two places where the call
returns are the atomic step (`AllHiddenSeen`, `SettledSeen`). It is the order of
the statements that this depends on: `booting` is cleared after
`show_active` was computed with its old value, and a session shown by one
statement may be hidden by a later one of the same call.

`ActionQueueProofs` proves of the two components that are queues what
`ActionQueue` says without fairness. Of the loop (from `BoundsAssumption`): types,
`NoLostWakeUp` and `NoLostStop` as inductive invariants on their own over
`TypeOK`, and `PerformsInOrder`: each step of the loop is a step of `ActionQueue`
or a stutter, which needs from `TypeOK` that a batch is empty when a new one is
swapped in. Of the connection to the display manager (from
`ConnectionAssumption`): `NamesInOrder` and `PingsAnsweredOnce`, for messages of any
id and length and in any number, wherever the display manager or the connection
ends. The pipe
mixes headers and payloads, and nothing in it marks where a message begins, so
`ReadInv` says that there are `rest[i]`, the contents of the pipe when the first `i` messages are
read, and `left[i]`, the names that are then still to come; each is what message
`i + 1` puts in front of the next (`Chain`), and the connection is at one of them
or between a header and its payload (`Position`). What the display manager writes
is appended to all of them (`Extends`). What the payload buffer holds before
each header is part of it: the payloads that no name has taken yet (`over[i]`,
`Carried`), so that it is empty behind a name, which is where the proof fails if
`on_read_payload` does not consume the name. A message that was cut off leaves the position
`BehindLast`, from which nothing is handled any more. `PingsAnsweredOnce`, the
safety part of `EveryPingAnswered`, rests on the same position: `Answered` says
that the answers are one more than the pings among the messages that were read
(`PingCounted`), unless the process has ended over the last of them, and when the
pipe is empty between two messages all were read.

`DBusWatchesProofs` (from `DescriptorAssumption`): `EpollFollows`. `EpollMatches`
is inductive once the types of the registry are known; each callback of libdbus
has a lemma, which rests on the fact that the watches of another descriptor do
not change what epoll should wait for on this one (`OtherWatches`), and that
timers have descriptors of their own.

`DisplayServiceProofs` (from `ScreenAssumption`). Of the screen: `TypeCorrect`,
and with the invariant of the loop over the handlers (`LoopInv`: under the lock, the handlers
already called agree with the counts, and those to call are registered) the
theorems `HandlersInformed` and `UnregisteredNotCalled`. `ScreenComposited` and
`ScreenCounted` speak only of a screen at rest; what carries them through a
request is `HealInv`. As long as a request is undisturbed, Mir's thread neither
reports nor changes the hardware, so the copy has the connections of the display
(`RequestInv`), is the display once it is configured, and is counted in the
report; and a report of Mir's thread that no request has overlapped is that of
the display (`ReportInv`). Because every request and every change decides anew
whether it is disturbed, this is also how an earlier failure heals.

Of the screen with the service: every step of the composition
is a step of `MirScreen` or leaves it alone (`ScreenMoves`), so that the step
lemmas about the screen give `BothInformed`, `GoneNotCalled` and
`ServedScreenHeals`. `LastWordKept` needs `QueueInv`: the last of the counts on
their way (those of the batch, then those that wait) are the screen's, except
while the loop over the handlers has still to reach the service. `LatestOfAppend`
and `LatestOfTail` say what enqueueing and performing an action do to that last
one. Both threads report under the screen's mutex, and this is where it matters:
the order in which they count is the order in which they enqueue.

`InputProofs` is about the two parts that deal with input. Of
`InputConfiguration` (from `DeviceAssumption`): `TypeCorrect`, with the
fact that Mir's thread is between two devices exactly when it is adding none
(`TypeInv`), and `SettingsReachDevices`. The invariant `ConfigInv` says of each
part of a registered device, unless its set has changed under a loop, that it is
configured, or that the setter under way has still to come to it, or that
`device_added` has. For the last case it must also know that what Mir's thread has
read is still the setting (`ReadInv`): a setter that changes it in between is
`outdated`, and puts its kind into `raced`. A setter makes all parts of its kind
its own (`UpdateKeeps`), its loop gives them up one by one (`LoopKeeps`), and Mir's
thread inserts a device before it reads the settings (`MirKeeps`); read in the
other order, the third case would be lost to a setter in between.

Of `ScreenEventHandler` (from `HandlerAssumption`): `PeriodKept` and
`MissedSoon`. Both rest on `ClockInv`: while no report of a kind is being made,
the time that was noted for the last one is not before it began, which keeps the
reports apart, nor more than `MaxReport` after it, which limits what is missed.

`SpinnerClientProofs` (from `ClientAssumption`: finitely many outputs, at least
one, sizes that are numbers): `TypeCorrect`, `SurfacesReleased`,
`OutputsCovered`, `SurfacesInStep`. `main()` goes through
phases, and the invariant says how far the loop of each has come. `Placement`:
while surfaces are constructed, the surfaces `1 .. held` are on the outputs that
were taken from `to_place`, one on each, so that `held` is the number of those
outputs, and there is a slot left for each that is to come (`SlotLeft`); when
nothing is left to place this is `SurfaceOnEveryOutput`. `Frames`: inside a frame
the surfaces before the one being painted show the counter's dots already.
`Release`: while `main()` unwinds, the surfaces before the one being destroyed
are released, and the only window that is left behind is that of a surface whose
constructor threw. `Control` fixes when the outcome of `main()` is decided, for
what is left behind depends on it. `DotsInOrder`
says what the array of the dots is for each value of the counter.

`LifetimesProofs`: `CallbacksLive`, `InstancesShared`, `EverythingDestroyed`.
The program has one set of components and the module no constants, so the
theorems cover no more than the run does. They say why it passes: the proof
uses two tables (what each component uses, and what the init callback and the
members hold in which order) and nothing else of the graph. `Closed`: nobody
uses a component that is gone. `Founded`: whatever the init callback creates after
it got `dm_connection` lives only while that is held, which is the first member
and so the last to go, and with it the session switcher that the screen's
handlers lead to; and while the loop's thread is alive, or Mir runs, both
services are held, to which the filters, the enqueued action and the observer
lead. `InUse` with
`Temporaries` says that before the destruction nothing falls into disuse, so
that `CachedPtr` never finds its weak reference expired and creates a second
one. `NoCycle` (a set in which everybody but the connection has a user in the set
is at most the connection and what it uses) gives `EverythingDestroyed`.

Only model-checked:

- Liveness (`OwnerJoins`, the fairness part of `IsActionQueue` and of
  `IsNameQueue`, that of `EveryPingAnswered` which says "in the end",
  `NoEventLost`, `Converges`, `SpinnerAppears`, `EndsWhenAsked`), which is beyond
  this prover.
- `DrawnUpright`: how the picture is turned depends on nothing but the orientation
  and the size of one surface, and the run has every orientation with a wide, a
  tall and a square one.

## 5. What is not modelled

- A failed `execlp`: the child returns from `ensure_running` as a second copy of
  the compositor, one thread of a multithreaded process; the source does not
  define what it does. The destructor of `ExternalSpinner`, which kills, is not
  modelled either.
- A request that overlaps with hot-plugging: the source overwrites the change
  with its copy. It is modelled, and nothing is claimed of the display until the
  next request or change that overlaps with none (`disturbed`).
- After an exception of `stop()`, `configure()` or `start()` in `set_power_mode` the
  compositor may stay stopped behind outputs that are on. The model does it;
  `ActiveOutputsComposited` claims that the next request or change starts it
  again. (One of `display->configuration()` comes before any change.)
- What happens after a null session was dereferenced, and the data race itself on
  the map and the names of the switcher: the handler's statements fall between
  those of a call, and a loop that meets an erased entry is taken to dereference
  it.
- A session that another of its name replaces is no longer tracked, and stays
  displayed until it disconnects (`add` overwrites the entry without hiding).
  The model does it; no property claims otherwise (`DisplayMatches` and
  `BootEndsWithBoth` speak of tracked sessions).
- Replies of the D-Bus services: `UnityDisplayService` answers a call with bad
  arguments twice, by a reply and by an error, and `UnityInputService` does not
  answer it at all.
- A speed that is NaN, which passes both comparisons of the clamp.
- `add_watch` and `add_timeout` failing for want of descriptors or memory.
- A message of the display manager that comes while the members are destroyed
  and shows a session: whether its focus controller is still there depends on
  when Mir removes its sessions, which the source does not tell.
- Of `Server`: its options (among them the blacklist of graphics drivers), the
  null cursor listener and the stub cookies. They keep no state that a component
  reads later.
- Of the spinner: the vertices, textures and matrices, of which the dots and the
  sides of the area remain (a wallpaper that cannot be loaded gives a ratio of
  0/0, and is not drawn); a configuration read from a device's properties.
- Names, wording, logging.

## 6. The plan

Done, in this order: `SessionSwitcher` with its proofs, `SwitcherThreads`,
`SpinnerLifecycle`, `DBusEventLoop` over `ActionQueue`, `MirScreen`,
`AsioDMConnection`, `DisplayService` over `MirScreen`, `InputConfiguration`,
`ScreenEventHandler`, `DBusWatches` with its proof, `Lifetimes`; then
`SpinnerClient`, `ServerStatus`, the liveness of `SpinnerLifecycle`, the
connection as an `ActionQueue`, the switcher's handler in `DisplayService`, and
the proofs of `HealInv`, `QueueInv`, `ConfigInv`, `ClockInv`, `PauseInv` and
`IdleSpinnerKilled`; then those of `SpinnerClient`, of the calls of
`SwitcherThreads`, of the connection's queue of names and its answers, and of
`Lifetimes`. To come:

1. `SessionSwitcher` composed with `AsioDMConnection`: the init callback starts
   the connection before it creates the screen, so that messages are served
   before a handler tells the switcher of the outputs.
