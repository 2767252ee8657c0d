---------------------------- MODULE DBusEventLoop ----------------------------
(***************************************************************************)
(* usc::DBusEventLoop and the thread usc::DBusConnectionThread runs it in. *)
(*                                                                         *)
(* Any thread may enqueue() an action: it appends the action under the     *)
(* mutex and then, without the mutex, writes a byte to the wake-up pipe.   *)
(* The loop waits for the pipe or a connection, reads at most one byte,    *)
(* swaps the actions out under the mutex, performs them, and serves the    *)
(* connections.  The pipe blocks its writers when it is full.              *)
(*                                                                         *)
(* Connections are reduced to whether one of them is readable; the watches *)
(* and timeouts libdbus registers for them are not modelled here.          *)
(***************************************************************************)
EXTENDS Integers, Sequences

CONSTANTS
    Producer,       \* the threads that call enqueue()
    Action,         \* what they enqueue
    PipeCapacity,   \* bytes the wake-up pipe holds
    MaxPushes,      \* bound on the enqueue() calls of a behaviour
    MaxSelfWakeUps  \* bound on the wake-ups libdbus asks for in the loop thread

ASSUME BoundsAssumption ==
    /\ PipeCapacity \in Nat /\ PipeCapacity > 0
    /\ MaxPushes \in Nat
    /\ MaxSelfWakeUps \in Nat

VARIABLES
    \* members of DBusEventLoop
    running,
    actions,        \* enqueued, under the mutex
    \* the wake-up pipe and the connections
    pipe,           \* bytes in the pipe
    readable,       \* epoll would report a connection
    \* local state of the threads
    producer,       \* "idle", or "wake_up" between push_back and write
    loop,           \* where the loop thread is
    batch,          \* actions_to_dispatch, what is left of it
    owner,          \* the DBusConnectionThread: "alive", "wake_up", "join", "gone"
    \* history and bounds
    performed,
    pushes,
    self_wake_ups

vars == <<running, actions, pipe, readable, producer, loop, batch, owner,
          performed, pushes, self_wake_ups>>

\* The loop thread: before run() has set `running`; about to test it; in
\* epoll_wait; about to swap the actions; performing the batch; serving the
\* connections; and in write() to its own pipe, from an action or a connection.
LoopAt == {"start", "test_running", "wait", "swap", "perform", "serve",
           "wake_up_in_perform", "wake_up_in_serve", "returned"}

CountersOK ==
    /\ pipe \in 0 .. PipeCapacity
    /\ pushes \in 0 .. MaxPushes
    /\ self_wake_ups \in 0 .. MaxSelfWakeUps

TypeOK ==
    /\ CountersOK
    /\ running \in BOOLEAN
    /\ actions \in Seq(Action)
    /\ readable \in BOOLEAN
    /\ producer \in [Producer -> {"idle", "wake_up"}]
    /\ loop \in LoopAt
    /\ batch \in Seq(Action)
    /\ (batch # <<>> => loop \in {"perform", "wake_up_in_perform"})
    /\ owner \in {"alive", "wake_up", "join", "gone"}
    /\ performed \in Seq(Action)

Init ==
    /\ running = FALSE
    /\ actions = <<>>
    /\ pipe = 0
    /\ readable = FALSE
    /\ producer = [p \in Producer |-> "idle"]
    /\ loop = "start"
    /\ batch = <<>>
    /\ owner = "alive"
    /\ performed = <<>>
    /\ pushes = 0
    /\ self_wake_ups = 0

-----------------------------------------------------------------------------
\* wake_up_loop(): a write to the blocking pipe.
wake_up_loop ==
    /\ pipe < PipeCapacity
    /\ pipe' = pipe + 1

after_push_only_if_waiting == IF loop = "wait" THEN "wake_up" ELSE "idle"
\* Every enqueue() goes on to wake the loop up.
after_push == "wake_up"

\* enqueue(), up to the end of the scope of its lock ...
enqueue_push(p, a) ==
    /\ producer[p] = "idle"
    /\ pushes < MaxPushes
    /\ pushes' = pushes + 1
    /\ actions' = Append(actions, a)
    /\ producer' = [producer EXCEPT ![p] = after_push]
    /\ UNCHANGED <<running, pipe, readable, loop, batch, owner, performed, self_wake_ups>>

\* ... and the rest of it.
enqueue_wake_up(p) ==
    /\ producer[p] = "wake_up"
    /\ wake_up_loop
    /\ producer' = [producer EXCEPT ![p] = "idle"]
    /\ UNCHANGED <<running, actions, readable, loop, batch, owner, performed,
                   pushes, self_wake_ups>>

\* A message arrives on a connection.
message_arrives ==
    /\ ~ readable
    /\ loop \notin {"start", "returned"}
    /\ readable' = TRUE
    /\ UNCHANGED <<running, actions, pipe, producer, loop, batch, owner, performed,
                   pushes, self_wake_ups>>

-----------------------------------------------------------------------------
\* run()

\* running = true; started.set_value()
run_starts ==
    /\ loop = "start"
    /\ running' = TRUE
    /\ loop' = "test_running"
    /\ UNCHANGED <<actions, pipe, readable, producer, batch, owner, performed,
                   pushes, self_wake_ups>>

\* while (running); the last flush is part of the return
test_running ==
    /\ loop = "test_running"
    /\ loop' = IF running THEN "wait" ELSE "returned"
    /\ UNCHANGED <<running, actions, pipe, readable, producer, batch, owner,
                   performed, pushes, self_wake_ups>>

\* epoll_wait reports the pipe, and one byte of it is read.
wait_wake_up ==
    /\ loop = "wait"
    /\ pipe > 0
    /\ pipe' = pipe - 1
    /\ loop' = "swap"
    /\ UNCHANGED <<running, actions, readable, producer, batch, owner, performed,
                   pushes, self_wake_ups>>

\* epoll_wait reports a connection, and its watch is handled.
wait_connection ==
    /\ loop = "wait"
    /\ readable
    /\ loop' = "swap"
    /\ UNCHANGED <<running, actions, pipe, readable, producer, batch, owner,
                   performed, pushes, self_wake_ups>>

\* A signal interrupts a wait that has nothing to report.
wait_interrupted ==
    /\ loop = "wait"
    /\ pipe = 0 /\ ~ readable
    /\ loop' = "test_running"
    /\ UNCHANGED <<running, actions, pipe, readable, producer, batch, owner,
                   performed, pushes, self_wake_ups>>

actions_not_cleared == actions
\* what dispatch_actions() leaves in `actions` when it swaps
actions_after_swap == <<>>

\* dispatch_actions(): the swap under the mutex ...
swap_actions ==
    /\ loop = "swap"
    /\ batch' = actions
    /\ actions' = actions_after_swap
    /\ loop' = "perform"
    /\ UNCHANGED <<running, pipe, readable, producer, owner, performed, pushes,
                   self_wake_ups>>

\* libdbus may ask for a wake-up when the loop thread sends a message.
may_wake_itself(here, after) ==
    \/ /\ loop' = after
       /\ UNCHANGED self_wake_ups
    \/ /\ self_wake_ups < MaxSelfWakeUps
       /\ self_wake_ups' = self_wake_ups + 1
       /\ loop' = here

\* ... and the calls of the actions, without the mutex.
perform_action ==
    /\ loop = "perform"
    /\ batch # <<>>
    /\ performed' = Append(performed, Head(batch))
    /\ batch' = Tail(batch)
    /\ may_wake_itself("wake_up_in_perform", "perform")
    /\ UNCHANGED <<running, actions, pipe, readable, producer, owner, pushes>>

batch_done ==
    /\ loop = "perform"
    /\ batch = <<>>
    /\ loop' = "serve"
    /\ UNCHANGED <<running, actions, pipe, readable, producer, batch, owner,
                   performed, pushes, self_wake_ups>>

\* dbus_connection_flush and dbus_connection_dispatch until nothing remains
serve_connections ==
    /\ loop = "serve"
    /\ readable' = FALSE
    /\ may_wake_itself("wake_up_in_serve", "test_running")
    /\ UNCHANGED <<running, actions, pipe, producer, batch, owner, performed, pushes>>

wake_itself ==
    /\ \/ loop = "wake_up_in_perform" /\ loop' = "perform"
       \/ loop = "wake_up_in_serve" /\ loop' = "test_running"
    /\ wake_up_loop
    /\ UNCHANGED <<running, actions, readable, producer, batch, owner, performed,
                   pushes, self_wake_ups>>

-----------------------------------------------------------------------------
\* ~DBusConnectionThread: stop(), then join.  The constructor has waited for
\* the promise `started`, so run() has set `running` before.

join_at_once == "join"
\* stop() goes on to wake the loop up.
after_stop == "wake_up"

stop_running ==
    /\ owner = "alive"
    /\ loop # "start"
    /\ running' = FALSE
    /\ owner' = after_stop
    /\ UNCHANGED <<actions, pipe, readable, producer, loop, batch, performed, pushes,
                   self_wake_ups>>

stop_wake_up ==
    /\ owner = "wake_up"
    /\ wake_up_loop
    /\ owner' = "join"
    /\ UNCHANGED <<running, actions, readable, producer, loop, batch, performed,
                   pushes, self_wake_ups>>

join ==
    /\ owner = "join"
    /\ loop = "returned"
    /\ owner' = "gone"
    /\ UNCHANGED <<running, actions, pipe, readable, producer, loop, batch, performed,
                   pushes, self_wake_ups>>

-----------------------------------------------------------------------------
Enqueuing ==
    \/ \E p \in Producer, a \in Action : enqueue_push(p, a)
    \/ \E p \in Producer : enqueue_wake_up(p)

\* What the loop thread does by itself; an interrupted wait needs a signal.
Looping ==
    \/ run_starts
    \/ test_running
    \/ wait_wake_up
    \/ wait_connection
    \/ swap_actions
    \/ perform_action
    \/ batch_done
    \/ serve_connections
    \/ wake_itself

Stopping == stop_running \/ stop_wake_up \/ join

Next == Enqueuing \/ Looping \/ Stopping \/ message_arrives \/ wait_interrupted

\* Threads that can run are scheduled; nobody has to enqueue or to stop.
Fairness ==
    /\ WF_vars(Looping)
    /\ \A p \in Producer : WF_vars(enqueue_wake_up(p))
    /\ WF_vars(stop_wake_up)
    /\ WF_vars(join)

Spec == Init /\ [][Next]_vars /\ Fairness

-----------------------------------------------------------------------------
\* An enqueued action the loop has not taken yet is never forgotten: the loop
\* has still to pass the swap before it waits again, or a byte in the pipe (or
\* the producer about to write one) will end its wait.
NoLostWakeUp ==
    actions # <<>> =>
        \/ loop \in {"swap", "returned"}
        \/ pipe > 0
        \/ \E p \in Producer : producer[p] = "wake_up"

\* A stop() is not missed either: while the owner is stopping or waits for the
\* thread, the loop is past its wait or something will end it.
NoLostStop ==
    owner \in {"wake_up", "join"} =>
        /\ ~ running /\ loop # "start"
        /\ \/ loop # "wait"
           \/ pipe > 0
           \/ owner = "wake_up"

\* ~DBusConnectionThread returns: once it has begun to stop the loop, the
\* thread ends and is joined.
OwnerJoins == (owner # "alive") ~> (owner = "gone")

Queue ==
    INSTANCE ActionQueue
    WITH pending <- batch \o actions, stopped <- owner # "alive"

\* The loop performs each enqueued action once, in order, and eventually.
IsActionQueue == Queue!QueueSpec
=============================================================================
