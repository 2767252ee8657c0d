--------------------------- MODULE ActionQueueProofs ---------------------------
(***************************************************************************)
(* Theorems about the two components that hand something over to a thread  *)
(* of their own, in order and nothing twice: the loop of the D-Bus         *)
(* services, for any number of threads and actions and any capacity of its *)
(* pipe, and the connection to the display manager, for messages of any    *)
(* length and in any number.                                               *)
(***************************************************************************)
EXTENDS DBusEventLoop, AsioDMConnection, SequenceTheorems, FiniteSetTheorems, TLAPS

\* The counters stay within their bounds.
LEMMA CountersKept ==
    ASSUME CountersOK, [Next]_vars
    PROVE  CountersOK'
<1> USE BoundsAssumption DEF CountersOK
<1>1. CASE Enqueuing
  BY <1>1 DEF Enqueuing, enqueue_push, enqueue_wake_up, wake_up_loop
<1>2. CASE run_starts \/ test_running \/ wait_wake_up \/ wait_connection
  BY <1>2 DEF run_starts, test_running, wait_wake_up, wait_connection
<1>3. CASE swap_actions \/ batch_done
  BY <1>3 DEF swap_actions, batch_done
<1>4. CASE perform_action \/ serve_connections \/ wake_itself
  BY <1>4 DEF perform_action, serve_connections, may_wake_itself, wake_itself, wake_up_loop
<1>5. CASE Stopping
  BY <1>5 DEF Stopping, stop_running, stop_wake_up, wake_up_loop, join
<1>6. CASE message_arrives \/ wait_interrupted \/ UNCHANGED vars
  BY <1>6 DEF message_arrives, wait_interrupted, vars
<1> QED BY <1>1, <1>2, <1>3, <1>4, <1>5, <1>6 DEF Next, Looping

\* TypeOK: the variables have their types, and a batch is left only while it
\* is performed.
THEOREM TypeCorrect == Spec => []TypeOK
<1>1. Init => TypeOK
  <2>1. Init => CountersOK
    BY BoundsAssumption DEF Init, CountersOK
  <2>2. Init => producer \in [Producer -> {"idle", "wake_up"}]
    BY DEF Init
  <2>3. <<>> \in Seq(Action)
    OBVIOUS
  <2>4. Init => /\ running \in BOOLEAN /\ readable \in BOOLEAN
                /\ actions \in Seq(Action) /\ batch \in Seq(Action)
                /\ performed \in Seq(Action) /\ batch = <<>>
    BY <2>3 DEF Init
  <2> QED BY <2>1, <2>2, <2>4 DEF Init, TypeOK, LoopAt
<1>2. TypeOK /\ [Next]_vars => TypeOK'
  <2> SUFFICES ASSUME TypeOK, [Next]_vars PROVE TypeOK'
    OBVIOUS
  <2>0. CountersOK'
    BY CountersKept DEF TypeOK
  <2> USE <2>0 DEF TypeOK, LoopAt
  <2>1. CASE \E p \in Producer, a \in Action : enqueue_push(p, a)
    BY <2>1 DEF enqueue_push, after_push
  <2>2. CASE \E p \in Producer : enqueue_wake_up(p)
    BY <2>2 DEF enqueue_wake_up, wake_up_loop
  <2>3. CASE run_starts \/ test_running \/ wait_connection \/ batch_done
    BY <2>3 DEF run_starts, test_running, wait_connection, batch_done
  <2>4. CASE wait_wake_up
    BY <2>4 DEF wait_wake_up
  <2>5. CASE swap_actions
    BY <2>5 DEF swap_actions, actions_after_swap
  <2>6. CASE perform_action
    BY <2>6 DEF perform_action, may_wake_itself
  <2>7. CASE serve_connections
    BY <2>7 DEF serve_connections, may_wake_itself
  <2>8. CASE wake_itself
    BY <2>8 DEF wake_itself, wake_up_loop
  <2>9. CASE Stopping
    BY <2>9 DEF Stopping, stop_running, after_stop, stop_wake_up, wake_up_loop, join
  <2>10. CASE message_arrives \/ wait_interrupted
    BY <2>10 DEF message_arrives, wait_interrupted
  <2>11. CASE UNCHANGED vars
    BY <2>11 DEF vars
  <2> QED BY <2>1, <2>2, <2>3, <2>4, <2>5, <2>6, <2>7, <2>8, <2>9, <2>10, <2>11
          DEF Next, Enqueuing, Looping
<1> QED BY <1>1, <1>2, PTL DEF Spec

\* NoLostWakeUp: the loop does not go to sleep on an enqueued action, although
\* enqueue() writes to the pipe after it has released the mutex and the loop
\* reads the pipe before it takes it.
THEOREM WakeUpsKept == Spec => []NoLostWakeUp
<1>1. Init => NoLostWakeUp
  BY DEF Init, NoLostWakeUp
<1>2. TypeOK /\ NoLostWakeUp /\ [Next]_vars => NoLostWakeUp'
  <2> SUFFICES ASSUME TypeOK, NoLostWakeUp, [Next]_vars PROVE NoLostWakeUp'
    OBVIOUS
  <2> USE BoundsAssumption DEF NoLostWakeUp
  <2>1. CASE \E p \in Producer, a \in Action : enqueue_push(p, a)
    BY <2>1 DEF enqueue_push, after_push, TypeOK
  <2>2. CASE \E p \in Producer : enqueue_wake_up(p)
    BY <2>2 DEF enqueue_wake_up, wake_up_loop, TypeOK, CountersOK
  <2>3. CASE Looping
    <3>1. CASE run_starts \/ test_running
      BY <3>1 DEF run_starts, test_running
    <3>2. CASE wait_wake_up \/ wait_connection
      BY <3>2 DEF wait_wake_up, wait_connection
    <3>3. CASE swap_actions
      BY <3>3 DEF swap_actions, actions_after_swap
    <3>4. CASE perform_action \/ batch_done \/ serve_connections
      BY <3>4 DEF perform_action, batch_done, serve_connections
    <3>5. CASE wake_itself
      BY <3>5 DEF wake_itself, wake_up_loop, TypeOK, CountersOK
    <3> QED BY <2>3, <3>1, <3>2, <3>3, <3>4, <3>5 DEF Looping
  <2>4. CASE Stopping
    BY <2>4 DEF Stopping, stop_running, stop_wake_up, wake_up_loop, join, TypeOK, CountersOK
  <2>5. CASE message_arrives \/ wait_interrupted \/ UNCHANGED vars
    BY <2>5 DEF message_arrives, wait_interrupted, vars
  <2> QED BY <2>1, <2>2, <2>3, <2>4, <2>5 DEF Next, Enqueuing
<1> QED BY <1>1, <1>2, TypeCorrect, PTL DEF Spec

\* NoLostStop: ~DBusConnectionThread never joins a thread that nothing wakes.
THEOREM StopsKept == Spec => []NoLostStop
<1>1. Init => NoLostStop
  BY DEF Init, NoLostStop
<1>2. TypeOK /\ NoLostStop /\ [Next]_vars => NoLostStop'
  <2> SUFFICES ASSUME TypeOK, NoLostStop, [Next]_vars PROVE NoLostStop'
    OBVIOUS
  <2> USE BoundsAssumption DEF NoLostStop
  <2>1. CASE Enqueuing
    BY <2>1 DEF Enqueuing, enqueue_push, enqueue_wake_up, wake_up_loop, TypeOK, CountersOK
  <2>2. CASE run_starts \/ test_running \/ wait_wake_up \/ wait_connection
    BY <2>2 DEF run_starts, test_running, wait_wake_up, wait_connection
  <2>3. CASE swap_actions \/ batch_done
    BY <2>3 DEF swap_actions, batch_done
  <2>4. CASE perform_action \/ serve_connections
    BY <2>4 DEF perform_action, serve_connections, may_wake_itself
  <2>5. CASE wake_itself
    BY <2>5 DEF wake_itself, wake_up_loop, TypeOK, CountersOK
  <2>6. CASE Stopping
    BY <2>6 DEF Stopping, stop_running, after_stop, stop_wake_up, wake_up_loop, join, TypeOK, CountersOK
  <2>7. CASE message_arrives \/ wait_interrupted \/ UNCHANGED vars
    BY <2>7 DEF message_arrives, wait_interrupted, vars
  <2> QED BY <2>1, <2>2, <2>3, <2>4, <2>5, <2>6, <2>7 DEF Next, Looping
<1> QED BY <1>1, <1>2, TypeCorrect, PTL DEF Spec

-----------------------------------------------------------------------------
\* The safety part of IsActionQueue, under the refinement mapping of
\* DBusEventLoop: the actions pending are those left in the batch followed by
\* those enqueued since the swap.
THEOREM PerformsInOrder == Spec => Queue!QueueSafety
<1> USE DEF Queue!queue_vars
<1>1. Init => Queue!QueueInit
  BY DEF Init, Queue!QueueInit
<1>2. TypeOK /\ [Next]_vars => [Queue!QueueNext]_Queue!queue_vars
  <2> SUFFICES ASSUME TypeOK, [Next]_vars
               PROVE  Queue!QueueNext \/ UNCHANGED Queue!queue_vars
    OBVIOUS
  <2>0. batch \in Seq(Action) /\ actions \in Seq(Action)
    BY DEF TypeOK
  <2>1. CASE \E p \in Producer, a \in Action : enqueue_push(p, a)
    <3> PICK p \in Producer, a \in Action : enqueue_push(p, a)
      BY <2>1
    <3>1. /\ batch \o Append(actions, a) = Append(batch \o actions, a)
          /\ batch \o actions \in Seq(Action)
      BY <2>0
    <3>2. (batch \o actions)' = Append(batch \o actions, a)
      BY <2>1, <3>1 DEF enqueue_push
    <3> DEFINE q == batch \o actions
    <3>3. q \in Seq(Action) /\ q' = Append(q, a)
      BY <3>1, <3>2
    <3> HIDE DEF q
    <3>4. q' # <<>> /\ q'[Len(q')] = a
      BY <3>3, AppendProperties, LenProperties
    <3>5. q' # <<>> /\ q'[Len(q')] \in Action /\ q' = Append(q, q'[Len(q')])
      BY <3>3, <3>4
    <3>6. UNCHANGED <<performed, owner>>
      BY <2>1 DEF enqueue_push
    <3> QED BY <3>5, <3>6 DEF q, Queue!QueueNext, Queue!Enqueue
  <2>2. CASE \E p \in Producer : enqueue_wake_up(p)
    BY <2>2 DEF enqueue_wake_up
  <2>3. CASE run_starts \/ test_running \/ wait_wake_up \/ wait_connection
    BY <2>3 DEF run_starts, test_running, wait_wake_up, wait_connection
  <2>4. CASE swap_actions
    <3>1. batch = <<>>
      BY <2>4 DEF swap_actions, TypeOK
    <3>2. <<>> \o actions = actions /\ actions \o <<>> = actions
      BY <2>0
    <3> QED BY <2>4, <3>1, <3>2 DEF swap_actions, actions_after_swap
  <2>5. CASE perform_action
    <3>1. batch # <<>>
      BY <2>5 DEF perform_action
    <3>2. /\ batch \o actions # <<>>
          /\ Head(batch \o actions) = Head(batch)
          /\ Tail(batch \o actions) = Tail(batch) \o actions
      BY <2>0, <3>1
    <3> QED BY <2>5, <3>2 DEF perform_action, Queue!QueueNext, Queue!Perform
  <2>6. CASE batch_done \/ serve_connections \/ wake_itself
    BY <2>6 DEF batch_done, serve_connections, wake_itself
  <2>7. CASE stop_running
    BY <2>7 DEF stop_running, after_stop, Queue!QueueNext, Queue!Stop
  <2>8. CASE stop_wake_up \/ join
    BY <2>8 DEF stop_wake_up, join
  <2>9. CASE message_arrives \/ wait_interrupted \/ UNCHANGED vars
    BY <2>9 DEF message_arrives, wait_interrupted, vars
  <2> QED BY <2>1, <2>2, <2>3, <2>4, <2>5, <2>6, <2>7, <2>8, <2>9
          DEF Next, Enqueuing, Looping, Stopping
<1> QED BY <1>1, <1>2, TypeCorrect, PTL DEF Spec, Queue!QueueSafety

-----------------------------------------------------------------------------
\* The connection to the display manager.  What the pipe has is, at any time,
\* what is left of the messages after those that were read: this needs no
\* counting of bytes if one asks for the pipe's contents after each message.

\* A concatenation, taken apart again
LEMMA SplitAfter ==
    ASSUME NEW S, NEW s \in Seq(S), NEW t \in Seq(S)
    PROVE  /\ SubSeq(s \o t, 1, Len(s)) = s
           /\ SubSeq(s \o t, Len(s) + 1, Len(s \o t)) = t
<1>1. /\ s \o t \in Seq(S) /\ Len(s) \in Nat /\ Len(t) \in Nat
      /\ Len(s \o t) = Len(s) + Len(t)
      /\ \A i \in 1 .. Len(s) + Len(t) : (s \o t)[i] = IF i <= Len(s) THEN s[i] ELSE t[i - Len(s)]
  BY ConcatProperties, LenProperties
<1>2. \A i \in 1 .. Len(s \o t) : (s \o t)[i] \in S
  BY <1>1, ElementOfSeq
<1>3. SubSeq(s \o t, 1, Len(s)) = s
  <2> DEFINE u == SubSeq(s \o t, 1, Len(s))
  <2>1. u \in Seq(S) /\ Len(u) = Len(s) /\ \A i \in 1 .. Len(s) : u[i] = (s \o t)[i]
    BY <1>1, <1>2, SubSeqProperties
  <2> HIDE DEF u
  <2>2. \A i \in 1 .. Len(s) : u[i] = s[i]
    BY <1>1, <2>1
  <2>3. u = s
    BY <2>1, <2>2, SeqEqual
  <2> QED BY <2>3 DEF u
<1>4. SubSeq(s \o t, Len(s) + 1, Len(s \o t)) = t
  <2> DEFINE u == SubSeq(s \o t, Len(s) + 1, Len(s \o t))
  <2>1. u \in Seq(S) /\ Len(u) = Len(t) /\ \A i \in 1 .. Len(t) : u[i] = (s \o t)[Len(s) + i]
    BY <1>1, <1>2, SubSeqProperties
  <2> HIDE DEF u
  <2>2. \A i \in 1 .. Len(t) : u[i] = t[i]
    BY <1>1, <2>1
  <2>3. u = t
    BY <2>1, <2>2, SeqEqual
  <2> QED BY <2>3 DEF u
<1> QED BY <1>3, <1>4

Pipe == Seq(Header \cup Byte)

\* What a message puts into the pipe
LEMMA MessageType ==
    ASSUME NEW m \in Message
    PROVE  /\ m.payload \in Seq(Byte) /\ m.payload \in Pipe
           /\ header(m) \in Header
           /\ header(m).length = Len(m.payload) /\ header(m).id = m.id
           /\ m.id \in USCMessageID
           /\ Len(m.payload) \in Nat
           /\ m = [id |-> m.id, payload |-> m.payload]
<1> USE ConnectionAssumption
<1>1. PICK n \in 0 .. MaxPayload : m.payload \in [1 .. n -> Byte]
  BY DEF Message, Payload
<1>2. m.payload \in Seq(Byte) /\ Len(m.payload) = n
  BY <1>1
<1>3. m.payload \in Pipe
  BY <1>2, SeqMonotonic DEF Pipe
<1> QED BY <1>1, <1>2, <1>3 DEF header, Header, Message

\* What the handler is called with
LEMMA NameType ==
    ASSUME NEW m \in Message, names_session(m.id), NEW ignored \in Seq(Byte)
    PROVE  behind(ignored, m) \in Name
<1>1. ignored \o m.payload \in Seq(Byte)
  BY MessageType, ConcatProperties
<1> QED BY <1>1 DEF behind, Name, names_session

-----------------------------------------------------------------------------
\* over[i] is what the first i messages leave in the buffer: the payloads after
\* the last name.
Carried(over) ==
    /\ over \in [0 .. Len(sent) -> Seq(Byte)]
    /\ over[0] = << >>
    /\ \A i \in 1 .. Len(sent) :
          over[i] = IF names_session(sent[i].id) THEN << >> ELSE over[i - 1] \o sent[i].payload
    /\ over[Len(sent)] = unclaimed

\* rest[i] is what the pipe has after the first i messages, left[i] the names
\* in the messages after these.
Chain(rest, over, left) ==
    /\ Carried(over)
    /\ rest \in [0 .. Len(sent) -> Pipe]
    /\ left \in [0 .. Len(sent) -> Seq(Name)]
    /\ \A i \in 1 .. Len(sent) :
          /\ rest[i - 1] = <<header(sent[i])>> \o (sent[i].payload \o rest[i])
          /\ left[i - 1] = IF names_session(sent[i].id)
                           THEN <<behind(over[i - 1], sent[i])>> \o left[i]
                           ELSE left[i]
    /\ left[Len(sent)] = << >>

CutOff(m, n) == <<header(m)>> \o SubSeq(m.payload, 1, n)

\* Nothing follows the messages, or the message the display manager did not
\* complete.
Ends(rest) ==
    \/ rest[Len(sent)] = << >>
    \/ /\ ~dm_alive
       /\ \E m \in Message : \E n \in 0 .. Len(m.payload) - 1 : rest[Len(sent)] = CutOff(m, n)

\* The reads have completed the first c messages, and are in the next one or
\* behind the last.
BeforeHeader(rest, over, c) ==
    /\ reading \in {"not_started", "header"}
    /\ message_payload_buffer = over[c]
    /\ from_dm_pipe = rest[c]
BeforePayload(rest, over, c) ==
    /\ reading = "payload"
    /\ message_payload_buffer = over[c]
    /\ c < Len(sent)
    /\ message_header = header(sent[c + 1])
    /\ from_dm_pipe = sent[c + 1].payload \o rest[c + 1]
BehindLast(c) ==
    /\ ~dm_alive /\ c = Len(sent)
    /\ \/ /\ reading = "payload"
          /\ message_header \in Header /\ Len(from_dm_pipe) < message_header.length
       \/ reading = "header" /\ from_dm_pipe = << >>
NoLonger == reading \in {"ended", "destroyed", "terminated"}

Position(rest, over, c) ==
    BeforeHeader(rest, over, c) \/ BeforePayload(rest, over, c) \/ BehindLast(c) \/ NoLonger

\* The pings among the first c messages
PingsRead(c) == {i \in 1 .. c : sent[i].id = "ping"}

\* Each of them was answered, after the announcement; the process may have ended
\* over the last one.
Answered(c) ==
    /\ answers \in Seq({"ready", "pong"})
    /\ \A i \in DOMAIN answers : answers[i] = IF i = 1 THEN "ready" ELSE "pong"
    /\ Len(answers) <= Cardinality(PingsRead(c)) + 1
    /\ reading = "not_started" => c = 0 /\ answers = << >>
    /\ reading \in {"header", "payload", "ended"} =>
          Len(answers) = Cardinality(PingsRead(c)) + 1

Parsed(rest, over, left, c) ==
    /\ c \in 0 .. Len(sent)
    /\ Chain(rest, over, left)
    /\ Ends(rest)
    /\ Position(rest, over, c)
    /\ named = handled \o left[c]
    /\ Answered(c)

\* Nothing is lost, doubled or mixed up on the way: what is to come is what is
\* left of the messages after the first c.
ReadInv ==
    /\ sent \in Seq(Message) /\ handled \in Seq(Name) /\ from_dm_pipe \in Pipe
    /\ \E rest, over, left, c : Parsed(rest, over, left, c)

\* What Names takes for the queue
Pending == SubSeq(named, Len(handled) + 1, Len(named))

\* The names that are left are the queue.
LEMMA PendingLeft ==
    ASSUME handled \in Seq(Name), NEW names \in Seq(Name), named = handled \o names
    PROVE  Pending = names
BY SplitAfter DEF Pending

-----------------------------------------------------------------------------
\* Concatenation is associative, here and of names.
\* What is appended to the pipe is appended to its end.
LEMMA PipeAssociative ==
    ASSUME NEW s \in Pipe, NEW t \in Pipe, NEW u \in Pipe
    PROVE  (s \o t) \o u = s \o (t \o u)
<1> DEFINE S == Header \cup Byte
<1>1. s \in Seq(S) /\ t \in Seq(S) /\ u \in Seq(S)
  BY DEF Pipe
<1> HIDE DEF S
<1> QED BY <1>1, ConcatAssociative

LEMMA PipeConcat ==
    \A s, t, u \in Pipe : s \o t \in Pipe /\ (s \o t) \o u = s \o (t \o u)
<1> SUFFICES ASSUME NEW s \in Pipe, NEW t \in Pipe, NEW u \in Pipe
             PROVE  s \o t \in Pipe /\ (s \o t) \o u = s \o (t \o u)
  OBVIOUS
<1> DEFINE S == Header \cup Byte
<1>1. s \in Seq(S) /\ t \in Seq(S) /\ Pipe = Seq(S)
  BY DEF Pipe
<1> HIDE DEF S
<1>2. s \o t \in Seq(S)
  BY <1>1, ConcatProperties
<1>3. (s \o t) \o u = s \o (t \o u)
  BY PipeAssociative
<1> QED BY <1>1, <1>2, <1>3

LEMMA NamesConcat ==
    ASSUME NEW s \in Seq(Name), NEW t \in Seq(Name), NEW u \in Seq(Name)
    PROVE  (s \o t) \o u = s \o (t \o u)
<1> DEFINE S == Name
<1>1. s \in Seq(S) /\ t \in Seq(S) /\ u \in Seq(S)
  OBVIOUS
<1> HIDE DEF S
<1> QED BY <1>1, ConcatAssociative

\* What the display manager writes comes after everything.
LEMMA Extends ==
    ASSUME sent \in Seq(Message), NEW rest, NEW over, NEW left, NEW c \in 0 .. Len(sent), Chain(rest, over, left),
           NEW e \in Pipe
    PROVE  /\ \A i \in 0 .. Len(sent) : rest[i] \o e \in Pipe
           /\ \A i \in 1 .. Len(sent) :
                 /\ rest[i - 1] \o e = <<header(sent[i])>> \o (sent[i].payload \o (rest[i] \o e))
                 /\ (sent[i].payload \o rest[i]) \o e = sent[i].payload \o (rest[i] \o e)
<1>1. \A i \in 0 .. Len(sent) : rest[i] \in Pipe
  BY DEF Chain
<1>2. ASSUME NEW i \in 1 .. Len(sent)
      PROVE  /\ rest[i - 1] \o e = <<header(sent[i])>> \o (sent[i].payload \o (rest[i] \o e))
             /\ (sent[i].payload \o rest[i]) \o e = sent[i].payload \o (rest[i] \o e)
  <2>1. sent[i] \in Message /\ Len(sent) \in Nat
    BY ElementOfSeq
  <2>2. sent[i].payload \in Pipe /\ header(sent[i]) \in Header
    BY <2>1, MessageType
  <2>3. <<header(sent[i])>> \in Pipe
    BY <2>2 DEF Pipe
  <2>4. rest[i] \in Pipe /\ sent[i].payload \o rest[i] \in Pipe
    BY <1>1, <2>1, <2>2, ConcatProperties DEF Pipe
  <2>5. (sent[i].payload \o rest[i]) \o e = sent[i].payload \o (rest[i] \o e)
    <3> DEFINE p == sent[i].payload
               r == rest[i]
    <3>1. p \in Pipe /\ r \in Pipe
      BY <2>2, <2>4
    <3> HIDE DEF p, r
    <3>2. (p \o r) \o e = p \o (r \o e)
      BY <3>1, PipeAssociative
    <3> QED BY <3>2 DEF p, r
  <2>6. rest[i - 1] \o e = <<header(sent[i])>> \o ((sent[i].payload \o rest[i]) \o e)
    <3>1. rest[i - 1] = <<header(sent[i])>> \o (sent[i].payload \o rest[i])
      BY DEF Chain
    <3> DEFINE h == <<header(sent[i])>>
               r == sent[i].payload \o rest[i]
    <3>2. h \in Pipe /\ r \in Pipe /\ rest[i - 1] = h \o r
      BY <2>3, <2>4, <3>1
    <3> HIDE DEF h, r
    <3>3. (h \o r) \o e = h \o (r \o e)
      <4>1. h \in Pipe /\ r \in Pipe /\ e \in Pipe
        BY <3>2
      <4> QED BY <4>1, PipeAssociative
    <3>4. rest[i - 1] \o e = h \o (r \o e)
      BY <3>2, <3>3
    <3> QED BY <3>4 DEF h, r
  <2> QED BY <2>5, <2>6
<1>3. ASSUME NEW i \in 0 .. Len(sent) PROVE rest[i] \o e \in Pipe
  BY <1>1, ConcatProperties DEF Pipe
<1> QED BY <1>2, <1>3

\* The sequences f, with e at their ends, and one more
Longer(f, e, n) == [i \in 0 .. n + 1 |-> IF i = n + 1 THEN << >> ELSE f[i] \o e]

LEMMA LongerType ==
    ASSUME NEW S, NEW n \in Nat, NEW f, NEW e, \A i \in 0 .. n : f[i] \o e \in Seq(S)
    PROVE  /\ Longer(f, e, n) \in [0 .. n + 1 -> Seq(S)]
           /\ Longer(f, e, n)[n + 1] = << >>
           /\ \A i \in 0 .. n : Longer(f, e, n)[i] = f[i] \o e
<1>1. << >> \in Seq(S)
  OBVIOUS
<1> QED BY <1>1 DEF Longer

\* The reads are where they were.
LEMMA StaysBehind ==
    ASSUME sent \in Seq(Message), NEW rest, NEW over, NEW left, NEW c, Parsed(rest, over, left, c),
           dm_alive, UNCHANGED own,
           NEW e \in Pipe, from_dm_pipe' = from_dm_pipe \o e,
           Len(sent') >= Len(sent), \A i \in 1 .. Len(sent) : sent'[i] = sent[i],
           Len(sent') \in Nat,
           NEW rest2, \A i \in 0 .. Len(sent) : rest2[i] = rest[i] \o e
    PROVE  Position(rest2, over, c)'
<1>1. c \in 0 .. Len(sent) /\ Chain(rest, over, left) /\ Len(sent) \in Nat
  BY LenProperties DEF Parsed
<1>2. CASE BeforeHeader(rest, over, c)
  BY <1>1, <1>2 DEF BeforeHeader, Position, own
<1>3. CASE BeforePayload(rest, over, c)
  <2>1. c + 1 \in 1 .. Len(sent)
    BY <1>1, <1>3 DEF BeforePayload
  <2>2. from_dm_pipe' = sent[c + 1].payload \o (rest[c + 1] \o e)
    <3>1. (sent[c + 1].payload \o rest[c + 1]) \o e = sent[c + 1].payload \o (rest[c + 1] \o e)
      BY <1>1, <2>1, Extends
    <3> QED BY <1>3, <3>1 DEF BeforePayload
  <2>3. sent'[c + 1] = sent[c + 1] /\ rest2[c + 1] = rest[c + 1] \o e /\ c < Len(sent')
    BY <1>1, <2>1
  <2> QED BY <1>3, <2>2, <2>3 DEF BeforePayload, Position, own, header
<1>4. CASE NoLonger
  BY <1>4 DEF NoLonger, Position, own
<1> QED BY <1>2, <1>3, <1>4 DEF Parsed, Position, BehindLast

-----------------------------------------------------------------------------
\* Counting the pings

LEMMA PingsFinite ==
    ASSUME sent \in Seq(Message), NEW c \in 0 .. Len(sent)
    PROVE  /\ IsFiniteSet(PingsRead(c)) /\ Cardinality(PingsRead(c)) \in Nat
           /\ Cardinality(PingsRead(c)) <= Cardinality(PingsRead(Len(sent)))
<1>1. c \in Nat /\ Len(sent) \in Nat
  BY LenProperties
<1>2. IsFiniteSet(1 .. Len(sent))
  BY <1>1, FS_Interval
<1>3. PingsRead(c) \subseteq PingsRead(Len(sent)) /\ PingsRead(Len(sent)) \subseteq 1 .. Len(sent)
  BY <1>1 DEF PingsRead
<1>4. IsFiniteSet(PingsRead(Len(sent)))
  BY <1>2, <1>3, FS_Subset
<1> QED BY <1>3, <1>4, FS_Subset, FS_CardinalityType

\* One more message is read.
LEMMA PingCounted ==
    ASSUME sent \in Seq(Message), NEW c \in 0 .. Len(sent), c + 1 \in 0 .. Len(sent)
    PROVE  Cardinality(PingsRead(c + 1)) =
              Cardinality(PingsRead(c)) + (IF sent[c + 1].id = "ping" THEN 1 ELSE 0)
<1>1. c \in Nat /\ IsFiniteSet(PingsRead(c)) /\ c + 1 \notin PingsRead(c)
  <2>1. c \in Nat
    BY LenProperties
  <2>2. IsFiniteSet(PingsRead(c))
    BY PingsFinite
  <2> QED BY <2>1, <2>2 DEF PingsRead
<1>2. CASE sent[c + 1].id = "ping"
  <2>1. PingsRead(c + 1) = PingsRead(c) \cup {c + 1}
    BY <1>1, <1>2 DEF PingsRead
  <2> QED BY <1>1, <1>2, <2>1, FS_AddElement
<1>3. CASE sent[c + 1].id # "ping"
  <2>1. PingsRead(c + 1) = PingsRead(c)
    BY <1>1, <1>3 DEF PingsRead
  <2>2. Cardinality(PingsRead(c)) \in Nat
    BY PingsFinite
  <2> QED BY <1>3, <2>1, <2>2
<1> QED BY <1>2, <1>3

\* Without an answer, and with no message read, all stays answered.
LEMMA AnsweredStays ==
    ASSUME NEW c, Answered(c), UNCHANGED answers,
           \A i \in 1 .. c : sent'[i] = sent[i],
           \/ reading' = reading
           \/ reading \in {"header", "payload"} /\ reading' \in {"header", "payload", "ended"}
           \/ reading' \in {"destroyed", "terminated"}
    PROVE  Answered(c)'
<1>1. PingsRead(c)' = PingsRead(c)
  BY DEF PingsRead
<1> QED BY <1>1 DEF Answered

\* What send() writes comes after what was written.
LEMMA AnswerAppended ==
    ASSUME answers \in Seq({"ready", "pong"}), NEW id \in {"ready", "pong"},
           \A i \in DOMAIN answers : answers[i] = IF i = 1 THEN "ready" ELSE "pong",
           id = IF answers = << >> THEN "ready" ELSE "pong",
           send(id)
    PROVE  /\ answers' \in Seq({"ready", "pong"})
           /\ Len(answers') = Len(answers) + 1
           /\ \A i \in DOMAIN answers' : answers'[i] = IF i = 1 THEN "ready" ELSE "pong"
<1>1. /\ answers' \in Seq({"ready", "pong"})
      /\ Len(answers) \in Nat /\ Len(answers') = Len(answers) + 1
      /\ \A i \in 1 .. Len(answers) : answers'[i] = answers[i]
      /\ answers'[Len(answers) + 1] = id
  BY AppendProperties, LenProperties DEF send
<1>2. DOMAIN answers' = 1 .. Len(answers) + 1 /\ DOMAIN answers = 1 .. Len(answers)
  BY <1>1, LenProperties
<1>3. answers = << >> <=> Len(answers) = 0
  BY EmptySeq
<1> QED BY <1>1, <1>2, <1>3

-----------------------------------------------------------------------------
\* A message that names a session is enqueued when it is written.
LEMMA SendSeen ==
    ASSUME ReadInv, NEW m \in Message, dm_sends(m)
    PROVE  ReadInv' /\ [Names!QueueNext]_Names!queue_vars
<1> USE DEF Names!queue_vars
<1>1. sent \in Seq(Message) /\ handled \in Seq(Name) /\ Len(sent) \in Nat
  BY LenProperties DEF ReadInv
<1>2. PICK rest, over, left, c : Parsed(rest, over, left, c)
  BY DEF ReadInv
<1>3. c \in 0 .. Len(sent) /\ Chain(rest, over, left) /\ rest[Len(sent)] = << >>
  BY <1>2 DEF Parsed, Ends, dm_sends
<1>17. Carried(over) /\ unclaimed \in Seq(Byte)
  <2>1. Carried(over) /\ Len(sent) \in 0 .. Len(sent)
    BY <1>1, <1>3 DEF Chain
  <2> QED BY <2>1 DEF Carried
<1>18. names_session(m.id) => behind(unclaimed, m) \in Name
  BY <1>17, NameType
<1>4. PICK e : e = <<header(m)>> \o m.payload
  OBVIOUS
<1>5. PICK names : names = IF names_session(m.id) THEN <<behind(unclaimed, m)>> ELSE << >>
  OBVIOUS
<1>6. e \in Pipe /\ m.payload \in Pipe /\ <<header(m)>> \in Pipe /\ names \in Seq(Name)
  <2>1. m.payload \in Pipe /\ <<header(m)>> \in Pipe
    BY MessageType DEF Pipe
  <2> QED BY <1>4, <1>5, <1>18, <2>1, PipeConcat
<1>7. /\ sent' = Append(sent, m) /\ sent' \in Seq(Message)
      /\ Len(sent') = Len(sent) + 1 /\ sent'[Len(sent) + 1] = m
      /\ \A i \in 1 .. Len(sent) : sent'[i] = sent[i]
  BY <1>1, AppendProperties DEF dm_sends
<1>8. PICK rest2 \in [0 .. Len(sent) + 1 -> Pipe] :
         rest2[Len(sent) + 1] = << >> /\ \A i \in 0 .. Len(sent) : rest2[i] = rest[i] \o e
  <2>1. \A i \in 0 .. Len(sent) : rest[i] \o e \in Pipe
    BY <1>1, <1>3, <1>6, Extends
  <2>2. /\ Longer(rest, e, Len(sent)) \in [0 .. Len(sent) + 1 -> Pipe]
        /\ Longer(rest, e, Len(sent))[Len(sent) + 1] = << >>
        /\ \A i \in 0 .. Len(sent) : Longer(rest, e, Len(sent))[i] = rest[i] \o e
    <3> DEFINE S == Header \cup Byte
    <3>1. Pipe = Seq(S) /\ \A i \in 0 .. Len(sent) : rest[i] \o e \in Seq(S)
      BY <2>1 DEF Pipe
    <3> HIDE DEF S
    <3>2. /\ Longer(rest, e, Len(sent)) \in [0 .. Len(sent) + 1 -> Seq(S)]
          /\ Longer(rest, e, Len(sent))[Len(sent) + 1] = << >>
          /\ \A i \in 0 .. Len(sent) : Longer(rest, e, Len(sent))[i] = rest[i] \o e
      <4> DEFINE n == Len(sent)
      <4>1. n \in Nat /\ \A i \in 0 .. n : rest[i] \o e \in Seq(S)
        BY <1>1, <3>1
      <4> HIDE DEF n
      <4>2. /\ Longer(rest, e, n) \in [0 .. n + 1 -> Seq(S)]
            /\ Longer(rest, e, n)[n + 1] = << >>
            /\ \A i \in 0 .. n : Longer(rest, e, n)[i] = rest[i] \o e
        BY <4>1, LongerType
      <4> QED BY <4>2 DEF n
    <3> QED BY <3>1, <3>2
  <2> QED BY <2>2
<1>9. \A i \in 0 .. Len(sent) : left[i] \in Seq(Name) /\ left[i] \o names \in Seq(Name)
  BY <1>3, <1>6, ConcatProperties DEF Chain
<1>10. PICK left2 \in [0 .. Len(sent) + 1 -> Seq(Name)] :
         left2[Len(sent) + 1] = << >> /\ \A i \in 0 .. Len(sent) : left2[i] = left[i] \o names
  <2> DEFINE n == Len(sent)
             S == Name
  <2>1. n \in Nat /\ \A i \in 0 .. n : left[i] \o names \in Seq(S)
    BY <1>1, <1>9
  <2> HIDE DEF n, S
  <2>2. /\ Longer(left, names, n) \in [0 .. n + 1 -> Seq(S)]
        /\ Longer(left, names, n)[n + 1] = << >>
        /\ \A i \in 0 .. n : Longer(left, names, n)[i] = left[i] \o names
    BY <2>1, LongerType
  <2> QED BY <2>2 DEF n, S
<1>19. PICK over2 \in [0 .. Len(sent) + 1 -> Seq(Byte)] :
          over2[Len(sent) + 1] = unclaimed' /\ \A i \in 0 .. Len(sent) : over2[i] = over[i]
  <2> DEFINE n == Len(sent)
             g == [i \in 0 .. n + 1 |-> IF i = n + 1 THEN unclaimed' ELSE over[i]]
  <2>1. unclaimed' \in Seq(Byte)
    <3>1. unclaimed' = << >> \/ unclaimed' = unclaimed \o m.payload
      BY DEF dm_sends
    <3>2. m.payload \in Seq(Byte) /\ << >> \in Seq(Byte)
      BY MessageType
    <3> QED BY <1>17, <3>1, <3>2, ConcatProperties
  <2>2. n \in Nat /\ over \in [0 .. n -> Seq(Byte)]
    BY <1>1, <1>17 DEF Carried
  <2> HIDE DEF n
  <2>3. /\ g \in [0 .. n + 1 -> Seq(Byte)] /\ g[n + 1] = unclaimed'
        /\ \A i \in 0 .. n : g[i] = over[i]
    BY <2>1, <2>2
  <2> HIDE DEF g
  <2> QED BY <2>3 DEF n
<1>20. Carried(over2)'
  <2> DEFINE n == Len(sent)
  <2>1. n \in Nat /\ Len(sent') = n + 1
    BY <1>1, <1>7
  <2>2. /\ over \in [0 .. n -> Seq(Byte)] /\ over[0] = << >> /\ over[n] = unclaimed
        /\ \A i \in 1 .. n :
              over[i] = IF names_session(sent[i].id) THEN << >> ELSE over[i - 1] \o sent[i].payload
    BY <1>17 DEF Carried
  <2>3. /\ sent'[n + 1] = m /\ \A i \in 1 .. n : sent'[i] = sent[i]
    BY <1>7
  <2>4. unclaimed' = IF names_session(m.id) THEN << >> ELSE unclaimed \o m.payload
    BY DEF dm_sends
  <2>6. /\ over2 \in [0 .. n + 1 -> Seq(Byte)] /\ over2[n + 1] = unclaimed'
        /\ \A i \in 0 .. n : over2[i] = over[i]
    BY <1>19
  <2>10. Carried(over2)' <=>
            /\ over2 \in [0 .. Len(sent') -> Seq(Byte)] /\ over2[0] = << >>
            /\ \A i \in 1 .. Len(sent') :
                  over2[i] = IF names_session(sent'[i].id) THEN << >>
                             ELSE over2[i - 1] \o sent'[i].payload
            /\ over2[Len(sent')] = unclaimed'
    BY DEF Carried, names_session
  <2> HIDE DEF n
  <2>7. over2[0] = << >>
    BY <2>1, <2>2, <2>6
  <2>8. ASSUME NEW i \in 1 .. n + 1
        PROVE  over2[i] = IF names_session(sent'[i].id) THEN << >>
                          ELSE over2[i - 1] \o sent'[i].payload
    <3>1. CASE i = n + 1
      BY <2>1, <2>2, <2>3, <2>4, <2>6, <3>1
    <3>2. CASE i # n + 1
      <4>1. i \in 1 .. n /\ i \in 0 .. n /\ i - 1 \in 0 .. n
        BY <2>1, <3>2
      <4> QED BY <2>2, <2>3, <2>6, <4>1
    <3> QED BY <3>1, <3>2
  <2> QED BY <2>1, <2>6, <2>7, <2>8, <2>10
<1>11. Chain(rest2, over2, left2)'
  <2>1. /\ rest2 \in [0 .. Len(sent') -> Pipe]
        /\ left2 \in [0 .. Len(sent') -> Seq(Name)]
    BY <1>7
  <2>2. ASSUME NEW i \in 1 .. Len(sent)
        PROVE  /\ rest2[i - 1] = <<header(sent'[i])>> \o (sent'[i].payload \o rest2[i])
               /\ left2[i - 1] = IF names_session(sent'[i].id)
                                 THEN <<behind(over2[i - 1], sent'[i])>> \o left2[i]
                                 ELSE left2[i]
    <3>1. /\ rest2[i - 1] = rest[i - 1] \o e /\ rest2[i] = rest[i] \o e
          /\ left2[i - 1] = left[i - 1] \o names /\ left2[i] = left[i] \o names
          /\ over2[i - 1] = over[i - 1] /\ over[i - 1] \in Seq(Byte)
      <4>1. i - 1 \in 0 .. Len(sent) /\ i \in 0 .. Len(sent)
        BY <1>1
      <4> QED BY <1>8, <1>10, <1>17, <1>19, <4>1 DEF Carried
    <3>2. rest[i - 1] \o e = <<header(sent[i])>> \o (sent[i].payload \o (rest[i] \o e))
      BY <1>1, <1>3, <1>6, Extends
    <3>3. sent[i] \in Message /\ i \in 0 .. Len(sent)
      BY <1>1, ElementOfSeq
    <3> DEFINE name == behind(over[i - 1], sent[i])
    <3>4. names_session(sent[i].id) =>
             (<<name>> \o left[i]) \o names = <<name>> \o (left[i] \o names)
      <4> SUFFICES ASSUME names_session(sent[i].id)
                   PROVE  (<<name>> \o left[i]) \o names = <<name>> \o (left[i] \o names)
        OBVIOUS
      <4>1. <<name>> \in Seq(Name)
        <5>1. name \in Name
          BY <3>1, <3>3, NameType
        <5> QED BY <5>1
      <4> HIDE DEF name
      <4> QED BY <1>6, <1>9, <3>3, <4>1, NamesConcat
    <3>5. left[i - 1] = IF names_session(sent[i].id) THEN <<name>> \o left[i] ELSE left[i]
      BY <1>3 DEF Chain
    <3> QED BY <1>7, <3>1, <3>2, <3>4, <3>5
  <2>3. /\ rest2[Len(sent)] = <<header(m)>> \o (m.payload \o << >>)
        /\ left2[Len(sent)] = names
    <3>1. rest2[Len(sent)] = << >> \o e /\ left2[Len(sent)] = << >> \o names
      <4>1. left[Len(sent)] = << >> /\ Len(sent) \in 0 .. Len(sent)
        BY <1>1, <1>3 DEF Chain
      <4> QED BY <1>3, <1>8, <1>10, <4>1
    <3>2. m.payload \o << >> = m.payload /\ << >> \o e = e /\ << >> \o names = names
      BY <1>6, ConcatEmptySeq DEF Pipe
    <3> QED BY <1>4, <3>1, <3>2
  <2>4. rest2[Len(sent) + 1] = << >> /\ left2[Len(sent) + 1] = << >>
    BY <1>8, <1>10
  <2>5. /\ names = IF names_session(m.id) THEN <<behind(unclaimed, m)>> \o << >> ELSE << >>
        /\ over2[Len(sent)] = unclaimed
    <3>1. over2[Len(sent)] = unclaimed
      <4>1. Len(sent) \in 0 .. Len(sent)
        BY <1>1
      <4> QED BY <1>17, <1>19, <4>1 DEF Carried
    <3> QED BY <1>5, <1>18, <3>1, ConcatEmptySeq
  <2>6. ASSUME NEW i \in 1 .. Len(sent')
        PROVE  /\ rest2[i - 1] = <<header(sent'[i])>> \o (sent'[i].payload \o rest2[i])
               /\ left2[i - 1] = IF names_session(sent'[i].id)
                                 THEN <<behind(over2[i - 1], sent'[i])>> \o left2[i]
                                 ELSE left2[i]
    <3>1. CASE i = Len(sent) + 1
      <4>1. i - 1 = Len(sent)
        BY <1>1, <3>1
      <4> QED BY <1>7, <2>3, <2>4, <2>5, <3>1, <4>1
    <3>2. CASE i # Len(sent) + 1
      <4>1. i \in 1 .. Len(sent)
        <5> DEFINE n == Len(sent)
        <5>1. n \in Nat /\ i \in 1 .. n + 1 /\ i # n + 1
          BY <1>1, <1>7, <3>2
        <5> HIDE DEF n
        <5>2. i \in 1 .. n
          BY <5>1
        <5> QED BY <5>2 DEF n
      <4> QED BY <2>2, <4>1
    <3> QED BY <3>1, <3>2
  <2> QED BY <1>7, <1>20, <2>1, <2>4, <2>6 DEF Chain, header, names_session
<1>12. Ends(rest2)'
  BY <1>1, <1>7, <1>8 DEF Ends
<1>13. Position(rest2, over2, c)'
  <2>1. from_dm_pipe' = from_dm_pipe \o e
    <3>1. from_dm_pipe' = (from_dm_pipe \o <<header(m)>>) \o m.payload
      BY DEF dm_sends
    <3>2. from_dm_pipe \in Pipe
      BY DEF ReadInv
    <3> QED BY <1>4, <1>6, <3>1, <3>2, PipeConcat
  <2>2. dm_alive /\ UNCHANGED own /\ Len(sent') >= Len(sent) /\ Len(sent') \in Nat
    BY <1>1, <1>7 DEF dm_sends
  <2>3. Position(rest2, over, c)'
    BY <1>1, <1>2, <1>6, <1>7, <1>8, <2>1, <2>2, StaysBehind
  <2>4. over2[c] = over[c]
    BY <1>3, <1>19
  <2> QED BY <2>3, <2>4 DEF Position, BeforeHeader, BeforePayload
<1>14. handled' = handled /\ named' = handled \o left2[c]
  <2>1. named = handled \o left[c] /\ named \in Seq(Name) /\ left[c] \in Seq(Name)
    BY <1>1, <1>2, <1>3, <1>9, ConcatProperties DEF Parsed
  <2>2. named' = named \o names
    BY <1>5, <1>18, <2>1, AppendIsConcat, ConcatEmptySeq DEF dm_sends
  <2>3. left2[c] = left[c] \o names
    BY <1>3, <1>10
  <2>4. (handled \o left[c]) \o names = handled \o (left[c] \o names)
    <3>1. handled \in Seq(Name) /\ left[c] \in Seq(Name) /\ names \in Seq(Name)
      BY <1>1, <1>6, <2>1
    <3> QED BY <3>1, NamesConcat
  <2>5. handled' = handled
    BY DEF dm_sends, own
  <2> QED BY <2>1, <2>2, <2>3, <2>4, <2>5
<1>15. ReadInv'
  <2>1. c \in 0 .. Len(sent')
    BY <1>1, <1>3, <1>7
  <2>3. Answered(c)'
    <3>1. UNCHANGED answers /\ UNCHANGED reading
      BY DEF dm_sends, own
    <3>2. \A i \in 1 .. c : sent'[i] = sent[i]
      BY <1>1, <1>3, <1>7
    <3> QED BY <1>2, <3>1, <3>2, AnsweredStays DEF Parsed
  <2>2. from_dm_pipe' \in Pipe
    <3>1. from_dm_pipe \in Pipe /\ from_dm_pipe' = from_dm_pipe \o <<header(m)>> \o m.payload
      BY DEF ReadInv, dm_sends
    <3> QED BY <1>6, <3>1, PipeConcat
  <2> QED
    BY <1>1, <1>7, <1>11, <1>12, <1>13, <1>14, <2>1, <2>2, <2>3 DEF ReadInv, Parsed
<1>16. [Names!QueueNext]_Names!queue_vars
  <2>1. Pending = left[c]
    BY <1>1, <1>2, <1>3, <1>9, PendingLeft DEF Parsed
  <2>2. Pending' = left[c] \o names
    <3>1. left2[c] = left[c] \o names /\ left2[c] \in Seq(Name)
      BY <1>3, <1>9, <1>10
    <3> QED BY <1>1, <1>14, <3>1, SplitAfter DEF Pending
  <2>3. handled' = handled /\ gone' = gone
    BY DEF dm_sends, own, gone
  <2>4. CASE names_session(m.id)
    <3>1. /\ Pending \in Seq(Name) /\ behind(unclaimed, m) \in Name
          /\ Pending' = Append(Pending, behind(unclaimed, m))
      BY <1>5, <1>9, <1>3, <1>18, <2>1, <2>2, <2>4, AppendIsConcat
    <3>2. Pending' # << >> /\ Pending'[Len(Pending')] = behind(unclaimed, m)
      BY <3>1, AppendProperties, LenProperties
    <3>3. /\ Pending' # << >> /\ Pending'[Len(Pending')] \in Name
          /\ Pending' = Append(Pending, Pending'[Len(Pending')])
      BY <3>1, <3>2
    <3> QED BY <2>3, <3>3 DEF Pending, Names!QueueNext, Names!Enqueue
  <2>5. CASE ~names_session(m.id)
    <3>1. Pending' = Pending
      BY <1>5, <1>9, <1>3, <2>1, <2>2, <2>5, ConcatEmptySeq
    <3> QED BY <2>3, <3>1 DEF Pending
  <2> QED BY <2>4, <2>5
<1> QED BY <1>15, <1>16

\* The end of the display manager is not seen.
LEMMA EndsSeen ==
    ASSUME ReadInv, dm_ends
    PROVE  ReadInv' /\ [Names!QueueNext]_Names!queue_vars
<1>1. sent \in Seq(Message) /\ handled \in Seq(Name) /\ Len(sent) \in Nat
  BY LenProperties DEF ReadInv
<1>2. PICK rest, over, left, c : Parsed(rest, over, left, c)
  BY DEF ReadInv
<1>3. /\ UNCHANGED <<own, sent, unclaimed, named>> /\ dm_alive /\ ~dm_alive'
      /\ UNCHANGED handled /\ UNCHANGED gone
  BY DEF dm_ends, own, gone
<1>4. c \in 0 .. Len(sent) /\ Chain(rest, over, left) /\ rest[Len(sent)] = << >>
  BY <1>2, <1>3 DEF Parsed, Ends
<1>5. [Names!QueueNext]_Names!queue_vars
  BY <1>3 DEF Names!queue_vars
<1>8. Answered(c)'
  <2>1. UNCHANGED answers /\ UNCHANGED reading
    BY <1>3 DEF own
  <2> QED BY <1>2, <1>3, <2>1, AnsweredStays DEF Parsed
<1>6. CASE UNCHANGED from_dm_pipe
  <2>1. Chain(rest, over, left)' /\ Ends(rest)'
    BY <1>3, <1>4 DEF Chain, Carried, Ends
  <2>2. Position(rest, over, c)'
    BY <1>2, <1>3, <1>6
    DEF Parsed, Position, BeforeHeader, BeforePayload, BehindLast, NoLonger, own
  <2> QED BY <1>1, <1>2, <1>3, <1>5, <1>6, <1>8, <2>1, <2>2 DEF Parsed, ReadInv
<1>7. CASE \E m \in Message : \E n \in 0 .. Len(m.payload) - 1 :
             from_dm_pipe' = from_dm_pipe \o <<header(m)>> \o SubSeq(m.payload, 1, n)
  <2>0. PICK m \in Message : \E n \in 0 .. Len(m.payload) - 1 :
           from_dm_pipe' = from_dm_pipe \o <<header(m)>> \o SubSeq(m.payload, 1, n)
    BY <1>7
  <2>1. PICK n \in 0 .. Len(m.payload) - 1 :
           from_dm_pipe' = from_dm_pipe \o <<header(m)>> \o SubSeq(m.payload, 1, n)
    BY <2>0
  <2>2. PICK e : e = CutOff(m, n)
    OBVIOUS
  <2>3. <<header(m)>> \in Pipe /\ SubSeq(m.payload, 1, n) \in Pipe
    <3>1. /\ m.payload \in Pipe /\ header(m) \in Header /\ Len(m.payload) \in Nat
      BY MessageType
    <3>2. \A i \in 1 .. n : m.payload[i] \in Header \cup Byte
      BY <3>1, ElementOfSeq DEF Pipe
    <3> QED BY <3>1, <3>2, SubSeqProperties DEF Pipe
  <2>4. e \in Pipe /\ from_dm_pipe \in Pipe
    BY <2>2, <2>3, PipeConcat DEF CutOff, ReadInv
  <2>5. from_dm_pipe' = from_dm_pipe \o e /\ from_dm_pipe' \in Pipe
    <3> DEFINE h == <<header(m)>>
               p == SubSeq(m.payload, 1, n)
    <3>1. h \in Pipe /\ p \in Pipe /\ e = h \o p /\ from_dm_pipe' = (from_dm_pipe \o h) \o p
      BY <2>1, <2>2, <2>3 DEF CutOff
    <3> HIDE DEF h, p
    <3>2. (from_dm_pipe \o h) \o p = from_dm_pipe \o (h \o p) /\ from_dm_pipe \o e \in Pipe
      BY <2>4, <3>1, PipeConcat
    <3> QED BY <3>1, <3>2
  <2>6. PICK rest2 \in [0 .. Len(sent) -> Pipe] :
           \A i \in 0 .. Len(sent) : rest2[i] = rest[i] \o e
    <3> DEFINE g == [i \in 0 .. Len(sent) |-> rest[i] \o e]
    <3>1. g \in [0 .. Len(sent) -> Pipe]
      BY <1>1, <1>4, <2>4, Extends
    <3> QED BY <3>1
  <2>7. Chain(rest2, over, left)'
    <3>1. ASSUME NEW i \in 1 .. Len(sent)
          PROVE  rest2[i - 1] = <<header(sent[i])>> \o (sent[i].payload \o rest2[i])
      <4>1. i - 1 \in 0 .. Len(sent) /\ i \in 0 .. Len(sent)
        BY <1>1
      <4>2. rest[i - 1] \o e = <<header(sent[i])>> \o (sent[i].payload \o (rest[i] \o e))
        BY <1>1, <1>4, <2>4, Extends
      <4> QED BY <2>6, <4>1, <4>2
    <3> QED BY <1>3, <1>4, <2>6, <3>1 DEF Chain, Carried
  <2>8. Ends(rest2)'
    <3>1. rest2[Len(sent)] = e
      <4>1. Len(sent) \in 0 .. Len(sent) /\ << >> \o e = e
        BY <1>1, <2>4, ConcatEmptySeq DEF Pipe
      <4> QED BY <1>4, <2>6, <4>1
    <3> QED BY <1>3, <2>2, <3>1 DEF Ends, CutOff, header
  <2>9. Position(rest2, over, c)'
    <3>1. /\ UNCHANGED own /\ Len(sent') >= Len(sent) /\ Len(sent') \in Nat
          /\ \A i \in 1 .. Len(sent) : sent'[i] = sent[i]
      BY <1>1, <1>3
    <3> QED BY <1>1, <1>2, <1>3, <2>4, <2>5, <2>6, <3>1, StaysBehind
  <2> QED BY <1>1, <1>2, <1>3, <1>5, <1>8, <2>5, <2>7, <2>8, <2>9 DEF Parsed, ReadInv
<1> QED BY <1>6, <1>7 DEF dm_ends

-----------------------------------------------------------------------------
\* The connection reads.

\* Steps that handle nothing are not seen, or they are the end of the
\* connection or of the process.
LEMMA ReadsOn ==
    ASSUME ReadInv, NEW rest, NEW over, NEW left, NEW c, Parsed(rest, over, left, c),
           UNCHANGED <<handled, dm_alive, sent, unclaimed, named>>,
           from_dm_pipe' \in Pipe,
           Position(rest, over, c)', Answered(c)',
           gone => gone'
    PROVE  ReadInv' /\ [Names!QueueNext]_Names!queue_vars
<1>1. Chain(rest, over, left)' /\ Ends(rest)'
  BY DEF Parsed, Chain, Carried, Ends
<1>2. ReadInv'
  BY <1>1 DEF ReadInv, Parsed
<1>3. Pending' = Pending
  BY DEF Pending
<1>4. CASE gone' = gone
  BY <1>2, <1>3, <1>4 DEF Names!queue_vars, Pending
<1>5. CASE ~gone /\ gone'
  BY <1>2, <1>3, <1>5 DEF Names!QueueNext, Names!Stop, Pending, gone
<1> QED BY <1>2, <1>4, <1>5 DEF gone

\* The next element of the pipe is the header of the next message, or of the one
\* that was cut off.
LEMMA HeaderSeen ==
    ASSUME ReadInv, on_read_header
    PROVE  ReadInv' /\ [Names!QueueNext]_Names!queue_vars
<1>1. sent \in Seq(Message) /\ Len(sent) \in Nat /\ from_dm_pipe \in Pipe
  BY LenProperties DEF ReadInv
<1>2. PICK rest, over, left, c : Parsed(rest, over, left, c)
  BY DEF ReadInv
<1>3. /\ reading = "header" /\ ~gone
      /\ UNCHANGED <<message_payload_buffer, handled, dm_alive, sent, unclaimed, named>>
  BY DEF on_read_header, gone
<1>4. c \in 0 .. Len(sent) /\ Chain(rest, over, left) /\ Ends(rest) /\ rest[c] \in Pipe
  BY <1>2 DEF Parsed, Chain
<1>7. Answered(c)'
  <2>1. UNCHANGED answers /\ UNCHANGED sent /\ reading' \in {"payload", "ended"}
    BY DEF on_read_header
  <2> QED BY <1>2, <1>3, <2>1, AnsweredStays DEF Parsed
<1>5. CASE from_dm_pipe = << >> /\ ~dm_alive /\ reading' = "ended"
  <2>1. Position(rest, over, c)' /\ UNCHANGED from_dm_pipe
    BY <1>3, <1>5 DEF Position, NoLonger, on_read_header
  <2> QED BY <1>1, <1>2, <1>3, <1>7, <2>1, ReadsOn
<1>6. CASE from_dm_pipe # << >> /\ reading' = "payload"
  <2>1. message_header' = Head(from_dm_pipe) /\ from_dm_pipe' = Tail(from_dm_pipe)
    BY <1>3, <1>6 DEF on_read_header
  <2>2. from_dm_pipe' \in Pipe
    BY <1>1, <1>6, <2>1, HeadTailProperties DEF Pipe
  <2>3. BeforeHeader(rest, over, c)
    BY <1>2, <1>3, <1>6 DEF Parsed, Position, BeforePayload, BehindLast, NoLonger
  <2>4. CASE c < Len(sent)
    <3>1. c + 1 \in 1 .. Len(sent) /\ (c + 1) - 1 = c
      BY <1>1, <1>4, <2>4
    <3>2. rest[c] = <<header(sent[c + 1])>> \o (sent[c + 1].payload \o rest[c + 1])
      BY <1>4, <3>1 DEF Chain
    <3>3. sent[c + 1].payload \o rest[c + 1] \in Pipe
      <4>1. sent[c + 1] \in Message /\ rest[c + 1] \in Pipe
        BY <1>1, <1>4, <3>1, ElementOfSeq DEF Chain
      <4>2. sent[c + 1].payload \in Pipe
        BY <4>1, MessageType
      <4> QED BY <4>1, <4>2, PipeConcat
    <3>4. BeforePayload(rest, over, c)'
      <4> DEFINE r == sent[c + 1].payload \o rest[c + 1]
                 h == header(sent[c + 1])
      <4>1. from_dm_pipe = <<h>> \o r /\ r \in Pipe
        BY <2>3, <3>2, <3>3 DEF BeforeHeader
      <4> HIDE DEF r, h
      <4>2. Head(from_dm_pipe) = h /\ Tail(from_dm_pipe) = r
        BY <4>1 DEF Pipe
      <4>3. message_header' = header(sent[c + 1])
        BY <2>1, <4>2 DEF h
      <4>4. from_dm_pipe' = sent[c + 1].payload \o rest[c + 1]
        BY <2>1, <4>2 DEF r
      <4> QED BY <1>3, <1>6, <2>3, <2>4, <4>3, <4>4 DEF BeforePayload, BeforeHeader, header
    <3> QED BY <1>2, <1>3, <1>7, <2>2, <3>4, ReadsOn DEF Position
  <2>5. CASE c = Len(sent)
    <3>1. PICK m \in Message : \E n \in 0 .. Len(m.payload) - 1 : rest[c] = CutOff(m, n)
      BY <1>4, <1>6, <2>3, <2>5 DEF Ends, BeforeHeader
    <3>2. PICK n \in 0 .. Len(m.payload) - 1 : rest[c] = CutOff(m, n)
      BY <3>1
    <3>3. ~dm_alive
      BY <1>4, <1>6, <2>3, <2>5 DEF Ends, BeforeHeader
    <3>4. /\ header(m) \in Header /\ header(m).length = Len(m.payload)
          /\ m.payload \in Seq(Byte) /\ Len(m.payload) \in Nat
      BY MessageType
    <3>5. SubSeq(m.payload, 1, n) \in Seq(Byte) /\ Len(SubSeq(m.payload, 1, n)) = n
      BY <3>4, SubSeqProperties, ElementOfSeq
    <3>6. message_header' = header(m) /\ from_dm_pipe' = SubSeq(m.payload, 1, n)
      <4> DEFINE p == SubSeq(m.payload, 1, n)
      <4>1. p \in Seq(Byte) /\ from_dm_pipe = <<header(m)>> \o p
        BY <2>3, <3>2, <3>5 DEF BeforeHeader, CutOff
      <4> HIDE DEF p
      <4>2. Head(from_dm_pipe) = header(m) /\ Tail(from_dm_pipe) = p
        BY <4>1
      <4> QED BY <2>1, <4>2 DEF p
    <3>7. BehindLast(c)'
      BY <1>3, <1>6, <2>5, <3>3, <3>4, <3>5, <3>6 DEF BehindLast
    <3> QED BY <1>2, <1>3, <1>7, <2>2, <3>7, ReadsOn DEF Position
  <2> QED BY <1>1, <1>4, <2>4, <2>5
<1> QED BY <1>5, <1>6 DEF on_read_header

\* The payload that is read is that of message c + 1.
Reads(rest, over, left, c) ==
    /\ BeforePayload(rest, over, c)
    /\ sent[c + 1] \in Message
    /\ message_header.id = sent[c + 1].id
    /\ buffered = over[c] \o sent[c + 1].payload /\ unread = rest[c + 1]
    /\ over[c] \in Seq(Byte)
    /\ over[c + 1] = IF names_session(message_header.id) THEN << >> ELSE buffered
    /\ c + 1 \in 0 .. Len(sent) /\ rest[c + 1] \in Pipe
    /\ left[c] = IF names_session(message_header.id)
                 THEN <<behind(over[c], sent[c + 1])>> \o left[c + 1]
                 ELSE left[c + 1]
    /\ left[c] \in Seq(Name) /\ left[c + 1] \in Seq(Name)

LEMMA PayloadRead ==
    ASSUME ReadInv, NEW rest, NEW over, NEW left, NEW c, Parsed(rest, over, left, c), on_read_payload
    PROVE  Reads(rest, over, left, c)
<1>1. sent \in Seq(Message) /\ Len(sent) \in Nat /\ from_dm_pipe \in Pipe
  BY LenProperties DEF ReadInv
<1>2. BeforePayload(rest, over, c)
  BY <1>1, LenProperties
  DEF on_read_payload, available, Parsed, Position, BeforeHeader, BehindLast, NoLonger, Header, Pipe
<1>3. /\ c + 1 \in 1 .. Len(sent) /\ (c + 1) - 1 = c /\ c \in 0 .. Len(sent)
      /\ Chain(rest, over, left)
  BY <1>1, <1>2 DEF Parsed, BeforePayload
<1>4. sent[c + 1] \in Message /\ rest[c + 1] \in Pipe
  BY <1>1, <1>3, ElementOfSeq DEF Chain
<1>5. /\ sent[c + 1].payload \in Pipe
      /\ message_header.length = Len(sent[c + 1].payload)
      /\ message_header.id = sent[c + 1].id
  BY <1>2, <1>4, MessageType DEF BeforePayload
<1>6. received = sent[c + 1].payload /\ unread = rest[c + 1]
  <2> DEFINE p == sent[c + 1].payload
             r == rest[c + 1]
  <2>1. p \in Pipe /\ r \in Pipe /\ from_dm_pipe = p \o r /\ message_header.length = Len(p)
    BY <1>2, <1>4, <1>5 DEF BeforePayload
  <2> HIDE DEF p, r
  <2>2. SubSeq(p \o r, 1, Len(p)) = p /\ SubSeq(p \o r, Len(p) + 1, Len(p \o r)) = r
    BY <2>1, SplitAfter DEF Pipe
  <2>3. received = p /\ unread = r
    BY <2>1, <2>2 DEF received, unread, available
  <2> QED BY <2>3 DEF p, r
<1>7. buffered = over[c] \o sent[c + 1].payload
  BY <1>2, <1>6 DEF buffered, BeforePayload
<1>8. /\ over[c] \in Seq(Byte)
      /\ over[c + 1] = IF names_session(message_header.id) THEN << >> ELSE buffered
  BY <1>3, <1>5, <1>7 DEF Chain, Carried
<1>9. left[c] = IF names_session(message_header.id)
                THEN <<behind(over[c], sent[c + 1])>> \o left[c + 1]
                ELSE left[c + 1]
  BY <1>3, <1>5 DEF Chain
<1>10. /\ c + 1 \in 0 .. Len(sent) /\ left[c] \in Seq(Name) /\ left[c + 1] \in Seq(Name)
  <2>1. c + 1 \in 0 .. Len(sent)
    BY <1>1, <1>3
  <2> QED BY <1>3, <2>1 DEF Chain
<1> QED BY <1>2, <1>4, <1>5, <1>6, <1>7, <1>8, <1>9, <1>10 DEF Reads

\* The name at the head of the queue is the one the handler is called with.
LEMMA PayloadSeen ==
    ASSUME ReadInv, on_read_payload
    PROVE  ReadInv' /\ [Names!QueueNext]_Names!queue_vars
<1>1. sent \in Seq(Message) /\ handled \in Seq(Name) /\ Len(sent) \in Nat
  BY LenProperties DEF ReadInv
<1>2. PICK rest, over, left, c : Parsed(rest, over, left, c)
  BY DEF ReadInv
<1>10. Reads(rest, over, left, c)
  BY <1>2, PayloadRead
<1>3. /\ BeforePayload(rest, over, c) /\ sent[c + 1] \in Message
      /\ message_header.id = sent[c + 1].id
      /\ buffered = over[c] \o sent[c + 1].payload /\ unread = rest[c + 1]
      /\ over[c] \in Seq(Byte)
      /\ over[c + 1] = IF names_session(message_header.id) THEN << >> ELSE buffered
      /\ c + 1 \in 0 .. Len(sent) /\ rest[c + 1] \in Pipe
      /\ left[c] = IF names_session(message_header.id)
                   THEN <<behind(over[c], sent[c + 1])>> \o left[c + 1]
                   ELSE left[c + 1]
      /\ left[c] \in Seq(Name) /\ left[c + 1] \in Seq(Name)
  BY <1>10 DEF Reads
<1>4. /\ from_dm_pipe' = rest[c + 1] /\ UNCHANGED <<message_header, dm_alive, sent, unclaimed, named>>
      /\ Chain(rest, over, left) /\ Ends(rest) /\ named = handled \o left[c]
      /\ reading = "payload" /\ ~gone
  BY <1>2, <1>3 DEF on_read_payload, Parsed, gone
<1>5. Chain(rest, over, left)' /\ Ends(rest)'
  BY <1>4 DEF Chain, Carried, Ends
<1>6. Pending = left[c]
  BY <1>1, <1>3, <1>4, PendingLeft
<1>9. Answered(c + 1)'
  <2>1. /\ Answered(c) /\ c \in 0 .. Len(sent) /\ c \in Nat
        /\ PingsRead(c + 1)' = PingsRead(c + 1)
    BY <1>1, <1>2, <1>4 DEF Parsed, PingsRead
  <2>2. /\ Cardinality(PingsRead(c)) \in Nat
        /\ Cardinality(PingsRead(c + 1)) =
              Cardinality(PingsRead(c)) + (IF message_header.id = "ping" THEN 1 ELSE 0)
    BY <1>1, <1>3, <2>1, PingsFinite, PingCounted
  <2>3. Len(answers) = Cardinality(PingsRead(c)) + 1 /\ answers # << >>
    BY <1>4, <2>1, <2>2 DEF Answered
  <2>4. CASE handle_ping /\ send("pong") /\ reading' = "header"
    <3>1. /\ answers' \in Seq({"ready", "pong"}) /\ Len(answers') = Len(answers) + 1
          /\ \A i \in DOMAIN answers' : answers'[i] = IF i = 1 THEN "ready" ELSE "pong"
      BY <2>1, <2>3, <2>4, AnswerAppended DEF Answered
    <3> QED BY <2>1, <2>2, <2>3, <2>4, <3>1 DEF Answered, handle_ping
  <2>5. CASE handle_ping /\ UNCHANGED answers /\ reading' = "terminated"
    BY <2>1, <2>2, <2>3, <2>5 DEF Answered, handle_ping
  <2>6. CASE /\ message_header.id # "ping"
             /\ UNCHANGED answers /\ reading' = "header"
    BY <2>1, <2>2, <2>3, <2>6 DEF Answered
  <2> QED
    BY <2>4, <2>5, <2>6
    DEF on_read_payload, handle_session_name, handle_ping, handle_other, after_message,
        names_session
<1>7. CASE handle_session_name
  <2> DEFINE name == behind(over[c], sent[c + 1])
  <2>1. /\ handled' = Append(handled, name) /\ names_session(message_header.id)
        /\ name \in Name
    BY <1>3, <1>7, NameType DEF behind, handle_session_name
  <2>8. left[c] = <<name>> \o left[c + 1]
    BY <1>3, <2>1
  <2> HIDE DEF name
  <2>2. BeforeHeader(rest, over, c + 1)'
    BY <1>3, <1>4, <1>7 DEF BeforeHeader, handle_session_name, after_message, rest_after_name
  <2>3. handled' \in Seq(Name) /\ named' = handled' \o left[c + 1]
    <3>1. <<name>> \in Seq(Name) /\ handled' = handled \o <<name>>
      BY <1>1, <2>1, AppendIsConcat
    <3>2. (handled \o <<name>>) \o left[c + 1] = handled \o (<<name>> \o left[c + 1])
      BY <1>1, <1>3, <3>1, NamesConcat
    <3>3. handled' \in Seq(Name)
      BY <1>1, <1>3, <2>1, AppendProperties
    <3>4. left[c] = <<name>> \o left[c + 1] /\ named' = handled \o left[c]
      BY <1>4, <2>8
    <3> QED BY <3>1, <3>2, <3>3, <3>4
  <2>4. Pending' = left[c + 1]
    BY <1>3, <2>3, SplitAfter DEF Pending
  <2>5. Pending # << >> /\ Head(Pending) = name /\ Tail(Pending) = left[c + 1]
    <3>1. left[c + 1] \in Seq(Name)
      BY <1>3
    <3> QED BY <1>6, <2>8, <3>1
  <2>6. gone' = gone
    BY <1>4, <1>7 DEF gone, handle_session_name, after_message
  <2>7. Names!Perform
    BY <2>1, <2>4, <2>5, <2>6 DEF Names!Perform, Pending
  <2> QED
    BY <1>1, <1>3, <1>4, <1>5, <1>9, <2>2, <2>3, <2>7
    DEF Names!QueueNext, ReadInv, Parsed, Position
<1>8. CASE handle_ping \/ handle_other
  <2>1. UNCHANGED handled /\ ~names_session(message_header.id) /\ message_payload_buffer' = over[c + 1]
    BY <1>3, <1>8 DEF handle_ping, handle_other, names_session
  <2>2. reading' \in {"header", "terminated"}
    BY <1>8 DEF handle_ping, handle_other, after_message
  <2>3. Position(rest, over, c + 1)'
    BY <1>4, <2>1, <2>2 DEF Position, BeforeHeader, NoLonger
  <2>4. ReadInv'
    BY <1>1, <1>3, <1>4, <1>5, <1>9, <2>1, <2>3 DEF ReadInv, Parsed
  <2>5. Pending' = Pending
    BY <1>4, <2>1 DEF Pending
  <2>6. CASE gone'
    BY <1>4, <2>1, <2>4, <2>5, <2>6 DEF Names!QueueNext, Names!Stop, Pending, gone
  <2>7. CASE ~gone'
    BY <1>4, <2>1, <2>4, <2>5, <2>7 DEF Names!queue_vars, Pending, gone
  <2> QED BY <2>6, <2>7
<1> QED BY <1>7, <1>8 DEF on_read_payload

-----------------------------------------------------------------------------
\* Every step of the connection is one of the queue, or not seen.
LEMMA ConnectionStep ==
    ASSUME ReadInv, [ConnectionNext]_connection_vars
    PROVE  ReadInv' /\ [Names!QueueNext]_Names!queue_vars
<1>1. PICK rest, over, left, c : Parsed(rest, over, left, c)
  BY DEF ReadInv
<1>2. from_dm_pipe \in Pipe /\ << >> \in Pipe
  BY DEF ReadInv, Pipe
<1>3. CASE start
  <2>1. Position(rest, over, c)' /\ from_dm_pipe' = from_dm_pipe
    BY <1>1, <1>3
    DEF start, Parsed, Position, BeforeHeader, BeforePayload, BehindLast, NoLonger, dm
  <2>2. Answered(c)'
    <3>1. /\ Answered(c) /\ c = 0 /\ answers = << >> /\ PingsRead(c) = {}
          /\ PingsRead(c)' = PingsRead(c) /\ Cardinality(PingsRead(c)) = 0
      BY <1>1, <1>3, FS_EmptySet DEF start, Parsed, Answered, PingsRead, dm
    <3>2. CASE send("ready") /\ reading' = "header"
      <4>1. /\ answers' \in Seq({"ready", "pong"}) /\ Len(answers') = Len(answers) + 1
            /\ \A i \in DOMAIN answers' : answers'[i] = IF i = 1 THEN "ready" ELSE "pong"
        BY <3>1, <3>2, AnswerAppended DEF Answered
      <4> QED BY <3>1, <3>2, <4>1 DEF Answered
    <3>3. CASE reading' = "terminated" /\ UNCHANGED answers
      BY <3>1, <3>3 DEF Answered
    <3> QED BY <1>3, <3>2, <3>3 DEF start
  <2> QED BY <1>1, <1>2, <1>3, <2>1, <2>2, ReadsOn DEF start, gone, dm
<1>4. CASE on_read_payload_failed
  <2>1. BehindLast(c)
    <3>1. ~BeforePayload(rest, over, c)
      <4> SUFFICES ASSUME BeforePayload(rest, over, c) PROVE FALSE
        OBVIOUS
      <4>1. /\ sent[c + 1] \in Message /\ rest[c + 1] \in Pipe
        <5>1. sent \in Seq(Message) /\ Len(sent) \in Nat
          BY LenProperties DEF ReadInv
        <5>2. c + 1 \in 1 .. Len(sent) /\ c + 1 \in 0 .. Len(sent)
          BY <1>1, <5>1 DEF BeforePayload, Parsed
        <5> QED BY <1>1, <5>1, <5>2, ElementOfSeq DEF Parsed, Chain
      <4>2. /\ sent[c + 1].payload \in Pipe
            /\ message_header.length = Len(sent[c + 1].payload)
        BY <4>1, MessageType DEF BeforePayload
      <4>3. /\ Len(from_dm_pipe) = message_header.length + Len(rest[c + 1])
            /\ message_header.length \in Nat /\ Len(rest[c + 1]) \in Nat
        BY <4>1, <4>2, ConcatProperties, LenProperties DEF BeforePayload, Pipe
      <4> QED BY <1>4, <4>3 DEF on_read_payload_failed, available
    <3> QED BY <1>1, <1>4, <3>1 DEF on_read_payload_failed, Parsed, Position, BeforeHeader, NoLonger
  <2>2. Position(rest, over, c)'
    BY <1>4, <2>1 DEF on_read_payload_failed, Position, BehindLast
  <2>3. Answered(c)'
    BY <1>1, <1>4, AnsweredStays DEF on_read_payload_failed, Parsed
  <2> QED BY <1>1, <1>2, <1>4, <2>2, <2>3, ReadsOn DEF on_read_payload_failed, gone
<1>5. CASE destroy
  <2>1. Position(rest, over, c)'
    BY <1>5 DEF destroy, Position, NoLonger
  <2>2. Answered(c)'
    BY <1>1, <1>5, AnsweredStays DEF destroy, dm, Parsed
  <2> QED BY <1>1, <1>2, <1>5, <2>1, <2>2, ReadsOn DEF destroy, gone, dm
<1>6. CASE UNCHANGED connection_vars
  <2>1. Position(rest, over, c)'
    BY <1>1, <1>6
    DEF connection_vars, own, dm, Parsed, Position, BeforeHeader, BeforePayload, BehindLast, NoLonger
  <2>2. Answered(c)'
    BY <1>1, <1>6, AnsweredStays DEF connection_vars, own, dm, Parsed
  <2> QED BY <1>1, <1>2, <1>6, <2>1, <2>2, ReadsOn DEF connection_vars, own, dm, gone
<1> QED
  BY <1>3, <1>4, <1>5, <1>6, SendSeen, EndsSeen, HeaderSeen, PayloadSeen DEF ConnectionNext, IOThread

LEMMA ConnectionStarts ==
    ASSUME ConnectionInit
    PROVE  ReadInv /\ Names!QueueInit
<1> DEFINE none == [i \in {0} |-> << >>]
<1>1. Parsed(none, none, none, 0)
  <2>1. << >> \in Pipe /\ << >> \in Seq(Name) /\ << >> \in Seq(Byte) /\ << >> \o << >> = << >>
    BY DEF Pipe
  <2>2. Answered(0)
    <3>1. PingsRead(0) = {} /\ Cardinality(PingsRead(0)) = 0
      BY FS_EmptySet DEF PingsRead
    <3> QED BY <3>1 DEF Answered, ConnectionInit
  <2>3. 0 \in 0 .. Len(sent)
    BY DEF ConnectionInit
  <2>4. Chain(none, none, none)
    BY <2>1 DEF Chain, Carried, ConnectionInit
  <2> QED BY <2>1, <2>2, <2>3, <2>4 DEF Parsed, Ends, Position, BeforeHeader, ConnectionInit
<1>2. ReadInv
  BY <1>1 DEF ReadInv, ConnectionInit, Pipe
<1>3. Names!QueueInit
  BY DEF Names!QueueInit, ConnectionInit, gone
<1> QED BY <1>2, <1>3

\* The safety part of IsNameQueue: the handler is called for the names that were
\* written, once each and in their order.  What it is called with is the name
\* behind the payloads of the ignored messages since the last one, if they have
\* any, and has no byte of a header, of another name or of a message that was
\* cut off, wherever the display manager or the connection ends.
THEOREM NamesInOrder == ConnectionSpec => Names!QueueSafety
<1>1. ConnectionInit => ReadInv /\ Names!QueueInit
  BY ConnectionStarts
<1>2. ReadInv /\ [ConnectionNext]_connection_vars => ReadInv' /\ [Names!QueueNext]_Names!queue_vars
  BY ConnectionStep
<1> QED BY <1>1, <1>2, PTL DEF ConnectionSpec, Names!QueueSafety

\* The safety part of EveryPingAnswered: the display manager gets one answer to
\* each of its pings and no other, however they mix with names and wherever it
\* ends, and all of them once the pipe is read.
THEOREM PingsAnsweredOnce == ConnectionSpec => []AnsweredInOrder
<1>1. ReadInv => AnsweredInOrder
  <2> SUFFICES ASSUME ReadInv PROVE AnsweredInOrder
    OBVIOUS
  <2>1. sent \in Seq(Message) /\ Len(sent) \in Nat /\ DOMAIN sent = 1 .. Len(sent)
    BY LenProperties DEF ReadInv
  <2>2. PICK rest, over, left, c : Parsed(rest, over, left, c)
    BY DEF ReadInv
  <2>3. c \in 0 .. Len(sent) /\ Answered(c) /\ Len(answers) \in Nat
    BY <2>2, LenProperties DEF Parsed, Answered
  <2>4. /\ Cardinality(PingsRead(c)) \in Nat /\ Cardinality(PingsRead(Len(sent))) \in Nat
        /\ Cardinality(PingsRead(c)) <= Cardinality(PingsRead(Len(sent)))
    BY <2>1, <2>3, PingsFinite
  <2>5. reading = "header" /\ from_dm_pipe = << >> => c = Len(sent)
    <3> SUFFICES ASSUME reading = "header", from_dm_pipe = << >>, c # Len(sent) PROVE FALSE
      OBVIOUS
    <3>1. BeforeHeader(rest, over, c) /\ c + 1 \in 1 .. Len(sent) /\ (c + 1) - 1 = c /\ Chain(rest, over, left)
      <4>1. BeforeHeader(rest, over, c) /\ Chain(rest, over, left)
        BY <2>2 DEF Parsed, Position, BeforePayload, BehindLast, NoLonger
      <4>2. c + 1 \in 1 .. Len(sent) /\ (c + 1) - 1 = c
        <5>1. Len(sent) \in Nat /\ c \in 0 .. Len(sent)
          BY <2>1, <2>3
        <5> QED BY <5>1
      <4> QED BY <4>1, <4>2
    <3>2. rest[c] = <<header(sent[c + 1])>> \o (sent[c + 1].payload \o rest[c + 1])
      BY <3>1 DEF Chain
    <3>3. sent[c + 1] \in Message /\ rest[c + 1] \in Pipe
      BY <2>1, <3>1, ElementOfSeq DEF Chain
    <3>4. /\ sent[c + 1].payload \o rest[c + 1] \in Pipe
          /\ <<header(sent[c + 1])>> \in Pipe
      BY <3>3, MessageType, PipeConcat DEF Pipe
    <3> DEFINE h == header(sent[c + 1])
               r == sent[c + 1].payload \o rest[c + 1]
    <3>5. << >> = <<h>> \o r /\ r \in Pipe /\ <<h>> \in Pipe
      BY <3>1, <3>2, <3>4 DEF BeforeHeader
    <3> HIDE DEF h, r
    <3>6. Len(<<h>> \o r) = Len(<<h>>) + Len(r) /\ Len(r) \in Nat /\ Len(<<h>>) = 1
      BY <3>5, ConcatProperties, LenProperties DEF Pipe
    <3> QED BY <3>5, <3>6
  <2>6. {i \in DOMAIN sent : sent[i].id = "ping"} = PingsRead(Len(sent))
    BY <2>1 DEF PingsRead
  <2>7. Len(answers) <= Cardinality(PingsRead(Len(sent))) + 1
    BY <2>3, <2>4 DEF Answered
  <2>8. reading = "header" /\ from_dm_pipe = << >> =>
           Len(answers) = Cardinality(PingsRead(Len(sent))) + 1
    BY <2>3, <2>5 DEF Answered
  <2>9. \A i \in DOMAIN answers : answers[i] = IF i = 1 THEN "ready" ELSE "pong"
    BY <2>3 DEF Answered
  <2> QED BY <2>6, <2>7, <2>8, <2>9 DEF AnsweredInOrder
<1>2. ConnectionInit => ReadInv
  BY ConnectionStarts
<1>3. ReadInv /\ [ConnectionNext]_connection_vars => ReadInv'
  BY ConnectionStep
<1> QED BY <1>1, <1>2, <1>3, PTL DEF ConnectionSpec

=============================================================================
