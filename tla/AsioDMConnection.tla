--------------------------- MODULE AsioDMConnection ---------------------------
(***************************************************************************)
(* usc::AsioDMConnection reads the display manager's messages from a pipe  *)
(* and calls the DMMessageHandler (the session switcher) from a thread of  *)
(* its own.                                                                *)
(*                                                                         *)
(* A message is a header (its id and the length of its payload) and its    *)
(* payload.  The reads are asynchronous: on_read_header() starts the read  *)
(* of a payload into message_payload_buffer, on_read_payload() handles the *)
(* message and starts the read of the next header.  The display manager    *)
(* may close the pipe at any time, in the middle of a message too, and the *)
(* connection may be destroyed at any time.                                *)
(*                                                                         *)
(* The four bytes of a header are one element of the pipe, each byte of a  *)
(* payload is one.                                                         *)
(***************************************************************************)
EXTENDS Naturals, Sequences, FiniteSets

CONSTANTS
    Byte,           \* what payloads are made of
    MaxPayload,     \* bound on the length of a payload
    MaxMessages     \* bound on the messages the display manager sends

ASSUME ConnectionAssumption ==
    /\ MaxPayload \in Nat
    /\ MaxMessages \in Nat

VARIABLES
    reading,                \* the read under way, or why there is none
    message_header,         \* message_header_bytes
    message_payload_buffer,
    handled,                \* the calls of the handler, as messages
    answers,                \* what was written to to_dm_pipe
    \* the display manager
    from_dm_pipe,
    dm_alive,
    sent,                   \* the messages it has written completely
    \* history of what was written
    unclaimed,              \* the payloads of other messages since the last name
    named                   \* the names, each with the payloads before it

own == <<reading, message_header, message_payload_buffer, handled, answers>>
dm == <<from_dm_pipe, dm_alive, sent, unclaimed, named>>
connection_vars == <<own, dm>>

USCMessageID == {"ping", "pong", "ready", "set_active_session", "set_next_session"}
names_session(id) == id \in {"set_active_session", "set_next_session"}

Payload == UNION {[1 .. n -> Byte] : n \in 0 .. MaxPayload}
Message == [id : USCMessageID, payload : Payload]

\* What the handler is called with
Name == [id : {"set_active_session", "set_next_session"}, payload : Seq(Byte)]

\* The name in m when the bytes ignored are before it in the buffer
behind(ignored, m) == [id |-> m.id, payload |-> ignored \o m.payload]

Header == [id : USCMessageID, length : 0 .. MaxPayload]
header(m) == [id |-> m.id, length |-> Len(m.payload)]

ConnectionTypeOK ==
    /\ reading \in {"not_started", "header", "payload", "ended", "destroyed", "terminated"}
    /\ message_header \in Header
    /\ message_payload_buffer \in Seq(Byte)
    /\ handled \in Seq(Name)
    /\ answers \in Seq({"ready", "pong"})
    /\ from_dm_pipe \in Seq(Header \cup Byte)
    /\ dm_alive \in BOOLEAN
    /\ sent \in Seq(Message)
    /\ unclaimed \in Seq(Byte) /\ named \in Seq(Name)

ConnectionInit ==
    /\ reading = "not_started"
    /\ message_header = [id |-> "ping", length |-> 0]
    /\ message_payload_buffer = << >>
    /\ handled = << >>
    /\ answers = << >>
    /\ from_dm_pipe = << >>
    /\ dm_alive = TRUE
    /\ sent = << >> /\ unclaimed = << >> /\ named = << >>

-----------------------------------------------------------------------------
\* The display manager

dm_sends(m) ==
    /\ dm_alive
    /\ Len(sent) < MaxMessages
    /\ from_dm_pipe' = from_dm_pipe \o <<header(m)>> \o m.payload
    /\ sent' = Append(sent, m)
    /\ \/ /\ names_session(m.id)
          /\ named' = Append(named, behind(unclaimed, m))
          /\ unclaimed' = << >>
       \/ /\ ~names_session(m.id)
          /\ unclaimed' = unclaimed \o m.payload
          /\ UNCHANGED named
    /\ UNCHANGED <<own, dm_alive>>

\* It ends between two messages, or after the first n bytes of a payload.
dm_ends ==
    /\ dm_alive
    /\ dm_alive' = FALSE
    /\ \/ UNCHANGED from_dm_pipe
       \/ \E m \in Message : \E n \in 0 .. Len(m.payload) - 1 :
             from_dm_pipe' = from_dm_pipe \o <<header(m)>> \o SubSeq(m.payload, 1, n)
    /\ UNCHANGED <<own, sent, unclaimed, named>>

-----------------------------------------------------------------------------
\* send(): a write to a pipe without a reader ends the process, with a signal
\* or with an exception that nothing in the I/O thread catches.
send(id) ==
    /\ dm_alive
    /\ answers' = Append(answers, id)

start ==
    /\ reading = "not_started"
    /\ \/ send("ready") /\ reading' = "header"
       \/ ~dm_alive /\ reading' = "terminated" /\ UNCHANGED answers
    /\ UNCHANGED <<message_header, message_payload_buffer, handled, dm>>

on_read_header ==
    /\ reading = "header"
    /\ \/ /\ from_dm_pipe # << >>
          /\ message_header' = Head(from_dm_pipe)
          /\ from_dm_pipe' = Tail(from_dm_pipe)
          /\ reading' = "payload"
       \/ /\ from_dm_pipe = << >> /\ ~dm_alive
          /\ reading' = "ended"
          /\ UNCHANGED <<message_header, from_dm_pipe>>
    /\ UNCHANGED <<message_payload_buffer, handled, answers, dm_alive, sent, unclaimed, named>>

\* The payload read so far.
available == Len(from_dm_pipe)
received == SubSeq(from_dm_pipe, 1, message_header.length)
buffered == message_payload_buffer \o received

unread == SubSeq(from_dm_pipe, message_header.length + 1, available)

\* What streaming the buffer into a string leaves in it.
rest_after_name_unconsumed == buffered
rest_after_name == << >>

\* What is done next once a message is handled.
stops_at_unknown(id) == IF id = "ready" THEN "ended" ELSE "header"
after_message(id) == "header"

handle_session_name ==
    /\ names_session(message_header.id)
    /\ handled' = Append(handled, [id |-> message_header.id, payload |-> buffered])
    /\ message_payload_buffer' = rest_after_name
    /\ reading' = after_message(message_header.id)
    /\ UNCHANGED answers

handle_ping ==
    /\ message_header.id = "ping"
    /\ \/ send("pong") /\ reading' = after_message("ping")
       \/ ~dm_alive /\ reading' = "terminated" /\ UNCHANGED answers
    /\ message_payload_buffer' = buffered
    /\ UNCHANGED handled

\* pong, and ids that are not known
handle_other ==
    /\ message_header.id \in {"pong", "ready"}
    /\ message_payload_buffer' = buffered
    /\ reading' = after_message(message_header.id)
    /\ UNCHANGED <<handled, answers>>

on_read_payload ==
    /\ reading = "payload"
    /\ available >= message_header.length
    /\ handle_session_name \/ handle_ping \/ handle_other
    /\ from_dm_pipe' = unread
    /\ UNCHANGED <<message_header, dm_alive, sent, unclaimed, named>>

\* The pipe was closed inside the payload: what was read stays in the buffer.
on_read_payload_failed ==
    /\ reading = "payload"
    /\ available < message_header.length
    /\ ~dm_alive
    /\ message_payload_buffer' = message_payload_buffer \o from_dm_pipe
    /\ from_dm_pipe' = << >>
    /\ reading' = "header"
    /\ UNCHANGED <<message_header, handled, answers, dm_alive, sent, unclaimed, named>>

\* The destructor waits for a handler that runs, and no other runs.
destroy ==
    /\ reading \in {"not_started", "header", "payload", "ended"}
    /\ reading' = "destroyed"
    /\ UNCHANGED <<message_header, message_payload_buffer, handled, answers, dm>>

-----------------------------------------------------------------------------
IOThread == on_read_header \/ on_read_payload \/ on_read_payload_failed

ConnectionNext ==
    \/ \E m \in Message : dm_sends(m)
    \/ dm_ends
    \/ start
    \/ IOThread
    \/ destroy

\* The I/O thread runs, and the server starts the connection.
ConnectionSpec ==
    /\ ConnectionInit /\ [][ConnectionNext]_connection_vars
    /\ WF_connection_vars(IOThread) /\ WF_connection_vars(start)

-----------------------------------------------------------------------------
pings(ms) == SelectSeq(ms, LAMBDA m : m.id = "ping")
gone == reading \in {"destroyed", "terminated"}

\* To the display manager and the switcher the connection is a queue of names.
Names ==
    INSTANCE ActionQueue
    WITH Action <- Name,
         pending <- SubSeq(named, Len(handled) + 1, Len(named)),
         performed <- handled,
         stopped <- gone

\* The handler is called for the messages that name a session: once for each
\* that was written completely, in the order they were written.  It is called
\* with the payload of the message behind the payloads of those before it that
\* name no session, back to the last that does: they are not taken from the
\* buffer when their message is ignored (asio_dm_connection.cpp:126), so that a
\* name is the one that was sent when these have no payload.  No byte of a
\* header, of an earlier name, or of a message that was cut off is part of it.
\* In the end it is called for every one, also when the display manager ends
\* right after it, unless the connection or the process ends first.
IsNameQueue == Names!QueueSpec

\* The first answer says that the compositor is ready, all others are pongs, and
\* there is none without a ping: no byte of a payload, or of a message that was
\* cut off, is taken for one.  Whenever the connection has nothing more to read
\* it has answered all of them.
AnsweredInOrder ==
    LET asked == {i \in DOMAIN sent : sent[i].id = "ping"} IN
    /\ \A i \in DOMAIN answers : answers[i] = IF i = 1 THEN "ready" ELSE "pong"
    /\ Len(answers) <= Cardinality(asked) + 1
    /\ reading = "header" /\ from_dm_pipe = << >> =>
          Len(answers) = Cardinality(asked) + 1

\* A ping is answered once, by a pong after the initial ready, whatever other
\* messages surround it, unless the connection or the process ends first.
EveryPingAnswered ==
    /\ []AnsweredInOrder
    /\ \A n \in 1 .. MaxMessages :
          Len(pings(sent)) = n ~> Len(answers) = Len(pings(sent)) + 1 \/ gone
=============================================================================
