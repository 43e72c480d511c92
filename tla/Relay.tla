------------------------------- MODULE Relay -------------------------------
(***************************************************************************)
(* The web server's half of a board's event stream (lib/realtime/relay.ts  *)
(* and the route that starts it): one upstream WebSocket per response, its *)
(* messages put on a response body that the browser reads at its own pace. *)
(*                                                                         *)
(* The body holds what was enqueued and not read; the transport's buffers  *)
(* are folded into it.  Frames weigh more than the other messages, so a    *)
(* body may pass the budget by one frame.  What a frame says matters only  *)
(* to the browser (BoardStream).                                           *)
(***************************************************************************)
EXTENDS Naturals, Sequences, SequencesExt

CONSTANTS
    MaxSlots,   \* bound: the streams that exist at one time
    Budget      \* maxBufferedBytes, in the unit of a small message

ASSUME RelayNat == Budget \in Nat \ {0} /\ MaxSlots \in Nat \ {0}

Slot == 1..MaxSlots

\* What arrives from the API's socket, as the browser tells them apart.
\* (`deleted` is the event board.deleted, `unavailable` and `refused` are error
\* frames); frames that change nothing there (shutdown, pong, unknown) are left out.
FrameKind == {"subscribed", "event", "deleted", "unavailable", "refused",
              "unsubscribed"}
\* Close codes; 0 is the relay's null, 1006 stands for every code without a
\* meaning of its own.
Code == {0, 1001, 1003, 1006, 4001, 4002, 4003}

Frame(kind) == [t |-> "frame", kind |-> kind]
Closed(code) == [t |-> "closed", code |-> code]
OpenMessage == [t |-> "open"]
Comment == [t |-> "comment"]    \* STREAM_HEARTBEAT, which decodes to nothing
Message == {OpenMessage, Comment} \cup {Frame(k) : k \in FrameKind} \cup {Closed(x) : x \in Code}

FrameWeight == 2
Weight(m) == IF m.t = "frame" THEN FrameWeight ELSE 1
Buffered(body) == FoldLeft(LAMBDA sum, m : sum + Weight(m), 0, body)

VARIABLE
    relay   \* per slot: the socket, the response body, the two flags

RelayState ==
    \* the socket, and the API's view of the subscription on it
    [socket : {"dialing", "asked", "subscribed", "left", "closed"},
     body : Seq(Message),
     done : BOOLEAN,        \* controller.close() was called
     finished : BOOLEAN,    \* the relay's own flag
     heartbeat : BOOLEAN]   \* the interval is running

Unused == [socket |-> "closed", body |-> <<>>, done |-> TRUE, finished |-> TRUE,
           heartbeat |-> FALSE]

\* const enqueue: what a closed controller throws is swallowed.
Enqueue(r, m) == IF r.done THEN r ELSE [r EXCEPT !.body = Append(@, m)]

OverBudget(r) == ~r.done /\ Buffered(r.body) >= Budget

\* const stop.  <<>> stands for no last message.
Stop(r, last) ==
    IF r.finished THEN r
    ELSE [r EXCEPT !.body = IF r.done THEN @ ELSE @ \o last,
                   !.finished = TRUE,
                   !.heartbeat = FALSE,
                   !.socket = "closed",
                   !.done = TRUE]

\* Mutant of ShedSlowConsumer: the reader is told, and the stream goes on.
ShedTold(r) == Enqueue(r, Closed(4002))

ShedSlowConsumer(r) == Stop(r, <<Closed(4002)>>)

\* Mutant of Write: the budget is not looked at.
WriteUnbounded(r, m) == IF r.finished THEN r ELSE Enqueue(r, m)

\* const write and const send.
Write(r, m) ==
    IF r.finished THEN r
    ELSE IF OverBudget(r) THEN ShedSlowConsumer(r)
    ELSE Enqueue(r, m)

\* start(controller): the request may be over already, and openSocket may throw.
Started(aborted, opens) ==
    LET new == [socket |-> "dialing", body |-> <<>>, done |-> FALSE,
                finished |-> FALSE, heartbeat |-> FALSE]
    IN  IF aborted THEN Stop(new, <<>>)
        ELSE IF ~opens THEN Stop(new, <<Closed(0)>>)
        ELSE [new EXCEPT !.heartbeat = TRUE]

-----------------------------------------------------------------------------
(* The listeners, each for the relay of slot c. *)

Set(c, r) == relay' = [relay EXCEPT ![c] = r]

\* "open": the board is subscribed to, and the browser is told.
SocketOpened(c) ==
    /\ relay[c].socket = "dialing"
    /\ Set(c, Write([relay[c] EXCEPT !.socket = "asked"], OpenMessage))

\* "open", and the socket refuses the subscribe.
SocketOpenFailed(c) ==
    /\ relay[c].socket = "dialing"
    /\ Set(c, Stop(relay[c], <<Closed(0)>>))

\* "message"; becomes is what the API thinks of the subscription now.
SocketMessage(c, kind, becomes) ==
    Set(c, Write([relay[c] EXCEPT !.socket = becomes], Frame(kind)))

\* "close", and with code 0 "error".
SocketEnded(c, code) ==
    /\ relay[c].socket # "closed"
    /\ Set(c, Stop(relay[c], <<Closed(code)>>))

\* Mutant of Heartbeat: there is none while something is unread.
HeartbeatIdle(c) ==
    /\ relay[c].heartbeat
    /\ relay[c].body = <<>>
    /\ Set(c, Write(relay[c], Comment))

\* The interval.
Heartbeat(c) ==
    /\ relay[c].heartbeat
    /\ Set(c, Write(relay[c], Comment))

\* The request's abort listener.  Nobody reads what the body still holds.
RequestAborted(c) ==
    /\ ~relay[c].finished
    /\ Set(c, [Stop(relay[c], <<>>) EXCEPT !.body = <<>>])

\* cancel(): the runtime gave the body up.
Cancelled(c) ==
    /\ ~relay[c].done
    /\ Set(c, [relay[c] EXCEPT !.finished = TRUE, !.heartbeat = FALSE,
                               !.socket = "closed", !.done = TRUE, !.body = <<>>])

-----------------------------------------------------------------------------
(* A stream that ended for any reason but its reader's ends with the reason: the
   last message of the body, and no other, is a `closed`. *)
LastWord ==
    \A c \in Slot : LET body == relay[c].body IN
        \A i \in 1..Len(body) :
            body[i].t = "closed" => i = Len(body) /\ relay[c].finished
=============================================================================
