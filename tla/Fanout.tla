------------------------------- MODULE Fanout -------------------------------
(***************************************************************************)
(* How one event reaches every connection watching a room in one process:  *)
(* the broker's message channel, the dispatch goroutine and Hub.deliver    *)
(* (hub.go), each connection's send buffer and write pump (conn.go), the   *)
(* ways a connection is closed, and Hub.register against Hub.shutdown.     *)
(*                                                                         *)
(* One room is modelled: rooms share only the dispatcher, which handles    *)
(* one message at a time.  Membership is by Hub's contract (its protocol   *)
(* is module Hub): a connection is added and removed under hub.mu, which   *)
(* deliver holds for reading through its loop.  A connection enters and    *)
(* leaves the room at most once, as the client in apps/web does.           *)
(***************************************************************************)
EXTENDS Naturals, Sequences, FiniteSets, SequencesExt

CONSTANTS
    Conn,
    SendBuffer,     \* HubConfig.SendBuffer
    BrokerBuffer,   \* RedisBrokerConfig.Buffer
    MaxEvents,      \* bound: events delivered in a behaviour
    MaxControl      \* bound: answers (subscribed, pong, error) per connection

ASSUME BuffersNat == SendBuffer \in Nat \ {0} /\ BrokerBuffer \in Nat \ {0}
ASSUME BoundsNat == MaxEvents \in Nat /\ MaxControl \in Nat

\* Frames are pairs: the kind decides what the second component is.
Event == {"event"} \X (1..MaxEvents)
Answered == <<"answer", 0>>
ShutdownNotice == <<"shutdown", 0>>
Control == {Answered, ShutdownNotice}
Status == {"normal", "goingAway", "internal", "slowConsumer", "policy"}
CloseFrame == {"close"} \X Status
None == <<"none", 0>>

VARIABLES
    arrived,    \* how many events Redis has delivered
    messages,   \* Broker.Messages(): the buffered channel
    log,        \* history: the messages dispatch has received, in order
    dispatcher, \* what the dispatch goroutine does next
    todo,       \* members deliver has still to try
    slow,       \* members whose buffer was full
    life,       \* "upgraded", "registered" (in hub.conns), "refused", "removed"
    place,      \* "away", "watching" (in hub.rooms), "left"
    from, upto, \* history: the length of log at entry and at exit
    send,       \* Conn.send: the buffered channel
    pump,       \* what the write pump does next
    flight,     \* the frame it is writing
    wire,       \* history: frames the socket accepted
    answers,    \* how many answers each connection has been sent
    status,     \* Conn.closeStatus, "open" until Conn.close
    shut,       \* progress of Hub.shutdown; Hub.closing is shut # "up"
    live,       \* the snapshot of hub.conns that both its passes walk
    notify      \* those the current pass has still to visit

roomVars == <<life, place, from, upto>>
dispatchVars == <<dispatcher, todo, slow>>
pumpVars == <<pump, flight, wire>>
shutVars == <<shut, live, notify>>
vars == <<arrived, messages, log, dispatcher, todo, slow, life, place, from, upto,
          send, pump, flight, wire, answers, status, shut, live, notify>>

TypeOK ==
    /\ arrived \in 0..MaxEvents
    /\ messages \in Seq(Event) /\ Len(messages) <= BrokerBuffer
    /\ log \in Seq(Event)
    /\ dispatcher \in {"receive", "fan", "drop", "ended"}
    /\ todo \in SUBSET Conn
    /\ slow \in SUBSET Conn
    /\ life \in [Conn -> {"upgraded", "registered", "refused", "removed"}]
    /\ place \in [Conn -> {"away", "watching", "left"}]
    /\ from \in [Conn -> 0..MaxEvents]
    /\ upto \in [Conn -> 0..MaxEvents]
    /\ send \in [Conn -> Seq(Event \cup Control)]
    /\ \A c \in Conn : Len(send[c]) <= SendBuffer
    /\ pump \in [Conn -> {"select", "writing", "handshake", "done"}]
    /\ flight \in [Conn -> Event \cup Control \cup {None}]
    /\ wire \in [Conn -> Seq(Event \cup Control \cup CloseFrame)]
    /\ answers \in [Conn -> 0..MaxControl]
    /\ status \in [Conn -> Status \cup {"open"}]
    /\ shut \in {"up", "notifying", "closing", "waiting", "stopped"}
    /\ live \in SUBSET Conn
    /\ notify \in SUBSET Conn

Init ==
    /\ arrived = 0
    /\ messages = <<>>
    /\ log = <<>>
    /\ dispatcher = "receive"
    /\ todo = {}
    /\ slow = {}
    /\ life = [c \in Conn |-> "upgraded"]
    /\ place = [c \in Conn |-> "away"]
    /\ from = [c \in Conn |-> 0]
    /\ upto = [c \in Conn |-> 0]
    /\ send = [c \in Conn |-> <<>>]
    /\ pump = [c \in Conn |-> "select"]
    /\ flight = [c \in Conn |-> None]
    /\ wire = [c \in Conn |-> <<>>]
    /\ answers = [c \in Conn |-> 0]
    /\ status = [c \in Conn |-> "open"]
    /\ shut = "up"
    /\ live = {}
    /\ notify = {}

-----------------------------------------------------------------------------
(* Conn.close: the first reason wins. *)
CloseAs(c, why) ==
    status' = IF status[c] = "open" THEN [status EXCEPT ![c] = why] ELSE status

(* Conn.trySend: on a closing connection it accepts and drops; otherwise it
   queues, or reports a full buffer. *)
Full(c) == status[c] = "open" /\ Len(send[c]) = SendBuffer

TrySend(c, frame) ==
    send' = IF status[c] = "open" /\ Len(send[c]) < SendBuffer
            THEN [send EXCEPT ![c] = Append(@, frame)]
            ELSE send

(* Conn.sendFrame: a client too slow for its own answer is dropped too. *)
SendFrame(c, frame) ==
    /\ TrySend(c, frame)
    /\ IF Full(c) THEN CloseAs(c, "slowConsumer") ELSE UNCHANGED status

-----------------------------------------------------------------------------
(* Redis and RedisBroker.receive. *)

\* An event arrives on the channel, which must have room.  Events Redis loses
\* on the way (pub/sub delivers at most once) are never seen here and are not
\* part of what the hub promises.
Arrive ==
    /\ arrived < MaxEvents
    /\ shut # "stopped"
    /\ Len(messages) < BrokerBuffer
    /\ arrived' = arrived + 1
    /\ messages' = Append(messages, <<"event", arrived'>>)
    /\ UNCHANGED <<log, dispatchVars, roomVars, send, pumpVars, answers, status,
                   shutVars>>

-----------------------------------------------------------------------------
(* The dispatch goroutine and Hub.deliver. *)

Receive ==
    /\ dispatcher = "receive"
    /\ messages # <<>>
    /\ log' = Append(log, Head(messages))
    /\ messages' = Tail(messages)
    /\ todo' = {c \in Conn : place[c] = "watching"}
    /\ dispatcher' = "fan"
    /\ UNCHANGED <<arrived, slow, roomVars, send, pumpVars, answers, status,
                   shutVars>>

\* Mutant of Offer: a blocking send.
OfferBlocks(c) ==
    /\ dispatcher = "fan"
    /\ c \in todo
    /\ todo' = todo \ {c}
    /\ Len(send[c]) < SendBuffer
    /\ TrySend(c, log[Len(log)])
    /\ slow' = IF Full(c) THEN slow \cup {c} ELSE slow
    /\ UNCHANGED <<arrived, messages, log, dispatcher, roomVars, pumpVars,
                   answers, status, shutVars>>

\* One turn of the loop under the read lock.
Offer(c) ==
    /\ dispatcher = "fan"
    /\ c \in todo
    /\ todo' = todo \ {c}
    /\ TrySend(c, log[Len(log)])
    /\ slow' = IF Full(c) THEN slow \cup {c} ELSE slow
    /\ UNCHANGED <<arrived, messages, log, dispatcher, roomVars, pumpVars,
                   answers, status, shutVars>>

\* The read lock is released.
Offered ==
    /\ dispatcher = "fan"
    /\ todo = {}
    /\ dispatcher' = "drop"
    /\ UNCHANGED <<arrived, messages, log, todo, slow, roomVars, send,
                   pumpVars, answers, status, shutVars>>

DropSlow(c) ==
    /\ dispatcher = "drop"
    /\ c \in slow
    /\ slow' = slow \ {c}
    /\ CloseAs(c, "slowConsumer")
    /\ UNCHANGED <<arrived, messages, log, dispatcher, todo, roomVars, send,
                   pumpVars, answers, shutVars>>

\* Mutant of Delivered: deliver returns before the slow clients are dropped.
DeliveredAtOnce ==
    /\ dispatcher = "drop"
    /\ slow' = {}
    /\ dispatcher' = "receive"
    /\ UNCHANGED <<arrived, messages, log, todo, roomVars, send,
                   pumpVars, answers, status, shutVars>>

\* deliver returns.
Delivered ==
    /\ dispatcher = "drop"
    /\ slow = {}
    /\ dispatcher' = "receive"
    /\ UNCHANGED <<arrived, messages, log, todo, slow, roomVars, send,
                   pumpVars, answers, status, shutVars>>

\* The channel is closed and empty: the range ends.
DispatchEnd ==
    /\ dispatcher = "receive"
    /\ shut = "stopped"
    /\ messages = <<>>
    /\ dispatcher' = "ended"
    /\ UNCHANGED <<arrived, messages, log, todo, slow, roomVars, send,
                   pumpVars, answers, status, shutVars>>

-----------------------------------------------------------------------------
(* serve registers the connection first and removes it last, under the write lock,
   which excludes deliver's loop. *)

\* Mutant of Register: only the handler looks, before the upgrade.
RegisterAnyway(c) ==
    /\ life[c] = "upgraded"
    /\ dispatcher # "fan"
    /\ life' = [life EXCEPT ![c] = "registered"]
    /\ UNCHANGED <<arrived, messages, log, dispatchVars, place, from, upto, send,
                   pumpVars, answers, status, shutVars>>

\* Hub.register: on a hub that is closing the connection is refused, and serve
\* closes its socket and starts nothing.
Register(c) ==
    /\ life[c] = "upgraded"
    /\ dispatcher # "fan"
    /\ life' = [life EXCEPT ![c] = IF shut = "up" THEN "registered" ELSE "refused"]
    /\ UNCHANGED <<arrived, messages, log, dispatchVars, place, from, upto, send,
                   pumpVars, answers, status, shutVars>>

\* Hub.remove, when the pumps have ended.
Deregister(c) ==
    /\ life[c] = "registered"
    /\ pump[c] = "done"
    /\ place[c] # "watching"
    /\ dispatcher # "fan"
    /\ life' = [life EXCEPT ![c] = "removed"]
    /\ UNCHANGED <<arrived, messages, log, dispatchVars, place, from, upto, send,
                   pumpVars, answers, status, shutVars>>

(* Membership, by Hub's contract, under the same lock. *)

Enter(c) ==
    /\ life[c] = "registered"
    /\ place[c] = "away"
    /\ dispatcher # "fan"
    /\ place' = [place EXCEPT ![c] = "watching"]
    /\ from' = [from EXCEPT ![c] = Len(log)]
    /\ UNCHANGED <<arrived, messages, log, dispatchVars, life, upto, send, pumpVars,
                   answers, status, shutVars>>

Exit(c) ==
    /\ place[c] = "watching"
    /\ dispatcher # "fan"
    /\ place' = [place EXCEPT ![c] = "left"]
    /\ upto' = [upto EXCEPT ![c] = Len(log)]
    /\ UNCHANGED <<arrived, messages, log, dispatchVars, life, from, send, pumpVars,
                   answers, status, shutVars>>

-----------------------------------------------------------------------------
(* The connection's own goroutines. *)

\* readPump answers a client frame.
Answer(c) ==
    /\ answers[c] < MaxControl
    /\ life[c] = "registered"
    /\ pump[c] # "done"
    /\ answers' = [answers EXCEPT ![c] = @ + 1]
    /\ SendFrame(c, Answered)
    /\ UNCHANGED <<arrived, messages, log, dispatchVars, roomVars, pumpVars,
                   shutVars>>

\* readPump returned (normal), or maintain gave up on the peer, whose token
\* expired, membership ended or pongs stopped ("policy" stands for each code).
End(c) ==
    /\ life[c] = "registered"
    /\ status[c] = "open"
    /\ \E why \in {"normal", "policy"} : CloseAs(c, why)
    /\ UNCHANGED <<arrived, messages, log, dispatchVars, roomVars, send,
                   pumpVars, answers, shutVars>>

\* writePump's select takes a frame; a closed connection may still win it.
PumpTake(c) ==
    /\ pump[c] = "select"
    /\ send[c] # <<>>
    /\ flight' = [flight EXCEPT ![c] = Head(send[c])]
    /\ send' = [send EXCEPT ![c] = Tail(@)]
    /\ pump' = [pump EXCEPT ![c] = "writing"]
    /\ UNCHANGED <<arrived, messages, log, dispatchVars, roomVars, wire,
                   answers, status, shutVars>>

PumpWrote(c) ==
    /\ pump[c] = "writing"
    /\ wire' = [wire EXCEPT ![c] = Append(@, flight[c])]
    /\ flight' = [flight EXCEPT ![c] = None]
    /\ pump' = [pump EXCEPT ![c] = "select"]
    /\ UNCHANGED <<arrived, messages, log, dispatchVars, roomVars, send,
                   answers, status, shutVars>>

\* Mutant of PumpFailed: the pump goes on after a failed write.
PumpFailedGoesOn(c) ==
    /\ pump[c] = "writing"
    /\ flight' = [flight EXCEPT ![c] = None]
    /\ pump' = [pump EXCEPT ![c] = "select"]
    /\ UNCHANGED <<arrived, messages, log, dispatchVars, roomVars, send, wire,
                   answers, status, shutVars>>

\* Mutant of PumpFailed: a write without a timeout.
PumpFailedNever(c) ==
    /\ FALSE
    /\ CloseAs(c, "internal")
    /\ flight' = [flight EXCEPT ![c] = None]
    /\ pump' = [pump EXCEPT ![c] = "done"]
    /\ UNCHANGED <<arrived, messages, log, dispatchVars, roomVars, send, wire,
                   answers, shutVars>>

\* The write failed or timed out; the library has closed the socket, so the
\* handshake that follows reaches nobody.
PumpFailed(c) ==
    /\ pump[c] = "writing"
    /\ CloseAs(c, "internal")
    /\ flight' = [flight EXCEPT ![c] = None]
    /\ pump' = [pump EXCEPT ![c] = "done"]
    /\ UNCHANGED <<arrived, messages, log, dispatchVars, roomVars, send, wire,
                   answers, shutVars>>

PumpClosed(c) ==
    /\ pump[c] = "select"
    /\ status[c] # "open"
    /\ pump' = [pump EXCEPT ![c] = "handshake"]
    /\ UNCHANGED <<arrived, messages, log, dispatchVars, roomVars, send,
                   flight, wire, answers, status, shutVars>>

\* finishHandshake: the close frame reaches the peer, or the peer is gone.
FinishHandshake(c) ==
    /\ pump[c] = "handshake"
    /\ \/ wire' = [wire EXCEPT ![c] = Append(@, <<"close", status[c]>>)]
       \/ UNCHANGED wire
    /\ pump' = [pump EXCEPT ![c] = "done"]
    /\ UNCHANGED <<arrived, messages, log, dispatchVars, roomVars, send,
                   flight, answers, status, shutVars>>

-----------------------------------------------------------------------------
(* Hub.shutdown: warn every live connection, pause, close every one, wait,
   close the broker. *)

\* closing is set and hub.conns copied under the write lock.
ShutdownBegin ==
    /\ shut = "up"
    /\ dispatcher # "fan"
    /\ shut' = "notifying"
    /\ live' = {c \in Conn : life[c] = "registered"}
    /\ notify' = live'
    /\ UNCHANGED <<arrived, messages, log, dispatchVars, roomVars, send,
                   pumpVars, answers, status>>

NotifyShutdown(c) ==
    /\ shut = "notifying"
    /\ c \in notify
    /\ notify' = notify \ {c}
    /\ SendFrame(c, ShutdownNotice)
    /\ UNCHANGED <<arrived, messages, log, dispatchVars, roomVars, pumpVars,
                   answers, shut, live>>

\* Mutant of ShutdownPause: the second pass visits nobody.
ShutdownPauseOnly ==
    /\ shut = "notifying"
    /\ notify = {}
    /\ shut' = "closing"
    /\ notify' = {}
    /\ UNCHANGED <<arrived, messages, log, dispatchVars, roomVars, send,
                   pumpVars, answers, status, live>>

\* shutdownFlushGrace is over.  The second pass visits the same connections:
\* those that finished meanwhile are visited in vain.
ShutdownPause ==
    /\ shut = "notifying"
    /\ notify = {}
    /\ shut' = "closing"
    /\ notify' = live
    /\ UNCHANGED <<arrived, messages, log, dispatchVars, roomVars, send,
                   pumpVars, answers, status, live>>

ShutdownClose(c) ==
    /\ shut = "closing"
    /\ c \in notify
    /\ notify' = notify \ {c}
    /\ CloseAs(c, "goingAway")
    /\ UNCHANGED <<arrived, messages, log, dispatchVars, roomVars, send,
                   pumpVars, answers, shut, live>>

ShutdownWait ==
    /\ shut = "closing"
    /\ notify = {}
    /\ shut' = "waiting"
    /\ UNCHANGED <<arrived, messages, log, dispatchVars, roomVars, send,
                   pumpVars, answers, status, live, notify>>

\* All finished (or the deadline passed): closeBroker closes the channel.
ShutdownStop ==
    /\ shut = "waiting"
    /\ shut' = "stopped"
    /\ UNCHANGED <<arrived, messages, log, dispatchVars, roomVars, send,
                   pumpVars, answers, status, live, notify>>

Dispatch == Receive \/ Offered \/ Delivered \/ DispatchEnd
            \/ \E c \in Conn : Offer(c) \/ DropSlow(c)
Pump(c) == PumpTake(c) \/ PumpWrote(c) \/ PumpFailed(c) \/ PumpClosed(c)
           \/ FinishHandshake(c)
Shutdown == ShutdownPause \/ ShutdownWait \/ ShutdownStop
            \/ \E c \in Conn : NotifyShutdown(c) \/ ShutdownClose(c)

Next ==
    \/ Arrive
    \/ Dispatch
    \/ \E c \in Conn : \/ Register(c) \/ Deregister(c) \/ Enter(c) \/ Exit(c)
                       \/ Answer(c) \/ End(c) \/ Pump(c)
    \/ ShutdownBegin \/ Shutdown

Spec == Init /\ [][Next]_vars

\* The dispatcher and shutdown never wait for a client, so weak fairness is what
\* the Go scheduler gives them.  Nothing is assumed of the sockets.
FairSpec == Spec /\ WF_vars(Dispatch) /\ WF_vars(Shutdown)

\* A write that does not complete fails when WriteTimeout expires, the close
\* handshake is bounded by the library, and select picks fairly among what is
\* ready.  Whether a write completes is up to the peer.
PumpFairness(c) ==
    /\ WF_vars(PumpTake(c) \/ PumpClosed(c)) /\ SF_vars(PumpClosed(c))
    /\ WF_vars(PumpFailed(c)) /\ WF_vars(FinishHandshake(c))

-----------------------------------------------------------------------------
\* The events among the frames of s, in order.
Events(s) ==
    FoldLeft(LAMBDA kept, f : IF f[1] = "event" THEN Append(kept, f) ELSE kept, <<>>, s)

\* Everything on its way to the client, oldest first.
Accepted(c) ==
    Events(wire[c] \o (IF flight[c] = None THEN <<>> ELSE <<flight[c]>>) \o send[c])

Window(c) == SubSeq(log, from[c] + 1, IF place[c] = "left" THEN upto[c] ELSE Len(log))

\* deliver's decision: no silent gap.  A watcher that is still open, that the
\* loop has passed and that is not about to be dropped has been given every
\* event dispatched since it entered the room, in dispatch order.
NoSilentGap ==
    \A c \in Conn :
        (place[c] = "watching" /\ status[c] = "open" /\ c \notin todo \cup slow)
            => Accepted(c) = Window(c)

\* Shutdown leaves nobody open: once it waits, every connection the hub serves is
\* closed.  One that came too late for the snapshot was refused, and one that
\* came before it was visited by both passes.
DrainClosesAll ==
    shut \in {"waiting", "stopped"} =>
        \A c \in Conn : life[c] = "registered" => status[c] # "open"

\* A stalled client is nobody else's problem: every message on the broker's
\* channel is dispatched although no socket ever accepts a byte.
DispatchNeverStalls == \A n \in 1..BrokerBuffer :
    (Len(messages) = n) ~> (Len(messages) < n \/ dispatcher = "ended")

\* A closed connection's write pump ends, so serve can deregister it.
ClosedPumpEnds ==
    \A c \in Conn : PumpFairness(c) => ((status[c] # "open") ~> (pump[c] = "done"))

Promise == INSTANCE RoomFeed WITH
    place <- [c \in Conn |-> IF pump[c] = "done" THEN "cut" ELSE place[c]],
    from <- [c \in Conn |-> IF pump[c] = "done" THEN 0 ELSE from[c]],
    upto <- [c \in Conn |-> IF pump[c] = "done" THEN 0 ELSE upto[c]],
    got <- [c \in Conn |-> Events(wire[c])]

\* The hub keeps the room's promise.
KeepsPromise == Promise!Spec
=============================================================================
