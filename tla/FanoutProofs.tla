---------------------------- MODULE FanoutProofs ----------------------------
(***************************************************************************)
(* Proofs about Fanout, for every set of connections, every size of the    *)
(* buffers and every number of events: the state keeps its types; a        *)
(* shutdown that has begun to wait has left no connection open; no watcher *)
(* that is still open is skipped; and Fanout implements RoomFeed.          *)
(*                                                                         *)
(* Inv is about the goroutines and the drain.  Feeding is about the log:   *)
(* for each connection whose pump goes on, how far into it the frames go   *)
(* that were written, are being written or wait in the send buffer.        *)
(***************************************************************************)
EXTENDS Fanout, FoldLemmas, SequenceTheorems

\* No event is lost between Redis and the dispatcher, nor made up, and deliver has
\* one to hand out.
Conserved ==
    /\ Len(log) + Len(messages) = arrived
    /\ dispatcher = "fan" => log # <<>>

\* A write pump ends only on a connection that is closed.
PumpEndsClosed == \A c \in Conn : pump[c] \in {"handshake", "done"} => status[c] # "open"

\* What a pump writes is a frame it has taken.
PumpHolds == \A c \in Conn : pump[c] = "writing" => flight[c] # None

\* Once shutdown has begun, whoever the hub serves and is open is in the snapshot: nobody
\* registers behind it.  The second pass has closed whom it has visited.
PassCloses ==
    /\ shut # "up" => \A c \in Conn : life[c] = "registered" /\ status[c] = "open" => c \in live
    /\ shut = "closing" =>
        \A c \in Conn : life[c] = "registered" /\ status[c] = "open" => c \in notify
    /\ DrainClosesAll

Inv == TypeOK /\ Conserved /\ PumpHolds /\ PumpEndsClosed /\ PassCloses

-----------------------------------------------------------------------------
(* Conn.close and Conn.trySend. *)

(* A close leaves every other connection alone, and never reopens one. *)
LEMMA CloseAsCloses ==
    ASSUME NEW c \in Conn, NEW why \in Status,
           status \in [Conn -> Status \cup {"open"}], CloseAs(c, why)
    PROVE  /\ status' \in [Conn -> Status \cup {"open"}]
           /\ status'[c] # "open"
           /\ \A d \in Conn : status[d] # "open" => status'[d] # "open"
BY DEF CloseAs, Status

(* A send keeps within the buffer. *)
LEMMA TrySendFits ==
    ASSUME NEW c \in Conn, NEW frame \in Event \cup Control, TypeOK, TrySend(c, frame)
    PROVE  /\ send' \in [Conn -> Seq(Event \cup Control)]
           /\ \A d \in Conn : Len(send'[d]) <= SendBuffer
<1>1. CASE status[c] = "open" /\ Len(send[c]) < SendBuffer
  <2>1. /\ Append(send[c], frame) \in Seq(Event \cup Control)
        /\ Len(Append(send[c], frame)) = Len(send[c]) + 1
    BY DEF TypeOK
  <2>2. Len(send[c]) + 1 <= SendBuffer
    BY <1>1, BuffersNat DEF TypeOK
  <2> QED  BY <1>1, <2>1, <2>2 DEF TypeOK, TrySend
<1>2. CASE ~(status[c] = "open" /\ Len(send[c]) < SendBuffer)
  BY <1>2 DEF TypeOK, TrySend
<1> QED  BY <1>1, <1>2

(* A frame the socket accepts is added to those before it. *)
LEMMA WireKept ==
    ASSUME NEW Frame, NEW w \in [Conn -> Seq(Frame)], NEW c \in Conn, NEW f \in Frame
    PROVE  [w EXCEPT ![c] = Append(@, f)] \in [Conn -> Seq(Frame)]
<1>1. Append(w[c], f) \in Seq(Frame)
  OBVIOUS
<1> QED  BY <1>1

(* The same of sendFrame, which may close the connection. *)
LEMMA SendFrameFits ==
    ASSUME NEW c \in Conn, NEW frame \in Event \cup Control, TypeOK, SendFrame(c, frame)
    PROVE  /\ send' \in [Conn -> Seq(Event \cup Control)]
           /\ \A d \in Conn : Len(send'[d]) <= SendBuffer
           /\ status' \in [Conn -> Status \cup {"open"}]
           /\ \A d \in Conn : status[d] # "open" => status'[d] # "open"
<1>1. "slowConsumer" \in Status
  BY DEF Status
<1>2. CASE Full(c)
  BY <1>1, <1>2, TrySendFits, CloseAsCloses DEF SendFrame, TypeOK
<1>3. CASE ~Full(c)
  BY <1>3, TrySendFits DEF SendFrame, TypeOK
<1> QED  BY <1>2, <1>3

-----------------------------------------------------------------------------
(* Init establishes the invariant and every action preserves it. *)

LEMMA InitInv == Init => Inv
BY BuffersNat, BoundsNat
DEF Init, Inv, TypeOK, Conserved, PumpHolds, PumpEndsClosed, PassCloses, DrainClosesAll, Event, None

LEMMA ArriveInv == ASSUME Inv, Arrive PROVE Inv'
<1>1. <<"event", arrived'>> \in Event
  BY BoundsNat DEF Arrive, Inv, TypeOK, Event
<1>2. /\ messages' \in Seq(Event) /\ Len(messages') = Len(messages) + 1
      /\ Len(messages') <= BrokerBuffer
  BY <1>1, BuffersNat DEF Arrive, Inv, TypeOK
<1>3. arrived' \in 0..MaxEvents /\ Len(log) + Len(messages') = arrived'
  BY <1>2, BoundsNat DEF Arrive, Inv, TypeOK, Conserved
<1> QED
  BY <1>2, <1>3
  DEF Arrive, Inv, TypeOK, Conserved, PumpHolds, PumpEndsClosed, PassCloses, DrainClosesAll,
       dispatchVars, roomVars, pumpVars, shutVars

LEMMA ReceiveInv == ASSUME Inv, Receive PROVE Inv'
<1>1. Head(messages) \in Event
  BY DEF Receive, Inv, TypeOK
<1>2. log' \in Seq(Event) /\ Len(log') = Len(log) + 1
  BY <1>1 DEF Receive, Inv, TypeOK
<1>3. log' # <<>>
  BY <1>2 DEF Inv, TypeOK
<1>6. messages \in Seq(Event) /\ messages # <<>> /\ messages' = Tail(messages)
  BY DEF Receive, Inv, TypeOK
<1>4. messages' \in Seq(Event) /\ Len(messages') = Len(messages) - 1
  BY <1>6
<1>5. Len(messages') <= BrokerBuffer /\ Len(log') + Len(messages') = arrived
  <2>1. Len(log) \in Nat /\ Len(messages) \in Nat
    BY <1>4 DEF Inv, TypeOK
  <2>2. Len(messages) <= BrokerBuffer /\ Len(log) + Len(messages) = arrived
    BY DEF Inv, TypeOK, Conserved
  <2> QED  BY <1>2, <1>4, <2>1, <2>2, BuffersNat
<1> QED
  BY <1>2, <1>3, <1>4, <1>5
  DEF Receive, Inv, TypeOK, Conserved, PumpHolds, PumpEndsClosed, PassCloses, DrainClosesAll,
       dispatchVars, roomVars, pumpVars, shutVars

LEMMA OfferInv == ASSUME Inv, NEW c \in Conn, Offer(c) PROVE Inv'
<1>1. log[Len(log)] \in Event \cup Control
  BY DEF Offer, Inv, TypeOK, Conserved
<1>2. /\ send' \in [Conn -> Seq(Event \cup Control)]
      /\ \A d \in Conn : Len(send'[d]) <= SendBuffer
  BY <1>1, TrySendFits DEF Offer, Inv
<1> QED
  BY <1>2
  DEF Offer, Inv, TypeOK, Conserved, PumpHolds, PumpEndsClosed, PassCloses, DrainClosesAll,
       dispatchVars, roomVars, pumpVars, shutVars

LEMMA OfferedInv == ASSUME Inv, Offered PROVE Inv'
BY DEF Offered, Inv, TypeOK, Conserved, PumpHolds, PumpEndsClosed, PassCloses, DrainClosesAll,
       dispatchVars, roomVars, pumpVars, shutVars

LEMMA DropSlowInv == ASSUME Inv, NEW c \in Conn, DropSlow(c) PROVE Inv'
<1>1. /\ status' \in [Conn -> Status \cup {"open"}]
      /\ \A d \in Conn : status[d] # "open" => status'[d] # "open"
      /\ status'[c] # "open"
  BY CloseAsCloses DEF DropSlow, Status, Inv, TypeOK
<1> QED
  BY <1>1
  DEF DropSlow, Inv, TypeOK, Conserved, PumpHolds, PumpEndsClosed, PassCloses, DrainClosesAll,
       dispatchVars, roomVars, pumpVars, shutVars

LEMMA DeliveredInv == ASSUME Inv, Delivered PROVE Inv'
BY DEF Delivered, Inv, TypeOK, Conserved, PumpHolds, PumpEndsClosed, PassCloses, DrainClosesAll,
       dispatchVars, roomVars, pumpVars, shutVars

LEMMA DispatchEndInv == ASSUME Inv, DispatchEnd PROVE Inv'
BY DEF DispatchEnd, Inv, TypeOK, Conserved, PumpHolds, PumpEndsClosed, PassCloses, DrainClosesAll,
       dispatchVars, roomVars, pumpVars, shutVars

LEMMA RegisterInv == ASSUME Inv, NEW c \in Conn, Register(c) \/ Deregister(c) PROVE Inv'
<1>1. /\ UNCHANGED <<arrived, messages, log, dispatcher, todo, slow, place, from, upto, send,
                     pump, flight, wire, answers, status, shut, live, notify>>
      /\ life' \in [Conn -> {"upgraded", "registered", "refused", "removed"}]
      /\ \A d \in Conn : shut # "up" /\ life'[d] = "registered" => life[d] = "registered"
  BY DEF Register, Deregister, Inv, TypeOK, dispatchVars, pumpVars, shutVars
<1> QED
  BY <1>1 DEF Inv, TypeOK, Conserved, PumpHolds, PumpEndsClosed, PassCloses, DrainClosesAll

LEMMA EnterInv == ASSUME Inv, NEW c \in Conn, Enter(c) PROVE Inv'
<1>1. Len(log) \in 0..MaxEvents
  BY BoundsNat DEF Inv, TypeOK, Conserved
<1> QED
  BY <1>1
  DEF Enter, Inv, TypeOK, Conserved, PumpHolds, PumpEndsClosed, PassCloses, DrainClosesAll,
       dispatchVars, roomVars, pumpVars, shutVars

LEMMA ExitInv == ASSUME Inv, NEW c \in Conn, Exit(c) PROVE Inv'
<1>1. Len(log) \in 0..MaxEvents
  BY BoundsNat DEF Inv, TypeOK, Conserved
<1> QED
  BY <1>1
  DEF Exit, Inv, TypeOK, Conserved, PumpHolds, PumpEndsClosed, PassCloses, DrainClosesAll,
       dispatchVars, roomVars, pumpVars, shutVars

LEMMA AnswerInv == ASSUME Inv, NEW c \in Conn, Answer(c) PROVE Inv'
<1>1. Answered \in Event \cup Control
  BY DEF Control
<1>2. /\ send' \in [Conn -> Seq(Event \cup Control)]
      /\ \A d \in Conn : Len(send'[d]) <= SendBuffer
      /\ status' \in [Conn -> Status \cup {"open"}]
      /\ \A d \in Conn : status[d] # "open" => status'[d] # "open"
  BY <1>1, SendFrameFits DEF Answer, Inv
<1>3. answers' \in [Conn -> 0..MaxControl]
  BY BoundsNat DEF Answer, Inv, TypeOK
<1> QED
  BY <1>2, <1>3
  DEF Answer, Inv, TypeOK, Conserved, PumpHolds, PumpEndsClosed, PassCloses, DrainClosesAll,
       dispatchVars, roomVars, pumpVars, shutVars

LEMMA EndInv == ASSUME Inv, NEW c \in Conn, End(c) PROVE Inv'
<1>1. /\ status' \in [Conn -> Status \cup {"open"}]
      /\ \A d \in Conn : status[d] # "open" => status'[d] # "open"
      /\ status'[c] # "open"
  BY CloseAsCloses DEF End, Status, Inv, TypeOK
<1> QED
  BY <1>1
  DEF End, Inv, TypeOK, Conserved, PumpHolds, PumpEndsClosed, PassCloses, DrainClosesAll,
       dispatchVars, roomVars, pumpVars, shutVars

LEMMA PumpTakeInv == ASSUME Inv, NEW c \in Conn, PumpTake(c) PROVE Inv'
<1>1. /\ Head(send[c]) \in Event \cup Control
      /\ Tail(send[c]) \in Seq(Event \cup Control)
      /\ Len(Tail(send[c])) <= SendBuffer
  BY BuffersNat DEF PumpTake, Inv, TypeOK
<1>2. Head(send[c]) # None
  BY <1>1 DEF Event, Control, Answered, ShutdownNotice, None
<1>3. TypeOK'
  BY <1>1 DEF PumpTake, Inv, TypeOK, dispatchVars, roomVars, shutVars
<1>4. Conserved' /\ PumpHolds' /\ PumpEndsClosed'
  BY <1>2 DEF PumpTake, Inv, TypeOK, Conserved, PumpHolds, PumpEndsClosed, dispatchVars
<1>5. PassCloses'
  BY DEF PumpTake, Inv, PassCloses, DrainClosesAll, roomVars, shutVars
<1> QED
  BY <1>3, <1>4, <1>5 DEF Inv

LEMMA PumpWroteInv == ASSUME Inv, NEW c \in Conn, PumpWrote(c) PROVE Inv'
<1>1. flight[c] \in Event \cup Control \cup CloseFrame
  BY DEF PumpWrote, Inv, TypeOK, PumpHolds
<1>2. wire' \in [Conn -> Seq(Event \cup Control \cup CloseFrame)]
  BY <1>1, WireKept DEF PumpWrote, Inv, TypeOK
<1> QED
  BY <1>2
  DEF PumpWrote, Inv, TypeOK, Conserved, PumpHolds, PumpEndsClosed, PassCloses, DrainClosesAll,
       dispatchVars, roomVars, pumpVars, shutVars

LEMMA PumpFailedInv == ASSUME Inv, NEW c \in Conn, PumpFailed(c) PROVE Inv'
<1>1. /\ status' \in [Conn -> Status \cup {"open"}]
      /\ \A d \in Conn : status[d] # "open" => status'[d] # "open"
      /\ status'[c] # "open"
  BY CloseAsCloses DEF PumpFailed, Status, Inv, TypeOK
<1> QED
  BY <1>1
  DEF PumpFailed, Inv, TypeOK, Conserved, PumpHolds, PumpEndsClosed, PassCloses, DrainClosesAll,
       dispatchVars, roomVars, pumpVars, shutVars

LEMMA PumpClosedInv == ASSUME Inv, NEW c \in Conn, PumpClosed(c) PROVE Inv'
BY DEF PumpClosed, Inv, TypeOK, Conserved, PumpHolds, PumpEndsClosed, PassCloses, DrainClosesAll,
       dispatchVars, roomVars, pumpVars, shutVars

LEMMA FinishHandshakeInv == ASSUME Inv, NEW c \in Conn, FinishHandshake(c) PROVE Inv'
<1>1. <<"close", status[c]>> \in Event \cup Control \cup CloseFrame
  BY DEF FinishHandshake, CloseFrame, Inv, TypeOK, PumpEndsClosed
<1>2. wire' \in [Conn -> Seq(Event \cup Control \cup CloseFrame)]
  <2>1. CASE UNCHANGED wire
    BY <2>1 DEF Inv, TypeOK
  <2>2. CASE wire' = [wire EXCEPT ![c] = Append(@, <<"close", status[c]>>)]
    BY <1>1, <2>2, WireKept DEF Inv, TypeOK
  <2> QED  BY <2>1, <2>2 DEF FinishHandshake
<1> QED
  BY <1>2
  DEF FinishHandshake, Inv, TypeOK, Conserved, PumpHolds, PumpEndsClosed, PassCloses, DrainClosesAll,
       dispatchVars, roomVars, pumpVars, shutVars

LEMMA ShutdownBeginInv == ASSUME Inv, ShutdownBegin PROVE Inv'
BY DEF ShutdownBegin, Inv, TypeOK, Conserved, PumpHolds, PumpEndsClosed, PassCloses, DrainClosesAll,
       dispatchVars, roomVars, pumpVars, shutVars

LEMMA NotifyShutdownInv == ASSUME Inv, NEW c \in Conn, NotifyShutdown(c) PROVE Inv'
<1>1. ShutdownNotice \in Event \cup Control
  BY DEF Control
<1>2. /\ send' \in [Conn -> Seq(Event \cup Control)]
      /\ \A d \in Conn : Len(send'[d]) <= SendBuffer
      /\ status' \in [Conn -> Status \cup {"open"}]
      /\ \A d \in Conn : status[d] # "open" => status'[d] # "open"
  BY <1>1, SendFrameFits DEF NotifyShutdown, Inv
<1> QED
  BY <1>2
  DEF NotifyShutdown, Inv, TypeOK, Conserved, PumpHolds, PumpEndsClosed, PassCloses, DrainClosesAll,
       dispatchVars, roomVars, pumpVars, shutVars

LEMMA ShutdownPauseInv == ASSUME Inv, ShutdownPause PROVE Inv'
BY DEF ShutdownPause, Inv, TypeOK, Conserved, PumpHolds, PumpEndsClosed, PassCloses, DrainClosesAll,
       dispatchVars, roomVars, pumpVars, shutVars

LEMMA ShutdownCloseInv == ASSUME Inv, NEW c \in Conn, ShutdownClose(c) PROVE Inv'
<1>1. /\ status' \in [Conn -> Status \cup {"open"}]
      /\ \A d \in Conn : status[d] # "open" => status'[d] # "open"
      /\ status'[c] # "open"
  BY CloseAsCloses DEF ShutdownClose, Status, Inv, TypeOK
<1> QED
  BY <1>1
  DEF ShutdownClose, Inv, TypeOK, Conserved, PumpHolds, PumpEndsClosed, PassCloses, DrainClosesAll,
       dispatchVars, roomVars, pumpVars, shutVars

LEMMA ShutdownWaitInv == ASSUME Inv, ShutdownWait PROVE Inv'
BY DEF ShutdownWait, Inv, TypeOK, Conserved, PumpHolds, PumpEndsClosed, PassCloses, DrainClosesAll,
       dispatchVars, roomVars, pumpVars, shutVars

LEMMA ShutdownStopInv == ASSUME Inv, ShutdownStop PROVE Inv'
BY DEF ShutdownStop, Inv, TypeOK, Conserved, PumpHolds, PumpEndsClosed, PassCloses, DrainClosesAll,
       dispatchVars, roomVars, pumpVars, shutVars

LEMMA NextInv == Inv /\ [Next]_vars => Inv'
<1> SUFFICES ASSUME Inv, [Next]_vars PROVE Inv'
  OBVIOUS
<1>1. CASE Arrive \/ ShutdownBegin
  BY <1>1, ArriveInv, ShutdownBeginInv
<1>2. CASE Dispatch
  BY <1>2, ReceiveInv, OfferedInv, DeliveredInv, DispatchEndInv, OfferInv, DropSlowInv
  DEF Dispatch
<1>3. CASE \E c \in Conn : \/ Register(c) \/ Deregister(c) \/ Enter(c) \/ Exit(c)
                           \/ Answer(c) \/ End(c)
  BY <1>3, RegisterInv, EnterInv, ExitInv, AnswerInv, EndInv
<1>4. CASE \E c \in Conn : Pump(c)
  BY <1>4, PumpTakeInv, PumpWroteInv, PumpFailedInv, PumpClosedInv, FinishHandshakeInv
  DEF Pump
<1>5. CASE Shutdown
  BY <1>5, ShutdownPauseInv, ShutdownWaitInv, ShutdownStopInv, NotifyShutdownInv,
     ShutdownCloseInv
  DEF Shutdown
<1>6. CASE UNCHANGED vars
  BY <1>6 DEF vars, Inv, TypeOK, Conserved, PumpHolds, PumpEndsClosed, PassCloses, DrainClosesAll
<1> QED
  BY <1>1, <1>2, <1>3, <1>4, <1>5, <1>6 DEF Next

LEMMA Invariance == Spec => []Inv
BY InitInv, NextInv, PTL DEF Spec

(* Every buffer keeps within its bound and every frame is of its kind: the send
   buffers of hub.go and the broker's channel never overflow, and a close frame names
   the first reason the connection was closed for. *)
THEOREM TypeCorrect == Spec => []TypeOK
BY Invariance, PTL DEF Inv

(* Hub.shutdown closes everybody the hub serves, whoever registers, is dropped, ends or
   fails while it goes through its two passes: a connection that registers behind the
   snapshot is refused. *)
THEOREM DrainCloses == Spec => []DrainClosesAll
BY Invariance, PTL DEF Inv, PassCloses

-----------------------------------------------------------------------------
(* The events among the frames of a sequence.  Events is a fold: what it makes of one *)
(* frame more, and of the beginning of a sequence. *)

Frame == Event \cup Control \cup CloseFrame

\* What Events does with the next frame.
Kept(kept, f) == IF f[1] = "event" THEN Append(kept, f) ELSE kept

\* run is what Events has kept of s after each frame.
KeepsEvents(run, s) ==
    /\ run \in [0..Len(s) -> Seq(Event)]
    /\ run[0] = <<>>
    /\ \A k \in 1..Len(s) : run[k] = Kept(run[k - 1], s[k])
    /\ run[Len(s)] = Events(s)

(* Only an event is tagged as one. *)
LEMMA EventTagged ==
    ASSUME NEW f \in Frame PROVE f[1] = "event" <=> f \in Event
BY DEF Frame, Event, Control, CloseFrame, Answered, ShutdownNotice, Status

(* Only events are kept. *)
LEMMA KeptTyped ==
    ASSUME NEW kept \in Seq(Event), NEW f \in Frame
    PROVE  Kept(kept, f) \in Seq(Event)
BY EventTagged DEF Kept

(* Events takes the frames one by one. *)
LEMMA EventsRun ==
    ASSUME NEW s \in Seq(Frame) PROVE \E run : KeepsEvents(run, s)
<1> DEFINE X == Seq(Event)
           n == Len(s)
           step == [x \in X \X (1..n) |-> Kept(x[1], s[x[2]])]
           Runs(f) == f = [S \in SUBSET (1..n) |->
                             IF S = {} THEN <<>>
                             ELSE Kept(f[S \ {Max(S)}], s[Max(S)])]
           g == CHOOSE f : Runs(f)
<1>1. n \in Nat /\ DOMAIN s = 1..n /\ \A i \in 1..n : s[i] \in Frame
  BY LenProperties, ElementOfSeq
<1>2. Events(s) = g[1..n]
  BY <1>1 DEF Events, FoldLeft, MapThenFoldSet, Kept
<1>3. step \in [X \X (1..n) -> X]
  <2> HIDE DEF X
  <2>1. \A u \in X, i \in 1..n : Kept(u, s[i]) \in X
    BY <1>1, KeptTyped DEF X
  <2> QED  BY <2>1
<1>4. <<>> \in X
  OBVIOUS
<1> HIDE DEF X
<1>5. Runs(g)
  <2>1. PICK f \in [SUBSET (1..n) -> X] : IsFold(f, n, <<>>, step)
    <3> HIDE DEF step, n
    <3> QED  BY <1>1, <1>3, <1>4, FoldExists
  <2>2. ASSUME NEW S \in SUBSET (1..n), S # {}
        PROVE  f[S] = Kept(f[S \ {Max(S)}], s[Max(S)])
    <3>1. Max(S) \in 1..n
      BY <1>1, <2>2, MaxOfIndices
    <3>2. f[S \ {Max(S)}] \in X
      BY <2>1
    <3>3. f[S] = step[<<f[S \ {Max(S)}], Max(S)>>]
      BY <2>1, <2>2 DEF IsFold
    <3> QED  BY <3>1, <3>2, <3>3
  <2>3. f[{}] = <<>>
    BY <2>1 DEF IsFold
  <2>4. Runs(f)
    BY <2>1, <2>2, <2>3
  <2> QED  BY <2>4
<1> HIDE DEF g
<1>6. FoldsWithin(g, X, n, <<>>, step)
  <2>1. ASSUME NEW S \in SUBSET (1..n), S # {}, g[S \ {Max(S)}] \in X
        PROVE  g[S] = step[<<g[S \ {Max(S)}], Max(S)>>]
    <3>1. Max(S) \in 1..n
      BY <1>1, <2>1, MaxOfIndices
    <3>2. g[S] = Kept(g[S \ {Max(S)}], s[Max(S)])
      BY <1>5, <2>1
    <3> QED  BY <2>1, <3>1, <3>2
  <2>2. g[{}] = <<>>
    BY <1>5
  <2> QED  BY <2>1, <2>2 DEF FoldsWithin
<1>7. PICK run \in [0..n -> X] : IsRun(run, n, <<>>, step, g[1..n])
  <2> HIDE DEF step, n
  <2> QED  BY <1>1, <1>3, <1>4, <1>6, FoldPrefixes
<1>8. ASSUME NEW k \in 1..n
      PROVE  run[k] = Kept(run[k - 1], s[k])
  <2>1. k - 1 \in 0..n
    BY <1>1
  <2>2. run[k - 1] \in X
    BY <1>7, <2>1
  <2>3. run[k] = step[<<run[k - 1], k>>]
    BY <1>7 DEF IsRun
  <2> QED  BY <2>2, <2>3
<1>9. KeepsEvents(run, s)
  BY <1>2, <1>7, <1>8 DEF KeepsEvents, IsRun, X
<1> QED  BY <1>9

(* On a prefix, the runs agree. *)
LEMMA RunsAgree ==
    ASSUME NEW s \in Seq(Frame), NEW t \in Seq(Frame), Len(s) <= Len(t),
           \A i \in 1..Len(s) : s[i] = t[i],
           NEW a, KeepsEvents(a, s), NEW b, KeepsEvents(b, t)
    PROVE  \A k \in 0..Len(s) : a[k] = b[k]
<1> DEFINE n == Len(s)
           T == {k \in 0..n : a[k] = b[k]}
<1>1. n \in Nat /\ Len(t) \in Nat
  OBVIOUS
<1>2. 0 \in T
  BY <1>1 DEF KeepsEvents
<1>3. ASSUME NEW k \in 0..(n - 1), k \in T
      PROVE  k + 1 \in T
  <2>1. k + 1 \in 1..n /\ k + 1 \in 1..Len(t) /\ (k + 1) - 1 = k /\ k + 1 \in 0..n
    BY <1>1
  <2>2. a[k + 1] = Kept(a[k], s[k + 1]) /\ b[k + 1] = Kept(b[k], t[k + 1])
    BY <2>1 DEF KeepsEvents
  <2>3. s[k + 1] = t[k + 1] /\ a[k] = b[k]
    BY <1>3, <2>1
  <2> QED  BY <2>1, <2>2, <2>3
<1>4. 0..n \subseteq T
  <2> HIDE DEF n, T
  <2> QED  BY <1>1, <1>2, <1>3, UpTo
<1> QED  BY <1>4

(* There are no events among no frames. *)
LEMMA EventsEmpty == Events(<<>>) = <<>>
<1>1. PICK run : KeepsEvents(run, <<>>)
  <2>1. <<>> \in Seq(Frame)
    OBVIOUS
  <2> QED  BY <2>1, EventsRun
<1> QED  BY <1>1 DEF KeepsEvents

(* A frame added at the end is added to the events if it is one. *)
LEMMA EventsAppend ==
    ASSUME NEW s \in Seq(Frame), NEW f \in Frame
    PROVE  Events(Append(s, f)) = IF f \in Event THEN Append(Events(s), f) ELSE Events(s)
<1> DEFINE t == Append(s, f)
<1>1. /\ t \in Seq(Frame) /\ Len(t) = Len(s) + 1 /\ Len(s) \in Nat
      /\ \A i \in 1..Len(s) : s[i] = t[i]
      /\ t[Len(t)] = f
  OBVIOUS
<1> HIDE DEF t
<1>2. PICK a : KeepsEvents(a, s)
  BY EventsRun
<1>3. PICK b : KeepsEvents(b, t)
  BY <1>1, EventsRun
<1>4. a[Len(s)] = b[Len(s)]
  <2>1. Len(s) <= Len(t) /\ Len(s) \in 0..Len(s)
    BY <1>1
  <2> QED  BY <1>1, <1>2, <1>3, <2>1, RunsAgree
<1>5. b[Len(t)] = Kept(b[Len(s)], f)
  <2>1. Len(t) \in 1..Len(t) /\ Len(t) - 1 = Len(s)
    BY <1>1
  <2> QED  BY <1>1, <1>3, <2>1 DEF KeepsEvents
<1> QED  BY <1>2, <1>3, <1>4, <1>5, EventTagged DEF KeepsEvents, Kept, t

\* p is a beginning of q.
Begins(p, q) == Len(p) <= Len(q) /\ \A i \in 1..Len(p) : p[i] = q[i]

(* The events of a beginning are a beginning of the events. *)
LEMMA EventsBegin ==
    ASSUME NEW s \in Seq(Frame), NEW t \in Seq(Frame), Begins(s, t)
    PROVE  /\ Events(s) \in Seq(Event) /\ Events(t) \in Seq(Event)
           /\ Begins(Events(s), Events(t))
<1>1. PICK a : KeepsEvents(a, s)
  BY EventsRun
<1>2. PICK b : KeepsEvents(b, t)
  BY EventsRun
<1> DEFINE n == Len(s)
           d == Len(t) - Len(s)
           T == {k \in 0..d : Begins(b[n], b[n + k])}
<1>3. n \in Nat /\ d \in Nat /\ n + d = Len(t)
  BY DEF Begins
<1>4. \A k \in 0..d : n + k \in 0..Len(t) /\ b[n + k] \in Seq(Event)
  BY <1>2, <1>3 DEF KeepsEvents
<1>5. 0 \in T
  BY <1>3 DEF Begins
<1>6. ASSUME NEW k \in 0..(d - 1), k \in T
      PROVE  k + 1 \in T
  <2>1. /\ n + (k + 1) \in 1..Len(t) /\ (n + (k + 1)) - 1 = n + k
        /\ k + 1 \in 0..d /\ k \in 0..d
    BY <1>3
  <2>2. b[n + (k + 1)] = Kept(b[n + k], t[n + (k + 1)])
    BY <1>2, <2>1 DEF KeepsEvents
  <2>3. b[n + k] \in Seq(Event) /\ b[n] \in Seq(Event)
    <3>1. n + 0 = n /\ 0 \in 0..d
      BY <1>3
    <3> QED  BY <1>4, <2>1, <3>1
  <2>4. \A e : Begins(b[n + k], Append(b[n + k], e))
    BY <2>3 DEF Begins
  <2>5. Begins(b[n + k], b[n + (k + 1)])
    <3>1. CASE t[n + (k + 1)][1] = "event"
      BY <2>2, <2>4, <3>1 DEF Kept
    <3>2. CASE t[n + (k + 1)][1] # "event"
      BY <2>2, <2>3, <3>2 DEF Kept, Begins
    <3> QED  BY <3>1, <3>2
  <2>6. b[n + (k + 1)] \in Seq(Event)
    BY <1>4, <2>1
  <2>7. Begins(b[n], b[n + k])
    BY <1>6
  <2>8. Begins(b[n], b[n + (k + 1)])
    <3> HIDE DEF n, d, T
    <3> QED  BY <2>3, <2>5, <2>6, <2>7 DEF Begins
  <2> QED  BY <2>1, <2>8
<1>7. 0..d \subseteq T
  <2> HIDE DEF n, d, T
  <2> QED  BY <1>3, <1>5, <1>6, UpTo
<1>8. Begins(b[n], b[Len(t)])
  <2>1. d \in 0..d
    BY <1>3
  <2>2. d \in T
    <3> HIDE DEF n, d, T
    <3> QED  BY <1>7, <2>1
  <2> QED  BY <1>3, <2>2
<1>9. a[n] = b[n]
  <2>1. n \in 0..n /\ Len(s) <= Len(t) /\ \A i \in 1..Len(s) : s[i] = t[i]
    BY <1>3 DEF Begins
  <2> HIDE DEF d, T
  <2> QED  BY <1>1, <1>2, <2>1, RunsAgree
<1>10. a[n] = Events(s) /\ b[Len(t)] = Events(t)
  BY <1>1, <1>2 DEF KeepsEvents
<1>11. a[n] \in Seq(Event) /\ b[Len(t)] \in Seq(Event)
  <2>1. n \in 0..n /\ Len(t) \in 0..Len(t)
    BY <1>3
  <2> QED  BY <1>1, <1>2, <2>1 DEF KeepsEvents
<1> QED  BY <1>8, <1>9, <1>10, <1>11

-----------------------------------------------------------------------------
(* What a connection has accepted: written, being written, or in its buffer. *)

\* The frames whose events Accepted keeps.
Way(c) == wire[c] \o (IF flight[c] = None THEN <<>> ELSE <<flight[c]>>) \o send[c]

(* A frame that moves from the buffer into the pump's hand keeps its place. *)
LEMMA Taken ==
    ASSUME NEW F, NEW w \in Seq(F), NEW s \in Seq(F), s # <<>>
    PROVE  w \o <<Head(s)>> \o Tail(s) = w \o <<>> \o s
OBVIOUS

(* A frame on the wire is where it was in the pump's hand. *)
LEMMA Written ==
    ASSUME NEW F, NEW w \in Seq(F), NEW s \in Seq(F), NEW f \in F
    PROVE  Append(w, f) \o <<>> \o s = w \o <<f>> \o s
OBVIOUS

(* A frame that is queued is the last of all. *)
LEMMA Queued ==
    \A w, h, s \in Seq(Frame), f \in Frame :
        w \o h \o Append(s, f) = Append(w \o h \o s, f)
OBVIOUS

(* What is written goes before what is in the buffer. *)
LEMMA WrittenFirst ==
    ASSUME NEW F, NEW w \in Seq(F), NEW s \in Seq(F), NEW f \in F
    PROVE  Begins(Append(w, f), w \o <<f>> \o s)
BY DEF Begins

(* All of it are frames, and the events among them are events. *)
LEMMA WayTyped ==
    ASSUME TypeOK, NEW c \in Conn
    PROVE  /\ wire[c] \in Seq(Frame) /\ send[c] \in Seq(Frame)
           /\ flight[c] \in Frame \cup {None}
           /\ (IF flight[c] = None THEN <<>> ELSE <<flight[c]>>) \in Seq(Frame)
           /\ Way(c) \in Seq(Frame)
           /\ Accepted(c) = Events(Way(c)) /\ Accepted(c) \in Seq(Event)
<1>1. wire[c] \in Seq(Frame) /\ send[c] \in Seq(Frame)
  <2>1. wire[c] \in Seq(Frame)
    BY DEF TypeOK, Frame
  <2>2. send[c] \in Seq(Event \cup Control) /\ Event \cup Control \subseteq Frame
    BY DEF TypeOK, Frame
  <2>3. send[c] \in Seq(Frame)
    BY <2>2, SeqMonotonic
  <2> QED  BY <2>1, <2>3
<1>2. flight[c] \in Frame \cup {None}
  BY DEF TypeOK, Frame
<1>3. (IF flight[c] = None THEN <<>> ELSE <<flight[c]>>) \in Seq(Frame)
  BY <1>2
<1>4. Way(c) \in Seq(Frame)
  BY <1>1, <1>3, ConcatProperties DEF Way
<1>5. Accepted(c) = Events(Way(c))
  BY DEF Accepted, Way
<1>6. Begins(Way(c), Way(c))
  BY <1>4 DEF Begins
<1> QED  BY <1>1, <1>2, <1>3, <1>4, <1>5, <1>6, EventsBegin

(* trySend adds its frame if it queues it. *)
LEMMA SendAccepts ==
    ASSUME TypeOK, NEW c \in Conn, NEW frame \in Event \cup Control, TrySend(c, frame),
           UNCHANGED <<wire, flight>>, NEW d \in Conn
    PROVE  Accepted(d)' = IF d = c /\ status[c] = "open" /\ Len(send[c]) < SendBuffer
                             /\ frame \in Event
                          THEN Append(Accepted(d), frame) ELSE Accepted(d)
<1>1. CASE d = c /\ status[c] = "open" /\ Len(send[c]) < SendBuffer
  <2>1. frame \in Frame
    BY DEF Frame
  <2>2. send'[d] = Append(send[d], frame) /\ wire'[d] = wire[d] /\ flight'[d] = flight[d]
    BY <1>1 DEF TrySend, TypeOK
  <2>3. Way(d)' = Append(Way(d), frame)
    <3>1. wire[d] \in Seq(Frame) /\ send[d] \in Seq(Frame)
          /\ (IF flight[d] = None THEN <<>> ELSE <<flight[d]>>) \in Seq(Frame)
      BY WayTyped
    <3> DEFINE hand == IF flight[d] = None THEN <<>> ELSE <<flight[d]>>
    <3>2. wire[d] \o hand \o Append(send[d], frame) = Append(wire[d] \o hand \o send[d], frame)
      <4> HIDE DEF hand
      <4>1. hand \in Seq(Frame)
        BY <3>1 DEF hand
      <4> QED  BY <2>1, <3>1, <4>1, Queued, ZenonT(40)
    <3>3. Way(d)' = wire[d] \o hand \o Append(send[d], frame)
      BY <2>2 DEF Way
    <3>4. Way(d) = wire[d] \o hand \o send[d]
      BY DEF Way
    <3> QED  BY <3>2, <3>3, <3>4
  <2>4. Accepted(d)' = Events(Append(Way(d), frame))
    <3>1. Accepted(d)' = Events(Way(d)')
      BY DEF Accepted, Way
    <3> QED  BY <2>3, <3>1
  <2>5. Way(d) \in Seq(Frame) /\ Accepted(d) = Events(Way(d))
    BY WayTyped
  <2> QED  BY <1>1, <2>1, <2>4, <2>5, EventsAppend
<1>2. CASE ~(d = c /\ status[c] = "open" /\ Len(send[c]) < SendBuffer)
  <2>1. send'[d] = send[d]
    BY <1>2 DEF TrySend, TypeOK
  <2> QED  BY <1>2, <2>1 DEF Accepted
<1> QED  BY <1>1, <1>2

(* The pump only moves frames on. *)
LEMMA TakeAccepts ==
    ASSUME TypeOK, NEW c \in Conn, PumpTake(c), flight[c] = None, NEW d \in Conn
    PROVE  Accepted(d)' = Accepted(d)
<1>1. CASE d = c
  <2>1. /\ wire'[c] = wire[c] /\ flight'[c] = Head(send[c]) /\ send'[c] = Tail(send[c])
        /\ send[c] # <<>>
    BY DEF PumpTake, TypeOK
  <2>2. wire[c] \in Seq(Frame) /\ send[c] \in Seq(Frame)
    BY WayTyped
  <2>3. Head(send[c]) # None
    <3>1. Head(send[c]) \in Event \cup Control
      BY <2>1 DEF TypeOK
    <3> QED  BY <3>1 DEF Event, Control, Answered, ShutdownNotice, None
  <2>4. wire[c] \o <<Head(send[c])>> \o Tail(send[c]) = wire[c] \o <<>> \o send[c]
    BY <2>1, <2>2, Taken
  <2> QED  BY <1>1, <2>1, <2>3, <2>4 DEF Accepted
<1>2. CASE d # c
  BY <1>2 DEF PumpTake, Accepted, TypeOK
<1> QED  BY <1>1, <1>2

(* The same of a frame it has written. *)
LEMMA WroteAccepts ==
    ASSUME TypeOK, PumpHolds, NEW c \in Conn, PumpWrote(c), NEW d \in Conn
    PROVE  Accepted(d)' = Accepted(d)
<1>1. CASE d = c
  <2>1. /\ wire'[c] = Append(wire[c], flight[c]) /\ flight'[c] = None /\ send'[c] = send[c]
        /\ flight[c] # None
    BY DEF PumpWrote, PumpHolds, TypeOK
  <2>2. wire[c] \in Seq(Frame) /\ send[c] \in Seq(Frame) /\ flight[c] \in Frame
    BY <2>1, WayTyped
  <2>3. Append(wire[c], flight[c]) \o <<>> \o send[c] = wire[c] \o <<flight[c]>> \o send[c]
    BY <2>2, Written
  <2> QED  BY <1>1, <2>1, <2>3 DEF Accepted
<1>2. CASE d # c
  BY <1>2 DEF PumpWrote, Accepted, TypeOK
<1> QED  BY <1>1, <1>2

-----------------------------------------------------------------------------
(* The invariant. *)

\* What c has accepted are the events of log from its window's beginning on.
InOrder(c) == \A i \in 1..Len(Accepted(c)) : Accepted(c)[i] = log[from[c] + i]

\* How far into the log that brings it.
Reached(c) == from[c] + Len(Accepted(c))

Fed(c) ==
    /\ InOrder(c) /\ Reached(c) <= Len(log)
    /\ place[c] = "away" => Accepted(c) = <<>>
    /\ place[c] = "left" => Reached(c) <= upto[c] /\ upto[c] <= Len(log)
    /\ c \in todo => Reached(c) < Len(log)
    /\ place[c] = "watching" /\ status[c] = "open" /\ c \notin slow
         => Reached(c) + (IF c \in todo THEN 1 ELSE 0) = Len(log)

\* deliver's sets are empty outside the passes that empty them.
Turn ==
    /\ dispatcher # "fan" => todo = {}
    /\ dispatcher \in {"receive", "ended"} => slow = {}
    /\ todo \cap slow = {}
    /\ \A c \in todo : place[c] = "watching"

PumpFree == \A c \in Conn : pump[c] # "writing" => flight[c] = None

AllFed == \A c \in Conn : pump[c] # "done" => Fed(c)

Feeding == Turn /\ PumpFree /\ AllFed

-----------------------------------------------------------------------------
(* The steps. *)

(* A step that logs nothing, and neither accepts a frame for a connection nor moves it,
   leaves it fed. *)
LEMMA StaysFed ==
    ASSUME NEW c \in Conn, Fed(c), Accepted(c)' = Accepted(c), log' = log,
           place'[c] = place[c], from'[c] = from[c], upto'[c] = upto[c],
           c \in todo' <=> c \in todo,
           status'[c] = "open" /\ c \notin slow' => status[c] = "open" /\ c \notin slow
    PROVE  Fed(c)'
BY DEF Fed, InOrder, Reached

(* Of the steps that touch neither the dispatcher nor the rooms. *)
LEMMA AsideFeeds ==
    ASSUME Inv, Feeding, UNCHANGED <<log, dispatchVars, roomVars>>,
           \A c \in Conn : /\ pump'[c] # "done" =>
                                /\ pump[c] # "done" /\ Accepted(c)' = Accepted(c)
                                /\ pump'[c] # "writing" => flight'[c] = None
                           /\ pump'[c] = "done" => flight'[c] = None
                           /\ status'[c] = "open" => status[c] = "open"
    PROVE  Feeding'
<1>1. Turn'
  BY DEF Feeding, Turn, dispatchVars, roomVars
<1>2. PumpFree'
  BY DEF PumpFree
<1>3. ASSUME NEW c \in Conn, pump'[c] # "done"
      PROVE  Fed(c)'
  <2>1. Fed(c) /\ Accepted(c)' = Accepted(c) /\ (status'[c] = "open" => status[c] = "open")
    BY <1>3 DEF Feeding, AllFed
  <2>2. /\ log' = log /\ place' = place /\ from' = from /\ upto' = upto
        /\ todo' = todo /\ slow' = slow
    BY DEF dispatchVars, roomVars
  <2> QED  BY <2>1, <2>2, StaysFed
<1> QED  BY <1>1, <1>2, <1>3 DEF Feeding, AllFed

(* The dispatcher logs an event: every watcher is one behind and to be tried. *)
LEMMA ReceiveFeeds ==
    ASSUME Inv, Feeding, Receive PROVE Feeding'
<1>1. /\ Head(messages) \in Event /\ log' = Append(log, Head(messages))
      /\ log \in Seq(Event) /\ Len(log) \in Nat /\ Len(log') = Len(log) + 1
      /\ \A i \in 1..Len(log) : log'[i] = log[i]
  BY DEF Receive, Inv, TypeOK
<1>2. /\ todo = {} /\ slow = {} /\ dispatcher' = "fan" /\ slow' = slow
      /\ \A c \in Conn : c \in todo' <=> place[c] = "watching"
      /\ todo' \subseteq Conn
      /\ UNCHANGED <<place, from, upto, send, pump, flight, wire, status>>
  BY DEF Receive, Feeding, Turn, roomVars, pumpVars
<1>3. Turn' /\ PumpFree'
  BY <1>2 DEF Feeding, Turn, PumpFree
<1>4. ASSUME NEW c \in Conn, pump'[c] # "done"
      PROVE  Fed(c)'
  <2>1. Fed(c)
    BY <1>2, <1>4 DEF Feeding, AllFed
  <2>2. Accepted(c)' = Accepted(c) /\ Accepted(c) \in Seq(Event)
    BY <1>2, WayTyped DEF Accepted, Inv
  <2>3. /\ from[c] \in Nat /\ upto[c] \in Nat /\ Len(Accepted(c)) \in Nat
        /\ place[c] \in {"away", "watching", "left"}
    BY <2>2 DEF Inv, TypeOK
  <2>4. InOrder(c)'
    <3>1. ASSUME NEW i \in 1..Len(Accepted(c))
          PROVE  Accepted(c)[i] = log'[from[c] + i]
      <4>1. from[c] + i \in 1..Len(log)
        BY <1>1, <2>1, <2>3 DEF Fed, Reached
      <4> QED  BY <1>1, <2>1, <4>1 DEF Fed, InOrder
    <3> QED  BY <1>2, <2>2, <3>1 DEF InOrder
  <2>5. Reached(c)' = Reached(c)
    BY <1>2, <2>2 DEF Reached
  <2>6. Reached(c) \in Nat /\ Reached(c) <= Len(log)
    BY <2>1, <2>3 DEF Fed, Reached
  <2>7. place[c] = "watching" /\ status[c] = "open" => Reached(c) = Len(log)
    <3>1. c \notin todo /\ c \notin slow
      BY <1>2
    <3> QED  BY <2>1, <2>6, <3>1 DEF Fed
  <2>8. Reached(c)' + 1 <= Len(log') /\ (c \in todo' <=> place[c] = "watching")
    BY <1>1, <1>2, <2>5, <2>6
  <2>9. place'[c] = place[c] /\ upto'[c] = upto[c] /\ status'[c] = status[c]
    BY <1>2
  <2>10. place[c] = "left" => Reached(c) <= upto[c] /\ upto[c] <= Len(log)
    BY <2>1 DEF Fed
  <2>11. place[c] = "away" => Accepted(c)' = <<>>
    BY <2>1, <2>2 DEF Fed
  <2> QED  BY <1>1, <2>3, <2>4, <2>5, <2>6, <2>7, <2>8, <2>9, <2>10, <2>11 DEF Fed
<1> QED  BY <1>3, <1>4 DEF Feeding, AllFed

(* A watcher that is tried has the event, or is closing, or is slow. *)
LEMMA OfferFeeds ==
    ASSUME Inv, Feeding, NEW c \in Conn, Offer(c) PROVE Feeding'
<1> DEFINE e == log[Len(log)]
<1>1. /\ c \in todo /\ c \notin slow /\ place[c] = "watching" /\ dispatcher = "fan"
      /\ todo' = todo \ {c} /\ TrySend(c, e)
      /\ slow' = IF Full(c) THEN slow \cup {c} ELSE slow
      /\ UNCHANGED <<log, dispatcher, place, from, upto, pump, flight, wire, status>>
  BY DEF Offer, Feeding, Turn, roomVars, pumpVars
<1>2. log \in Seq(Event) /\ Len(log) \in Nat \ {0} /\ e \in Event
  BY <1>1 DEF Inv, TypeOK, Conserved
<1> HIDE DEF e
<1>3. Turn' /\ PumpFree'
  <2>1. Turn'
    BY <1>1 DEF Feeding, Turn
  <2>2. PumpFree'
    BY <1>1 DEF Feeding, PumpFree
  <2> QED  BY <2>1, <2>2
<1>4. ASSUME NEW d \in Conn
      PROVE  Accepted(d)' = IF d = c /\ status[c] = "open" /\ Len(send[c]) < SendBuffer
                            THEN Append(Accepted(d), e) ELSE Accepted(d)
  <2>1. TypeOK /\ e \in Event \cup Control /\ UNCHANGED <<wire, flight>>
    BY <1>1, <1>2 DEF Inv
  <2> QED  BY <1>1, <1>2, <2>1, SendAccepts
<1>5. ASSUME NEW d \in Conn, pump'[d] # "done", d # c
      PROVE  Fed(d)'
  <2>1. Fed(d)
    BY <1>1, <1>5 DEF Feeding, AllFed
  <2>2. Accepted(d)' = Accepted(d)
    BY <1>4, <1>5
  <2>3. (d \in todo' <=> d \in todo) /\ (d \in slow' <=> d \in slow)
    BY <1>1, <1>5
  <2> QED  BY <1>1, <2>1, <2>2, <2>3, StaysFed
<1>6. ASSUME pump'[c] # "done"
      PROVE  Fed(c)'
  <2>1. Fed(c)
    BY <1>1, <1>6 DEF Feeding, AllFed
  <2>2. /\ from[c] \in Nat /\ upto[c] \in Nat /\ Accepted(c) \in Seq(Event)
        /\ Len(Accepted(c)) \in Nat /\ Len(send[c]) \in Nat /\ Len(send[c]) <= SendBuffer
    <3>1. Accepted(c) \in Seq(Event)
      BY WayTyped DEF Inv
    <3> QED  BY <3>1 DEF Inv, TypeOK
  <2>3. Reached(c) \in Nat /\ Reached(c) < Len(log)
    BY <1>1, <2>1, <2>2 DEF Fed, Reached
  <2>4. CASE status[c] = "open" /\ Len(send[c]) < SendBuffer
    <3>1. Accepted(c)' = Append(Accepted(c), e)
      BY <1>4, <2>4
    <3>2. Reached(c) + 1 = Len(log)
      BY <1>1, <2>1, <2>4 DEF Fed
    <3>3. InOrder(c)'
      <4>1. ASSUME NEW i \in 1..(Len(Accepted(c)) + 1)
            PROVE  Append(Accepted(c), e)[i] = log[from[c] + i]
        <5>1. CASE i = Len(Accepted(c)) + 1
          <6>1. from[c] + i = Len(log)
            BY <2>2, <3>2, <5>1 DEF Reached
          <6> QED  BY <2>2, <5>1, <6>1 DEF e
        <5>2. CASE i # Len(Accepted(c)) + 1
          <6>1. i \in 1..Len(Accepted(c))
            BY <2>2, <5>2
          <6>2. Append(Accepted(c), e)[i] = Accepted(c)[i]
            BY <2>2, <6>1
          <6> QED  BY <2>1, <6>1, <6>2 DEF Fed, InOrder
        <5> QED  BY <5>1, <5>2
      <4>2. Len(Append(Accepted(c), e)) = Len(Accepted(c)) + 1
        BY <2>2
      <4> QED  BY <1>1, <3>1, <4>1, <4>2 DEF InOrder
    <3>4. Reached(c)' = Reached(c) + 1
      <4>1. Len(Append(Accepted(c), e)) = Len(Accepted(c)) + 1
        BY <2>2
      <4>2. Len(Accepted(c)') = Len(Accepted(c)) + 1 /\ from' = from
        BY <1>1, <3>1, <4>1, Zenon
      <4>3. Reached(c)' = from[c] + (Len(Accepted(c)) + 1)
        BY <4>2, Zenon DEF Reached
      <4>4. Reached(c) = from[c] + Len(Accepted(c))
        BY DEF Reached
      <4>5. from[c] \in Nat /\ Len(Accepted(c)) \in Nat
        BY <2>2
      <4> HIDE DEF Reached, Accepted
      <4> QED  BY <4>3, <4>4, <4>5
    <3>5. place'[c] = "watching" /\ c \notin todo' /\ log' = log
      BY <1>1
    <3> QED  BY <2>3, <3>2, <3>3, <3>4, <3>5 DEF Fed
  <2>5. CASE ~(status[c] = "open" /\ Len(send[c]) < SendBuffer)
    <3>1. Accepted(c)' = Accepted(c)
      BY <1>4, <2>5
    <3>2. status'[c] = "open" => c \in slow'
      <4>1. status'[c] = "open" => Full(c)
        BY <1>1, <2>2, <2>5, BuffersNat DEF Full
      <4> QED  BY <1>1, <4>1
    <3>3. place'[c] = "watching" /\ c \notin todo' /\ log' = log /\ from' = from
      BY <1>1
    <3>4. InOrder(c)' /\ Reached(c)' = Reached(c)
      BY <2>1, <3>1, <3>3 DEF Fed, InOrder, Reached
    <3> QED  BY <2>3, <3>2, <3>3, <3>4 DEF Fed
  <2> QED  BY <2>4, <2>5
<1> QED  BY <1>3, <1>5, <1>6 DEF Feeding, AllFed

(* Of the dispatcher's turns. *)
LEMMA TurnFeeds ==
    ASSUME Inv, Feeding, Offered \/ Delivered \/ DispatchEnd PROVE Feeding'
<1>1. /\ UNCHANGED <<log, todo, slow, place, from, upto, send, pump, flight, wire, status>>
      /\ \/ todo = {} /\ dispatcher' = "drop"
         \/ slow = {} /\ dispatcher \in {"drop", "receive"}
  BY DEF Offered, Delivered, DispatchEnd, roomVars, pumpVars, Feeding, Turn
<1>2. Turn' /\ PumpFree'
  BY <1>1 DEF Feeding, Turn, PumpFree
<1>3. ASSUME NEW c \in Conn, pump'[c] # "done"
      PROVE  Fed(c)'
  <2>1. Fed(c) /\ Accepted(c)' = Accepted(c)
    BY <1>1, <1>3 DEF Feeding, AllFed, Accepted
  <2> QED  BY <1>1, <2>1, StaysFed
<1> QED  BY <1>2, <1>3 DEF Feeding, AllFed

(* A slow watcher is closed before deliver forgets it. *)
LEMMA DropSlowFeeds ==
    ASSUME Inv, Feeding, NEW c \in Conn, DropSlow(c) PROVE Feeding'
<1>1. /\ UNCHANGED <<log, dispatcher, todo, place, from, upto, send, pump, flight, wire>>
      /\ dispatcher = "drop" /\ slow' = slow \ {c}
  BY DEF DropSlow, roomVars, pumpVars
<1>2. Turn' /\ PumpFree'
  BY <1>1 DEF Feeding, Turn, PumpFree
<1>3. ASSUME NEW d \in Conn, pump'[d] # "done"
      PROVE  Fed(d)'
  <2>1. Fed(d) /\ Accepted(d)' = Accepted(d)
    BY <1>1, <1>3 DEF Feeding, AllFed, Accepted
  <2>2. status'[c] # "open" /\ (status'[d] = "open" => status[d] = "open")
    BY CloseAsCloses DEF DropSlow, Status, Inv, TypeOK
  <2>3. status'[d] = "open" /\ d \notin slow' => status[d] = "open" /\ d \notin slow
    BY <1>1, <2>2
  <2> QED  BY <1>1, <2>1, <2>3, StaysFed
<1> QED  BY <1>2, <1>3 DEF Feeding, AllFed

(* The hub's own record of its connections says nothing of the log. *)
LEMMA RegisterFeeds ==
    ASSUME Feeding, NEW c \in Conn, Register(c) \/ Deregister(c) PROVE Feeding'
<1>1. UNCHANGED <<log, dispatcher, todo, slow, place, from, upto, send, pump, flight, wire,
                  status>>
  BY DEF Register, Deregister, dispatchVars, pumpVars
<1>2. Turn' /\ PumpFree'
  BY <1>1 DEF Feeding, Turn, PumpFree
<1>3. ASSUME NEW d \in Conn, pump'[d] # "done"
      PROVE  Fed(d)'
  <2>1. Fed(d) /\ Accepted(d)' = Accepted(d)
    BY <1>1, <1>3 DEF Feeding, AllFed, Accepted
  <2> QED  BY <1>1, <2>1, StaysFed
<1> QED  BY <1>2, <1>3 DEF Feeding, AllFed

(* A connection that enters is owed nothing yet. *)
LEMMA EnterFeeds ==
    ASSUME Inv, Feeding, NEW c \in Conn, Enter(c) PROVE Feeding'
<1>1. /\ UNCHANGED <<log, dispatcher, todo, slow, upto, send, pump, flight, wire, status>>
      /\ dispatcher # "fan" /\ todo = {} /\ place[c] = "away"
      /\ place'[c] = "watching" /\ from'[c] = Len(log)
      /\ \A d \in Conn \ {c} : place'[d] = place[d] /\ from'[d] = from[d]
  BY DEF Enter, dispatchVars, pumpVars, Feeding, Turn, Inv, TypeOK
<1>2. Turn' /\ PumpFree'
  BY <1>1 DEF Feeding, Turn, PumpFree
<1>3. ASSUME NEW d \in Conn, pump'[d] # "done"
      PROVE  Fed(d)'
  <2>1. Fed(d) /\ Accepted(d)' = Accepted(d)
    BY <1>1, <1>3 DEF Feeding, AllFed, Accepted
  <2>2. CASE d = c
    <3>1. Accepted(d)' = <<>> /\ Len(log) \in Nat
      BY <1>1, <2>1, <2>2 DEF Fed, Inv, TypeOK
    <3>2. InOrder(d)' /\ Reached(d)' = Len(log)
      BY <1>1, <2>2, <3>1 DEF InOrder, Reached
    <3> QED  BY <1>1, <2>2, <3>1, <3>2 DEF Fed
  <2>3. CASE d # c
    BY <1>1, <2>1, <2>3, StaysFed
  <2> QED  BY <2>2, <2>3
<1> QED  BY <1>2, <1>3 DEF Feeding, AllFed

(* A connection that leaves has nothing from beyond its exit. *)
LEMMA ExitFeeds ==
    ASSUME Inv, Feeding, NEW c \in Conn, Exit(c) PROVE Feeding'
<1>1. /\ UNCHANGED <<log, dispatcher, todo, slow, from, send, pump, flight, wire, status>>
      /\ dispatcher # "fan" /\ todo = {} /\ place[c] = "watching"
      /\ place'[c] = "left" /\ upto'[c] = Len(log)
      /\ \A d \in Conn \ {c} : place'[d] = place[d] /\ upto'[d] = upto[d]
  BY DEF Exit, dispatchVars, pumpVars, Feeding, Turn, Inv, TypeOK
<1>2. Turn' /\ PumpFree'
  BY <1>1 DEF Feeding, Turn, PumpFree
<1>3. ASSUME NEW d \in Conn, pump'[d] # "done"
      PROVE  Fed(d)'
  <2>1. Fed(d) /\ Accepted(d)' = Accepted(d)
    BY <1>1, <1>3 DEF Feeding, AllFed, Accepted
  <2>2. CASE d = c
    <3>1. InOrder(d)' /\ Reached(d)' = Reached(d)
      BY <1>1, <2>1 DEF Fed, InOrder, Reached
    <3>2. Len(log) \in Nat
      BY DEF Inv, TypeOK
    <3> QED  BY <1>1, <2>1, <2>2, <3>1, <3>2 DEF Fed
  <2>3. CASE d # c
    BY <1>1, <2>1, <2>3, StaysFed
  <2> QED  BY <2>2, <2>3
<1> QED  BY <1>2, <1>3 DEF Feeding, AllFed

(* Steps that send a connection an answer or the notice of the drain. *)
LEMMA ControlFeeds ==
    ASSUME Inv, Feeding, NEW c \in Conn, NEW frame \in Control, SendFrame(c, frame),
           UNCHANGED <<log, dispatchVars, roomVars, pumpVars>>
    PROVE  Feeding'
<1>1. frame \notin Event /\ frame \in Event \cup Control
  BY DEF Control, Event, Answered, ShutdownNotice
<1>2. UNCHANGED <<wire, flight>> /\ pump' = pump /\ flight' = flight
  BY DEF pumpVars
<1>3. ASSUME NEW d \in Conn
      PROVE  Accepted(d)' = Accepted(d)
  BY <1>1, <1>2, SendAccepts DEF SendFrame, Inv
<1>4. \A d \in Conn : status'[d] = "open" => status[d] = "open"
  BY <1>1, SendFrameFits DEF Inv
<1>5. \A d \in Conn : pump[d] # "writing" => flight[d] = None
  BY DEF Feeding, PumpFree
<1> QED  BY <1>2, <1>3, <1>4, <1>5, AsideFeeds

(* Steps that close a connection, or do not touch it at all. *)
LEMMA QuietFeeds ==
    ASSUME Inv, Feeding, UNCHANGED <<log, dispatchVars, roomVars, send, pumpVars>>,
           status' = status \/ \E c \in Conn, why \in Status : CloseAs(c, why)
    PROVE  Feeding'
<1>1. UNCHANGED <<wire, flight, send>> /\ pump' = pump /\ flight' = flight
  BY DEF pumpVars
<1>2. \A d \in Conn : Accepted(d)' = Accepted(d)
  BY <1>1 DEF Accepted
<1>3. \A d \in Conn : status'[d] = "open" => status[d] = "open"
  BY CloseAsCloses DEF Inv, TypeOK
<1>4. \A d \in Conn : pump[d] # "writing" => flight[d] = None
  BY DEF Feeding, PumpFree
<1> QED  BY <1>1, <1>2, <1>3, <1>4, AsideFeeds

(* The write pump moves frames on, or ends. *)
LEMMA PumpFeeds ==
    ASSUME Inv, Feeding, NEW c \in Conn, Pump(c) PROVE Feeding'
<1>1. UNCHANGED <<log, dispatchVars, roomVars>> /\ PumpHolds /\ TypeOK
  BY DEF Pump, PumpTake, PumpWrote, PumpFailed, PumpClosed, FinishHandshake, Inv
<1>2. \A d \in Conn : pump[d] # "writing" => flight[d] = None
  BY DEF Feeding, PumpFree
<1>3. CASE PumpTake(c)
  <2>1. /\ \A d \in Conn : Accepted(d)' = Accepted(d)
    BY <1>1, <1>2, <1>3, TakeAccepts DEF PumpTake
  <2>2. /\ pump[c] # "done" /\ pump'[c] = "writing" /\ status' = status
        /\ \A d \in Conn \ {c} : pump'[d] = pump[d] /\ flight'[d] = flight[d]
    BY <1>1, <1>3 DEF PumpTake, TypeOK
  <2> QED  BY <1>1, <1>2, <2>1, <2>2, AsideFeeds
<1>4. CASE PumpWrote(c)
  <2>1. /\ \A d \in Conn : Accepted(d)' = Accepted(d)
    BY <1>1, <1>4, WroteAccepts
  <2>2. /\ pump[c] # "done" /\ flight'[c] = None /\ status' = status
        /\ \A d \in Conn \ {c} : pump'[d] = pump[d] /\ flight'[d] = flight[d]
    BY <1>1, <1>4 DEF PumpWrote, TypeOK
  <2> QED  BY <1>1, <1>2, <2>1, <2>2, AsideFeeds
<1>5. CASE PumpFailed(c)
  <2>1. /\ pump'[c] = "done" /\ flight'[c] = None /\ send' = send /\ wire' = wire
        /\ \A d \in Conn \ {c} : pump'[d] = pump[d] /\ flight'[d] = flight[d]
    BY <1>1, <1>5 DEF PumpFailed, TypeOK
  <2>2. \A d \in Conn \ {c} : Accepted(d)' = Accepted(d)
    BY <2>1 DEF Accepted
  <2>3. \A d \in Conn : status'[d] = "open" => status[d] = "open"
    BY <1>1, <1>5, CloseAsCloses DEF PumpFailed, Status, TypeOK
  <2> QED  BY <1>1, <1>2, <2>1, <2>2, <2>3, AsideFeeds
<1>6. CASE PumpClosed(c)
  <2>1. /\ pump[c] # "done" /\ pump[c] # "writing" /\ UNCHANGED <<flight, wire, send, status>>
        /\ \A d \in Conn \ {c} : pump'[d] = pump[d]
    BY <1>1, <1>6 DEF PumpClosed, TypeOK
  <2>2. \A d \in Conn : Accepted(d)' = Accepted(d)
    BY <2>1 DEF Accepted
  <2> QED  BY <1>1, <1>2, <2>1, <2>2, AsideFeeds
<1>7. CASE FinishHandshake(c)
  <2>1. /\ pump'[c] = "done" /\ pump[c] # "writing" /\ UNCHANGED <<flight, send, status>>
        /\ \A d \in Conn \ {c} : pump'[d] = pump[d] /\ wire'[d] = wire[d]
    BY <1>1, <1>7 DEF FinishHandshake, TypeOK
  <2>2. \A d \in Conn \ {c} : Accepted(d)' = Accepted(d)
    BY <2>1 DEF Accepted
  <2> QED  BY <1>1, <1>2, <2>1, <2>2, AsideFeeds
<1> QED  BY <1>3, <1>4, <1>5, <1>6, <1>7 DEF Pump

LEMMA InitFeeds == Init => Feeding
<1> SUFFICES ASSUME Init PROVE Feeding
  OBVIOUS
<1>1. Turn /\ PumpFree
  BY DEF Init, Turn, PumpFree
<1>2. ASSUME NEW c \in Conn
      PROVE  Fed(c)
  <2>1. /\ log = <<>> /\ from[c] = 0 /\ place[c] = "away" /\ todo = {}
        /\ wire[c] = <<>> /\ flight[c] = None /\ send[c] = <<>>
    BY DEF Init
  <2>2. <<>> \o <<>> \o <<>> = <<>>
    OBVIOUS
  <2>3. Accepted(c) = <<>>
    BY <2>1, <2>2, EventsEmpty, Zenon DEF Accepted
  <2> QED  BY <2>1, <2>3 DEF Fed, InOrder, Reached
<1> QED  BY <1>1, <1>2 DEF Feeding, AllFed

LEMMA NextFeeds == Inv /\ Feeding /\ [Next]_vars => Feeding'
<1> SUFFICES ASSUME Inv, Feeding, [Next]_vars PROVE Feeding'
  OBVIOUS
<1>1. CASE Arrive \/ ShutdownBegin \/ UNCHANGED vars
  BY <1>1, QuietFeeds DEF Arrive, ShutdownBegin, vars, dispatchVars, roomVars, pumpVars
<1>2. CASE Dispatch
  BY <1>2, ReceiveFeeds, TurnFeeds, OfferFeeds, DropSlowFeeds DEF Dispatch
<1>3. ASSUME NEW c \in Conn, \/ Register(c) \/ Deregister(c) \/ Enter(c) \/ Exit(c)
                             \/ Pump(c)
      PROVE  Feeding'
  BY <1>3, RegisterFeeds, EnterFeeds, ExitFeeds, PumpFeeds
<1>4. ASSUME NEW c \in Conn, Answer(c)
      PROVE  Feeding'
  BY <1>4, ControlFeeds DEF Answer, Control
<1>5. ASSUME NEW c \in Conn, End(c)
      PROVE  Feeding'
  BY <1>5, QuietFeeds DEF End, Status
<1>6. CASE ShutdownPause \/ ShutdownWait \/ ShutdownStop
  BY <1>6, QuietFeeds DEF ShutdownPause, ShutdownWait, ShutdownStop
<1>7. ASSUME NEW c \in Conn, NotifyShutdown(c) \/ ShutdownClose(c)
      PROVE  Feeding'
  <2>1. CASE NotifyShutdown(c)
    BY <2>1, ControlFeeds DEF NotifyShutdown, Control
  <2>2. CASE ShutdownClose(c)
    BY <2>2, QuietFeeds DEF ShutdownClose, Status
  <2> QED  BY <1>7, <2>1, <2>2
<1> QED
  BY <1>1, <1>2, <1>3, <1>4, <1>5, <1>6, <1>7 DEF Next, Shutdown

LEMMA FeedInvariance == Spec => [](Inv /\ Feeding)
<1>1. Init => Inv /\ Feeding
  BY InitInv, InitFeeds
<1>2. Inv /\ Feeding /\ [Next]_vars => (Inv /\ Feeding)'
  BY NextInv, NextFeeds
<1> QED  BY <1>1, <1>2, PTL DEF Spec

(* Who is open, tried and not slow has reached the end of the log. *)
LEMMA FeedingLeavesNoGap == Inv /\ Feeding => NoSilentGap
<1> SUFFICES ASSUME Inv, Feeding, NEW c \in Conn,
                    place[c] = "watching", status[c] = "open", c \notin todo \cup slow
             PROVE  Accepted(c) = Window(c)
  BY DEF NoSilentGap
<1>1. Fed(c)
  BY DEF Inv, PumpEndsClosed, Feeding, AllFed
<1>2. Accepted(c) \in Seq(Event) /\ log \in Seq(Event) /\ from[c] \in Nat
  <2>1. Accepted(c) \in Seq(Event)
    BY WayTyped DEF Inv
  <2> QED  BY <2>1 DEF Inv, TypeOK
<1>3. from[c] + Len(Accepted(c)) = Len(log)
  <2>1. Reached(c) \in Nat /\ Reached(c) = from[c] + Len(Accepted(c))
    BY <1>2 DEF Reached
  <2> QED  BY <1>1, <2>1 DEF Fed
<1>4. Window(c) = SubSeq(log, from[c] + 1, Len(log))
  BY DEF Window
<1>5. /\ Window(c) \in Seq(Event)
      /\ Len(Window(c)) = Len(log) - from[c]
      /\ \A i \in 1..(Len(log) - from[c]) : Window(c)[i] = log[from[c] + i]
  <2> DEFINE m == from[c] + 1
             n == Len(log)
  <2>1. /\ m \in 1..(n + 1) /\ n \in Nat /\ m <= n + 1 /\ n - m + 1 = n - from[c]
        /\ \A i \in 1..(n - from[c]) : m + i - 1 = from[c] + i
        /\ \A i \in 1..(n - from[c]) : i \in 1..(n - m + 1)
    <3>1. from[c] \in Nat /\ n \in Nat /\ from[c] <= n
      <4>1. Len(Accepted(c)) \in Nat /\ Len(log) \in Nat
        BY <1>2
      <4> QED  BY <1>2, <1>3, <4>1
    <3> HIDE DEF n
    <3> QED  BY <3>1
  <2>2. /\ SubSeq(log, m, n) \in Seq(Event)
        /\ Len(SubSeq(log, m, n)) = n - m + 1
        /\ \A i \in 1..(n - m + 1) : SubSeq(log, m, n)[i] = log[m + i - 1]
    <3>1. \A i \in m..n : log[i] \in Event
      BY <1>2, <2>1
    <3> HIDE DEF m, n
    <3> QED  BY <2>1, <3>1, SubSeqProperties
  <2>3. Window(c) = SubSeq(log, m, n)
    BY <1>4
  <2> HIDE DEF m, n
  <2> QED  BY <2>1, <2>2, <2>3 DEF n
<1>6. Len(Accepted(c)) = Len(log) - from[c]
  BY <1>2, <1>3
<1>7. \A i \in 1..Len(Accepted(c)) : Accepted(c)[i] = Window(c)[i]
  BY <1>1, <1>5, <1>6 DEF Fed, InOrder
<1> QED  BY <1>2, <1>5, <1>6, <1>7, SeqEqual

(* Hub.deliver skips nobody: a watcher is closed, or about to be, or has accepted every
   event since it entered, in order and once, whatever its buffer, the pump, answers,
   failures and the drain do meanwhile. *)
THEOREM NobodySkipped == Spec => []NoSilentGap
BY FeedInvariance, FeedingLeavesNoGap, PTL

-----------------------------------------------------------------------------
(* Fanout implements RoomFeed.  These are RoomFeed's variables. *)

Stands == [c \in Conn |-> IF pump[c] = "done" THEN "cut" ELSE place[c]]
Since == [c \in Conn |-> IF pump[c] = "done" THEN 0 ELSE from[c]]
Until == [c \in Conn |-> IF pump[c] = "done" THEN 0 ELSE upto[c]]
Got == [c \in Conn |-> Events(wire[c])]

(* The refinement mapping of Promise, by name. *)
LEMMA PromiseVars == Promise!feedVars = <<log, Stands, Since, Until, Got>>
BY DEF Promise!feedVars, Stands, Since, Until, Got

(* A step that logs nothing, moves and ends no connection and writes no event is none
   of RoomFeed's. *)
LEMMA Unseen ==
    ASSUME UNCHANGED <<log, place, from, upto>>,
           \A c \in Conn : (pump'[c] = "done" <=> pump[c] = "done")
                           /\ Events(wire'[c]) = Events(wire[c])
    PROVE  UNCHANGED Promise!feedVars
<1>1. Stands' = Stands /\ Since' = Since /\ Until' = Until /\ Got' = Got
  BY DEF Stands, Since, Until, Got
<1>2. Promise!feedVars' = <<log', Stands', Since', Until', Got'>>
  BY DEF Promise!feedVars, Stands, Since, Until, Got
<1> QED  BY <1>1, <1>2, PromiseVars

(* At first nobody watches and nothing is received. *)
LEMMA InitPromises == Init => Promise!Init
<1> SUFFICES ASSUME Init PROVE Promise!Init
  OBVIOUS
<1>1. /\ log = <<>>
      /\ \A c \in Conn : /\ pump[c] # "done" /\ place[c] = "away" /\ from[c] = 0
                         /\ upto[c] = 0 /\ wire[c] = <<>>
  BY DEF Init
<1>2. \A c \in Conn : Events(wire[c]) = <<>>
  BY <1>1, EventsEmpty
<1> QED  BY <1>1, <1>2 DEF Promise!Init

(* What the dispatcher receives is logged. *)
LEMMA ReceiveLogs ==
    ASSUME Inv, Receive PROVE Promise!Next
<1>1. Head(messages) \in Event /\ log' = Append(log, Head(messages))
      /\ UNCHANGED <<place, from, upto, pump, wire>>
  BY DEF Receive, Inv, TypeOK, roomVars, pumpVars
<1>2. Promise!Log(Head(messages))
  BY <1>1 DEF Promise!Log
<1> QED  BY <1>1, <1>2 DEF Promise!Next

(* Membership is the room's, unless the connection has been cut off. *)
LEMMA EnterEnters ==
    ASSUME Inv, NEW c \in Conn, Enter(c) PROVE [Promise!Next]_Promise!feedVars
<1>1. /\ place[c] = "away" /\ place' = [place EXCEPT ![c] = "watching"]
      /\ from' = [from EXCEPT ![c] = Len(log)]
      /\ UNCHANGED <<log, upto, pump, wire>>
      /\ place \in [Conn -> {"away", "watching", "left"}] /\ from \in [Conn -> 0..MaxEvents]
  BY DEF Enter, Inv, TypeOK, dispatchVars, pumpVars
<1>2. CASE pump[c] = "done"
  <2>1. Stands' = Stands /\ Since' = Since /\ Until' = Until /\ Got' = Got
    BY <1>1, <1>2 DEF Stands, Since, Until, Got
  <2>2. Promise!feedVars' = <<log', Stands', Since', Until', Got'>>
    BY DEF Promise!feedVars, Stands, Since, Until, Got
  <2> QED  BY <1>1, <2>1, <2>2, PromiseVars
<1>3. CASE pump[c] # "done"
  <2>1. Stands[c] = "away" /\ Stands' = [Stands EXCEPT ![c] = "watching"]
    BY <1>1, <1>3 DEF Stands
  <2>2. Since' = [Since EXCEPT ![c] = Len(log)]
    BY <1>1, <1>3 DEF Since
  <2>3. Until' = Until /\ Got' = Got /\ log' = log
    BY <1>1 DEF Until, Got
  <2>4. Promise!Enter(c)
    BY <2>1, <2>2, <2>3 DEF Promise!Enter, Stands, Since, Until, Got
  <2> QED  BY <2>4 DEF Promise!Next
<1> QED  BY <1>2, <1>3

(* So is leaving. *)
LEMMA ExitLeaves ==
    ASSUME Inv, NEW c \in Conn, Exit(c) PROVE [Promise!Next]_Promise!feedVars
<1>1. /\ place[c] = "watching" /\ place' = [place EXCEPT ![c] = "left"]
      /\ upto' = [upto EXCEPT ![c] = Len(log)]
      /\ UNCHANGED <<log, from, pump, wire>>
      /\ place \in [Conn -> {"away", "watching", "left"}] /\ upto \in [Conn -> 0..MaxEvents]
  BY DEF Exit, Inv, TypeOK, dispatchVars, pumpVars
<1>2. CASE pump[c] = "done"
  <2>1. Stands' = Stands /\ Since' = Since /\ Until' = Until /\ Got' = Got
    BY <1>1, <1>2 DEF Stands, Since, Until, Got
  <2>2. Promise!feedVars' = <<log', Stands', Since', Until', Got'>>
    BY DEF Promise!feedVars, Stands, Since, Until, Got
  <2> QED  BY <1>1, <2>1, <2>2, PromiseVars
<1>3. CASE pump[c] # "done"
  <2>1. Stands[c] = "watching" /\ Stands' = [Stands EXCEPT ![c] = "left"]
    BY <1>1, <1>3 DEF Stands
  <2>2. Until' = [Until EXCEPT ![c] = Len(log)]
    BY <1>1, <1>3 DEF Until
  <2>3. Since' = Since /\ Got' = Got /\ log' = log
    BY <1>1 DEF Since, Got
  <2>4. Promise!Leave(c)
    BY <2>1, <2>2, <2>3 DEF Promise!Leave, Stands, Since, Until, Got
  <2> QED  BY <2>4 DEF Promise!Next
<1> QED  BY <1>2, <1>3

(* An event that a socket accepts is the next of the connection's window. *)
LEMMA WroteReceives ==
    ASSUME Inv, Feeding, NEW c \in Conn, PumpWrote(c)
    PROVE  [Promise!Next]_Promise!feedVars
<1>1. /\ pump[c] = "writing" /\ pump'[c] = "select" /\ flight[c] # None
      /\ wire' = [wire EXCEPT ![c] = Append(wire[c], flight[c])]
      /\ wire'[c] = Append(wire[c], flight[c])
      /\ \A d \in Conn \ {c} : pump'[d] = pump[d] /\ wire'[d] = wire[d]
      /\ UNCHANGED <<log, place, from, upto>>
  BY DEF PumpWrote, Inv, TypeOK, PumpHolds, roomVars
<1>2. wire[c] \in Seq(Frame) /\ send[c] \in Seq(Frame) /\ flight[c] \in Frame
  BY <1>1, WayTyped DEF Inv
<1>3. Events(wire'[c]) = IF flight[c] \in Event THEN Append(Events(wire[c]), flight[c])
                         ELSE Events(wire[c])
  BY <1>1, <1>2, EventsAppend
<1>4. CASE flight[c] \notin Event
  <2>1. \A d \in Conn : (pump'[d] = "done" <=> pump[d] = "done")
                        /\ Events(wire'[d]) = Events(wire[d])
    BY <1>1, <1>3, <1>4
  <2> QED  BY <1>1, <2>1, Unseen
<1>5. CASE flight[c] \in Event
  <2> DEFINE g == Events(wire[c])
             next == from[c] + Len(g) + 1
  <2>1. Fed(c)
    BY <1>1 DEF Feeding, AllFed
  <2>2. Begins(Append(g, flight[c]), Accepted(c)) /\ g \in Seq(Event)
    <3>1. Way(c) = wire[c] \o <<flight[c]>> \o send[c]
      BY <1>1 DEF Way
    <3>2. Begins(Append(wire[c], flight[c]), Way(c))
      BY <1>2, <3>1, WrittenFirst
    <3>3. Way(c) \in Seq(Frame) /\ Accepted(c) = Events(Way(c))
      BY WayTyped DEF Inv
    <3>4. Append(wire[c], flight[c]) \in Seq(Frame)
      BY <1>2
    <3>5. Begins(Events(Append(wire[c], flight[c])), Accepted(c))
      BY <3>2, <3>3, <3>4, EventsBegin
    <3>6. Begins(wire[c], wire[c])
      BY <1>2 DEF Begins
    <3>7. g \in Seq(Event)
      BY <1>2, <3>6, EventsBegin
    <3> QED  BY <1>1, <1>3, <1>5, <3>5, <3>7
  <2>3. /\ Len(g) + 1 \in 1..Len(Accepted(c)) /\ Accepted(c)[Len(g) + 1] = flight[c]
        /\ Len(Accepted(c)) \in Nat /\ Len(g) \in Nat /\ from[c] \in Nat
    <3>0. Accepted(c) \in Seq(Event)
      BY WayTyped DEF Inv
    <3>1. Accepted(c) \in Seq(Event) /\ from[c] \in Nat
      BY <3>0 DEF Inv, TypeOK
    <3>2. /\ Len(Append(g, flight[c])) = Len(g) + 1 /\ Len(g) \in Nat
          /\ Append(g, flight[c])[Len(g) + 1] = flight[c]
      BY <2>2
    <3> HIDE DEF g
    <3>3. Len(g) + 1 <= Len(Accepted(c)) /\ Len(Accepted(c)) \in Nat
      BY <2>2, <3>1, <3>2 DEF Begins
    <3>4. Len(g) + 1 \in 1..Len(Append(g, flight[c]))
      BY <3>2
    <3>5. Append(g, flight[c])[Len(g) + 1] = Accepted(c)[Len(g) + 1]
      BY <2>2, <3>4, Zenon DEF Begins
    <3> QED  BY <3>1, <3>2, <3>3, <3>5
  <2>4. flight[c] = log[next] /\ next <= Reached(c) /\ next \in Nat
    <3>1. from[c] + (Len(g) + 1) = next
      BY <2>3
    <3>2. Accepted(c)[Len(g) + 1] = log[from[c] + (Len(g) + 1)]
      BY <2>1, <2>3 DEF Fed, InOrder
    <3> QED  BY <2>3, <3>1, <3>2 DEF Reached
  <2>5. \/ place[c] = "watching" /\ next <= Len(log)
        \/ place[c] = "left" /\ next <= upto[c]
    <3>1. place[c] # "away"
      BY <2>1, <2>3 DEF Fed
    <3>2. Reached(c) \in Nat /\ Len(log) \in Nat /\ upto[c] \in Nat
      BY <2>3 DEF Reached, Inv, TypeOK
    <3>3. place[c] = "watching" \/ place[c] = "left"
      BY <3>1 DEF Inv, TypeOK
    <3> HIDE DEF next
    <3> QED  BY <2>1, <2>4, <3>2, <3>3 DEF Fed
  <2>6. Stands[c] = place[c] /\ Since[c] = from[c] /\ Until[c] = upto[c] /\ Got[c] = g
    BY <1>1 DEF Stands, Since, Until, Got
  <2>7. Stands' = Stands /\ Since' = Since /\ Until' = Until
    BY <1>1 DEF Stands, Since, Until
  <2>8. Got' = [Got EXCEPT ![c] = Append(@, log[Since[c] + Len(Got[c]) + 1])]
    <3>1. Events(wire'[c]) = Append(g, log[next])
      BY <1>3, <1>5, <2>4, Zenon
    <3>2. \A d \in Conn \ {c} : Events(wire'[d]) = Events(wire[d])
      BY <1>1, Zenon
    <3> HIDE DEF g
    <3>3. Got' = [Got EXCEPT ![c] = Append(g, log[next])]
      BY <3>1, <3>2 DEF Got
    <3> QED  BY <2>6, <3>3
  <2> HIDE DEF g
  <2>9. Promise!Receive(c)
    BY <1>1, <2>5, <2>6, <2>7, <2>8 DEF Promise!Receive, Stands, Since, Until, Got
  <2> QED  BY <2>9 DEF Promise!Next
<1> QED  BY <1>4, <1>5

(* A pump that ends cuts its connection off; the close frame is no event. *)
LEMMA EndingCuts ==
    ASSUME Inv, NEW c \in Conn, PumpFailed(c) \/ FinishHandshake(c)
    PROVE  [Promise!Next]_Promise!feedVars
<1>1. /\ pump[c] # "done" /\ pump'[c] = "done"
      /\ \A d \in Conn \ {c} : pump'[d] = pump[d]
      /\ UNCHANGED <<log, place, from, upto>>
      /\ place[c] \in {"away", "watching", "left"}
  BY DEF PumpFailed, FinishHandshake, Inv, TypeOK, roomVars
<1>2. ASSUME NEW d \in Conn
      PROVE  Events(wire'[d]) = Events(wire[d])
  <2>1. CASE wire'[d] = wire[d]
    BY <2>1
  <2>2. CASE d = c /\ FinishHandshake(c) /\ wire'[c] = Append(wire[c], <<"close", status[c]>>)
    <3>1. <<"close", status[c]>> \in Frame /\ <<"close", status[c]>> \notin Event
      BY <2>2 DEF FinishHandshake, Frame, CloseFrame, Event, Inv, TypeOK, PumpEndsClosed
    <3>2. wire[c] \in Seq(Frame)
      BY WayTyped DEF Inv
    <3> QED  BY <2>2, <3>1, <3>2, EventsAppend
  <2> QED  BY <2>1, <2>2 DEF PumpFailed, FinishHandshake, Inv, TypeOK
<1>3. Stands[c] # "cut" /\ Stands' = [Stands EXCEPT ![c] = "cut"]
  BY <1>1 DEF Stands
<1>4. Since' = [Since EXCEPT ![c] = 0] /\ Until' = [Until EXCEPT ![c] = 0]
  BY <1>1 DEF Since, Until
<1>5. Got' = Got /\ log' = log
  BY <1>1, <1>2 DEF Got
<1>6. Promise!Cut(c)
  BY <1>3, <1>4, <1>5 DEF Promise!Cut, Stands, Since, Until, Got
<1> QED  BY <1>6 DEF Promise!Next

(* Every other step is none of the room's. *)
LEMMA NextPromises ==
    ASSUME Inv, Feeding, [Next]_vars PROVE [Promise!Next]_Promise!feedVars
<1>1. CASE UNCHANGED <<log, place, from, upto, pump, wire>>
  BY <1>1, Unseen
<1>2. CASE Receive
  BY <1>2, ReceiveLogs
<1>3. ASSUME NEW c \in Conn, Enter(c) \/ Exit(c) \/ PumpWrote(c) \/ PumpFailed(c)
                             \/ FinishHandshake(c)
      PROVE  [Promise!Next]_Promise!feedVars
  BY <1>3, EnterEnters, ExitLeaves, WroteReceives, EndingCuts
<1>4. ASSUME NEW c \in Conn, PumpTake(c) \/ PumpClosed(c)
      PROVE  UNCHANGED Promise!feedVars
  <2>1. /\ UNCHANGED <<log, place, from, upto, wire>>
        /\ \A d \in Conn : pump'[d] = "done" <=> pump[d] = "done"
    BY <1>4 DEF PumpTake, PumpClosed, Inv, TypeOK, roomVars
  <2> QED  BY <2>1, Unseen
<1>5. CASE Arrive \/ Offered \/ Delivered \/ DispatchEnd \/ ShutdownBegin \/ ShutdownPause
           \/ ShutdownWait \/ ShutdownStop
  BY <1>1, <1>5
  DEF Arrive, Offered, Delivered, DispatchEnd, ShutdownBegin, ShutdownPause, ShutdownWait,
      ShutdownStop, roomVars, pumpVars
<1>6. ASSUME NEW c \in Conn, \/ Register(c) \/ Deregister(c) \/ Offer(c) \/ DropSlow(c)
                             \/ Answer(c) \/ End(c) \/ NotifyShutdown(c) \/ ShutdownClose(c)
      PROVE  [Promise!Next]_Promise!feedVars
  BY <1>1, <1>6
  DEF Register, Deregister, Offer, DropSlow, Answer, End, NotifyShutdown, ShutdownClose, roomVars, pumpVars
<1>7. CASE UNCHANGED vars
  BY <1>1, <1>7 DEF vars
<1> QED
  BY <1>2, <1>3, <1>4, <1>5, <1>6, <1>7 DEF Next, Dispatch, Pump, Shutdown

(* Hub.deliver, the buffers and the write pumps keep the promise of a room: what a
   socket has accepted is always the next event of the connection's window, until the
   connection is cut off, which its pump's end is. *)
THEOREM FanoutKeepsPromise == Spec => KeepsPromise
<1>1. Init => Promise!Init
  BY InitPromises
<1>2. Inv /\ Feeding /\ [Next]_vars => [Promise!Next]_Promise!feedVars
  BY NextPromises
<1> QED  BY <1>1, <1>2, FeedInvariance, PTL DEF Spec, KeepsPromise, Promise!Spec
=============================================================================
