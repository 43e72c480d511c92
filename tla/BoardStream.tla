---------------------------- MODULE BoardStream ----------------------------
(***************************************************************************)
(* One mounted board screen's event stream: BoardStream of                 *)
(* lib/realtime/client.ts with the recovery table of recovery.ts and the   *)
(* frames useBoardLive answers by abandoning the stream, over the relay of *)
(* module Relay and an API that may refuse, close, expire and revoke.      *)
(*                                                                         *)
(* JavaScript runs a callback to its end, so each callback is one action:  *)
(* all the messages of one chunk are dispatched in one step.  How long a   *)
(* retry waits is not modelled.  An AbortController is named by the slot   *)
(* its stream occupies.                                                    *)
(***************************************************************************)
EXTENDS Relay, FiniteSets

CONSTANTS
    MaxEvents,      \* bound: events the API publishes
    MaxFaults,      \* bound: refusals, closes, expiries and failures
    MaxTimers       \* bound: timers of this stream armed at one time

ASSUME BoundsNat == MaxEvents \in Nat /\ MaxFaults \in Nat /\ MaxTimers \in Nat \ {0}

VARIABLES
    cl,         \* the BoardStream object and what the hook keeps beside it
    phase,      \* per slot: what #connect and #read are doing
    cut,        \* per slot: the network between browser and relay has failed, and
                \* neither hears any more what becomes of the other
    renewing,   \* who awaits refreshSession(): #refreshing is renewing # None
    session,    \* the browser's session: the access token, then the refresh token
    access,     \* the API lets this user see the board
    board,      \* "there" or "deleted"
    published,  \* how many events were published
    faults      \* how many things have gone wrong

clientVars == <<cl, phase, renewing>>
worldVars == <<session, access, board, published>>
vars == <<relay, clientVars, cut, worldVars, faults>>

QuietRetries == 1
Timer == 1..MaxTimers
None == 0
ByTimer == MaxSlots + 1     \* the timer's callback, among those who await

TypeOK ==
    /\ relay \in [Slot -> RelayState]
    /\ \A c \in Slot : Buffered(relay[c].body) <= Budget - 1 + FrameWeight + 1
    /\ cl \in [mounted : BOOLEAN, stopped : BOOLEAN,
               status : {"connecting", "live", "reconnecting", "stopped"},
               notice : {"none", "revoked", "problem", "refused", "signedOut"},
               attempt : 0..(QuietRetries + 1),   \* saturates: see Ended
               abort : Slot \cup {None}, aborted : SUBSET Slot,
               timers : [Timer -> {"off", "reconnect", "refresh"}],
               timer : Timer \cup {None},
               seenDeleted : BOOLEAN,
               missed : BOOLEAN]                  \* history: a change not seen
    /\ phase \in [Slot -> {"over", "fetching", "renewing", "reading"}]
    /\ cut \in [Slot -> BOOLEAN]
    /\ renewing \in Slot \cup {None, ByTimer}
    /\ session \in {"fresh", "expired", "over"}
    /\ access \in BOOLEAN
    /\ faults \in 0..MaxFaults
    /\ board \in {"there", "deleted"}
    /\ published \in 0..MaxEvents

-----------------------------------------------------------------------------
(* recovery.ts *)

Reconnect(escalates) ==
    [action |-> "reconnect", notice |-> "none", escalates |-> escalates]
StopWith(notice) == [action |-> "stop", notice |-> notice, escalates |-> FALSE]
SignedOutRecovery == StopWith("signedOut")

RecoveryFor(code) ==
    CASE code = 4001 -> [action |-> "refresh", notice |-> "none", escalates |-> FALSE]
      [] code = 4002 -> Reconnect(TRUE)
      [] code = 4003 -> StopWith("revoked")
      [] code = 1003 -> StopWith("problem")
      [] code = 1001 -> Reconnect(FALSE)
      [] OTHER -> Reconnect(TRUE)

\* recoveryForErrorFrame, in use-board-live.ts.
RecoveryForErrorFrame(kind) ==
    IF kind = "unavailable" THEN Reconnect(TRUE) ELSE StopWith("refused")

-----------------------------------------------------------------------------
(* The methods that run inside a callback, from one client state to the next. *)

\* setTimer: the handle is overwritten, whatever timer it named before.  (At the
\* bound one of the timers stands for two.)
SetTimer(s, action) ==
    LET free == {i \in Timer : s.timers[i] = "off"}
        id == CHOOSE i \in (IF free = {} THEN Timer ELSE free) : TRUE
    IN  [s EXCEPT !.timers[id] = action, !.timer = id]

\* #ended
Ended(s, recovery) ==
    LET attempt == IF recovery.escalates /\ s.attempt <= QuietRetries
                   THEN s.attempt + 1 ELSE s.attempt
        over == [s EXCEPT !.abort = None]
    IN  IF s.stopped THEN over
        ELSE IF recovery.action = "stop"
        THEN [over EXCEPT !.stopped = TRUE, !.status = "stopped",
                          !.notice = recovery.notice]
        ELSE SetTimer([over EXCEPT !.attempt = attempt,
                                   !.status = IF attempt > QuietRetries
                                              THEN "reconnecting" ELSE @],
                      recovery.action)

UnreadEvents(c) ==
    \E i \in DOMAIN relay[c].body :
        relay[c].body[i] \in {Frame("event"), Frame("deleted")}

\* abandon, which the hook calls on the stream it holds while it is mounted.
Abandon(s, recovery) ==
    LET dropped == {s.abort} \cap Slot
    IN  IF ~s.mounted THEN s
        ELSE Ended([s EXCEPT !.abort = None, !.aborted = @ \cup dropped,
                             !.missed = @ \/ \E c \in dropped : UnreadEvents(c)],
                   recovery)

\* Mutant of Subscribed: the status is left as it was.
SubscribedQuietly(s) == [s EXCEPT !.attempt = 0, !.missed = FALSE]

\* The frame `subscribed`: onStatus and onResubscribed, which starts a read.
Subscribed(s) == [s EXCEPT !.attempt = 0, !.status = "live", !.missed = FALSE]

\* #onFrame, and the hook's onFrame for the frames that concern the stream.
OnFrame(s, kind) ==
    CASE kind = "subscribed" -> Subscribed(s)
      [] kind = "deleted" -> [s EXCEPT !.seenDeleted = TRUE]
      [] kind \in {"unavailable", "refused"} -> Abandon(s, RecoveryForErrorFrame(kind))
      [] kind = "unsubscribed" /\ ~s.seenDeleted -> Abandon(s, StopWith("revoked"))
      [] OTHER -> s

\* #dispatch
Dispatch(s, m) ==
    CASE m.t = "frame" -> OnFrame(s, m.kind)
      [] m.t = "closed" -> Ended(s, RecoveryFor(m.code))
      [] OTHER -> s

\* The synchronous loop of #read over the blocks of one chunk.
DispatchAll(s, chunk) == FoldLeft(Dispatch, s, chunk)

-----------------------------------------------------------------------------
(* The callbacks of the client. *)

Free(c) == phase[c] = "over" /\ relay[c].finished
FirstFree == {c \in Slot : Free(c) /\ \A d \in Slot : Free(d) => c <= d}
Gone(c) == c \in cl.aborted \/ cut[c] \/ phase[c] = "over"

\* Mutant of Connect: #connect does not ask whether the stream was stopped.
ConnectAnyway(s) ==
    \E c \in FirstFree :
        /\ cl' = [s EXCEPT !.abort = c, !.aborted = @ \ {c}]
        /\ phase' = [phase EXCEPT ![c] = "fetching"]
        /\ relay' = [relay EXCEPT ![c] = Unused]
        /\ cut' = [cut EXCEPT ![c] = FALSE]

\* #connect, up to the fetch: s is the client's state when it is called.
Connect(s) ==
    IF s.stopped
    THEN cl' = s /\ UNCHANGED <<relay, phase, cut>>
    ELSE \E c \in FirstFree :
        /\ cl' = [s EXCEPT !.abort = c, !.aborted = @ \ {c}]
        /\ phase' = [phase EXCEPT ![c] = "fetching"]
        /\ relay' = [relay EXCEPT ![c] = Unused]
        /\ cut' = [cut EXCEPT ![c] = FALSE]

Happens == faults < MaxFaults /\ faults' = faults + 1

\* The request or the body of slot c is done with.
Over(c) == phase' = [phase EXCEPT ![c] = "over"]
Forget(s, c) == [s EXCEPT !.aborted = @ \ {c}]

\* The fetch is answered: GET of app/api/realtime/boards/[boardId]/route.ts.
StreamOpened(c) ==
    /\ phase[c] = "fetching" /\ ~Gone(c)
    /\ session = "fresh"
    /\ \/ Set(c, Started(FALSE, TRUE)) /\ UNCHANGED faults
       \/ Set(c, Started(FALSE, FALSE)) /\ Happens
    /\ phase' = [phase EXCEPT ![c] = "reading"]
    /\ UNCHANGED <<cl, renewing, cut, worldVars>>

\* 401: the session cookie has gone.  A second refresh is not started.
StreamUnauthorized(c) ==
    /\ phase[c] = "fetching" /\ ~Gone(c)
    /\ session # "fresh"
    /\ IF renewing = None
       THEN /\ renewing' = c
            /\ phase' = [phase EXCEPT ![c] = "renewing"]
            /\ UNCHANGED cl
       ELSE /\ cl' = Ended(cl, Reconnect(TRUE))
            /\ Over(c)
            /\ UNCHANGED renewing
    /\ UNCHANGED <<relay, cut, worldVars, faults>>

\* Another refusal, or the network.
StreamRefused(c) ==
    /\ phase[c] = "fetching" /\ c \notin cl.aborted
    /\ cl' = Ended(cl, Reconnect(TRUE))
    /\ Over(c)
    /\ IF cut[c] THEN UNCHANGED faults ELSE Happens
    /\ UNCHANGED <<relay, renewing, cut, worldVars>>

\* The fetch of an aborted stream rejects; a relay that starts for it stops.
StreamAborted(c) ==
    /\ phase[c] = "fetching" /\ c \in cl.aborted
    /\ cl' = Forget(cl, c)
    /\ Over(c)
    /\ Set(c, Started(TRUE, TRUE))
    /\ UNCHANGED <<renewing, cut, worldVars, faults>>

HasClosed(chunk) == \E code \in Code : Contains(chunk, Closed(code))

\* reader.read() resolves with what has arrived, in one chunk.  The loop goes on
\* to the end of the chunk or a `closed`, even when a frame in it had the hook
\* abandon the stream.
ReadChunk(c) ==
    /\ phase[c] = "reading" /\ ~Gone(c)
    /\ \E n \in 1..Len(relay[c].body) :
        LET body == relay[c].body
            chunk == SubSeq(body, 1, n)
            s == DispatchAll(cl, chunk)
        IN  /\ Set(c, [relay[c] EXCEPT !.body = SubSeq(body, n + 1, Len(body))])
            /\ IF HasClosed(chunk)
               THEN cl' = Forget(s, c) /\ Over(c)
               ELSE cl' = s /\ UNCHANGED phase
    /\ UNCHANGED <<renewing, cut, worldVars, faults>>

\* Mutant of ReadOver: a body that ends without `closed` is not a drop.
ReadOverQuietly(c) ==
    /\ phase[c] = "reading" /\ c \notin cl.aborted
    /\ cut[c] \/ (relay[c].done /\ relay[c].body = <<>>)
    /\ Over(c)
    /\ UNCHANGED <<cl, relay, renewing, cut, worldVars, faults>>

\* reader.read() reports the end, or throws.
ReadOver(c) ==
    /\ phase[c] = "reading" /\ c \notin cl.aborted
    /\ cut[c] \/ (relay[c].done /\ relay[c].body = <<>>)
    /\ cl' = IF cl.stopped THEN cl ELSE Ended(cl, Reconnect(TRUE))
    /\ Over(c)
    /\ UNCHANGED <<relay, renewing, cut, worldVars, faults>>

\* reader.read() of an aborted stream throws.
ReadAborted(c) ==
    /\ phase[c] = "reading" /\ c \in cl.aborted
    /\ cl' = Forget(cl, c)
    /\ Over(c)
    /\ UNCHANGED <<relay, renewing, cut, worldVars, faults>>

\* The callback #ended gave to setTimer.
TimerFired(id) ==
    LET s == [cl EXCEPT !.timers[id] = "off", !.timer = None]
    IN  /\ cl.timers[id] # "off"
        /\ IF cl.timers[id] = "refresh" /\ renewing = None
           THEN /\ cl' = s
                /\ renewing' = ByTimer
                /\ UNCHANGED <<relay, phase, cut>>
           ELSE /\ Connect(s)
                /\ UNCHANGED renewing
        /\ UNCHANGED <<worldVars, faults>>

\* Mutant of RefreshSession: only a renewed session counts as one.
RefreshSessionStrict(ok) ==
    \/ session # "over" /\ session' = "fresh" /\ ok /\ UNCHANGED faults
    \/ session = "over" /\ UNCHANGED session /\ ~ok /\ UNCHANGED faults
    \/ UNCHANGED session /\ ~ok /\ Happens

\* refreshSession of use-board-live.ts: a 401 is false; an API that cannot be
\* reached, and a request that fails, count as renewed.
RefreshSession(ok) ==
    \/ session # "over" /\ session' = "fresh" /\ ok /\ UNCHANGED faults
    \/ session = "over" /\ UNCHANGED session /\ ~ok /\ UNCHANGED faults
    \/ UNCHANGED session /\ ok /\ Happens

\* What follows `await this.#renew()` in #connect.
RenewedStream(c, ok) ==
    /\ cl' = Forget(Ended(cl, IF ok THEN Reconnect(TRUE) ELSE SignedOutRecovery), c)
    /\ Over(c)
    /\ UNCHANGED <<relay, cut>>

\* What follows it in the timer's callback.
RenewedTimer(ok) ==
    IF ok THEN Connect(cl)
    ELSE /\ cl' = [cl EXCEPT !.stopped = TRUE, !.status = "stopped",
                             !.notice = "signedOut"]
         /\ UNCHANGED <<relay, phase, cut>>

Renewed ==
    /\ renewing # None
    /\ renewing' = None
    /\ \E ok \in BOOLEAN :
        /\ RefreshSession(ok)
        /\ \/ renewing = ByTimer /\ RenewedTimer(ok)
           \/ renewing \in Slot /\ RenewedStream(renewing, ok)
    /\ UNCHANGED <<access, board, published>>

\* The effect's cleanup: stop().
Unmount ==
    /\ cl.mounted
    /\ LET dropped == {cl.abort} \cap Slot
           cleared == {cl.timer} \cap Timer
       IN  cl' = [cl EXCEPT !.mounted = FALSE, !.stopped = TRUE, !.timer = None,
                            !.timers = [i \in Timer |->
                                IF i \in cleared THEN "off" ELSE @[i]],
                            !.abort = None, !.aborted = @ \cup dropped]
    /\ UNCHANGED <<relay, phase, renewing, cut, worldVars, faults>>

-----------------------------------------------------------------------------
(* The relay's callbacks, and the API at the other end of its socket. *)

RelayOpened(c) ==
    /\ \/ SocketOpened(c) /\ UNCHANGED faults
       \/ SocketOpenFailed(c) /\ Happens
    /\ UNCHANGED <<clientVars, cut, worldVars>>

\* The abort listener or cancel(): a browser that lets go tells the web server, unless
\* the network between them has failed; then the server may find out, or not.
RelayEnds(c) ==
    /\ Gone(c)
    /\ RequestAborted(c) \/ Cancelled(c)
    /\ UNCHANGED <<clientVars, cut, worldVars, faults>>

\* The comment of one interval.  Behind a network that has failed they pile up.  Else one
\* that fits is read at once, or is in a body about to be given up, and a budget that
\* has been unread for a whole interval counts as a fault.  (Before the subscribe is
\* answered there is no budget to spend, and whether a comment nobody reads is before the
\* answer or behind it makes no difference.)
RelayBeats(c) ==
    /\ relay[c].socket \notin {"dialing", "asked"}
    /\ Heartbeat(c)
    /\ IF cut[c] THEN UNCHANGED faults ELSE OverBudget(relay[c]) /\ Happens
    /\ UNCHANGED <<clientVars, cut, worldVars>>

Visible == access /\ board = "there"

\* The answer to subscribe.
Answer(c) ==
    /\ relay[c].socket = "asked"
    /\ \/ Visible /\ SocketMessage(c, "subscribed", "subscribed") /\ UNCHANGED faults
       \/ ~Visible /\ SocketMessage(c, "refused", "left") /\ UNCHANGED faults
       \/ SocketMessage(c, "unavailable", "left") /\ Happens
    /\ UNCHANGED <<clientVars, cut, worldVars>>

\* The sweep finds that the board no longer resolves for this user.
Sweep(c) ==
    /\ relay[c].socket = "subscribed" /\ ~Visible
    /\ SocketMessage(c, "unsubscribed", "left")
    /\ UNCHANGED <<clientVars, cut, worldVars, faults>>

\* The API closes the socket: a credential or a membership has ended.
ApiEnds(c) ==
    /\ \/ session # "fresh" /\ SocketEnded(c, 4001)
       \/ ~access /\ SocketEnded(c, 4003)
    /\ UNCHANGED <<clientVars, cut, worldVars, faults>>

\* The socket is closed for a reason of its own, or fails.
ApiFails(c) ==
    /\ Happens
    /\ \E code \in {0, 1001, 1006, 4002} : SocketEnded(c, code)
    /\ UNCHANGED <<clientVars, cut, worldVars>>

\* An event reaches every subscribed socket; a relay that is over its budget or
\* finished passes nothing on, and a reader that is gone reads nothing.
Deliver(kind) ==
    LET to == {c \in Slot : relay[c].socket = "subscribed"}
        after(c) == Write(relay[c], Frame(kind))
        seen == {c \in to : /\ Contains(after(c).body, Frame(kind))
                            /\ phase[c] = "reading" /\ ~Gone(c)}
    IN  /\ relay' = [c \in Slot |-> IF c \in to THEN after(c) ELSE relay[c]]
        /\ cl' = [cl EXCEPT !.missed = @ \/ seen = {}]

Publish ==
    /\ board = "there"
    /\ published < MaxEvents
    /\ published' = published + 1
    /\ \/ Deliver("event") /\ UNCHANGED board
       \/ Deliver("deleted") /\ board' = "deleted"
    /\ UNCHANGED <<phase, renewing, cut, session, access, faults>>

TokenExpires ==
    /\ Happens
    /\ session = "fresh"
    /\ session' = "expired"
    /\ UNCHANGED <<relay, clientVars, cut, access, board, published>>

SessionEnds ==
    /\ Happens
    /\ session # "over"
    /\ session' = "over"
    /\ UNCHANGED <<relay, clientVars, cut, access, board, published>>

AccessEnds ==
    /\ Happens
    /\ access
    /\ access' = FALSE
    /\ UNCHANGED <<relay, clientVars, cut, session, board, published>>

\* The network between the browser and the web server fails under one request, before
\* the browser has let go of it or after: what an aborted one left unread was missed then.
Cut(c) ==
    /\ Happens
    /\ ~cut[c]
    /\ phase[c] \in {"fetching", "reading"} \/ (Gone(c) /\ ~relay[c].finished)
    /\ cut' = [cut EXCEPT ![c] = TRUE]
    /\ cl' = [cl EXCEPT !.missed = @ \/ (~Gone(c) /\ UnreadEvents(c))]
    /\ UNCHANGED <<relay, phase, renewing, worldVars>>

-----------------------------------------------------------------------------
\* start(): the status, and the first #connect.
Init ==
    LET c == 1 IN
        /\ relay = [x \in Slot |-> Unused]
        /\ cl = [mounted |-> TRUE, stopped |-> FALSE, status |-> "connecting",
                 notice |-> "none", attempt |-> 0, abort |-> c, aborted |-> {},
                 timers |-> [i \in Timer |-> "off"], timer |-> None,
                 seenDeleted |-> FALSE, missed |-> FALSE]
        /\ phase = [x \in Slot |-> IF x = c THEN "fetching" ELSE "over"]
        /\ cut = [x \in Slot |-> FALSE]
        /\ renewing = None
        /\ session = "fresh"
        /\ access = TRUE
        /\ board = "there"
        /\ published = 0
        /\ faults = 0

ClientStep(c) ==
    \/ StreamOpened(c) \/ StreamUnauthorized(c) \/ StreamRefused(c)
    \/ StreamAborted(c) \/ ReadChunk(c) \/ ReadOver(c) \/ ReadAborted(c)

\* What the web server and the API see to.  They hear of a browser that is gone, but
\* not of one behind a network that has failed: there is only the heartbeat.
ServerStep(c) ==
    \/ RelayOpened(c) \/ Answer(c) \/ Sweep(c) \/ ApiEnds(c)
    \/ ~cut[c] /\ RelayEnds(c)
    \/ cut[c] /\ RelayBeats(c)

Next ==
    \/ \E c \in Slot : \/ ClientStep(c) \/ ServerStep(c) \/ RelayBeats(c)
                       \/ RelayEnds(c) \/ ApiFails(c) \/ Cut(c)
    \/ \E id \in Timer : TimerFired(id)
    \/ Renewed \/ Unmount \/ Publish
    \/ TokenExpires \/ SessionEnds \/ AccessEnds

Spec == Init /\ [][Next]_vars

\* Timers fire, requests and promises settle, servers answer and intervals go on.
\* Nothing obliges a change, a fault, a slow reader or the user.
Fairness ==
    /\ \A c \in Slot : WF_vars(ClientStep(c)) /\ WF_vars(ServerStep(c))
    /\ \A id \in Timer : WF_vars(TimerFired(id))
    /\ WF_vars(Renewed)

FairSpec == Spec /\ Fairness

-----------------------------------------------------------------------------
(* Something will still happen on slot c that reads the board again, or ends the
   stream. *)
Owed(c) ==
    /\ phase[c] = "reading" /\ c \notin cl.aborted
    /\ \/ cut[c] \/ relay[c].done \/ relay[c].socket \in {"dialing", "asked"}
       \/ \E kind \in FrameKind \ {"event", "deleted"} :
            Contains(relay[c].body, Frame(kind))

(* A change this screen did not see is never simply lost: as long as the stream
   is not stopped, a timer, a request, a refresh, an unread message or an end of
   the stream that has not been noticed leads to the next `subscribed`, which
   reads the board again (client.ts, "the one rule this class exists to
   enforce"). *)
MissedIsOwed ==
    cl.missed /\ ~cl.stopped =>
        \/ \E id \in Timer : cl.timers[id] # "off"
        \/ renewing # None
        \/ \E c \in Slot : phase[c] = "fetching" \/ Owed(c)

(* "Your session ended" is said only of a session that has: an expired access
   token, an unreachable API and a refresh that failed never say it. *)
SignedOutIsOver == cl.notice = "signedOut" => session = "over"

(* stop() is permanent: no timer left over and no refresh that was in flight
   opens another stream. *)
StoppedStaysStopped ==
    [][cl.stopped => \A c \in Slot : phase'[c] = "fetching" => phase[c] = "fetching"]_vars

Listening ==
    /\ cl.status = "live" /\ ~cl.missed
    /\ \E c \in Slot : phase[c] = "reading" /\ ~Gone(c) /\ relay[c].socket = "subscribed"

(* When nothing fails any more, the screen ends up listening to a board it has
   read since its last gap, or it has been told that it will not. *)
SettlesLive == <>[](cl.stopped \/ cl.seenDeleted \/ Listening)

(* The web server does not keep a socket for ever for a browser that is gone: not for one
   it is not told of either, because nobody reads the comments and in the end they
   spend the budget (relay.ts:193-205, 364). *)
GoneReleases == \A c \in Slot : (Gone(c) /\ ~relay[c].finished) ~> relay[c].finished
=============================================================================
