-------------------------------- MODULE Hub --------------------------------
(***************************************************************************)
(* One process's WebSocket hub (apps/api/internal/realtime/hub.go) and the *)
(* subscription side of its connections (conn.go): who is in which room,   *)
(* the reference counts that drive the broker, and what each client has    *)
(* been told.                                                              *)
(*                                                                         *)
(* Every connection runs three sequential activities.  "serve" is          *)
(* Conn.serve: it registers, waits, and removes.  "read" is readPump, the  *)
(* only one that joins.  "maint" is maintain with its re-authorization     *)
(* sweep.  A step of the model is a stretch of Go that holds one mutex or  *)
(* touches one shared variable; everything between two steps may           *)
(* interleave.  hub.mu and conn.roomsMu are never held across a call that  *)
(* blocks, so their critical sections are single steps; subMu is held      *)
(* across Broker.Subscribe and is a variable.                              *)
(*                                                                         *)
(* Broker is used by its contract.  Its commands travel in order on one    *)
(* connection, so `channels', the rooms the commands written so far leave  *)
(* subscribed (and go-redis re-subscribes after a reconnect), changes when *)
(* a command is written.  Message fan-out is in module Fanout.             *)
(***************************************************************************)
EXTENDS Naturals, FiniteSets

CONSTANTS
    Conn,                   \* the connections that ever reach this process
    Room,                   \* the (tenant, board) rooms they can name
    MaxRoomsPerConnection,  \* HubConfig.MaxRoomsPerConnection
    DrainDeadline,          \* may shutdown's context expire before the drain ends?
    Resubscribes,           \* may a client name a board again on one connection?
    Regrants,               \* bound: how often a missing access may be granted
    Free                    \* subMu is not held

ASSUME ConnFinite == IsFiniteSet(Conn)
ASSUME RoomNonEmpty == Room # {}
ASSUME MaxRoomsNat == MaxRoomsPerConnection \in Nat \ {0}
ASSUME RegrantsNat == Regrants \in Nat
ASSUME SwitchesBool == DrainDeadline \in BOOLEAN /\ Resubscribes \in BOOLEAN

Role == {"serve", "read", "maint"}
Proc == Conn \X Role
ASSUME FreeIsNoProc == Free \notin Proc

VARIABLES
    closing,    \* Hub.closing
    conns,      \* Hub.conns
    rooms,      \* Hub.rooms: room -> members
    subs,       \* Hub.subs: room -> reference count (0 = no entry)
    subMu,      \* the goroutine holding Hub.subMu, or Free
    held,       \* Conn.rooms
    closed,     \* connections whose `closed' channel is closed
    told,       \* the last subscription frame queued for (conn, room)
    channels,   \* rooms the broker's command stream leaves subscribed
    access,     \* environment: what the Authorizer would answer yes to
    named,      \* environment: the boards a client has subscribed to so far
    grants,     \* how many of the Regrants are used up
    shut,       \* progress of Hub.shutdown
    live,       \* the connections shutdown snapshotted
    pc,         \* what each goroutine does next
    at,         \* the room that goroutine is working on
    todo        \* the rest of the roomList() snapshot it is walking

hubVars  == <<closing, conns, rooms, subs, subMu, channels>>
connVars == <<held, closed, told>>
procVars == <<pc, at, todo>>
envVars == <<access, named, grants>>
shutVars == <<shut, live>>
vars == <<closing, conns, rooms, subs, subMu, held, closed, told, channels,
          access, named, grants, shut, live, pc, at, todo>>

PC == {"off", "new", "serving", "cleanup", "finished",          \* serve
       "reading", "authorize", "join", "joinLock", "joinAck",   \* read
       "joinAdd", "remember", "acknowledge",
       "idle", "sweep",                                         \* maint
       "leave", "release", "unsub", "forget", "tell", "done"}   \* shared

Owner(p) == p[1]
Goto(p, label) == pc' = [pc EXCEPT ![p] = label]

(***************************************************************************)
(* sendFrame/trySend as far as subscriptions go: a frame for a connection  *)
(* that is already closing is discarded, any other is the client's newest  *)
(* word on that room.  (A full buffer closes the connection: CloseConn.)   *)
(***************************************************************************)
Tell(c, r, what) ==
    told' = IF c \in closed THEN told ELSE [told EXCEPT ![c][r] = what]

TypeOK ==
    /\ closing \in BOOLEAN
    /\ conns \in SUBSET Conn
    /\ rooms \in [Room -> SUBSET Conn]
    /\ subs \in [Room -> Nat]
    /\ subMu \in Proc \cup {Free}
    /\ held \in [Conn -> SUBSET Room]
    /\ closed \in SUBSET Conn
    /\ told \in [Conn -> [Room -> {"none", "subscribed", "unsubscribed"}]]
    /\ channels \in SUBSET Room
    /\ access \in [Conn -> SUBSET Room]
    /\ named \in [Conn -> SUBSET Room]
    /\ grants \in 0..Regrants
    /\ shut \in {"up", "draining", "waiting", "stopped"}
    /\ live \in SUBSET Conn
    /\ pc \in [Proc -> PC]
    /\ at \in [Proc -> Room]
    /\ todo \in [Proc -> SUBSET Room]

Init ==
    /\ closing = FALSE
    /\ conns = {}
    /\ rooms = [r \in Room |-> {}]
    /\ subs = [r \in Room |-> 0]
    /\ subMu = Free
    /\ held = [c \in Conn |-> {}]
    /\ closed = {}
    /\ told = [c \in Conn |-> [r \in Room |-> "none"]]
    /\ channels = {}
    /\ access \in [Conn -> SUBSET Room]
    /\ named = [c \in Conn |-> {}]
    /\ grants = 0
    /\ shut = "up"
    /\ live = {}
    /\ pc = [p \in Proc |-> IF p[2] = "serve" THEN "new" ELSE "off"]
    /\ at = [p \in Proc |-> CHOOSE r \in Room : TRUE]
    /\ todo = [p \in Proc |-> {}]

-----------------------------------------------------------------------------
(* Conn.serve: register, then the deferred remove. *)

Register(c) ==
    /\ pc[<<c, "serve">>] = "new"
    /\ IF closing
       THEN /\ Goto(<<c, "serve">>, "finished")
            /\ UNCHANGED conns
       ELSE /\ conns' = conns \cup {c}
            /\ pc' = [pc EXCEPT ![<<c, "serve">>] = "serving",
                                ![<<c, "read">>]  = "reading",
                                ![<<c, "maint">>] = "idle"]
    /\ UNCHANGED <<closing, rooms, subs, subMu, channels, connVars, envVars,
                   shutVars, at, todo>>

\* Mutant of BeginRemove: removes the connection but leaves none of its rooms.
BeginRemoveNothing(c) ==
    /\ pc[<<c, "serve">>] = "serving"
    /\ pc[<<c, "read">>] = "done"
    /\ pc[<<c, "maint">>] = "done"
    /\ Goto(<<c, "serve">>, "cleanup")
    /\ todo' = [todo EXCEPT ![<<c, "serve">>] = {}]
    /\ UNCHANGED <<hubVars, connVars, envVars, shutVars, at>>

\* wg.Wait returned; hub.remove starts with a snapshot of the held rooms.
BeginRemove(c) ==
    /\ pc[<<c, "serve">>] = "serving"
    /\ pc[<<c, "read">>] = "done"
    /\ pc[<<c, "maint">>] = "done"
    /\ Goto(<<c, "serve">>, "cleanup")
    /\ todo' = [todo EXCEPT ![<<c, "serve">>] = held[c]]
    /\ UNCHANGED <<hubVars, connVars, envVars, shutVars, at>>

RemoveNext(c, r) ==
    /\ pc[<<c, "serve">>] = "cleanup"
    /\ r \in todo[<<c, "serve">>]
    /\ Goto(<<c, "serve">>, "leave")
    /\ at' = [at EXCEPT ![<<c, "serve">>] = r]
    /\ todo' = [todo EXCEPT ![<<c, "serve">>] = @ \ {r}]
    /\ UNCHANGED <<hubVars, connVars, envVars, shutVars>>

EndRemove(c) ==
    /\ pc[<<c, "serve">>] = "cleanup"
    /\ todo[<<c, "serve">>] = {}
    /\ held' = [held EXCEPT ![c] = {}]
    /\ conns' = conns \ {c}
    /\ Goto(<<c, "serve">>, "finished")
    /\ UNCHANGED <<closing, rooms, subs, subMu, channels, closed, told, envVars,
                   shutVars, at, todo>>

-----------------------------------------------------------------------------
(* Conn.readPump and handleSubscribe, with Hub.join inlined. *)

\* Only this goroutine adds to `held', so testing holdsRoom and roomCount in
\* one step admits the same outcomes as testing them one after the other.
ReadSubscribe(c, r) ==
    /\ pc[<<c, "read">>] = "reading"
    /\ Resubscribes \/ r \notin named[c]
    /\ named' = [named EXCEPT ![c] = @ \cup {r}]
    /\ \/ /\ r \in held[c]
          /\ Tell(c, r, "subscribed")
          /\ UNCHANGED <<pc, at>>
       \/ /\ r \notin held[c]
          /\ Cardinality(held[c]) < MaxRoomsPerConnection
          /\ Goto(<<c, "read">>, "authorize")
          /\ at' = [at EXCEPT ![<<c, "read">>] = r]
          /\ UNCHANGED told
    /\ UNCHANGED <<hubVars, held, closed, access, grants, shutVars, todo>>

\* authorizeBoard said yes.
SubscribeAllowed(c) ==
    LET p == <<c, "read">> IN
    /\ pc[p] = "authorize"
    /\ at[p] \in access[c]
    /\ Goto(p, "join")
    /\ UNCHANGED <<hubVars, connVars, envVars, shutVars, at, todo>>

\* It said no, or could not say: refuseSubscription, an error frame.
SubscribeRefused(c) ==
    LET p == <<c, "read">> IN
    /\ pc[p] = "authorize"
    /\ Goto(p, "reading")
    /\ UNCHANGED <<hubVars, connVars, envVars, shutVars, at, todo>>

\* The closing check at the top of Hub.join.
JoinCheck(c) ==
    LET p == <<c, "read">> IN
    /\ pc[p] = "join"
    /\ Goto(p, IF closing THEN "reading" ELSE "joinLock")
    /\ UNCHANGED <<hubVars, connVars, envVars, shutVars, at, todo>>

\* subMu is taken and the room already has a count: no broker call.
JoinCounted(c) ==
    LET p == <<c, "read">>
        r == at[p] IN
    /\ pc[p] = "joinLock"
    /\ subMu = Free
    /\ subs[r] # 0
    /\ subs' = [subs EXCEPT ![r] = @ + 1]
    /\ Goto(p, "joinAdd")
    /\ UNCHANGED <<closing, conns, rooms, subMu, channels, connVars, envVars,
                   shutVars, at, todo>>

\* subMu is taken for a room with no count: the SUBSCRIBE is written and subMu
\* stays held until Broker.Subscribe returns.  A closed broker refuses at once.
JoinFirst(c) ==
    LET p == <<c, "read">>
        r == at[p] IN
    /\ pc[p] = "joinLock"
    /\ subMu = Free
    /\ subs[r] = 0
    /\ IF shut = "stopped"
       THEN /\ Goto(p, "reading")
            /\ UNCHANGED <<subMu, channels>>
       ELSE /\ subMu' = p
            /\ channels' = channels \cup {r}
            /\ Goto(p, "joinAck")
    /\ UNCHANGED <<closing, conns, rooms, subs, connVars, envVars, shutVars, at,
                   todo>>

\* Mutant of JoinAck: counts the wrong way.
JoinAckDown(c) ==
    LET p == <<c, "read">> IN
    /\ pc[p] = "joinAck"
    /\ subs' = [subs EXCEPT ![at[p]] = @ - 1]
    /\ subMu' = Free
    /\ Goto(p, "joinAdd")
    /\ UNCHANGED <<closing, conns, rooms, channels, connVars, envVars, shutVars,
                   at, todo>>

\* Subscribe returned nil.
JoinAck(c) ==
    LET p == <<c, "read">> IN
    /\ pc[p] = "joinAck"
    /\ subs' = [subs EXCEPT ![at[p]] = @ + 1]
    /\ subMu' = Free
    /\ Goto(p, "joinAdd")
    /\ UNCHANGED <<closing, conns, rooms, channels, connVars, envVars, shutVars,
                   at, todo>>

\* Mutant of JoinFail: counts a subscription the broker refused.
JoinFailCounted(c) ==
    LET p == <<c, "read">> IN
    /\ pc[p] = "joinAck"
    /\ subMu' = Free
    /\ Goto(p, "reading")
    /\ subs' = [subs EXCEPT ![at[p]] = @ + 1]
    /\ UNCHANGED <<closing, conns, rooms, channels, connVars, envVars,
                   shutVars, at, todo>>

\* Subscribe returned an error (write failed, context done, broker closed):
\* nothing is counted and the client gets an error frame.
JoinFail(c) ==
    LET p == <<c, "read">> IN
    /\ pc[p] = "joinAck"
    /\ subMu' = Free
    /\ Goto(p, "reading")
    /\ UNCHANGED <<closing, conns, rooms, subs, channels, connVars, envVars,
                   shutVars, at, todo>>

JoinAdd(c) ==
    LET p == <<c, "read">> IN
    /\ pc[p] = "joinAdd"
    /\ rooms' = [rooms EXCEPT ![at[p]] = @ \cup {c}]
    /\ Goto(p, "remember")
    /\ UNCHANGED <<closing, conns, subs, subMu, channels, connVars, envVars,
                   shutVars, at, todo>>

RememberRoom(c) ==
    LET p == <<c, "read">> IN
    /\ pc[p] = "remember"
    /\ held' = [held EXCEPT ![c] = @ \cup {at[p]}]
    /\ Goto(p, "acknowledge")
    /\ UNCHANGED <<hubVars, closed, told, envVars, shutVars, at, todo>>

Acknowledge(c) ==
    LET p == <<c, "read">> IN
    /\ pc[p] = "acknowledge"
    /\ Tell(c, at[p], "subscribed")
    /\ Goto(p, "reading")
    /\ UNCHANGED <<hubVars, held, closed, envVars, shutVars, at, todo>>

ReadUnsubscribe(c, r) ==
    /\ pc[<<c, "read">>] = "reading"
    /\ Goto(<<c, "read">>, "leave")
    /\ at' = [at EXCEPT ![<<c, "read">>] = r]
    /\ UNCHANGED <<hubVars, connVars, envVars, shutVars, todo>>

\* Read failed (peer gone, socket closed by our own handshake) or the peer sent
\* something that is not this protocol; readPump returns and serve closes.
ReadEnd(c) ==
    /\ pc[<<c, "read">>] = "reading"
    /\ closed' = closed \cup {c}
    /\ Goto(<<c, "read">>, "done")
    /\ UNCHANGED <<hubVars, held, told, envVars, shutVars, at, todo>>

-----------------------------------------------------------------------------
(* Hub.leave, run by any of the three activities. *)

AfterLeave(p) == IF p[2] = "serve" THEN "cleanup" ELSE "forget"

\* Mutant of Leave: no early return for a room the connection is not in.
LeaveUncounted(p) ==
    LET c == Owner(p)
        r == at[p] IN
    /\ pc[p] = "leave"
    /\ rooms' = [rooms EXCEPT ![r] = @ \ {c}]
    /\ Goto(p, "release")
    /\ UNCHANGED <<closing, conns, subs, subMu, channels, connVars, envVars,
                   shutVars, at, todo>>

\* mu: drop the membership, or return early when there is none.
Leave(p) ==
    LET c == Owner(p)
        r == at[p] IN
    /\ pc[p] = "leave"
    /\ rooms' = [rooms EXCEPT ![r] = @ \ {c}]
    /\ Goto(p, IF c \in rooms[r] THEN "release" ELSE AfterLeave(p))
    /\ UNCHANGED <<closing, conns, subs, subMu, channels, connVars, envVars,
                   shutVars, at, todo>>

\* subMu: drop the reference; the decision to unsubscribe is taken here and
\* subMu is released before it is acted on.
Release(p) ==
    LET r == at[p]
        left == subs[r] - 1 IN
    /\ pc[p] = "release"
    /\ subMu = Free
    /\ subs' = [subs EXCEPT ![r] = IF left <= 0 THEN 0 ELSE left]
    /\ Goto(p, IF left <= 0 THEN "unsub" ELSE AfterLeave(p))
    /\ UNCHANGED <<closing, conns, rooms, subMu, channels, connVars, envVars,
                   shutVars, at, todo>>

\* Broker.Unsubscribe, outside every lock; it does not wait and its error is
\* only logged.
Unsubscribe(p) ==
    /\ pc[p] = "unsub"
    /\ channels' = channels \ {at[p]}
    /\ Goto(p, AfterLeave(p))
    /\ UNCHANGED <<closing, conns, rooms, subs, subMu, connVars, envVars,
                   shutVars, at, todo>>

\* handleUnsubscribe and the sweep: forgetRoom, then the frame.
ForgetRoom(p) ==
    LET c == Owner(p) IN
    /\ pc[p] = "forget"
    /\ held' = [held EXCEPT ![c] = @ \ {at[p]}]
    /\ Goto(p, "tell")
    /\ UNCHANGED <<hubVars, closed, told, envVars, shutVars, at, todo>>

TellUnsubscribed(p) ==
    /\ pc[p] = "tell"
    /\ Tell(Owner(p), at[p], "unsubscribed")
    /\ Goto(p, IF p[2] = "read" THEN "reading" ELSE "sweep")
    /\ UNCHANGED <<hubVars, held, closed, envVars, shutVars, at, todo>>

-----------------------------------------------------------------------------
(* Conn.maintain. *)

\* Token expiry, a missing pong or a revoked membership close the connection.
MaintainClose(c) ==
    /\ pc[<<c, "maint">>] = "idle"
    /\ closed' = closed \cup {c}
    /\ Goto(<<c, "maint">>, "done")
    /\ UNCHANGED <<hubVars, held, told, envVars, shutVars, at, todo>>

\* Mutant of MaintainEnd: maintain does not watch the closed channel.
MaintainEndNever(c) ==
    /\ pc[<<c, "maint">>] = "idle"
    /\ FALSE
    /\ Goto(<<c, "maint">>, "done")
    /\ UNCHANGED <<hubVars, connVars, envVars, shutVars, at, todo>>

MaintainEnd(c) ==
    /\ pc[<<c, "maint">>] = "idle"
    /\ c \in closed
    /\ Goto(<<c, "maint">>, "done")
    /\ UNCHANGED <<hubVars, connVars, envVars, shutVars, at, todo>>

\* reauthorize: still a member, so walk a snapshot of the held rooms.
Reauthorize(c) ==
    LET p == <<c, "maint">> IN
    /\ pc[p] = "idle"
    /\ held[c] # {}
    /\ todo' = [todo EXCEPT ![p] = held[c]]
    /\ Goto(p, "sweep")
    /\ UNCHANGED <<hubVars, connVars, envVars, shutVars, at>>

\* authorizeBoard says yes, or cannot say: the subscription is left alone.
SweepKeep(c, r) ==
    LET p == <<c, "maint">> IN
    /\ pc[p] = "sweep"
    /\ r \in todo[p]
    /\ todo' = [todo EXCEPT ![p] = @ \ {r}]
    /\ UNCHANGED <<hubVars, connVars, envVars, shutVars, pc, at>>

\* Mutant of SweepRevoke: forgets the room without leaving it.
SweepRevokeForgets(c, r) ==
    LET p == <<c, "maint">> IN
    /\ pc[p] = "sweep"
    /\ r \in todo[p]
    /\ r \notin access[c]
    /\ todo' = [todo EXCEPT ![p] = @ \ {r}]
    /\ at' = [at EXCEPT ![p] = r]
    /\ Goto(p, "forget")
    /\ UNCHANGED <<hubVars, connVars, envVars, shutVars>>

\* authorizeBoard says ErrForbidden: leave, forgetRoom, unsubscribed frame.
SweepRevoke(c, r) ==
    LET p == <<c, "maint">> IN
    /\ pc[p] = "sweep"
    /\ r \in todo[p]
    /\ r \notin access[c]
    /\ todo' = [todo EXCEPT ![p] = @ \ {r}]
    /\ at' = [at EXCEPT ![p] = r]
    /\ Goto(p, "leave")
    /\ UNCHANGED <<hubVars, connVars, envVars, shutVars>>

SweepEnd(c) ==
    LET p == <<c, "maint">> IN
    /\ pc[p] = "sweep"
    /\ todo[p] = {}
    /\ Goto(p, "idle")
    /\ UNCHANGED <<hubVars, connVars, envVars, shutVars, at, todo>>

-----------------------------------------------------------------------------
(* Closes decided elsewhere: a full buffer in deliver or sendFrame, a failed
   write in the write pump. *)

CloseConn(c) ==
    /\ c \in conns \ closed
    /\ closed' = closed \cup {c}
    /\ UNCHANGED <<hubVars, held, told, envVars, shutVars, procVars>>

(* Hub.shutdown. *)

ShutdownBegin ==
    /\ shut = "up"
    /\ shut' = "draining"
    /\ closing' = TRUE
    /\ live' = conns
    /\ UNCHANGED <<conns, rooms, subs, subMu, channels, connVars, envVars,
                   procVars>>

\* Mutant of ShutdownClose: warns the connections but closes none.
ShutdownCloseNobody ==
    /\ shut = "draining"
    /\ shut' = "waiting"
    /\ UNCHANGED <<hubVars, connVars, envVars, live, procVars>>

ShutdownClose ==
    /\ shut = "draining"
    /\ shut' = "waiting"
    /\ closed' = closed \cup live
    /\ UNCHANGED <<hubVars, held, told, envVars, live, procVars>>

\* closeBroker, once every drained connection has finished or the drain's
\* deadline has passed: Broker.Close, and nothing is delivered any more.
ShutdownStop ==
    /\ shut = "waiting"
    /\ \/ \A c \in live : pc[<<c, "serve">>] = "finished"
       \/ DrainDeadline
    /\ shut' = "stopped"
    /\ channels' = {}
    /\ UNCHANGED <<closing, conns, rooms, subs, subMu, connVars, envVars, live,
                   procVars>>

-----------------------------------------------------------------------------
(* The environment: memberships and boards come and go in the database. *)

Revoke(c, r) ==
    /\ r \in access[c]
    /\ access' = [access EXCEPT ![c] = @ \ {r}]
    /\ UNCHANGED <<named, grants, hubVars, connVars, shutVars, procVars>>

Grant(c, r) ==
    /\ grants < Regrants
    /\ r \notin access[c]
    /\ grants' = grants + 1
    /\ access' = [access EXCEPT ![c] = @ \cup {r}]
    /\ UNCHANGED <<named, hubVars, connVars, shutVars, procVars>>

ServeNext(c) == Register(c) \/ BeginRemove(c) \/ EndRemove(c)
                \/ \E r \in Room : RemoveNext(c, r)

ReadNext(c) ==
    \/ \E r \in Room : ReadSubscribe(c, r) \/ ReadUnsubscribe(c, r)
    \/ SubscribeAllowed(c) \/ SubscribeRefused(c)
    \/ JoinCheck(c) \/ JoinCounted(c) \/ JoinFirst(c) \/ JoinAck(c)
    \/ JoinFail(c) \/ JoinAdd(c)
    \/ RememberRoom(c) \/ Acknowledge(c) \/ ReadEnd(c)

MaintNext(c) ==
    \/ MaintainClose(c) \/ MaintainEnd(c) \/ Reauthorize(c) \/ SweepEnd(c)
    \/ \E r \in Room : SweepKeep(c, r) \/ SweepRevoke(c, r)

LeaveNext(p) == Leave(p) \/ Release(p) \/ Unsubscribe(p)
                \/ ForgetRoom(p) \/ TellUnsubscribed(p)

ShutdownNext == ShutdownBegin \/ ShutdownClose \/ ShutdownStop

Environment(c) == \E r \in Room : Revoke(c, r) \/ Grant(c, r)

Next ==
    \/ \E c \in Conn : ServeNext(c) \/ ReadNext(c) \/ MaintNext(c)
                       \/ CloseConn(c) \/ Environment(c)
    \/ \E p \in Proc : LeaveNext(p)
    \/ ShutdownNext

Spec == Init /\ [][Next]_vars

(***************************************************************************)
(* Fairness.  A goroutine that can run is scheduled; Broker.Subscribe      *)
(* returns one way or the other; the sweep ticks forever and the           *)
(* Authorizer answers infinitely often; once a connection is closed its    *)
(* socket is, so only finitely many more frames can be read from it.  The  *)
(* client, the database and the decision to shut down are not fair.        *)
(***************************************************************************)
Fairness ==
    /\ \A c \in Conn :
        /\ WF_vars(ServeNext(c))
        /\ SF_vars(c \in closed /\ ReadEnd(c))
        /\ WF_vars(SubscribeAllowed(c) \/ SubscribeRefused(c) \/ JoinCheck(c)
                   \/ JoinAck(c) \/ JoinFail(c) \/ JoinAdd(c)
                   \/ RememberRoom(c) \/ Acknowledge(c))
        /\ SF_vars(JoinCounted(c) \/ JoinFirst(c))
        /\ SF_vars(MaintainEnd(c))
        /\ WF_vars(Reauthorize(c) \/ SweepEnd(c) \/ \E r \in Room : SweepKeep(c, r))
        /\ \A r \in Room : SF_vars(SweepRevoke(c, r))
    /\ \A p \in Proc :
        /\ SF_vars(Release(p))
        /\ WF_vars(Leave(p) \/ Unsubscribe(p) \/ ForgetRoom(p) \/ TellUnsubscribed(p))
    /\ WF_vars(ShutdownClose \/ ShutdownStop)

FairSpec == Spec /\ Fairness

-----------------------------------------------------------------------------
(* A reference on a room: a membership, or a goroutine between counting itself
   in and appearing in the map, or between leaving the map and counting itself
   out. *)

Carries(p, r) == pc[p] \in {"joinAdd", "release"} /\ at[p] = r
Refs(r) == {<<c, "room">> : c \in rooms[r]} \cup {p \in Proc : Carries(p, r)}

\* Hub.subs never undercounts: however joins, client unsubscribes, revocation
\* sweeps and disconnect cleanups interleave, every member of a room and every
\* goroutine on its way in or out is counted, so no room is given up at the
\* broker by a count that reached zero too early (hub.go join, leave).
RefsCovered == \A r \in Room : Cardinality(Refs(r)) <= subs[r]

\* subMu is held by exactly the goroutine that waits for Broker.Subscribe, so
\* two connections joining the same empty room cannot both decide they are the
\* first, and no goroutine keeps the lock once its join has returned or failed.
SubscribeSerial == \A p \in Proc : (pc[p] = "joinAck") <=> (subMu = p)

\* Hub.subs never overcounts either: when the last reference goes the count is
\* zero and the broker is told.  Holds when a client names a board at most once
\* on one connection, as apps/web does; EndedIsForgotten says what happens when
\* it does not.
RefsExact == \A r \in Room : subs[r] <= Cardinality(Refs(r))

\* Hub.remove, "so that 'the connection ended' and 'the hub forgot about it'
\* cannot come apart, whichever way the connection ended": once serve has
\* returned, no room lists the connection.  It holds when a client names a board
\* at most once on a connection.  When it names one again while a sweep is
\* leaving it, the sweep's forgetRoom can follow the new join's rememberRoom;
\* the room is then in the hub's map and not in the connection's list, and
\* remove does not find it.
EndedIsForgotten ==
    \A c \in Conn : pc[<<c, "serve">>] = "finished" =>
        /\ c \notin conns
        /\ \A r \in Room : c \notin rooms[r]

\* Hub.join: "a client is never told it is watching a board the transport is
\* not yet delivering".
ToldIsDelivered ==
    \A c \in Conn, r \in Room :
        (c \notin closed /\ told[c][r] = "subscribed" /\ c \in rooms[r])
            => r \in channels

\* A revoked board leaves: if access to r is lost for good, the connection is
\* eventually out of r's room for good (Conn.reauthorize).
RevokedLeaves ==
    \A c \in Conn, r \in Room :
        <>[](r \notin access[c]) => <>[](c \notin rooms[r])

\* A closed connection is eventually finished: nothing it waits for (subMu, the
\* broker, its own sweep) is held for ever.
ClosedFinishes ==
    \A c \in Conn : (c \in closed) ~> (pc[<<c, "serve">>] = "finished")

\* Shutdown drains: once begun, the broker is closed.
ShutdownStops == (shut = "draining") ~> (shut = "stopped")
=============================================================================
