# A TLA+ model of collabboard

collabboard is a kanban application: a Go API (`apps/api`) over Postgres and
Redis, and a Next.js web app (`apps/web`) that shows boards and keeps them up
to date over a WebSocket that the web server relays to the browser as
server-sent events. Paths below are relative to the repository's root.

This directory holds TLA+ models of the parts of it that are concurrent,
TLC configurations that check them on small instances, and TLAPS proofs about
seven of them.

    Hub.tla            rooms, reference counts, subscriptions       MCHub.tla, HubProofs.tla
    RoomFeed.tla       what a room promises its watchers
    Fanout.tla         delivery of events; implements RoomFeed      FoldLemmas.tla, FanoutProofs.tla
    Sessions.tla       refresh-token sessions in Redis              MCSessions.tla, SessionsProofs.tla
    CardMoves.tla      card order under concurrent transactions     MCCardMoves.tla, FoldLemmas.tla, CardMovesProofs.tla
    Relay.tla          the web server's relay of a board's events
    BoardStream.tla    the browser's event stream, over Relay       FoldLemmas.tla, BoardStreamProofs.tla
    BoardModel.tla     the functions a board screen is computed with
    Board.tla          one mounted board screen and its server      MCBoard.tla, FoldLemmas.tla, BoardProofs.tla
    CardEditor.tla     the panel of one open card
    WebSession.tla     one browser's session in the web app         MCWebSession.tla, WebSessionProofs.tla

Run a model with `tlc -config HubSafe.cfg MCHub.tla`, the proofs of a module with
`tlapm HubProofs.tla`. `PROJECT.json` is the machine-readable index: the
components, the runs, a mutant of the code for every property (a definition
whose name extends that of the one it breaks, such as `LeaveUncounted` for
`Leave`), the source lines behind every definition, the hazards, the findings
and the theorems.

## 1. Inventory

### API: realtime (`apps/api/internal/realtime`)

**Hub** (`hub.go`, one per process). State: `conns`, `rooms` (room to members),
`closing` under `mu`; `subs`, a reference count per room, under `subMu`.
Operations: `register`, `join`, `leave`, `remove`, `deliver`, `shutdown`. Called
from the goroutines of every connection, from the dispatch goroutine and from
the one that shuts the process down. Calls `Broker.Subscribe` while holding
`subMu`, and `Broker.Unsubscribe` after releasing it. Correct when the count
never loses a member, is zero when nobody is left, the room map forgets ended
connections, and a drain ends.

**Connection** (`conn.go`). State: `rooms` under `roomsMu`, the `send` buffer,
the `closed` channel with its status. Goroutines: `serve`, which starts three
more and cleans up after them; `readPump` (subscribe, unsubscribe, ping);
`writePump`; `maintain` (token expiry, heartbeat, and a periodic
re-authorization that removes revoked boards). Hard: two of these goroutines
leave rooms, one joins them, and each of `leave`, `forgetRoom` and the frame that
tells the client is a step of its own.

**Broker** (`broker.go`, `redisbroker.go`, `memorybroker.go`). A Redis pub/sub
connection whose confirmations wake the `Subscribe` calls that wait for them, and
a bounded channel of messages. Delivery is at most once. Correct when `Subscribe`
returns only after the subscription is in force, and nothing waits for ever.

**Handler, authorizer, publisher** (`handler.go`, `authz.go`, `publisher.go`). The
handshake; a membership and a board query; a JSON event published to the
board's channel after the write that caused it has committed.

### API: sessions (`apps/api/internal/auth`)

**SessionStore** (`session.go`). State in Redis, shared by every process: a
record per refresh token, and per session a pointer to its current token.
Operations: `Issue`, `Rotate`, `Revoke`, `RevokeSession`. Each is several commands, and
nothing makes them atomic together. Correct when a used token is recognised,
a revoked session stays revoked, and no failure leaves a pointer that leads
nowhere.

**Service** (`service.go`): `Login`, `Refresh`, `Logout` and `SwitchOrganization`
use the store; `Register`, members and organizations are single Postgres
transactions. **Rate limiter** (`ratelimit.go`): two fixed-window counters.
**Tokens, passwords**: pure cryptography.

### API: boards (`apps/api/internal/api`, `internal/store`, `migrations`)

**Card order** (`cards.go`, `store/query.sql`). State: a `numeric` position per
card. A move locks its target column, computes a midpoint, and renumbers the
column when the midpoint has too many digits. Correct when positions in a
column are distinct, a card lands where it was put, nobody else's order
changes, and transactions do not wait on each other in a cycle.
**Column order** (`columns.go`): the same under a lock on the board.
**Event publishing** (`crud.go`, `events.go`): after commit, best effort.
**Tenant isolation**: row-level security policies; `store.WithTenant` sets the
tenant inside each transaction.

### Web (`apps/web`)

**Relay** (`lib/realtime/relay.ts`, `app/api/realtime`). Per response: an upstream
WebSocket, a response body with a byte budget, a heartbeat. Correct when a slow
reader is told once and shed, and a reader that is gone costs nothing.

**Stream** (`lib/realtime/client.ts`, `recovery.ts`). State: the abort controller, the
attempt count, the timer, `stopped`, `refreshing`. Reads the relay's response, reconnects
with backoff, refreshes the session on a 401 or 4001, stops on what cannot be recovered.
Correct when every gap is followed by a read of the board, or by a reason said.

**Live layer** (`use-board-live.ts`, `apply.ts`). State: the log of events since the last
read, a coalescing timer. Folds events over the snapshot; a snapshot retires the events
that arrived before the latest read was started.

**Board** (`board-view.tsx`, `board-mutation.ts`, `card-moves.ts`, `board-controls.tsx`,
`card-drag.tsx`, `lib/board`). State: the optimistic edits of pending transitions, a queue
of moves per card, the one move proposed by a drag or the keyboard. Correct when the
screen, whatever the order of answers, events and reads, ends as the board is.

**Card panel** (`card-detail.tsx`, `due.ts`, `rules.ts`). State: the mode, the form. Correct
when saving changes what the user changed.

**Session** (`lib/session`, `lib/api`, `proxy.ts`, `app/api/auth`). State: the cookie jar, in the
web process the refreshes in flight and those of the last ten seconds, in the browser the
renewal under way. Correct when a refresh token is spent once, nobody gets another session's
tokens, an unreachable API signs nobody out, and a sign-out is final.

### What is hard

`PROJECT.json` lists every hazard at its line. The largest groups: goroutines of
one connection and of several that interleave around `subMu`, `mu` and the broker;
several Redis commands that are one operation; transactions that compute from a
snapshot and write after waiting for a lock; in the browser, events, reads, answers
and gestures about one card in any order, and responses that set one cookie jar.

## 2. Modules and how they correspond to the code

### Hub

One step is a stretch of Go that holds one mutex or touches one shared variable;
everything between two steps may interleave. `mu` and `roomsMu` are never held
across a call that blocks, so their critical sections are single steps; `subMu`
is held across `Broker.Subscribe` and is a variable.

Each connection has three processes. `<<c, "serve">>` registers, waits for the
others, and runs `remove` room by room. `<<c, "read">>` runs `readPump`: a
subscribe is `ReadSubscribe` (already held, or under the limit), `SubscribeAllowed` /
`SubscribeRefused`, then `Hub.join` as `JoinCheck` (closing?), `JoinCounted` or
`JoinFirst` (SUBSCRIBE written, `subMu` kept), `JoinAck` or `JoinFail`, `JoinAdd`,
then `RememberRoom` and `Acknowledge`. `<<c, "maint">>` runs `maintain`: `Reauthorize`
snapshots the held rooms, `SweepKeep` or `SweepRevoke` decides each. All three call
`Hub.leave`, so its steps (`Leave`, `Release`, `Unsubscribe`, then `ForgetRoom`,
`TellUnsubscribed`) are actions of any process. `pc`, `at` and `todo` are where a
goroutine is, the room it works on and the rest of the room list it is walking.

| model | code |
|---|---|
| `rooms`, `conns`, `closing` | `Hub.rooms`, `Hub.conns`, `Hub.closing` |
| `subs[r] = 0` | no entry in `Hub.subs` |
| `held[c]`, `c \in closed` | `Conn.rooms`, `Conn.closed` is closed |
| `told[c][r]` | the newest subscription frame queued for the client |
| `channels` | what the SUBSCRIBE and UNSUBSCRIBE commands written so far leave subscribed |
| `access` | what the authorizer's queries would find |

The order in which commands are written to the broker's one connection is the order
of the model's `JoinFirst` and `Unsubscribe` steps. A broker that was closed by a
shutdown past its deadline refuses. Message delivery is left to Fanout.

### RoomFeed and Fanout

RoomFeed is the abstract promise of one room, without buffers or goroutines: a log
of events; a watcher receives the events logged after it entered, in order and
without a gap; it may be cut off at any point and then receives nothing more; it
is never merely skipped.

Fanout is what the code does: the broker's bounded channel (`Arrive`), the dispatch
goroutine's `Hub.deliver` (`Receive`, `Offer` per member under the read lock,
`Offered`, `DropSlow` per full member, `Delivered`), the send buffer, the write pump
(`PumpTake`, `PumpWrote`, `PumpFailed`, `PumpClosed`, `FinishHandshake`), every way a
connection closes (`End`, `SendFrame` on a full buffer, a failed write, the drain), and
both passes of `Hub.shutdown`. A connection exists from its upgrade on; `Register` puts it in `hub.conns` or, when
`closing` is set (`shut # "up"`), refuses it, `Deregister` takes it out when its pump has ended, and the drain's two
passes walk the snapshot `live` that `ShutdownBegin` takes. Membership comes by Hub's contract. `Register`, `Deregister`, `Enter`,
`Exit` and `ShutdownBegin` need the write lock, so they are not enabled while `deliver` loops.

The refinement maps the log, the window of each connection and the events on its
wire. A pump that has ended is "cut".

### Sessions

One step per Redis command. A request (`Login`, `Refresh`, `Logout`, `Switch`) is a
process that goes through `lookup` (`GetRecord`, `GetPointer`), `mint` (`SetRecord`,
`SetPointer`), the membership re-check (`Members`) and `RevokeSession` (`GetRevoked`,
`DelRevoked`), and then answers; the answer may be lost on the way to the client
(`Answer`). With `Faults`, any command may fail (`Fail`) and any write may be applied and
reported as failed. Tokens are numbered in the order they are minted; keys share a ttl,
so they expire in that order. Memberships end at any time (`RemoveMember`).

`handed` limits the tokens that requests present to those that clients have received.
`used`, `over` and the booleans of a job are history: no guard reads them.

### CardMoves

One step per SQL statement, or per row for the statement that writes several. Postgres
is modelled at READ COMMITTED as far as the code uses it: a statement reads a snapshot
of the committed rows and its own writes; it waits for rows that others have written;
after waiting it is applied to the newest version of the row, with everything it had
read still from its snapshot. `LockColumn` is `SELECT ... FOR UPDATE`. `MoveRead` and `MoveWrite` are
`MoveCard` before and after its row lock, `RebalanceRead` and `RebalanceWrite` are
`RebalanceColumnCards`, which may visit its rows in any order. `Commit` and `Cancel`
end `WithTenant`.

A position is a multiple of `2^-scale`, kept as an integer number of `1/Unit`, with its
scale, because the rebalance is triggered by the scale. `MaxScale` is 100 in the
code (`query.sql:475`) and small in the runs and any number in the proofs; nothing else depends on its value. `Power` is the
powers of two, written as a function because the provers know nothing of `^`.

### Relay and BoardStream

JavaScript runs a callback to its end, so each callback is one action. Relay is what one
response's callbacks do (`SocketOpened`, `SocketMessage`, `SocketEnded`, `Heartbeat`, `RequestAborted`,
`Cancelled`) written as functions of its record, so that BoardStream, which EXTENDS it,
composes them with the other side: `StreamOpened` is the route's start and the browser's
answer, `ReadChunk` reads what the body holds and dispatches all of it (`DispatchAll`), and `Cut` is
a network between the two that fails without telling either, before the browser has let go of the request or after. It
does not come back for that request: the browser finds out by itself, and the relay is told nothing any more that could be relied on
(`RelayEnds` may happen behind it and need not). What is left there is the interval: `Heartbeat` writes a `Comment`, which counts
against the budget like any message and which nobody reads. While the network is there a comment that fits
is read at once and is left out. (A network that fails while the request is still being answered is the same for both sides as
one that fails just after: the one case is left to the other.)

| model | code |
|---|---|
| `relay[c]` | one `relayBoardStream`: socket, body, `finished`, the heartbeat's interval |
| `cl.stopped`, `cl.attempt`, `cl.abort`, `cl.timer` | the fields of `BoardStream` |
| `cl.timers` | timers armed in the browser; `cl.timer` is the last one, which `stop()` clears |
| `phase[c]` | where the `#connect` or `#read` of that stream is |
| `renewing` | who awaits `refreshSession()`; `#refreshing` is `renewing # None` |
| `cl.missed` | history: something was published and not seen |

A slot is a stream and its abort controller; a slot whose both ends are over is used again.
`RecoveryFor` and `RecoveryForErrorFrame` are the code's tables. How long a retry waits is left
out, so a retry may happen at once or after anything else.

### BoardModel, Board

BoardModel has the pure functions (`ApplyBoardChange`, `AnchorAt`, `CardNudge`, `CardDropTarget`,
`IsRedundantMove`, `MoveAnchor`, `GroupCards`, `ApplyLiveLog`), without variables. `Keep` is `Array.prototype.filter`, as
a fold. Board is a screen around them:

| model | code |
|---|---|
| `snapshot` | the prop of `BoardView` |
| `live` | `LiveState` of `useBoardLive`, and whether its timer is armed |
| `reads` | `router.refresh()` calls; each asks for two lists, at two moments |
| `writes` | transitions of `useBoardMutation`, and what became of each request |
| `tail` | `inFlight` of `useCardMoves` |
| `hand` | `lifted`, `dragging`, `proposal` of `BoardView` |
| `truth`, `unpublished`, `wire` | the database, commits not yet published, the stream |

`Live`, `Optimistic` and `Shown` are the three layers on screen. A write is committed
(`HandleRequest`), published (`Publish`, in any order) and answered (`Answer`) by the API; a
request may be served although its answer was lost (`AnswerLost`). The stream is the one BoardStream
promises: in order, and `subscribed` after a gap (`StreamDrops`). `Verdict` is what the API's handlers
say, in the order they look.
The page is first rendered from a board that two lists make, with every id in its list once and every card in a column of the board
(`IsBoard`, of every member of `Start`), whose ids are at most `FirstMade`; what can be picked up are the server's cards (`Handled`).

### CardEditor

`seen` is the card the panel is given, `card` the row. The form is filled when Edit is
pressed and not again; `HandleSubmit` compares it with `seen` and sends the fields that differ.
Dates are kept in half minutes, because the control shows minutes.

### WebSession

A token is the refresh token and the access token issued with it, and the three cookies,
which are written and cleared together. A request has a phase: it `arrived`, `waits` for a refresh, was
`sent` on (a call) or is `rendering` (a page), and is `back`, its cookies not yet set. `inFlight` and `recent` are the maps of
`refresh.ts`; a request that joins a refresh that has settled has its outcome at once.
`RenderSession` is `getRenderSession`: the proxy's header before the request's own
cookies. The API is Sessions seen from outside (`Exchange`, `Issue`): one exchange is a
step, and a spent token ends its session.

Any request of the browser may fail in `fetch` (`FetchFails`), before it is served or with its response: a renewal then
answers false, and `signOut` announces its end as if it had been answered, with the cookies where they are. `Evicted` is
`remember` making room for other browsers' outcomes (`GRACE_MAX_ENTRIES`), at any moment, as a fault.

Two history variables say when the browser is no longer at one with the API. `excused` has the sessions whose
newest token it does not hold, because an answer or a response was lost, or because a late response of the same
refresh put back a token already exchanged, and those an exchange of which was evicted. `adrift` has the sessions whose cookies a
response of another session has replaced (`Displaces`), those whose sign-out the API failed to serve, and those whose sign-out never
got to the web app (`Unheard`): nobody will end them but their expiry.

## 3. Runs

Every run turns the deadlock check off: each model is bounded (connections connect once,
requests and events are numbered), so each behaviour legitimately ends.
Deadlock of the code is stated as a property instead: `ClosedFinishes`, `ShutdownStops`,
`ClosedPumpEnds`, `DispatchNeverStalls`; `NoDeadlock` is false of the code (section 5).

| run | instance | shows |
|---|---|---|
| HubSafe | 2 connections, 1 room, each board named once per connection, a drain that may expire | `TypeOK`, `RefsCovered`, `RefsExact`, `EndedIsForgotten` |
| HubLive | 1 connection, 1 room, fair | `RevokedLeaves`, `ClosedFinishes`, `ShutdownStops` |
| FanoutLive | 1 connection that registers at any time, send buffer 1, broker buffer 2, 2 events, 1 answer, a drain at any point, fair | `NoSilentGap`, `DrainClosesAll`, `DispatchNeverStalls`, `ClosedPumpEnds`, `KeepsPromise` |
| SessionsFaults | 2 requests at once, 2 sessions, 3 tokens each, at most 4 issues and tokens together (`FewTokens`), failures | `TypeOK`, `UsablePointer`, `NoLaterUse`, `MembershipRechecked`, `RevokedStaysRevoked` |
| Moves | 3 transactions, 2 columns, 3 cards, `MaxScale` 1 | `DistinctRanks`, `LandsAfterAnchor`, `OthersKeepOrder` |
| Stream | 2 slots, a budget of 3, 1 event, 2 faults, 2 timers, fair | `TypeOK`, `LastWord`, `MissedIsOwed`, `SignedOutIsOver`, `StoppedStaysStopped`, `SettlesLive`, `GoneReleases` |
| Board | boards of 2 or 3 cards, and a budget of edits by others, moves, creates, column edits and faults in the mixtures of `Small` | `DrawnOnce`, `StandInsAside`, `MovesQueue`, `DropsWhereDrawn`, `QueueDrains`, `Converges` |
| WebSession | 2 calls, 1 page, 2 renewals, a sign-in or sign-out; budgets of uses, agings and faults in the mixtures of `Small`, fair | `SessionSurvives`, `OwnSession`, `BlipKeeps`, `SignedOutIsOver`, `JoinsItsOwn`, `CallsSettle` |

HubTold, MovesDeadlock, MovesTie and Editor are expected to fail; section 5 explains them.

**Why the bounds are enough.** The hub's races are between goroutines about one room:
a join against a leave, two leaves of one membership, the first and the last reference.
Two connections give six goroutines, up to four of them about the room at once.
A send buffer of 1 and 2 events is full, drained and full again, and an answer between them takes
the place of an event. Only the dispatcher's loops and the drain's see several connections,
and they treat each on its own; two of them with events in the drain is beyond a run of
minutes. That they do not disturb each other is what FanoutProofs proves. Three tokens are
one that was used, the one it was exchanged for and the
one a replay or a concurrent refresh mints; the second session is for `Switch`, and `FewTokens` keeps it from being
combined with three tokens. Three transactions are two that contend and
one that changes what they read; three cards are an anchor, its successor and the moved card.
With `MaxScale = 1` the second midpoint between two cards renumbers their column. The
tie of section 5 needs a fourth card; that nothing else makes two ranks equal, with any number of cards, is
proved (section 6). So does the deadlock, which is why `NoDeadlock` is not a property of this run: with three cards it would hold because
of the bound. What holds with any number, `NoDeadlock \/ Entangled`, is proved, and TLC agrees on two transactions, four
cards and `MaxScale` 0, the instance of MovesDeadlock (23,780 states).

A browser has one stream at a time but for the one it is abandoning: two slots. Two faults are one
that ends a stream and one that meets the recovery from it, two timers the two that a stream ended
twice in one chunk leaves behind, and a budget of 3 is one frame and the first message past it. One event is enough to be missed, because
`cl.missed` does not count, and three comments nobody reads are a budget. In Board the mixtures put one of everything against one
of everything else: somebody's edit against a create, a move, a column edit; a lost answer, a
dropped stream or an unpublished event against each; and two moves of one card with a fault, three
without, which are a move that fails and the two behind it. In WebSession a burst is three requests that carry one
token; two agings take a token from fresh to expired, or two tokens to stale, and a third is for the token that succeeds
it; two doors are a sign-out and a sign-in. The budgets are, in uses, agings, doors and faults: 4-3-0-1, 3-2-1-0, 2-2-2-0 and
2-2-1-1. Its invariants were also checked, without the liveness property, on larger ones that take too
long to be kept as runs: 5-3-0-1, 4-3-0-2, 4-3-1-1, 3-2-2-1 and 4-2-2-0, with eight tokens, up to six million states.

**Reductions.** Connections, requests, cards, columns and transactions of the API are
interchangeable, so HubSafe, SessionsFaults and the Moves runs use symmetry (no liveness run does).
`MembershipView` hides what no guard and no property of HubSafe reads. The `Small` of MCBoard and MCWebSession are the
named bounds of those runs: initial states differ in their budgets.

## 4. Fairness, and what is only model-checked

Liveness is checked by TLC and not proved. What is assumed:

- Hub: a goroutine that can run is scheduled, and one that waits for `subMu` gets it in
  the end (Go's mutex hands over to a starving waiter). `Broker.Subscribe` returns,
  because it has a timeout. The re-authorization ticker fires for ever, and for a
  board that stays revoked the authorizer says so in the end (if the database failed
  every time, the sweep would, as the code says, leave the subscription alone). A closed connection's
  socket is closed, so its read pump ends after finitely many more frames.
  Nothing is assumed of the client, of revocations or of the decision to shut down.
- Fanout: the dispatcher and the shutdown goroutine are scheduled. `ClosedPumpEnds` names
  what else it needs (`PumpFairness`): a write that does not complete fails at `WriteTimeout`, the
  close handshake is bounded, and `select` does not ignore a ready case for ever. Sockets
  need not accept anything.
- Stream: callbacks run, timers fire, requests and promises settle (every request has a timeout) and
  the API answers or closes. As long as the network between them is there, a browser that lets go of a response is noticed by the web server: the
  request's `abort` event or `cancel()` (`relay.ts:289`, `:372`) comes in the end. Once the network has failed (`Cut`)
  neither is assumed; what is assumed is only that the interval goes on (`relay.ts:364`). So what `GoneReleases` says of such a reader is that
  its comments spend the budget and the relay then sheds it (`relay.ts:196-205`): not for ever, but that is all, since
  a megabyte (`DEFAULT_RELAY_BUFFER_BYTES`) of comments of thirteen bytes, one in twenty seconds, is weeks on a board where nothing happens. Its mutant is
  an interval that waits for a reader. Nothing is assumed of a reader that is merely slow, of changes, faults or the user.
- WebSession: what the web app, the API and the network have begun goes on (`Runs`): every request
  has ten seconds to be answered or to fail. Nothing is assumed of the user, the clock or faults.
- Board has no fairness. Every step of `Runs` uses up something an edit, a write or a fault has left,
  so a screen whose user stops comes to be `Quiet`, and what liveness would say is said of those states
  (`QueueDrains`, `Converges`).
- Sessions, CardMoves and CardEditor have safety properties only.

Two assumptions of WebSession are about time and are guards of its actions. `GraceEnds`: the ten seconds a
settled refresh is remembered do not end while a request that carries its token is under way, which is
what `refresh.ts` says they are for (a request may take as long to time out). An outcome that is forgotten before, because
`GRACE_MAX_ENTRIES` others came after it (`refresh.ts:213-222`), is a fault (`Evicted`), and `excused` says whose. `Ages`: a token does not
age while a request from before it was issued is under way, nor while it is remembered what it was exchanged for;
access tokens live for minutes.

HubLive has one connection, because the temporal check of two is beyond a run of minutes;
there `subMu` is never contended: with one room, joined once, one goroutine joins and the others leave what it has joined, so the
wait for it is in HubSafe, as safety, and not in HubLive. That
several connections cannot block each other for ever rests on `SubscribeSerial`, which is proved for any
number: `subMu` outlives a step only while its holder waits for `Broker.Subscribe`, and
that wait ends.

## 5. Findings

Each is a run in which TLC finds a behaviour of the code that contradicts a sentence of
the repository.

- **HubTold** (`hub.go:380`). `leave` decides to unsubscribe under `subMu` and writes the
  UNSUBSCRIBE after releasing it. If another connection joins in between, its SUBSCRIBE is
  written first, and the UNSUBSCRIBE that follows ends the subscription of a room that
  has a member, who has been told it is subscribed. `join` says "a client is never
  told it is watching a board the transport is not yet delivering". The room stays
  silent until its count has gone through zero.
- **MovesDeadlock** (`cards.go:483`). A renumbering writes the rows of its column, one of which may be
  moving to another column by a transaction that itself waits to renumber; `moveCard` says there is no
  cycle between two moves. Postgres breaks it by aborting one.
- **MovesTie** (`store/query.sql:489`). The renumbering's WHERE is the card's id alone, so a card that
  left the column while the statement waited for its row is given a rank computed for the old column,
  in the new one, where another card may have it. Distinct ranks hold without a renumbering, and with
  one within a single column.

- **Editor** (`card-detail.tsx:397`). The editor's form is filled once, when it opens, and is compared on
  submit with the card as the live layer has it by then. A field the user never touched differs
  if somebody else has changed it meanwhile, and is sent back to what it was. The code says it sends "only the
  fields that actually differ, so an edit to one cannot overwrite somebody else's edit to another".

Some things the web code says, and that do not quite hold, are in no run of their own, because the properties
that hold were the better use of one:

- A column moved to the right of one that is still being created names its stand-in as the anchor
  (`mutations.ts:672`); the API refuses it with a 400 and the move reverts. `StandInsAside` therefore
  speaks of cards.
- A refresh whose answer is lost has spent the token (`refresh.ts:198` says it was not), so the next one ends the
  session: the exception `excused` in `SessionSurvives`.
- Two requests share one refresh; the response of one arrives at once, that of the other after the browser has
  refreshed again. It puts back the token that the second refresh has spent, and once that refresh is forgotten
  and the token stale, the next page presents it again: the API takes it for a theft and ends the
  session. The ten seconds of `refresh.ts:100` are counted from the refresh and not from the last response that
  carries its cookies. It takes a response minutes late, and TLC finds it from four uses on; it is the rest of `excused`.
- A late response of an old session sets or clears the cookies of the new one, after a switch or a new
  sign-in; and a refresh response that arrives after the sign-out's puts cookies back, which
  `browser.ts:172` says it cannot. They are those of a session that is over: `SignedOutIsOver`. But if the
  late response is of the session before a switch, the sign-out that follows ends that one, and the session
  the user was in lives on until it expires: the exception `adrift`. The
  `finally` of `refreshOnce` clears a newer renewal than its own (`browser.ts:129`).
- A sign-out whose request fails is announced all the same: the `catch` of `browser.ts:191` swallows the error, and
  `browser.ts:172` says that "this browser is signed out either way". If the request was lost before the web app had it, the cookies
  are still in the jar and the session is live; `SignOutButton` goes to the sign-in page, which finds a session and sends the
  user back into the application (`app/(auth)/login/page.tsx`). It is the last exception in `adrift` (`Unheard`). If only the response was lost, the cookies
  stay but their session is over.
- Outcomes are remembered for ten seconds so that a late request with the same token has its own; with more than `GRACE_MAX_ENTRIES`
  refreshes in that time the oldest is forgotten before (`refresh.ts:213`), and such a request then spends the token again: the
  rest of `excused`.
- A reuse of a refresh token that is detected, and whose revocation then fails, is answered and logged as a revoked session:
  `lookup` joins the error to `ErrRefreshReused` (`session.go:231`), which `Service.Refresh` matches first (`service.go:578`). The newest token
  stays usable. No property of Sessions says that it does not: `over` is a revocation that was carried out.
- A column that only the live log shows disappears with the log when the stream resubscribes, until the next
  read (`use-board-live.ts:299`), with the card this user is creating in it; so does one whose own delete this user asks for, until the
  request is refused or lost. If the stand-in goes, the event of its row is applied and not left to the re-read, and when the column is drawn again
  the stand-in is back beside the row, until the create is answered. Such columns are the exception in `DrawnOnce`: its second
  part is of columns that last (`Lasting`).
- A move that timed out in the browser and is served late lands after a later one (`card-moves.ts`); the next
  read shows it. `MovesQueue` is about what the client sends, and
  about moves made while another was unsettled: after a 409 the refused move is settled and still drawn until the re-read arrives
  (`card-moves.ts:168`), and a move made then is a new one, sent whatever became of the other.
- A frame that abandons the stream and a close in one chunk arm two timers (`client.ts:212`). `stop()` clears
  the last; the other finds `stopped` and does nothing, which is why `StoppedStaysStopped` holds.

Four properties are weaker than a first reading of the code suggests, because the code needs it:

- HubSafe has `Resubscribes = FALSE`, which `RefsExact` and `EndedIsForgotten` need. A client that names a board
  twice on one connection can join it again between the sweep's `leave` and its `forgetRoom`
  (`conn.go:592`); the room then stays in the hub's map after the connection has ended. The web app
  subscribes once per socket (`apps/web/lib/realtime/relay.ts`). `RefsCovered` holds, and is
  proved, without that restriction.
- `NoLaterUse` speaks of requests that begin after an exchange was answered. Two refreshes that present
  one token at the same time both read the pointer before either writes it, and both succeed.
- `RevokedStaysRevoked` speaks of a revocation that overlaps no rotation. A rotation that is past its
  lookup writes the pointer of a session that was revoked meanwhile (`session.go:266`).
- `GoneReleases` says when a socket is released only by "in the end": see section 4 for a reader whose network has failed.

## 6. Proofs

`HubProofs.tla`, for every finite set of connections, every set of rooms, every limit and every
value of the switches (assumptions: those named in `Hub.tla`, the constants' types and that `Conn` is finite):

- `HubTypeOK`: `Spec => []TypeOK`.
- `HubRefsCovered`: `Spec => []RefsCovered`. Every member of a room, and every goroutine that
  has counted itself in and is not yet a member, or has left the map and not yet counted itself
  out, is counted in `subs`.
- `HubSubscribeSerial`: `Spec => []SubscribeSerial`. `subMu` is held exactly by the goroutine
  that waits for the broker.

The argument. `RefsCovered` alone is not inductive over steps that start goroutines: a
new process must carry nothing. So the invariant is `RefInv`, the conjunction of
`TypeOK`, `Unstarted` (until `serve` has registered, the other two do not exist) and
`RefsCovered`. `Refs(r)` is a set of memberships and carrying processes; each step does one of
four things to it. `Quiet` steps change nothing. `CountIn` adds an element and
raises the count. `MoveIn` and `MoveOut` exchange a membership for the process that carries it
(this is where leaving a room one is not in, from two goroutines, would break it). `CountOut` removes an element
and lowers the count. The cardinality lemmas for these are stated once. The count being covered is
what makes `Release`'s "zero" mean that nobody is left.

And under one more hypothesis, which these two theorems name, `Resubscribes = FALSE`: a client
names a board at most once on one connection. `apps/web/lib/realtime/relay.ts` opens one socket per board and
subscribes once on it; without it both are false (section 5).

- `HubEndedIsForgotten`: `Spec => []EndedIsForgotten`. A connection whose goroutines are gone is in no room.
- `HubRefsExact`: `Spec => []RefsExact`. `subs` counts the members and the goroutines on their way, no more.

The argument. `Once` is a conjunction over connections, and every step concerns one. A client names a
room once, so the room a connection joins is not in its list, in its sweep or in the map
(`JoinsAnew`), and what a goroutine has left no other puts back (`StaysLeft`). Hence every room the map has a
connection in is in the connection's list, but for the one between `join` and `remember`; and once it is being removed,
among those `remove` has still to leave (`Listed`). `Unregistered` carries this over the end of
`serve`. `RefsExact` then follows as `RefsCovered` did, with equality: the one step that could count a
room twice, a join of a room one is in, is what `JoinsAnew` excludes.

`SessionsProofs.tla`, for any set of requests in flight (infinitely many, too), any number of
sessions and tokens, with or without failing commands (assumptions: the bounds are
naturals, `Faults` is a Boolean):

- `SessionsUsablePointer`, `SessionsNoLaterUse`, `SessionsMembershipRechecked`,
  `SessionsRevokedStaysRevoked`: every safety property that the Sessions runs check, and
  `SessionsTypeOK`.
- `SessionsInvariant`: `Spec => []SInv`, from which all of them follow.

The argument. What a handler has read from Redis may be stale as soon as it has read it; the
invariant says what of it survives. A token being minted is in no other request and
with no client until it is answered (`Fresh`), so a pointer never comes back to a token it has
left, and a token is the current one of at most one session (`Owned`). Hence a request whose
lookup found its token current deletes or overwrites the keys of that session only, and
the token that `RevokeSession` read is not, when it deletes it, one that another session has come
to point at. `Usable` carries the record of a token from `mint`'s first write to its
second, over everything that expires or deletes records in between. `NoLaterUse` needs that a
token once exchanged is nobody's current one (`Later`); `RevokedStaysRevoked`, that no request
past its lookup will write the pointer (`Revoked`: a request that begins later finds
none). Each action has a lemma with one step per conjunct.

`FanoutProofs.tla`, for any number of connections and any size of buffers (assumptions: the bounds are naturals):

- `TypeCorrect`: `Spec => []TypeOK`; no buffer ever holds more than its size.
- `DrainCloses`: `Spec => []DrainClosesAll`. Once the drain waits, nobody whom the hub serves is open.

The argument. A message is in the broker's channel or in the log (`Conserved`), so the dispatcher always
has one to hand out. A pump ends only on a connection that is closed (`PumpEndsClosed`): the second pass of
`shutdown` waits for the pumps of its snapshot, and whoever of it is not in `notify` any more is closed. Nobody is served but
those in the snapshot, because `closing` is set in the step that takes it, and `Register` refuses from then on (`PassCloses`). No step
of the dispatcher, which may close slow connections between the two passes, reopens one.

- `NobodySkipped`: `Spec => []NoSilentGap`, and `FanoutKeepsPromise`: `Spec => KeepsPromise`, that is, Fanout
  implements RoomFeed.

The argument. Both rest on `Feeding`, for every connection whose pump has not ended. The events it has accepted, written,
in the pump's hand or in the buffer, are those of the log from its entry on (`InOrder`). They reach no further than its
window, and all the way if it watches, is open and is not about to be dropped; one short if `deliver` has still to try it
(`Fed`). `Turn` says that `deliver` has emptied both its sets before the next message: a slow watcher is
closed before it could miss a second one. The pump moves frames along one sequence, so what it writes next is the next
event of the window: RoomFeed's `Receive`. A pump that ends is RoomFeed's `Cut`. `Events` is a fold, of which only two
facts are needed: what one frame more adds (`EventsAppend`), and that a beginning has a beginning of the
events (`EventsBegin`); both are inductions by `UpTo`.

`WebSessionProofs.tla`, for any number of calls, pages, renewals, tokens and faults (assumptions:
there is a token, and the kinds of requests are apart):

- `TypeCorrect`, `OwnSessionHolds`, `BlipsKeep`, `CallsJoinTheirOwn`: from `Inv`, which follows an outcome on its way, from
  `recent` through the request that waits for it (`True`) to the cookies of its response (`Owed`). At each place the token
  spent and the outcome are of one session, and a token that is an outcome is newer and fresh. It stays
  fresh because time does not pass under a request that carries an older token: the guard of `Ages`.
- `SignOutIsFinal`: `Spec => []SignedOutIsOver`, from `Inv` and `Leaving`. Every request under way carries a token of the jar's
  session, or of one that is gone, which is over or adrift (`CarryTheJars`); while somebody signs in, over
  or out, the jar's session is the one the door's request carries, and when that is answered, it is gone (`DoorLeaves`). So
  whatever response arrives after a sign-out, it sets the cookies of a session that is gone. A door's request that fails leaves the jar as it
  is: it is of a session that the API has ended, if the sign-out was served, and adrift if it was not (`DoorFailsLeaves`).
- `SessionsSurvive`: `Spec => []SessionSurvives`, from `Inv` and `Surviving`. An exchanged token's outcome is
  remembered for whoever still carries the token (`Covered`); a token in flight to the API is not spent
  (`SpentOnce`) and somebody waits for its outcome (`Awaited`). While the jar holds a spent token whose session has a newer one,
  a response to a request that carries it is on its way with the next (`Succeeded`), so the token is still carried, and
  no request that begins meanwhile has it exchanged again. `excused` is the only way out: an answer or a response
  is lost, a response puts a spent token back after the browser has moved on, or an outcome is evicted.

`BoardStreamProofs.tla`, for any number of slots, timers, events and faults and any budget (assumptions: `RelayNat` and
`BoundsNat`, that the bounds are naturals and that there is a slot, a timer and a budget):

- `StreamTypeOK`, `StreamLastWord`, `StreamSignedOutIsOver`, `StreamMissedIsOwed`: every invariant of the Stream run.
- `StreamStaysStopped`: the action property `StoppedStaysStopped`.
- `StreamInvariant`: `Spec => []StreamInv`, on which they rest.

The argument. First each relay by itself (`Sound`): its flags agree (`Flags`), its body passes the
budget by one frame and a last word at most (`Fits`), a closing message is the last (`Closes`), and a `subscribed` nobody has
read is still true or is followed by what undid it (`Followed`). `LastWord` is `Closes`. Then the client: a
message of a chunk leaves it as it is or, when it ends or abandons the stream, arms a timer or asks for a refresh
(`Halted`), and a chunk is a run of such messages (`ChunkHeard`). `MissedIsOwed` says nothing of who is still
listening and so is not inductive: the client may stop owing because it listens. `Settled` says both. When
nothing is pending, a client that is not stopped has a stream on which it hears, unless it knows that its board is
gone; and what it has missed then was missed because it was gone, which `DeletedKnown` ties to the
board. The proof found that `Cut` could strike a request that had been aborted and count its
unread messages a second time; the model was corrected. A cut behind an aborted request now changes what the relay hears and
nothing that is owed.

`BoardProofs.tla`, for any first pages, any cards picked up, and any budgets of edits, events, reads and faults (assumptions: `StartAssumption`, a page
is rendered from lists as the API makes them; `HandledAssumption`, the cards that have a grip are the server's). All six
safety properties of the run are proved:

- `BoardMovesQueue`: `Spec => []MovesQueue`, and `BoardQueueDrains`: `Spec => []QueueDrains`, from `BoardInvariant`: `Spec => []Inv`.
- `BoardConverges`: `Spec => []Converges`, and `BoardStandInsAside`: `Spec => []StandInsAside`, from `BoardLayers`: `Spec => [](Inv /\ Data)`.
- `BoardDrawnOnce`: `Spec => []DrawnOnce`, from `BoardDrafts`: `Spec => [](Inv /\ Data /\ Drafted)`.
- `BoardDropsWhereDrawn`: `Spec => []DropsWhereDrawn`, from `BoardLayers`.

The queues. `MovesQueue` speaks of requests; the client decides by promises. `Queue` relates the two. A move is behind every
earlier unsettled move of its card (`Behind`); it waits for the last of them, which `tail` has until it is settled with nobody
behind (`Tails`), and which is itself behind all the others (`Chained`). So a promise settles after those it is behind, and
one that resolved as accepted says so for all of them (`InTurn`): one look at the gate is enough. `Tails` survives
`Release` because whoever is still unsettled is behind the one that settles, or is it. For `QueueDrains`, `Awaited`: a write that
waits to land has a read under way or asked for, and no read is of an unsettled write. When nothing can run, the oldest write
that is not over could only be gated by an older one. `Held` is what makes every queue one of `Handled`: a proposal, drawn by an
arrow key or a pointer, moves the card that is held.

The boards. `Data` says what the layers of a screen are made of. The database's board is `Sound`, a board each of whose columns and cards
is there once, with each card in its own column (`Rows`); what is said of it on the stream and in the log is an event of such a board (`Told`);
a read has lists of it (`Lists`); this user's writes ask for changes of it (`Asked`). None of this is inductive without saying what
a change does to *any* sound board, since the screen is the fold of events over a read that may already have them and of edits
over that. `Drawn` is what almost every change does: the columns it leaves are columns that were there, each once, with cards that were in them,
in their order; a drawn board is sound and keeps pending cards last (`DrawnSound`, `DrawnAside`). Only a create and a move put a card in, the move after
taking it out (`Relocated`), at a place that is behind an acknowledged card or first, so that `Aside` survives (`InsertedAside`);
this is where `AnchorAt` must not name a pending card. So every layer is `Fine`: sound, its pending entities aside, its ids given out.
The folds over the log and over the writes go through `FoldGrows`: the set of the boards reached grows along the fold.
`StandInsAside` is `Aside` of `Shown`, and of the writes `Asked`.

For `Converges`: `Stamped` says that a log that is not empty has a read under way or one due, and that what was applied since the last read
began has one due. `Fresh` says that an event was missed for good, or the screen was last rendered from the board as it is, or something is on its
way that ends in a read: a gap in the stream, an event not yet published or delivered, the timer, or a read whose lists are of the board
as it is. When all is quiet, only the first two are left. A commit keeps `Fresh` by its event, a delivery by the timer, a rendering by the read behind it or by its own lists, because
grouping the two lists of a sound board gives the board back (`RoundTrip`).

The drafts. `DrawnOnce` needs to know why a stand-in is drawn when its event is applied. `Lasts`: of a column of the first page that the board
still has, no event, read or rendering says that it is gone. `Rowed`: only a create has a row. `Unshown`: while a create of a card in a
column that lasts is pending, the log has not its row's event; for its stand-in is then on screen (`Optimistic`), and `OnEvent` leaves creates to the
re-read while anything pending is. The proof found that an earlier statement of the second part of `DrawnOnce`, which excepted only columns made
since the page was read, was false: a column of the first page that this user deletes, with the request lost, does the same
(section 5). The bounds of the run were too small to reach it.

The drops. The acknowledged cards of a column are a beginning of it (`SettledTo`), and a card at `d` dropped at `to` is `Carried`: taken out and put in at `to`.
`DropWithin` says that what `cardDropTarget` proposes names, as anchor, the card that is before index `to` once the dragged one is out;
`MovedWithin`, that `applyBoardChange` of it carries the card and changes nothing else; `SettledCarried`, that carrying commutes with
leaving the pending ones away. `RedundantStays`: what `isRedundantMove` takes for a move to where the card stands is one
(the anchor it compares is of the column without the card, and on a board that is `Aside` no pending card is skipped in finding it).

`CardMovesProofs.tla`, for any transactions, any columns and any number of halvings before a rebalance, and any finite set of cards
(assumptions: `MaxScaleNat`, `NoneIsNothing`, `CardFinite`):

- `CardMovesSound`: `Spec => []Sound`. Types, what each transaction has written by which statement, and that whoever places
  a card holds its column (`TypeOK`, `Staged`).
- `CardMovesNoDeadlock`: `Spec => [](NoDeadlock \/ Entangled)`. `NoDeadlock` is false of the code (`MovesDeadlock`); the theorem says that
  there is one way only: two rebalances, in different columns, of which one has come to a row that the other has written.
- `CardMovesDistinctRanks`, `CardMovesLand`, `CardMovesKeepOrder`: `Spec /\ [][~Stray]_vars` implies `[]DistinctRanks`,
  `LandsAfterAnchor`, `OthersKeepOrder`. A `Stray` step is a rebalance that writes a row which has come to stand in another column since
  the rebalance read it: `RebalanceColumnCards`' WHERE is the id alone. `DistinctRanks` is false of the code without the hypothesis (`MovesTie`), so
  these say that nothing else breaks it, and nothing else could break the other two.
- `CardMovesOneColumn`: with one column no step is stray and no two rebalances are in different columns, and all four
  properties hold of `Spec` itself. So the hypothesis is one that behaviours satisfy.

The argument. The lock on its column means that while a transaction places a card, no other writes a row that is in that column or comes to be
in it; rows can only leave (`Undisturbed`). `At(t, d)` is where card `d` will stand if `t` commits: the rank it is still to be given by a
rebalance, the rank computed for it, what `t` has written, or the committed one. `Ordered` states the promises of `At` instead of
`row'`, for the cards still in the column. `MoveRead` establishes it (`PlacedLands`), `RebalanceRead` keeps it because a numbering is
strictly increasing in a column whose ranks are distinct, and each row a rebalance writes gets the rank `At` said. At the commit `At` is `row'` (`CommitIs`).
`PlacedLands` needs that the mid-point of two ranks lies strictly between them: `Halvable` says that a committed rank is a multiple of what its scale can tell
apart and its scale at most `MaxScale`, so one more halving is exact. `Created` keeps everybody off the row of a card that is not there yet.

`DispatchAll`, `Buffered` and `Events` are folds over sequences. `FoldLemmas` has what the library lacks: that the fold's recursive
function exists (`FoldExists`) and what it is on each prefix (`FoldPrefixes`), and induction over
numbers stated with a set in place of a predicate (`UpTo`), which the provers can instantiate.

Not proved: liveness and what rests on `ENABLED` (out of the prover's reach), and CardEditor's property, which its run violates.
Every invariant and action property that a passing run checks is stated by a
theorem, three of CardMoves' under the hypothesis said there, and MovesDeadlock's with its exception. `SubscribeSerial` is proved and in no run: its run would only repeat it.

## 7. Not modelled, and why

- Cryptography, JSON, HTTP plumbing, formatting, configuration, migrations, infrastructure: no
  state that interleaves, or pure functions of bytes.
- Row-level security: enforced by Postgres, declared in SQL.
- `Register` and member management: one transaction each over unique constraints.
- `RedisBroker`'s own confirmations and waiters: Hub and Fanout use it by its contract. Column order in the API
  (`columns.go`) and the login rate limiter (`ratelimit.go`): small, and in the plan.
- A column deleted while cards move through it: CardMoves' columns stay, Board's do not.
- Patching a card: it writes no position. In Board, somebody else's edit of a card is one of its events, and this
  user's edits of a card are CardEditor's, which has no other writes around it.
- The lengths of delays (`retryDelay`, the backoff's floor and jitter, the coalescing time): a timer may fire at any time.
- React: a transition's optimistic state is applied to the newest snapshot, and a callback runs to its end. What React
  does within one render is not modelled, nor navigation away from a board other than `stop()`.
- A re-read that fails (`boards/[boardId]/page.tsx:187`): it replaces the board by an error, and a reload is the way back. Reads succeed here.
- Two web processes behind one browser: `refresh.ts` says that they do not share what is in flight, and that the API's
  reuse detection then ends the session. A refresh that the API serves after the web app has given it up
  is served at that moment in the model (`RefreshFailed`), not later.
- Project, member and account screens: forms over one request each.

## 8. Plan

1. `RedisBroker`: confirmations, waiters, timeouts, `Close`; that `Subscribe` returning nil means in force,
   and that the receive goroutine and a holder of `subMu` do not wait on each other.
2. `ColumnMoves`: column order under the board's lock, with column deletion and `CardMoves`' cards.
3. `RateLimiter`: two windows, their expiry and the counter that outlives it.
4. WebSession over Sessions instead of the atomic `Exchange`, and with two processes.
5. Proofs: that `CardDropTarget` across columns lands where it is drawn, which needs a statement of where the drag library draws it.
