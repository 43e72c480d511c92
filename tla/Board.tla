------------------------------- MODULE Board -------------------------------
(***************************************************************************)
(* One mounted board screen: the three layers it is drawn from (the read,  *)
(* the live log of useBoardLive and the optimistic edits of BoardView),    *)
(* this user's own writes with the queue of a card's moves (card-moves.ts, *)
(* board-mutation.ts), and the one move a drag or the keyboard is          *)
(* proposing.  The server commits, publishes and answers in its own time;  *)
(* the event stream is the one module BoardStream promises: in order, and  *)
(* after a gap it says `subscribed` again.                                 *)
(*                                                                         *)
(* The router runs one refresh at a time and renders it when it has both   *)
(* lists, which two requests read at different moments.  React may render  *)
(* later than that, never earlier.                                         *)
(***************************************************************************)
EXTENDS BoardModel

CONSTANTS
    OtherCards,     \* the cards other users' edits are about
    Handled,        \* the cards this user picks up
    Start           \* bound: the boards the screen may first be rendered from, each
                    \* with a budget of how many of what may happen

FirstMade == 9    \* the last id given out before the page was first read

\* What a page may be rendered from: the board that two lists make, with every id in its
\* list once and every card in a column.
IsBoard(b) ==
    LET columns == ListColumns(b)
        cards == ListCards(b)
    IN  /\ columns \in Seq([id : 1..FirstMade, name : STRING])
        /\ cards \in Seq([id : 1..FirstMade, columnId : Int, text : STRING])
        /\ \A i, j \in DOMAIN columns : columns[i].id = columns[j].id => i = j
        /\ \A i, j \in DOMAIN cards : cards[i].id = cards[j].id => i = j
        /\ b = GroupCards(columns, cards) /\ b.unplaced = <<>>

\* The cards that are picked up are the server's, as the grip is only on those.
ASSUME StartAssumption == \A start \in Start : IsBoard(start.board)
ASSUME HandledAssumption == Handled \subseteq Nat \ {0}

VARIABLES
    truth,          \* the board in the database
    made,           \* the last id the database gave out
    unpublished,    \* events of committed writes, not published yet
    wire,           \* published and on its way to this screen, in order
    missed,         \* history: an event was not published, and no read since
    left,           \* how many edits by others, own edits, and faults are left
    snapshot,       \* the prop: what the page was last rendered from
    live,           \* LiveState of the hook, and its timer
    reads,          \* router.refresh() calls, the first of them in progress
    writes,         \* this user's writes, oldest first
    tail,           \* inFlight of useCardMoves: the last write of a card's queue
    hand            \* what BoardView holds: lifted, dragging, proposal

server == <<truth, made, unpublished, missed>>
screen == <<snapshot, live, reads>>
own == <<writes, tail, hand>>
sending == <<writes, tail, left>>
vars == <<server, wire, left, screen, own>>

None == 0
Resubscribed == [kind |-> "subscribed"]

-----------------------------------------------------------------------------
(* What is on screen. *)

Live == ApplyLiveLog(snapshot, [i \in DOMAIN live.log |-> live.log[i].event])

\* useOptimistic: the changes of the transitions that are pending, in order.
Optimistic ==
    FoldLeft(LAMBDA s, w : IF w.phase = "over" THEN s ELSE ApplyBoardChange(s, w.change),
             Live, writes)

\* proposal is a sequence of at most one move.
Shown == FoldLeft(ApplyBoardChange, Optimistic, hand.proposal)

HasPendingEntities(s) ==
    \E i \in DOMAIN s.columns : LET e == s.columns[i] IN
        IsPendingId(e.id) \/ \E j \in DOMAIN e.cards : IsPendingId(e.cards[j].id)

Creates(change) == change.kind \in {"card.created", "column.created"}

CardsOf(s) == {c.id : c \in ToSet(ListCards(s))}
IdsOf(s) == CardsOf(s) \cup {e.id : e \in ToSet(s.columns)}
SettledColumns(s) == {k \in {e.id : e \in ToSet(s.columns)} : ~IsPendingId(k)}
SettledCards(s) == {c \in CardsOf(s) : ~IsPendingId(c)}

-----------------------------------------------------------------------------
(* The API (external to this screen): an edit is committed, then published, and
   then answered. *)

\* The edits another user's screen would ask for.
Edits ==
    LET cards == CardsOf(truth) \cap OtherCards
        columns == {e.id : e \in ToSet(truth.columns)}
    IN  (UNION {CardNudge(truth, c, d) : c \in cards, d \in Direction})
        \cup (UNION {MoveAnchor(truth.columns, k, "left") : k \in columns})
        \cup {[kind |-> "card.created", card |-> NewCard(made + 1, k)] : k \in columns}
        \cup {[kind |-> "card.updated", cardId |-> c, text |-> "edited"] : c \in cards}
        \cup {[kind |-> "card.deleted", cardId |-> c] : c \in cards}
        \cup {[kind |-> "column.created", column |-> Entry(made + 1, "made", <<>>)]}
        \cup {[kind |-> "column.renamed", columnId |-> k, name |-> "renamed"] : k \in columns}
        \cup {[kind |-> "column.deleted", columnId |-> k] : k \in columns}
        \cup {[kind |-> "board.updated"]}

\* A rename is published as column.updated; board.updated changes no list.
EventOf(change) ==
    IF change.kind = "column.renamed" THEN [change EXCEPT !.kind = "column.updated"]
    ELSE change

Commit(change, by) ==
    /\ truth' = IF change.kind = "board.updated" THEN truth
                ELSE ApplyBoardChange(truth, change)
    /\ made' = IF Creates(change) THEN made + 1 ELSE made
    /\ unpublished' = unpublished \cup {[event |-> EventOf(change), by |-> by]}

Spend(what) == left[what] > 0 /\ left' = [left EXCEPT ![what] = @ - 1]

OtherWrites ==
    /\ Spend("others")
    /\ \E change \in Edits : Commit(change, None)
    /\ UNCHANGED <<missed, wire, screen, own>>

Happens == Spend("faults")

\* Events are published after their commits, in any order.
Publish(u) ==
    /\ unpublished' = unpublished \ {u}
    /\ \/ wire' = Append(wire, u.event) /\ UNCHANGED <<missed, left>>
       \/ Happens /\ missed' = TRUE /\ UNCHANGED wire
    /\ UNCHANGED <<truth, made, screen, own>>

\* The stream drops; what was on its way is gone, and so is what is published
\* until it is subscribed again.
StreamDrops ==
    /\ Happens
    /\ \E lost \in SUBSET unpublished :
        /\ unpublished' = unpublished \ lost
        /\ wire' = <<Resubscribed>>
    /\ UNCHANGED <<truth, made, missed, screen, own>>

-----------------------------------------------------------------------------
(* use-board-live.ts *)

\* startRead
StartRead(l) == [l EXCEPT !.readsStarted = @ + 1]
Refresh(by) == Append(reads, [by |-> by, columns |-> {}, cards |-> {}])

\* scheduleRead
ScheduleRead(l) == [l EXCEPT !.timer = TRUE]

\* Mutant of OnEvent: a create is applied whatever is pending.
OnEventAlways(event) ==
    /\ live' = ScheduleRead(
            IF event.kind = "board.updated" THEN live
            ELSE [live EXCEPT !.log = Append(@,
                    [event |-> event, stamp |-> live.readsStarted])])
    /\ UNCHANGED reads

\* onFrame, for an event: pending is what the last render found.
OnEvent(event) ==
    LET toRead == \/ event.kind = "board.updated"
                  \/ Creates(event) /\ HasPendingEntities(Optimistic)
    IN  /\ live' = ScheduleRead(IF toRead THEN live
                    ELSE [live EXCEPT !.log = Append(@,
                            [event |-> event, stamp |-> live.readsStarted])])
        /\ UNCHANGED reads

OnResubscribed ==
    /\ live' = StartRead([live EXCEPT !.log = <<>>])
    /\ reads' = Refresh(None)

Deliver ==
    /\ wire # <<>>
    /\ wire' = Tail(wire)
    /\ IF Head(wire) = Resubscribed THEN OnResubscribed ELSE OnEvent(Head(wire))
    /\ UNCHANGED <<server, left, snapshot, own>>

\* The coalescing timer's callback.
TimerFires ==
    /\ live.timer
    /\ live' = StartRead([live EXCEPT !.timer = FALSE])
    /\ reads' = Refresh(None)
    /\ UNCHANGED <<server, wire, left, snapshot, own>>

\* page.tsx asks for both lists at once; the answers are of their own moments.
ReadList(list) ==
    /\ reads # <<>>
    /\ Head(reads)[list] = {}
    /\ reads' = [reads EXCEPT ![1][list] =
                    {IF list = "columns" THEN ListColumns(truth) ELSE ListCards(truth)}]
    /\ missed' = (missed /\ Head(reads).columns \cup Head(reads).cards # {})
    /\ UNCHANGED <<truth, made, unpublished, wire, left, snapshot, live, own>>

\* Mutant of Retire: nothing is retired.
RetireNone(l) == l

\* The adjustment during render: what a read has started after is dropped.
Retire(l) == [l EXCEPT !.log = Keep(@, {e \in ToSet(@) : e.stamp >= l.readsStarted})]

\* The page is rendered from the read: a transition that asked for it ends.
Render ==
    /\ reads # <<>>
    /\ LET read == Head(reads) IN
        /\ read.columns # {} /\ read.cards # {}
        /\ \E columns \in read.columns, cards \in read.cards :
            snapshot' = GroupCards(columns, cards)
        /\ live' = Retire(live)
        /\ reads' = Tail(reads)
        /\ writes' = [i \in DOMAIN writes |->
                        IF i = read.by THEN [writes[i] EXCEPT !.phase = "over"]
                        ELSE writes[i]]
    /\ UNCHANGED <<server, wire, left, tail, hand>>

-----------------------------------------------------------------------------
(* board-mutation.ts and card-moves.ts *)

\* Who waits: the client's phase, and what the request itself is doing, which may
\* outlive it.  settled: its promise of useCardMoves, resolved with accepted.  behind
\* and row are history: the moves of the card not settled by then, the row it made.
Write(change, gate, behind) ==
    [change |-> change, gate |-> gate, behind |-> behind, row |-> None,
     accepted |-> FALSE, settled |-> FALSE,
     phase |-> IF gate = None THEN "waiting" ELSE "gated",
     request |-> IF gate = None THEN "sent" ELSE "none"]

Unsettled(cardId) ==
    {i \in DOMAIN writes : /\ writes[i].change.kind = "card.moved"
                           /\ writes[i].change.cardId = cardId
                           /\ ~writes[i].settled}

\* useCardMoves
SendMove(move) ==
    /\ Spend("moves")
    /\ writes' = Append(writes, Write(move, tail[move.cardId], Unsettled(move.cardId)))
    /\ tail' = [tail EXCEPT ![move.cardId] = Len(writes) + 1]

\* Mutant of Release: the entry goes even when somebody queued behind this move.
ReleaseAny(i) ==
    LET c == writes[i].change
    IN  tail' = IF c.kind = "card.moved" THEN [tail EXCEPT ![c.cardId] = None] ELSE tail

\* onSettled: the queue's entry goes, unless somebody has queued behind.
Release(i) ==
    LET c == writes[i].change
    IN  tail' = IF c.kind = "card.moved" /\ tail[c.cardId] = i
                THEN [tail EXCEPT ![c.cardId] = None] ELSE tail

\* The gate's promise is resolved: false abandons the request.
PassGate(i) ==
    /\ writes[i].phase = "gated" /\ writes[writes[i].gate].settled
    /\ IF writes[writes[i].gate].accepted
       THEN /\ writes' = [writes EXCEPT ![i].phase = "waiting", ![i].request = "sent"]
            /\ UNCHANGED tail
       ELSE /\ writes' = [writes EXCEPT ![i].phase = "over", ![i].settled = TRUE]
            /\ Release(i)
    /\ UNCHANGED <<server, wire, left, screen, hand>>

\* What the API says to a write, in the order its handlers look.
Verdict(change) ==
    LET on(k) == HasColumn(truth, k)
        to == truth.columns[IndexOf(truth.columns, change.columnId)]
        beside == IF change.kind = "card.moved"
                  THEN Without(to.cards, change.cardId)
                  ELSE Without(truth.columns, change.columnId)
    IN  CASE change.kind = "card.created" ->
                IF on(change.card.columnId) THEN "ok" ELSE "notFound"
          [] change.kind = "column.created" -> "ok"
          [] change.kind \in {"column.renamed", "column.deleted"} ->
                IF on(change.columnId) THEN "ok" ELSE "notFound"
          [] change.kind \in {"card.moved", "column.moved"} ->
                IF IsPendingId(change.after) THEN "refused"
                ELSE IF \/ ~on(change.columnId)
                        \/ change.kind = "card.moved" /\ ~HasCard(truth, change.cardId)
                THEN "notFound"
                ELSE IF change.after = First \/ IndexOf(beside, change.after) # 0
                THEN "ok" ELSE "conflict"

\* The row the database makes of a create has an id of its own.
Stored(change) ==
    CASE change.kind = "card.created" -> [change EXCEPT !.card.id = made + 1]
      [] change.kind = "column.created" -> [change EXCEPT !.column.id = made + 1]
      [] OTHER -> change

HandleRequest(i) ==
    /\ writes[i].request = "sent"
    /\ LET verdict == Verdict(writes[i].change) IN
        /\ writes' = [writes EXCEPT ![i].request = verdict,
                        ![i].row = IF verdict = "ok" /\ Creates(writes[i].change)
                                   THEN made + 1 ELSE None]
        /\ IF verdict = "ok" THEN Commit(Stored(writes[i].change), i)
           ELSE UNCHANGED <<truth, made, unpublished>>
    /\ UNCHANGED <<missed, wire, left, screen, tail, hand>>

\* Mutant of Answered: a move that failed is not settled.
AnsweredOk(i, accepted, refreshes) ==
    /\ writes' = [writes EXCEPT ![i].accepted = accepted, ![i].settled = accepted,
                                ![i].phase = IF refreshes THEN "landing" ELSE "over"]
    /\ IF accepted THEN Release(i) ELSE UNCHANGED tail
    /\ reads' = IF refreshes THEN Refresh(i) ELSE reads

\* What run does with the answer, onSettled included.
Answered(i, accepted, refreshes) ==
    /\ writes' = [writes EXCEPT ![i].accepted = accepted, ![i].settled = TRUE,
                                ![i].phase = IF refreshes THEN "landing" ELSE "over"]
    /\ Release(i)
    /\ reads' = IF refreshes THEN Refresh(i) ELSE reads

Answer(i) ==
    /\ writes[i].phase = "waiting"
    /\ writes[i].request \notin {"none", "sent"}
    /\ \A u \in unpublished : u.by # i
    /\ LET verdict == writes[i].request IN
        Answered(i, verdict = "ok",
                 \/ verdict = "ok"
                 \/ verdict = "conflict" /\ writes[i].change.kind = "card.moved")
    /\ UNCHANGED <<server, wire, left, snapshot, live, hand>>

\* A timeout or a network failure: the request may be served all the same.
AnswerLost(i) ==
    /\ Happens
    /\ writes[i].phase = "waiting"
    /\ Answered(i, FALSE, FALSE)
    /\ UNCHANGED <<server, wire, snapshot, live, hand>>

\* CardComposer and ColumnComposer.  Each is busy while its transition is pending, but
\* there is one in every column, and one that is closed and opened again is not.
Composed ==
    LET id == -(Len(writes) + 1) IN
        {[kind |-> "card.created", card |-> NewCard(id, k)] : k \in SettledColumns(Shown)}
        \cup {[kind |-> "column.created", column |-> Entry(id, "made", <<>>)]}

\* ColumnActions, of a column on screen: a name that is not its name, a place beside
\* one of its neighbours, or none.  A neighbour may still be pending.
Arranged ==
    UNION {LET name == Shown.columns[IndexOf(Shown.columns, k)].name IN
           {[kind |-> "column.renamed", columnId |-> k, name |-> n] : n \in {"mine"} \ {name}}
           \cup {[kind |-> "column.deleted", columnId |-> k]}
           \cup MoveAnchor(Shown.columns, k, "left")
           \cup MoveAnchor(Shown.columns, k, "right") : k \in SettledColumns(Shown)}

Submit(change) ==
    /\ writes' = Append(writes, Write(change, None, {}))
    /\ UNCHANGED <<server, wire, screen, tail, hand>>

Compose == Spend("creates") /\ \E change \in Composed : Submit(change)
Arrange == Spend("columns") /\ \E change \in Arranged : Submit(change)

-----------------------------------------------------------------------------
(* board-view.tsx: the move being proposed *)

Hold(lifted, dragging, proposal) ==
    hand' = [lifted |-> lifted, dragging |-> dragging, proposal |-> proposal]
LetGo == Hold(None, None, <<>>)

\* commit: a move that changes nothing is not sent.
CommitMove(move) ==
    IF IsRedundantMove(Optimistic, move) THEN UNCHANGED sending
    ELSE SendMove(move)

HandMoves == UNCHANGED <<server, wire, screen>>

\* The grip of a card on screen, pressed.
Lift(c) ==
    /\ hand.dragging = None /\ hand.lifted # c
    /\ Hold(c, None, <<>>)
    /\ HandMoves /\ UNCHANGED sending

Nudge(direction) ==
    /\ hand.lifted \in CardsOf(Shown)
    /\ \E move \in CardNudge(Shown, hand.lifted, direction) :
        Hold(hand.lifted, None, <<move>>)
    /\ HandMoves /\ UNCHANGED sending

KeyboardDrop ==
    /\ hand.lifted \in CardsOf(Shown)
    /\ LetGo
    /\ IF hand.proposal = <<>> THEN UNCHANGED sending
       ELSE CommitMove(Head(hand.proposal))
    /\ HandMoves

KeyboardCancel ==
    /\ hand.lifted \in CardsOf(Shown)
    /\ LetGo
    /\ HandMoves /\ UNCHANGED sending

DragStart(c) ==
    /\ hand.dragging = None
    /\ Hold(None, c, <<>>)
    /\ HandMoves /\ UNCHANGED sending

\* What the pointer may be over: the acknowledged cards, and every column.
Over == {[kind |-> "card", id |-> c] : c \in SettledCards(Shown)}
        \cup {[kind |-> "column", id |-> e.id] : e \in ToSet(Shown.columns)}

\* Only a drag into another column is drawn here.
DragOver(over, past) ==
    /\ hand.dragging # None
    /\ \E move \in CardDropTarget(Shown, hand.dragging, over, past) :
        /\ move.columnId # Shown.columns[ColumnOf(Shown, hand.dragging)].id
        /\ Hold(None, hand.dragging, <<move>>)
    /\ HandMoves /\ UNCHANGED sending

Drop(over, past) ==
    /\ hand.dragging # None
    /\ LetGo
    /\ LET target == CardDropTarget(Shown, hand.dragging, over, past)
           move == IF target # {} THEN target ELSE ToSet(hand.proposal)
       IN  \/ move = {} /\ UNCHANGED sending
           \/ \E m \in move : CommitMove(m)
    /\ HandMoves

\* Escape, or let go outside every column.
DragCancel ==
    /\ hand.dragging # None
    /\ LetGo
    /\ HandMoves /\ UNCHANGED sending

-----------------------------------------------------------------------------
Init ==
    /\ \E start \in Start : truth = start.board /\ left = start.budget
    /\ made = FirstMade
    /\ unpublished = {}
    /\ wire = <<>>
    /\ missed = FALSE
    /\ snapshot = truth
    /\ live = [log |-> <<>>, readsStarted |-> 0, timer |-> FALSE]
    /\ reads = <<>>
    /\ writes = <<>>
    /\ tail = [c \in Handled |-> None]
    /\ hand = [lifted |-> None, dragging |-> None, proposal |-> <<>>]

Gesture ==
    \/ left.moves > 0 /\ \E c \in Handled \cap CardsOf(Shown) : Lift(c) \/ DragStart(c)
    \/ hand.lifted # None /\ \/ \E direction \in Direction : Nudge(direction)
                             \/ KeyboardDrop \/ KeyboardCancel
    \/ hand.dragging # None /\ \/ \E over \in Over, past \in BOOLEAN :
                                    DragOver(over, past) \/ Drop(over, past)
                               \/ DragCancel

\* Timers fire, promises settle, requests are served and answered, and a read that
\* is complete is rendered.  The program and its server see to each of these.
Runs ==
    \/ Deliver \/ TimerFires \/ Render
    \/ \E u \in unpublished : Publish(u)
    \/ \E list \in {"columns", "cards"} : ReadList(list)
    \/ \E i \in DOMAIN writes : PassGate(i) \/ HandleRequest(i) \/ Answer(i)

Next ==
    \/ Runs \/ OtherWrites \/ StreamDrops \/ Compose \/ Arrange \/ Gesture
    \/ \E i \in DOMAIN writes : AnswerLost(i)

Spec == Init /\ [][Next]_vars

-----------------------------------------------------------------------------
\* A column that the first page had, that the board still has, and that this user has not
\* asked to delete.
Lasting(k) ==
    /\ k <= FirstMade /\ HasColumn(truth, k)
    /\ \A j \in DOMAIN writes : LET c == writes[j].change IN
           c.kind = "column.deleted" => c.columnId # k

(* Nothing is drawn twice: no card, when an event is replayed over a read that has it;
   nor, beside its own stand-in, the row of a create of this user, which its event never
   shows while the write is still pending (only a read may).  The second is said of a
   column that lasts: one can go from the screen, its pending card with it, when the log
   is dropped or retired by an older read, or when its own delete is asked for and lost;
   and be drawn again beside the row. *)
DrawnOnce == LET shown == Shown
                 cards == ListCards(shown) IN
    /\ Cardinality({cards[i].id : i \in DOMAIN cards}) = Len(cards)
    /\ \A i \in DOMAIN writes : LET c == writes[i].change IN
        /\ writes[i].row # None /\ writes[i].phase # "over"
        /\ c.kind = "card.created" => Lasting(c.card.columnId)
        /\ writes[i].row \notin IdsOf(snapshot)
        => ~({-i, writes[i].row} \subseteq IdsOf(shown))

(* What the database has not acknowledged stays apart: pending cards are at the bottom
   of their column, whatever is moved, created or read around them (mutations.ts,
   anchorAt), and no request names one, however the board changed under the gesture
   that made it. *)
StandInsAside == LET shown == Shown IN
    /\ \A i \in DOMAIN shown.columns : LET cards == shown.columns[i].cards IN
        \A j \in 1..(Len(cards) - 1) :
            IsPendingId(cards[j].id) => IsPendingId(cards[j + 1].id)
    /\ \A i \in DOMAIN writes : LET c == writes[i].change IN
        c.kind = "card.moved" => c.cardId > 0 /\ c.columnId > 0 /\ c.after >= 0

(* A card's moves reach the API one at a time and in the user's order, and one made
   while another was unsettled never does if that one is refused.  (A move made when
   the refusal has come is a new one, although the refused one may still be drawn.) *)
MovesQueue ==
    \A i \in DOMAIN writes :
        writes[i].request # "none" => \A j \in writes[i].behind : writes[j].accepted

\* The cards of a column the server has.
Settled(cards) == Keep(cards, {c \in ToSet(cards) : ~IsPendingId(c.id)})

(* What is drawn is what is done.  Within a column the drop is where the drag library
   drew it: the acknowledged cards are left as they are when the dragged one takes the
   index it is over.  And a drop that is judged to change nothing, and so is not sent,
   leaves the card where it is shown: the screen and the proposal drawn on it agree. *)
DropsWhereDrawn ==
    /\ hand.dragging # None /\ hand.proposal = <<>> => LET shown == Shown IN
        \A i \in DOMAIN shown.columns :
            LET cards == Settled(shown.columns[i].cards)
                from == IndexOf(cards, hand.dragging)
            IN  from # 0 => \A to \in DOMAIN cards \ {from}, past \in BOOLEAN :
                    LET over == [kind |-> "card", id |-> cards[to].id]
                        dropped == FoldSet(LAMBDA m, s : ApplyBoardChange(s, m), shown,
                                           CardDropTarget(shown, hand.dragging, over, past))
                    IN  Settled(dropped.columns[i].cards)
                            = InsertAt(RemoveAt(cards, from), to, cards[from])
    /\ hand.proposal # <<>> /\ IsRedundantMove(Optimistic, Head(hand.proposal))
        => Shown = Optimistic

\* None of Runs can be taken.  Every step of Runs uses up something an edit, a write
\* or a fault left, so unless the user acts for ever a screen gets here.
Quiet ==
    /\ wire = <<>> /\ unpublished = {} /\ reads = <<>> /\ ~live.timer
    /\ \A i \in DOMAIN writes :
        /\ writes[i].request # "sent"
        /\ writes[i].phase # "waiting"
        /\ writes[i].phase = "gated" => ~writes[writes[i].gate].settled

(* Every queue drains: a move that is refused, lost or abandoned never wedges the
   card, and no write is left waiting for what will not come. *)
QueueDrains == Quiet => \A i \in DOMAIN writes : writes[i].phase = "over"

(* The screen comes to show the board as it is, out of the read alone: the live
   log is empty, and all it and the optimistic edits drew is in the read. *)
Converges == Quiet => live.log = <<>> /\ (missed \/ Optimistic = truth)
=============================================================================
