----------------------------- MODULE BoardModel -----------------------------
(***************************************************************************)
(* The pure functions a board screen is computed with: how two lists make  *)
(* a board (lib/board/snapshot.ts), what an edit does to it and where a    *)
(* gesture puts a card (lib/board/mutations.ts), and what somebody else's  *)
(* event does (lib/realtime/apply.ts).                                     *)
(*                                                                         *)
(* An id is a positive number when the server issued it and a negative one *)
(* when this client invented it; 0 is the null anchor, "first".  A card's  *)
(* title, description, assignee and due date are one text.  What           *)
(* TypeScript writes as undefined or null is the empty set of moves.       *)
(***************************************************************************)
EXTENDS Integers, Sequences, SequencesExt, FiniteSets

First == 0

NewCard(id, columnId) == [id |-> id, columnId |-> columnId, text |-> "made"]

\* ColumnWithCards, its column's id and name beside its cards.
Entry(id, name, cards) == [id |-> id, name |-> name, cards |-> cards]

IsPendingId(id) == id < 0

\* filter: the elements of seq that are in S, in their order.
Keep(seq, S) ==
    FoldLeft(LAMBDA kept, x : IF x \in S THEN Append(kept, x) ELSE kept, <<>>, seq)

-----------------------------------------------------------------------------
(* snapshot.ts *)

\* groupCardsIntoColumns: cards is the whole board's list.
GroupCards(columns, cards) ==
    LET ids == {columns[i].id : i \in DOMAIN columns}
    IN  [columns |-> [i \in DOMAIN columns |->
            Entry(columns[i].id, columns[i].name,
                  Keep(cards, {c \in ToSet(cards) : c.columnId = columns[i].id}))],
         unplaced |-> Keep(cards, {c \in ToSet(cards) : c.columnId \notin ids})]

\* The two lists a board is read as: GET /boards/:id/columns and .../cards.
ListColumns(s) == [i \in DOMAIN s.columns |->
                    [id |-> s.columns[i].id, name |-> s.columns[i].name]]
ListCards(s) == FlattenSeq([i \in DOMAIN s.columns |-> s.columns[i].cards])

-----------------------------------------------------------------------------
(* mutations.ts: an edit *)

IndexOf(seq, id) == SelectInSeq(seq, LAMBDA x : x.id = id)
Without(cards, id) == Keep(cards, {c \in ToSet(cards) : c.id # id})

\* locate: the column's index, 0 when the card is in no column.
ColumnOf(s, id) == SelectInSeq(s.columns, LAMBDA e : IndexOf(e.cards, id) # 0)

Snapshot(columns, unplaced) == [columns |-> columns, unplaced |-> unplaced]
MapColumns(s, map(_)) == Snapshot([i \in DOMAIN s.columns |-> map(s.columns[i])], s.unplaced)
WithCards(e, cards) == Entry(e.id, e.name, cards)

\* Re-inserts after a named neighbour, resolved when the column is lifted out.
MoveColumn(columns, change) ==
    LET from == IndexOf(columns, change.columnId)
        rest == RemoveAt(columns, from)
        at == IndexOf(rest, change.after)
    IN  IF from = 0 \/ (at = 0 /\ change.after # First) THEN columns
        ELSE InsertAt(rest, at + 1, columns[from])

MoveCard(s, change) ==
    LET from == ColumnOf(s, change.cardId)
        to == IndexOf(s.columns, change.columnId)
        moving == s.columns[from].cards[IndexOf(s.columns[from].cards, change.cardId)]
        rest(i) == Without(s.columns[i].cards, change.cardId)
        at == IndexOf(rest(to), change.after)
        placed == InsertAt(rest(to), at + 1, [moving EXCEPT !.columnId = change.columnId])
    IN  IF from = 0 \/ to = 0 THEN s.columns
        ELSE IF at = 0 /\ change.after # First THEN s.columns
        ELSE [i \in DOMAIN s.columns |->
                WithCards(s.columns[i], IF i = to THEN placed ELSE rest(i))]

\* applyBoardChange: a change whose subject is missing changes nothing.
ApplyBoardChange(s, change) ==
    CASE change.kind = "card.created" ->
            MapColumns(s, LAMBDA e : IF e.id = change.card.columnId
                                     THEN WithCards(e, Append(e.cards, change.card))
                                     ELSE e)
      [] change.kind = "card.updated" ->
            MapColumns(s, LAMBDA e : WithCards(e, [i \in DOMAIN e.cards |->
                IF e.cards[i].id = change.cardId
                THEN [e.cards[i] EXCEPT !.text = change.text] ELSE e.cards[i]]))
      [] change.kind = "card.deleted" ->
            MapColumns(s, LAMBDA e : WithCards(e, Without(e.cards, change.cardId)))
      [] change.kind = "card.moved" -> Snapshot(MoveCard(s, change), s.unplaced)
      [] change.kind = "column.created" ->
            Snapshot(Append(s.columns, change.column), s.unplaced)
      [] change.kind = "column.renamed" ->
            MapColumns(s, LAMBDA e : IF e.id = change.columnId
                                     THEN Entry(e.id, change.name, e.cards) ELSE e)
      [] change.kind = "column.deleted" ->
            Snapshot(Keep(s.columns, {e \in ToSet(s.columns) : e.id # change.columnId}), s.unplaced)
      [] change.kind = "column.moved" -> Snapshot(MoveColumn(s.columns, change), s.unplaced)

-----------------------------------------------------------------------------
(* mutations.ts: where a gesture puts a card *)

CardMove(cardId, columnId, after) ==
    [kind |-> "card.moved", cardId |-> cardId, columnId |-> columnId, after |-> after]

\* Mutant of AnchorAt: a card the server has not acknowledged is an anchor.
AnchorAtAny(cards, n) ==
    LET at == IF n < Len(cards) THEN n ELSE Len(cards)
    IN  IF at = 0 THEN First ELSE cards[at].id

\* anchorAt: the last acknowledged card among the first n.
AnchorAt(cards, n) ==
    LET at == SelectLastInSubSeq(cards, 1, IF n < Len(cards) THEN n ELSE Len(cards),
                                 LAMBDA c : ~IsPendingId(c.id))
    IN  IF at = 0 THEN First ELSE cards[at].id

IsRedundantMove(s, move) ==
    LET from == ColumnOf(s, move.cardId)
        entry == s.columns[from]
        index == IndexOf(entry.cards, move.cardId)
    IN  \/ move.after = move.cardId
        \/ from = 0
        \/ /\ entry.id = move.columnId
           /\ AnchorAt(Without(entry.cards, move.cardId), index - 1) = move.after

Direction == {"up", "down", "left", "right"}

\* The column a sideways nudge reaches: pending ones are passed over.
Neighbour(s, from, direction) ==
    IF direction = "left"
    THEN SelectLastInSubSeq(s.columns, 1, from - 1, LAMBDA e : ~IsPendingId(e.id))
    ELSE SelectInSubSeq(s.columns, from + 1, Len(s.columns),
                        LAMBDA e : ~IsPendingId(e.id))

\* cardNudge
CardNudge(s, cardId, direction) ==
    LET from == ColumnOf(s, cardId)
        entry == s.columns[from]
        index == IndexOf(entry.cards, cardId)
        rest == Without(entry.cards, cardId)
        row == IF direction = "up" THEN index - 1 ELSE index + 1
        to == Neighbour(s, from, direction)
        into == s.columns[to]
    IN  IF from = 0 THEN {}
        ELSE IF direction \in {"up", "down"}
        THEN IF row < 1 \/ row > Len(entry.cards) THEN {}
             ELSE {CardMove(cardId, entry.id, AnchorAt(rest, row - 1))}
        ELSE IF to = 0 THEN {}
        ELSE {CardMove(cardId, into.id, AnchorAt(into.cards, index - 1))}

\* Mutant of CardDropTarget: within a column too, the pointer's side decides.
CardDropTargetBySide(s, cardId, over, past) ==
    LET overColumn == over.kind = "column"
        to == IF overColumn THEN IndexOf(s.columns, over.id) ELSE ColumnOf(s, over.id)
        into == s.columns[to]
        rest == Without(into.cards, cardId)
        n == IF overColumn THEN Len(rest)
             ELSE IndexOf(rest, over.id) - (IF past THEN 0 ELSE 1)
    IN  IF ColumnOf(s, cardId) = 0 \/ to = 0 \/ over = [kind |-> "card", id |-> cardId]
        THEN {}
        ELSE IF IsPendingId(into.id) THEN {}
        ELSE {CardMove(cardId, into.id, AnchorAt(rest, n))}

\* cardDropTarget: over is the card or the column under the pointer, past the side.
CardDropTarget(s, cardId, over, past) ==
    LET from == ColumnOf(s, cardId)
        overColumn == over.kind = "column"
        to == IF overColumn THEN IndexOf(s.columns, over.id) ELSE ColumnOf(s, over.id)
        into == s.columns[to]
        rest == Without(into.cards, cardId)
        below == IF from = to
                 THEN IndexOf(into.cards, cardId) < IndexOf(into.cards, over.id)
                 ELSE past
        n == IF overColumn THEN Len(rest)
             ELSE IndexOf(rest, over.id) - (IF below THEN 0 ELSE 1)
    IN  IF from = 0 \/ to = 0 \/ over = [kind |-> "card", id |-> cardId] THEN {}
        ELSE IF IsPendingId(into.id) THEN {}
        ELSE {CardMove(cardId, into.id, AnchorAt(rest, n))}

\* moveAnchor: the column move that takes a column one place to a side.
MoveAnchor(columns, columnId, direction) ==
    LET i == IndexOf(columns, columnId)
        ends == IF direction = "left" THEN i = 1 ELSE i = Len(columns)
        anchor == IF direction = "right" THEN columns[i + 1].id
                  ELSE IF i = 2 THEN First ELSE columns[i - 2].id
    IN  IF i = 0 \/ ends THEN {}
        ELSE {[kind |-> "column.moved", columnId |-> columnId, after |-> anchor]}

-----------------------------------------------------------------------------
(* apply.ts: somebody else's event *)

HasCard(s, id) == ColumnOf(s, id) # 0 \/ IndexOf(s.unplaced, id) # 0
HasColumn(s, id) == IndexOf(s.columns, id) # 0

\* changeFor: the change an event implies, if it implies one.
ChangeFor(event) ==
    IF event.kind \in {"board.updated", "board.deleted"} THEN {}
    ELSE IF event.kind = "column.updated" THEN {[event EXCEPT !.kind = "column.renamed"]}
    ELSE {event}

ApplyLiveEvent(s, event) ==
    IF \/ event.kind = "card.created" /\ HasCard(s, event.card.id)
       \/ event.kind = "column.created" /\ HasColumn(s, event.column.id)
       \/ ChangeFor(event) = {}
    THEN s
    ELSE ApplyBoardChange(s, CHOOSE c \in ChangeFor(event) : TRUE)

ApplyLiveLog(s, events) == FoldLeft(ApplyLiveEvent, s, events)
=============================================================================
