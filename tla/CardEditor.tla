----------------------------- MODULE CardEditor -----------------------------
(***************************************************************************)
(* The panel of one open card (components/boards/card-detail.tsx): reading *)
(* it, editing it in a form, deleting it, while other users save the same  *)
(* card and their saves reach this screen.                                 *)
(*                                                                         *)
(* A title is a number above 0 (an empty one is refused), a description or *)
(* an assignee a number, 0 for none.  A due date is 0 for none, or counts  *)
(* half minutes from 2, so that d \div 2 is all the form's control shows   *)
(* of it (lib/board/due.ts).                                               *)
(***************************************************************************)
EXTENDS Integers, TLC

CONSTANT MaxOthers      \* bound: saves and deletes by other users

Values == [title |-> 1..2, description |-> 0..1, assignee |-> 0..1, due |-> {0, 2, 3, 4}]
Fields == DOMAIN Values
Inputs == [title |-> 0..2, description |-> 0..1, assignee |-> 0..1, due |-> 0..2]

VARIABLES
    card,       \* the row
    exists,     \* the row has not been deleted
    seen,       \* the card prop but for this user's own edit in flight
    shown,      \* the card is on the board this screen shows
    mode,       \* of CardDetail: "read", "edit" or "delete"
    form,       \* what CardEditor's controls hold
    typed,      \* history: the fields the user has typed in since Edit was pressed
    request,    \* of useBoardMutation: what is in flight, a patch or "delete" or "none"
    others      \* how often other users have acted

row == <<card, exists>>
panel == <<mode, form, typed, request>>
vars == <<row, seen, shown, panel, others>>

NoPatch == <<>>         \* the patch of no field
None == [kind |-> "none", body |-> NoPatch]

-----------------------------------------------------------------------------
(* due.ts and rules.ts *)

DueToInput(due) == due \div 2
DueFromInput(value) == 2 * value
SameDue(a, b) == DueToInput(a) = DueToInput(b)

\* What the controls start from, and what they say at the end.
ToForm(c) == [c EXCEPT !.due = DueToInput(@)]
FromForm(f) == [f EXCEPT !.due = DueFromInput(@)]

Differs(current, next, f) ==
    IF f = "due" THEN ~SameDue(next[f], current[f]) ELSE next[f] # current[f]

CardChanged(current, next) == \E f \in Fields : Differs(current, next, f)

-----------------------------------------------------------------------------
(* Other users, and what this screen hears of the row (external). *)

OtherActs ==
    /\ others < MaxOthers /\ exists
    /\ others' = others + 1
    /\ \/ /\ \E f \in Fields : \E v \in Values[f] : card' = [card EXCEPT ![f] = v]
          /\ UNCHANGED exists
       \/ exists' = FALSE /\ UNCHANGED card
    /\ UNCHANGED <<seen, shown, panel>>

\* An event or a read brings the row as it is; the panel of a card that is gone
\* is replaced by CardNotOnBoard.
Arrives ==
    /\ shown
    /\ seen' = card /\ shown' = exists
    /\ IF exists THEN UNCHANGED <<mode, form, typed>>
       ELSE mode' = "read" /\ form' = ToForm(card) /\ typed' = {}
    /\ UNCHANGED <<row, request, others>>

-----------------------------------------------------------------------------
(* CardDetail *)

Show(m) == mode' = m
Idle == request.kind = "none"

\* A delete is drawn at once: the panel is gone until it is refused.
Visible == shown /\ request.kind # "delete"

\* CardEditor mounts: its state is initialised from the card of this render.
PressEdit ==
    /\ Visible /\ mode = "read"
    /\ Show("edit")
    /\ form' = ToForm(seen) /\ typed' = {}
    /\ UNCHANGED <<row, seen, shown, request, others>>

PressDelete ==
    /\ Visible /\ mode = "read"
    /\ Show("delete")
    /\ UNCHANGED <<row, seen, shown, form, typed, request, others>>

\* Cancel and Keep it, disabled while pending.
GoBack ==
    /\ mode # "read" /\ Idle
    /\ Show("read")
    /\ UNCHANGED <<row, seen, shown, form, typed, request, others>>

-----------------------------------------------------------------------------
(* CardEditor and ConfirmCardDelete *)

Type(f) ==
    /\ mode = "edit" /\ Idle
    /\ \E v \in Inputs[f] : form' = [form EXCEPT ![f] = v]
    /\ typed' = typed \cup {f}
    /\ UNCHANGED <<row, seen, shown, mode, request, others>>

\* The fields that differ, and nothing else.
Patch(current, next) ==
    [f \in {g \in Fields : Differs(current, next, g)} |-> next[f]]

\* handleSubmit
HandleSubmit ==
    /\ mode = "edit" /\ Idle
    /\ form.title # 0
    /\ LET next == FromForm(form) IN
        IF CardChanged(seen, next)
        THEN /\ request' = [kind |-> "patch", body |-> Patch(seen, next)]
             /\ UNCHANGED mode
        ELSE Show("read") /\ UNCHANGED request
    /\ UNCHANGED <<row, seen, shown, form, typed, others>>

HandleDelete ==
    /\ mode = "delete" /\ Idle
    /\ request' = [kind |-> "delete", body |-> NoPatch]
    /\ Show("read")
    /\ UNCHANGED <<row, seen, shown, form, typed, others>>

\* PATCH and DELETE /cards/:id, answered; on success the board is read again and the
\* transition ends when the page has been rendered from that.
Succeeds ==
    /\ ~Idle /\ exists
    /\ IF request.kind = "patch" THEN card' = request.body @@ card /\ UNCHANGED exists
       ELSE exists' = FALSE /\ UNCHANGED card
    /\ seen' = card' /\ shown' = exists'
    /\ request' = None
    /\ Show("read")
    /\ UNCHANGED <<form, typed, others>>

\* Refused or not answered: the form stays as it was, and may be sent again.
Fails ==
    /\ ~Idle
    /\ request' = None
    /\ UNCHANGED <<row, seen, shown, mode, form, typed, others>>

-----------------------------------------------------------------------------
Init ==
    /\ card = [title |-> 1, description |-> 0, assignee |-> 0, due |-> 3]
    /\ exists = TRUE
    /\ seen = card /\ shown = TRUE
    /\ mode = "read" /\ form = ToForm(card) /\ typed = {}
    /\ request = None
    /\ others = 0

Next ==
    \/ OtherActs \/ Arrives
    \/ PressEdit \/ PressDelete \/ GoBack
    \/ \E f \in Fields : Type(f)
    \/ HandleSubmit \/ HandleDelete \/ Succeeds \/ Fails

Spec == Init /\ [][Next]_vars

-----------------------------------------------------------------------------
(* Saving the form changes no field of the row that the user has not typed in: the
   difference between renaming a card and overwriting a colleague's description
   (card-detail.tsx:276-279 and 392-394). *)
OthersEditsKept ==
    [][Succeeds /\ request.kind = "patch"
            => \A f \in Fields \ typed : card'[f] = card[f]]_vars
=============================================================================
