---------------------------- MODULE BoardProofs -----------------------------
(***************************************************************************)
(* A user's board, for any page it starts from, any cards that are picked  *)
(* up and any number of edits: the safety properties of Board.             *)
(*                                                                         *)
(* The queues.  A move is made behind the moves of its card that are not   *)
(* settled, and waits for the last of them, which is behind the others;    *)
(* tail has that last one, until it is settled and nobody has queued.  So  *)
(* whoever is sent has all it is behind accepted, and of those that wait   *)
(* the oldest has nothing left to wait for but an answer or a read on its  *)
(* way.                                                                    *)
(*                                                                         *)
(* The boards.  What an edit or an event leaves are columns that were      *)
(* there, with cards that were in them: so a board stays well made, and a  *)
(* pending card last in its column, through any sequence of them.  The     *)
(* layers of the screen are made of ids that were given out; an event that *)
(* was applied is of a read that is not over, or a read of it is due; and  *)
(* either the screen is of the board as it is or a read of it is due.      *)
(*                                                                         *)
(* The drafts.  Nothing said or read of the board denies a column of the   *)
(* first page that the board still has, and the log has not the row of a   *)
(* create that is drawn: an event that makes one waits while anything      *)
(* pending is on the screen.                                               *)
(*                                                                         *)
(* The drops.  A card that is put before or after a card of its column     *)
(* leaves the acknowledged ones as carrying it there does.                 *)
(***************************************************************************)
EXTENDS Board, FoldLemmas, SequenceTheorems, FiniteSetTheorems

-----------------------------------------------------------------------------
(* Sequences of anything. *)

Listed(s) == \E S : s \in Seq(S)

(* A sequence is a function on its indices, *)
LEMMA ListedIs ==
    ASSUME NEW s, Listed(s)
    PROVE  /\ Len(s) \in Nat /\ DOMAIN s = 1..Len(s)
           /\ s = [k \in 1..Len(s) |-> s[k]]
BY DEF Listed

(* and the converse. *)
LEMMA ListedOf ==
    ASSUME NEW s, NEW n \in Nat, DOMAIN s = 1..n, s = [k \in 1..n |-> s[k]]
    PROVE  Listed(s) /\ Len(s) = n
<1> DEFINE S == {s[k] : k \in 1..n}
<1>1. s \in [1..n -> S]
  OBVIOUS
<1>2. s \in Seq(S) /\ Len(s) = n
  BY <1>1
<1> QED  BY <1>2 DEF Listed

(* One element more, and one fewer. *)
LEMMA ListedAppend ==
    ASSUME NEW s, Listed(s), NEW e
    PROVE  /\ Listed(Append(s, e)) /\ Len(Append(s, e)) = Len(s) + 1
           /\ \A k \in 1..(Len(s) + 1) : Append(s, e)[k] = IF k = Len(s) + 1 THEN e ELSE s[k]
<1>1. PICK S : s \in Seq(S)
  BY DEF Listed
<1>2. s \in Seq(S \cup {e}) /\ e \in S \cup {e}
  BY <1>1, SeqMonotonic
<1>3. Append(s, e) \in Seq(S \cup {e})
  BY <1>2
<1> QED  BY <1>2, <1>3 DEF Listed

LEMMA ListedTail ==
    ASSUME NEW s, Listed(s), s # <<>>
    PROVE  /\ Listed(Tail(s)) /\ Len(s) \in Nat \ {0} /\ Len(Tail(s)) = Len(s) - 1
           /\ Head(s) = s[1] /\ \A k \in 1..(Len(s) - 1) : Tail(s)[k] = s[k + 1]
<1>1. PICK S : s \in Seq(S)
  BY DEF Listed
<1>2. Tail(s) \in Seq(S)
  BY <1>1
<1> QED  BY <1>1, <1>2 DEF Listed

LEMMA ListedEmpty == Listed(<<>>) /\ Len(<<>>) = 0 /\ DOMAIN <<>> = {}
<1>1. <<>> \in Seq({})
  OBVIOUS
<1> QED  BY <1>1 DEF Listed

-----------------------------------------------------------------------------
(* The invariant. *)

IsMove(i) == writes[i].change.kind = "card.moved"

Phase == {"gated", "waiting", "landing", "over"}

\* What each write says of itself.  A promise is settled when the client stops
\* waiting; gate and behind are of the moment it was made.
Standing(i) == LET w == writes[i] IN
    /\ w.phase \in Phase
    /\ w.accepted \in BOOLEAN /\ w.settled \in BOOLEAN
    /\ w.accepted => w.settled
    /\ w.phase \in {"gated", "waiting"} <=> ~w.settled
    /\ w.phase = "gated" => w.gate # None

\* A gated move waits for the last of those it is behind, which is behind the others.
Chained(i) == LET w == writes[i] IN
    /\ w.behind \subseteq 1..(i - 1)
    /\ w.gate # None => /\ w.gate \in w.behind
                        /\ w.behind \subseteq writes[w.gate].behind \cup {w.gate}

\* A move is settled after those it is behind, and sent when they are accepted.
InTurn(i) == LET w == writes[i] IN
    /\ w.settled => \A j \in w.behind : writes[j].settled
    /\ w.request # "none" \/ w.phase = "waiting" \/ w.accepted
         => \A j \in w.behind : writes[j].accepted

\* A move is behind every earlier one of its card that is not settled.
Behind == \A i, j \in DOMAIN writes :
    /\ j < i /\ IsMove(i) /\ IsMove(j) /\ writes[i].change.cardId = writes[j].change.cardId
    /\ ~writes[j].settled
    => j \in writes[i].behind

\* tail has the last of a card's moves that are not settled.
Tails == \A c \in Handled :
    IF tail[c] = None THEN Unsettled(c) = {}
    ELSE tail[c] \in Unsettled(c) /\ \A j \in Unsettled(c) : j <= tail[c]

Moved == \A i \in DOMAIN writes : IsMove(i) => writes[i].change.cardId \in Handled

Queue ==
    /\ \A i \in DOMAIN writes : Standing(i) /\ Chained(i) /\ InTurn(i)
    /\ Behind /\ Tails /\ Moved

\* A read that a write asked for is rendered for a write that is settled, and a write that
\* waits to land waits for such a read.
Awaited ==
    /\ \A r \in DOMAIN reads : reads[r].by # None =>
           reads[r].by \in DOMAIN writes /\ writes[reads[r].by].settled
    /\ \A i \in DOMAIN writes : writes[i].phase = "landing" =>
           \E r \in DOMAIN reads : reads[r].by = i

\* What the hand holds is a card this user picked up, and so is what it proposes to move.
Held ==
    /\ hand.lifted \in Handled \cup {None} /\ hand.dragging \in Handled \cup {None}
    /\ \A k \in DOMAIN hand.proposal :
           /\ hand.proposal[k].kind = "card.moved" /\ hand.proposal[k].cardId \in Handled
    /\ Len(hand.proposal) <= 1

-----------------------------------------------------------------------------
(* The types.  What a change or a list is does not matter here. *)

Fields == {"change", "gate", "behind", "row", "accepted", "settled", "phase", "request"}

IsWrite(w) == DOMAIN w = Fields /\ w.gate \in Nat

IsRead(r) == DOMAIN r = {"by", "columns", "cards"}

Recorded ==
    /\ Listed(writes) /\ \A i \in DOMAIN writes : IsWrite(writes[i])
    /\ Listed(reads) /\ \A r \in DOMAIN reads : IsRead(reads[r])
    /\ tail \in [Handled -> Nat]
    /\ Listed(hand.proposal)

Inv == Recorded /\ Queue /\ Awaited /\ Held

-----------------------------------------------------------------------------
(* Steps of writes that are there. *)

\* The writes stay as they were made, and what one has come to it does not come back from.
Onward ==
    /\ Listed(writes') /\ DOMAIN writes' = DOMAIN writes
    /\ \A k \in DOMAIN writes :
        /\ IsWrite(writes'[k])
        /\ writes'[k].change = writes[k].change
        /\ writes'[k].gate = writes[k].gate
        /\ writes'[k].behind = writes[k].behind
        /\ writes[k].settled => writes'[k].settled
        /\ writes[k].accepted => writes'[k].accepted

\* Whoever is settled, sent or accepted now had its turn.
HadTurn(k) ==
    /\ writes'[k].settled => writes[k].settled \/ \A j \in writes[k].behind : writes[j].settled
    /\ writes'[k].request # "none" \/ writes'[k].phase = "waiting" \/ writes'[k].accepted
         => \/ writes[k].request # "none" \/ writes[k].phase = "waiting" \/ writes[k].accepted
            \/ \A j \in writes[k].behind : writes[j].accepted

\* The queues let go of whom is settled.
LetsGo ==
    tail' = [c \in Handled |-> IF tail[c] # None /\ writes'[tail[c]].settled
                               THEN None ELSE tail[c]]

LEMMA OnwardQueue ==
    ASSUME Recorded, Queue, Onward, LetsGo,
           \A k \in DOMAIN writes : Standing(k)' /\ HadTurn(k)
    PROVE  Queue' /\ tail' \in [Handled -> Nat]
<1>1. Len(writes) \in Nat /\ DOMAIN writes = 1..Len(writes)
  BY ListedIs DEF Recorded
<1>2. ASSUME NEW i \in DOMAIN writes'
      PROVE  Chained(i)'
  <2>1. i \in DOMAIN writes /\ i \in 1..Len(writes) /\ Chained(i) /\ writes[i].gate \in Nat
    BY <1>1, <1>2 DEF Onward, Queue, Recorded, IsWrite
  <2>2. writes[i].gate # None => writes[i].gate \in DOMAIN writes
    BY <1>1, <2>1 DEF Chained
  <2>3. writes'[i].gate = writes[i].gate /\ writes'[i].behind = writes[i].behind
    BY <2>1 DEF Onward
  <2>4. writes[i].gate # None => writes'[writes[i].gate].behind = writes[writes[i].gate].behind
    BY <2>2 DEF Onward
  <2> QED  BY <2>1, <2>3, <2>4 DEF Chained
<1>3. ASSUME NEW i \in DOMAIN writes'
      PROVE  InTurn(i)'
  <2>1. i \in DOMAIN writes /\ InTurn(i) /\ HadTurn(i) /\ writes'[i].behind = writes[i].behind
    BY <1>3 DEF Onward, Queue
  <2>2. \A j \in writes[i].behind : j \in DOMAIN writes
    BY <1>1, <2>1 DEF Queue, Chained
  <2>3. writes'[i].settled => \A j \in writes[i].behind : writes'[j].settled
    BY <2>1, <2>2 DEF Onward, InTurn, HadTurn
  <2>4. writes'[i].request # "none" \/ writes'[i].phase = "waiting" \/ writes'[i].accepted
          => \A j \in writes[i].behind : writes'[j].accepted
    BY <2>1, <2>2 DEF Onward, InTurn, HadTurn
  <2> QED  BY <2>1, <2>3, <2>4 DEF InTurn
<1>4. Behind' /\ Moved'
  BY DEF Onward, Queue, Behind, Moved, IsMove
<1>5. ASSUME NEW c \in Handled
      PROVE  Unsettled(c)' = {i \in Unsettled(c) : ~writes'[i].settled}
  BY DEF Onward, Unsettled
<1>6. tail' \in [Handled -> Nat]
  BY DEF LetsGo, Recorded, None
<1>7. Tails'
  <2>1. SUFFICES ASSUME NEW c \in Handled
                 PROVE  IF tail'[c] = None THEN Unsettled(c)' = {}
                        ELSE tail'[c] \in Unsettled(c)' /\ \A j \in Unsettled(c)' : j <= tail'[c]
    BY DEF Tails
  <2>2. tail'[c] = IF tail[c] # None /\ writes'[tail[c]].settled THEN None ELSE tail[c]
    BY DEF LetsGo
  <2>3. IF tail[c] = None THEN Unsettled(c) = {}
        ELSE tail[c] \in Unsettled(c) /\ \A j \in Unsettled(c) : j <= tail[c]
    BY DEF Queue, Tails
  <2>4. CASE tail[c] = None
    BY <1>5, <2>2, <2>3, <2>4
  <2>5. CASE tail[c] # None /\ ~writes'[tail[c]].settled
    BY <1>5, <2>2, <2>3, <2>5
  <2>6. CASE tail[c] # None /\ writes'[tail[c]].settled
    <3>1. tail[c] \in Unsettled(c) /\ tail[c] \in DOMAIN writes /\ ~writes[tail[c]].settled
      BY <2>3, <2>6 DEF Unsettled
    <3>2. \A j \in writes[tail[c]].behind : writes[j].settled
      BY <2>6, <3>1 DEF HadTurn
    <3>3. ASSUME NEW j \in Unsettled(c)
          PROVE  j = tail[c]
      <4>1. j \in DOMAIN writes /\ j <= tail[c] /\ ~writes[j].settled
        BY <2>3, <2>6 DEF Unsettled
      <4>2. j < tail[c] => j \in writes[tail[c]].behind
        BY <3>1, <4>1 DEF Queue, Behind, Unsettled, IsMove
      <4>3. j \in Nat /\ tail[c] \in Nat
        BY <1>1, <3>1, <4>1
      <4> QED  BY <3>2, <4>1, <4>2, <4>3
    <3> QED  BY <1>5, <2>2, <2>6, <3>3
  <2> QED  BY <2>4, <2>5, <2>6
<1> QED
  <2>1. \A k \in DOMAIN writes' : Standing(k)'
    BY DEF Onward
  <2> QED  BY <1>2, <1>3, <1>4, <1>6, <1>7, <2>1 DEF Queue

-----------------------------------------------------------------------------
(* One write that is there, and the rest as they were. *)

\* The write at i becomes w.
Becomes(i, w) ==
    /\ Listed(writes') /\ DOMAIN writes' = DOMAIN writes
    /\ \A k \in DOMAIN writes : writes'[k] = IF k = i THEN w ELSE writes[k]

LEMMA ReplaceOne ==
    ASSUME Recorded, NEW i \in DOMAIN writes, NEW w, writes' = [writes EXCEPT ![i] = w]
    PROVE  Becomes(i, w)
<1>1. /\ Len(writes) \in Nat /\ DOMAIN writes = 1..Len(writes)
      /\ writes = [k \in 1..Len(writes) |-> writes[k]]
  BY ListedIs DEF Recorded
<1>2. /\ DOMAIN writes' = 1..Len(writes)
      /\ \A k \in 1..Len(writes) : writes'[k] = IF k = i THEN w ELSE writes[k]
      /\ writes' = [k \in 1..Len(writes) |-> writes'[k]]
  BY <1>1
<1>3. Listed(writes')
  BY <1>1, <1>2, ListedOf
<1> QED  BY <1>1, <1>2, <1>3 DEF Becomes

\* What the write at i may become.
Successor(i, w) ==
    /\ IsWrite(w)
    /\ w.change = writes[i].change /\ w.gate = writes[i].gate /\ w.behind = writes[i].behind
    /\ writes[i].settled => w.settled
    /\ writes[i].accepted => w.accepted
    /\ w.phase \in Phase /\ w.accepted \in BOOLEAN /\ w.settled \in BOOLEAN
    /\ w.accepted => w.settled
    /\ w.phase \in {"gated", "waiting"} <=> ~w.settled
    /\ w.phase = "gated" => w.gate # None
    /\ w.settled => writes[i].settled \/ \A j \in writes[i].behind : writes[j].settled
    /\ w.request # "none" \/ w.phase = "waiting" \/ w.accepted
         => \/ writes[i].request # "none" \/ writes[i].phase = "waiting" \/ writes[i].accepted
            \/ \A j \in writes[i].behind : writes[j].accepted

(* What holds of the write that changes holds of all. *)
LEMMA OneOnward ==
    ASSUME Recorded, Queue, NEW i \in DOMAIN writes, NEW w, Becomes(i, w), Successor(i, w)
    PROVE  Onward /\ \A k \in DOMAIN writes : Standing(k)' /\ HadTurn(k)
<1>1. Onward
  BY DEF Onward, Becomes, Recorded, Successor
<1>2. ASSUME NEW k \in DOMAIN writes
      PROVE  Standing(k)' /\ HadTurn(k)
  <2>1. CASE k = i
    <3>1. writes'[k] = w
      BY <2>1 DEF Becomes
    <3> QED  BY <2>1, <3>1 DEF Successor, Standing, HadTurn
  <2>2. CASE k # i
    <3>1. writes'[k] = writes[k] /\ Standing(k)
      BY <2>2 DEF Becomes, Queue
    <3> QED  BY <3>1 DEF Standing, HadTurn
  <2> QED  BY <2>1, <2>2
<1> QED  BY <1>1, <1>2

(* Release, when the write has just been settled, lets go of it and of nobody else. *)
LEMMA ReleaseLetsGo ==
    ASSUME Recorded, Queue, NEW i \in DOMAIN writes, NEW w, Becomes(i, w), w.settled,
           Release(i)
    PROVE  LetsGo
<1> DEFINE m == writes[i].change
<1>1. ASSUME NEW c \in Handled
      PROVE  /\ (IF tail[c] # None /\ writes'[tail[c]].settled THEN None ELSE tail[c])
                  = IF tail[c] = i THEN None ELSE tail[c]
             /\ tail[c] = i => m.kind = "card.moved" /\ m.cardId = c
  <2>1. CASE tail[c] = None
    <3>1. i # None
      BY ListedIs DEF Recorded, None
    <3> QED  BY <2>1, <3>1
  <2>2. CASE tail[c] # None
    <3>1. tail[c] \in Unsettled(c)
      BY <2>2 DEF Queue, Tails
    <3>2. /\ tail[c] \in DOMAIN writes /\ ~writes[tail[c]].settled
          /\ writes[tail[c]].change.kind = "card.moved" /\ writes[tail[c]].change.cardId = c
      BY <3>1 DEF Unsettled
    <3>3. writes'[tail[c]].settled <=> tail[c] = i
      BY <3>2 DEF Becomes, Queue, Standing
    <3> QED  BY <2>2, <3>2, <3>3
  <2> QED  BY <2>1, <2>2
<1>2. tail' = IF m.kind = "card.moved" /\ tail[m.cardId] = i
              THEN [tail EXCEPT ![m.cardId] = None] ELSE tail
  BY DEF Release
<1>3. m.kind = "card.moved" => m.cardId \in Handled
  BY DEF Queue, Moved, IsMove
<1>4. tail = [c \in Handled |-> tail[c]]
  BY DEF Recorded
<1> HIDE DEF m
<1>5. tail' = [c \in Handled |-> IF tail[c] = i THEN None ELSE tail[c]]
  <2>1. CASE m.kind = "card.moved" /\ tail[m.cardId] = i
    <3>1. m.cardId \in Handled /\ \A c \in Handled : tail[c] = i => c = m.cardId
      BY <1>1, <1>3, <2>1
    <3>2. tail' = [tail EXCEPT ![m.cardId] = None]
      BY <1>2, <2>1
    <3> QED  BY <1>4, <2>1, <3>1, <3>2
  <2>2. CASE ~(m.kind = "card.moved" /\ tail[m.cardId] = i)
    <3>1. \A c \in Handled : tail[c] # i
      BY <1>1, <2>2
    <3> QED  BY <1>2, <1>4, <2>2, <3>1
  <2> QED  BY <2>1, <2>2
<1> QED  BY <1>1, <1>5 DEF LetsGo

(* As long as nobody is settled, nobody is let go of. *)
LEMMA NobodyLetsGo ==
    ASSUME Recorded, Queue, tail' = tail,
           \A k \in DOMAIN writes : writes'[k].settled => writes[k].settled
    PROVE  LetsGo
<1>1. ASSUME NEW c \in Handled
      PROVE  ~(tail[c] # None /\ writes'[tail[c]].settled)
  BY DEF Queue, Tails, Unsettled
<1> QED  BY <1>1 DEF LetsGo, Recorded

-----------------------------------------------------------------------------
(* The actions on writes. *)

(* PassGate *)
LEMMA PassGateQueue ==
    ASSUME Inv, NEW i \in DOMAIN writes, PassGate(i)
    PROVE  /\ Queue' /\ Onward /\ tail' \in [Handled -> Nat]
           /\ \A k \in DOMAIN writes : writes'[k].phase = "landing" => writes[k].phase = "landing"
<1> DEFINE g == writes[i].gate
<1>1. /\ writes[i].phase = "gated" /\ writes[g].settled
      /\ Standing(i) /\ Chained(i) /\ IsWrite(writes[i])
  BY DEF PassGate, Inv, Queue, Recorded
<1>2. /\ g \in DOMAIN writes /\ g \in writes[i].behind
      /\ writes[i].behind \subseteq writes[g].behind \cup {g}
      /\ ~writes[i].settled /\ ~writes[i].accepted
  <2>1. g # None /\ g \in writes[i].behind /\ i \in 1..Len(writes)
    BY <1>1, ListedIs DEF Standing, Chained, Inv, Recorded
  <2>2. /\ DOMAIN writes = 1..Len(writes) /\ Len(writes) \in Nat
        /\ writes[i].behind \subseteq 1..(i - 1)
    BY <1>1, ListedIs DEF Chained, Inv, Recorded
  <2>3. g \in DOMAIN writes
    BY <2>1, <2>2
  <2> QED  BY <1>1, <2>1, <2>3 DEF Standing, Chained
<1>3. Standing(g) /\ InTurn(g)
  BY <1>2 DEF Inv, Queue
<1>4. CASE writes[g].accepted
  <2> DEFINE w == [writes[i] EXCEPT !.phase = "waiting", !.request = "sent"]
  <2>1. writes' = [writes EXCEPT ![i] = w] /\ tail' = tail
    BY <1>4 DEF PassGate
  <2>2. /\ IsWrite(w) /\ w.change = writes[i].change /\ w.gate = g /\ w.behind = writes[i].behind
        /\ w.phase = "waiting" /\ w.accepted = writes[i].accepted
        /\ w.settled = writes[i].settled
    BY <1>1 DEF IsWrite, Fields
  <2>3. \A j \in writes[i].behind : writes[j].accepted
    BY <1>2, <1>3, <1>4 DEF InTurn
  <2> HIDE DEF w, g
  <2>4. Becomes(i, w)
    BY <2>1, ReplaceOne DEF Inv
  <2>5. Onward /\ \A k \in DOMAIN writes : Standing(k)' /\ HadTurn(k)
    <3>1. w.phase \in Phase /\ w.accepted \in BOOLEAN /\ w.settled \in BOOLEAN
      BY <1>1, <2>2 DEF Standing, Phase
    <3>2. Recorded /\ Queue
      BY DEF Inv
    <3>3. /\ ~w.settled /\ ~w.accepted /\ w.phase # "gated"
          /\ w.gate = writes[i].gate
      BY <1>2, <2>2 DEF g
    <3>4. Successor(i, w)
      BY <1>2, <2>2, <2>3, <3>1, <3>3 DEF Successor
    <3> QED  BY <2>4, <3>2, <3>4, OneOnward
  <2>6. LetsGo
    <3>1. \A k \in DOMAIN writes : writes'[k].settled => writes[k].settled
      BY <2>2, <2>4 DEF Becomes
    <3> QED  BY <2>1, <3>1, NobodyLetsGo DEF Inv
  <2>7. \A k \in DOMAIN writes : writes'[k].phase = "landing" => writes[k].phase = "landing"
    BY <2>2, <2>4 DEF Becomes
  <2> QED  BY <2>5, <2>6, <2>7, OnwardQueue DEF Inv
<1>5. CASE ~writes[g].accepted
  <2> DEFINE w == [writes[i] EXCEPT !.phase = "over", !.settled = TRUE]
  <2>1. writes' = [writes EXCEPT ![i] = w] /\ Release(i)
    BY <1>5 DEF PassGate
  <2>2. /\ IsWrite(w) /\ w.change = writes[i].change /\ w.gate = g /\ w.behind = writes[i].behind
        /\ w.phase = "over" /\ w.accepted = writes[i].accepted /\ w.settled = TRUE
        /\ w.request = writes[i].request
    BY <1>1 DEF IsWrite, Fields
  <2>3. \A j \in writes[i].behind : writes[j].settled
    BY <1>1, <1>2, <1>3 DEF InTurn
  <2> HIDE DEF w, g
  <2>4. Becomes(i, w)
    BY <2>1, ReplaceOne DEF Inv
  <2>5. Onward /\ \A k \in DOMAIN writes : Standing(k)' /\ HadTurn(k)
    <3>1. w.phase \in Phase /\ w.accepted \in BOOLEAN /\ w.settled \in BOOLEAN
      BY <1>1, <2>2 DEF Standing, Phase
    <3>2. Recorded /\ Queue
      BY DEF Inv
    <3>3. /\ w.settled /\ ~w.accepted /\ w.phase \notin {"gated", "waiting"}
          /\ w.gate = writes[i].gate
      BY <1>2, <2>2 DEF g
    <3>4. Successor(i, w)
      BY <1>2, <2>2, <2>3, <3>1, <3>3 DEF Successor
    <3> QED  BY <2>4, <3>2, <3>4, OneOnward
  <2>6. LetsGo
    BY <2>1, <2>2, <2>4, ReleaseLetsGo DEF Inv
  <2>7. \A k \in DOMAIN writes : writes'[k].phase = "landing" => writes[k].phase = "landing"
    BY <2>2, <2>4 DEF Becomes
  <2> QED  BY <2>5, <2>6, <2>7, OnwardQueue DEF Inv
<1> QED  BY <1>4, <1>5

(* HandleRequest *)
LEMMA HandleQueue ==
    ASSUME Inv, NEW i \in DOMAIN writes, HandleRequest(i)
    PROVE  /\ Queue' /\ Onward /\ tail' \in [Handled -> Nat]
           /\ \A k \in DOMAIN writes : writes'[k].phase = "landing" => writes[k].phase = "landing"
<1>1. /\ writes[i].request = "sent" /\ tail' = tail
      /\ Standing(i) /\ IsWrite(writes[i])
  BY DEF HandleRequest, Inv, Queue, Recorded
<1>2. PICK v, r : writes' = [writes EXCEPT ![i] = [writes[i] EXCEPT !.request = v, !.row = r]]
  BY DEF HandleRequest
<1> DEFINE w == [writes[i] EXCEPT !.request = v, !.row = r]
<1>3. /\ IsWrite(w) /\ w.change = writes[i].change /\ w.gate = writes[i].gate
      /\ w.behind = writes[i].behind
      /\ w.phase = writes[i].phase /\ w.accepted = writes[i].accepted
      /\ w.settled = writes[i].settled
  BY <1>1 DEF IsWrite, Fields
<1>4. writes' = [writes EXCEPT ![i] = w]
  BY <1>2
<1> HIDE DEF w
<1>5. Becomes(i, w)
  BY <1>4, ReplaceOne DEF Inv
<1>6. Onward /\ \A k \in DOMAIN writes : Standing(k)' /\ HadTurn(k)
  <2>1. Recorded /\ Queue /\ writes[i].request # "none"
    BY <1>1 DEF Inv
  <2>2. /\ w.phase \in Phase /\ w.accepted \in BOOLEAN /\ w.settled \in BOOLEAN
        /\ w.accepted => w.settled
        /\ w.phase \in {"gated", "waiting"} <=> ~w.settled
        /\ w.phase = "gated" => w.gate # None
    BY <1>1, <1>3 DEF Standing
  <2>3. Successor(i, w)
    BY <1>3, <2>1, <2>2 DEF Successor
  <2> QED  BY <1>5, <2>1, <2>3, OneOnward
<1>7. LetsGo
  <2>1. \A k \in DOMAIN writes : writes'[k].settled => writes[k].settled
    BY <1>3, <1>5 DEF Becomes
  <2> QED  BY <1>1, <2>1, NobodyLetsGo DEF Inv
<1>8. \A k \in DOMAIN writes : writes'[k].phase = "landing" => writes[k].phase = "landing"
  BY <1>3, <1>5 DEF Becomes
<1> QED  BY <1>6, <1>7, <1>8, OnwardQueue DEF Inv

(* run's end, of Answer and AnswerLost. *)
LEMMA AnsweredQueue ==
    ASSUME Inv, NEW i \in DOMAIN writes, NEW accepted \in BOOLEAN, NEW refreshes \in BOOLEAN,
           writes[i].phase = "waiting", Answered(i, accepted, refreshes)
    PROVE  /\ Queue' /\ Onward /\ tail' \in [Handled -> Nat] /\ writes'[i].settled
           /\ \A k \in DOMAIN writes : writes'[k].phase = "landing" =>
                  writes[k].phase = "landing" \/ (k = i /\ refreshes)
<1> DEFINE w == [writes[i] EXCEPT !.accepted = accepted, !.settled = TRUE,
                                  !.phase = IF refreshes THEN "landing" ELSE "over"]
<1>1. Standing(i) /\ InTurn(i) /\ IsWrite(writes[i]) /\ ~writes[i].accepted
  BY DEF Inv, Queue, Recorded, Standing
<1>2. writes' = [writes EXCEPT ![i] = w] /\ Release(i)
  BY DEF Answered
<1>3. /\ IsWrite(w) /\ w.change = writes[i].change /\ w.gate = writes[i].gate
      /\ w.behind = writes[i].behind /\ w.accepted = accepted /\ w.settled = TRUE
      /\ w.phase = IF refreshes THEN "landing" ELSE "over"
  BY <1>1 DEF IsWrite, Fields
<1>4. \A j \in writes[i].behind : writes[j].settled
  <2>1. \A j \in writes[i].behind : j \in DOMAIN writes
    <3>1. /\ Chained(i) /\ i \in 1..Len(writes)
          /\ Len(writes) \in Nat /\ DOMAIN writes = 1..Len(writes)
      BY ListedIs DEF Inv, Queue, Recorded
    <3> QED  BY <3>1 DEF Chained
  <2> QED  BY <1>1, <2>1 DEF InTurn, Standing, Inv, Queue
<1> HIDE DEF w
<1>5. Becomes(i, w)
  BY <1>2, ReplaceOne DEF Inv
<1>6. Onward /\ \A k \in DOMAIN writes : Standing(k)' /\ HadTurn(k)
  <2>1. Recorded /\ Queue
    BY DEF Inv
  <2>2. /\ w.phase \in Phase /\ w.accepted \in BOOLEAN /\ w.settled \in BOOLEAN
        /\ w.phase \notin {"gated", "waiting"}
    BY <1>3 DEF Phase
  <2>3. Successor(i, w)
    BY <1>1, <1>3, <1>4, <2>2 DEF Successor
  <2> QED  BY <1>5, <2>1, <2>3, OneOnward
<1>7. LetsGo
  BY <1>2, <1>3, <1>5, ReleaseLetsGo DEF Inv
<1>8. writes'[i].settled
      /\ \A k \in DOMAIN writes : writes'[k].phase = "landing" =>
             writes[k].phase = "landing" \/ (k = i /\ refreshes)
  BY <1>3, <1>5 DEF Becomes
<1> QED  BY <1>6, <1>7, <1>8, OnwardQueue DEF Inv

(* Render ends the transition that asked for the read. *)
LEMMA RenderQueue ==
    ASSUME Inv, Render
    PROVE  /\ Queue' /\ Onward /\ tail' \in [Handled -> Nat]
           /\ \A k \in DOMAIN writes : writes'[k].phase = "landing" =>
                  writes[k].phase = "landing" /\ k # reads[1].by
<1> DEFINE b == reads[1].by
<1>1. /\ reads # <<>> /\ tail' = tail
      /\ writes' = [k \in DOMAIN writes |-> IF k = Head(reads).by
                                            THEN [writes[k] EXCEPT !.phase = "over"]
                                            ELSE writes[k]]
  BY DEF Render
<1>2. Head(reads) = reads[1] /\ 1 \in DOMAIN reads
  <2>1. Head(reads) = reads[1] /\ Len(reads) \in Nat \ {0}
    BY <1>1, ListedTail DEF Inv, Recorded
  <2>2. DOMAIN reads = 1..Len(reads)
    BY ListedIs DEF Inv, Recorded
  <2> QED  BY <2>1, <2>2
<1>3. b \in DOMAIN writes => writes[b].settled
  <2>1. b # None => b \in DOMAIN writes /\ writes[b].settled
    BY <1>2 DEF Inv, Awaited
  <2>2. None \notin DOMAIN writes
    BY ListedIs DEF Inv, Recorded, None
  <2> QED  BY <2>1, <2>2
<1>4. Listed(writes') /\ DOMAIN writes' = DOMAIN writes
  <2>1. DOMAIN writes = 1..Len(writes) /\ Len(writes) \in Nat
    BY ListedIs DEF Inv, Recorded
  <2>2. DOMAIN writes' = 1..Len(writes) /\ writes' = [k \in 1..Len(writes) |-> writes'[k]]
    BY <1>1, <2>1
  <2> QED  BY <2>1, <2>2, ListedOf
<1> HIDE DEF b
<1>5. ASSUME NEW k \in DOMAIN writes
      PROVE  /\ IsWrite(writes'[k]) /\ writes'[k].change = writes[k].change
             /\ writes'[k].gate = writes[k].gate /\ writes'[k].behind = writes[k].behind
             /\ writes'[k].settled = writes[k].settled
             /\ writes'[k].accepted = writes[k].accepted
             /\ writes'[k].request = writes[k].request
             /\ writes'[k].phase = IF k = b THEN "over" ELSE writes[k].phase
  <2>1. IsWrite(writes[k])
    BY DEF Inv, Recorded
  <2>2. writes'[k] = IF k = b THEN [writes[k] EXCEPT !.phase = "over"] ELSE writes[k]
    BY <1>1, <1>2 DEF b
  <2> QED  BY <2>1, <2>2 DEF IsWrite, Fields
<1>6. Onward
  BY <1>4, <1>5 DEF Onward
<1>7. ASSUME NEW k \in DOMAIN writes
      PROVE  Standing(k)' /\ HadTurn(k)
  <2>1. Standing(k)
    BY DEF Inv, Queue
  <2> QED  BY <1>3, <1>5, <2>1 DEF Standing, HadTurn, Phase
<1>8. LetsGo
  BY <1>1, <1>5, NobodyLetsGo DEF Inv
<1>9. \A k \in DOMAIN writes : writes'[k].phase = "landing" =>
          writes[k].phase = "landing" /\ k # reads[1].by
  BY <1>5 DEF b
<1> QED  BY <1>6, <1>7, <1>8, <1>9, OnwardQueue DEF Inv

-----------------------------------------------------------------------------
(* One write more. *)

(* A new write is what it is called with, and waits for its gate or is sent. *)
LEMMA WriteIs ==
    ASSUME NEW m, NEW gate \in Nat, NEW behind
    PROVE  LET w == Write(m, gate, behind) IN
           /\ IsWrite(w) /\ w.change = m /\ w.gate = gate /\ w.behind = behind
           /\ ~w.accepted /\ w.accepted \in BOOLEAN /\ ~w.settled /\ w.settled \in BOOLEAN
           /\ w.phase = IF gate = None THEN "waiting" ELSE "gated"
           /\ w.request = IF gate = None THEN "sent" ELSE "none"
BY DEF Write, IsWrite, Fields

\* The writes that were there stay as they are, and w is written after them.
Joins(w) ==
    /\ Listed(writes') /\ Len(writes') = Len(writes) + 1
    /\ DOMAIN writes' = DOMAIN writes \cup {Len(writes) + 1}
    /\ \A k \in DOMAIN writes : writes'[k] = writes[k]
    /\ writes'[Len(writes) + 1] = w

LEMMA AppendJoins ==
    ASSUME Recorded, NEW w, writes' = Append(writes, w)
    PROVE  Joins(w)
<1>1. Listed(writes) /\ Len(writes) \in Nat /\ DOMAIN writes = 1..Len(writes)
  BY ListedIs DEF Recorded
<1>2. /\ Listed(writes') /\ Len(writes') = Len(writes) + 1
      /\ \A k \in 1..(Len(writes) + 1) : writes'[k] = IF k = Len(writes) + 1 THEN w ELSE writes[k]
  BY <1>1, ListedAppend
<1>3. DOMAIN writes' = 1..(Len(writes) + 1)
  BY <1>2, ListedIs
<1> QED  BY <1>1, <1>2, <1>3 DEF Joins

(* The writes that were there keep what they say, whatever joins them. *)
LEMMA JoinsQueue ==
    ASSUME Recorded, Queue, NEW w, Joins(w), IsWrite(w)
    PROVE  /\ \A k \in DOMAIN writes' : IsWrite(writes'[k])
           /\ \A i \in DOMAIN writes : Standing(i)' /\ Chained(i)' /\ InTurn(i)'
<1>1. Len(writes) \in Nat /\ DOMAIN writes = 1..Len(writes)
  BY ListedIs DEF Recorded
<1>2. \A k \in DOMAIN writes' : IsWrite(writes'[k])
  BY DEF Recorded, Joins
<1>3. ASSUME NEW i \in DOMAIN writes
      PROVE  Standing(i)' /\ Chained(i)' /\ InTurn(i)'
  <2>1. Standing(i) /\ Chained(i) /\ InTurn(i) /\ writes'[i] = writes[i]
    BY DEF Queue, Joins
  <2>2. \A j \in writes[i].behind : j \in DOMAIN writes /\ writes'[j] = writes[j]
    BY <1>1, <2>1 DEF Chained, Joins
  <2>3. Standing(i)'
    BY <2>1 DEF Standing
  <2>4. Chained(i)'
    BY <2>1, <2>2 DEF Chained
  <2>5. InTurn(i)'
    BY <2>1, <2>2 DEF InTurn
  <2> QED  BY <2>3, <2>4, <2>5
<1> QED  BY <1>2, <1>3

(* SendMove: the move queues behind those of its card that are not settled. *)
LEMMA SendMoveQueue ==
    ASSUME Recorded, Queue, NEW m, m.kind = "card.moved", m.cardId \in Handled, SendMove(m)
    PROVE  /\ Queue' /\ tail' \in [Handled -> Nat]
           /\ \E w : Joins(w) /\ IsWrite(w) /\ w.phase # "landing"
<1> DEFINE c == m.cardId
           w == Write(m, tail[c], Unsettled(c))
<1>0. PICK n : n = Len(writes) + 1
  OBVIOUS
<1>1. /\ Len(writes) \in Nat /\ DOMAIN writes = 1..Len(writes) /\ n \in Nat /\ n # None
      /\ n \notin DOMAIN writes /\ \A j \in DOMAIN writes : j \in Nat /\ j < n
  BY <1>0, ListedIs DEF Recorded, None
<1>2. tail[c] \in Nat
  BY DEF Recorded
<1>3. /\ IsWrite(w) /\ w.change = m /\ w.gate = tail[c] /\ w.behind = Unsettled(c)
      /\ ~w.accepted /\ w.accepted \in BOOLEAN /\ ~w.settled /\ w.settled \in BOOLEAN
      /\ w.phase = IF tail[c] = None THEN "waiting" ELSE "gated"
      /\ w.request = IF tail[c] = None THEN "sent" ELSE "none"
  BY <1>2, WriteIs
<1>4. writes' = Append(writes, w) /\ tail' = [tail EXCEPT ![c] = n]
  BY <1>0 DEF SendMove
<1> HIDE DEF w
<1>5. Joins(w)
  BY <1>4, AppendJoins
<1>6. /\ DOMAIN writes' = DOMAIN writes \cup {n} /\ writes'[n] = w
      /\ \A k \in DOMAIN writes : writes'[k] = writes[k]
  BY <1>0, <1>5 DEF Joins
<1>7. IF tail[c] = None THEN Unsettled(c) = {}
      ELSE tail[c] \in Unsettled(c) /\ \A j \in Unsettled(c) : j <= tail[c]
  BY DEF Queue, Tails
<1>8. Unsettled(c) \subseteq DOMAIN writes
  BY DEF Unsettled
<1>9. Standing(n)'
  BY <1>3, <1>6 DEF Standing, Phase
<1>10. Chained(n)'
  <2>1. Unsettled(c) \subseteq 1..(n - 1)
    BY <1>1, <1>8
  <2>2. ASSUME tail[c] # None
        PROVE  /\ tail[c] \in Unsettled(c)
               /\ Unsettled(c) \subseteq writes[tail[c]].behind \cup {tail[c]}
    <3>1. tail[c] \in Unsettled(c) /\ tail[c] \in DOMAIN writes
      BY <1>7, <1>8, <2>2
    <3>2. ASSUME NEW j \in Unsettled(c), j # tail[c]
          PROVE  j \in writes[tail[c]].behind
      <4>1. j \in DOMAIN writes /\ j < tail[c]
        BY <1>1, <1>7, <1>8, <2>2, <3>1, <3>2
      <4> QED  BY <3>1, <4>1 DEF Queue, Behind, Unsettled, IsMove
    <3> QED  BY <3>1, <3>2
  <2>3. tail[c] # None => writes'[tail[c]] = writes[tail[c]]
    BY <1>6, <1>8, <2>2
  <2> QED  BY <1>3, <1>6, <2>1, <2>2, <2>3 DEF Chained
<1>11. InTurn(n)'
  BY <1>3, <1>6, <1>7 DEF InTurn
<1>12. Behind' /\ Moved'
  <2>1. Moved'
    BY <1>3, <1>6 DEF Queue, Moved, IsMove
  <2>2. ASSUME NEW i \in DOMAIN writes', NEW j \in DOMAIN writes', j < i,
               IsMove(i)', IsMove(j)', writes'[i].change.cardId = writes'[j].change.cardId,
               ~writes'[j].settled
        PROVE  j \in writes'[i].behind
    <3>1. j \in DOMAIN writes
      BY <1>1, <1>6, <2>2
    <3>2. CASE i = n
      BY <1>3, <1>6, <2>2, <3>1, <3>2 DEF Unsettled, IsMove
    <3>3. CASE i # n
      BY <1>6, <2>2, <3>1, <3>3 DEF Queue, Behind, IsMove
    <3> QED  BY <3>2, <3>3
  <2> QED  BY <2>1, <2>2 DEF Behind
<1>13. Tails' /\ tail' \in [Handled -> Nat]
  <2>1. tail \in [Handled -> Nat]
    BY DEF Recorded
  <2>2. ASSUME NEW d \in Handled
        PROVE  Unsettled(d)' = IF d = c THEN Unsettled(d) \cup {n} ELSE Unsettled(d)
    BY <1>1, <1>3, <1>6 DEF Unsettled
  <2>3. ASSUME NEW d \in Handled
        PROVE  IF tail'[d] = None THEN Unsettled(d)' = {}
               ELSE tail'[d] \in Unsettled(d)' /\ \A j \in Unsettled(d)' : j <= tail'[d]
    <3>1. CASE d = c
      BY <1>1, <1>4, <1>8, <2>1, <2>2, <3>1
    <3>2. CASE d # c
      <4>1. tail'[d] = tail[d] /\ Unsettled(d)' = Unsettled(d)
        BY <1>4, <2>1, <2>2, <3>2
      <4> QED  BY <4>1 DEF Queue, Tails
    <3> QED  BY <3>1, <3>2
  <2>4. tail' \in [Handled -> Nat]
    BY <1>1, <1>4, <2>1
  <2> QED  BY <2>3, <2>4 DEF Tails
<1>14. \A i \in DOMAIN writes : Standing(i)' /\ Chained(i)' /\ InTurn(i)'
  BY <1>3, <1>5, JoinsQueue
<1>15. Queue'
  BY <1>6, <1>9, <1>10, <1>11, <1>12, <1>13, <1>14 DEF Queue
<1>16. w.phase # "landing"
  BY <1>3
<1> QED  BY <1>3, <1>5, <1>13, <1>15, <1>16

(* Submit: every other write is sent at once, and no queue has it. *)
LEMMA SubmitQueue ==
    ASSUME Recorded, Queue, NEW m, m.kind # "card.moved", Submit(m)
    PROVE  /\ Queue' /\ tail' \in [Handled -> Nat]
           /\ \E w : Joins(w) /\ IsWrite(w) /\ w.phase # "landing"
<1> DEFINE w == Write(m, None, {})
<1>0. PICK n : n = Len(writes) + 1
  OBVIOUS
<1>1. /\ Len(writes) \in Nat /\ DOMAIN writes = 1..Len(writes) /\ n \in Nat
      /\ n \notin DOMAIN writes
  BY <1>0, ListedIs DEF Recorded
<1>2. /\ IsWrite(w) /\ w.change = m /\ w.gate = None /\ w.behind = {}
      /\ ~w.accepted /\ w.accepted \in BOOLEAN /\ ~w.settled /\ w.settled \in BOOLEAN
      /\ w.phase = "waiting" /\ w.request = "sent"
  <2>1. None \in Nat
    BY DEF None
  <2> QED  BY <2>1, WriteIs
<1>3. writes' = Append(writes, w) /\ tail' = tail
  BY DEF Submit, own
<1> HIDE DEF w
<1>4. Joins(w)
  BY <1>3, AppendJoins
<1>5. /\ DOMAIN writes' = DOMAIN writes \cup {n} /\ writes'[n] = w
      /\ \A k \in DOMAIN writes : writes'[k] = writes[k]
  BY <1>0, <1>4 DEF Joins
<1>6. Standing(n)' /\ Chained(n)' /\ InTurn(n)'
  BY <1>2, <1>5 DEF Standing, Phase, Chained, InTurn
<1>7. Behind' /\ Moved'
  BY <1>2, <1>5 DEF Queue, Behind, Moved, IsMove
<1>8. \A c : Unsettled(c)' = Unsettled(c)
  BY <1>1, <1>2, <1>5 DEF Unsettled
<1>9. Tails' /\ tail' \in [Handled -> Nat]
  BY <1>3, <1>8 DEF Queue, Tails, Recorded
<1>10. \A i \in DOMAIN writes : Standing(i)' /\ Chained(i)' /\ InTurn(i)'
  BY <1>2, <1>4, JoinsQueue
<1>11. Queue'
  BY <1>5, <1>6, <1>7, <1>9, <1>10 DEF Queue
<1>12. w.phase # "landing"
  BY <1>2
<1> QED  BY <1>2, <1>4, <1>9, <1>11, <1>12

-----------------------------------------------------------------------------
(* The reads, and the writes that wait for them. *)

ReadsListed == Listed(reads) /\ \A r \in DOMAIN reads : IsRead(reads[r])

\* No write goes, or comes back from being settled.
Kept == \A i \in DOMAIN writes : i \in DOMAIN writes' /\ (writes[i].settled => writes'[i].settled)

(* A step that leaves the reads alone. *)
LEMMA SameReads ==
    ASSUME Inv, Kept, reads' = reads,
           \A k \in DOMAIN writes' : writes'[k].phase = "landing" =>
               k \in DOMAIN writes /\ writes[k].phase = "landing"
    PROVE  ReadsListed' /\ Awaited'
<1>1. ReadsListed'
  BY DEF Inv, Recorded, ReadsListed
<1>2. Awaited'
  BY DEF Inv, Awaited, Kept
<1> QED  BY <1>1, <1>2

(* A refresh that nobody asked for, or a write that is settled did. *)
LEMMA OneReadMore ==
    ASSUME Inv, Kept, NEW b, reads' = Refresh(b),
           b # None => b \in DOMAIN writes' /\ writes'[b].settled,
           \A k \in DOMAIN writes' : writes'[k].phase = "landing" =>
               k = b \/ (k \in DOMAIN writes /\ writes[k].phase = "landing")
    PROVE  ReadsListed' /\ Awaited'
<1> DEFINE e == [by |-> b, columns |-> {}, cards |-> {}]
<1>1. Listed(reads) /\ Len(reads) \in Nat /\ DOMAIN reads = 1..Len(reads)
  BY ListedIs DEF Inv, Recorded
<1>2. reads' = Append(reads, e)
  BY DEF Refresh
<1>3. IsRead(e) /\ e.by = b
  BY DEF IsRead
<1> HIDE DEF e
<1>4. PICK n : n = Len(reads) + 1
  OBVIOUS
<1>5. /\ Listed(reads') /\ Len(reads') = n
      /\ \A k \in 1..n : reads'[k] = IF k = n THEN e ELSE reads[k]
  BY <1>1, <1>2, <1>4, ListedAppend
<1>6. DOMAIN reads' = 1..n
  BY <1>5, ListedIs
<1>7. /\ DOMAIN reads' = DOMAIN reads \cup {n} /\ reads'[n] = e
      /\ \A r \in DOMAIN reads : reads'[r] = reads[r]
  BY <1>1, <1>4, <1>5, <1>6
<1>8. ReadsListed'
  BY <1>3, <1>5, <1>7 DEF Inv, Recorded, ReadsListed
<1>9. Awaited'
  <2>1. ASSUME NEW r \in DOMAIN reads', reads'[r].by # None
        PROVE  reads'[r].by \in DOMAIN writes' /\ writes'[reads'[r].by].settled
    BY <1>3, <1>7, <2>1 DEF Inv, Awaited, Kept
  <2>2. ASSUME NEW k \in DOMAIN writes', writes'[k].phase = "landing"
        PROVE  \E r \in DOMAIN reads' : reads'[r].by = k
    <3>1. CASE k = b
      BY <1>3, <1>7, <3>1
    <3>2. CASE k \in DOMAIN writes /\ writes[k].phase = "landing"
      <4>1. PICK r \in DOMAIN reads : reads[r].by = k
        BY <3>2 DEF Inv, Awaited
      <4> QED  BY <1>7, <4>1
    <3> QED  BY <2>2, <3>1, <3>2
  <2> QED  BY <2>1, <2>2 DEF Awaited
<1> QED  BY <1>8, <1>9

(* ReadList: a list comes in, of a read somebody asked for. *)
LEMMA ReadListReads ==
    ASSUME Inv, NEW list \in {"columns", "cards"}, ReadList(list)
    PROVE  ReadsListed' /\ Awaited'
<1>1. Listed(reads) /\ Len(reads) \in Nat /\ DOMAIN reads = 1..Len(reads)
  BY ListedIs DEF Inv, Recorded
<1>2. writes' = writes
  BY DEF ReadList, own
<1>3. PICK v : reads' = [reads EXCEPT ![1] = [reads[1] EXCEPT ![list] = v]]
  BY DEF ReadList
<1>4. ASSUME NEW r \in DOMAIN reads
      PROVE  IsRead(reads'[r]) /\ reads'[r].by = reads[r].by
  <2>1. IsRead(reads[r]) /\ list # "by"
    BY DEF Inv, Recorded
  <2>2. reads'[r] = IF r = 1 THEN [reads[1] EXCEPT ![list] = v] ELSE reads[r]
    BY <1>3
  <2> QED  BY <2>1, <2>2 DEF IsRead
<1>5. DOMAIN reads' = DOMAIN reads
  BY <1>3
<1>6. reads' = [r \in 1..Len(reads) |-> reads'[r]]
  BY <1>1, <1>3
<1>7. Listed(reads')
  BY <1>1, <1>5, <1>6, ListedOf
<1>8. ReadsListed'
  BY <1>4, <1>5, <1>7 DEF ReadsListed
<1>9. Awaited'
  BY <1>2, <1>4, <1>5 DEF Inv, Awaited
<1> QED  BY <1>8, <1>9

(* Render: the write the read was for is over, the others wait for the reads behind. *)
LEMMA RenderReads ==
    ASSUME Inv, Render
    PROVE  ReadsListed' /\ Awaited'
<1>1. reads # <<>> /\ reads' = Tail(reads)
  BY DEF Render
<1>2. PICK n : n = Len(reads)
  OBVIOUS
<1>3. /\ Listed(reads') /\ n \in Nat \ {0} /\ Len(reads') = n - 1
      /\ \A k \in 1..(n - 1) : reads'[k] = reads[k + 1]
  BY <1>1, <1>2, ListedTail DEF Inv, Recorded
<1>4. DOMAIN reads = 1..n /\ DOMAIN reads' = 1..(n - 1)
  BY <1>2, <1>3, ListedIs DEF Inv, Recorded
<1>5. \A r \in DOMAIN reads' : r + 1 \in DOMAIN reads /\ reads'[r] = reads[r + 1]
  BY <1>3, <1>4
<1>6. /\ DOMAIN writes' = DOMAIN writes
      /\ \A k \in DOMAIN writes : writes[k].settled => writes'[k].settled
      /\ \A k \in DOMAIN writes : writes'[k].phase = "landing" =>
             writes[k].phase = "landing" /\ k # reads[1].by
  BY RenderQueue DEF Onward
<1>7. ReadsListed'
  BY <1>3, <1>5 DEF ReadsListed, Inv, Recorded
<1>8. Awaited'
  <2>1. ASSUME NEW r \in DOMAIN reads', reads'[r].by # None
        PROVE  reads'[r].by \in DOMAIN writes' /\ writes'[reads'[r].by].settled
    BY <1>5, <1>6, <2>1 DEF Inv, Awaited
  <2>2. ASSUME NEW k \in DOMAIN writes', writes'[k].phase = "landing"
        PROVE  \E r \in DOMAIN reads' : reads'[r].by = k
    <3>1. k \in DOMAIN writes /\ writes[k].phase = "landing" /\ k # reads[1].by
      BY <1>6, <2>2
    <3>2. PICK r \in DOMAIN reads : reads[r].by = k
      BY <3>1 DEF Inv, Awaited
    <3>3. r - 1 \in 1..(n - 1) /\ reads'[r - 1] = reads[r]
      BY <1>3, <1>4, <3>1, <3>2
    <3> QED  BY <1>4, <3>2, <3>3
  <2> QED  BY <2>1, <2>2 DEF Awaited
<1> QED  BY <1>7, <1>8

-----------------------------------------------------------------------------
(* The steps. *)

(* The invariant, part by part. *)
LEMMA InvParts ==
    ASSUME Listed(writes'), \A k \in DOMAIN writes' : IsWrite(writes'[k]), Queue',
           tail' \in [Handled -> Nat], ReadsListed', Awaited', Listed(hand.proposal)', Held'
    PROVE  Inv'
BY DEF Inv, Recorded, ReadsListed

(* A step that leaves the writes, the reads and the hand alone. *)
LEMMA StepElsewhere ==
    ASSUME Inv, UNCHANGED <<writes, tail, reads, hand>>
    PROVE  Inv'
<1>1. writes' = writes /\ tail' = tail /\ reads' = reads /\ hand' = hand
  OBVIOUS
<1>2. Queue'
  BY <1>1 DEF Inv, Queue, Standing, Chained, InTurn, Behind, Tails, Moved, IsMove, Unsettled
<1>3. Awaited' /\ Held' /\ Recorded'
  BY <1>1 DEF Inv, Awaited, Held, Recorded
<1> QED  BY <1>2, <1>3 DEF Inv

(* A step that has the reads as they should be, and leaves the writes and the hand alone. *)
LEMMA StepOfReads ==
    ASSUME Inv, UNCHANGED <<writes, tail, hand>>, ReadsListed', Awaited'
    PROVE  Inv'
<1>1. writes' = writes /\ tail' = tail /\ hand' = hand
  OBVIOUS
<1>2. Queue'
  BY <1>1 DEF Inv, Queue, Standing, Chained, InTurn, Behind, Tails, Moved, IsMove, Unsettled
<1>3. Held' /\ Listed(hand.proposal)'
  BY <1>1 DEF Inv, Held, Recorded
<1>4. Listed(writes') /\ (\A k \in DOMAIN writes' : IsWrite(writes'[k])) /\ tail' \in [Handled -> Nat]
  BY <1>1 DEF Inv, Recorded
<1> QED  BY <1>2, <1>3, <1>4, InvParts

(* A step of a write that is there. *)
LEMMA StepOnward ==
    ASSUME Inv, Queue', Onward, tail' \in [Handled -> Nat], ReadsListed', Awaited', hand' = hand
    PROVE  Inv'
<1>1. Held' /\ Listed(hand.proposal)'
  BY DEF Inv, Held, Recorded
<1>2. Listed(writes') /\ \A k \in DOMAIN writes' : IsWrite(writes'[k])
  BY DEF Onward
<1> QED  BY <1>1, <1>2, InvParts

(* A write joins the others, whatever the hand comes to hold. *)
LEMMA StepJoins ==
    ASSUME Inv, NEW w, Joins(w), IsWrite(w), w.phase # "landing", Queue',
           tail' \in [Handled -> Nat], reads' = reads, Listed(hand.proposal)', Held'
    PROVE  Inv'
<1>1. Listed(writes') /\ \A k \in DOMAIN writes' : IsWrite(writes'[k])
  BY DEF Joins, Inv, Recorded
<1>2. Kept /\ \A k \in DOMAIN writes' : writes'[k].phase = "landing" =>
          k \in DOMAIN writes /\ writes[k].phase = "landing"
  BY DEF Joins, Kept
<1>3. ReadsListed' /\ Awaited'
  BY <1>2, SameReads
<1> QED  BY <1>1, <1>3, InvParts

(* A write is answered, or given up on. *)
LEMMA AnsweredStep ==
    ASSUME Inv, NEW i \in DOMAIN writes, NEW accepted \in BOOLEAN, NEW refreshes \in BOOLEAN,
           writes[i].phase = "waiting", Answered(i, accepted, refreshes), hand' = hand
    PROVE  Inv'
<1>1. /\ Queue' /\ Onward /\ tail' \in [Handled -> Nat] /\ writes'[i].settled
      /\ \A k \in DOMAIN writes : writes'[k].phase = "landing" =>
             writes[k].phase = "landing" \/ (k = i /\ refreshes)
  BY AnsweredQueue
<1>2. Kept /\ DOMAIN writes' = DOMAIN writes
  BY <1>1 DEF Onward, Kept
<1>3. ReadsListed' /\ Awaited'
  <2>1. CASE refreshes
    <3>1. reads' = Refresh(i)
      BY <2>1 DEF Answered
    <3> QED  BY <1>1, <1>2, <3>1, OneReadMore
  <2>2. CASE ~refreshes
    <3>1. reads' = reads
      BY <2>2 DEF Answered
    <3> QED  BY <1>1, <1>2, <2>2, <3>1, SameReads
  <2> QED  BY <2>1, <2>2
<1> QED  BY <1>1, <1>3, StepOnward

-----------------------------------------------------------------------------
(* The gestures. *)

IsMoveOf(m, c) == m.kind = "card.moved" /\ m.cardId = c

(* A nudge and a drop move the card that is held, and no other edit moves a card. *)
LEMMA NudgeMoves ==
    ASSUME NEW s, NEW c, NEW d, NEW m \in CardNudge(s, c, d)
    PROVE  IsMoveOf(m, c)
BY DEF CardNudge, CardMove, IsMoveOf

LEMMA DropMoves ==
    ASSUME NEW s, NEW c, NEW over, NEW past, NEW m \in CardDropTarget(s, c, over, past)
    PROVE  IsMoveOf(m, c)
BY DEF CardDropTarget, CardMove, IsMoveOf

LEMMA ComposedIsNoMove ==
    ASSUME NEW m, m \in Composed \/ m \in Arranged
    PROVE  m.kind # "card.moved"
<1>1. CASE m \in Composed
  BY <1>1 DEF Composed
<1>2. CASE m \in Arranged
  <2>1. ASSUME NEW cs, NEW k, NEW d, NEW a \in MoveAnchor(cs, k, d)
        PROVE  a.kind = "column.moved"
    BY <2>1 DEF MoveAnchor
  <2> QED  BY <1>2, <2>1 DEF Arranged
<1> QED  BY <1>1, <1>2

\* What may be proposed: nothing, or a move of a card this user picked up.
Proposed(p) == p = <<>> \/ \E m : p = <<m>> /\ \E c \in Handled : IsMoveOf(m, c)

LEMMA HoldsHeld ==
    ASSUME NEW l \in Handled \cup {None}, NEW d \in Handled \cup {None}, NEW p, Proposed(p),
           Hold(l, d, p)
    PROVE  Held' /\ Listed(hand.proposal)'
<1>1. hand'.lifted = l /\ hand'.dragging = d /\ hand'.proposal = p
  BY DEF Hold
<1>2. CASE p = <<>>
  <2>1. Listed(p) /\ Len(p) = 0 /\ DOMAIN p = {}
    BY <1>2, ListedEmpty
  <2> QED  BY <1>1, <2>1 DEF Held
<1>3. CASE p # <<>>
  <2>1. PICK m : p = <<m>> /\ \E c \in Handled : IsMoveOf(m, c)
    BY <1>3 DEF Proposed
  <2>2. <<m>> \in Seq({m}) /\ Len(<<m>>) = 1 /\ DOMAIN <<m>> = {1} /\ <<m>>[1] = m
    OBVIOUS
  <2>3. Listed(p) /\ Len(p) = 1 /\ DOMAIN p = {1} /\ p[1] = m
    BY <2>1, <2>2 DEF Listed
  <2>4. m.kind = "card.moved" /\ m.cardId \in Handled
    BY <2>1 DEF IsMoveOf
  <2> QED  BY <1>1, <2>3, <2>4 DEF Held
<1> QED  BY <1>2, <1>3

LEMMA LetGoHeld ==
    ASSUME LetGo
    PROVE  Held' /\ Listed(hand.proposal)'
<1>1. Proposed(<<>>)
  BY DEF Proposed
<1> QED  BY <1>1, HoldsHeld DEF LetGo

(* A step of the hand alone. *)
LEMMA StepOfHand ==
    ASSUME Inv, UNCHANGED <<writes, tail, reads>>, Held', Listed(hand.proposal)'
    PROVE  Inv'
<1>1. writes' = writes /\ tail' = tail /\ reads' = reads
  OBVIOUS
<1>2. Queue'
  BY <1>1 DEF Inv, Queue, Standing, Chained, InTurn, Behind, Tails, Moved, IsMove, Unsettled
<1>3. Awaited' /\ ReadsListed'
  BY <1>1 DEF Inv, Awaited, Recorded, ReadsListed
<1>4. Listed(writes') /\ (\A k \in DOMAIN writes' : IsWrite(writes'[k])) /\ tail' \in [Handled -> Nat]
  BY <1>1 DEF Inv, Recorded
<1> QED  BY <1>2, <1>3, <1>4, InvParts

(* commit, as the hand lets go. *)
LEMMA CommitStep ==
    ASSUME Inv, NEW c \in Handled, NEW m, IsMoveOf(m, c), CommitMove(m), LetGo, HandMoves
    PROVE  Inv'
<1>1. Held' /\ Listed(hand.proposal)'
  BY LetGoHeld
<1>2. reads' = reads
  BY DEF HandMoves, screen
<1>3. CASE IsRedundantMove(Optimistic, m)
  <2>1. writes' = writes /\ tail' = tail
    BY <1>3 DEF CommitMove, sending
  <2> QED  BY <1>1, <1>2, <2>1, StepOfHand
<1>4. CASE ~IsRedundantMove(Optimistic, m)
  <2>1. SendMove(m) /\ m.kind = "card.moved" /\ m.cardId \in Handled
    BY <1>4 DEF CommitMove, IsMoveOf
  <2>2. Recorded /\ Queue
    BY DEF Inv
  <2>3. /\ Queue' /\ tail' \in [Handled -> Nat]
        /\ \E w : Joins(w) /\ IsWrite(w) /\ w.phase # "landing"
    BY <2>1, <2>2, SendMoveQueue
  <2>4. PICK w : Joins(w) /\ IsWrite(w) /\ w.phase # "landing"
    BY <2>3
  <2> QED  BY <1>1, <1>2, <2>3, <2>4, StepJoins
<1> QED  BY <1>3, <1>4

LEMMA GestureStep ==
    ASSUME Inv, Gesture
    PROVE  Inv'
<1> USE DEF sending
<1>1. /\ hand.lifted \in Handled \cup {None} /\ hand.dragging \in Handled \cup {None}
      /\ Listed(hand.proposal) /\ Len(hand.proposal) <= 1
      /\ \A k \in DOMAIN hand.proposal : \E c \in Handled : IsMoveOf(hand.proposal[k], c)
  BY DEF Inv, Held, Recorded, IsMoveOf
<1>2. Proposed(<<>>)
  BY DEF Proposed
<1>3. ASSUME HandMoves
      PROVE  reads' = reads
  BY <1>3 DEF HandMoves, screen
<1>4. ASSUME NEW c \in Handled, Lift(c) \/ DragStart(c)
      PROVE  Inv'
  <2>1. writes' = writes /\ tail' = tail /\ HandMoves
    BY <1>4 DEF Lift, DragStart
  <2>2. Hold(c, None, <<>>) \/ Hold(None, c, <<>>)
    BY <1>4 DEF Lift, DragStart
  <2>3. Held' /\ Listed(hand.proposal)'
    BY <1>2, <2>2, HoldsHeld
  <2> QED  BY <1>3, <2>1, <2>3, StepOfHand
<1>5. ASSUME hand.lifted # None, NEW direction \in Direction, Nudge(direction)
      PROVE  Inv'
  <2>1. PICK m \in CardNudge(Shown, hand.lifted, direction) : Hold(hand.lifted, None, <<m>>)
    BY <1>5 DEF Nudge
  <2>2. hand.lifted \in Handled
    BY <1>1, <1>5
  <2>3. Proposed(<<m>>)
    BY <2>1, <2>2, NudgeMoves DEF Proposed
  <2>4. Held' /\ Listed(hand.proposal)'
    BY <2>1, <2>2, <2>3, HoldsHeld
  <2>5. writes' = writes /\ tail' = tail /\ HandMoves
    BY <1>5 DEF Nudge
  <2> QED  BY <1>3, <2>4, <2>5, StepOfHand
<1>6. ASSUME KeyboardDrop
      PROVE  Inv'
  <2>1. LetGo /\ HandMoves
    BY <1>6 DEF KeyboardDrop
  <2>2. CASE hand.proposal = <<>>
    <3>1. writes' = writes /\ tail' = tail
      BY <1>6, <2>2 DEF KeyboardDrop
    <3> QED  BY <1>3, <2>1, <3>1, LetGoHeld, StepOfHand
  <2>3. CASE hand.proposal # <<>>
    <3>1. CommitMove(Head(hand.proposal))
      BY <1>6, <2>3 DEF KeyboardDrop
    <3>2. Head(hand.proposal) = hand.proposal[1] /\ 1 \in DOMAIN hand.proposal
      <4>1. Head(hand.proposal) = hand.proposal[1] /\ Len(hand.proposal) \in Nat \ {0}
        BY <1>1, <2>3, ListedTail
      <4>2. DOMAIN hand.proposal = 1..Len(hand.proposal)
        BY <1>1, ListedIs
      <4> QED  BY <4>1, <4>2
    <3>3. PICK c \in Handled : IsMoveOf(Head(hand.proposal), c)
      BY <1>1, <3>2
    <3> QED  BY <2>1, <3>1, <3>3, CommitStep
  <2> QED  BY <2>2, <2>3
<1>7. ASSUME hand.dragging # None, NEW over, NEW past, DragOver(over, past)
      PROVE  Inv'
  <2>1. PICK m \in CardDropTarget(Shown, hand.dragging, over, past) :
            Hold(None, hand.dragging, <<m>>)
    BY <1>7 DEF DragOver
  <2>2. hand.dragging \in Handled
    BY <1>1, <1>7
  <2>3. Proposed(<<m>>)
    BY <2>1, <2>2, DropMoves DEF Proposed
  <2>4. Held' /\ Listed(hand.proposal)'
    BY <2>1, <2>2, <2>3, HoldsHeld
  <2>5. writes' = writes /\ tail' = tail /\ HandMoves
    BY <1>7 DEF DragOver
  <2> QED  BY <1>3, <2>4, <2>5, StepOfHand
<1>8. ASSUME hand.dragging # None, NEW over, NEW past, Drop(over, past)
      PROVE  Inv'
  <2> DEFINE target == CardDropTarget(Shown, hand.dragging, over, past)
  <2>1. LetGo /\ HandMoves
    BY <1>8 DEF Drop
  <2>2. \/ UNCHANGED sending
        \/ \E m \in target \cup ToSet(hand.proposal) : CommitMove(m)
    BY <1>8 DEF Drop
  <2>3. CASE UNCHANGED sending
    <3>1. writes' = writes /\ tail' = tail
      BY <2>3
    <3> QED  BY <1>3, <2>1, <3>1, LetGoHeld, StepOfHand
  <2>4. ASSUME NEW m \in target \cup ToSet(hand.proposal), CommitMove(m)
        PROVE  Inv'
    <3>1. \E c \in Handled : IsMoveOf(m, c)
      <4>1. CASE m \in target
        BY <1>1, <1>8, <4>1, DropMoves
      <4>2. CASE m \in ToSet(hand.proposal)
        BY <1>1, <4>2 DEF ToSet
      <4> QED  BY <4>1, <4>2
    <3> QED  BY <2>1, <2>4, <3>1, CommitStep
  <2> QED  BY <2>2, <2>3, <2>4
<1>9. ASSUME KeyboardCancel \/ DragCancel
      PROVE  Inv'
  <2>1. writes' = writes /\ tail' = tail /\ HandMoves /\ LetGo
    BY <1>9 DEF KeyboardCancel, DragCancel
  <2> QED  BY <1>3, <2>1, LetGoHeld, StepOfHand
<1> QED  BY <1>4, <1>5, <1>6, <1>7, <1>8, <1>9 DEF Gesture

-----------------------------------------------------------------------------
(* The invariant holds of every step. *)

(* Init *)
LEMMA InitInv == Init => Inv
<1> SUFFICES ASSUME Init
             PROVE  Inv
  OBVIOUS
<1>1. /\ writes = <<>> /\ reads = <<>> /\ tail = [c \in Handled |-> None]
      /\ hand = [lifted |-> None, dragging |-> None, proposal |-> <<>>]
  BY DEF Init
<1>2. Listed(<<>>) /\ Len(<<>>) = 0 /\ DOMAIN <<>> = {}
  BY ListedEmpty
<1>3. Recorded
  BY <1>1, <1>2 DEF Recorded, None
<1>4. \A c \in Handled : tail[c] = None /\ Unsettled(c) = {}
  BY <1>1, <1>2 DEF Unsettled
<1>5. Queue
  BY <1>1, <1>2, <1>4 DEF Queue, Behind, Tails, Moved
<1>6. Awaited
  BY <1>1, <1>2 DEF Awaited
<1>7. Held
  BY <1>1, <1>2 DEF Held
<1> QED  BY <1>3, <1>5, <1>6, <1>7 DEF Inv

(* The hook, the router and the requests. *)
LEMMA RunsStep ==
    ASSUME Inv, Runs
    PROVE  Inv'
<1>1. ASSUME UNCHANGED <<writes, tail, hand>>
      PROVE  /\ Kept /\ writes' = writes
             /\ \A k \in DOMAIN writes' : writes'[k].phase = "landing" =>
                    k \in DOMAIN writes /\ writes[k].phase = "landing"
  BY <1>1 DEF Kept
<1>2. ASSUME UNCHANGED <<writes, tail, hand>>, reads' = Refresh(None)
      PROVE  Inv'
  <2>1. ReadsListed' /\ Awaited'
    BY <1>1, <1>2, OneReadMore
  <2> QED  BY <1>2, <2>1, StepOfReads
<1>3. ASSUME Deliver
      PROVE  Inv'
  <2>1. UNCHANGED <<writes, tail, hand>> /\ (reads' = Refresh(None) \/ reads' = reads)
    BY <1>3 DEF Deliver, own, OnResubscribed, OnEvent
  <2> QED  BY <1>2, <2>1, StepElsewhere
<1>4. ASSUME TimerFires
      PROVE  Inv'
  BY <1>2, <1>4 DEF TimerFires, own
<1>5. ASSUME Render
      PROVE  Inv'
  <2>1. /\ Queue' /\ Onward /\ tail' \in [Handled -> Nat] /\ ReadsListed' /\ Awaited'
    BY <1>5, RenderQueue, RenderReads
  <2>2. hand' = hand
    BY <1>5 DEF Render
  <2> QED  BY <2>1, <2>2, StepOnward
<1>6. ASSUME NEW u \in unpublished, Publish(u)
      PROVE  Inv'
  BY <1>6, StepElsewhere DEF Publish, screen, own
<1>7. ASSUME NEW list \in {"columns", "cards"}, ReadList(list)
      PROVE  Inv'
  <2>1. UNCHANGED <<writes, tail, hand>>
    BY <1>7 DEF ReadList, own
  <2> QED  BY <1>7, <2>1, ReadListReads, StepOfReads
<1>8. ASSUME NEW i \in DOMAIN writes, PassGate(i) \/ HandleRequest(i)
      PROVE  Inv'
  <2>1. /\ Queue' /\ Onward /\ tail' \in [Handled -> Nat]
        /\ \A k \in DOMAIN writes : writes'[k].phase = "landing" => writes[k].phase = "landing"
    BY <1>8, PassGateQueue, HandleQueue
  <2>2. reads' = reads /\ hand' = hand
    BY <1>8 DEF PassGate, HandleRequest, screen
  <2>3. ReadsListed' /\ Awaited'
    BY <2>1, <2>2, SameReads DEF Onward, Kept
  <2> QED  BY <2>1, <2>2, <2>3, StepOnward
<1>9. ASSUME NEW i \in DOMAIN writes, Answer(i)
      PROVE  Inv'
  BY <1>9, AnsweredStep DEF Answer
<1> QED  BY <1>3, <1>4, <1>5, <1>6, <1>7, <1>8, <1>9 DEF Runs

LEMMA NextStep ==
    ASSUME Inv, Next
    PROVE  Inv'
<1>1. CASE Runs
  BY <1>1, RunsStep
<1>2. CASE OtherWrites \/ StreamDrops
  BY <1>2, StepElsewhere DEF OtherWrites, StreamDrops, screen, own
<1>3. CASE Compose \/ Arrange
  <2>1. PICK m : m.kind # "card.moved" /\ Submit(m)
    BY <1>3, ComposedIsNoMove DEF Compose, Arrange
  <2>2. Recorded /\ Queue
    BY DEF Inv
  <2>3. /\ Queue' /\ tail' \in [Handled -> Nat]
        /\ \E w : Joins(w) /\ IsWrite(w) /\ w.phase # "landing"
    BY <2>1, <2>2, SubmitQueue
  <2>4. reads' = reads /\ hand' = hand
    BY <2>1 DEF Submit, screen
  <2>5. Held' /\ Listed(hand.proposal)'
    BY <2>4 DEF Inv, Held, Recorded
  <2> QED  BY <2>3, <2>4, <2>5, StepJoins
<1>4. CASE Gesture
  BY <1>4, GestureStep
<1>5. ASSUME NEW i \in DOMAIN writes, AnswerLost(i)
      PROVE  Inv'
  BY <1>5, AnsweredStep DEF AnswerLost
<1> QED  BY <1>1, <1>2, <1>3, <1>4, <1>5 DEF Next

(* Queue, Awaited and Held hold throughout. *)
THEOREM BoardInvariant == Spec => []Inv
<1>1. ASSUME Inv, UNCHANGED vars
      PROVE  Inv'
  BY <1>1, StepElsewhere DEF vars, screen, own
<1>2. Inv /\ [Next]_vars => Inv'
  BY <1>1, NextStep
<1> QED  BY <1>2, InitInv, PTL DEF Spec

-----------------------------------------------------------------------------
(* A card's moves reach the API one at a time and in the user's order: no move
   is requested unless every move of its card that had not been settled when it
   was made has been accepted. *)
THEOREM BoardMovesQueue == Spec => []MovesQueue
<1>1. Inv => MovesQueue
  BY DEF Inv, Queue, InTurn, MovesQueue
<1> QED  BY <1>1, BoardInvariant, PTL

(* No write is left waiting for what will not come: when none of the program's
   own steps can be taken, every write is over. *)
THEOREM BoardQueueDrains == Spec => []QueueDrains
<1>1. ASSUME Inv, Quiet, NEW i \in DOMAIN writes
      PROVE  writes[i].phase = "over"
  <2>1. Len(writes) \in Nat /\ DOMAIN writes = 1..Len(writes)
    BY <1>1, ListedIs DEF Inv, Recorded
  <2>2. \A k \in DOMAIN writes : Standing(k) /\ Chained(k)
    BY <1>1 DEF Inv, Queue
  <2>3. \A k \in DOMAIN writes : writes[k].phase # "landing"
    BY <1>1, ListedEmpty DEF Inv, Awaited, Quiet
  <2>4. ASSUME NEW k \in DOMAIN writes, writes[k].phase # "over"
        PROVE  \E j \in DOMAIN writes : j < k /\ writes[j].phase # "over"
    <3>1. writes[k].phase = "gated" /\ ~writes[writes[k].gate].settled
      BY <1>1, <2>2, <2>3, <2>4 DEF Quiet, Standing, Phase
    <3>2. writes[k].gate \in 1..(k - 1)
      BY <2>2, <3>1 DEF Standing, Chained
    <3>3. writes[k].gate \in DOMAIN writes /\ writes[k].gate < k
      BY <2>1, <3>2
    <3>4. writes[writes[k].gate].phase # "over"
      BY <2>2, <3>1, <3>3 DEF Standing
    <3> QED  BY <3>3, <3>4
  <2> DEFINE Left == {k \in DOMAIN writes : writes[k].phase # "over"}
  <2>5. Left = {}
    <3>1. Left \subseteq Nat
      BY <2>1
    <3>2. ASSUME Left # {}
          PROVE  FALSE
      <4>1. PICK k \in Left : \A j \in Left : k <= j
        BY <3>1, <3>2, LeastElement
      <4>2. PICK j \in Left : j < k
        BY <2>4, <4>1
      <4> QED  BY <3>1, <4>1, <4>2
    <3> QED  BY <3>2
  <2> QED  BY <1>1, <2>5
<1>2. Inv => QueueDrains
  BY <1>1 DEF QueueDrains
<1> QED  BY <1>2, BoardInvariant, PTL

-----------------------------------------------------------------------------
(* Filters. *)

\* p says where in seq each element of kept was, and kept has all that are in S.
Picks(p, kept, seq, S) ==
    /\ p \in [1..Len(kept) -> 1..Len(seq)]
    /\ \A j, m \in 1..Len(kept) : j < m => p[j] < p[m]
    /\ \A j \in 1..Len(kept) : kept[j] = seq[p[j]] /\ kept[j] \in S
    /\ \A i \in 1..Len(seq) : seq[i] \in S => \E j \in 1..Len(kept) : p[j] = i

\* What is kept after each element.
KeepsRun(run, seq, S) ==
    /\ run[0] = <<>>
    /\ \A k \in 1..Len(seq) :
           run[k] = IF seq[k] \in S THEN Append(run[k - 1], seq[k]) ELSE run[k - 1]
    /\ Keep(seq, S) = run[Len(seq)]

\* The filter, element by element.
LEMMA KeepRun ==
    ASSUME NEW T, NEW seq \in Seq(T), NEW S
    PROVE  \E run \in [0..Len(seq) -> Seq(T)] : KeepsRun(run, seq, S)
<1> DEFINE X == Seq(T)
           n == Len(seq)
           step == [x \in X \X (1..n) |->
                      IF seq[x[2]] \in S THEN Append(x[1], seq[x[2]]) ELSE x[1]]
           Folded(f) == f = [I \in SUBSET (1..n) |->
                               IF I = {} THEN <<>>
                               ELSE IF seq[Max(I)] \in S
                                    THEN Append(f[I \ {Max(I)}], seq[Max(I)])
                                    ELSE f[I \ {Max(I)}]]
           g == CHOOSE f : Folded(f)
<1>1. n \in Nat /\ DOMAIN seq = 1..n /\ \A i \in 1..n : seq[i] \in T
  BY LenProperties, ElementOfSeq
<1>2. Keep(seq, S) = g[1..n]
  BY <1>1 DEF Keep, FoldLeft, MapThenFoldSet
<1>3. step \in [X \X (1..n) -> X]
  <2>1. ASSUME NEW u \in X, NEW i \in 1..n
        PROVE  (IF seq[i] \in S THEN Append(u, seq[i]) ELSE u) \in X
    <3>1. seq[i] \in T
      BY <1>1
    <3>2. Append(u, seq[i]) \in X
      BY <3>1
    <3> QED  BY <3>2
  <2> HIDE DEF X
  <2> QED  BY <2>1
<1>4. <<>> \in X
  OBVIOUS
<1> HIDE DEF X
<1>5. Folded(g)
  <2>1. PICK f \in [SUBSET (1..n) -> X] : IsFold(f, n, <<>>, step)
    <3> HIDE DEF step, n
    <3> QED  BY <1>1, <1>3, <1>4, FoldExists
  <2>2. ASSUME NEW I \in SUBSET (1..n), I # {}
        PROVE  f[I] = IF seq[Max(I)] \in S THEN Append(f[I \ {Max(I)}], seq[Max(I)])
                      ELSE f[I \ {Max(I)}]
    <3>1. Max(I) \in 1..n
      BY <1>1, <2>2, MaxOfIndices
    <3>2. f[I \ {Max(I)}] \in X
      BY <2>1
    <3>3. f[I] = step[<<f[I \ {Max(I)}], Max(I)>>]
      BY <2>1, <2>2 DEF IsFold
    <3> QED  BY <3>1, <3>2, <3>3
  <2>3. f[{}] = <<>>
    BY <2>1 DEF IsFold
  <2>4. Folded(f)
    BY <2>1, <2>2, <2>3
  <2> QED  BY <2>4
<1> HIDE DEF g
<1>6. FoldsWithin(g, X, n, <<>>, step)
  <2>1. ASSUME NEW I \in SUBSET (1..n), I # {}, g[I \ {Max(I)}] \in X
        PROVE  g[I] = step[<<g[I \ {Max(I)}], Max(I)>>]
    <3>1. Max(I) \in 1..n
      BY <1>1, <2>1, MaxOfIndices
    <3>2. g[I] = IF seq[Max(I)] \in S THEN Append(g[I \ {Max(I)}], seq[Max(I)])
                 ELSE g[I \ {Max(I)}]
      BY <1>5, <2>1
    <3> QED  BY <2>1, <3>1, <3>2
  <2>2. g[{}] = <<>>
    BY <1>5
  <2> QED  BY <2>1, <2>2 DEF FoldsWithin
<1>7. PICK run \in [0..n -> X] : IsRun(run, n, <<>>, step, g[1..n])
  <2> HIDE DEF step, n
  <2> QED  BY <1>1, <1>3, <1>4, <1>6, FoldPrefixes
<1>8. ASSUME NEW k \in 1..n
      PROVE  run[k] = IF seq[k] \in S THEN Append(run[k - 1], seq[k]) ELSE run[k - 1]
  <2>1. k - 1 \in 0..n
    BY <1>1
  <2>2. run[k - 1] \in X
    BY <1>7, <2>1
  <2>3. run[k] = step[<<run[k - 1], k>>]
    BY <1>7 DEF IsRun
  <2> QED  BY <2>2, <2>3
<1>9. KeepsRun(run, seq, S)
  BY <1>2, <1>7, <1>8 DEF KeepsRun, IsRun
<1> QED  BY <1>7, <1>9 DEF X

\* The same of the first n elements.
PicksUpTo(p, kept, seq, S, n) ==
    /\ p \in [1..Len(kept) -> 1..n]
    /\ \A j, m \in 1..Len(kept) : j < m => p[j] < p[m]
    /\ \A j \in 1..Len(kept) : kept[j] = seq[p[j]] /\ kept[j] \in S
    /\ \A i \in 1..n : seq[i] \in S => \E j \in 1..Len(kept) : p[j] = i

\* What is kept are elements of the sequence, in order, and all that are in S.
LEMMA KeepPicks ==
    ASSUME NEW T, NEW seq \in Seq(T), NEW S
    PROVE  Keep(seq, S) \in Seq(T) /\ \E p : Picks(p, Keep(seq, S), seq, S)
<1>1. PICK run \in [0..Len(seq) -> Seq(T)] : KeepsRun(run, seq, S)
  BY KeepRun
<1> DEFINE n == Len(seq)
           Good == {k \in 0..n : \E p : PicksUpTo(p, run[k], seq, S, k)}
<1>2. n \in Nat /\ \A i \in 1..n : seq[i] \in T
  BY LenProperties, ElementOfSeq
<1>3. 0 \in Good
  <2>1. run[0] = <<>> /\ Len(run[0]) = 0 /\ 1..0 = {}
    BY <1>1 DEF KeepsRun
  <2>2. PicksUpTo(<<>>, run[0], seq, S, 0)
    <3>1. <<>> \in [1..0 -> 1..0]
      OBVIOUS
    <3> QED  BY <2>1, <3>1 DEF PicksUpTo
  <2> QED  BY <1>2, <2>2
<1>4. ASSUME NEW k \in 0..(n - 1), k \in Good
      PROVE  k + 1 \in Good
  <2>1. PICK p : PicksUpTo(p, run[k], seq, S, k)
    BY <1>4
  <2> DEFINE u == run[k]
             e == seq[k + 1]
  <2>2. /\ k \in Nat /\ k + 1 \in 1..n /\ k + 1 \in 0..n /\ (k + 1) - 1 = k /\ k \in 0..n
        /\ u \in Seq(T) /\ Len(u) \in Nat /\ e \in T
    BY <1>2
  <2>3. run[k + 1] = IF e \in S THEN Append(u, e) ELSE u
    BY <1>1, <2>2 DEF KeepsRun
  <2>4. /\ p \in [1..Len(u) -> 1..k]
        /\ \A j, m \in 1..Len(u) : j < m => p[j] < p[m]
        /\ \A j \in 1..Len(u) : u[j] = seq[p[j]] /\ u[j] \in S
        /\ \A i \in 1..k : seq[i] \in S => \E j \in 1..Len(u) : p[j] = i
    BY <2>1 DEF PicksUpTo
  <2>5. CASE e \notin S
    <3>1. p \in [1..Len(u) -> 1..(k + 1)]
      BY <2>2, <2>4
    <3>2. \A i \in 1..(k + 1) : seq[i] \in S => i \in 1..k
      BY <2>2, <2>5
    <3> HIDE DEF u
    <3>3. PicksUpTo(p, u, seq, S, k + 1)
      BY <2>4, <3>1, <3>2 DEF PicksUpTo
    <3>4. run[k + 1] = u
      BY <2>3, <2>5
    <3> QED  BY <2>2, <3>3, <3>4
  <2>6. CASE e \in S
    <3> DEFINE v == Append(u, e)
               q == [j \in 1..(Len(u) + 1) |-> IF j = Len(u) + 1 THEN k + 1 ELSE p[j]]
    <3> HIDE DEF u, e
    <3>1. /\ Len(v) = Len(u) + 1 /\ v[Len(u) + 1] = e
          /\ \A j \in 1..Len(u) : v[j] = u[j]
      BY <2>2, AppendProperties
    <3>2. q \in [1..Len(v) -> 1..(k + 1)]
      BY <2>2, <2>4, <3>1
    <3>3. \A j \in 1..Len(u) : q[j] = p[j] /\ p[j] \in 1..k
      <4>1. \A j \in 1..Len(u) : p[j] \in 1..k
        BY <2>4
      <4>2. \A j \in 1..Len(u) : j \in 1..(Len(u) + 1) /\ j # Len(u) + 1
        BY <2>2
      <4> QED  BY <4>1, <4>2
    <3>4. q[Len(u) + 1] = k + 1 /\ Len(u) + 1 \in 1..Len(v)
      BY <2>2, <3>1
    <3>5. \A j \in 1..Len(v) : j \in 1..Len(u) \/ j = Len(u) + 1
      BY <2>2, <3>1
    <3> HIDE DEF q, v
    <3>6. ASSUME NEW j \in 1..Len(v), NEW m \in 1..Len(v), j < m
          PROVE  q[j] < q[m]
      <4>1. j \in 1..Len(u)
        BY <2>2, <3>1, <3>6
      <4>2. CASE m \in 1..Len(u)
        BY <2>4, <3>3, <3>6, <4>1, <4>2
      <4>3. CASE m = Len(u) + 1
        BY <2>2, <3>3, <3>4, <4>1, <4>3
      <4> QED  BY <3>5, <4>2, <4>3
    <3>7. \A j \in 1..Len(v) : v[j] = seq[q[j]] /\ v[j] \in S
      BY <2>4, <2>6, <3>1, <3>3, <3>4, <3>5 DEF e
    <3>8. ASSUME NEW i \in 1..(k + 1), seq[i] \in S
          PROVE  \E j \in 1..Len(v) : q[j] = i
      <4>1. CASE i = k + 1
        BY <3>4, <4>1
      <4>2. CASE i # k + 1
        <5>1. i \in 1..k
          BY <2>2, <4>2
        <5>2. PICK j \in 1..Len(u) : p[j] = i
          BY <2>4, <3>8, <5>1
        <5>3. j \in 1..Len(v)
          BY <2>2, <3>1
        <5> QED  BY <3>3, <5>2, <5>3
      <4> QED  BY <4>1, <4>2
    <3>9. PicksUpTo(q, v, seq, S, k + 1)
      BY <3>2, <3>6, <3>7, <3>8 DEF PicksUpTo
    <3>10. run[k + 1] = v
      BY <2>3, <2>6 DEF v
    <3> QED  BY <2>2, <3>9, <3>10
  <2> QED  BY <2>5, <2>6
<1>5. n \in Good
  <2> HIDE DEF Good
  <2>1. 0..n \subseteq Good
    BY <1>2, <1>3, <1>4, UpTo
  <2> QED  BY <1>2, <2>1
<1>6. Keep(seq, S) = run[n] /\ run[n] \in Seq(T)
  BY <1>1, <1>2 DEF KeepsRun
<1> QED  BY <1>5, <1>6 DEF Picks, PicksUpTo

\* There is one way to pick.
LEMMA PicksAgree ==
    ASSUME NEW seq, NEW S, NEW a, NEW b, NEW p, NEW q, Len(seq) \in Nat,
           Len(a) \in Nat, Len(b) \in Nat, Picks(p, a, seq, S), Picks(q, b, seq, S)
    PROVE  \A j \in 1..Len(a) : j \in 1..Len(b) /\ p[j] = q[j]
<1> DEFINE Bad == {j \in 1..Len(a) : ~(j \in 1..Len(b) /\ p[j] = q[j])}
<1>1. SUFFICES ASSUME Bad # {}
               PROVE  FALSE
  OBVIOUS
<1>2. PICK j \in Bad : \A i \in Bad : j <= i
  <2>1. Bad \subseteq Nat
    OBVIOUS
  <2> HIDE DEF Bad
  <2> QED  BY <1>1, <2>1, LeastElement
<1>3. /\ j \in 1..Len(a) /\ ~(j \in 1..Len(b) /\ p[j] = q[j])
      /\ \A i \in 1..Len(a) : i < j => i \in 1..Len(b) /\ p[i] = q[i]
  BY <1>2
<1> HIDE DEF Bad
<1>4. /\ \A i \in 1..Len(a) : p[i] \in 1..Len(seq)
      /\ \A i \in 1..Len(b) : q[i] \in 1..Len(seq)
  BY DEF Picks
<1>5. seq[p[j]] \in S
  BY <1>3 DEF Picks
<1>6. PICK m \in 1..Len(b) : q[m] = p[j]
  BY <1>3, <1>4, <1>5 DEF Picks
<1>7. ~(m < j)
  <2>1. SUFFICES ASSUME m < j
                 PROVE  FALSE
    OBVIOUS
  <2>2. m \in 1..Len(a)
    BY <1>3, <2>1
  <2>3. p[m] = q[m] /\ p[m] < p[j]
    BY <1>3, <2>1, <2>2 DEF Picks
  <2> QED  BY <1>3, <1>4, <1>6, <2>2, <2>3
<1>8. j \in 1..Len(b)
  BY <1>3, <1>6, <1>7
<1>9. seq[q[j]] \in S
  BY <1>8 DEF Picks
<1>10. PICK i \in 1..Len(a) : p[i] = q[j]
  BY <1>4, <1>8, <1>9 DEF Picks
<1>11. ~(i < j)
  <2>1. SUFFICES ASSUME i < j
                 PROVE  FALSE
    OBVIOUS
  <2>2. i \in 1..Len(b) /\ p[i] = q[i]
    BY <1>3, <2>1
  <2>3. q[i] < q[j]
    BY <1>8, <2>1, <2>2 DEF Picks
  <2> QED  BY <1>4, <1>8, <1>10, <2>2, <2>3
<1>12. i = j \/ p[j] < p[i]
  BY <1>3, <1>11 DEF Picks
<1>13. m = j \/ q[j] < q[m]
  BY <1>6, <1>7, <1>8 DEF Picks
<1>14. p[j] = q[j]
  BY <1>3, <1>4, <1>6, <1>8, <1>10, <1>12, <1>13
<1> QED  BY <1>3, <1>8, <1>14

\* So what is picked from the sequence is what the filter keeps.
LEMMA KeepIs ==
    ASSUME NEW T, NEW seq \in Seq(T), NEW S, NEW kept \in Seq(T), NEW p,
           Picks(p, kept, seq, S)
    PROVE  Keep(seq, S) = kept
<1> DEFINE kp == Keep(seq, S)
<1>1. kp \in Seq(T) /\ \E q : Picks(q, kp, seq, S)
  BY KeepPicks
<1>2. PICK q : Picks(q, kp, seq, S)
  BY <1>1
<1> HIDE DEF kp
<1>3. Len(kp) \in Nat /\ Len(kept) \in Nat /\ Len(seq) \in Nat
  BY <1>1
<1>4. \A j \in 1..Len(kept) : j \in 1..Len(kp) /\ p[j] = q[j]
  BY <1>2, <1>3, PicksAgree
<1>5. \A j \in 1..Len(kp) : j \in 1..Len(kept) /\ q[j] = p[j]
  BY <1>2, <1>3, PicksAgree
<1>6. Len(kp) = Len(kept)
  BY <1>3, <1>4, <1>5
<1>7. \A j \in 1..Len(kept) : kept[j] = kp[j]
  BY <1>2, <1>4 DEF Picks
<1> QED  BY <1>1, <1>6, <1>7, SeqEqual DEF kp

\* A filter that takes all.
LEMMA KeepAll ==
    ASSUME NEW T, NEW seq \in Seq(T), NEW S, \A i \in 1..Len(seq) : seq[i] \in S
    PROVE  Keep(seq, S) = seq
<1>1. Len(seq) \in Nat
  OBVIOUS
<1>2. Picks([i \in 1..Len(seq) |-> i], seq, seq, S)
  BY <1>1 DEF Picks
<1> QED  BY <1>2, KeepIs

-----------------------------------------------------------------------------
(* One element more or fewer, and where an element is. *)

\* Inserting moves what is from there on one further.
LEMMA InsertAtIs ==
    ASSUME NEW T, NEW s \in Seq(T), NEW i \in 1..(Len(s) + 1), NEW e \in T
    PROVE  /\ InsertAt(s, i, e) \in Seq(T) /\ Len(InsertAt(s, i, e)) = Len(s) + 1
           /\ \A j \in 1..(Len(s) + 1) :
                  InsertAt(s, i, e)[j] = IF j < i THEN s[j] ELSE IF j = i THEN e ELSE s[j - 1]
<1> DEFINE n == Len(s)
           a == SubSeq(s, 1, i - 1)
           b == SubSeq(s, i, n)
<1>1. n \in Nat /\ i \in Int /\ i - 1 \in Int /\ \A j \in 1..n : s[j] \in T
  BY LenProperties, ElementOfSeq
<1>2. a \in Seq(T) /\ Len(a) = i - 1 /\ \A j \in 1..(i - 1) : a[j] = s[j]
  <2>1. \A j \in 1..(i - 1) : s[j] \in T
    BY <1>1
  <2>2. /\ a \in Seq(T) /\ Len(a) = (IF 1 <= i - 1 THEN (i - 1) - 1 + 1 ELSE 0)
        /\ \A j \in 1..((i - 1) - 1 + 1) : a[j] = s[1 + j - 1]
    BY <1>1, <2>1, SubSeqProperties
  <2> HIDE DEF a
  <2> QED  BY <1>1, <2>2
<1>3. b \in Seq(T) /\ Len(b) = n - i + 1 /\ \A j \in 1..(n - i + 1) : b[j] = s[i + j - 1]
  <2>1. \A j \in i..n : s[j] \in T
    BY <1>1
  <2>2. /\ b \in Seq(T) /\ Len(b) = (IF i <= n THEN n - i + 1 ELSE 0)
        /\ \A j \in 1..(n - i + 1) : b[j] = s[i + j - 1]
    BY <1>1, <2>1, SubSeqProperties
  <2> HIDE DEF b
  <2> QED  BY <1>1, <2>2
<1>4. <<e>> \in Seq(T) /\ Len(<<e>>) = 1 /\ <<e>>[1] = e
  OBVIOUS
<1> DEFINE u == a \o <<e>>
<1> HIDE DEF a, b
<1>5. /\ u \in Seq(T) /\ Len(u) = Len(a) + Len(<<e>>)
      /\ \A j \in 1..(Len(a) + Len(<<e>>)) :
             u[j] = IF j <= Len(a) THEN a[j] ELSE <<e>>[j - Len(a)]
  BY <1>2, <1>4, ConcatProperties
<1>6. /\ Len(u) = i /\ \A j \in 1..(i - 1) : u[j] = s[j]
      /\ u[i] = e
  BY <1>1, <1>2, <1>4, <1>5
<1> HIDE DEF u
<1>7a. u \in Seq(T) /\ b \in Seq(T)
  BY <1>3, <1>5
<1>7. /\ u \o b \in Seq(T) /\ Len(u \o b) = Len(u) + Len(b)
      /\ \A j \in 1..(Len(u) + Len(b)) :
             (u \o b)[j] = IF j <= Len(u) THEN u[j] ELSE b[j - Len(u)]
  BY <1>7a, ConcatProperties
<1>8. InsertAt(s, i, e) = u \o b
  BY DEF InsertAt, u, a, b
<1>9. ASSUME NEW j \in 1..(n + 1)
      PROVE  (u \o b)[j] = IF j < i THEN s[j] ELSE IF j = i THEN e ELSE s[j - 1]
  <2>1. j \in 1..(Len(u) + Len(b)) /\ j \in Nat
    BY <1>1, <1>3, <1>6
  <2>2. CASE j <= i
    BY <1>1, <1>6, <1>7, <2>1, <2>2
  <2>3. CASE i < j
    <3>1. (u \o b)[j] = b[j - i]
      BY <1>1, <1>6, <1>7, <2>1, <2>3
    <3>2. j - i \in 1..(n - i + 1) /\ i + (j - i) - 1 = j - 1
      BY <1>1, <2>3
    <3>3. b[j - i] = s[j - 1]
      BY <1>3, <3>2
    <3> QED  BY <1>1, <2>3, <3>1, <3>3
  <2> QED  BY <1>1, <2>1, <2>2, <2>3
<1>10. Len(u \o b) = n + 1
  BY <1>1, <1>3, <1>6, <1>7
<1> QED  BY <1>7, <1>8, <1>9, <1>10

\* And removing moves what is behind one back.
LEMMA RemoveAtIs ==
    ASSUME NEW T, NEW s \in Seq(T), NEW i \in 1..Len(s)
    PROVE  /\ RemoveAt(s, i) \in Seq(T) /\ Len(RemoveAt(s, i)) = Len(s) - 1
           /\ \A j \in 1..(Len(s) - 1) :
                  RemoveAt(s, i)[j] = IF j < i THEN s[j] ELSE s[j + 1]
<1> DEFINE n == Len(s)
           a == SubSeq(s, 1, i - 1)
           b == SubSeq(s, i + 1, n)
<1>1. /\ n \in Nat /\ i \in Int /\ i - 1 \in Int /\ i + 1 \in Int
      /\ \A j \in 1..n : s[j] \in T
  BY LenProperties, ElementOfSeq
<1>2. a \in Seq(T) /\ Len(a) = i - 1 /\ \A j \in 1..(i - 1) : a[j] = s[j]
  <2>1. \A j \in 1..(i - 1) : s[j] \in T
    BY <1>1
  <2>2. /\ a \in Seq(T) /\ Len(a) = (IF 1 <= i - 1 THEN (i - 1) - 1 + 1 ELSE 0)
        /\ \A j \in 1..((i - 1) - 1 + 1) : a[j] = s[1 + j - 1]
    BY <1>1, <2>1, SubSeqProperties
  <2> HIDE DEF a
  <2> QED  BY <1>1, <2>2
<1>3. b \in Seq(T) /\ Len(b) = n - i /\ \A j \in 1..(n - i) : b[j] = s[i + j]
  <2>1. \A j \in (i + 1)..n : s[j] \in T
    BY <1>1
  <2>2. /\ b \in Seq(T) /\ Len(b) = (IF i + 1 <= n THEN n - (i + 1) + 1 ELSE 0)
        /\ \A j \in 1..(n - (i + 1) + 1) : b[j] = s[(i + 1) + j - 1]
    BY <1>1, <2>1, SubSeqProperties
  <2> HIDE DEF b
  <2> QED  BY <1>1, <2>2
<1> HIDE DEF a, b
<1>4. /\ a \o b \in Seq(T) /\ Len(a \o b) = Len(a) + Len(b)
      /\ \A j \in 1..(Len(a) + Len(b)) :
             (a \o b)[j] = IF j <= Len(a) THEN a[j] ELSE b[j - Len(a)]
  BY <1>2, <1>3, ConcatProperties
<1>5. RemoveAt(s, i) = a \o b
  BY DEF RemoveAt, a, b
<1>6. ASSUME NEW j \in 1..(n - 1)
      PROVE  (a \o b)[j] = IF j < i THEN s[j] ELSE s[j + 1]
  <2>1. j \in 1..(Len(a) + Len(b)) /\ j \in Nat
    BY <1>1, <1>2, <1>3
  <2>2. CASE j < i
    BY <1>1, <1>2, <1>4, <2>1, <2>2
  <2>3. CASE ~(j < i)
    <3>1. (a \o b)[j] = b[j - (i - 1)]
      BY <1>1, <1>2, <1>4, <2>1, <2>3
    <3>2. j - (i - 1) \in 1..(n - i) /\ i + (j - (i - 1)) = j + 1
      BY <1>1, <2>3
    <3>3. b[j - (i - 1)] = s[j + 1]
      BY <1>3, <3>2
    <3> QED  BY <2>3, <3>1, <3>3
  <2> QED  BY <2>2, <2>3
<1>7. Len(a \o b) = n - 1
  BY <1>1, <1>2, <1>3, <1>4
<1> QED  BY <1>4, <1>5, <1>6, <1>7

\* The least of some indices.
LEMMA MinOfIndices ==
    ASSUME NEW S, S \subseteq Nat, S # {}
    PROVE  Min(S) \in S /\ \A y \in S : Min(S) <= y
<1>1. \E x \in S : \A y \in S : x <= y
  BY LeastElement
<1>2. Min(S) \in S /\ \A y \in S : Min(S) <= y
  BY <1>1 DEF Min
<1> QED  BY <1>2

\* The first index that has the id, or 0.
LEMMA IndexIs ==
    ASSUME NEW seq, NEW id, Len(seq) \in Nat
    PROVE  /\ IndexOf(seq, id) \in 0..Len(seq)
           /\ IndexOf(seq, id) = 0 => \A j \in 1..Len(seq) : seq[j].id # id
           /\ IndexOf(seq, id) # 0 =>
                  /\ IndexOf(seq, id) \in 1..Len(seq)
                  /\ seq[IndexOf(seq, id)].id = id
                  /\ \A j \in 1..Len(seq) : seq[j].id = id => IndexOf(seq, id) <= j
<1> DEFINE I == {i \in 1..Len(seq) : seq[i].id = id}
<1>1. IndexOf(seq, id) = IF I # {} THEN Min(I) ELSE 0
  BY DEF IndexOf, SelectInSeq
<1>2. I # {} => Min(I) \in I /\ \A y \in I : Min(I) <= y
  <2>1. I \subseteq Nat
    OBVIOUS
  <2> HIDE DEF I
  <2> QED  BY <2>1, MinOfIndices
<1> QED  BY <1>1, <1>2

\* No two elements have an id.
Distinct(seq) == \A i, j \in DOMAIN seq : seq[i].id = seq[j].id => i = j

\* With ids that differ it is the index of the element.
LEMMA IndexDistinct ==
    ASSUME NEW T, NEW seq \in Seq(T), Distinct(seq), NEW j \in 1..Len(seq)
    PROVE  IndexOf(seq, seq[j].id) = j
<1>1. Len(seq) \in Nat /\ DOMAIN seq = 1..Len(seq)
  OBVIOUS
<1>2. IndexOf(seq, seq[j].id) # 0
  BY <1>1, IndexIs
<1>3. /\ IndexOf(seq, seq[j].id) \in 1..Len(seq)
      /\ seq[IndexOf(seq, seq[j].id)].id = seq[j].id
  BY <1>1, <1>2, IndexIs
<1> QED  BY <1>1, <1>3 DEF Distinct

-----------------------------------------------------------------------------
(* A list of lists, in a row. *)

\* off says where in flat each list of seqs begins.
Offsets(off, flat, seqs) ==
    /\ off \in [0..Len(seqs) -> Nat] /\ off[0] = 0
    /\ \A i \in 1..Len(seqs) : off[i] = off[i - 1] + Len(seqs[i])
    /\ Len(flat) = off[Len(seqs)]
    /\ \A i \in 1..Len(seqs) : \A j \in 1..Len(seqs[i]) : 
           off[i - 1] + j \in 1..Len(flat) /\ flat[off[i - 1] + j] = seqs[i][j]
    /\ \A m \in 1..Len(flat) : \E i \in 1..Len(seqs) : \E j \in 1..Len(seqs[i]) :
           m = off[i - 1] + j

\* The lists up to each.
FlattensTo(run, seqs) ==
    /\ run[0] = <<>>
    /\ \A k \in 1..Len(seqs) : run[k] = run[k - 1] \o seqs[k]
    /\ FlattenSeq(seqs) = run[Len(seqs)]

\* The lists one behind the other, list by list.
LEMMA FlattenRun ==
    ASSUME NEW T, NEW seqs \in Seq(Seq(T))
    PROVE  \E run \in [0..Len(seqs) -> Seq(T)] : FlattensTo(run, seqs)
<1> DEFINE X == Seq(T)
           n == Len(seqs)
           step == [x \in X \X (1..n) |-> x[1] \o seqs[x[2]]]
           Flattens(f) == f = [i \in 1..n |-> IF i = 1 THEN seqs[i] ELSE f[i - 1] \o seqs[i]]
           g == CHOOSE f : Flattens(f)
<1>1. n \in Nat /\ DOMAIN seqs = 1..n /\ \A i \in 1..n : seqs[i] \in X
  BY LenProperties, ElementOfSeq
<1>2. step \in [X \X (1..n) -> X]
  <2>1. \A u \in X, v \in X : u \o v \in X
    BY ConcatProperties
  <2> HIDE DEF X
  <2> QED  BY <1>1, <2>1
<1>3. <<>> \in X
  OBVIOUS
<1>4. PICK run \in [0..n -> X] : run[0] = <<>> /\ \A k \in 1..n : run[k] = run[k - 1] \o seqs[k]
  <2>1. PICK f \in [SUBSET (1..n) -> X] : IsFold(f, n, <<>>, step)
    <3> HIDE DEF step, n, X
    <3> QED  BY <1>1, <1>2, <1>3, FoldExists
  <2>2. FoldsWithin(f, X, n, <<>>, step)
    BY <2>1 DEF FoldsWithin, IsFold
  <2>3. PICK run \in [0..n -> X] : IsRun(run, n, <<>>, step, f[1..n])
    <3> HIDE DEF step, n, X
    <3> QED  BY <1>1, <1>2, <1>3, <2>2, FoldPrefixes
  <2>4. ASSUME NEW k \in 1..n
        PROVE  run[k] = run[k - 1] \o seqs[k]
    <3>1. k - 1 \in 0..n
      BY <1>1
    <3>2. run[k - 1] \in X
      BY <2>3, <3>1
    <3>3. run[k] = step[<<run[k - 1], k>>]
      BY <2>3 DEF IsRun
    <3> HIDE DEF X
    <3> QED  BY <3>2, <3>3
  <2> QED  BY <2>3, <2>4 DEF IsRun
<1>5. \A v \in X : <<>> \o v = v
  BY ConcatEmptySeq
<1>6. Flattens([i \in 1..n |-> run[i]])
  <2> DEFINE f == [i \in 1..n |-> run[i]]
  <2>1. ASSUME NEW i \in 1..n
        PROVE  f[i] = IF i = 1 THEN seqs[i] ELSE f[i - 1] \o seqs[i]
    <3>1. f[i] = run[i - 1] \o seqs[i]
      BY <1>4
    <3>2. CASE i = 1
      BY <1>1, <1>4, <1>5, <3>1, <3>2
    <3>3. CASE i # 1
      <4>1. i - 1 \in 1..n
        BY <1>1, <3>3
      <4>2. f[i - 1] = run[i - 1]
        BY <4>1
      <4> QED  BY <3>1, <3>3, <4>2
    <3> QED  BY <3>2, <3>3
  <2> QED  BY <2>1
<1>7. Flattens(g)
  BY <1>6
<1> HIDE DEF g
<1>8. ASSUME NEW k \in 1..n
      PROVE  g[k] = run[k]
  <2> DEFINE Good == {i \in 0..n : i = 0 \/ g[i] = run[i]}
  <2>0. n \in Nat
    BY <1>1
  <2> HIDE DEF X, n
  <2>1. 0 \in Good
    BY <2>0
  <2>2. ASSUME NEW i \in 0..(n - 1), i \in Good
        PROVE  i + 1 \in Good
    <3>1. i + 1 \in 1..n /\ (i + 1) - 1 = i /\ i + 1 \in 0..n
      BY <1>1
    <3>2. g[i + 1] = IF i + 1 = 1 THEN seqs[i + 1] ELSE g[i] \o seqs[i + 1]
      BY <1>7, <3>1
    <3>3. run[i + 1] = run[i] \o seqs[i + 1]
      BY <1>4, <3>1
    <3>4. CASE i = 0
      <4>1. seqs[i + 1] \in X
        BY <1>1, <3>1
      <4>2. run[i + 1] = seqs[i + 1]
        BY <1>4, <1>5, <3>3, <3>4, <4>1
      <4> QED  BY <3>1, <3>2, <3>4, <4>2
    <3>5. CASE i # 0
      <4>1. i \in Int /\ i + 1 # 1 /\ g[i] = run[i]
        BY <2>0, <2>2, <3>5
      <4> QED  BY <3>1, <3>2, <3>3, <4>1
    <3> QED  BY <3>4, <3>5
  <2>3. k \in Good
    <3> HIDE DEF Good
    <3>1. 0..n \subseteq Good
      BY <2>0, <2>1, <2>2, UpTo
    <3>2. k \in 0..n
      BY <2>0
    <3> QED  BY <3>1, <3>2
  <2> QED  BY <2>0, <2>3
<1>9. FlattenSeq(seqs) = run[n]
  <2>1. CASE n = 0
    <3>1. seqs = <<>>
      BY <2>1, EmptySeq
    <3> QED  BY <1>4, <2>1, <3>1 DEF FlattenSeq
  <2>2. CASE n # 0
    <3>1. n \in 1..n
      BY <1>1, <2>2
    <3>2. FlattenSeq(seqs) = g[n]
      BY <2>2 DEF FlattenSeq, g
    <3> QED  BY <1>8, <3>1, <3>2
  <2> QED  BY <2>1, <2>2
<1> QED  BY <1>4, <1>9 DEF FlattensTo

\* The same of the first k lists.
OffsetsUpTo(off, flat, seqs, k) ==
    /\ \A i \in 1..k : \A j \in 1..Len(seqs[i]) :
           off[i - 1] + j \in 1..Len(flat) /\ flat[off[i - 1] + j] = seqs[i][j]
    /\ \A m \in 1..Len(flat) : \E i \in 1..k : \E j \in 1..Len(seqs[i]) :
           m = off[i - 1] + j

\* One list more.
LEMMA OffsetsOneMore ==
    ASSUME NEW T, NEW seqs, NEW off, NEW k \in Nat, NEW u \in Seq(T), NEW v \in Seq(T),
           seqs[k + 1] = v, off[k] = Len(u), OffsetsUpTo(off, u, seqs, k)
    PROVE  OffsetsUpTo(off, u \o v, seqs, k + 1)
<1> DEFINE w == u \o v
<1>1. Len(u) \in Nat /\ Len(v) \in Nat
  OBVIOUS
<1>2. /\ w \in Seq(T) /\ Len(w) = Len(u) + Len(v)
      /\ \A m \in 1..(Len(u) + Len(v)) :
             w[m] = IF m <= Len(u) THEN u[m] ELSE v[m - Len(u)]
  BY ConcatProperties
<1> HIDE DEF w
<1>3. ASSUME NEW i \in 1..(k + 1), NEW j \in 1..Len(seqs[i])
      PROVE  off[i - 1] + j \in 1..Len(w) /\ w[off[i - 1] + j] = seqs[i][j]
  <2>1. CASE i = k + 1
    <3>1. i - 1 = k /\ j \in 1..Len(v) /\ off[i - 1] = Len(u)
      BY <2>1
    <3>2. /\ Len(u) + j \in 1..(Len(u) + Len(v)) /\ ~(Len(u) + j <= Len(u))
          /\ (Len(u) + j) - Len(u) = j
      BY <1>1, <3>1
    <3>3. w[Len(u) + j] = v[j]
      BY <1>2, <3>2
    <3> QED  BY <1>2, <2>1, <3>1, <3>2, <3>3
  <2>2. CASE i # k + 1
    <3>1. i \in 1..k
      BY <2>2
    <3>2. off[i - 1] + j \in 1..Len(u) /\ u[off[i - 1] + j] = seqs[i][j]
      BY <3>1 DEF OffsetsUpTo
    <3>3. off[i - 1] + j \in 1..(Len(u) + Len(v)) /\ off[i - 1] + j <= Len(u)
      BY <1>1, <3>2
    <3>4. w[off[i - 1] + j] = u[off[i - 1] + j]
      BY <1>2, <3>3
    <3> QED  BY <1>2, <3>2, <3>3, <3>4
  <2> QED  BY <2>1, <2>2
<1>4. ASSUME NEW m \in 1..Len(w)
      PROVE  \E i \in 1..(k + 1) : \E j \in 1..Len(seqs[i]) : m = off[i - 1] + j
  <2>1. CASE m <= Len(u)
    <3>1. m \in 1..Len(u)
      BY <1>1, <2>1
    <3>2. PICK i \in 1..k : \E j \in 1..Len(seqs[i]) : m = off[i - 1] + j
      BY <3>1 DEF OffsetsUpTo
    <3>3. i \in 1..(k + 1)
      OBVIOUS
    <3> QED  BY <3>2, <3>3
  <2>2. CASE ~(m <= Len(u))
    <3>1. k + 1 \in 1..(k + 1) /\ (k + 1) - 1 = k
      OBVIOUS
    <3>2. m - Len(u) \in 1..Len(seqs[k + 1]) /\ m = off[k] + (m - Len(u))
      BY <1>1, <1>2, <2>2
    <3> QED  BY <3>1, <3>2
  <2> QED  BY <2>1, <2>2
<1> QED  BY <1>3, <1>4 DEF OffsetsUpTo, w

\* The whole is a list of their elements, each list in a place of its own.
LEMMA FlattenIs ==
    ASSUME NEW T, NEW seqs \in Seq(Seq(T))
    PROVE  FlattenSeq(seqs) \in Seq(T) /\ \E off : Offsets(off, FlattenSeq(seqs), seqs)
<1> DEFINE n == Len(seqs)
<1>1. n \in Nat /\ \A i \in 1..n : seqs[i] \in Seq(T)
  BY LenProperties, ElementOfSeq
<1>2. PICK run \in [0..n -> Seq(T)] : FlattensTo(run, seqs)
  BY FlattenRun
<1> DEFINE off == [i \in 0..n |-> Len(run[i])]
           Good == {k \in 0..n : OffsetsUpTo(off, run[k], seqs, k)}
<1> HIDE DEF n
<1>3. \A k \in 0..n : run[k] \in Seq(T) /\ off[k] = Len(run[k]) /\ off[k] \in Nat
  <2>1. \A k \in 0..n : run[k] \in Seq(T) /\ off[k] = Len(run[k])
    OBVIOUS
  <2> HIDE DEF off
  <2> QED  BY <2>1, LenProperties
<1>4. 0 \in 0..n /\ n \in 0..n
  BY <1>1
<1>5. run[0] = <<>> /\ Len(run[0]) = 0 /\ FlattenSeq(seqs) = run[n]
  BY <1>2 DEF FlattensTo, n
<1> HIDE DEF off
<1>6. 0 \in Good
  <2>1. 1..0 = {}
    OBVIOUS
  <2>2. OffsetsUpTo(off, run[0], seqs, 0)
    BY <1>5, <2>1 DEF OffsetsUpTo
  <2> QED  BY <1>4, <2>2
<1>7. ASSUME NEW k \in 0..(n - 1), k \in Good
      PROVE  k + 1 \in Good
  <2>1. k + 1 \in 1..n /\ k + 1 \in 0..n /\ (k + 1) - 1 = k /\ k \in Nat /\ k \in 0..n
    BY <1>1
  <2>2. run[k + 1] = run[k] \o seqs[k + 1]
    BY <1>2, <2>1 DEF FlattensTo, n
  <2>3. run[k] \in Seq(T) /\ seqs[k + 1] \in Seq(T) /\ off[k] = Len(run[k])
    BY <1>1, <1>3, <2>1
  <2>4. OffsetsUpTo(off, run[k] \o seqs[k + 1], seqs, k + 1)
    BY <1>7, <2>1, <2>3, OffsetsOneMore
  <2> QED  BY <2>1, <2>2, <2>4
<1>8. OffsetsUpTo(off, run[n], seqs, n)
  <2> HIDE DEF Good
  <2>1. 0..n \subseteq Good
    BY <1>1, <1>6, <1>7, UpTo
  <2>2. n \in Good
    BY <1>4, <2>1
  <2> QED  BY <2>2 DEF Good
<1>9. ASSUME NEW i \in 1..n
      PROVE  off[i] = off[i - 1] + Len(seqs[i])
  <2>1. i \in 0..n /\ i - 1 \in 0..n
    BY <1>1
  <2>2. run[i] = run[i - 1] \o seqs[i] /\ run[i - 1] \in Seq(T) /\ seqs[i] \in Seq(T)
    BY <1>1, <1>2, <1>3, <2>1 DEF FlattensTo, n
  <2>3. Len(run[i]) = Len(run[i - 1]) + Len(seqs[i])
    BY <2>2, ConcatProperties
  <2> QED  BY <1>3, <2>1, <2>3
<1>10. off \in [0..n -> Nat] /\ off[0] = 0 /\ Len(run[n]) = off[n]
  <2>1. off \in [0..n -> Nat]
    BY <1>3 DEF off
  <2> QED  BY <1>3, <1>4, <1>5, <2>1
<1>11. Offsets(off, run[n], seqs)
  BY <1>8, <1>9, <1>10 DEF Offsets, OffsetsUpTo, n
<1> QED  BY <1>3, <1>4, <1>5, <1>11

\* The lists before one end where it begins, or before.
LEMMA OffsetsGrow ==
    ASSUME NEW T, NEW seqs \in Seq(Seq(T)), NEW flat, NEW off, Offsets(off, flat, seqs),
           NEW h \in 1..Len(seqs), NEW i \in 1..Len(seqs), h < i
    PROVE  off[h - 1] + Len(seqs[h]) <= off[i - 1]
<1> DEFINE n == Len(seqs)
           Good == {k \in 0..n : k <= h \/ off[h] <= off[k - 1]}
<1>1. n \in Nat /\ \A k \in 1..n : Len(seqs[k]) \in Nat
  <2>1. \A k \in 1..n : seqs[k] \in Seq(T)
    BY ElementOfSeq
  <2> QED  BY <2>1, LenProperties
<1>2. /\ \A k \in 0..n : off[k] \in Nat
      /\ \A k \in 1..n : off[k] = off[k - 1] + Len(seqs[k])
  BY DEF Offsets
<1> HIDE DEF n
<1>3. 0 \in Good
  BY <1>1
<1>4. h \in 1..n /\ i \in 1..n
  BY DEF n
<1>5. ASSUME NEW k \in 0..(n - 1), k \in Good
      PROVE  k + 1 \in Good
  <2>1. k + 1 \in 0..n /\ (k + 1) - 1 = k /\ k \in Nat /\ k + 1 \in 1..n
    BY <1>1
  <2>2. CASE k < h
    BY <1>4, <2>1, <2>2
  <2>3. CASE k = h
    BY <1>2, <1>4, <2>1, <2>3
  <2>4. CASE h < k
    <3>0. k \in 1..n /\ ~(k <= h)
      BY <1>1, <1>4, <2>1, <2>4
    <3>1. off[h] <= off[k - 1] /\ k \in 1..n
      BY <1>5, <3>0
    <3>2. off[k] = off[k - 1] + Len(seqs[k]) /\ k - 1 \in 0..n
      BY <1>1, <1>2, <3>1
    <3>3. off[k] \in Nat /\ off[k - 1] \in Nat /\ off[h] \in Nat /\ Len(seqs[k]) \in Nat
      <4>1. k \in 0..n /\ k - 1 \in 0..n /\ h \in 0..n
        BY <1>1, <1>4, <2>1, <3>2
      <4> QED  BY <1>1, <1>2, <3>1, <4>1
    <3>4. off[h] <= off[k]
      BY <3>1, <3>2, <3>3, SMTT(30)
    <3> QED  BY <2>1, <3>4
  <2> QED  BY <1>4, <2>1, <2>2, <2>3, <2>4
<1>6. i \in Good
  <2> HIDE DEF Good
  <2>1. 0..n \subseteq Good
    BY <1>1, <1>3, <1>5, UpTo
  <2>2. i \in 0..n
    BY <1>4
  <2> QED  BY <2>1, <2>2
<1>7. off[h] <= off[i - 1]
  BY <1>4, <1>6
<1> QED  BY <1>2, <1>4, <1>7

-----------------------------------------------------------------------------
(* Boards. *)

\* What a text or a name is: a string.  (No prover knows of a literal that it is one.)
Word == STRING \cup {"made", "edited", "renamed", "mine"}

Card == [id : Int, columnId : Int, text : Word]
Column == [id : Int, name : Word, cards : Seq(Card)]
Listing == [id : Int, name : Word]
BoardType == [columns : Seq(Column), unplaced : Seq(Card)]

\* Every card is in its own column, and in one place.
Home(s) == \A i \in DOMAIN s.columns : \A j \in DOMAIN s.columns[i].cards :
    s.columns[i].cards[j].columnId = s.columns[i].id

Once(s) == \A i, h \in DOMAIN s.columns :
    \A j \in DOMAIN s.columns[i].cards, m \in DOMAIN s.columns[h].cards :
        s.columns[i].cards[j].id = s.columns[h].cards[m].id => i = h /\ j = m

Sound(s) == s \in BoardType /\ Distinct(s.columns) /\ Home(s) /\ Once(s)

\* The card, or the column, is on the board.
OnBoard(s, id) ==
    \E i \in DOMAIN s.columns : \E j \in DOMAIN s.columns[i].cards :
        s.columns[i].cards[j].id = id
InColumns(s, id) == \E i \in DOMAIN s.columns : s.columns[i].id = id

\* What the type of a board says of its columns and cards, by number.
LEMMA BoardIs ==
    ASSUME NEW s \in BoardType
    PROVE  /\ s.columns \in Seq(Column) /\ s.unplaced \in Seq(Card)
           /\ Len(s.columns) \in Nat /\ DOMAIN s.columns = 1..Len(s.columns)
           /\ \A i \in 1..Len(s.columns) :
                  /\ s.columns[i] \in Column
                  /\ s.columns[i].id \in Int /\ s.columns[i].name \in Word
                  /\ s.columns[i].cards \in Seq(Card)
                  /\ Len(s.columns[i].cards) \in Nat
                  /\ DOMAIN s.columns[i].cards = 1..Len(s.columns[i].cards)
                  /\ \A j \in 1..Len(s.columns[i].cards) : s.columns[i].cards[j] \in Card
<1>1. s.columns \in Seq(Column) /\ s.unplaced \in Seq(Card)
  BY DEF BoardType
<1>2. /\ Len(s.columns) \in Nat /\ DOMAIN s.columns = 1..Len(s.columns)
      /\ \A i \in 1..Len(s.columns) : s.columns[i] \in Column
  BY <1>1, LenProperties, ElementOfSeq
<1>3. ASSUME NEW i \in 1..Len(s.columns)
      PROVE  /\ s.columns[i].id \in Int /\ s.columns[i].name \in Word
             /\ s.columns[i].cards \in Seq(Card)
             /\ Len(s.columns[i].cards) \in Nat
             /\ DOMAIN s.columns[i].cards = 1..Len(s.columns[i].cards)
             /\ \A j \in 1..Len(s.columns[i].cards) : s.columns[i].cards[j] \in Card
  <2>1. s.columns[i] \in Column
    BY <1>2
  <2>2. /\ s.columns[i].id \in Int /\ s.columns[i].name \in Word
        /\ s.columns[i].cards \in Seq(Card)
    BY <2>1 DEF Column
  <2> QED  BY <2>2, LenProperties, ElementOfSeq
<1> QED  BY <1>1, <1>2, <1>3

\* What is on a board, by number.
LEMMA OnBoardIs ==
    ASSUME NEW s \in BoardType
    PROVE  /\ \A id : OnBoard(s, id) <=>
                  \E i \in 1..Len(s.columns) : \E j \in 1..Len(s.columns[i].cards) :
                      s.columns[i].cards[j].id = id
           /\ \A id : InColumns(s, id) <=> \E i \in 1..Len(s.columns) : s.columns[i].id = id
<1>1. /\ DOMAIN s.columns = 1..Len(s.columns)
      /\ \A i \in 1..Len(s.columns) :
             DOMAIN s.columns[i].cards = 1..Len(s.columns[i].cards)
  BY BoardIs
<1> QED  BY <1>1 DEF OnBoard, InColumns

-----------------------------------------------------------------------------
(* A board as two lists, and two lists as a board. *)

CardLists(s) == [i \in DOMAIN s.columns |-> s.columns[i].cards]

\* The list of the cards is those of the columns, one column behind the other.
LEMMA ListCardsIs ==
    ASSUME NEW s \in BoardType
    PROVE  /\ CardLists(s) \in Seq(Seq(Card)) /\ Len(CardLists(s)) = Len(s.columns)
           /\ \A i \in 1..Len(s.columns) : CardLists(s)[i] = s.columns[i].cards
           /\ ListCards(s) \in Seq(Card)
           /\ \E off : Offsets(off, ListCards(s), CardLists(s))
<1>1. /\ Len(s.columns) \in Nat /\ DOMAIN s.columns = 1..Len(s.columns)
      /\ \A i \in 1..Len(s.columns) : s.columns[i].cards \in Seq(Card)
  BY BoardIs
<1>2. CardLists(s) \in [1..Len(s.columns) -> Seq(Card)]
  BY <1>1 DEF CardLists
<1>3. CardLists(s) \in Seq(Seq(Card)) /\ Len(CardLists(s)) = Len(s.columns)
  BY <1>1, <1>2
<1>4. ListCards(s) = FlattenSeq(CardLists(s))
  BY DEF ListCards, CardLists
<1> QED  BY <1>1, <1>3, <1>4, FlattenIs DEF CardLists

\* The list of the columns has their ids and names, in order.
LEMMA ListColumnsIs ==
    ASSUME NEW s \in BoardType
    PROVE  /\ ListColumns(s) \in Seq(Listing) /\ Len(ListColumns(s)) = Len(s.columns)
           /\ DOMAIN ListColumns(s) = DOMAIN s.columns
           /\ \A i \in DOMAIN s.columns : /\ ListColumns(s)[i].id = s.columns[i].id
                                          /\ ListColumns(s)[i].name = s.columns[i].name
<1>1. /\ Len(s.columns) \in Nat /\ DOMAIN s.columns = 1..Len(s.columns)
      /\ \A i \in 1..Len(s.columns) : s.columns[i].id \in Int /\ s.columns[i].name \in Word
  BY BoardIs
<1>2. ListColumns(s) \in [1..Len(s.columns) -> Listing]
  BY <1>1 DEF ListColumns, Listing
<1>3. ListColumns(s) \in Seq(Listing) /\ Len(ListColumns(s)) = Len(s.columns)
  BY <1>1, <1>2
<1> QED  BY <1>1, <1>2, <1>3 DEF ListColumns

\* The list has the cards of the board, those of column i from off[i - 1] on.
LaidOut(off, s) ==
    /\ \A i \in 1..Len(s.columns) : off[i - 1] \in Nat
    /\ \A i \in 1..Len(s.columns) : \A j \in 1..Len(s.columns[i].cards) :
           /\ off[i - 1] + j \in 1..Len(ListCards(s))
           /\ ListCards(s)[off[i - 1] + j] = s.columns[i].cards[j]
    /\ \A m \in 1..Len(ListCards(s)) :
           \E i \in 1..Len(s.columns) : \E j \in 1..Len(s.columns[i].cards) :
               m = off[i - 1] + j

\* Where a column begins in the list, its cards are there.
LEMMA ListedCards ==
    ASSUME NEW s \in BoardType, NEW off, Offsets(off, ListCards(s), CardLists(s))
    PROVE  LaidOut(off, s)
<1> DEFINE c == CardLists(s)
           flat == ListCards(s)
<1>1. Len(c) = Len(s.columns) /\ \A i \in 1..Len(s.columns) : c[i] = s.columns[i].cards
  BY ListCardsIs
<1>2. Offsets(off, flat, c)
  OBVIOUS
<1> HIDE DEF c, flat
<1>2a. ASSUME NEW i \in 1..Len(s.columns)
       PROVE  off[i - 1] \in Nat
  <2>1. i - 1 \in 0..Len(c)
    BY <1>1
  <2> QED  BY <1>2, <2>1 DEF Offsets
<1>3. ASSUME NEW i \in 1..Len(s.columns), NEW j \in 1..Len(s.columns[i].cards)
      PROVE  /\ off[i - 1] + j \in 1..Len(flat)
             /\ flat[off[i - 1] + j] = s.columns[i].cards[j]
  <2>1. i \in 1..Len(c) /\ c[i] = s.columns[i].cards /\ j \in 1..Len(c[i])
    BY <1>1
  <2>2. off[i - 1] + j \in 1..Len(flat) /\ flat[off[i - 1] + j] = c[i][j]
    BY <1>2, <2>1 DEF Offsets
  <2> QED  BY <2>1, <2>2
<1>4. ASSUME NEW m \in 1..Len(flat)
      PROVE  \E i \in 1..Len(s.columns) : \E j \in 1..Len(s.columns[i].cards) :
                 m = off[i - 1] + j
  <2>1. PICK i \in 1..Len(c) : \E j \in 1..Len(c[i]) : m = off[i - 1] + j
    BY <1>2 DEF Offsets
  <2>2. i \in 1..Len(s.columns) /\ c[i] = s.columns[i].cards
    BY <1>1, <2>1
  <2> QED  BY <2>1, <2>2
<1> QED  BY <1>2a, <1>3, <1>4 DEF LaidOut, flat

\* Every board has such places.
LEMMA IsLaidOut ==
    ASSUME NEW s \in BoardType
    PROVE  \E off : LaidOut(off, s)
BY ListCardsIs, ListedCards

\* The list has the cards of the board and no other.
LEMMA ListCardsIds ==
    ASSUME NEW s \in BoardType
    PROVE  \A id : (\E m \in 1..Len(ListCards(s)) : ListCards(s)[m].id = id) <=> OnBoard(s, id)
<1>1. PICK off : LaidOut(off, s)
  BY IsLaidOut
<1>2. /\ \A i \in 1..Len(s.columns) : \A j \in 1..Len(s.columns[i].cards) :
             /\ off[i - 1] + j \in 1..Len(ListCards(s))
             /\ ListCards(s)[off[i - 1] + j] = s.columns[i].cards[j]
      /\ \A m \in 1..Len(ListCards(s)) :
             \E i \in 1..Len(s.columns) : \E j \in 1..Len(s.columns[i].cards) :
                 m = off[i - 1] + j
  BY <1>1 DEF LaidOut
<1>3. ASSUME NEW id, NEW m \in 1..Len(ListCards(s)), ListCards(s)[m].id = id
      PROVE  OnBoard(s, id)
  <2>1. PICK i \in 1..Len(s.columns) : \E j \in 1..Len(s.columns[i].cards) :
            m = off[i - 1] + j
    BY <1>2
  <2>2. PICK j \in 1..Len(s.columns[i].cards) : m = off[i - 1] + j
    BY <2>1
  <2>3. s.columns[i].cards[j].id = id
    BY <1>2, <1>3, <2>2
  <2> QED  BY <2>3, OnBoardIs
<1>4. ASSUME NEW id, OnBoard(s, id)
      PROVE  \E m \in 1..Len(ListCards(s)) : ListCards(s)[m].id = id
  <2>1. PICK i \in 1..Len(s.columns) : \E j \in 1..Len(s.columns[i].cards) :
            s.columns[i].cards[j].id = id
    BY <1>4, OnBoardIs
  <2>2. PICK j \in 1..Len(s.columns[i].cards) : s.columns[i].cards[j].id = id
    BY <2>1
  <2> QED  BY <1>2, <2>2
<1> QED  BY <1>3, <1>4

\* Each card once on the board is once in the list.
LEMMA ListCardsDistinct ==
    ASSUME NEW s \in BoardType, Once(s)
    PROVE  Distinct(ListCards(s))
<1>1. PICK off : LaidOut(off, s)
  BY IsLaidOut
<1>2. /\ \A i \in 1..Len(s.columns) : \A j \in 1..Len(s.columns[i].cards) :
             /\ off[i - 1] + j \in 1..Len(ListCards(s))
             /\ ListCards(s)[off[i - 1] + j] = s.columns[i].cards[j]
      /\ \A m \in 1..Len(ListCards(s)) :
             \E i \in 1..Len(s.columns) : \E j \in 1..Len(s.columns[i].cards) :
                 m = off[i - 1] + j
  BY <1>1 DEF LaidOut
<1>3. /\ DOMAIN s.columns = 1..Len(s.columns)
      /\ \A i \in 1..Len(s.columns) :
             DOMAIN s.columns[i].cards = 1..Len(s.columns[i].cards)
  BY BoardIs
<1>4. DOMAIN ListCards(s) = 1..Len(ListCards(s))
  BY ListCardsIs, LenProperties
<1>5. ASSUME NEW m \in 1..Len(ListCards(s)), NEW k \in 1..Len(ListCards(s)),
             ListCards(s)[m].id = ListCards(s)[k].id
      PROVE  m = k
  <2>1. PICK i \in 1..Len(s.columns) : \E j \in 1..Len(s.columns[i].cards) :
            m = off[i - 1] + j
    BY <1>2
  <2>2. PICK j \in 1..Len(s.columns[i].cards) : m = off[i - 1] + j
    BY <2>1
  <2>3. PICK h \in 1..Len(s.columns) : \E n \in 1..Len(s.columns[h].cards) :
            k = off[h - 1] + n
    BY <1>2
  <2>4. PICK n \in 1..Len(s.columns[h].cards) : k = off[h - 1] + n
    BY <2>3
  <2>5. s.columns[i].cards[j].id = s.columns[h].cards[n].id
    BY <1>2, <1>5, <2>2, <2>4
  <2>6. /\ i \in DOMAIN s.columns /\ h \in DOMAIN s.columns
        /\ j \in DOMAIN s.columns[i].cards /\ n \in DOMAIN s.columns[h].cards
    BY <1>3
  <2>7. i = h /\ j = n
    BY <2>5, <2>6 DEF Once
  <2> QED  BY <2>2, <2>4, <2>7
<1> QED  BY <1>4, <1>5 DEF Distinct

\* The elements of seq that are in S and only those, each as often.
LEMMA KeepHas ==
    ASSUME NEW T, NEW seq \in Seq(T), NEW S
    PROVE  /\ Keep(seq, S) \in Seq(T) /\ Len(Keep(seq, S)) \in Nat
           /\ \E p \in [1..Len(Keep(seq, S)) -> 1..Len(seq)] :
                  /\ \A j, m \in 1..Len(Keep(seq, S)) : p[j] = p[m] => j = m
                  /\ \A j \in 1..Len(Keep(seq, S)) :
                         Keep(seq, S)[j] = seq[p[j]] /\ Keep(seq, S)[j] \in S
<1> DEFINE kept == Keep(seq, S)
<1>1. kept \in Seq(T) /\ \E p : Picks(p, kept, seq, S)
  BY KeepPicks
<1>2. PICK p : Picks(p, kept, seq, S)
  BY <1>1
<1> HIDE DEF kept
<1>3. Len(kept) \in Nat /\ Len(seq) \in Nat
  BY <1>1
<1>4. p \in [1..Len(kept) -> 1..Len(seq)]
  BY <1>2 DEF Picks
<1>5. \A j, m \in 1..Len(kept) : j < m \/ m < j \/ j = m
  BY <1>3
<1>6. ASSUME NEW j \in 1..Len(kept), NEW m \in 1..Len(kept), p[j] = p[m]
      PROVE  j = m
  <2>1. p[j] \in Nat /\ p[m] \in Nat
    BY <1>3, <1>4
  <2>2. ~(j < m) /\ ~(m < j)
    BY <1>2, <1>6, <2>1 DEF Picks
  <2> QED  BY <1>5, <2>2
<1>7. \A j \in 1..Len(kept) : kept[j] = seq[p[j]] /\ kept[j] \in S
  BY <1>2 DEF Picks
<1> QED  BY <1>1, <1>3, <1>4, <1>6, <1>7 DEF kept

\* The cards of a column, out of the list.
Belonging(cards, k) == {c \in ToSet(cards) : c.columnId = k}

\* k has cards of v that are in S, each once.
Chosen(k, v, S) ==
    /\ k \in Seq(Card) /\ Len(k) \in Nat
    /\ \E p \in [1..Len(k) -> 1..Len(v)] :
           /\ \A j, m \in 1..Len(k) : p[j] = p[m] => j = m
           /\ \A j \in 1..Len(k) : k[j] = v[p[j]] /\ k[j] \in S

\* Two lists of the right kinds make a sound board.
LEMMA Grouped ==
    ASSUME NEW columns \in Seq(Listing), Distinct(columns),
           NEW cards \in Seq(Card), Distinct(cards)
    PROVE  /\ Sound(GroupCards(columns, cards))
           /\ \A id : OnBoard(GroupCards(columns, cards), id) =>
                  \E m \in 1..Len(cards) : cards[m].id = id
           /\ \A id : InColumns(GroupCards(columns, cards), id) <=>
                  \E i \in 1..Len(columns) : columns[i].id = id
<1> DEFINE g == GroupCards(columns, cards)
           taken(i) == Keep(cards, Belonging(cards, columns[i].id))
<1>1. /\ Len(columns) \in Nat /\ DOMAIN columns = 1..Len(columns)
      /\ Len(cards) \in Nat /\ DOMAIN cards = 1..Len(cards)
  BY LenProperties
<1>1a. PICK kept : kept = [i \in 1..Len(columns) |-> taken(i)]
  OBVIOUS
<1>2. /\ DOMAIN g.columns = 1..Len(columns)
      /\ \A i \in 1..Len(columns) :
             g.columns[i] = [id |-> columns[i].id, name |-> columns[i].name, cards |-> kept[i]]
  BY <1>1, <1>1a DEF GroupCards, Entry, Belonging
<1>2a. g.columns = [i \in 1..Len(columns) |-> g.columns[i]]
  BY <1>1 DEF GroupCards
<1>3. g.unplaced \in Seq(Card) /\ g = [columns |-> g.columns, unplaced |-> g.unplaced]
  <2>1. PICK S : g.unplaced = Keep(cards, S)
    BY DEF GroupCards
  <2>2. g = [columns |-> g.columns, unplaced |-> g.unplaced]
    BY DEF GroupCards
  <2> QED  BY <2>1, <2>2, KeepPicks
<1>4. ASSUME NEW i \in 1..Len(columns)
      PROVE  /\ kept[i] \in Seq(Card) /\ Len(kept[i]) \in Nat
             /\ \E p \in [1..Len(kept[i]) -> 1..Len(cards)] :
                    /\ \A j, m \in 1..Len(kept[i]) : p[j] = p[m] => j = m
                    /\ \A j \in 1..Len(kept[i]) : kept[i][j] = cards[p[j]]
             /\ \A j \in 1..Len(kept[i]) : kept[i][j].columnId = columns[i].id
  <2> DEFINE S == Belonging(cards, columns[i].id)
             kp == Keep(cards, S)
  <2>1. \A c \in S : c.columnId = columns[i].id
    BY DEF Belonging
  <2> HIDE DEF S
  <2>2. Chosen(kp, cards, S)
    <3>1. /\ kp \in Seq(Card) /\ Len(kp) \in Nat
          /\ \E p \in [1..Len(kp) -> 1..Len(cards)] :
                 /\ \A j, m \in 1..Len(kp) : p[j] = p[m] => j = m
                 /\ \A j \in 1..Len(kp) : kp[j] = cards[p[j]] /\ kp[j] \in S
      BY KeepHas
    <3> QED  BY <3>1, Zenon DEF Chosen
  <2>3. kept[i] = kp
    BY <1>1a DEF S
  <2> HIDE DEF kp
  <2>4. Chosen(kept[i], cards, S)
    BY <2>2, <2>3
  <2>5. kept[i] \in Seq(Card) /\ Len(kept[i]) \in Nat
    BY <2>4, Zenon DEF Chosen
  <2>6. PICK p \in [1..Len(kept[i]) -> 1..Len(cards)] :
            /\ \A j, m \in 1..Len(kept[i]) : p[j] = p[m] => j = m
            /\ \A j \in 1..Len(kept[i]) : kept[i][j] = cards[p[j]] /\ kept[i][j] \in S
    BY <2>4, Zenon DEF Chosen
  <2>7. \A j \in 1..Len(kept[i]) : kept[i][j].columnId = columns[i].id
    BY <2>1, <2>6, Zenon
  <2> QED  BY <2>5, <2>6, <2>7, Zenon
<1> HIDE DEF g, taken
<1>5. g \in BoardType
  <2>1. ASSUME NEW i \in 1..Len(columns)
        PROVE  g.columns[i] \in Column
    <3>1. columns[i] \in Listing
      BY ElementOfSeq
    <3>2. columns[i].id \in Int /\ columns[i].name \in Word
      BY <3>1 DEF Listing
    <3>3. kept[i] \in Seq(Card)
      BY <1>4
    <3>4. g.columns[i] = [id |-> columns[i].id, name |-> columns[i].name, cards |-> kept[i]]
      BY <1>2
    <3> QED  BY <3>2, <3>3, <3>4 DEF Column
  <2>2. g.columns \in [1..Len(columns) -> Column]
    BY <1>2a, <2>1
  <2>3. Len(columns) \in Nat
    BY <1>1
  <2>4. g.columns \in Seq(Column)
    BY <2>2, <2>3
  <2> QED  BY <1>3, <2>4 DEF BoardType
<1>6. /\ Len(g.columns) = Len(columns)
      /\ \A i \in 1..Len(columns) :
             /\ g.columns[i].id = columns[i].id /\ g.columns[i].cards = kept[i]
             /\ DOMAIN g.columns[i].cards = 1..Len(kept[i])
  <2>1. /\ Len(g.columns) \in Nat /\ DOMAIN g.columns = 1..Len(g.columns)
        /\ \A i \in 1..Len(g.columns) :
               DOMAIN g.columns[i].cards = 1..Len(g.columns[i].cards)
    BY <1>5, BoardIs
  <2>2. 1..Len(g.columns) = 1..Len(columns)
    BY <1>2, <2>1
  <2>3. Len(g.columns) = Len(columns)
    BY <1>1, <2>1, <2>2
  <2>4. ASSUME NEW i \in 1..Len(columns)
        PROVE  /\ g.columns[i].id = columns[i].id /\ g.columns[i].cards = kept[i]
               /\ DOMAIN g.columns[i].cards = 1..Len(kept[i])
    <3>0. g.columns[i] = [id |-> columns[i].id, name |-> columns[i].name, cards |-> kept[i]]
      BY <1>2
    <3>1. g.columns[i].id = columns[i].id /\ g.columns[i].cards = kept[i]
      BY <3>0
    <3>2. DOMAIN g.columns[i].cards = 1..Len(g.columns[i].cards)
      BY <2>1, <2>2
    <3> QED  BY <3>1, <3>2
  <2> QED  BY <2>3, <2>4
<1>6a. \A i, h \in 1..Len(columns) : columns[i].id = columns[h].id => i = h
  BY <1>1 DEF Distinct
<1>6b. \A m, k \in 1..Len(cards) : cards[m].id = cards[k].id => m = k
  BY <1>1 DEF Distinct
<1>6c. DOMAIN g.columns = 1..Len(columns)
  BY <1>2
<1>7. Distinct(g.columns)
  BY <1>6, <1>6a, <1>6c DEF Distinct
<1>8. Home(g)
  <2>1. SUFFICES ASSUME NEW i \in 1..Len(columns), NEW j \in DOMAIN g.columns[i].cards
                 PROVE  g.columns[i].cards[j].columnId = g.columns[i].id
    BY <1>6c DEF Home
  <2>2. g.columns[i].cards = kept[i] /\ g.columns[i].id = columns[i].id /\ j \in 1..Len(kept[i])
    BY <1>6, <2>1
  <2>3. kept[i][j].columnId = columns[i].id
    BY <1>4, <2>2
  <2> QED  BY <2>2, <2>3
<1>9. Once(g)
  <2>0. SUFFICES ASSUME NEW i \in 1..Len(columns), NEW h \in 1..Len(columns),
                        NEW j \in DOMAIN g.columns[i].cards, NEW m \in DOMAIN g.columns[h].cards,
                        g.columns[i].cards[j].id = g.columns[h].cards[m].id
                 PROVE  i = h /\ j = m
    BY <1>6c DEF Once
  <2>1. j \in 1..Len(kept[i]) /\ m \in 1..Len(kept[h]) /\ kept[i][j].id = kept[h][m].id
    <3>1. g.columns[i].cards = kept[i] /\ DOMAIN g.columns[i].cards = 1..Len(kept[i])
      BY <1>6
    <3>2. g.columns[h].cards = kept[h] /\ DOMAIN g.columns[h].cards = 1..Len(kept[h])
      BY <1>6
    <3> QED  BY <2>0, <3>1, <3>2
  <2>2. PICK p \in [1..Len(kept[i]) -> 1..Len(cards)] :
            /\ \A a, b \in 1..Len(kept[i]) : p[a] = p[b] => a = b
            /\ \A a \in 1..Len(kept[i]) : kept[i][a] = cards[p[a]]
    BY <1>4
  <2>3. PICK q \in [1..Len(kept[h]) -> 1..Len(cards)] :
            \A a \in 1..Len(kept[h]) : kept[h][a] = cards[q[a]]
    BY <1>4
  <2>4. p[j] = q[m]
    <3>1. p[j] \in 1..Len(cards) /\ q[m] \in 1..Len(cards)
      BY <2>1, <2>2, <2>3
    <3>2. cards[p[j]].id = cards[q[m]].id
      BY <2>1, <2>2, <2>3
    <3> QED  BY <1>6b, <3>1, <3>2
  <2>5. kept[i][j] = kept[h][m]
    BY <2>1, <2>2, <2>3, <2>4
  <2>6. i = h
    <3>1. kept[i][j].columnId = columns[i].id /\ kept[h][m].columnId = columns[h].id
      BY <1>4, <2>1
    <3> QED  BY <1>6a, <2>5, <3>1
  <2>7. kept[i][m] = cards[p[m]] /\ m \in 1..Len(kept[i]) /\ kept[i][m].id = kept[i][j].id
    BY <2>1, <2>2, <2>6
  <2>8. p[m] = p[j]
    <3>1. p[j] \in 1..Len(cards) /\ p[m] \in 1..Len(cards)
      BY <2>1, <2>2, <2>7
    <3> QED  BY <1>6b, <2>1, <2>2, <2>7, <3>1
  <2> QED  BY <2>1, <2>2, <2>6, <2>7, <2>8
<1>10. ASSUME NEW id, OnBoard(g, id)
       PROVE  \E m \in 1..Len(cards) : cards[m].id = id
  <2>1. PICK i \in 1..Len(columns) : \E j \in 1..Len(kept[i]) : kept[i][j].id = id
    BY <1>6, <1>6c, <1>10 DEF OnBoard
  <2>2. PICK j \in 1..Len(kept[i]) : kept[i][j].id = id
    BY <2>1
  <2>3. PICK p \in [1..Len(kept[i]) -> 1..Len(cards)] :
            \A a \in 1..Len(kept[i]) : kept[i][a] = cards[p[a]]
    BY <1>4
  <2> QED  BY <2>2, <2>3
<1>11. \A id : InColumns(g, id) <=> \E i \in 1..Len(columns) : columns[i].id = id
  BY <1>6, <1>6c DEF InColumns
<1> QED  BY <1>5, <1>7, <1>8, <1>9, <1>10, <1>11 DEF Sound, g

\* A board read as two lists of one moment is that board.
LEMMA RoundTrip ==
    ASSUME NEW s, Sound(s), s.unplaced = <<>>
    PROVE  GroupCards(ListColumns(s), ListCards(s)) = s
<1> DEFINE flat == ListCards(s)
           columns == ListColumns(s)
           n == Len(s.columns)
<1>1. /\ s \in BoardType /\ s.columns \in Seq(Column)
      /\ Len(s.columns) \in Nat /\ DOMAIN s.columns = 1..n
      /\ \A i \in 1..n : /\ s.columns[i] \in Column
                         /\ s.columns[i].cards \in Seq(Card) /\ Len(s.columns[i].cards) \in Nat
                         /\ DOMAIN s.columns[i].cards = 1..Len(s.columns[i].cards)
  BY BoardIs DEF Sound
<1>1a. s.columns = [i \in 1..n |-> s.columns[i]]
  BY DEF Sound, BoardType
<1>2. PICK off : LaidOut(off, s)
  BY <1>1, IsLaidOut
<1>3. flat \in Seq(Card) /\ Len(flat) \in Nat /\ DOMAIN flat = 1..Len(flat)
  BY <1>1, ListCardsIs, LenProperties
<1>4. /\ DOMAIN columns = 1..n
      /\ \A i \in 1..n : columns[i].id = s.columns[i].id /\ columns[i].name = s.columns[i].name
  BY <1>1, ListColumnsIs
<1> HIDE DEF flat, columns, n
<1>4a. \A i \in 1..n : off[i - 1] \in Nat
  BY <1>2 DEF LaidOut, n
<1>5. /\ \A i \in 1..n : \A j \in 1..Len(s.columns[i].cards) :
             off[i - 1] + j \in 1..Len(flat) /\ flat[off[i - 1] + j] = s.columns[i].cards[j]
      /\ \A m \in 1..Len(flat) : \E i \in 1..n : \E j \in 1..Len(s.columns[i].cards) :
             m = off[i - 1] + j
  BY <1>2 DEF LaidOut, flat, n
<1>6. \A i \in 1..n : \A j \in 1..Len(s.columns[i].cards) :
          s.columns[i].cards[j].columnId = s.columns[i].id
  BY <1>1 DEF Sound, Home
<1>7. ASSUME NEW i \in 1..n
      PROVE  Keep(flat, Belonging(flat, s.columns[i].id)) = s.columns[i].cards
  <2> DEFINE S == Belonging(flat, s.columns[i].id)
             p == [j \in 1..Len(s.columns[i].cards) |-> off[i - 1] + j]
  <2>1. p \in [1..Len(s.columns[i].cards) -> 1..Len(flat)]
    BY <1>5
  <2>2. ASSUME NEW j \in 1..Len(s.columns[i].cards), NEW m \in 1..Len(s.columns[i].cards), j < m
        PROVE  p[j] < p[m]
    <3>1. off[i - 1] \in Nat /\ p[j] = off[i - 1] + j /\ p[m] = off[i - 1] + m
      BY <1>4a
    <3> HIDE DEF p
    <3> QED  BY <2>2, <3>1
  <2>3. \A j \in 1..Len(s.columns[i].cards) :
            s.columns[i].cards[j] = flat[p[j]] /\ s.columns[i].cards[j] \in S
    <3>1. \A j \in 1..Len(s.columns[i].cards) :
              p[j] \in 1..Len(flat) /\ flat[p[j]] = s.columns[i].cards[j]
      BY <1>5
    <3> HIDE DEF p
    <3> QED  BY <1>3, <1>6, <3>1 DEF Belonging, ToSet
  <2>4. ASSUME NEW m \in 1..Len(flat), flat[m] \in S
        PROVE  \E j \in 1..Len(s.columns[i].cards) : p[j] = m
    <3>1. PICK h \in 1..n : \E j \in 1..Len(s.columns[h].cards) : m = off[h - 1] + j
      BY <1>5
    <3>2. PICK j \in 1..Len(s.columns[h].cards) : m = off[h - 1] + j
      BY <3>1
    <3>3. flat[m].columnId = s.columns[h].id /\ flat[m].columnId = s.columns[i].id
      BY <1>5, <1>6, <2>4, <3>2 DEF Belonging
    <3>4. h = i
      BY <1>1, <3>3 DEF Sound, Distinct
    <3> QED  BY <3>2, <3>4
  <2>5. Picks(p, s.columns[i].cards, flat, S)
    <3> HIDE DEF p, S
    <3> QED  BY <2>1, <2>2, <2>3, <2>4 DEF Picks
  <2>6. s.columns[i].cards \in Seq(Card)
    BY <1>1
  <2> HIDE DEF p, S
  <2>7. Keep(flat, S) = s.columns[i].cards
    BY <1>3, <2>5, <2>6, KeepIs
  <2> QED  BY <2>7 DEF S
<1> DEFINE g == GroupCards(columns, flat)
<1>8. /\ DOMAIN g.columns = 1..n /\ g.columns = [i \in 1..n |-> g.columns[i]]
      /\ \A i \in 1..n :
             g.columns[i] = [id |-> columns[i].id, name |-> columns[i].name,
                             cards |-> Keep(flat, Belonging(flat, columns[i].id))]
  BY <1>4 DEF GroupCards, Entry, Belonging
<1>9. \A i \in 1..n : g.columns[i] = s.columns[i]
  <2>1. \A i \in 1..n : s.columns[i] =
            [id |-> s.columns[i].id, name |-> s.columns[i].name, cards |-> s.columns[i].cards]
    BY <1>1 DEF Column
  <2> HIDE DEF g
  <2>2. SUFFICES ASSUME NEW i \in 1..n
                 PROVE  g.columns[i] = s.columns[i]
    OBVIOUS
  <2>3. Keep(flat, Belonging(flat, columns[i].id)) = s.columns[i].cards
    BY <1>4, <1>7
  <2>4. g.columns[i] = [id |-> columns[i].id, name |-> columns[i].name,
                        cards |-> Keep(flat, Belonging(flat, columns[i].id))]
    BY <1>8
  <2> QED  BY <1>4, <2>1, <2>3, <2>4
<1>10. g.columns = s.columns
  <2>1. s.columns = [i \in 1..n |-> s.columns[i]]
    BY <1>1a
  <2> HIDE DEF g
  <2> QED  BY <1>8, <1>9, <2>1
<1>11. g.unplaced = <<>>
  <2>1. PICK S : S = {c \in ToSet(flat) : c.columnId \notin {columns[i].id : i \in DOMAIN columns}}
    OBVIOUS
  <2>2. g.unplaced = Keep(flat, S)
    BY <2>1 DEF GroupCards
  <2>3. \A m \in 1..Len(flat) : flat[m] \notin S
    <3>1. SUFFICES ASSUME NEW m \in 1..Len(flat)
                   PROVE  flat[m].columnId \in {columns[i].id : i \in DOMAIN columns}
      BY <2>1
    <3>2. PICK h \in 1..n : \E j \in 1..Len(s.columns[h].cards) : m = off[h - 1] + j
      BY <1>5
    <3>3. PICK j \in 1..Len(s.columns[h].cards) : m = off[h - 1] + j
      BY <3>2
    <3>4. flat[m] = s.columns[h].cards[j]
      BY <1>5, <3>3
    <3>5. flat[m].columnId = s.columns[h].id
      BY <1>6, <3>4
    <3> QED  BY <1>4, <3>5
  <2>4. Picks(<<>>, <<>>, flat, S)
    <3>1. <<>> \in [1..0 -> 1..Len(flat)] /\ Len(<<>>) = 0
      OBVIOUS
    <3> QED  BY <2>3, <3>1 DEF Picks
  <2>5. <<>> \in Seq(Card)
    OBVIOUS
  <2> QED  BY <1>3, <2>2, <2>4, <2>5, KeepIs
<1>12. g = [columns |-> g.columns, unplaced |-> g.unplaced]
  BY DEF GroupCards
<1>13. s = [columns |-> s.columns, unplaced |-> s.unplaced]
  BY <1>1 DEF BoardType
<1> HIDE DEF g
<1>14. g = s
  BY <1>10, <1>11, <1>12, <1>13
<1> QED  BY <1>14 DEF g, columns, flat

-----------------------------------------------------------------------------
(* The same of a board, by number. *)

\* No two columns have an id.
LEMMA DistinctIs ==
    ASSUME NEW s \in BoardType
    PROVE  Distinct(s.columns) <=>
               \A i, h \in 1..Len(s.columns) : s.columns[i].id = s.columns[h].id => i = h
<1>1. DOMAIN s.columns = 1..Len(s.columns)
  BY BoardIs
<1> QED  BY <1>1 DEF Distinct

\* Every card is in its own column.
LEMMA HomeIs ==
    ASSUME NEW s \in BoardType
    PROVE  Home(s) <=>
               \A i \in 1..Len(s.columns) : \A j \in 1..Len(s.columns[i].cards) :
                   s.columns[i].cards[j].columnId = s.columns[i].id
<1>1. /\ DOMAIN s.columns = 1..Len(s.columns)
      /\ \A i \in 1..Len(s.columns) :
             DOMAIN s.columns[i].cards = 1..Len(s.columns[i].cards)
  BY BoardIs
<1> QED  BY <1>1 DEF Home

\* No two cards have an id.
LEMMA OnceIs ==
    ASSUME NEW s \in BoardType
    PROVE  Once(s) <=>
               \A i, h \in 1..Len(s.columns) :
                   \A j \in 1..Len(s.columns[i].cards) : \A m \in 1..Len(s.columns[h].cards) :
                       s.columns[i].cards[j].id = s.columns[h].cards[m].id => i = h /\ j = m
<1>1. /\ DOMAIN s.columns = 1..Len(s.columns)
      /\ \A i \in 1..Len(s.columns) :
             DOMAIN s.columns[i].cards = 1..Len(s.columns[i].cards)
  BY BoardIs
<1>2. ASSUME Once(s),
             NEW i \in 1..Len(s.columns), NEW h \in 1..Len(s.columns),
             NEW j \in 1..Len(s.columns[i].cards), NEW m \in 1..Len(s.columns[h].cards),
             s.columns[i].cards[j].id = s.columns[h].cards[m].id
      PROVE  i = h /\ j = m
  <2>1. /\ i \in DOMAIN s.columns /\ h \in DOMAIN s.columns
        /\ j \in DOMAIN s.columns[i].cards /\ m \in DOMAIN s.columns[h].cards
    BY <1>1
  <2> QED  BY <1>2, <2>1 DEF Once
<1>3. ASSUME \A i, h \in 1..Len(s.columns) :
                 \A j \in 1..Len(s.columns[i].cards) : \A m \in 1..Len(s.columns[h].cards) :
                     s.columns[i].cards[j].id = s.columns[h].cards[m].id => i = h /\ j = m
      PROVE  Once(s)
  <2>1. SUFFICES ASSUME NEW i \in DOMAIN s.columns, NEW h \in DOMAIN s.columns,
                        NEW j \in DOMAIN s.columns[i].cards, NEW m \in DOMAIN s.columns[h].cards,
                        s.columns[i].cards[j].id = s.columns[h].cards[m].id
                 PROVE  i = h /\ j = m
    BY DEF Once
  <2>2. /\ i \in 1..Len(s.columns) /\ h \in 1..Len(s.columns)
        /\ j \in 1..Len(s.columns[i].cards) /\ m \in 1..Len(s.columns[h].cards)
    BY <1>1, <2>1
  <2> QED  BY <1>3, <2>1, <2>2
<1> QED  BY <1>2, <1>3

-----------------------------------------------------------------------------
(* What a change leaves: columns that were there, with cards that were in them. *)

\* The cards of u, by id and column, are among those of v and in their order.
CardsFrom(u, v) ==
    \E p \in [1..Len(u) -> 1..Len(v)] :
        /\ \A j, m \in 1..Len(u) : j < m => p[j] < p[m]
        /\ \A j \in 1..Len(u) : u[j].id = v[p[j]].id /\ u[j].columnId = v[p[j]].columnId

Drawn(t, s) ==
    /\ t \in BoardType /\ t.unplaced = s.unplaced /\ Distinct(t.columns)
    /\ \A i \in 1..Len(t.columns) : \E h \in 1..Len(s.columns) :
           /\ t.columns[i].id = s.columns[h].id
           /\ CardsFrom(t.columns[i].cards, s.columns[h].cards)

\* Pending cards are last in their column, and a pending column has none.
Aside(s) ==
    \A i \in DOMAIN s.columns :
        /\ IsPendingId(s.columns[i].id) => s.columns[i].cards = <<>>
        /\ \A j, m \in DOMAIN s.columns[i].cards :
               j < m /\ IsPendingId(s.columns[i].cards[j].id)
                   => IsPendingId(s.columns[i].cards[m].id)

\* Such a board is as well made, and has nothing that was not there.
LEMMA DrawnSound ==
    ASSUME NEW s, NEW t, Sound(s), Drawn(t, s)
    PROVE  /\ Sound(t)
           /\ \A id : OnBoard(t, id) => OnBoard(s, id)
           /\ \A id : InColumns(t, id) => InColumns(s, id)
<1>1. s \in BoardType /\ Home(s) /\ Once(s)
  BY DEF Sound
<1>2. /\ DOMAIN s.columns = 1..Len(s.columns)
      /\ \A i \in 1..Len(s.columns) :
             /\ Len(s.columns[i].cards) \in Nat
             /\ DOMAIN s.columns[i].cards = 1..Len(s.columns[i].cards)
  BY <1>1, BoardIs
<1>3. t \in BoardType /\ Distinct(t.columns)
  BY DEF Drawn
<1>4. /\ DOMAIN t.columns = 1..Len(t.columns)
      /\ \A i \in 1..Len(t.columns) :
             /\ Len(t.columns[i].cards) \in Nat
             /\ DOMAIN t.columns[i].cards = 1..Len(t.columns[i].cards)
  BY <1>3, BoardIs
<1>5. \A i \in 1..Len(t.columns) : \E h \in 1..Len(s.columns) :
          /\ t.columns[i].id = s.columns[h].id
          /\ CardsFrom(t.columns[i].cards, s.columns[h].cards)
  BY DEF Drawn
<1>6. ASSUME NEW i \in 1..Len(t.columns)
      PROVE  \E h \in 1..Len(s.columns) :
                 \E p \in [1..Len(t.columns[i].cards) -> 1..Len(s.columns[h].cards)] :
                     /\ t.columns[i].id = s.columns[h].id
                     /\ \A j, m \in 1..Len(t.columns[i].cards) : j < m => p[j] < p[m]
                     /\ \A j \in 1..Len(t.columns[i].cards) :
                            /\ p[j] \in 1..Len(s.columns[h].cards)
                            /\ t.columns[i].cards[j].id = s.columns[h].cards[p[j]].id
                            /\ t.columns[i].cards[j].columnId = s.columns[h].id
  <2>1. PICK h \in 1..Len(s.columns) : /\ t.columns[i].id = s.columns[h].id
                                       /\ CardsFrom(t.columns[i].cards, s.columns[h].cards)
    BY <1>5
  <2>2. PICK p \in [1..Len(t.columns[i].cards) -> 1..Len(s.columns[h].cards)] :
            /\ \A j, m \in 1..Len(t.columns[i].cards) : j < m => p[j] < p[m]
            /\ \A j \in 1..Len(t.columns[i].cards) :
                   /\ t.columns[i].cards[j].id = s.columns[h].cards[p[j]].id
                   /\ t.columns[i].cards[j].columnId = s.columns[h].cards[p[j]].columnId
    BY <2>1 DEF CardsFrom
  <2>3. \A j \in 1..Len(t.columns[i].cards) : p[j] \in 1..Len(s.columns[h].cards)
    BY <2>2
  <2>4. \A k \in 1..Len(s.columns[h].cards) : s.columns[h].cards[k].columnId = s.columns[h].id
    BY <1>1, <1>2 DEF Home
  <2> QED  BY <2>1, <2>2, <2>3, <2>4
<1>7. Home(t)
  <2>1. SUFFICES ASSUME NEW i \in 1..Len(t.columns), NEW j \in 1..Len(t.columns[i].cards)
                 PROVE  t.columns[i].cards[j].columnId = t.columns[i].id
    BY <1>4 DEF Home
  <2> QED  BY <1>6, <2>1
<1>8a. \A i, h \in 1..Len(s.columns) :
           \A j \in 1..Len(s.columns[i].cards) : \A m \in 1..Len(s.columns[h].cards) :
               s.columns[i].cards[j].id = s.columns[h].cards[m].id => i = h /\ j = m
  BY <1>1, OnceIs
<1>8. Once(t)
  <2>1. SUFFICES ASSUME NEW i \in 1..Len(t.columns), NEW h \in 1..Len(t.columns),
                        NEW j \in 1..Len(t.columns[i].cards), NEW m \in 1..Len(t.columns[h].cards),
                        t.columns[i].cards[j].id = t.columns[h].cards[m].id
                 PROVE  i = h /\ j = m
    BY <1>3, OnceIs
  <2>2a. PICK i2 \in 1..Len(s.columns) :
            \E p \in [1..Len(t.columns[i].cards) -> 1..Len(s.columns[i2].cards)] :
                /\ t.columns[i].id = s.columns[i2].id
                /\ \A a, b \in 1..Len(t.columns[i].cards) : a < b => p[a] < p[b]
                /\ \A a \in 1..Len(t.columns[i].cards) :
                       /\ p[a] \in 1..Len(s.columns[i2].cards)
                       /\ t.columns[i].cards[a].id = s.columns[i2].cards[p[a]].id
                       /\ t.columns[i].cards[a].columnId = s.columns[i2].id
    BY <1>6
  <2>2. PICK p \in [1..Len(t.columns[i].cards) -> 1..Len(s.columns[i2].cards)] :
            /\ t.columns[i].id = s.columns[i2].id
            /\ \A a, b \in 1..Len(t.columns[i].cards) : a < b => p[a] < p[b]
            /\ \A a \in 1..Len(t.columns[i].cards) :
                   /\ p[a] \in 1..Len(s.columns[i2].cards)
                   /\ t.columns[i].cards[a].id = s.columns[i2].cards[p[a]].id
    BY <2>2a
  <2>3. PICK h2 \in 1..Len(s.columns) :
            /\ t.columns[h].id = s.columns[h2].id
            /\ \A a \in 1..Len(t.columns[h].cards) : \E b \in 1..Len(s.columns[h2].cards) :
                   t.columns[h].cards[a].id = s.columns[h2].cards[b].id
    <3>1. \E h2 \in 1..Len(s.columns) :
              \E q \in [1..Len(t.columns[h].cards) -> 1..Len(s.columns[h2].cards)] :
                  /\ t.columns[h].id = s.columns[h2].id
                  /\ \A a \in 1..Len(t.columns[h].cards) :
                         /\ q[a] \in 1..Len(s.columns[h2].cards)
                         /\ t.columns[h].cards[a].id = s.columns[h2].cards[q[a]].id
      BY <1>6, Zenon
    <3> QED  BY <3>1, Zenon
  <2>3a. PICK b \in 1..Len(s.columns[h2].cards) :
             t.columns[h].cards[m].id = s.columns[h2].cards[b].id
    BY <2>1, <2>3
  <2>3b. /\ p[j] \in 1..Len(s.columns[i2].cards)
         /\ s.columns[i2].cards[p[j]].id = s.columns[h2].cards[b].id
    BY <2>1, <2>2, <2>3a
  <2>4. i2 = h2
    BY <1>8a, <2>3b
  <2>5. i = h
    <3>1. \A x, y \in 1..Len(t.columns) : t.columns[x].id = t.columns[y].id => x = y
      BY <1>3, DistinctIs
    <3>2. t.columns[i].id = t.columns[h].id
      BY <2>2, <2>3, <2>4
    <3> QED  BY <3>1, <3>2
  <2>6. m \in 1..Len(t.columns[i].cards) /\ t.columns[i].cards[j].id = t.columns[i].cards[m].id
    BY <2>1, <2>5
  <2>7. p[j] = p[m]
    <3>1. /\ p[j] \in 1..Len(s.columns[i2].cards)
          /\ t.columns[i].cards[j].id = s.columns[i2].cards[p[j]].id
      BY <2>1, <2>2
    <3>2. /\ p[m] \in 1..Len(s.columns[i2].cards)
          /\ t.columns[i].cards[m].id = s.columns[i2].cards[p[m]].id
      BY <2>2, <2>6
    <3>3. s.columns[i2].cards[p[j]].id = s.columns[i2].cards[p[m]].id
      BY <2>6, <3>1, <3>2
    <3>4. ASSUME NEW x \in 1..Len(s.columns[i2].cards), NEW y \in 1..Len(s.columns[i2].cards),
                 s.columns[i2].cards[x].id = s.columns[i2].cards[y].id
          PROVE  x = y
      <4>1. i2 \in 1..Len(s.columns)
        OBVIOUS
      <4> QED  BY <1>8a, <3>4, <4>1, Zenon
    <3> QED  BY <3>1, <3>2, <3>3, <3>4, Zenon
  <2>8. p[j] \in Nat /\ p[m] \in Nat /\ j \in Nat /\ m \in Nat
    <3>1. PICK n \in Nat : n = Len(t.columns[i].cards)
      BY <1>4, <2>1
    <3>2. PICK k \in Nat : k = Len(s.columns[i2].cards)
      BY <1>2, <2>2
    <3>3. j \in 1..n /\ m \in 1..n
      BY <2>1, <2>6, <3>1
    <3>4. p[j] \in 1..k /\ p[m] \in 1..k
      BY <2>1, <2>2, <2>6, <3>2
    <3> QED  BY <3>1, <3>2, <3>3, <3>4
  <2>9. ~(j < m) /\ ~(m < j)
    <3>1. \A x \in 1..Len(t.columns[i].cards) : \A y \in 1..Len(t.columns[i].cards) :
              x < y => p[x] < p[y]
      BY <2>2, Zenon
    <3>2. (j < m => p[j] < p[m]) /\ (m < j => p[m] < p[j])
      BY <2>1, <2>6, <3>1, Zenon
    <3> QED  BY <2>7, <2>8, <3>2
  <2> QED  BY <2>5, <2>8, <2>9
<1>9. ASSUME NEW id, OnBoard(t, id)
      PROVE  OnBoard(s, id)
  <2>1. PICK i \in 1..Len(t.columns) : \E j \in 1..Len(t.columns[i].cards) :
            t.columns[i].cards[j].id = id
    BY <1>3, <1>9, OnBoardIs
  <2>2. PICK j \in 1..Len(t.columns[i].cards) : t.columns[i].cards[j].id = id
    BY <2>1
  <2>3. PICK h \in 1..Len(s.columns) : \E k \in 1..Len(s.columns[h].cards) :
            t.columns[i].cards[j].id = s.columns[h].cards[k].id
    BY <1>6, <2>2
  <2> QED  BY <1>1, <2>2, <2>3, OnBoardIs
<1>10. ASSUME NEW id, InColumns(t, id)
       PROVE  InColumns(s, id)
  <2>1. PICK i \in 1..Len(t.columns) : t.columns[i].id = id
    BY <1>3, <1>10, OnBoardIs
  <2> QED  BY <1>1, <1>5, <2>1, OnBoardIs
<1> QED  BY <1>3, <1>7, <1>8, <1>9, <1>10 DEF Sound

\* And what is pending stays aside.
LEMMA DrawnAside ==
    ASSUME NEW s, NEW t, s \in BoardType, Aside(s), Drawn(t, s)
    PROVE  Aside(t)
<1>1. /\ DOMAIN s.columns = 1..Len(s.columns)
      /\ \A i \in 1..Len(s.columns) :
             /\ Len(s.columns[i].cards) \in Nat
             /\ DOMAIN s.columns[i].cards = 1..Len(s.columns[i].cards)
  BY BoardIs
<1>2. t \in BoardType
  BY DEF Drawn
<1>3. /\ DOMAIN t.columns = 1..Len(t.columns)
      /\ \A i \in 1..Len(t.columns) :
             /\ t.columns[i].cards \in Seq(Card)
             /\ Len(t.columns[i].cards) \in Nat
             /\ DOMAIN t.columns[i].cards = 1..Len(t.columns[i].cards)
  BY <1>2, BoardIs
<1>4. SUFFICES ASSUME NEW i \in 1..Len(t.columns)
               PROVE  /\ IsPendingId(t.columns[i].id) => t.columns[i].cards = <<>>
                      /\ \A j, m \in 1..Len(t.columns[i].cards) :
                             j < m /\ IsPendingId(t.columns[i].cards[j].id)
                                 => IsPendingId(t.columns[i].cards[m].id)
  BY <1>3 DEF Aside
<1>5. PICK h \in 1..Len(s.columns) : /\ t.columns[i].id = s.columns[h].id
                                     /\ CardsFrom(t.columns[i].cards, s.columns[h].cards)
  BY DEF Drawn
<1>6. PICK p \in [1..Len(t.columns[i].cards) -> 1..Len(s.columns[h].cards)] :
          /\ \A j, m \in 1..Len(t.columns[i].cards) : j < m => p[j] < p[m]
          /\ \A j \in 1..Len(t.columns[i].cards) :
                 t.columns[i].cards[j].id = s.columns[h].cards[p[j]].id
  BY <1>5 DEF CardsFrom
<1>7. \A j \in 1..Len(t.columns[i].cards) : p[j] \in 1..Len(s.columns[h].cards)
  BY <1>6
<1>8. /\ IsPendingId(s.columns[h].id) => s.columns[h].cards = <<>>
      /\ \A j, m \in 1..Len(s.columns[h].cards) :
             j < m /\ IsPendingId(s.columns[h].cards[j].id)
                 => IsPendingId(s.columns[h].cards[m].id)
  BY <1>1 DEF Aside
<1>9. ASSUME IsPendingId(t.columns[i].id)
      PROVE  t.columns[i].cards = <<>>
  <2>1. s.columns[h].cards = <<>>
    BY <1>5, <1>8, <1>9
  <2>2. 1..Len(s.columns[h].cards) = {}
    BY <2>1
  <2>3. Len(t.columns[i].cards) = 0
    BY <1>3, <1>7, <2>2
  <2> QED  BY <1>3, <2>3, EmptySeq
<1> QED  BY <1>6, <1>7, <1>8, <1>9

\* A filter keeps cards of the list.
LEMMA CardsKept ==
    ASSUME NEW v \in Seq(Card), NEW S
    PROVE  Keep(v, S) \in Seq(Card) /\ CardsFrom(Keep(v, S), v)
<1>1. Keep(v, S) \in Seq(Card) /\ \E p : Picks(p, Keep(v, S), v, S)
  BY KeepPicks
<1> DEFINE u == Keep(v, S)
<1>2. PICK p : Picks(p, u, v, S)
  BY <1>1
<1> HIDE DEF u
<1>3. p \in [1..Len(u) -> 1..Len(v)]
  BY <1>2 DEF Picks
<1>4. \A j, m \in 1..Len(u) : j < m => p[j] < p[m]
  BY <1>2 DEF Picks
<1>5. \A j \in 1..Len(u) : u[j].id = v[p[j]].id /\ u[j].columnId = v[p[j]].columnId
  BY <1>2 DEF Picks
<1>6. CardsFrom(u, v)
  BY <1>3, <1>4, <1>5 DEF CardsFrom
<1> QED  BY <1>1, <1>6 DEF u

\* And so does a map that leaves id and column.
LEMMA CardsSame ==
    ASSUME NEW v \in Seq(Card), NEW u \in Seq(Card), Len(u) = Len(v),
           \A j \in 1..Len(v) : u[j].id = v[j].id /\ u[j].columnId = v[j].columnId
    PROVE  CardsFrom(u, v)
<1> DEFINE p == [j \in 1..Len(u) |-> j]
<1>1. p \in [1..Len(u) -> 1..Len(v)]
  OBVIOUS
<1>2. \A j \in 1..Len(u) : p[j] = j
  OBVIOUS
<1> HIDE DEF p
<1>3. \A j, m \in 1..Len(u) : j < m => p[j] < p[m]
  BY <1>2
<1>4. \A j \in 1..Len(u) : u[j].id = v[p[j]].id /\ u[j].columnId = v[p[j]].columnId
  BY <1>2
<1> QED  BY <1>1, <1>3, <1>4 DEF CardsFrom

\* A board that a change of each column makes.
LEMMA MappedDrawn ==
    ASSUME NEW s, Sound(s), NEW t, t = [columns |-> t.columns, unplaced |-> s.unplaced],
           t.columns = [i \in 1..Len(s.columns) |-> t.columns[i]],
           \A i \in 1..Len(s.columns) :
               /\ t.columns[i] \in Column /\ t.columns[i].id = s.columns[i].id
               /\ CardsFrom(t.columns[i].cards, s.columns[i].cards)
    PROVE  Drawn(t, s)
<1>1. s \in BoardType /\ Len(s.columns) \in Nat /\ s.unplaced \in Seq(Card)
  BY BoardIs DEF Sound
<1>2. t.columns \in [1..Len(s.columns) -> Column]
  OBVIOUS
<1>3. t.columns \in Seq(Column) /\ Len(t.columns) = Len(s.columns)
  BY <1>1, <1>2
<1>4. t.unplaced = s.unplaced
  OBVIOUS
<1>5. t \in BoardType
  BY <1>1, <1>3, <1>4 DEF BoardType
<1>6. Distinct(t.columns)
  <2>1. \A i, h \in 1..Len(s.columns) : s.columns[i].id = s.columns[h].id => i = h
    BY <1>1, DistinctIs DEF Sound
  <2>2. \A i \in 1..Len(s.columns) : t.columns[i].id = s.columns[i].id
    OBVIOUS
  <2>3. ASSUME NEW i \in 1..Len(t.columns), NEW h \in 1..Len(t.columns),
               t.columns[i].id = t.columns[h].id
        PROVE  i = h
    BY <1>3, <2>1, <2>2, <2>3
  <2> QED  BY <1>5, <2>3, DistinctIs, Zenon
<1> QED  BY <1>3, <1>4, <1>5, <1>6 DEF Drawn

\* Nothing is from itself.
LEMMA DrawnSelf ==
    ASSUME NEW s, Sound(s)
    PROVE  Drawn(s, s)
<1>1. s \in BoardType /\ Distinct(s.columns)
  BY DEF Sound
<1>2. ASSUME NEW i \in 1..Len(s.columns)
      PROVE  CardsFrom(s.columns[i].cards, s.columns[i].cards)
  BY <1>1, BoardIs, CardsSame
<1> QED  BY <1>1, <1>2 DEF Drawn

\* applyBoardChange: a card that is edited keeps id and place.
LEMMA UpdatedDrawn ==
    ASSUME NEW s, Sound(s), NEW c, c.kind = "card.updated", c.text \in Word
    PROVE  Drawn(ApplyBoardChange(s, c), s)
<1> DEFINE t == ApplyBoardChange(s, c)
           edit(x) == IF x.id = c.cardId THEN [x EXCEPT !.text = c.text] ELSE x
<1>1. /\ s \in BoardType /\ Len(s.columns) \in Nat /\ DOMAIN s.columns = 1..Len(s.columns)
      /\ \A i \in 1..Len(s.columns) :
             /\ s.columns[i].id \in Int /\ s.columns[i].name \in Word
             /\ s.columns[i].cards \in Seq(Card) /\ Len(s.columns[i].cards) \in Nat
             /\ DOMAIN s.columns[i].cards = 1..Len(s.columns[i].cards)
             /\ \A j \in 1..Len(s.columns[i].cards) : s.columns[i].cards[j] \in Card
  BY BoardIs DEF Sound
<1>2. PICK new : new = [i \in 1..Len(s.columns) |->
                          [j \in 1..Len(s.columns[i].cards) |-> edit(s.columns[i].cards[j])]]
  OBVIOUS
<1>3. /\ t = [columns |-> t.columns, unplaced |-> s.unplaced]
      /\ DOMAIN t.columns = 1..Len(s.columns)
      /\ t.columns = [i \in 1..Len(s.columns) |->
                         [id |-> s.columns[i].id, name |-> s.columns[i].name, cards |-> new[i]]]
  BY <1>1, <1>2 DEF ApplyBoardChange, MapColumns, Snapshot, WithCards, Entry
<1>4. ASSUME NEW x \in Card
      PROVE  edit(x) \in Card /\ edit(x).id = x.id /\ edit(x).columnId = x.columnId
  BY DEF Card
<1>5. ASSUME NEW i \in 1..Len(s.columns)
      PROVE  /\ t.columns[i] \in Column /\ t.columns[i].id = s.columns[i].id
             /\ CardsFrom(t.columns[i].cards, s.columns[i].cards)
  <2> DEFINE v == s.columns[i].cards
             n == Len(v)
  <2>0. v \in Seq(Card) /\ n \in Nat
    BY <1>1
  <2>1. new[i] = [j \in 1..n |-> edit(v[j])]
    BY <1>2
  <2>2. \A j \in 1..n : v[j] \in Card
    BY <1>1
  <2>3. t.columns[i] = [id |-> s.columns[i].id, name |-> s.columns[i].name, cards |-> new[i]]
    BY <1>3
  <2> HIDE DEF edit, n, v, t
  <2>4. \A j \in 1..n : /\ edit(v[j]) \in Card /\ edit(v[j]).id = v[j].id
                        /\ edit(v[j]).columnId = v[j].columnId
    BY <1>4, <2>2
  <2>5. new[i] \in [1..n -> Card]
    BY <2>1, <2>4
  <2>6. new[i] \in Seq(Card) /\ Len(new[i]) = n
    BY <2>0, <2>5
  <2>7. \A j \in 1..n : new[i][j] = edit(v[j])
    BY <2>1
  <2>8. CardsFrom(new[i], v)
    BY <2>0, <2>4, <2>6, <2>7, CardsSame DEF n
  <2>9. /\ t.columns[i].id = s.columns[i].id /\ t.columns[i].cards = new[i]
    BY <2>3
  <2>10. t.columns[i] \in Column
    BY <1>1, <2>3, <2>6 DEF Column
  <2> QED  BY <2>8, <2>9, <2>10 DEF v
<1> HIDE DEF t, edit
<1>6. t.columns = [i \in 1..Len(s.columns) |-> t.columns[i]]
  BY <1>3
<1> QED  BY <1>3, <1>5, <1>6, MappedDrawn DEF t

\* A card that is deleted is filtered out.
LEMMA DeletedDrawn ==
    ASSUME NEW s, Sound(s), NEW c, c.kind = "card.deleted"
    PROVE  Drawn(ApplyBoardChange(s, c), s)
<1> DEFINE t == ApplyBoardChange(s, c)
<1>1. /\ s \in BoardType /\ Len(s.columns) \in Nat /\ DOMAIN s.columns = 1..Len(s.columns)
      /\ \A i \in 1..Len(s.columns) :
             /\ s.columns[i].id \in Int /\ s.columns[i].name \in Word
             /\ s.columns[i].cards \in Seq(Card)
  BY BoardIs DEF Sound
<1>2. PICK new : new = [i \in 1..Len(s.columns) |-> Without(s.columns[i].cards, c.cardId)]
  OBVIOUS
<1>3. /\ t = [columns |-> t.columns, unplaced |-> s.unplaced]
      /\ DOMAIN t.columns = 1..Len(s.columns)
      /\ t.columns = [i \in 1..Len(s.columns) |->
                         [id |-> s.columns[i].id, name |-> s.columns[i].name, cards |-> new[i]]]
  BY <1>1, <1>2 DEF ApplyBoardChange, MapColumns, Snapshot, WithCards, Entry
<1> HIDE DEF t
<1>5. ASSUME NEW i \in 1..Len(s.columns)
      PROVE  /\ t.columns[i] \in Column /\ t.columns[i].id = s.columns[i].id
             /\ CardsFrom(t.columns[i].cards, s.columns[i].cards)
  <2>1. new[i] = Without(s.columns[i].cards, c.cardId)
    BY <1>2
  <2>2. new[i] \in Seq(Card) /\ CardsFrom(new[i], s.columns[i].cards)
    BY <1>1, <2>1, CardsKept DEF Without
  <2>3. t.columns[i] = [id |-> s.columns[i].id, name |-> s.columns[i].name, cards |-> new[i]]
    BY <1>3
  <2>4. t.columns[i].id = s.columns[i].id /\ t.columns[i].cards = new[i]
    BY <2>3
  <2>5. t.columns[i] \in Column
    BY <1>1, <2>2, <2>3 DEF Column
  <2> QED  BY <2>2, <2>4, <2>5
<1>6. t.columns = [i \in 1..Len(s.columns) |-> t.columns[i]]
  BY <1>3
<1> QED  BY <1>3, <1>5, <1>6, MappedDrawn DEF t

\* A column that is renamed keeps id and cards.
LEMMA RenamedDrawn ==
    ASSUME NEW s, Sound(s), NEW c, c.kind = "column.renamed", c.name \in Word
    PROVE  Drawn(ApplyBoardChange(s, c), s)
<1> DEFINE t == ApplyBoardChange(s, c)
<1>1. /\ s \in BoardType /\ Len(s.columns) \in Nat /\ DOMAIN s.columns = 1..Len(s.columns)
      /\ \A i \in 1..Len(s.columns) :
             /\ s.columns[i] \in Column
             /\ s.columns[i].id \in Int /\ s.columns[i].name \in Word
             /\ s.columns[i].cards \in Seq(Card)
  BY BoardIs DEF Sound
<1>3. /\ t = [columns |-> t.columns, unplaced |-> s.unplaced]
      /\ DOMAIN t.columns = 1..Len(s.columns)
      /\ t.columns = [i \in 1..Len(s.columns) |->
                        IF s.columns[i].id = c.columnId
                        THEN [id |-> s.columns[i].id, name |-> c.name,
                              cards |-> s.columns[i].cards]
                        ELSE s.columns[i]]
  BY <1>1 DEF ApplyBoardChange, MapColumns, Snapshot, Entry
<1> HIDE DEF t
<1>5. ASSUME NEW i \in 1..Len(s.columns)
      PROVE  /\ t.columns[i] \in Column /\ t.columns[i].id = s.columns[i].id
             /\ CardsFrom(t.columns[i].cards, s.columns[i].cards)
  <2>1. t.columns[i] = IF s.columns[i].id = c.columnId
                       THEN [id |-> s.columns[i].id, name |-> c.name,
                             cards |-> s.columns[i].cards]
                       ELSE s.columns[i]
    BY <1>3
  <2>2. t.columns[i].id = s.columns[i].id /\ t.columns[i].cards = s.columns[i].cards
    BY <2>1
  <2>3. t.columns[i] \in Column
    BY <1>1, <2>1 DEF Column
  <2> QED  BY <1>1, <2>2, <2>3, CardsSame
<1>6. t.columns = [i \in 1..Len(s.columns) |-> t.columns[i]]
  BY <1>3
<1> QED  BY <1>3, <1>5, <1>6, MappedDrawn DEF t

\* Columns taken from those there are, each once: p says which.
Taken(t, s, p) ==
    /\ t = [columns |-> t.columns, unplaced |-> s.unplaced] /\ t.columns \in Seq(Column)
    /\ p \in [1..Len(t.columns) -> 1..Len(s.columns)]
    /\ \A i, h \in 1..Len(t.columns) : p[i] = p[h] => i = h
    /\ \A i \in 1..Len(t.columns) : t.columns[i] = s.columns[p[i]]

\* They are drawn from them.
LEMMA TakenDrawn ==
    ASSUME NEW s, Sound(s), NEW t, NEW p, Taken(t, s, p)
    PROVE  Drawn(t, s)
<1>0. /\ t = [columns |-> t.columns, unplaced |-> s.unplaced] /\ t.columns \in Seq(Column)
      /\ p \in [1..Len(t.columns) -> 1..Len(s.columns)]
      /\ \A i, h \in 1..Len(t.columns) : p[i] = p[h] => i = h
      /\ \A i \in 1..Len(t.columns) : t.columns[i] = s.columns[p[i]]
  BY DEF Taken
<1>1. /\ s \in BoardType /\ s.unplaced \in Seq(Card)
      /\ \A i \in 1..Len(s.columns) : s.columns[i].cards \in Seq(Card)
  BY BoardIs DEF Sound
<1>2. t.unplaced = s.unplaced /\ t \in BoardType
  BY <1>0, <1>1 DEF BoardType
<1>3. \A i \in 1..Len(t.columns) : p[i] \in 1..Len(s.columns)
  BY <1>0
<1>4. \A i, h \in 1..Len(s.columns) : s.columns[i].id = s.columns[h].id => i = h
  BY <1>1, DistinctIs DEF Sound
<1>5. \A i, h \in 1..Len(t.columns) : t.columns[i].id = t.columns[h].id => i = h
  <2>1. SUFFICES ASSUME NEW i \in 1..Len(t.columns), NEW h \in 1..Len(t.columns),
                        t.columns[i].id = t.columns[h].id
                 PROVE  i = h
    OBVIOUS
  <2>2. s.columns[p[i]].id = s.columns[p[h]].id
    BY <1>0, <2>1
  <2> QED  BY <1>0, <1>3, <1>4, <2>2
<1>6. Distinct(t.columns)
  BY <1>2, <1>5, DistinctIs
<1>7. ASSUME NEW i \in 1..Len(t.columns)
      PROVE  \E h \in 1..Len(s.columns) :
                 /\ t.columns[i].id = s.columns[h].id
                 /\ CardsFrom(t.columns[i].cards, s.columns[h].cards)
  <2>1. p[i] \in 1..Len(s.columns) /\ t.columns[i] = s.columns[p[i]]
    BY <1>0, <1>3
  <2>2. CardsFrom(s.columns[p[i]].cards, s.columns[p[i]].cards)
    BY <1>1, <2>1, CardsSame
  <2> QED  BY <2>1, <2>2
<1> QED  BY <1>2, <1>6, <1>7 DEF Drawn

\* A column that is deleted takes its cards with it.
LEMMA ColumnDeletedDrawn ==
    ASSUME NEW s, Sound(s), NEW c, c.kind = "column.deleted"
    PROVE  Drawn(ApplyBoardChange(s, c), s)
<1> DEFINE t == ApplyBoardChange(s, c)
<1>1. s \in BoardType /\ s.columns \in Seq(Column)
  BY BoardIs DEF Sound
<1>2. PICK S : S = {e \in ToSet(s.columns) : e.id # c.columnId}
  OBVIOUS
<1>3. /\ t = [columns |-> t.columns, unplaced |-> s.unplaced]
      /\ t.columns = Keep(s.columns, S)
  BY <1>2 DEF ApplyBoardChange, Snapshot
<1> HIDE DEF t
<1> DEFINE kept == Keep(s.columns, S)
<1>4. /\ kept \in Seq(Column)
      /\ \E p \in [1..Len(kept) -> 1..Len(s.columns)] :
             /\ \A j, m \in 1..Len(kept) : p[j] = p[m] => j = m
             /\ \A j \in 1..Len(kept) : kept[j] = s.columns[p[j]] /\ kept[j] \in S
  BY <1>1, KeepHas
<1>4a. t.columns = kept
  BY <1>3
<1> HIDE DEF kept
<1>5. PICK p \in [1..Len(t.columns) -> 1..Len(s.columns)] :
          /\ \A j, m \in 1..Len(t.columns) : p[j] = p[m] => j = m
          /\ \A j \in 1..Len(t.columns) : t.columns[j] = s.columns[p[j]]
  BY <1>4, <1>4a
<1>6. t.columns \in Seq(Column)
  BY <1>4, <1>4a
<1>7. Drawn(t, s)
  <2>1. Taken(t, s, p)
    BY <1>3, <1>5, <1>6, Zenon DEF Taken
  <2> QED  BY <2>1, TakenDrawn, Zenon
<1> QED  BY <1>7 DEF t

\* A column that is moved is one of those there were.
LEMMA ColumnMovedDrawn ==
    ASSUME NEW s, Sound(s), NEW c, c.kind = "column.moved"
    PROVE  Drawn(ApplyBoardChange(s, c), s)
<1> DEFINE t == ApplyBoardChange(s, c)
           n == Len(s.columns)
           from == IndexOf(s.columns, c.columnId)
           rest == RemoveAt(s.columns, from)
           at == IndexOf(rest, c.after)
<1>1. s \in BoardType /\ s.columns \in Seq(Column) /\ n \in Nat /\ s.unplaced \in Seq(Card)
  BY BoardIs DEF Sound
<1>2. t = [columns |-> MoveColumn(s.columns, c), unplaced |-> s.unplaced]
  BY DEF ApplyBoardChange, Snapshot
<1>3. CASE from = 0 \/ (at = 0 /\ c.after # First)
  <2>1. t.columns = s.columns /\ t.unplaced = s.unplaced
    BY <1>2, <1>3 DEF MoveColumn
  <2>2. t = s
    BY <1>1, <1>2, <2>1 DEF BoardType
  <2> QED  BY <2>2, DrawnSelf
<1>4. CASE ~(from = 0 \/ (at = 0 /\ c.after # First))
  <2>1. from \in 1..n
    BY <1>1, <1>4, IndexIs
  <2> HIDE DEF from
  <2>2. /\ rest \in Seq(Column) /\ Len(rest) = n - 1
        /\ \A j \in 1..(n - 1) : rest[j] = IF j < from THEN s.columns[j] ELSE s.columns[j + 1]
    BY <1>1, <2>1, RemoveAtIs
  <2> HIDE DEF rest
  <2>3. Len(rest) \in Nat
    BY <2>2
  <2>4. at \in 0..Len(rest)
    BY <2>3, IndexIs
  <2> HIDE DEF at
  <2>5. t.columns = InsertAt(rest, at + 1, s.columns[from])
    BY <1>2, <1>4 DEF MoveColumn, from, rest, at
  <2>6. s.columns[from] \in Column /\ at + 1 \in 1..(Len(rest) + 1)
    BY <1>1, <2>1, <2>3, <2>4, ElementOfSeq
  <2> HIDE DEF t
  <2>6a. s.columns[from] \in Column
    BY <2>6
  <2>6b. at + 1 \in 1..(Len(rest) + 1)
    BY <2>6
  <2>6c. rest \in Seq(Column)
    BY <2>2
  <2>6d. PICK k : k = at + 1
    OBVIOUS
  <2>6e. PICK e : e = s.columns[from]
    OBVIOUS
  <2> DEFINE put == InsertAt(rest, k, e)
  <2>6f. k \in 1..(Len(rest) + 1) /\ e \in Column
    BY <2>6a, <2>6b, <2>6d, <2>6e
  <2>7a. /\ put \in Seq(Column) /\ Len(put) = Len(rest) + 1
         /\ \A j \in 1..(Len(rest) + 1) :
                put[j] = IF j < k THEN rest[j] ELSE IF j = k THEN e ELSE rest[j - 1]
    BY <2>6c, <2>6f, InsertAtIs
  <2>7b. t.columns = put
    BY <2>5, <2>6d, <2>6e
  <2> HIDE DEF put
  <2>7. /\ t.columns \in Seq(Column) /\ Len(t.columns) = Len(rest) + 1
        /\ \A j \in 1..(Len(rest) + 1) : t.columns[j] =
               IF j < at + 1 THEN rest[j] ELSE IF j = at + 1 THEN s.columns[from] ELSE rest[j - 1]
    BY <2>6d, <2>6e, <2>7a, <2>7b
  <2> DEFINE back(j) == IF j < from THEN j ELSE j + 1
             p == [j \in 1..n |-> IF j < at + 1 THEN back(j)
                                  ELSE IF j = at + 1 THEN from ELSE back(j - 1)]
  <2>8. Len(t.columns) = n /\ Len(rest) + 1 = n
    BY <1>1, <2>2, <2>7
  <2>9. \A j \in 1..n : p[j] \in 1..n
    BY <1>1, <2>1, <2>2, <2>4, <2>8
  <2>10. p \in [1..Len(t.columns) -> 1..Len(s.columns)]
    BY <2>8, <2>9
  <2>11. \A i, h \in 1..Len(t.columns) : p[i] = p[h] => i = h
    BY <1>1, <2>1, <2>2, <2>4, <2>8
  <2>12. ASSUME NEW j \in 1..n
         PROVE  t.columns[j] = s.columns[p[j]]
    <3>1. t.columns[j] =
               IF j < at + 1 THEN rest[j] ELSE IF j = at + 1 THEN s.columns[from] ELSE rest[j - 1]
      BY <2>7, <2>8
    <3>2. CASE j < at + 1
      <4>1. j \in 1..(n - 1)
        BY <1>1, <2>2, <2>4, <3>2
      <4>2. t.columns[j] = rest[j]
        BY <3>1, <3>2
      <4>3. rest[j] = IF j < from THEN s.columns[j] ELSE s.columns[j + 1]
        BY <2>2, <4>1
      <4>4. p[j] = back(j)
        BY <3>2
      <4> QED  BY <4>2, <4>3, <4>4
    <3>3. CASE j = at + 1
      BY <2>4, <3>1, <3>3
    <3>4. CASE j > at + 1
      <4>1. j - 1 \in 1..(n - 1)
        BY <1>1, <2>2, <2>3, <2>4, <3>4
      <4>2. t.columns[j] = rest[j - 1]
        BY <2>3, <2>4, <3>1, <3>4
      <4>3. rest[j - 1] = IF j - 1 < from THEN s.columns[j - 1] ELSE s.columns[(j - 1) + 1]
        BY <2>2, <4>1
      <4>4. p[j] = back(j - 1)
        BY <2>3, <2>4, <3>4
      <4> QED  BY <4>2, <4>3, <4>4
    <3>5. at + 1 \in Nat /\ j \in Nat
      BY <1>1, <2>3, <2>4
    <3> QED  BY <3>2, <3>3, <3>4, <3>5
  <2>13. \A i \in 1..Len(t.columns) : t.columns[i] = s.columns[p[i]]
    BY <2>8, <2>12
  <2> HIDE DEF p
  <2>14. t.columns \in Seq(Column)
    BY <2>7
  <2>15. t = [columns |-> t.columns, unplaced |-> s.unplaced]
    BY <1>2 DEF t
  <2> HIDE DEF n
  <2>16. Drawn(t, s)
    <3>1. Taken(t, s, p)
      BY <2>10, <2>11, <2>13, <2>14, <2>15, Zenon DEF Taken
    <3> QED  BY <3>1, TakenDrawn, Zenon
  <2> QED  BY <2>16 DEF t
<1> QED  BY <1>3, <1>4

-----------------------------------------------------------------------------
(* What a change puts in. *)

\* u is v with the card at a place in it.
PutAt(u, v, at, card) ==
    /\ Len(u) = Len(v) + 1 /\ at \in 1..(Len(v) + 1)
    /\ \A j \in 1..(Len(v) + 1) :
           u[j] = IF j < at THEN v[j] ELSE IF j = at THEN card ELSE v[j - 1]

\* t is s with the card in column k, which had it not.
Inserted(t, s, k, at, card) ==
    /\ t \in BoardType /\ t.unplaced = s.unplaced /\ Len(t.columns) = Len(s.columns)
    /\ \A i \in 1..Len(s.columns) : t.columns[i].id = s.columns[i].id
    /\ \A i \in 1..Len(s.columns) : i # k => t.columns[i].cards = s.columns[i].cards
    /\ k \in 1..Len(s.columns) /\ PutAt(t.columns[k].cards, s.columns[k].cards, at, card)
    /\ card.columnId = s.columns[k].id /\ ~OnBoard(s, card.id)

\* Every card but that one has a place it had.
LEMMA InsertedFrom ==
    ASSUME NEW s \in BoardType, NEW t, NEW k, NEW at, NEW card, Inserted(t, s, k, at, card),
           NEW i \in 1..Len(s.columns), NEW j \in 1..Len(t.columns[i].cards),
           ~(i = k /\ j = at)
    PROVE  \E b \in 1..Len(s.columns[i].cards) :
               /\ t.columns[i].cards[j] = s.columns[i].cards[b]
               /\ b = IF i # k \/ j < at THEN j ELSE j - 1
<1>1. Len(s.columns[i].cards) \in Nat /\ Len(s.columns[k].cards) \in Nat
  BY BoardIs DEF Inserted
<1>2. CASE i # k
  <2>1. t.columns[i].cards = s.columns[i].cards
    BY <1>2 DEF Inserted
  <2> QED  BY <1>2, <2>1
<1>3. CASE i = k
  <2> DEFINE u == t.columns[k].cards
             v == s.columns[k].cards
  <2>1. /\ Len(u) = Len(v) + 1 /\ at \in 1..(Len(v) + 1)
        /\ \A x \in 1..(Len(v) + 1) :
               u[x] = IF x < at THEN v[x] ELSE IF x = at THEN card ELSE v[x - 1]
    BY DEF Inserted, PutAt
  <2>2. j \in 1..Len(u) /\ j # at /\ Len(v) \in Nat
    BY <1>1, <1>3
  <2>3. t.columns[i].cards[j] = u[j] /\ s.columns[i].cards = v
    BY <1>3
  <2> HIDE DEF u, v
  <2>4. CASE j < at
    <3>1. j \in 1..Len(v) /\ u[j] = v[j]
      BY <2>1, <2>2, <2>4
    <3> QED  BY <2>3, <2>4, <3>1
  <2>5. CASE ~(j < at)
    <3>1. j - 1 \in 1..Len(v) /\ u[j] = v[j - 1]
      BY <2>1, <2>2, <2>5
    <3> QED  BY <1>3, <2>3, <2>5, <3>1
  <2> QED  BY <2>4, <2>5
<1> QED  BY <1>2, <1>3

\* The board stays well made, with that card more.
LEMMA InsertedSound ==
    ASSUME NEW s, NEW t, NEW k, NEW at, NEW card, Sound(s), Inserted(t, s, k, at, card)
    PROVE  /\ Sound(t)
           /\ \A id : OnBoard(t, id) => OnBoard(s, id) \/ id = card.id
           /\ \A id : InColumns(t, id) => InColumns(s, id)
<1>1. s \in BoardType /\ Len(s.columns) \in Nat
  BY BoardIs DEF Sound
<1>2. t \in BoardType /\ Len(t.columns) = Len(s.columns)
  BY DEF Inserted
<1>3. \A i \in 1..Len(s.columns) : t.columns[i].id = s.columns[i].id
  BY DEF Inserted
<1>4. k \in 1..Len(s.columns)
  BY DEF Inserted
<1>5. at \in 1..Len(t.columns[k].cards) /\ t.columns[k].cards[at] = card
  <2>1. PutAt(t.columns[k].cards, s.columns[k].cards, at, card)
    BY DEF Inserted
  <2>2. Len(s.columns[k].cards) \in Nat
    BY <1>1, <1>4, BoardIs
  <2>3. ~(at < at)
    BY <2>1, <2>2 DEF PutAt
  <2> QED  BY <2>1, <2>3 DEF PutAt
<1>6. Distinct(t.columns)
  <2>1. \A i, h \in 1..Len(s.columns) : s.columns[i].id = s.columns[h].id => i = h
    BY <1>1, DistinctIs DEF Sound
  <2> QED  BY <1>2, <1>3, <2>1, DistinctIs
<1>7. \A i \in 1..Len(s.columns) : \A j \in 1..Len(t.columns[i].cards) :
          ~(i = k /\ j = at) => \E b \in 1..Len(s.columns[i].cards) :
               /\ t.columns[i].cards[j] = s.columns[i].cards[b]
               /\ b = IF i # k \/ j < at THEN j ELSE j - 1
  BY <1>1, InsertedFrom
<1>8. Home(t)
  <2>1. \A i \in 1..Len(s.columns) : \A j \in 1..Len(s.columns[i].cards) :
            s.columns[i].cards[j].columnId = s.columns[i].id
    BY <1>1, HomeIs DEF Sound
  <2>2. SUFFICES ASSUME NEW i \in 1..Len(s.columns), NEW j \in 1..Len(t.columns[i].cards)
                 PROVE  t.columns[i].cards[j].columnId = t.columns[i].id
    BY <1>2, HomeIs
  <2>3. CASE i = k /\ j = at
    BY <1>3, <1>5, <2>3 DEF Inserted
  <2>4. CASE ~(i = k /\ j = at)
    <3>1. PICK b \in 1..Len(s.columns[i].cards) : t.columns[i].cards[j] = s.columns[i].cards[b]
      BY <1>7, <2>2, <2>4
    <3> QED  BY <1>3, <2>1, <2>2, <3>1
  <2> QED  BY <2>3, <2>4
<1>9. \A i \in 1..Len(s.columns) : \A b \in 1..Len(s.columns[i].cards) :
          s.columns[i].cards[b].id # card.id
  <2>1. ~OnBoard(s, card.id)
    BY DEF Inserted
  <2> QED  BY <1>1, <2>1, OnBoardIs
<1>10. Once(t)
  <2>1. \A i, h \in 1..Len(s.columns) :
            \A j \in 1..Len(s.columns[i].cards) : \A m \in 1..Len(s.columns[h].cards) :
                s.columns[i].cards[j].id = s.columns[h].cards[m].id => i = h /\ j = m
    BY <1>1, OnceIs DEF Sound
  <2>2. SUFFICES ASSUME NEW i \in 1..Len(s.columns), NEW h \in 1..Len(s.columns),
                        NEW j \in 1..Len(t.columns[i].cards), NEW m \in 1..Len(t.columns[h].cards),
                        t.columns[i].cards[j].id = t.columns[h].cards[m].id
                 PROVE  i = h /\ j = m
    BY <1>2, OnceIs
  <2>3. CASE i = k /\ j = at
    <3>1. t.columns[h].cards[m].id = card.id
      BY <1>5, <2>2, <2>3
    <3>2. ASSUME ~(h = k /\ m = at)
          PROVE  FALSE
      <4>1. PICK b \in 1..Len(s.columns[h].cards) : t.columns[h].cards[m] = s.columns[h].cards[b]
        BY <1>7, <2>2, <3>2
      <4> QED  BY <1>9, <2>2, <3>1, <4>1
    <3> QED  BY <2>3, <3>2
  <2>4. CASE h = k /\ m = at
    <3>1. t.columns[i].cards[j].id = card.id
      BY <1>5, <2>2, <2>4
    <3>2. ASSUME ~(i = k /\ j = at)
          PROVE  FALSE
      <4>1. PICK b \in 1..Len(s.columns[i].cards) : t.columns[i].cards[j] = s.columns[i].cards[b]
        BY <1>7, <2>2, <3>2
      <4> QED  BY <1>9, <2>2, <3>1, <4>1
    <3> QED  BY <2>4, <3>2
  <2>5. CASE ~(i = k /\ j = at) /\ ~(h = k /\ m = at)
    <3>1. PICK a \in 1..Len(s.columns[i].cards) :
              /\ t.columns[i].cards[j] = s.columns[i].cards[a]
              /\ a = IF i # k \/ j < at THEN j ELSE j - 1
      BY <1>7, <2>2, <2>5
    <3>2. PICK b \in 1..Len(s.columns[h].cards) :
              /\ t.columns[h].cards[m] = s.columns[h].cards[b]
              /\ b = IF h # k \/ m < at THEN m ELSE m - 1
      BY <1>7, <2>2, <2>5
    <3>3. s.columns[i].cards[a].id = s.columns[h].cards[b].id
      BY <2>2, <3>1, <3>2
    <3>4. i = h /\ a = b
      <4>1. /\ i \in 1..Len(s.columns) /\ h \in 1..Len(s.columns)
            /\ a \in 1..Len(s.columns[i].cards) /\ b \in 1..Len(s.columns[h].cards)
        BY <2>2, <3>1, <3>2
      <4> QED  BY <2>1, <3>3, <4>1
    <3>5. Len(t.columns[i].cards) \in Nat /\ Len(t.columns[k].cards) \in Nat
      BY <1>2, <1>4, <2>2, BoardIs
    <3>6. j \in Nat /\ m \in Nat /\ at \in Nat
      BY <1>5, <2>2, <3>4, <3>5
    <3>7. j = m
      BY <2>5, <3>1, <3>2, <3>4, <3>6
    <3> QED  BY <3>4, <3>7
  <2> QED  BY <2>3, <2>4, <2>5
<1>11. ASSUME NEW id, OnBoard(t, id)
       PROVE  OnBoard(s, id) \/ id = card.id
  <2>1. PICK i \in 1..Len(s.columns) : \E j \in 1..Len(t.columns[i].cards) :
            t.columns[i].cards[j].id = id
    BY <1>2, <1>11, OnBoardIs
  <2>2. PICK j \in 1..Len(t.columns[i].cards) : t.columns[i].cards[j].id = id
    BY <2>1
  <2>3. CASE i = k /\ j = at
    BY <1>5, <2>2, <2>3
  <2>4. CASE ~(i = k /\ j = at)
    <3>1. PICK b \in 1..Len(s.columns[i].cards) : t.columns[i].cards[j] = s.columns[i].cards[b]
      BY <1>7, <2>2, <2>4
    <3> QED  BY <1>1, <2>2, <3>1, OnBoardIs
  <2> QED  BY <2>3, <2>4
<1>12. \A id : InColumns(t, id) => InColumns(s, id)
  BY <1>1, <1>2, <1>3, OnBoardIs
<1> QED  BY <1>2, <1>6, <1>8, <1>10, <1>11, <1>12 DEF Sound

\* It does not come between pending cards.
LEMMA InsertedAside ==
    ASSUME NEW s, NEW t, NEW k, NEW at, NEW card, s \in BoardType, Aside(s),
           Inserted(t, s, k, at, card), ~IsPendingId(s.columns[k].id),
           \/ at = Len(s.columns[k].cards) + 1 /\ IsPendingId(card.id)
           \/ /\ ~IsPendingId(card.id)
              /\ \A j \in 1..Len(s.columns[k].cards) :
                     j < at => ~IsPendingId(s.columns[k].cards[j].id)
    PROVE  Aside(t)
<1>1. /\ DOMAIN s.columns = 1..Len(s.columns)
      /\ \A i \in 1..Len(s.columns) :
             /\ Len(s.columns[i].cards) \in Nat
             /\ DOMAIN s.columns[i].cards = 1..Len(s.columns[i].cards)
  BY BoardIs
<1>2. t \in BoardType /\ Len(t.columns) = Len(s.columns) /\ k \in 1..Len(s.columns)
  BY DEF Inserted
<1>3. /\ DOMAIN t.columns = 1..Len(s.columns)
      /\ \A i \in 1..Len(s.columns) :
             /\ Len(t.columns[i].cards) \in Nat
             /\ DOMAIN t.columns[i].cards = 1..Len(t.columns[i].cards)
  BY <1>2, BoardIs
<1>4. \A i \in 1..Len(s.columns) :
          /\ IsPendingId(s.columns[i].id) => s.columns[i].cards = <<>>
          /\ \A j, m \in 1..Len(s.columns[i].cards) :
                 j < m /\ IsPendingId(s.columns[i].cards[j].id)
                     => IsPendingId(s.columns[i].cards[m].id)
  BY <1>1 DEF Aside
<1>5. SUFFICES ASSUME NEW i \in 1..Len(s.columns)
               PROVE  /\ IsPendingId(t.columns[i].id) => t.columns[i].cards = <<>>
                      /\ \A j, m \in 1..Len(t.columns[i].cards) :
                             j < m /\ IsPendingId(t.columns[i].cards[j].id)
                                 => IsPendingId(t.columns[i].cards[m].id)
  BY <1>3, ZenonT(40) DEF Aside
<1>6. t.columns[i].id = s.columns[i].id
  BY DEF Inserted
<1>7. CASE i # k
  <2>1. t.columns[i].cards = s.columns[i].cards
    BY <1>7 DEF Inserted
  <2> QED  BY <1>4, <1>6, <2>1
<1>8. CASE i = k
  <2>1. ~IsPendingId(t.columns[i].id)
    BY <1>6, <1>8
  <2> DEFINE u == t.columns[k].cards
             v == s.columns[k].cards
  <2>2. /\ Len(u) = Len(v) + 1 /\ at \in 1..(Len(v) + 1) /\ Len(v) \in Nat
        /\ \A x \in 1..(Len(v) + 1) :
               u[x] = IF x < at THEN v[x] ELSE IF x = at THEN card ELSE v[x - 1]
    BY <1>1, <1>2 DEF Inserted, PutAt
  <2>3. \A j, m \in 1..Len(v) : j < m /\ IsPendingId(v[j].id) => IsPendingId(v[m].id)
    BY <1>2, <1>4
  <2>4. \/ at = Len(v) + 1 /\ IsPendingId(card.id)
        \/ ~IsPendingId(card.id) /\ \A j \in 1..Len(v) : j < at => ~IsPendingId(v[j].id)
    OBVIOUS
  <2> HIDE DEF u, v
  <2>5. ASSUME NEW j \in 1..(Len(v) + 1), NEW m \in 1..(Len(v) + 1), j < m, IsPendingId(u[j].id)
        PROVE  IsPendingId(u[m].id)
    <3>1. j \in Nat /\ m \in Nat /\ at \in Nat
      BY <2>2
    <3>2. CASE at = Len(v) + 1 /\ IsPendingId(card.id)
      <4>1. j \in 1..Len(v) /\ u[j] = v[j]
        BY <2>2, <2>5, <3>1, <3>2
      <4>2. CASE m < at
        <5>1. m \in 1..Len(v) /\ u[m] = v[m]
          BY <2>2, <3>1, <3>2, <4>2
        <5> QED  BY <2>3, <2>5, <4>1, <5>1
      <4>3. CASE m = at
        <5>1. u[m] = card
          BY <2>2, <3>1, <4>3
        <5> QED  BY <3>2, <5>1
      <4> QED  BY <2>2, <2>5, <3>1, <3>2, <4>2, <4>3
    <3>3. CASE ~IsPendingId(card.id) /\ \A x \in 1..Len(v) : x < at => ~IsPendingId(v[x].id)
      <4>1. j > at
        <5>1. ~(j < at)
          <6>1. j < at => j \in 1..Len(v) /\ u[j] = v[j]
            BY <2>2, <3>1
          <6> QED  BY <2>5, <3>3, <6>1
        <5>2. j # at
          <6>1. j = at => u[j] = card
            BY <2>2, <3>1
          <6> QED  BY <2>5, <3>3, <6>1
        <5> QED  BY <3>1, <5>1, <5>2
      <4>2. j - 1 \in 1..Len(v) /\ u[j] = v[j - 1]
        BY <2>2, <2>5, <3>1, <4>1
      <4>3. m - 1 \in 1..Len(v) /\ u[m] = v[m - 1] /\ j - 1 < m - 1
        BY <2>2, <2>5, <3>1, <4>1
      <4> QED  BY <2>3, <2>5, <4>2, <4>3
    <3> QED  BY <2>4, <3>2, <3>3
  <2> QED  BY <1>8, <2>1, <2>2, <2>5 DEF u
<1> QED  BY <1>7, <1>8

-----------------------------------------------------------------------------
(* A card on a board, and taken out of it. *)

\* The card is in that column.
IsIn(s, k, id) ==
    \E i \in DOMAIN s.columns : /\ s.columns[i].id = k
                                /\ \E j \in DOMAIN s.columns[i].cards :
                                       s.columns[i].cards[j].id = id

\* The same by number.
LEMMA IsInIs ==
    ASSUME NEW s \in BoardType
    PROVE  \A k, id : IsIn(s, k, id) <=>
               \E i \in 1..Len(s.columns) :
                   /\ s.columns[i].id = k
                   /\ \E j \in 1..Len(s.columns[i].cards) : s.columns[i].cards[j].id = id
<1>1. /\ DOMAIN s.columns = 1..Len(s.columns)
      /\ \A i \in 1..Len(s.columns) :
             DOMAIN s.columns[i].cards = 1..Len(s.columns[i].cards)
  BY BoardIs
<1> QED  BY <1>1 DEF IsIn

\* The index of a column that has the card, or 0.
LEMMA ColumnOfIs ==
    ASSUME NEW s \in BoardType, NEW id
    PROVE  /\ ColumnOf(s, id) \in 0..Len(s.columns)
           /\ ColumnOf(s, id) = 0 => ~OnBoard(s, id)
           /\ ColumnOf(s, id) # 0 =>
                  /\ ColumnOf(s, id) \in 1..Len(s.columns)
                  /\ IndexOf(s.columns[ColumnOf(s, id)].cards, id)
                         \in 1..Len(s.columns[ColumnOf(s, id)].cards)
                  /\ s.columns[ColumnOf(s, id)].cards[
                         IndexOf(s.columns[ColumnOf(s, id)].cards, id)].id = id
                  /\ OnBoard(s, id)
<1> DEFINE n == Len(s.columns)
           I == {i \in 1..n : IndexOf(s.columns[i].cards, id) # 0}
<1>1. /\ n \in Nat
      /\ \A i \in 1..n : Len(s.columns[i].cards) \in Nat
  BY BoardIs
<1>2. ColumnOf(s, id) = IF I = {} THEN 0 ELSE Min(I)
  BY DEF ColumnOf, SelectInSeq
<1>3. \A i \in 1..n :
          /\ IndexOf(s.columns[i].cards, id) = 0 =>
                 \A j \in 1..Len(s.columns[i].cards) : s.columns[i].cards[j].id # id
          /\ IndexOf(s.columns[i].cards, id) # 0 =>
                 /\ IndexOf(s.columns[i].cards, id) \in 1..Len(s.columns[i].cards)
                 /\ s.columns[i].cards[IndexOf(s.columns[i].cards, id)].id = id
  BY <1>1, IndexIs
<1>4. CASE I = {}
  <2>1. ColumnOf(s, id) = 0
    BY <1>2, <1>4
  <2>2. \A i \in 1..n : IndexOf(s.columns[i].cards, id) = 0
    BY <1>4
  <2>3. ~OnBoard(s, id)
    BY <1>3, <2>2, OnBoardIs
  <2> QED  BY <1>1, <2>1, <2>3
<1>5. CASE I # {}
  <2>1. I \subseteq Nat
    BY <1>1
  <2>2. Min(I) \in I
    BY <1>5, <2>1, MinOfIndices
  <2>3. PICK i : i = ColumnOf(s, id)
    OBVIOUS
  <2>4. i \in 1..n /\ IndexOf(s.columns[i].cards, id) # 0
    BY <1>2, <1>5, <2>2, <2>3
  <2>5. /\ IndexOf(s.columns[i].cards, id) \in 1..Len(s.columns[i].cards)
        /\ s.columns[i].cards[IndexOf(s.columns[i].cards, id)].id = id
    BY <1>3, <2>4
  <2>6. OnBoard(s, id)
    BY <2>4, <2>5, OnBoardIs
  <2>7. i \in 0..n /\ i # 0
    BY <1>1, <2>4
  <2> QED  BY <2>3, <2>4, <2>5, <2>6, <2>7
<1> QED  BY <1>4, <1>5

\* What is left of a list without one card.
LEMMA WithoutIs ==
    ASSUME NEW v \in Seq(Card), NEW id
    PROVE  /\ Without(v, id) \in Seq(Card) /\ CardsFrom(Without(v, id), v)
           /\ \A j \in 1..Len(Without(v, id)) : Without(v, id)[j].id # id
           /\ \A i \in 1..Len(v) : v[i].id # id =>
                  \E j \in 1..Len(Without(v, id)) : Without(v, id)[j] = v[i]
<1> DEFINE S == {c \in ToSet(v) : c.id # id}
           u == Keep(v, S)
<1>1. u = Without(v, id)
  BY DEF Without
<1>2. /\ DOMAIN v = 1..Len(v)
      /\ \A i \in 1..Len(v) : v[i].id # id => v[i] \in S
  BY LenProperties DEF ToSet
<1>3. \A c \in S : c.id # id
  OBVIOUS
<1> HIDE DEF S
<1>4. u \in Seq(Card) /\ \E p : Picks(p, u, v, S)
  BY KeepPicks
<1>5. CardsFrom(u, v)
  BY CardsKept
<1> HIDE DEF u
<1>6. PICK p : Picks(p, u, v, S)
  BY <1>4
<1>7. \A j \in 1..Len(u) : u[j] = v[p[j]] /\ u[j] \in S
  BY <1>6 DEF Picks
<1>8. \A i \in 1..Len(v) : v[i] \in S => \E j \in 1..Len(u) : p[j] = i
  BY <1>6 DEF Picks
<1>9. \A j \in 1..Len(u) : u[j].id # id
  BY <1>3, <1>7
<1>10. \A i \in 1..Len(v) : v[i].id # id => \E j \in 1..Len(u) : u[j] = v[i]
  BY <1>2, <1>7, <1>8
<1> QED  BY <1>1, <1>4, <1>5, <1>9, <1>10

\* t is s without the card, and then with it after its anchor.
Relocated(t, s, c, mid, k, at, card) ==
    /\ Drawn(mid, s) /\ Inserted(t, mid, k, at, card)
    /\ card.id = c.cardId /\ OnBoard(s, card.id)
    /\ mid.columns[k].id = c.columnId
    /\ \/ at = 1
       \/ at - 1 \in 1..Len(mid.columns[k].cards) /\ mid.columns[k].cards[at - 1].id = c.after
    /\ \A k2, id : IsIn(s, k2, id) /\ id # c.cardId => IsIn(mid, k2, id)
    /\ \A id : InColumns(s, id) => InColumns(mid, id)

\* The board without a card.
Out(s, id) ==
    [columns |-> [i \in 1..Len(s.columns) |->
                     Entry(s.columns[i].id, s.columns[i].name, Without(s.columns[i].cards, id))],
     unplaced |-> s.unplaced]

\* It has all that was on the board but the card.
LEMMA TakenOut ==
    ASSUME NEW s, Sound(s), NEW id, NEW mid, mid = Out(s, id)
    PROVE  /\ Drawn(mid, s) /\ ~OnBoard(mid, id) /\ Len(mid.columns) = Len(s.columns)
           /\ \A k, x : IsIn(s, k, x) /\ x # id => IsIn(mid, k, x)
           /\ \A x : InColumns(s, x) => InColumns(mid, x)
           /\ \A i \in 1..Len(s.columns) :
                  /\ mid.columns[i].id = s.columns[i].id
                  /\ mid.columns[i].cards = Without(s.columns[i].cards, id)
<1>1. /\ s \in BoardType /\ Len(s.columns) \in Nat
      /\ \A i \in 1..Len(s.columns) : /\ s.columns[i].id \in Int /\ s.columns[i].name \in Word
                                      /\ s.columns[i].cards \in Seq(Card)
  BY BoardIs DEF Sound
<1>2. PICK new : new = [i \in 1..Len(s.columns) |-> Without(s.columns[i].cards, id)]
  OBVIOUS
<1>3. mid.columns = [i \in 1..Len(s.columns) |->
                        [id |-> s.columns[i].id, name |-> s.columns[i].name, cards |-> new[i]]]
  BY <1>2 DEF Entry, Out
<1>4. mid = [columns |-> mid.columns, unplaced |-> s.unplaced]
  BY DEF Out
<1>5. mid.columns = [i \in 1..Len(s.columns) |-> mid.columns[i]]
  BY <1>3
<1>6. ASSUME NEW i \in 1..Len(s.columns)
      PROVE  /\ mid.columns[i].id = s.columns[i].id
             /\ mid.columns[i].name = s.columns[i].name
             /\ mid.columns[i].cards = Without(s.columns[i].cards, id)
             /\ mid.columns[i] = [id |-> s.columns[i].id, name |-> s.columns[i].name,
                                  cards |-> Without(s.columns[i].cards, id)]
  <2>1. mid.columns[i] = [id |-> s.columns[i].id, name |-> s.columns[i].name, cards |-> new[i]]
    BY <1>3
  <2>2. new[i] = Without(s.columns[i].cards, id)
    BY <1>2
  <2> QED  BY <2>1, <2>2
<1>7. ASSUME NEW i \in 1..Len(s.columns)
      PROVE  /\ mid.columns[i] \in Column /\ mid.columns[i].id = s.columns[i].id
             /\ CardsFrom(mid.columns[i].cards, s.columns[i].cards)
  <2>1. s.columns[i].cards \in Seq(Card)
    BY <1>1
  <2>2. /\ Without(s.columns[i].cards, id) \in Seq(Card)
        /\ CardsFrom(Without(s.columns[i].cards, id), s.columns[i].cards)
    BY <2>1, WithoutIs
  <2>2a. s.columns[i].id \in Int /\ s.columns[i].name \in Word
    BY <1>1
  <2>2b. mid.columns[i] = [id |-> s.columns[i].id, name |-> s.columns[i].name,
                           cards |-> Without(s.columns[i].cards, id)]
    BY <1>6
  <2>2c. Without(s.columns[i].cards, id) \in Seq(Card)
    BY <2>2
  <2>3. mid.columns[i] \in Column
    BY <2>2a, <2>2b, <2>2c DEF Column
  <2> QED  BY <1>6, <2>2, <2>3
<1>8. Drawn(mid, s)
  BY <1>4, <1>5, <1>7, MappedDrawn
<1>9. Len(mid.columns) = Len(s.columns)
  BY <1>1, <1>3
<1>10. mid \in BoardType
  BY <1>8 DEF Drawn
<1>11. ASSUME NEW i \in 1..Len(s.columns)
       PROVE  /\ \A j \in 1..Len(mid.columns[i].cards) : mid.columns[i].cards[j].id # id
              /\ \A j \in 1..Len(s.columns[i].cards) : s.columns[i].cards[j].id # id =>
                     \E m \in 1..Len(mid.columns[i].cards) :
                         mid.columns[i].cards[m] = s.columns[i].cards[j]
  <2>1. s.columns[i].cards \in Seq(Card) /\ mid.columns[i].cards = Without(s.columns[i].cards, id)
    BY <1>1, <1>6
  <2> QED  BY <2>1, WithoutIs
<1>12. ~OnBoard(mid, id)
  BY <1>9, <1>10, <1>11, OnBoardIs
<1>13. ASSUME NEW x, InColumns(s, x)
       PROVE  InColumns(mid, x)
  <2>1. PICK i \in 1..Len(s.columns) : s.columns[i].id = x
    BY <1>1, <1>13, OnBoardIs
  <2>2. mid.columns[i].id = x
    BY <1>6, <2>1
  <2> QED  BY <1>9, <1>10, <2>2, OnBoardIs
<1>14. ASSUME NEW k, NEW x, IsIn(s, k, x), x # id
       PROVE  IsIn(mid, k, x)
  <2>1. PICK i \in 1..Len(s.columns) :
            /\ s.columns[i].id = k
            /\ \E j \in 1..Len(s.columns[i].cards) : s.columns[i].cards[j].id = x
    BY <1>1, <1>14, IsInIs
  <2>2. PICK j \in 1..Len(s.columns[i].cards) : s.columns[i].cards[j].id = x
    BY <2>1
  <2>3. PICK m \in 1..Len(mid.columns[i].cards) :
            mid.columns[i].cards[m] = s.columns[i].cards[j]
    BY <1>11, <1>14, <2>2
  <2>4. mid.columns[i].id = k /\ mid.columns[i].cards[m].id = x
    BY <1>6, <2>1, <2>2, <2>3
  <2> QED  BY <1>9, <1>10, <2>4, IsInIs
<1> QED  BY <1>6, <1>8, <1>9, <1>12, <1>13, <1>14

\* applyBoardChange: a card is moved by taking it out and putting it in after its anchor.
LEMMA MovedIs ==
    ASSUME NEW s, Sound(s), NEW c, c.kind = "card.moved"
    PROVE  \/ ApplyBoardChange(s, c) = s
           \/ \E mid, k, at, card : Relocated(ApplyBoardChange(s, c), s, c, mid, k, at, card)
<1> DEFINE t == ApplyBoardChange(s, c)
           n == Len(s.columns)
           from == ColumnOf(s, c.cardId)
           to == IndexOf(s.columns, c.columnId)
           moving == s.columns[from].cards[IndexOf(s.columns[from].cards, c.cardId)]
           card == [moving EXCEPT !.columnId = c.columnId]
           rest == Without(s.columns[to].cards, c.cardId)
           at == IndexOf(rest, c.after)
           placed == InsertAt(rest, at + 1, card)
<1>1. /\ s \in BoardType /\ n \in Nat /\ DOMAIN s.columns = 1..n
      /\ \A i \in 1..n : /\ s.columns[i].id \in Int /\ s.columns[i].name \in Word
                         /\ s.columns[i].cards \in Seq(Card)
      /\ \A i \in 1..n : \A j \in 1..Len(s.columns[i].cards) : s.columns[i].cards[j] \in Card
  BY BoardIs DEF Sound
<1>2. t = [columns |-> MoveCard(s, c), unplaced |-> s.unplaced]
  BY DEF ApplyBoardChange, Snapshot
<1>2a. MoveCard(s, c) =
          IF from = 0 \/ to = 0 THEN s.columns
          ELSE IF at = 0 /\ c.after # First THEN s.columns
          ELSE [i \in DOMAIN s.columns |->
                  Entry(s.columns[i].id, s.columns[i].name,
                        IF i = to THEN placed ELSE Without(s.columns[i].cards, c.cardId))]
  BY DEF MoveCard, WithCards
<1>3. CASE from = 0 \/ to = 0 \/ (at = 0 /\ c.after # First)
  <2> HIDE DEF from, moving, t, to, card, rest, at, placed
  <2>0. MoveCard(s, c) = s.columns
    BY <1>2a, <1>3
  <2>1. t.columns = s.columns /\ t.unplaced = s.unplaced
    BY <1>2, <2>0
  <2>2. t = s
    BY <1>1, <1>2, <2>1 DEF BoardType
  <2> QED  BY <2>2 DEF t
<1>4. CASE ~(from = 0 \/ to = 0 \/ (at = 0 /\ c.after # First))
  <2>1. /\ from \in 1..n /\ moving.id = c.cardId /\ OnBoard(s, c.cardId)
        /\ IndexOf(s.columns[from].cards, c.cardId) \in 1..Len(s.columns[from].cards)
    BY <1>1, <1>4, ColumnOfIs
  <2>2. moving \in Card
    BY <1>1, <2>1
  <2>3. to \in 1..n /\ s.columns[to].id = c.columnId
    BY <1>1, <1>4, IndexIs
  <2> HIDE DEF from, moving, t, to, card, rest, at, placed
  <2>4. t.columns = [i \in 1..n |->
                        Entry(s.columns[i].id, s.columns[i].name,
                              IF i = to THEN placed ELSE Without(s.columns[i].cards, c.cardId))]
    BY <1>1, <1>2, <1>2a, <1>4
  <2> USE DEF card, to, rest, at, placed
  <2>5. c.columnId \in Int
    BY <1>1, <2>3
  <2>6. card \in Card /\ card.id = c.cardId /\ card.columnId = c.columnId
    BY <2>1, <2>2, <2>5 DEF Card
  <2> HIDE DEF card, to
  <2>7. s.columns[to].cards \in Seq(Card)
    BY <1>1, <2>3
  <2>8. rest \in Seq(Card)
    BY <2>7, WithoutIs
  <2>9. Len(rest) \in Nat
    BY <2>8
  <2>9a. \A i \in 1..n : Without(s.columns[i].cards, c.cardId) \in Seq(Card)
    BY <1>1, WithoutIs
  <2>10. PICK mid : mid = Out(s, c.cardId)
    OBVIOUS
  <2>11. /\ Drawn(mid, s) /\ ~OnBoard(mid, c.cardId) /\ Len(mid.columns) = n
         /\ \A k, x : IsIn(s, k, x) /\ x # c.cardId => IsIn(mid, k, x)
         /\ \A x : InColumns(s, x) => InColumns(mid, x)
         /\ \A i \in 1..n : /\ mid.columns[i].id = s.columns[i].id
                            /\ mid.columns[i].cards = Without(s.columns[i].cards, c.cardId)
    BY <2>10, TakenOut
  <2>12. mid.columns[to].cards = rest /\ mid.columns[to].id = c.columnId
    BY <2>3, <2>11
  <2> HIDE DEF rest
  <2>13. at \in 0..Len(rest) /\ (at # 0 => at \in 1..Len(rest) /\ rest[at].id = c.after)
    BY <2>9, IndexIs
  <2> HIDE DEF at
  <2>14. PICK k : k = at + 1
    OBVIOUS
  <2>15. k \in 1..(Len(rest) + 1) /\ (k = 1 \/ (k - 1 \in 1..Len(rest) /\ rest[k - 1].id = c.after))
    BY <2>9, <2>13, <2>14
  <2>16. card \in Card
    BY <2>6
  <2>17. /\ InsertAt(rest, k, card) \in Seq(Card)
         /\ Len(InsertAt(rest, k, card)) = Len(rest) + 1
         /\ \A j \in 1..(Len(rest) + 1) : InsertAt(rest, k, card)[j] =
                IF j < k THEN rest[j] ELSE IF j = k THEN card ELSE rest[j - 1]
    BY <2>8, <2>15, <2>16, InsertAtIs
  <2>18. placed = InsertAt(rest, k, card)
    BY <2>14
  <2> HIDE DEF placed
  <2>19. placed \in Seq(Card)
    BY <2>17, <2>18
  <2>20. PutAt(placed, rest, k, card)
    BY <2>15, <2>17, <2>18 DEF PutAt
  <2>21. ASSUME NEW i \in 1..n
         PROVE  /\ t.columns[i] \in Column /\ t.columns[i].id = s.columns[i].id
                /\ i # to => t.columns[i].cards = mid.columns[i].cards
                /\ i = to => t.columns[i].cards = placed
    <3>1. i = to => t.columns[i] = [id |-> s.columns[i].id, name |-> s.columns[i].name,
                                    cards |-> placed]
      BY <2>4 DEF Entry
    <3>2. i # to => t.columns[i] = [id |-> s.columns[i].id, name |-> s.columns[i].name,
                                    cards |-> Without(s.columns[i].cards, c.cardId)]
      BY <2>4 DEF Entry
    <3>3. Without(s.columns[i].cards, c.cardId) \in Seq(Card)
      BY <2>9a
    <3>4. mid.columns[i].cards = Without(s.columns[i].cards, c.cardId)
      BY <2>11
    <3>5. t.columns[i] \in Column
      BY <1>1, <2>19, <3>1, <3>2, <3>3 DEF Column
    <3> QED  BY <3>1, <3>2, <3>4, <3>5
  <2>22. t.columns = [i \in 1..n |-> t.columns[i]]
    BY <2>4
  <2>23. t.columns \in [1..n -> Column]
    BY <2>21, <2>22
  <2>24. t.columns \in Seq(Column) /\ Len(t.columns) = n
    <3>1. n \in Nat
      BY <1>1
    <3> HIDE DEF n
    <3> QED  BY <2>23, <3>1
  <2>25. t.unplaced = s.unplaced /\ t = [columns |-> t.columns, unplaced |-> s.unplaced]
    BY <1>2
  <2>26. s.unplaced \in Seq(Card) /\ mid.unplaced = s.unplaced
    BY <1>1, <2>10, BoardIs DEF Out
  <2>27. t \in BoardType
    BY <2>24, <2>25, <2>26 DEF BoardType
  <2>28. Inserted(t, mid, to, k, card)
    <3>1. \A i \in 1..n : t.columns[i].id = mid.columns[i].id
      BY <2>11, <2>21
    <3>2. \A i \in 1..n : i # to => t.columns[i].cards = mid.columns[i].cards
      BY <2>21
    <3>3. PutAt(t.columns[to].cards, mid.columns[to].cards, k, card)
      BY <2>3, <2>12, <2>20, <2>21
    <3>4. card.columnId = mid.columns[to].id /\ ~OnBoard(mid, card.id)
      BY <2>6, <2>11, <2>12
    <3>5. Len(t.columns) = Len(mid.columns) /\ t.unplaced = mid.unplaced
      BY <2>11, <2>24, <2>25, <2>26
    <3> QED  BY <2>3, <2>11, <2>27, <3>1, <3>2, <3>3, <3>4, <3>5 DEF Inserted
  <2>29. \/ k = 1
         \/ k - 1 \in 1..Len(mid.columns[to].cards) /\ mid.columns[to].cards[k - 1].id = c.after
    BY <2>12, <2>15
  <2>30. Relocated(t, s, c, mid, to, k, card)
    BY <2>1, <2>6, <2>11, <2>12, <2>28, <2>29 DEF Relocated
  <2> QED  BY <2>30 DEF t
<1> QED  BY <1>3, <1>4

\* A card put at the bottom of its column.
LEMMA CreatedIs ==
    ASSUME NEW s, Sound(s), NEW c, c.kind = "card.created", c.card \in Card,
           ~OnBoard(s, c.card.id)
    PROVE  \/ ApplyBoardChange(s, c) = s /\ ~InColumns(s, c.card.columnId)
           \/ \E k \in 1..Len(s.columns) :
                  Inserted(ApplyBoardChange(s, c), s, k, Len(s.columns[k].cards) + 1, c.card)
<1> DEFINE t == ApplyBoardChange(s, c)
           n == Len(s.columns)
<1>1. /\ s \in BoardType /\ n \in Nat /\ DOMAIN s.columns = 1..n
      /\ \A i \in 1..n : /\ s.columns[i] \in Column
                         /\ s.columns[i].id \in Int /\ s.columns[i].name \in Word
                         /\ s.columns[i].cards \in Seq(Card)
                         /\ Len(s.columns[i].cards) \in Nat
  BY BoardIs DEF Sound
<1>2. /\ t = [columns |-> t.columns, unplaced |-> s.unplaced]
      /\ DOMAIN t.columns = 1..n
      /\ t.columns = [i \in 1..n |->
            IF s.columns[i].id = c.card.columnId
            THEN [id |-> s.columns[i].id, name |-> s.columns[i].name,
                  cards |-> Append(s.columns[i].cards, c.card)]
            ELSE s.columns[i]]
  BY <1>1 DEF ApplyBoardChange, MapColumns, Snapshot, WithCards, Entry
<1> HIDE DEF t
<1>3. CASE \A i \in 1..n : s.columns[i].id # c.card.columnId
  <2>1. t.columns = [i \in 1..n |-> s.columns[i]]
    BY <1>2, <1>3
  <2>2. s.columns = [i \in 1..n |-> s.columns[i]]
    BY <1>1 DEF BoardType
  <2>3. s = [columns |-> s.columns, unplaced |-> s.unplaced]
    BY <1>1 DEF BoardType
  <2>4. t = s
    BY <1>2, <2>1, <2>2, <2>3
  <2>5. ~InColumns(s, c.card.columnId)
    BY <1>1, <1>3, OnBoardIs
  <2> QED  BY <2>4, <2>5 DEF t
<1>4. ASSUME NEW k \in 1..n, s.columns[k].id = c.card.columnId
      PROVE  Inserted(t, s, k, Len(s.columns[k].cards) + 1, c.card)
  <2>1. \A i \in 1..n : s.columns[i].id = c.card.columnId <=> i = k
    <3>1. \A i, h \in 1..n : s.columns[i].id = s.columns[h].id => i = h
      BY <1>1, DistinctIs DEF Sound
    <3> QED  BY <1>4, <3>1
  <2> DEFINE v == s.columns[k].cards
             u == Append(v, c.card)
  <2>2a. v \in Seq(Card)
    BY <1>1
  <2>2b. c.card \in Card
    OBVIOUS
  <2>2. /\ u \in Seq(Card) /\ Len(u) = Len(v) + 1 /\ u[Len(v) + 1] = c.card
        /\ \A j \in 1..Len(v) : u[j] = v[j]
    BY <2>2a, <2>2b, AppendProperties
  <2>3. Len(v) \in Nat
    BY <2>2a
  <2> HIDE DEF u, v
  <2>4. PutAt(u, v, Len(v) + 1, c.card)
    <3>1. \A j \in 1..(Len(v) + 1) :
              u[j] = IF j < Len(v) + 1 THEN v[j]
                     ELSE IF j = Len(v) + 1 THEN c.card ELSE v[j - 1]
      BY <2>2, <2>3
    <3> QED  BY <2>2, <2>3, <3>1 DEF PutAt
  <2>5. ASSUME NEW i \in 1..n
        PROVE  /\ t.columns[i] \in Column /\ t.columns[i].id = s.columns[i].id
               /\ i # k => t.columns[i].cards = s.columns[i].cards
               /\ i = k => t.columns[i].cards = u
    <3>1. i # k => t.columns[i] = s.columns[i]
      BY <1>2, <2>1
    <3>2. i = k => t.columns[i] = [id |-> s.columns[i].id, name |-> s.columns[i].name,
                                   cards |-> u]
      BY <1>2, <2>1 DEF u, v
    <3>3. t.columns[i] \in Column
      BY <1>1, <2>2, <3>1, <3>2 DEF Column
    <3> QED  BY <3>1, <3>2, <3>3
  <2>6. t.columns = [i \in 1..n |-> t.columns[i]]
    BY <1>2
  <2>7. t.columns \in [1..n -> Column]
    BY <2>5, <2>6
  <2>8. t.columns \in Seq(Column) /\ Len(t.columns) = n
    <3>1. n \in Nat
      BY <1>1
    <3> HIDE DEF n
    <3> QED  BY <2>7, <3>1
  <2>9. t.unplaced = s.unplaced /\ s.unplaced \in Seq(Card)
    BY <1>1, <1>2, BoardIs
  <2>10. t \in BoardType
    BY <1>2, <2>8, <2>9 DEF BoardType
  <2>11. /\ \A i \in 1..n : t.columns[i].id = s.columns[i].id
         /\ \A i \in 1..n : i # k => t.columns[i].cards = s.columns[i].cards
         /\ t.columns[k].cards = u
    BY <2>5
  <2> QED  BY <1>4, <2>4, <2>8, <2>9, <2>10, <2>11 DEF Inserted, v
<1> QED  BY <1>3, <1>4 DEF t

\* A column is put behind the others, with no card.
LEMMA ColumnCreatedIs ==
    ASSUME NEW s, Sound(s), NEW c, c.kind = "column.created", c.column \in Column,
           c.column.cards = <<>>, ~InColumns(s, c.column.id)
    PROVE  /\ Sound(ApplyBoardChange(s, c))
           /\ ApplyBoardChange(s, c).unplaced = s.unplaced
           /\ \A id : OnBoard(ApplyBoardChange(s, c), id) => OnBoard(s, id)
           /\ \A id : InColumns(ApplyBoardChange(s, c), id) <=>
                          InColumns(s, id) \/ id = c.column.id
           /\ \A k, id : IsIn(s, k, id) => IsIn(ApplyBoardChange(s, c), k, id)
           /\ Aside(s) => Aside(ApplyBoardChange(s, c))
<1> DEFINE t == ApplyBoardChange(s, c)
           n == Len(s.columns)
<1>1. /\ s \in BoardType /\ s.columns \in Seq(Column) /\ n \in Nat
      /\ DOMAIN s.columns = 1..n /\ s.unplaced \in Seq(Card)
  BY BoardIs DEF Sound
<1>2. t = [columns |-> Append(s.columns, c.column), unplaced |-> s.unplaced]
  BY DEF ApplyBoardChange, Snapshot
<1> HIDE DEF t
<1>3. t.columns = Append(s.columns, c.column) /\ t.unplaced = s.unplaced
  BY <1>2
<1>4a. s.columns \in Seq(Column)
  BY <1>1
<1>4. /\ t.columns \in Seq(Column) /\ Len(t.columns) = n + 1 /\ t.columns[n + 1] = c.column
      /\ \A i \in 1..n : t.columns[i] = s.columns[i]
  BY <1>3, <1>4a, AppendProperties
<1> HIDE DEF n
<1>5. t \in BoardType
  <2>1. t.columns \in Seq(Column)
    BY <1>4
  <2> QED  BY <1>1, <1>2, <1>3, <2>1 DEF BoardType
<1>6. \A i \in 1..(n + 1) : i \in 1..n \/ i = n + 1
  BY <1>1
<1>7. 1..Len(t.columns) = 1..(n + 1) /\ \A i \in 1..n : i \in 1..(n + 1)
  BY <1>1, <1>4
<1>8. Len(t.columns[n + 1].cards) = 0 /\ t.columns[n + 1].id = c.column.id
  BY <1>4
<1>9. \A i \in 1..(n + 1) : \A j \in 1..Len(t.columns[i].cards) :
          i \in 1..n /\ t.columns[i] = s.columns[i]
  <2>1. SUFFICES ASSUME NEW i \in 1..(n + 1), NEW j \in 1..Len(t.columns[i].cards)
                 PROVE  i \in 1..n
    BY <1>4
  <2>2. i # n + 1
    BY <1>8
  <2> QED  BY <1>6, <2>2
<1>10. \A i \in 1..n : s.columns[i].id # c.column.id
  <2>1. \A id : InColumns(s, id) <=> \E i \in 1..Len(s.columns) : s.columns[i].id = id
    BY <1>1, OnBoardIs
  <2> QED  BY <2>1 DEF n
<1>11. Distinct(t.columns)
  <2>1. \A i, h \in 1..n : s.columns[i].id = s.columns[h].id => i = h
    BY <1>1, DistinctIs DEF Sound, n
  <2>2. \A i, h \in 1..(n + 1) : t.columns[i].id = t.columns[h].id => i = h
    BY <1>4, <1>6, <1>8, <1>10, <2>1
  <2> QED  BY <1>5, <1>7, <2>2, DistinctIs
<1>12. Home(t)
  <2>1. \A i \in 1..n : \A j \in 1..Len(s.columns[i].cards) :
            s.columns[i].cards[j].columnId = s.columns[i].id
    BY <1>1, HomeIs DEF Sound, n
  <2>2. \A i \in 1..(n + 1) : \A j \in 1..Len(t.columns[i].cards) :
            t.columns[i].cards[j].columnId = t.columns[i].id
    BY <1>9, <2>1
  <2> QED  BY <1>5, <1>7, <2>2, HomeIs
<1>13. Once(t)
  <2>1. \A i, h \in 1..n :
            \A j \in 1..Len(s.columns[i].cards) : \A m \in 1..Len(s.columns[h].cards) :
                s.columns[i].cards[j].id = s.columns[h].cards[m].id => i = h /\ j = m
    BY <1>1, OnceIs DEF Sound, n
  <2>2. ASSUME NEW i \in 1..(n + 1), NEW h \in 1..(n + 1),
               NEW j \in 1..Len(t.columns[i].cards), NEW m \in 1..Len(t.columns[h].cards),
               t.columns[i].cards[j].id = t.columns[h].cards[m].id
        PROVE  i = h /\ j = m
    <3>1. /\ i \in 1..n /\ t.columns[i] = s.columns[i]
          /\ h \in 1..n /\ t.columns[h] = s.columns[h]
      BY <1>9, <2>2
    <3>2. i \in 1..n /\ h \in 1..n
      BY <3>1
    <3>3. j \in 1..Len(s.columns[i].cards) /\ m \in 1..Len(s.columns[h].cards)
      BY <3>1
    <3>4. s.columns[i].cards[j].id = s.columns[h].cards[m].id
      BY <2>2, <3>1
    <3> QED  BY <2>1, <3>2, <3>3, <3>4, SMTT(30)
  <2> QED  BY <1>5, <1>7, <2>2, OnceIs
<1>14. ASSUME NEW id, OnBoard(t, id)
       PROVE  OnBoard(s, id)
  <2>0. PICK i \in 1..Len(t.columns) : \E j \in 1..Len(t.columns[i].cards) :
            t.columns[i].cards[j].id = id
    BY <1>5, <1>14, OnBoardIs
  <2>1. i \in 1..(n + 1) /\ \E j \in 1..Len(t.columns[i].cards) : t.columns[i].cards[j].id = id
    BY <1>7, <2>0
  <2>2. PICK j \in 1..Len(t.columns[i].cards) : t.columns[i].cards[j].id = id
    BY <2>1
  <2>3. i \in 1..n /\ t.columns[i] = s.columns[i]
    BY <1>9, <2>1, <2>2
  <2>4. i \in 1..Len(s.columns) /\ j \in 1..Len(s.columns[i].cards) /\ s.columns[i].cards[j].id = id
    BY <2>2, <2>3 DEF n
  <2> QED  BY <1>1, <2>4, OnBoardIs
<1>15. ASSUME NEW id
       PROVE  InColumns(t, id) <=> InColumns(s, id) \/ id = c.column.id
  <2>0. InColumns(t, id) <=> \E i \in 1..Len(t.columns) : t.columns[i].id = id
    BY <1>5, OnBoardIs
  <2>1. InColumns(t, id) <=> \E i \in 1..(n + 1) : t.columns[i].id = id
    BY <1>7, <2>0
  <2>2. InColumns(s, id) <=> \E i \in 1..n : s.columns[i].id = id
    BY <1>1, OnBoardIs DEF n
  <2>3. n + 1 \in 1..(n + 1)
    BY <1>1
  <2> QED  BY <1>4, <1>6, <1>7, <1>8, <2>1, <2>2, <2>3
<1>16. ASSUME NEW k, NEW id, IsIn(s, k, id)
       PROVE  IsIn(t, k, id)
  <2>1. PICK i \in 1..n : /\ s.columns[i].id = k
                          /\ \E j \in 1..Len(s.columns[i].cards) : s.columns[i].cards[j].id = id
    BY <1>1, <1>16, IsInIs DEF n
  <2>2. i \in 1..Len(t.columns) /\ t.columns[i] = s.columns[i]
    BY <1>4, <1>7, <2>1
  <2>3. /\ t.columns[i].id = k
        /\ \E j \in 1..Len(t.columns[i].cards) : t.columns[i].cards[j].id = id
    BY <2>1, <2>2
  <2>4. i \in 1..Len(t.columns)
    BY <2>2
  <2> QED  BY <1>5, <2>3, <2>4, IsInIs
<1>17. ASSUME Aside(s)
       PROVE  Aside(t)
  <2>1. DOMAIN t.columns = 1..(n + 1)
    BY <1>5, <1>7, BoardIs
  <2>2. SUFFICES ASSUME NEW i \in 1..(n + 1)
                 PROVE  /\ IsPendingId(t.columns[i].id) => t.columns[i].cards = <<>>
                        /\ \A j, m \in DOMAIN t.columns[i].cards :
                               j < m /\ IsPendingId(t.columns[i].cards[j].id)
                                   => IsPendingId(t.columns[i].cards[m].id)
    BY <2>1 DEF Aside
  <2>3. CASE i \in 1..n
    BY <1>1, <1>4, <1>17, <2>3 DEF Aside
  <2>4. CASE i = n + 1
    <3>1. t.columns[i].cards = <<>>
      BY <1>4, <2>4
    <3> QED  BY <3>1
  <2> QED  BY <1>6, <2>3, <2>4
<1>18. Sound(t)
  BY <1>5, <1>11, <1>12, <1>13 DEF Sound
<1> QED  BY <1>3, <1>14, <1>15, <1>16, <1>17, <1>18 DEF t

-----------------------------------------------------------------------------
(* Any change. *)

BoardChange(c) ==
    \/ c.kind = "card.created" /\ c.card \in Card
    \/ c.kind = "card.updated" /\ c.text \in Word
    \/ c.kind \in {"card.deleted", "card.moved", "column.deleted", "column.moved"}
    \/ c.kind = "column.created" /\ c.column \in Column /\ c.column.cards = <<>>
    \/ c.kind = "column.renamed" /\ c.name \in Word

\* What it makes was not there.
Unmade(s, c) ==
    /\ c.kind = "card.created" => ~OnBoard(s, c.card.id)
    /\ c.kind = "column.created" => ~InColumns(s, c.column.id)

\* t has what s has, and what the change makes.
Gains(t, s, c) ==
    /\ \A id : OnBoard(t, id) => OnBoard(s, id) \/ (c.kind = "card.created" /\ id = c.card.id)
    /\ \A id : InColumns(t, id) =>
                   InColumns(s, id) \/ (c.kind = "column.created" /\ id = c.column.id)

\* Every change leaves the board well made, with nothing new but what the change makes.
LEMMA ChangedSound ==
    ASSUME NEW s, Sound(s), NEW c, BoardChange(c), Unmade(s, c)
    PROVE  /\ Sound(ApplyBoardChange(s, c))
           /\ ApplyBoardChange(s, c).unplaced = s.unplaced
           /\ Gains(ApplyBoardChange(s, c), s, c)
<1> DEFINE t == ApplyBoardChange(s, c)
<1>1. ASSUME Drawn(t, s)
      PROVE  Sound(t) /\ t.unplaced = s.unplaced /\ Gains(t, s, c)
  <2>1. t.unplaced = s.unplaced
    BY <1>1 DEF Drawn
  <2> HIDE DEF t
  <2> QED  BY <1>1, <2>1, DrawnSound DEF Gains
<1>2. CASE c.kind = "card.created"
  <2>1. c.card \in Card /\ ~OnBoard(s, c.card.id)
    BY <1>2 DEF BoardChange, Unmade
  <2>2. \/ t = s
        \/ \E k \in 1..Len(s.columns) :
               Inserted(t, s, k, Len(s.columns[k].cards) + 1, c.card)
    BY <1>2, <2>1, CreatedIs
  <2> HIDE DEF t
  <2>3. CASE t = s
    BY <2>3 DEF Gains, t
  <2>4. ASSUME NEW k, NEW at, Inserted(t, s, k, at, c.card)
        PROVE  Sound(t) /\ t.unplaced = s.unplaced /\ Gains(t, s, c)
    <3>1. t.unplaced = s.unplaced
      BY <2>4 DEF Inserted
    <3>2. /\ Sound(t)
          /\ \A id : OnBoard(t, id) => OnBoard(s, id) \/ id = c.card.id
          /\ \A id : InColumns(t, id) => InColumns(s, id)
      BY <2>4, InsertedSound
    <3> QED  BY <1>2, <3>1, <3>2 DEF Gains
  <2> QED  BY <2>2, <2>3, <2>4 DEF t
<1>3. CASE c.kind = "card.updated"
  BY <1>1, <1>3, UpdatedDrawn DEF BoardChange
<1>4. CASE c.kind = "card.deleted"
  BY <1>1, <1>4, DeletedDrawn
<1>5. CASE c.kind = "card.moved"
  <2>1. \/ t = s
        \/ \E mid, k, at, card : Relocated(t, s, c, mid, k, at, card)
    BY <1>5, MovedIs
  <2> HIDE DEF t
  <2>2. CASE t = s
    BY <2>2 DEF Gains, t
  <2>3. ASSUME NEW mid, NEW k, NEW at, NEW card, Relocated(t, s, c, mid, k, at, card)
        PROVE  Sound(t) /\ t.unplaced = s.unplaced /\ Gains(t, s, c)
    <3>1. Drawn(mid, s) /\ Inserted(t, mid, k, at, card) /\ OnBoard(s, card.id)
      BY <2>3 DEF Relocated
    <3>2. t.unplaced = s.unplaced
      BY <3>1 DEF Inserted, Drawn
    <3>3. /\ Sound(mid) /\ \A id : OnBoard(mid, id) => OnBoard(s, id)
          /\ \A id : InColumns(mid, id) => InColumns(s, id)
      BY <3>1, DrawnSound
    <3>4. /\ Sound(t) /\ \A id : OnBoard(t, id) => OnBoard(mid, id) \/ id = card.id
          /\ \A id : InColumns(t, id) => InColumns(mid, id)
      BY <3>1, <3>3, InsertedSound
    <3> QED  BY <3>1, <3>2, <3>3, <3>4 DEF Gains
  <2> QED  BY <2>1, <2>2, <2>3 DEF t
<1>6. CASE c.kind = "column.created"
  <2>1. /\ c.column \in Column /\ c.column.cards = <<>> /\ ~InColumns(s, c.column.id)
    BY <1>6 DEF BoardChange, Unmade
  <2>2. /\ Sound(t) /\ t.unplaced = s.unplaced
        /\ \A id : OnBoard(t, id) => OnBoard(s, id)
        /\ \A id : InColumns(t, id) <=> InColumns(s, id) \/ id = c.column.id
    BY <1>6, <2>1, ColumnCreatedIs
  <2> HIDE DEF t
  <2>3. Gains(t, s, c)
    BY <1>6, <2>2 DEF Gains
  <2> QED  BY <2>2, <2>3 DEF t
<1>7. CASE c.kind = "column.renamed"
  BY <1>1, <1>7, RenamedDrawn DEF BoardChange
<1>8. CASE c.kind = "column.deleted"
  BY <1>1, <1>8, ColumnDeletedDrawn
<1>9. CASE c.kind = "column.moved"
  BY <1>1, <1>9, ColumnMovedDrawn
<1>10. c.kind \in {"card.created", "card.updated", "card.deleted", "card.moved",
                   "column.created", "column.renamed", "column.deleted", "column.moved"}
  BY DEF BoardChange
<1> HIDE DEF t
<1>11. Sound(t) /\ t.unplaced = s.unplaced /\ Gains(t, s, c)
  BY <1>2, <1>3, <1>4, <1>5, <1>6, <1>7, <1>8, <1>9, <1>10 DEF t
<1> QED  BY <1>11 DEF t

\* It names no pending card or column, and what others made is drawn over no pending card.
Proper(s, c) ==
    /\ c.kind = "card.moved" =>
           ~IsPendingId(c.cardId) /\ ~IsPendingId(c.columnId) /\ ~IsPendingId(c.after)
    /\ c.kind = "card.created" =>
           /\ ~IsPendingId(c.card.columnId)
           /\ IsPendingId(c.card.id) \/ \A id : OnBoard(s, id) => ~IsPendingId(id)

\* And a change that names nothing pending leaves what is pending aside.
LEMMA ChangedAside ==
    ASSUME NEW s, Sound(s), NEW c, BoardChange(c), Unmade(s, c), Aside(s), Proper(s, c)
    PROVE  Aside(ApplyBoardChange(s, c))
<1> DEFINE t == ApplyBoardChange(s, c)
<1>0. s \in BoardType
  BY DEF Sound
<1>1. ASSUME Drawn(t, s)
      PROVE  Aside(t)
  <2> HIDE DEF t
  <2> QED  BY <1>0, <1>1, DrawnAside
<1>2. CASE c.kind = "card.created"
  <2>1. /\ c.card \in Card /\ ~OnBoard(s, c.card.id) /\ ~IsPendingId(c.card.columnId)
        /\ IsPendingId(c.card.id) \/ \A id : OnBoard(s, id) => ~IsPendingId(id)
    BY <1>2 DEF BoardChange, Unmade, Proper
  <2>2. \/ t = s
        \/ \E k \in 1..Len(s.columns) :
               Inserted(t, s, k, Len(s.columns[k].cards) + 1, c.card)
    BY <1>2, <2>1, CreatedIs
  <2> HIDE DEF t
  <2>4. ASSUME NEW k, Inserted(t, s, k, Len(s.columns[k].cards) + 1, c.card)
        PROVE  Aside(t)
    <3>1. k \in 1..Len(s.columns) /\ ~IsPendingId(s.columns[k].id)
      BY <2>1, <2>4 DEF Inserted
    <3>2. CASE IsPendingId(c.card.id)
      BY <1>0, <2>4, <3>1, <3>2, InsertedAside
    <3>3. CASE ~IsPendingId(c.card.id)
      <4>1. \A j \in 1..Len(s.columns[k].cards) : OnBoard(s, s.columns[k].cards[j].id)
        BY <1>0, <3>1, OnBoardIs
      <4>2. \A j \in 1..Len(s.columns[k].cards) : ~IsPendingId(s.columns[k].cards[j].id)
        BY <2>1, <3>3, <4>1
      <4> QED  BY <1>0, <2>4, <3>1, <3>3, <4>2, InsertedAside
    <3> QED  BY <3>2, <3>3
  <2> QED  BY <2>2, <2>4 DEF t
<1>3. CASE c.kind = "card.updated"
  BY <1>1, <1>3, UpdatedDrawn DEF BoardChange
<1>4. CASE c.kind = "card.deleted"
  BY <1>1, <1>4, DeletedDrawn
<1>5. CASE c.kind = "card.moved"
  <2>1. \/ t = s
        \/ \E mid, k, at, card : Relocated(t, s, c, mid, k, at, card)
    BY <1>5, MovedIs
  <2>2. ~IsPendingId(c.cardId) /\ ~IsPendingId(c.columnId) /\ ~IsPendingId(c.after)
    BY <1>5 DEF Proper
  <2> HIDE DEF t
  <2>3. ASSUME NEW mid, NEW k, NEW at, NEW card, Relocated(t, s, c, mid, k, at, card)
        PROVE  Aside(t)
    <3>1. /\ Drawn(mid, s) /\ Inserted(t, mid, k, at, card)
          /\ card.id = c.cardId /\ mid.columns[k].id = c.columnId
          /\ \/ at = 1
             \/ /\ at - 1 \in 1..Len(mid.columns[k].cards)
                /\ mid.columns[k].cards[at - 1].id = c.after
      BY <2>3 DEF Relocated
    <3>2. Aside(mid) /\ mid \in BoardType
      BY <1>0, <3>1, DrawnAside DEF Drawn
    <3>3. k \in 1..Len(mid.columns)
      BY <3>1 DEF Inserted
    <3>4. Len(mid.columns[k].cards) \in Nat /\ at \in 1..(Len(mid.columns[k].cards) + 1)
      BY <3>1, <3>2, <3>3, BoardIs DEF Inserted, PutAt
    <3>5. \A j, m \in 1..Len(mid.columns[k].cards) :
              j < m /\ IsPendingId(mid.columns[k].cards[j].id)
                  => IsPendingId(mid.columns[k].cards[m].id)
      BY <3>2, <3>3, BoardIs DEF Aside
    <3>6. ASSUME NEW j \in 1..Len(mid.columns[k].cards), j < at
          PROVE  ~IsPendingId(mid.columns[k].cards[j].id)
      <4>1. at - 1 \in 1..Len(mid.columns[k].cards) /\ (j < at - 1 \/ j = at - 1)
        BY <3>1, <3>4, <3>6
      <4>2. mid.columns[k].cards[at - 1].id = c.after
        BY <3>1, <3>6, <4>1
      <4>3. ~IsPendingId(mid.columns[k].cards[at - 1].id)
        BY <2>2, <4>2
      <4> QED  BY <3>5, <4>1, <4>3
    <3> QED  BY <2>2, <3>1, <3>2, <3>6, InsertedAside
  <2> QED  BY <2>1, <2>3 DEF t
<1>6. CASE c.kind = "column.created"
  BY <1>6, ColumnCreatedIs DEF BoardChange, Unmade
<1>7. CASE c.kind = "column.renamed"
  BY <1>1, <1>7, RenamedDrawn DEF BoardChange
<1>8. CASE c.kind = "column.deleted"
  BY <1>1, <1>8, ColumnDeletedDrawn
<1>9. CASE c.kind = "column.moved"
  BY <1>1, <1>9, ColumnMovedDrawn
<1>10. c.kind \in {"card.created", "card.updated", "card.deleted", "card.moved",
                   "column.created", "column.renamed", "column.deleted", "column.moved"}
  BY DEF BoardChange
<1> HIDE DEF t
<1>11. Aside(t)
  BY <1>2, <1>3, <1>4, <1>5, <1>6, <1>7, <1>8, <1>9, <1>10 DEF t
<1> QED  BY <1>11 DEF t

-----------------------------------------------------------------------------
(* The live log: what the events of others make of a board. *)

\* Every card and every column of the board has an id of I.
Within(s, I) == \A id : OnBoard(s, id) \/ InColumns(s, id) => id \in I

\* An event of the API, with m ids given out.
IsEvent(e, m) ==
    \/ e.kind = "board.updated"
    \/ \E k \in Int, name \in Word :
           e = [kind |-> "column.updated", columnId |-> k, name |-> name]
    \/ /\ BoardChange(e) /\ e.kind # "column.renamed"
       /\ e.kind = "card.created" => e.card.id \in 1..m
       /\ e.kind = "column.created" => e.column.id \in 1..m

\* c is the change the event stands for, of that board.
Means(e, c, s) ==
    /\ BoardChange(c) /\ Unmade(s, c) /\ ApplyLiveEvent(s, e) = ApplyBoardChange(s, c)
    /\ c = e \/ c.kind = "column.renamed"

\* An event does nothing to a board, or what some change of a board does.
LEMMA EventIs ==
    ASSUME NEW m \in Nat, NEW s, Sound(s), NEW e, IsEvent(e, m)
    PROVE  ApplyLiveEvent(s, e) = s \/ \E c : Means(e, c, s)
<1> DEFINE t == ApplyLiveEvent(s, e)
<1>0. s \in BoardType /\ Len(s.columns) \in Nat
  BY BoardIs DEF Sound
<1>1. CASE e.kind = "board.updated"
  BY <1>1 DEF ApplyLiveEvent, ChangeFor
<1>2. ASSUME NEW k \in Int, NEW name \in Word,
             e = [kind |-> "column.updated", columnId |-> k, name |-> name]
      PROVE  \E c : Means(e, c, s)
  <2> DEFINE c == [kind |-> "column.renamed", columnId |-> k, name |-> name]
  <2>1. [e EXCEPT !.kind = "column.renamed"] = c /\ e.kind = "column.updated"
    BY <1>2
  <2>2. ChangeFor(e) = {c}
    BY <2>1 DEF ChangeFor
  <2>3. BoardChange(c) /\ Unmade(s, c) /\ c.kind = "column.renamed"
    BY DEF BoardChange, Unmade
  <2> HIDE DEF c
  <2>4. (CHOOSE x \in ChangeFor(e) : TRUE) = c /\ ChangeFor(e) # {}
    BY <2>2
  <2>5. t = ApplyBoardChange(s, c)
    BY <2>1, <2>4 DEF ApplyLiveEvent
  <2>6. Means(e, c, s)
    BY <2>3, <2>5 DEF Means
  <2> QED  BY <2>6
<1>3. CASE BoardChange(e) /\ e.kind # "column.renamed" /\ e.kind # "board.updated"
  <2>1. ChangeFor(e) = {e}
    <3>1. e.kind # "column.updated" /\ e.kind # "board.deleted"
      BY <1>3 DEF BoardChange
    <3> QED  BY <1>3, <3>1 DEF ChangeFor
  <2>2. (CHOOSE x \in ChangeFor(e) : TRUE) = e /\ ChangeFor(e) # {}
    BY <2>1
  <2>3. \/ t = s
        \/ /\ t = ApplyBoardChange(s, e)
           /\ ~(e.kind = "card.created" /\ HasCard(s, e.card.id))
           /\ ~(e.kind = "column.created" /\ HasColumn(s, e.column.id))
    BY <2>2 DEF ApplyLiveEvent
  <2>4. CASE /\ t = ApplyBoardChange(s, e)
             /\ ~(e.kind = "card.created" /\ HasCard(s, e.card.id))
             /\ ~(e.kind = "column.created" /\ HasColumn(s, e.column.id))
    <3>1. e.kind = "card.created" => ~OnBoard(s, e.card.id)
      BY <1>0, <2>4, ColumnOfIs DEF HasCard
    <3>2. e.kind = "column.created" => ~InColumns(s, e.column.id)
      BY <1>0, <2>4, IndexIs, OnBoardIs DEF HasColumn
    <3>3. Unmade(s, e)
      BY <3>1, <3>2 DEF Unmade
    <3>4. Means(e, e, s)
      BY <1>3, <2>4, <3>3 DEF Means
    <3> QED  BY <3>4
  <2> QED  BY <2>3, <2>4
<1>4. \/ e.kind = "board.updated"
      \/ \E k \in Int, name \in Word :
             e = [kind |-> "column.updated", columnId |-> k, name |-> name]
      \/ BoardChange(e) /\ e.kind # "column.renamed" /\ e.kind # "board.updated"
  BY DEF IsEvent
<1> QED  BY <1>1, <1>2, <1>3, <1>4

\* So it leaves a sound board of the ids that were given out.
LEMMA EventApplied ==
    ASSUME NEW m \in Nat, NEW s, Sound(s), Within(s, 1..m), NEW e, IsEvent(e, m)
    PROVE  Sound(ApplyLiveEvent(s, e)) /\ Within(ApplyLiveEvent(s, e), 1..m)
<1>1. CASE ApplyLiveEvent(s, e) = s
  BY <1>1
<1>2. ASSUME NEW c, Means(e, c, s)
      PROVE  Sound(ApplyLiveEvent(s, e)) /\ Within(ApplyLiveEvent(s, e), 1..m)
  <2>1. PICK t : t = ApplyLiveEvent(s, e) /\ t = ApplyBoardChange(s, c)
    BY <1>2 DEF Means
  <2>2. Sound(t) /\ Gains(t, s, c)
    BY <1>2, <2>1, ChangedSound DEF Means
  <2>3. /\ c.kind = "card.created" => c.card.id \in 1..m
        /\ c.kind = "column.created" => c.column.id \in 1..m
    <3>1. \A k, name : e = [kind |-> "column.updated", columnId |-> k, name |-> name]
              => e.kind = "column.updated"
      OBVIOUS
    <3>2. /\ e.kind = "card.created" => e.card.id \in 1..m
          /\ e.kind = "column.created" => e.column.id \in 1..m
      BY <3>1 DEF IsEvent
    <3> QED  BY <1>2, <3>2 DEF Means
  <2>4. Within(t, 1..m)
    BY <2>2, <2>3 DEF Gains, Within
  <2> QED  BY <2>1, <2>2, <2>4
<1> QED  BY <1>1, <1>2, EventIs

\* run is what the board comes to after each event.
LiveRuns(run, s, events, m) ==
    /\ run[0] = s /\ run[Len(events)] = ApplyLiveLog(s, events)
    /\ \A k \in 1..Len(events) : run[k] = ApplyLiveEvent(run[k - 1], events[k])
    /\ \A k \in 0..Len(events) : Sound(run[k]) /\ Within(run[k], 1..m)

\* The log is applied event by event.
LEMMA LiveRun ==
    ASSUME NEW m \in Nat, NEW s, Sound(s), Within(s, 1..m),
           NEW events, Listed(events), \A k \in DOMAIN events : IsEvent(events[k], m)
    PROVE  \E run : LiveRuns(run, s, events, m)
<1> DEFINE X == {u \in BoardType : Sound(u) /\ Within(u, 1..m)}
           n == Len(events)
           Y == [k \in 0..n |-> X]
           step == [x \in X \X (1..n) |-> ApplyLiveEvent(x[1], events[x[2]])]
           Folded(f) == f = [I \in SUBSET (1..n) |->
                             IF I = {} THEN s
                             ELSE ApplyLiveEvent(f[I \ {Max(I)}], events[Max(I)])]
           g == CHOOSE f : Folded(f)
<1>1. n \in Nat /\ DOMAIN events = 1..n
  BY ListedIs
<1>2. ApplyLiveLog(s, events) = g[1..n]
  BY <1>1 DEF ApplyLiveLog, FoldLeft, MapThenFoldSet
<1>3. ASSUME NEW u \in X, NEW k \in 1..n
      PROVE  step[<<u, k>>] = ApplyLiveEvent(u, events[k]) /\ ApplyLiveEvent(u, events[k]) \in X
  <2>1. Sound(ApplyLiveEvent(u, events[k])) /\ Within(ApplyLiveEvent(u, events[k]), 1..m)
    BY <1>1, <1>3, EventApplied
  <2> QED  BY <2>1 DEF Sound
<1>4. s \in X
  BY DEF Sound
<1> HIDE DEF X, step
<1>5. /\ \A k \in 0..n : Y[k] = X
      /\ \A k \in 1..n : k - 1 \in 0..n /\ k \in 0..n
      /\ 0 \in 0..n /\ n \in 0..n
  BY <1>1
<1> HIDE DEF Y, n
<1>6. Grows(Y, n, s, step)
  BY <1>3, <1>4, <1>5 DEF Grows
<1>7. Folded(g)
  <2>1. PICK f \in [SUBSET (1..n) -> Y[n]] : IsFold(f, n, s, step)
    BY <1>1, <1>6, FoldGrows
  <2>2. ASSUME NEW I \in SUBSET (1..n), I # {}
        PROVE  f[I] = ApplyLiveEvent(f[I \ {Max(I)}], events[Max(I)])
    <3>1. Max(I) \in 1..n
      BY <1>1, <2>2, MaxOfIndices
    <3>2. f[I \ {Max(I)}] \in X
      BY <1>5, <2>1
    <3>3. f[I] = step[<<f[I \ {Max(I)}], Max(I)>>]
      BY <2>1, <2>2 DEF IsFold
    <3> QED  BY <1>3, <3>1, <3>2, <3>3
  <2>3. f[{}] = s
    BY <2>1 DEF IsFold
  <2>4. Folded(f)
    BY <2>1, <2>2, <2>3
  <2> QED  BY <2>4
<1> HIDE DEF g
<1>8. FoldsWithin(g, Y[n], n, s, step)
  <2>1. ASSUME NEW I \in SUBSET (1..n), I # {}, g[I \ {Max(I)}] \in X
        PROVE  g[I] = step[<<g[I \ {Max(I)}], Max(I)>>]
    <3>1. Max(I) \in 1..n
      BY <1>1, <2>1, MaxOfIndices
    <3>2. g[I] = ApplyLiveEvent(g[I \ {Max(I)}], events[Max(I)])
      BY <1>7, <2>1
    <3> QED  BY <1>3, <2>1, <3>1, <3>2
  <2>2. g[{}] = s
    BY <1>7
  <2> QED  BY <1>5, <2>1, <2>2 DEF FoldsWithin
<1>9. PICK run : /\ IsRun(run, n, s, step, g[1..n])
                 /\ \A k \in 0..n : run[k] \in Y[k]
  BY <1>1, <1>6, <1>8, RunGrows
<1>10. \A k \in 0..n : run[k] \in X
  BY <1>5, <1>9
<1>11. \A k \in 1..n : run[k] = ApplyLiveEvent(run[k - 1], events[k])
  BY <1>3, <1>5, <1>9, <1>10 DEF IsRun
<1>12. \A k \in 0..n : Sound(run[k]) /\ Within(run[k], 1..m)
  BY <1>10 DEF X
<1> QED  BY <1>2, <1>9, <1>11, <1>12 DEF LiveRuns, IsRun, n

-----------------------------------------------------------------------------
(* The optimistic edits: what this user's own writes make of a board. *)

\* A move this user sends or proposes names a card and a column the server made, and
\* an anchor that is one too, or none.
IsOwnMove(c) ==
    /\ c.kind = "card.moved"
    /\ c.cardId \in Nat \ {0} /\ c.columnId \in Nat \ {0} /\ c.after \in Nat

\* What the i-th write may ask for.
IsOwnChange(c, i) ==
    \/ \E k \in Nat \ {0} : c = [kind |-> "card.created", card |-> NewCard(-i, k)]
    \/ c = [kind |-> "column.created", column |-> Entry(-i, "made", <<>>)]
    \/ IsOwnMove(c)
    \/ \E k \in Nat \ {0} : c = [kind |-> "column.renamed", columnId |-> k, name |-> "mine"]
    \/ \E k \in Nat \ {0} : c = [kind |-> "column.deleted", columnId |-> k]
    \/ c.kind = "column.moved"

\* The ids on a screen, with m given out and k writes made.
Drafts(m, k) == ((-k)..m) \ {0}

\* Well made, with what is pending aside.
Fine(s, m, k) == Sound(s) /\ Aside(s) /\ Within(s, Drafts(m, k))

\* What this user asks for is a change of a board, and makes no id of the server's.
LEMMA OwnChangeIs ==
    ASSUME NEW i \in Nat \ {0}, NEW c, IsOwnChange(c, i)
    PROVE  /\ BoardChange(c)
           /\ c.kind = "card.created" => c.card.id = -i /\ c.card.columnId \in Nat \ {0}
           /\ c.kind = "column.created" => c.column.id = -i
           /\ c.kind = "card.moved" => IsOwnMove(c)
           /\ c.kind # "card.deleted" /\ c.kind # "card.updated"
           /\ c.kind = "column.deleted" => c.columnId \in Nat \ {0}
<1>1. CASE \E k \in Nat \ {0} : c = [kind |-> "card.created", card |-> NewCard(-i, k)]
  <2>1. PICK k \in Nat \ {0} : c = [kind |-> "card.created", card |-> NewCard(-i, k)]
    BY <1>1
  <2>2. /\ c.kind = "card.created" /\ c.card = [id |-> -i, columnId |-> k, text |-> "made"]
    BY <2>1 DEF NewCard
  <2>3. c.card \in Card /\ c.card.id = -i /\ c.card.columnId = k
    <3>1. -i \in Int /\ k \in Int
      OBVIOUS
    <3>1a. "made" \in Word
      BY DEF Word
    <3>2. [id |-> -i, columnId |-> k, text |-> "made"] \in Card
      BY <3>1, <3>1a DEF Card
    <3>3. c.card = [id |-> -i, columnId |-> k, text |-> "made"]
      BY <2>2
    <3> QED  BY <3>2, <3>3
  <2> QED  BY <2>2, <2>3 DEF BoardChange
<1>2. CASE c = [kind |-> "column.created", column |-> Entry(-i, "made", <<>>)]
  <2>1. c.kind = "column.created" /\ c.column = [id |-> -i, name |-> "made", cards |-> <<>>]
    BY <1>2 DEF Entry
  <2>2. <<>> \in Seq(Card)
    OBVIOUS
  <2>3. c.column \in Column /\ c.column.id = -i /\ c.column.cards = <<>>
    <3>1. -i \in Int
      OBVIOUS
    <3>1a. "made" \in Word
      BY DEF Word
    <3>2. [id |-> -i, name |-> "made", cards |-> <<>>] \in Column
      BY <2>2, <3>1, <3>1a DEF Column
    <3>3. c.column = [id |-> -i, name |-> "made", cards |-> <<>>]
      BY <2>1
    <3> QED  BY <3>2, <3>3
  <2> QED  BY <2>1, <2>3 DEF BoardChange
<1>3. CASE IsOwnMove(c)
  BY <1>3 DEF IsOwnMove, BoardChange
<1>4. CASE \E k \in Nat \ {0} : c = [kind |-> "column.renamed", columnId |-> k, name |-> "mine"]
  <2>1. PICK k \in Nat \ {0} : c = [kind |-> "column.renamed", columnId |-> k, name |-> "mine"]
    BY <1>4
  <2>2. c.kind = "column.renamed" /\ c.name = "mine"
    BY <2>1
  <2>3. c.name \in Word
    BY <2>2 DEF Word
  <2> QED  BY <2>2, <2>3 DEF BoardChange
<1>5. CASE \E k \in Nat \ {0} : c = [kind |-> "column.deleted", columnId |-> k]
  <2>1. PICK k \in Nat \ {0} : c = [kind |-> "column.deleted", columnId |-> k]
    BY <1>5
  <2>2. c.kind = "column.deleted" /\ c.columnId = k
    BY <2>1
  <2> QED  BY <2>2 DEF BoardChange
<1>6. CASE c.kind = "column.moved"
  BY <1>6 DEF BoardChange
<1> QED  BY <1>1, <1>2, <1>3, <1>4, <1>5, <1>6 DEF IsOwnChange

\* Drawn on a fine board it leaves one, with one id more.
LEMMA OwnApplied ==
    ASSUME NEW m \in Nat, NEW k \in Nat \ {0}, NEW s, Fine(s, m, k - 1),
           NEW c, IsOwnChange(c, k)
    PROVE  Fine(ApplyBoardChange(s, c), m, k)
<1> DEFINE t == ApplyBoardChange(s, c)
<1>1. /\ BoardChange(c)
      /\ c.kind = "card.created" => c.card.id = -k /\ c.card.columnId \in Nat \ {0}
      /\ c.kind = "column.created" => c.column.id = -k
      /\ c.kind = "card.moved" => IsOwnMove(c)
  BY OwnChangeIs
<1>2. Sound(s) /\ Aside(s) /\ \A id : OnBoard(s, id) \/ InColumns(s, id) => id \in Drafts(m, k - 1)
  BY DEF Fine, Within
<1>3. -k \notin Drafts(m, k - 1) /\ -k \in Drafts(m, k) /\ Drafts(m, k - 1) \subseteq Drafts(m, k)
  BY DEF Drafts
<1>4. Unmade(s, c)
  BY <1>1, <1>2, <1>3 DEF Unmade
<1>5. Proper(s, c)
  BY <1>1 DEF Proper, IsPendingId, IsOwnMove
<1>6. Sound(t) /\ Gains(t, s, c) /\ Aside(t)
  BY <1>1, <1>2, <1>4, <1>5, ChangedSound, ChangedAside
<1> HIDE DEF t
<1>7. Within(t, Drafts(m, k))
  BY <1>1, <1>2, <1>3, <1>6 DEF Gains, Within
<1>8. Fine(t, m, k)
  BY <1>6, <1>7 DEF Fine
<1> QED  BY <1>8 DEF t

\* A board of what the server made is fine.
LEMMA IssuedFine ==
    ASSUME NEW m \in Nat, NEW s, Sound(s), Within(s, 1..m)
    PROVE  Fine(s, m, 0)
<1>1. /\ DOMAIN s.columns = 1..Len(s.columns)
      /\ \A i \in 1..Len(s.columns) :
             DOMAIN s.columns[i].cards = 1..Len(s.columns[i].cards)
  BY BoardIs DEF Sound
<1>2. s \in BoardType
  BY DEF Sound
<1>3. \A id : OnBoard(s, id) \/ InColumns(s, id) => ~IsPendingId(id) /\ id \in Drafts(m, 0)
  BY DEF Within, Drafts, IsPendingId
<1>4. \A i \in 1..Len(s.columns) :
          /\ ~IsPendingId(s.columns[i].id)
          /\ \A j \in 1..Len(s.columns[i].cards) : ~IsPendingId(s.columns[i].cards[j].id)
  BY <1>2, <1>3, OnBoardIs
<1>5. Aside(s)
  BY <1>1, <1>4 DEF Aside
<1> QED  BY <1>3, <1>5 DEF Fine, Within

\* A move leaves a board fine.
LEMMA MoveApplied ==
    ASSUME NEW m \in Nat, NEW k \in Nat, NEW s, Fine(s, m, k), NEW c, IsOwnMove(c)
    PROVE  Fine(ApplyBoardChange(s, c), m, k)
<1> DEFINE t == ApplyBoardChange(s, c)
<1>1. Sound(s) /\ Aside(s) /\ \A id : OnBoard(s, id) \/ InColumns(s, id) => id \in Drafts(m, k)
  BY DEF Fine, Within
<1>2. c.kind = "card.moved"
  BY DEF IsOwnMove
<1>3. BoardChange(c) /\ Unmade(s, c) /\ Proper(s, c)
  BY <1>2 DEF BoardChange, Unmade, Proper, IsPendingId, IsOwnMove
<1>4. Sound(t) /\ Gains(t, s, c) /\ Aside(t)
  BY <1>1, <1>3, ChangedSound, ChangedAside
<1> HIDE DEF t
<1>5. Within(t, Drafts(m, k))
  BY <1>1, <1>2, <1>4 DEF Gains, Within
<1>6. Fine(t, m, k)
  BY <1>4, <1>5 DEF Fine
<1> QED  BY <1>6 DEF t

-----------------------------------------------------------------------------
(* The layers of the screen. *)

\* What the board is drawn as after each of this user's writes.
Drawing(s, w) == IF w.phase = "over" THEN s ELSE ApplyBoardChange(s, w.change)

OptimisticRuns(run) ==
    /\ run[0] = Live /\ run[Len(writes)] = Optimistic
    /\ \A k \in 1..Len(writes) : run[k] = Drawing(run[k - 1], writes[k])
    /\ \A k \in 0..Len(writes) : Fine(run[k], made, k)

\* The writes are drawn one by one on the live board.
LEMMA OptimisticRun ==
    ASSUME made \in Nat, Sound(Live), Within(Live, 1..made), Listed(writes),
           \A i \in DOMAIN writes : IsOwnChange(writes[i].change, i)
    PROVE  \E run : OptimisticRuns(run)
<1> DEFINE n == Len(writes)
           Y == [k \in 0..n |-> {u \in BoardType : Fine(u, made, k)}]
           step == [x \in Y[n] \X (1..n) |-> Drawing(x[1], writes[x[2]])]
           Folded(f) == f = [I \in SUBSET (1..n) |->
                             IF I = {} THEN Live
                             ELSE Drawing(f[I \ {Max(I)}], writes[Max(I)])]
           g == CHOOSE f : Folded(f)
<1>1. n \in Nat /\ DOMAIN writes = 1..n
  BY ListedIs
<1>2. Optimistic = g[1..n]
  BY <1>1 DEF Optimistic, FoldLeft, MapThenFoldSet, Drawing
<1>3. ASSUME NEW k \in 0..n, NEW u
      PROVE  u \in Y[k] <=> Fine(u, made, k)
  BY DEF Fine, Sound
<1> HIDE DEF Y, n
<1>4. Live \in Y[0]
  BY <1>1, <1>3, IssuedFine
<1>5. ASSUME NEW k \in 1..n
      PROVE  /\ Y[k - 1] \subseteq Y[k]
             /\ \A u \in Y[k - 1] : Drawing(u, writes[k]) \in Y[k]
  <2>1. k - 1 \in 0..n /\ k \in 0..n /\ k \in Nat \ {0}
    BY <1>1
  <2>2. Drafts(made, k - 1) \subseteq Drafts(made, k)
    BY <2>1 DEF Drafts
  <2>3. ASSUME NEW u \in Y[k - 1]
        PROVE  u \in Y[k] /\ Drawing(u, writes[k]) \in Y[k]
    <3>1. Fine(u, made, k - 1)
      BY <1>3, <2>1, <2>3
    <3>2. Fine(u, made, k)
      BY <2>2, <3>1 DEF Fine, Within
    <3>3. Fine(ApplyBoardChange(u, writes[k].change), made, k)
      BY <1>1, <2>1, <3>1, OwnApplied
    <3>4. Fine(Drawing(u, writes[k]), made, k)
      BY <3>2, <3>3 DEF Drawing
    <3> QED  BY <1>3, <2>1, <3>2, <3>4
  <2> QED  BY <2>3
<1>6. \A k \in 0..n : Y[k] \subseteq Y[n]
  <2>1. ASSUME NEW k \in 0..n, NEW u \in Y[k]
        PROVE  u \in Y[n]
    <3>1. Fine(u, made, k)
      BY <1>3, <2>1
    <3>2. Drafts(made, k) \subseteq Drafts(made, n)
      BY <1>1 DEF Drafts
    <3>3. Fine(u, made, n) /\ n \in 0..n
      BY <1>1, <3>1, <3>2 DEF Fine, Within
    <3> QED  BY <1>3, <3>3
  <2> QED  BY <2>1
<1>6a. \A k \in 1..n : k - 1 \in 0..n /\ k \in 0..n
  BY <1>1
<1>7. ASSUME NEW k \in 1..n, NEW u \in Y[n]
      PROVE  step[<<u, k>>] = Drawing(u, writes[k])
  OBVIOUS
<1> HIDE DEF step
<1>8. Grows(Y, n, Live, step)
  <2>1. ASSUME NEW k \in 1..n, NEW u \in Y[k - 1]
        PROVE  step[<<u, k>>] \in Y[k]
    <3>1. u \in Y[n]
      BY <1>6, <1>6a, <2>1
    <3> QED  BY <1>5, <1>7, <2>1, <3>1
  <2> QED  BY <1>4, <1>5, <1>6, <1>6a, <2>1 DEF Grows
<1>9. Folded(g)
  <2>1. PICK f \in [SUBSET (1..n) -> Y[n]] : IsFold(f, n, Live, step)
    BY <1>1, <1>8, FoldGrows
  <2>2. ASSUME NEW I \in SUBSET (1..n), I # {}
        PROVE  f[I] = Drawing(f[I \ {Max(I)}], writes[Max(I)])
    <3>1. Max(I) \in 1..n
      BY <1>1, <2>2, MaxOfIndices
    <3>2. f[I \ {Max(I)}] \in Y[n]
      BY <2>1
    <3>3. f[I] = step[<<f[I \ {Max(I)}], Max(I)>>]
      BY <2>1, <2>2 DEF IsFold
    <3> QED  BY <1>7, <3>1, <3>2, <3>3
  <2>3. f[{}] = Live
    BY <2>1 DEF IsFold
  <2>4. Folded(f)
    BY <2>1, <2>2, <2>3
  <2> QED  BY <2>4
<1> HIDE DEF g
<1>10. FoldsWithin(g, Y[n], n, Live, step)
  <2>1. ASSUME NEW I \in SUBSET (1..n), I # {}, g[I \ {Max(I)}] \in Y[n]
        PROVE  g[I] = step[<<g[I \ {Max(I)}], Max(I)>>]
    <3>1. Max(I) \in 1..n
      BY <1>1, <2>1, MaxOfIndices
    <3>2. g[I] = Drawing(g[I \ {Max(I)}], writes[Max(I)])
      BY <1>9, <2>1
    <3> QED  BY <1>7, <2>1, <3>1, <3>2
  <2>2. g[{}] = Live
    BY <1>9
  <2> QED  BY <2>1, <2>2 DEF FoldsWithin
<1>11. PICK run : /\ IsRun(run, n, Live, step, g[1..n])
                  /\ \A k \in 0..n : run[k] \in Y[k]
  BY <1>1, <1>8, <1>10, RunGrows
<1>12. \A k \in 1..n : run[k] = Drawing(run[k - 1], writes[k])
  BY <1>6, <1>6a, <1>7, <1>11 DEF IsRun
<1>13. \A k \in 0..n : Fine(run[k], made, k)
  BY <1>3, <1>11
<1> QED  BY <1>2, <1>11, <1>12, <1>13 DEF OptimisticRuns, IsRun, n

\* The proposal is drawn on top.
LEMMA ShownIs ==
    /\ hand.proposal = <<>> => Shown = Optimistic
    /\ \A move : hand.proposal = <<move>> => Shown = ApplyBoardChange(Optimistic, move)
<1> DEFINE q == hand.proposal
           n == Len(q)
           Folded(f) == f = [I \in SUBSET (1..n) |->
                             IF I = {} THEN Optimistic
                             ELSE ApplyBoardChange(f[I \ {Max(I)}], q[Max(I)])]
           g == CHOOSE f : Folded(f)
<1>1. ASSUME DOMAIN q = 1..n
      PROVE  Shown = g[1..n]
  BY <1>1 DEF Shown, FoldLeft, MapThenFoldSet
<1>2. ASSUME q = <<>>
      PROVE  Shown = Optimistic
  <2>1. n = 0 /\ DOMAIN q = 1..n /\ 1..n = {}
    BY <1>2
  <2>2. \E f : Folded(f)
    <3> DEFINE f == [I \in SUBSET (1..n) |-> Optimistic]
    <3>1. Folded(f)
      BY <2>1
    <3> QED  BY <3>1
  <2>3. Folded(g)
    BY <2>2
  <2>4. g[{}] = Optimistic
    <3> HIDE DEF g
    <3> QED  BY <2>1, <2>3
  <2> QED  BY <1>1, <2>1, <2>4
<1>3. ASSUME NEW move, q = <<move>>
      PROVE  Shown = ApplyBoardChange(Optimistic, move)
  <2>1. n = 1 /\ DOMAIN q = 1..n /\ 1..n = {1} /\ q[1] = move
    BY <1>3
  <2>2. SUBSET (1..n) = {{}, {1}} /\ {1} # {} /\ Max({1}) = 1 /\ {1} \ {1} = {}
    <3>1. {1} \in SUBSET (1..1) /\ {1} # {} /\ 1 \in Nat
      OBVIOUS
    <3>2. Max({1}) \in {1}
      BY <3>1, MaxOfIndices
    <3> QED  BY <2>1, <3>2
  <2> HIDE DEF n, q
  <2>3. \E f : Folded(f)
    <3> DEFINE f == [I \in SUBSET (1..n) |->
                       IF I = {} THEN Optimistic ELSE ApplyBoardChange(Optimistic, move)]
    <3>1. f[{}] = Optimistic
      BY <2>2
    <3>2. ASSUME NEW I \in SUBSET (1..n), I # {}
          PROVE  f[I] = ApplyBoardChange(f[I \ {Max(I)}], q[Max(I)])
      <4>1. I = {1}
        BY <2>2, <3>2
      <4>2. f[I] = ApplyBoardChange(Optimistic, move)
        BY <3>2
      <4> HIDE DEF f
      <4> QED  BY <2>1, <2>2, <3>1, <4>1, <4>2
    <3>3. f = [I \in SUBSET (1..n) |-> f[I]]
      OBVIOUS
    <3> HIDE DEF f
    <3>4. Folded(f)
      BY <3>1, <3>2, <3>3
    <3> QED  BY <3>4
  <2>4. Folded(g)
    BY <2>3
  <2> HIDE DEF g
  <2>5. g[{}] = Optimistic
    BY <2>2, <2>4
  <2>6. g[{1}] = ApplyBoardChange(g[{}], q[1])
    BY <2>2, <2>4
  <2> QED  BY <1>1, <2>1, <2>5, <2>6
<1> QED  BY <1>2, <1>3

-----------------------------------------------------------------------------
(* What the layers of a screen are made of. *)

\* The database has every card in its own column and every id once.
Rows ==
    /\ made \in Nat /\ FirstMade <= made
    /\ Sound(truth) /\ truth.unplaced = <<>> /\ Within(truth, 1..made)

\* What is said of the board, on its way and in the log.
Told ==
    /\ \A u \in unpublished : IsEvent(u.event, made)
    /\ Listed(wire) /\ \A k \in DOMAIN wire : wire[k] = Resubscribed \/ IsEvent(wire[k], made)
    /\ Listed(live.log) /\ \A k \in DOMAIN live.log : IsEvent(live.log[k].event, made)

IsListOf(list, T, m) ==
    list \in Seq(T) /\ Distinct(list) /\ \A k \in 1..Len(list) : list[k].id \in 1..m

\* What is read of it: the reads behind the first have nothing yet.
Lists ==
    /\ Sound(snapshot) /\ Within(snapshot, 1..made)
    /\ \A r \in DOMAIN reads :
        /\ \A list \in reads[r].columns : IsListOf(list, Listing, made)
        /\ \A list \in reads[r].cards : IsListOf(list, Card, made)
        /\ r # 1 => reads[r].columns = {} /\ reads[r].cards = {}

\* What this user asks of it.
Asked ==
    /\ \A i \in DOMAIN writes : IsOwnChange(writes[i].change, i)
    /\ \A k \in DOMAIN hand.proposal : IsOwnMove(hand.proposal[k])

\* An event of the log is of a read that is not over, or a read of it is due.
Stamped ==
    /\ DOMAIN live = {"log", "readsStarted", "timer"}
    /\ live.readsStarted \in Nat /\ live.timer \in BOOLEAN
    /\ \A k \in DOMAIN live.log : LET stamp == live.log[k].stamp IN
           /\ stamp \in Nat /\ stamp <= live.readsStarted
           /\ stamp = live.readsStarted => live.timer
    /\ live.log # <<>> => live.timer \/ reads # <<>>

\* A read that has of the board what it is.
Current(r) == r.columns \subseteq {ListColumns(truth)} /\ r.cards \subseteq {ListCards(truth)}

\* Either the screen was last rendered from the board as it is, or something is on its way
\* that ends in a read.
Fresh ==
    \/ missed \/ unpublished # {} \/ wire # <<>> \/ live.timer
    \/ reads # <<>> /\ Current(reads[Len(reads)])
    \/ reads = <<>> /\ snapshot = truth

\* More ids given out take nothing back.
LEMMA EventStays ==
    ASSUME NEW m \in Nat, NEW n \in Nat, m <= n, NEW e, IsEvent(e, m)
    PROVE  IsEvent(e, n)
<1>1. \A id \in 1..m : id \in 1..n
  OBVIOUS
<1> QED  BY <1>1 DEF IsEvent

\* The same of a board,
LEMMA WithinStays ==
    ASSUME NEW m \in Nat, NEW n \in Nat, m <= n, NEW s, Within(s, 1..m)
    PROVE  Within(s, 1..n)
<1>1. \A id \in 1..m : id \in 1..n
  OBVIOUS
<1> QED  BY <1>1 DEF Within

\* and of a list.
LEMMA ListStays ==
    ASSUME NEW m \in Nat, NEW n \in Nat, m <= n, NEW list, NEW T, IsListOf(list, T, m)
    PROVE  IsListOf(list, T, n)
<1>1. \A id \in 1..m : id \in 1..n
  OBVIOUS
<1> QED  BY <1>1 DEF IsListOf

-----------------------------------------------------------------------------
(* What is on screen. *)

\* The events drawn on what was read give a sound board.
LEMMA LiveFine ==
    ASSUME Rows, Told, Lists
    PROVE  Sound(Live) /\ Within(Live, 1..made)
<1> DEFINE log == live.log
           events == [i \in DOMAIN log |-> log[i].event]
<1>1. Listed(log) /\ Len(log) \in Nat /\ DOMAIN log = 1..Len(log)
  BY ListedIs DEF Told
<1>2. DOMAIN events = 1..Len(log) /\ events = [i \in 1..Len(log) |-> events[i]]
  BY <1>1
<1>3. Listed(events) /\ Len(events) = Len(log)
  <2> HIDE DEF events, log
  <2> QED  BY <1>1, <1>2, ListedOf
<1>4. \A k \in DOMAIN events : IsEvent(events[k], made)
  BY DEF Told
<1>5. Live = ApplyLiveLog(snapshot, events)
  BY DEF Live
<1> HIDE DEF events, log
<1>6. PICK run : LiveRuns(run, snapshot, events, made)
  BY <1>3, <1>4, LiveRun DEF Rows, Lists
<1>7. Len(events) \in 0..Len(events)
  BY <1>1, <1>3
<1> QED  BY <1>5, <1>6, <1>7 DEF LiveRuns

\* What may be proposed.
Offers(p) == p = <<>> \/ \E move : p = <<move>> /\ IsOwnMove(move)

\* The hand proposes at most one move.
LEMMA ProposalIs ==
    ASSUME Recorded, Held, Asked
    PROVE  Offers(hand.proposal)
<1>1. PICK p : p = hand.proposal
  OBVIOUS
<1>2. Listed(p) /\ Len(p) <= 1 /\ \A k \in DOMAIN p : IsOwnMove(p[k])
  BY <1>1 DEF Recorded, Held, Asked
<1>3. p = <<>> \/ \E move : p = <<move>> /\ IsOwnMove(move)
  <2>1. PICK n \in Nat : n = Len(p) /\ DOMAIN p = 1..n /\ p = [k \in 1..n |-> p[k]]
    BY <1>2, ListedIs
  <2>2. CASE n = 0
    BY <2>1, <2>2
  <2>3. CASE n = 1
    <3>1. PICK S : p \in Seq(S)
      BY <1>2 DEF Listed
    <3>2. p = <<p[1]>> /\ 1 \in DOMAIN p
      BY <2>1, <2>3, <3>1
    <3> QED  BY <1>2, <3>2
  <2> QED  BY <1>2, <2>1, <2>2, <2>3
<1> QED  BY <1>1, <1>3 DEF Offers

\* So the screen is fine, with the writes drawn on it and with the proposal.
LEMMA ScreenFine ==
    ASSUME Recorded, Held, Rows, Told, Lists, Asked
    PROVE  /\ \E run : OptimisticRuns(run)
           /\ Fine(Optimistic, made, Len(writes)) /\ Fine(Shown, made, Len(writes))
<1>1. Sound(Live) /\ Within(Live, 1..made)
  BY LiveFine
<1>2. Listed(writes) /\ Len(writes) \in Nat /\ made \in Nat
  BY ListedIs DEF Recorded, Rows
<1>3. PICK run : OptimisticRuns(run)
  BY <1>1, <1>2, OptimisticRun DEF Asked
<1>4. Fine(Optimistic, made, Len(writes))
  <2>1. Len(writes) \in 0..Len(writes)
    BY <1>2
  <2> QED  BY <1>3, <2>1 DEF OptimisticRuns
<1>5. PICK p : p = hand.proposal
  OBVIOUS
<1>7. p = <<>> \/ \E move : p = <<move>> /\ IsOwnMove(move)
  BY <1>5, ProposalIs DEF Offers
<1>8. Fine(Shown, made, Len(writes))
  <2>1. CASE p = <<>>
    BY <1>4, <1>5, <2>1, ShownIs
  <2>2. ASSUME NEW move, p = <<move>>, IsOwnMove(move)
        PROVE  Fine(Shown, made, Len(writes))
    <3>1. Shown = ApplyBoardChange(Optimistic, move)
      BY <1>5, <2>2, ShownIs
    <3>2. Fine(ApplyBoardChange(Optimistic, move), made, Len(writes))
      BY <1>2, <1>4, <2>2, MoveApplied
    <3> QED  BY <3>1, <3>2
  <2> QED  BY <1>7, <2>1, <2>2
<1> QED  BY <1>3, <1>4, <1>8

-----------------------------------------------------------------------------
(* Where a gesture puts a card: nothing it names is pending. *)

\* anchorAt: the last acknowledged card up to there, or none.
LEMMA AnchorIs ==
    ASSUME NEW v, Len(v) \in Nat, NEW n \in Int
    PROVE  \/ /\ AnchorAt(v, n) = First
              /\ \A j \in 1..Len(v) : j <= n => IsPendingId(v[j].id)
           \/ \E a \in 1..Len(v) :
                  /\ a <= n /\ AnchorAt(v, n) = v[a].id /\ ~IsPendingId(v[a].id)
                  /\ \A j \in 1..Len(v) : a < j /\ j <= n => IsPendingId(v[j].id)
<1> DEFINE most == IF n < Len(v) THEN n ELSE Len(v)
           I == {i \in 1..most : ~IsPendingId(v[i].id)}
           at == IF I # {} THEN Max(I) ELSE 0
<1>1. AnchorAt(v, n) = IF at = 0 THEN First ELSE v[at].id
  BY DEF AnchorAt, SelectLastInSubSeq
<1>2. \A j : j \in 1..most <=> j \in 1..Len(v) /\ j <= n
  OBVIOUS
<1>2a. \A j \in 1..Len(v) : j <= n => j \in I \/ IsPendingId(v[j].id)
  BY <1>2
<1> HIDE DEF most
<1>3. CASE I = {}
  BY <1>1, <1>2a, <1>3
<1>4. CASE I # {}
  <2>1. I \in SUBSET (1..Len(v))
    BY <1>2
  <2>2. Max(I) \in I /\ \A y \in I : y <= Max(I)
    <3> HIDE DEF I
    <3> QED  BY <1>4, <2>1, MaxOfIndices
  <2>3. PICK a \in I : a = Max(I)
    BY <2>2
  <2>4. a \in 1..Len(v) /\ a <= n /\ ~IsPendingId(v[a].id)
    BY <1>2
  <2>5. AnchorAt(v, n) = v[a].id
    BY <1>1, <1>4, <2>3, <2>4
  <2>6. ASSUME NEW j \in 1..Len(v), a < j, j <= n
        PROVE  IsPendingId(v[j].id)
    <3> HIDE DEF I
    <3>1. j \notin I
      BY <2>2, <2>3, <2>4, <2>6
    <3> QED  BY <1>2a, <2>6, <3>1
  <2> QED  BY <2>4, <2>5, <2>6
<1> QED  BY <1>3, <1>4

\* The column next to one, past those that are pending.
LEMMA NeighbourIs ==
    ASSUME NEW s \in BoardType, NEW from \in 1..Len(s.columns), NEW direction,
           Neighbour(s, from, direction) # 0
    PROVE  /\ Neighbour(s, from, direction) \in 1..Len(s.columns)
           /\ ~IsPendingId(s.columns[Neighbour(s, from, direction)].id)
<1>0. PICK n \in Nat : n = Len(s.columns)
  BY BoardIs
<1> DEFINE L == {i \in 1..(from - 1) : ~IsPendingId(s.columns[i].id)}
           R == {i \in (from + 1)..n : ~IsPendingId(s.columns[i].id)}
<1>1. Neighbour(s, from, direction) =
          IF direction = "left" THEN IF L # {} THEN Max(L) ELSE 0
          ELSE IF R # {} THEN Min(R) ELSE 0
  BY <1>0 DEF Neighbour, SelectLastInSubSeq, SelectInSubSeq
<1>2. from \in 1..n
  BY <1>0
<1>3. \A i \in L : i \in 1..n /\ ~IsPendingId(s.columns[i].id)
  BY <1>2
<1>4. \A i \in R : i \in 1..n /\ ~IsPendingId(s.columns[i].id)
  BY <1>2
<1> HIDE DEF L, R
<1>5. L # {} => Max(L) \in L
  BY <1>3, MaxOfIndices
<1>6. R # {} => Min(R) \in R
  BY <1>4, MinOfIndices
<1> QED  BY <1>0, <1>1, <1>3, <1>4, <1>5, <1>6

\* What is acknowledged has an id of the server, and so has the column of a card.
LEMMA Acknowledged ==
    ASSUME NEW m \in Nat, NEW k \in Nat, NEW s, Fine(s, m, k), NEW i \in 1..Len(s.columns)
    PROVE  /\ ~IsPendingId(s.columns[i].id) => s.columns[i].id \in Nat \ {0}
           /\ \A j \in 1..Len(s.columns[i].cards) :
                  /\ s.columns[i].id \in Nat \ {0}
                  /\ ~IsPendingId(s.columns[i].cards[j].id) =>
                         s.columns[i].cards[j].id \in Nat \ {0}
<1>1. /\ s \in BoardType /\ Aside(s)
      /\ \A id : OnBoard(s, id) \/ InColumns(s, id) => id \in Drafts(m, k)
  BY DEF Fine, Sound, Within
<1>2. /\ i \in DOMAIN s.columns /\ Len(s.columns[i].cards) \in Nat
      /\ DOMAIN s.columns[i].cards = 1..Len(s.columns[i].cards)
  BY <1>1, BoardIs
<1>3. \A id \in Drafts(m, k) : ~IsPendingId(id) => id \in Nat \ {0}
  BY DEF Drafts, IsPendingId
<1>4. ~IsPendingId(s.columns[i].id) => s.columns[i].id \in Nat \ {0}
  <2>1. InColumns(s, s.columns[i].id)
    BY <1>2 DEF InColumns
  <2> QED  BY <1>1, <1>3, <2>1
<1>5. ASSUME NEW j \in 1..Len(s.columns[i].cards)
      PROVE  /\ s.columns[i].id \in Nat \ {0}
             /\ ~IsPendingId(s.columns[i].cards[j].id) => s.columns[i].cards[j].id \in Nat \ {0}
  <2>1. OnBoard(s, s.columns[i].cards[j].id)
    BY <1>2 DEF OnBoard
  <2>2. s.columns[i].cards # <<>>
    BY <1>2
  <2>3. ~IsPendingId(s.columns[i].id)
    BY <1>1, <1>2, <2>2 DEF Aside
  <2> QED  BY <1>1, <1>3, <1>4, <2>1, <2>3
<1> QED  BY <1>4, <1>5

\* So an anchor has an id of the server, or is none.
LEMMA Anchored ==
    ASSUME NEW m \in Nat, NEW k \in Nat, NEW s, Fine(s, m, k), NEW i \in 1..Len(s.columns),
           NEW u \in Seq(Card), CardsFrom(u, s.columns[i].cards), NEW n \in Int
    PROVE  AnchorAt(u, n) \in Nat
<1>1. \/ AnchorAt(u, n) = First
      \/ \E a \in 1..Len(u) : AnchorAt(u, n) = u[a].id /\ ~IsPendingId(u[a].id)
  <2>1. Len(u) \in Nat
    OBVIOUS
  <2> QED  BY <2>1, AnchorIs
<1>2. ASSUME NEW a \in 1..Len(u), AnchorAt(u, n) = u[a].id, ~IsPendingId(u[a].id)
      PROVE  AnchorAt(u, n) \in Nat
  <2>1. PICK b \in 1..Len(s.columns[i].cards) : u[a].id = s.columns[i].cards[b].id
    BY DEF CardsFrom
  <2>2. ~IsPendingId(s.columns[i].cards[b].id)
    BY <1>2, <2>1
  <2>3. s.columns[i].cards[b].id \in Nat \ {0}
    BY <2>2, Acknowledged
  <2> QED  BY <1>2, <2>1, <2>3
<1> QED  BY <1>1, <1>2 DEF First

\* A key that moves a card asks for a move of what the server has.
LEMMA NudgeIs ==
    ASSUME NEW m \in Nat, NEW k \in Nat, NEW s, Fine(s, m, k), NEW id \in Nat \ {0},
           NEW direction, NEW move \in CardNudge(s, id, direction)
    PROVE  IsOwnMove(move)
<1>1. s \in BoardType
  BY DEF Fine, Sound
<1>2. PICK from : from = ColumnOf(s, id)
  OBVIOUS
<1>3. PICK index : index = IndexOf(s.columns[from].cards, id)
  OBVIOUS
<1>4. from # 0
  BY <1>2 DEF CardNudge
<1>5. /\ from \in 1..Len(s.columns) /\ index \in 1..Len(s.columns[from].cards)
      /\ s.columns[from].cards \in Seq(Card) /\ Len(s.columns[from].cards) \in Nat
  BY <1>1, <1>2, <1>3, <1>4, ColumnOfIs, BoardIs
<1>6. PICK rest \in Seq(Card) : /\ rest = Without(s.columns[from].cards, id)
                                /\ CardsFrom(rest, s.columns[from].cards)
  BY <1>5, WithoutIs
<1>7. PICK row \in Int : row = IF direction = "up" THEN index - 1 ELSE index + 1
  BY <1>5
<1>8. PICK to : to = Neighbour(s, from, direction)
  OBVIOUS
<1>9. \/ move = CardMove(id, s.columns[from].id, AnchorAt(rest, row - 1))
      \/ to # 0 /\ move = CardMove(id, s.columns[to].id, AnchorAt(s.columns[to].cards, index - 1))
  BY <1>2, <1>3, <1>4, <1>6, <1>7, <1>8 DEF CardNudge
<1>10. CASE move = CardMove(id, s.columns[from].id, AnchorAt(rest, row - 1))
  <2>1. PICK n \in Int : n = row - 1
    OBVIOUS
  <2>1a. AnchorAt(rest, n) \in Nat
    BY <1>5, <1>6, Anchored
  <2>2. s.columns[from].id \in Nat \ {0}
    BY <1>5, Acknowledged
  <2> QED  BY <1>10, <2>1, <2>1a, <2>2 DEF CardMove, IsOwnMove
<1>11. CASE /\ to # 0
            /\ move = CardMove(id, s.columns[to].id, AnchorAt(s.columns[to].cards, index - 1))
  <2>1. to \in 1..Len(s.columns) /\ ~IsPendingId(s.columns[to].id)
    BY <1>1, <1>5, <1>8, <1>11, NeighbourIs
  <2>2. s.columns[to].cards \in Seq(Card) /\ CardsFrom(s.columns[to].cards, s.columns[to].cards)
    BY <1>1, <2>1, BoardIs, CardsSame
  <2>3. PICK n \in Int : n = index - 1
    BY <1>5
  <2>3a. AnchorAt(s.columns[to].cards, n) \in Nat
    BY <2>1, <2>2, Anchored
  <2>4. s.columns[to].id \in Nat \ {0}
    BY <2>1, Acknowledged
  <2> QED  BY <1>11, <2>3, <2>3a, <2>4 DEF CardMove, IsOwnMove
<1> QED  BY <1>9, <1>10, <1>11

\* And so does a drop.
LEMMA DropIs ==
    ASSUME NEW m \in Nat, NEW k \in Nat, NEW s, Fine(s, m, k), NEW id \in Nat \ {0},
           NEW over, NEW past, NEW move \in CardDropTarget(s, id, over, past)
    PROVE  IsOwnMove(move)
<1>1. s \in BoardType
  BY DEF Fine, Sound
<1>2. PICK to : to = IF over.kind = "column" THEN IndexOf(s.columns, over.id)
                     ELSE ColumnOf(s, over.id)
  OBVIOUS
<1>3. to # 0 /\ ~IsPendingId(s.columns[to].id)
  BY <1>2 DEF CardDropTarget
<1>4. /\ to \in 1..Len(s.columns) /\ Len(s.columns) \in Nat
      /\ s.columns[to].cards \in Seq(Card) /\ Len(s.columns[to].cards) \in Nat
  BY <1>1, <1>2, <1>3, ColumnOfIs, IndexIs, BoardIs
<1>5. PICK rest \in Seq(Card) : /\ rest = Without(s.columns[to].cards, id)
                                /\ CardsFrom(rest, s.columns[to].cards)
  BY <1>4, WithoutIs
<1>6. \E n \in Int : move = CardMove(id, s.columns[to].id, AnchorAt(rest, n))
  <2> DEFINE below == IF ColumnOf(s, id) = to
                      THEN IndexOf(s.columns[to].cards, id) < IndexOf(s.columns[to].cards, over.id)
                      ELSE past
             n == IF over.kind = "column" THEN Len(rest)
                  ELSE IndexOf(rest, over.id) - (IF below THEN 0 ELSE 1)
  <2>1. move = CardMove(id, s.columns[to].id, AnchorAt(rest, n))
    BY <1>2, <1>5 DEF CardDropTarget
  <2>2. n \in Int
    <3>1. Len(rest) \in Nat
      OBVIOUS
    <3>2. IndexOf(rest, over.id) \in Int
      BY <3>1, IndexIs
    <3> QED  BY <3>1, <3>2
  <2> QED  BY <2>1, <2>2
<1>7. PICK n \in Int : move = CardMove(id, s.columns[to].id, AnchorAt(rest, n))
  BY <1>6
<1>8. AnchorAt(rest, n) \in Nat
  BY <1>4, <1>5, Anchored
<1>9. s.columns[to].id \in Nat \ {0}
  BY <1>3, <1>4, Acknowledged
<1> QED  BY <1>7, <1>8, <1>9 DEF CardMove, IsOwnMove

-----------------------------------------------------------------------------
(* What this user and others ask for. *)

\* A column that can be edited has an id of the server.
LEMMA SettledIs ==
    ASSUME NEW m \in Nat, NEW k \in Nat, NEW s, Fine(s, m, k), NEW id \in SettledColumns(s)
    PROVE  id \in Nat \ {0}
<1>1. s \in BoardType /\ DOMAIN s.columns = 1..Len(s.columns)
  BY BoardIs DEF Fine, Sound
<1>2. PICK i \in 1..Len(s.columns) : id = s.columns[i].id
  BY <1>1 DEF SettledColumns, ToSet
<1>3. ~IsPendingId(s.columns[i].id)
  BY <1>2 DEF SettledColumns
<1> QED  BY <1>2, <1>3, Acknowledged

\* What is made, renamed or deleted with the form is an own change.
LEMMA ComposedIs ==
    ASSUME NEW m \in Nat, Len(writes) \in Nat, Fine(Shown, m, Len(writes)), NEW c \in Composed
    PROVE  IsOwnChange(c, Len(writes) + 1)
<1> DEFINE id == -(Len(writes) + 1)
<1>1. \/ \E k \in SettledColumns(Shown) : c = [kind |-> "card.created", card |-> NewCard(id, k)]
      \/ c = [kind |-> "column.created", column |-> Entry(id, "made", <<>>)]
  BY DEF Composed
<1>2. \A k \in SettledColumns(Shown) : k \in Nat \ {0}
  BY SettledIs
<1> QED  BY <1>1, <1>2 DEF IsOwnChange

\* And so is moving a column.
LEMMA ArrangedIs ==
    ASSUME NEW m \in Nat, Len(writes) \in Nat, Fine(Shown, m, Len(writes)), NEW c \in Arranged,
           NEW i
    PROVE  IsOwnChange(c, i)
<1>1. ASSUME NEW cs, NEW k, NEW d, NEW a \in MoveAnchor(cs, k, d)
      PROVE  a.kind = "column.moved"
  BY <1>1 DEF MoveAnchor
<1>2. PICK k \in SettledColumns(Shown) :
          \/ \E n \in {"mine"} : c = [kind |-> "column.renamed", columnId |-> k, name |-> n]
          \/ c = [kind |-> "column.deleted", columnId |-> k]
          \/ c.kind = "column.moved"
  BY <1>1 DEF Arranged
<1>3. k \in Nat \ {0}
  BY SettledIs
<1> QED  BY <1>2, <1>3 DEF IsOwnChange

\* What may be committed with m ids given out.
IsCommit(c, m) ==
    \/ c.kind = "board.updated"
    \/ \E k \in Int, name \in Word :
           c = [kind |-> "column.renamed", columnId |-> k, name |-> name]
    \/ /\ BoardChange(c) /\ c.kind # "column.renamed" /\ c.kind # "board.updated"
       /\ c.kind = "card.created" => c.card.id = m + 1
       /\ c.kind = "column.created" => c.column.id = m + 1

\* A new card is a change of a board,
LEMMA CardMadeIs ==
    ASSUME NEW id \in Int, NEW k \in Int, NEW c,
           c = [kind |-> "card.created", card |-> NewCard(id, k)]
    PROVE  /\ BoardChange(c) /\ c.kind = "card.created"
           /\ c.card = NewCard(id, k) /\ c.card.id = id /\ c.card.columnId = k
<1>1. c.kind = "card.created" /\ c.card = NewCard(id, k)
  OBVIOUS
<1>2. "made" \in Word
  BY DEF Word
<1>3. NewCard(id, k) \in Card /\ NewCard(id, k).id = id /\ NewCard(id, k).columnId = k
  BY <1>2 DEF NewCard, Card
<1> HIDE DEF NewCard
<1> QED  BY <1>1, <1>3 DEF BoardChange

\* and so is a new column.
LEMMA ColumnMadeIs ==
    ASSUME NEW id \in Int, NEW c,
           c = [kind |-> "column.created", column |-> Entry(id, "made", <<>>)]
    PROVE  BoardChange(c) /\ c.kind = "column.created" /\ c.column.id = id
<1>1. c.kind = "column.created" /\ c.column = Entry(id, "made", <<>>)
  OBVIOUS
<1>2. "made" \in Word
  BY DEF Word
<1>2a. <<>> \in Seq(Card)
  OBVIOUS
<1>3. /\ Entry(id, "made", <<>>) \in Column /\ Entry(id, "made", <<>>).id = id
      /\ Entry(id, "made", <<>>).cards = <<>>
  BY <1>2, <1>2a DEF Entry, Column
<1> QED  BY <1>1, <1>3 DEF BoardChange

\* What others do to the board can be committed.
LEMMA EditsAre ==
    ASSUME Rows, NEW c \in Edits
    PROVE  IsCommit(c, made)
<1>0. made + 1 \in Int /\ \A k \in {e.id : e \in ToSet(truth.columns)} : k \in Int
  <2>1. truth \in BoardType /\ DOMAIN truth.columns = 1..Len(truth.columns)
    BY BoardIs DEF Rows, Sound
  <2>2. \A i \in 1..Len(truth.columns) : truth.columns[i].id \in Int
    BY <2>1, BoardIs
  <2> QED  BY <2>1, <2>2 DEF ToSet, Rows
<1>1. ASSUME NEW cs, NEW k, NEW d, NEW a \in MoveAnchor(cs, k, d)
      PROVE  a.kind = "column.moved"
  BY <1>1 DEF MoveAnchor
<1>2. ASSUME NEW k, NEW d, NEW a \in CardNudge(truth, k, d)
      PROVE  a.kind = "card.moved"
  BY <1>2, NudgeMoves DEF IsMoveOf
<1> DEFINE columns == {e.id : e \in ToSet(truth.columns)}
           cards == CardsOf(truth) \cap OtherCards
<1>2a. \/ \E k \in cards : \E d \in Direction : c \in CardNudge(truth, k, d)
       \/ \E k \in columns : c \in MoveAnchor(truth.columns, k, "left")
       \/ \E k \in columns : c = [kind |-> "card.created", card |-> NewCard(made + 1, k)]
       \/ \E k \in cards : c = [kind |-> "card.updated", cardId |-> k, text |-> "edited"]
       \/ \E k \in cards : c = [kind |-> "card.deleted", cardId |-> k]
       \/ c = [kind |-> "column.created", column |-> Entry(made + 1, "made", <<>>)]
       \/ \E k \in columns : c = [kind |-> "column.renamed", columnId |-> k, name |-> "renamed"]
       \/ \E k \in columns : c = [kind |-> "column.deleted", columnId |-> k]
       \/ c = [kind |-> "board.updated"]
  <2> DEFINE nudges == UNION {CardNudge(truth, k, d) : k \in cards, d \in Direction}
             anchors == UNION {MoveAnchor(truth.columns, k, "left") : k \in columns}
             created == {[kind |-> "card.created", card |-> NewCard(made + 1, k)] : k \in columns}
             updated == {[kind |-> "card.updated", cardId |-> k, text |-> "edited"] : k \in cards}
             deleted == {[kind |-> "card.deleted", cardId |-> k] : k \in cards}
             renamed == {[kind |-> "column.renamed", columnId |-> k, name |-> "renamed"]
                            : k \in columns}
             removed == {[kind |-> "column.deleted", columnId |-> k] : k \in columns}
  <2>1. \/ c \in nudges \/ c \in anchors \/ c \in created \/ c \in updated \/ c \in deleted
        \/ c \in renamed \/ c \in removed \/ c = [kind |-> "board.updated"]
        \/ c = [kind |-> "column.created", column |-> Entry(made + 1, "made", <<>>)]
    <3>1. c \in nudges \cup anchors \cup created \cup updated \cup deleted
               \cup {[kind |-> "column.created", column |-> Entry(made + 1, "made", <<>>)]}
               \cup renamed \cup removed \cup {[kind |-> "board.updated"]}
      BY DEF Edits
    <3> HIDE DEF nudges, anchors, created, updated, deleted, renamed, removed
    <3> QED  BY <3>1
  <2> HIDE DEF cards, columns
  <2>2. c \in nudges => \E k \in cards : \E d \in Direction : c \in CardNudge(truth, k, d)
    OBVIOUS
  <2>3. c \in anchors => \E k \in columns : c \in MoveAnchor(truth.columns, k, "left")
    OBVIOUS
  <2>4. c \in created =>
            \E k \in columns : c = [kind |-> "card.created", card |-> NewCard(made + 1, k)]
    OBVIOUS
  <2>5. /\ c \in updated =>
               \E k \in cards : c = [kind |-> "card.updated", cardId |-> k, text |-> "edited"]
        /\ c \in deleted => \E k \in cards : c = [kind |-> "card.deleted", cardId |-> k]
    OBVIOUS
  <2>6. /\ c \in renamed => \E k \in columns :
               c = [kind |-> "column.renamed", columnId |-> k, name |-> "renamed"]
        /\ c \in removed => \E k \in columns : c = [kind |-> "column.deleted", columnId |-> k]
    OBVIOUS
  <2> HIDE DEF nudges, anchors, created, updated, deleted, renamed, removed
  <2> QED  BY <2>1, <2>2, <2>3, <2>4, <2>5, <2>6
<1>3. \/ c.kind = "card.moved" \/ c.kind = "column.moved"
      \/ \E k \in columns : c = [kind |-> "card.created", card |-> NewCard(made + 1, k)]
      \/ \E k : c = [kind |-> "card.updated", cardId |-> k, text |-> "edited"]
      \/ \E k : c = [kind |-> "card.deleted", cardId |-> k]
      \/ c = [kind |-> "column.created", column |-> Entry(made + 1, "made", <<>>)]
      \/ \E k \in columns : c = [kind |-> "column.renamed", columnId |-> k, name |-> "renamed"]
      \/ \E k \in columns : c = [kind |-> "column.deleted", columnId |-> k]
      \/ c = [kind |-> "board.updated"]
  BY <1>1, <1>2, <1>2a
<1> HIDE DEF columns
<1>4. CASE c.kind = "card.moved" \/ c.kind = "column.moved"
  BY <1>4 DEF IsCommit, BoardChange
<1>5. CASE \E k \in columns : c = [kind |-> "card.created", card |-> NewCard(made + 1, k)]
  <2>1. PICK k \in columns : c = [kind |-> "card.created", card |-> NewCard(made + 1, k)]
    BY <1>5
  <2>2. k \in Int
    BY <1>0 DEF columns
  <2>3. BoardChange(c) /\ c.kind = "card.created" /\ c.card.id = made + 1
    BY <1>0, <2>1, <2>2, CardMadeIs
  <2> QED  BY <2>3 DEF IsCommit
<1>6. CASE \E k : c = [kind |-> "card.updated", cardId |-> k, text |-> "edited"]
  <2>1. c.kind = "card.updated" /\ c.text = "edited"
    BY <1>6
  <2>2. c.text \in Word
    BY <2>1 DEF Word
  <2> QED  BY <2>1, <2>2 DEF IsCommit, BoardChange
<1>7. CASE \E k : c = [kind |-> "card.deleted", cardId |-> k]
  <2>1. c.kind = "card.deleted"
    BY <1>7
  <2> QED  BY <2>1 DEF IsCommit, BoardChange
<1>8. CASE c = [kind |-> "column.created", column |-> Entry(made + 1, "made", <<>>)]
  BY <1>0, <1>8, ColumnMadeIs DEF IsCommit
<1>9. CASE \E k \in columns : c = [kind |-> "column.renamed", columnId |-> k, name |-> "renamed"]
  <2>1. "renamed" \in Word
    BY DEF Word
  <2> QED  BY <1>0, <1>9, <2>1 DEF IsCommit, columns
<1>10. CASE \E k \in columns : c = [kind |-> "column.deleted", columnId |-> k]
  <2>1. c.kind = "column.deleted"
    BY <1>10
  <2> QED  BY <2>1 DEF IsCommit, BoardChange
<1>11. CASE c = [kind |-> "board.updated"]
  BY <1>11 DEF IsCommit
<1> QED  BY <1>3, <1>4, <1>5, <1>6, <1>7, <1>8, <1>9, <1>10, <1>11

\* And so can what this user's write asks for, with the id the database gives.
LEMMA StoredIs ==
    ASSUME made \in Nat, NEW i \in Nat \ {0}, NEW c, IsOwnChange(c, i)
    PROVE  IsCommit(Stored(c), made) /\ Stored(c).kind = c.kind
<1>0. made + 1 \in Int
  OBVIOUS
<1>1. ASSUME NEW k \in Nat \ {0}, c = [kind |-> "card.created", card |-> NewCard(-i, k)]
      PROVE  IsCommit(Stored(c), made) /\ Stored(c).kind = c.kind
  <2>1. Stored(c) = [kind |-> "card.created", card |-> NewCard(made + 1, k)]
    BY <1>1 DEF Stored, NewCard
  <2>2. k \in Int /\ c.kind = "card.created"
    BY <1>1
  <2> QED  BY <1>0, <2>1, <2>2, CardMadeIs DEF IsCommit
<1>2. CASE c = [kind |-> "column.created", column |-> Entry(-i, "made", <<>>)]
  <2>1. Stored(c) = [kind |-> "column.created", column |-> Entry(made + 1, "made", <<>>)]
    BY <1>2 DEF Stored, Entry
  <2>2. c.kind = "column.created"
    BY <1>2
  <2> QED  BY <1>0, <2>1, <2>2, ColumnMadeIs DEF IsCommit
<1>3. CASE c.kind = "card.moved" \/ c.kind = "column.moved"
  BY <1>3 DEF Stored, IsCommit, BoardChange
<1>4. ASSUME NEW k \in Nat \ {0}, c = [kind |-> "column.renamed", columnId |-> k, name |-> "mine"]
      PROVE  IsCommit(Stored(c), made) /\ Stored(c).kind = c.kind
  <2>1. c.kind = "column.renamed"
    BY <1>4
  <2>2. Stored(c) = c
    BY <2>1 DEF Stored
  <2>3. "mine" \in Word /\ k \in Int
    BY DEF Word
  <2> QED  BY <1>4, <2>2, <2>3 DEF IsCommit
<1>5. ASSUME NEW k \in Nat \ {0}, c = [kind |-> "column.deleted", columnId |-> k]
      PROVE  IsCommit(Stored(c), made) /\ Stored(c).kind = c.kind
  <2>1. c.kind = "column.deleted"
    BY <1>5
  <2> QED  BY <2>1 DEF Stored, IsCommit, BoardChange
<1>6. \/ \E k \in Nat \ {0} : c = [kind |-> "card.created", card |-> NewCard(-i, k)]
      \/ c = [kind |-> "column.created", column |-> Entry(-i, "made", <<>>)]
      \/ c.kind = "card.moved" \/ c.kind = "column.moved"
      \/ \E k \in Nat \ {0} : c = [kind |-> "column.renamed", columnId |-> k, name |-> "mine"]
      \/ \E k \in Nat \ {0} : c = [kind |-> "column.deleted", columnId |-> k]
  BY DEF IsOwnChange, IsOwnMove
<1> QED  BY <1>1, <1>2, <1>3, <1>4, <1>5, <1>6

-----------------------------------------------------------------------------
(* A commit. *)

\* A commit leaves the rows well made, and gives out one id if it creates.
LEMMA CommittedRows ==
    ASSUME Rows, NEW c, NEW by, IsCommit(c, made), Commit(c, by)
    PROVE  Rows' /\ made <= made' /\ made' = IF Creates(c) THEN made + 1 ELSE made
<1>1. made' = IF Creates(c) THEN made + 1 ELSE made
  BY DEF Commit
<1>2. made \in Nat /\ FirstMade \in Nat /\ FirstMade <= made
  BY DEF Rows, FirstMade
<1>3. made' \in Nat /\ FirstMade <= made' /\ made <= made'
  BY <1>1, <1>2
<1>4. CASE c.kind = "board.updated"
  <2>1. truth' = truth
    BY <1>4 DEF Commit
  <2> QED  BY <1>1, <1>2, <1>3, <2>1, WithinStays DEF Rows
<1>5. CASE c.kind # "board.updated"
  <2>1. truth' = ApplyBoardChange(truth, c)
    BY <1>5 DEF Commit
  <2>2. /\ BoardChange(c)
        /\ c.kind = "card.created" => c.card.id = made + 1
        /\ c.kind = "column.created" => c.column.id = made + 1
    <3>1. ASSUME NEW k \in Int, NEW name \in Word,
                 c = [kind |-> "column.renamed", columnId |-> k, name |-> name]
          PROVE  BoardChange(c) /\ c.kind = "column.renamed"
      <4>1. c.kind = "column.renamed" /\ c.name = name
        BY <3>1
      <4> QED  BY <4>1 DEF BoardChange
    <3> QED  BY <1>5, <3>1 DEF IsCommit
  <2>3. Sound(truth) /\ truth.unplaced = <<>> /\ Within(truth, 1..made) /\ made + 1 \notin 1..made
    BY <1>2 DEF Rows
  <2>4. Unmade(truth, c)
    BY <2>2, <2>3 DEF Unmade, Within
  <2>5. Sound(truth') /\ truth'.unplaced = <<>> /\ Gains(truth', truth, c)
    BY <2>1, <2>2, <2>3, <2>4, ChangedSound
  <2>6. /\ c.kind = "card.created" => c.card.id \in 1..made'
        /\ c.kind = "column.created" => c.column.id \in 1..made'
    BY <1>1, <1>2, <2>2 DEF Creates
  <2>7. \A id \in 1..made : id \in 1..made'
    BY <1>2, <1>3
  <2>8. Within(truth', 1..made')
    BY <2>3, <2>5, <2>6, <2>7 DEF Within, Gains
  <2> QED  BY <1>1, <1>3, <2>5, <2>8 DEF Rows
<1> QED  BY <1>4, <1>5

\* What is published of a commit is an event.
LEMMA CommittedEvent ==
    ASSUME NEW m \in Nat, NEW c, IsCommit(c, m), NEW n, n = IF Creates(c) THEN m + 1 ELSE m
    PROVE  IsEvent(EventOf(c), n)
<1>1. CASE c.kind = "board.updated"
  BY <1>1 DEF EventOf, IsEvent
<1>2. ASSUME NEW k \in Int, NEW name \in Word,
             c = [kind |-> "column.renamed", columnId |-> k, name |-> name]
      PROVE  IsEvent(EventOf(c), n)
  <2>1. EventOf(c) = [kind |-> "column.updated", columnId |-> k, name |-> name]
    BY <1>2 DEF EventOf
  <2> QED  BY <2>1 DEF IsEvent
<1>3. CASE /\ BoardChange(c) /\ c.kind # "column.renamed" /\ c.kind # "board.updated"
           /\ c.kind = "card.created" => c.card.id = m + 1
           /\ c.kind = "column.created" => c.column.id = m + 1
  <2>1. EventOf(c) = c
    BY <1>3 DEF EventOf
  <2>2. /\ c.kind = "card.created" => c.card.id \in 1..n
        /\ c.kind = "column.created" => c.column.id \in 1..n
    BY <1>3 DEF Creates
  <2> QED  BY <1>3, <2>1, <2>2 DEF IsEvent
<1> QED  BY <1>1, <1>2, <1>3 DEF IsCommit

\* The layers of the screen, and what they come from.
Layers == Rows /\ Told /\ Lists /\ Stamped /\ Fresh

\* A commit keeps the layers: what it says is yet to be published, or missed.
LEMMA CommitLayers ==
    ASSUME Layers, NEW c, NEW by, IsCommit(c, made), Commit(c, by),
           UNCHANGED <<missed, wire, screen>>
    PROVE  Layers'
<1>1. Rows' /\ made <= made' /\ made' = IF Creates(c) THEN made + 1 ELSE made
  BY CommittedRows DEF Layers
<1>2. made \in Nat /\ made' \in Nat
  BY <1>1 DEF Layers, Rows
<1>3. wire' = wire /\ live' = live /\ snapshot' = snapshot /\ reads' = reads
  BY DEF screen
<1>4. \A e : IsEvent(e, made) => IsEvent(e, made')
  BY <1>1, <1>2, EventStays
<1>5. IsEvent(EventOf(c), made')
  BY <1>1, <1>2, CommittedEvent
<1>6. unpublished' = unpublished \cup {[event |-> EventOf(c), by |-> by]}
  BY DEF Commit
<1>7. \A u \in unpublished' : IsEvent(u.event, made')
  BY <1>4, <1>5, <1>6 DEF Layers, Told
<1>8. Told'
  BY <1>3, <1>4, <1>7 DEF Layers, Told
<1>9. Lists'
  <2>1. Sound(snapshot') /\ Within(snapshot', 1..made')
    BY <1>1, <1>2, <1>3, WithinStays DEF Layers, Lists
  <2>2. \A list, T : IsListOf(list, T, made) => IsListOf(list, T, made')
    BY <1>1, <1>2, ListStays
  <2> QED  BY <1>3, <2>1, <2>2 DEF Layers, Lists
<1>10. Stamped'
  BY <1>3 DEF Layers, Stamped
<1>11. Fresh'
  BY <1>6 DEF Fresh
<1> QED  BY <1>1, <1>8, <1>9, <1>10, <1>11 DEF Layers

-----------------------------------------------------------------------------
(* The screen's own steps. *)

\* They are of the server, the wire and the screen only.
LEMMA LayersStay ==
    ASSUME Layers, UNCHANGED <<server, wire, screen>>
    PROVE  Layers'
<1>1. /\ truth' = truth /\ made' = made /\ unpublished' = unpublished /\ missed' = missed
      /\ wire' = wire /\ snapshot' = snapshot /\ live' = live /\ reads' = reads
  BY DEF server, screen
<1>2. Rows'
  BY <1>1 DEF Layers, Rows
<1>3. Told'
  BY <1>1 DEF Layers, Told
<1>4. Lists'
  BY <1>1 DEF Layers, Lists
<1>5. Stamped'
  BY <1>1 DEF Layers, Stamped
<1>6. Fresh'
  BY <1>1 DEF Layers, Fresh, Current
<1> QED  BY <1>2, <1>3, <1>4, <1>5, <1>6 DEF Layers

\* A read that is asked for will have the board as it is.
LEMMA ReadAsked ==
    ASSUME Listed(reads), Lists, NEW by, reads' = Refresh(by), snapshot' = snapshot, made' = made
    PROVE  Lists' /\ reads' # <<>> /\ Fresh'
<1>1. PICK n \in Nat : n = Len(reads) /\ DOMAIN reads = 1..n
  BY ListedIs
<1>2. PICK read : read = [by |-> by, columns |-> {}, cards |-> {}]
  OBVIOUS
<1>3. reads' = Append(reads, read)
  BY <1>2 DEF Refresh
<1>4. /\ Listed(reads') /\ Len(reads') = n + 1
      /\ \A k \in 1..(n + 1) : reads'[k] = IF k = n + 1 THEN read ELSE reads[k]
  BY <1>1, <1>3, ListedAppend
<1>5. DOMAIN reads' = 1..(n + 1)
  BY <1>4, ListedIs
<1>6. read.columns = {} /\ read.cards = {}
  BY <1>2
<1>7. \A r \in DOMAIN reads' :
          \/ r \in DOMAIN reads /\ reads'[r] = reads[r]
          \/ reads'[r].columns = {} /\ reads'[r].cards = {}
  BY <1>1, <1>4, <1>5, <1>6
<1>8. Lists'
  BY <1>7 DEF Lists
<1>9. reads' # <<>>
  BY <1>4, ListedEmpty
<1>10. reads'[Len(reads')] = read
  BY <1>1, <1>4
<1>11. Current(reads[Len(reads)])'
  BY <1>6, <1>10 DEF Current
<1> QED  BY <1>8, <1>9, <1>11 DEF Fresh

\* So asking for a read keeps the layers,
LEMMA LayersAsk ==
    ASSUME Layers, Listed(reads), NEW by, reads' = Refresh(by),
           UNCHANGED <<server, wire, snapshot, live>>
    PROVE  Layers'
<1>1. /\ truth' = truth /\ made' = made /\ unpublished' = unpublished /\ missed' = missed
      /\ wire' = wire /\ snapshot' = snapshot /\ live' = live
  BY DEF server
<1>2. Rows' /\ Told'
  BY <1>1 DEF Layers, Rows, Told
<1>3. Lists' /\ reads' # <<>> /\ Fresh'
  BY <1>1, ReadAsked DEF Layers
<1>4. Stamped'
  BY <1>1, <1>3 DEF Layers, Stamped
<1> QED  BY <1>2, <1>3, <1>4 DEF Layers

\* as the timer does,
LEMMA TimerLayers ==
    ASSUME Layers, Listed(reads), TimerFires
    PROVE  Layers'
<1>1. /\ truth' = truth /\ made' = made /\ unpublished' = unpublished /\ missed' = missed
      /\ wire' = wire /\ snapshot' = snapshot /\ reads' = Refresh(None)
  BY DEF TimerFires, server
<1>2. DOMAIN live = {"log", "readsStarted", "timer"} /\ live.readsStarted \in Nat
  BY DEF Layers, Stamped
<1>3. live' = [[live EXCEPT !.timer = FALSE] EXCEPT !.readsStarted = @ + 1]
  BY DEF TimerFires, StartRead
<1>4. /\ DOMAIN live' = {"log", "readsStarted", "timer"} /\ live'.log = live.log
      /\ live'.readsStarted = live.readsStarted + 1 /\ live'.timer = FALSE
  BY <1>2, <1>3
<1>5. Rows'
  BY <1>1 DEF Layers, Rows
<1>6. Told'
  BY <1>1, <1>4 DEF Layers, Told
<1>7. Lists' /\ reads' # <<>> /\ Fresh'
  BY <1>1, ReadAsked DEF Layers
<1>8. Stamped'
  <2>1. ASSUME NEW k \in DOMAIN live.log
        PROVE  /\ live.log[k].stamp \in Nat /\ live.log[k].stamp <= live'.readsStarted
               /\ live.log[k].stamp # live'.readsStarted
    BY <1>2, <1>4 DEF Layers, Stamped
  <2>2. live'.readsStarted \in Nat
    BY <1>2, <1>4
  <2>3. live'.timer \in BOOLEAN
    BY <1>4
  <2> QED  BY <1>4, <1>7, <2>1, <2>2, <2>3 DEF Stamped
<1> QED  BY <1>5, <1>6, <1>7, <1>8 DEF Layers

\* and a subscription that is taken up again.
LEMMA ResubscribedLayers ==
    ASSUME Layers, Listed(reads), OnResubscribed, Listed(wire'),
           \A k \in DOMAIN wire' : wire'[k] = Resubscribed \/ IsEvent(wire'[k], made),
           UNCHANGED <<server, snapshot>>
    PROVE  Layers'
<1>1. /\ truth' = truth /\ made' = made /\ unpublished' = unpublished /\ missed' = missed
      /\ snapshot' = snapshot /\ reads' = Refresh(None)
  BY DEF OnResubscribed, server
<1>2. /\ DOMAIN live = {"log", "readsStarted", "timer"} /\ live.readsStarted \in Nat
      /\ live.timer \in BOOLEAN
  BY DEF Layers, Stamped
<1>3. live' = [[live EXCEPT !.log = <<>>] EXCEPT !.readsStarted = @ + 1]
  BY DEF OnResubscribed, StartRead
<1>4. /\ DOMAIN live' = {"log", "readsStarted", "timer"} /\ live'.log = <<>>
      /\ live'.readsStarted = live.readsStarted + 1 /\ live'.timer = live.timer
  BY <1>2, <1>3
<1>5. Rows'
  BY <1>1 DEF Layers, Rows
<1>6. Listed(live'.log) /\ DOMAIN live'.log = {}
  BY <1>4, ListedEmpty
<1>7. Told'
  BY <1>1, <1>6 DEF Layers, Told
<1>8. Lists' /\ reads' # <<>> /\ Fresh'
  BY <1>1, ReadAsked DEF Layers
<1>9. Stamped'
  BY <1>2, <1>4, <1>6 DEF Stamped
<1> QED  BY <1>5, <1>7, <1>8, <1>9 DEF Layers

\* An event that arrives goes into the log, with a read of it due.
LEMMA EventLayers ==
    ASSUME Layers, NEW e, IsEvent(e, made), OnEvent(e), Listed(wire'),
           \A k \in DOMAIN wire' : wire'[k] = Resubscribed \/ IsEvent(wire'[k], made),
           UNCHANGED <<server, snapshot>>
    PROVE  Layers'
<1>1. /\ truth' = truth /\ made' = made /\ unpublished' = unpublished /\ missed' = missed
      /\ snapshot' = snapshot /\ reads' = reads
  BY DEF OnEvent, server
<1>2. /\ DOMAIN live = {"log", "readsStarted", "timer"} /\ live.readsStarted \in Nat
      /\ Listed(live.log)
  BY DEF Layers, Stamped, Told
<1>3. PICK entry : entry = [event |-> e, stamp |-> live.readsStarted]
  OBVIOUS
<1>4. \/ live' = [live EXCEPT !.timer = TRUE]
      \/ live' = [[live EXCEPT !.log = Append(@, entry)] EXCEPT !.timer = TRUE]
  BY <1>3 DEF OnEvent, ScheduleRead
<1>5. /\ DOMAIN live' = {"log", "readsStarted", "timer"}
      /\ live'.readsStarted = live.readsStarted /\ live'.timer = TRUE
      /\ live'.log = live.log \/ live'.log = Append(live.log, entry)
  BY <1>2, <1>4
<1>6. /\ Listed(live'.log)
      /\ \A k \in DOMAIN live'.log :
             (k \in DOMAIN live.log /\ live'.log[k] = live.log[k]) \/ live'.log[k] = entry
  <2>1. CASE live'.log = live.log
    BY <1>2, <2>1
  <2>2. CASE live'.log = Append(live.log, entry)
    <3>1. PICK n \in Nat : n = Len(live.log) /\ DOMAIN live.log = 1..n
      BY <1>2, ListedIs
    <3>2. /\ Listed(live'.log) /\ Len(live'.log) = n + 1
          /\ \A k \in 1..(n + 1) : live'.log[k] = IF k = n + 1 THEN entry ELSE live.log[k]
      BY <1>2, <2>2, <3>1, ListedAppend
    <3>3. DOMAIN live'.log = 1..(n + 1)
      BY <3>2, ListedIs
    <3> QED  BY <3>1, <3>2, <3>3
  <2> QED  BY <1>5, <2>1, <2>2
<1>7. entry.event = e /\ entry.stamp = live.readsStarted
  BY <1>3
<1>8. Rows'
  BY <1>1 DEF Layers, Rows
<1>9. Told'
  BY <1>1, <1>6, <1>7 DEF Layers, Told
<1>10. Lists'
  BY <1>1 DEF Layers, Lists
<1>11. Fresh'
  BY <1>5 DEF Fresh
<1>12. Stamped'
  <2>1. \A k \in DOMAIN live'.log :
            live'.log[k].stamp \in Nat /\ live'.log[k].stamp <= live.readsStarted
    BY <1>2, <1>6, <1>7 DEF Layers, Stamped
  <2> QED  BY <1>2, <1>5, <2>1 DEF Stamped
<1> QED  BY <1>8, <1>9, <1>10, <1>11, <1>12 DEF Layers

\* So the layers hold after each delivery,
LEMMA DeliverLayers ==
    ASSUME Layers, Listed(reads), Deliver
    PROVE  Layers'
<1>1. wire # <<>> /\ wire' = Tail(wire) /\ UNCHANGED <<server, snapshot>>
  BY DEF Deliver
<1>2. Listed(wire) /\ \A k \in DOMAIN wire : wire[k] = Resubscribed \/ IsEvent(wire[k], made)
  BY DEF Layers, Told
<1>3. PICK n \in Nat \ {0} : n = Len(wire) /\ DOMAIN wire = 1..n
  BY <1>1, <1>2, ListedTail, ListedIs
<1>4. /\ Listed(wire') /\ Len(wire') = n - 1 /\ Head(wire) = wire[1]
      /\ \A k \in 1..(n - 1) : wire'[k] = wire[k + 1]
  BY <1>1, <1>2, <1>3, ListedTail
<1>5. DOMAIN wire' = 1..(n - 1)
  BY <1>4, ListedIs
<1>6. \A k \in DOMAIN wire' : wire'[k] = Resubscribed \/ IsEvent(wire'[k], made)
  <2>1. \A k \in 1..(n - 1) : k + 1 \in 1..n
    OBVIOUS
  <2> QED  BY <1>2, <1>3, <1>4, <1>5, <2>1
<1>7. CASE Head(wire) = Resubscribed
  <2>1. OnResubscribed
    BY <1>7 DEF Deliver
  <2> QED  BY <1>1, <1>4, <1>6, <2>1, ResubscribedLayers
<1>8. CASE Head(wire) # Resubscribed
  <2>1. OnEvent(Head(wire))
    BY <1>8 DEF Deliver
  <2>2. PICK e : e = Head(wire)
    OBVIOUS
  <2>3. IsEvent(e, made)
    BY <1>2, <1>3, <1>4, <1>8, <2>2
  <2>4. OnEvent(e)
    BY <2>1, <2>2
  <2> QED  BY <1>1, <1>4, <1>6, <2>3, <2>4, EventLayers
<1> QED  BY <1>7, <1>8

-----------------------------------------------------------------------------
(* A read's lists, and the render of it. *)

\* after a publication,
LEMMA PublishLayers ==
    ASSUME Layers, NEW u \in unpublished, Publish(u)
    PROVE  Layers'
<1>1. /\ truth' = truth /\ made' = made /\ unpublished' = unpublished \ {u}
      /\ snapshot' = snapshot /\ live' = live /\ reads' = reads
      /\ wire' = Append(wire, u.event) \/ (missed' /\ wire' = wire)
  BY DEF Publish, screen
<1>2. Listed(wire) /\ IsEvent(u.event, made)
  BY DEF Layers, Told
<1>3. PICK n \in Nat : n = Len(wire) /\ DOMAIN wire = 1..n
  BY <1>2, ListedIs
<1>4. Rows'
  BY <1>1 DEF Layers, Rows
<1>5. CASE wire' = Append(wire, u.event)
  <2>1. PICK e : e = u.event
    OBVIOUS
  <2>2. /\ Listed(wire') /\ Len(wire') = n + 1
        /\ \A k \in 1..(n + 1) : wire'[k] = IF k = n + 1 THEN e ELSE wire[k]
    BY <1>2, <1>3, <1>5, <2>1, ListedAppend
  <2>3. DOMAIN wire' = 1..(n + 1) /\ wire' # <<>>
    BY <2>2, ListedIs, ListedEmpty
  <2>4. \A k \in DOMAIN wire' : wire'[k] = Resubscribed \/ IsEvent(wire'[k], made)
    <3>1. \A k \in 1..(n + 1) : k \in 1..n \/ k = n + 1
      OBVIOUS
    <3> QED  BY <1>2, <1>3, <2>1, <2>2, <2>3, <3>1 DEF Layers, Told
  <2>5. Told'
    BY <1>1, <2>2, <2>4 DEF Layers, Told
  <2>6. Fresh'
    BY <2>3 DEF Fresh
  <2>7. Lists' /\ Stamped'
    BY <1>1 DEF Layers, Lists, Stamped
  <2> QED  BY <1>4, <2>5, <2>6, <2>7 DEF Layers
<1>6. CASE missed' /\ wire' = wire
  <2>1. Told'
    BY <1>1, <1>6 DEF Layers, Told
  <2>2. Fresh'
    BY <1>6 DEF Fresh
  <2>3. Lists' /\ Stamped'
    BY <1>1 DEF Layers, Lists, Stamped
  <2> QED  BY <1>4, <2>1, <2>2, <2>3 DEF Layers
<1> QED  BY <1>1, <1>5, <1>6

\* and after the stream is lost.
LEMMA DropsLayers ==
    ASSUME Layers, StreamDrops
    PROVE  Layers'
<1>1. /\ truth' = truth /\ made' = made /\ unpublished' \subseteq unpublished
      /\ snapshot' = snapshot /\ live' = live /\ reads' = reads
      /\ wire' = <<Resubscribed>>
  BY DEF StreamDrops, screen
<1>2. PICK r : r = Resubscribed
  OBVIOUS
<1>3. <<r>> \in Seq({r}) /\ DOMAIN <<r>> = {1} /\ <<r>>[1] = r /\ <<r>> # <<>>
  OBVIOUS
<1>4. Listed(wire') /\ (\A k \in DOMAIN wire' : wire'[k] = Resubscribed) /\ wire' # <<>>
  BY <1>1, <1>2, <1>3 DEF Listed
<1>5. Told'
  BY <1>1, <1>4 DEF Layers, Told
<1>6. Rows' /\ Lists' /\ Stamped'
  BY <1>1 DEF Layers, Rows, Lists, Stamped
<1>7. Fresh'
  BY <1>4 DEF Fresh
<1> QED  BY <1>5, <1>6, <1>7 DEF Layers

\* The lists of a board are lists of what is on it.
LEMMA TruthLists ==
    ASSUME Rows
    PROVE  /\ IsListOf(ListColumns(truth), Listing, made)
           /\ IsListOf(ListCards(truth), Card, made)
<1>1. Sound(truth) /\ truth \in BoardType /\ Within(truth, 1..made) /\ Once(truth)
  BY DEF Rows, Sound
<1>2. PICK n \in Nat : n = Len(truth.columns) /\ DOMAIN truth.columns = 1..n
  BY <1>1, BoardIs
<1>3. PICK list \in Seq(Listing) : /\ list = ListColumns(truth) /\ Len(list) = n
                                   /\ \A i \in 1..n : list[i].id = truth.columns[i].id
  BY <1>1, <1>2, ListColumnsIs
<1>4. DOMAIN list = 1..n
  BY <1>3
<1>5. Distinct(list)
  BY <1>1, <1>2, <1>3, <1>4 DEF Sound, Distinct
<1>6. \A i \in 1..n : list[i].id \in 1..made
  BY <1>1, <1>2, <1>3 DEF Within, InColumns
<1>7. IsListOf(list, Listing, made)
  BY <1>3, <1>5, <1>6 DEF IsListOf
<1>8. PICK cards \in Seq(Card) : cards = ListCards(truth)
  BY <1>1, ListCardsIs
<1>9. Distinct(cards)
  BY <1>1, <1>8, ListCardsDistinct
<1>10. \A k \in 1..Len(cards) : cards[k].id \in 1..made
  <2>1. \A k \in 1..Len(cards) : OnBoard(truth, cards[k].id)
    BY <1>1, <1>8, ListCardsIds
  <2> QED  BY <1>1, <2>1 DEF Within
<1>11. IsListOf(cards, Card, made)
  BY <1>9, <1>10 DEF IsListOf
<1> QED  BY <1>3, <1>7, <1>8, <1>11

\* A list that is read is of what the board is now.
LEMMA ReadLayers ==
    ASSUME Layers, Listed(reads), \A r \in DOMAIN reads : IsRead(reads[r]),
           NEW list \in {"columns", "cards"}, ReadList(list)
    PROVE  Layers'
<1>0. /\ truth' = truth /\ made' = made /\ unpublished' = unpublished /\ wire' = wire
      /\ snapshot' = snapshot /\ live' = live /\ reads # <<>>
  BY DEF ReadList
<1>1. PICK n \in Nat \ {0} : n = Len(reads) /\ DOMAIN reads = 1..n /\ Head(reads) = reads[1]
  BY <1>0, ListedTail, ListedIs
<1>2. 1 \in DOMAIN reads /\ n \in DOMAIN reads
  BY <1>1
<1>3. DOMAIN reads[1] = {"by", "columns", "cards"}
  BY <1>2 DEF IsRead
<1>4. PICK got : got = {IF list = "columns" THEN ListColumns(truth) ELSE ListCards(truth)}
  OBVIOUS
<1>5. reads' = [reads EXCEPT ![1][list] = got]
  BY <1>4 DEF ReadList
<1>6. reads = [k \in 1..n |-> reads[k]]
  BY <1>1, ListedIs
<1>7. /\ DOMAIN reads' = 1..n /\ reads' = [k \in 1..n |-> reads'[k]]
      /\ \A k \in 1..n : k # 1 => reads'[k] = reads[k]
  BY <1>1, <1>5, <1>6
<1>8. Listed(reads') /\ Len(reads') = n
  BY <1>7, ListedOf
<1>9. /\ reads[1][list] = {}
      /\ missed' = (missed /\ reads[1].columns \cup reads[1].cards # {})
  BY <1>1 DEF ReadList
<1>10. \/ /\ reads'[1].columns = {ListColumns(truth)} /\ reads'[1].cards = reads[1].cards
          /\ reads[1].columns = {}
       \/ /\ reads'[1].cards = {ListCards(truth)} /\ reads'[1].columns = reads[1].columns
          /\ reads[1].cards = {}
  <2>1. reads'[1] = [reads[1] EXCEPT ![list] = got]
    BY <1>2, <1>5
  <2>2. CASE list = "columns"
    BY <1>3, <1>4, <1>9, <2>1, <2>2
  <2>3. CASE list = "cards"
    BY <1>3, <1>4, <1>9, <2>1, <2>3
  <2> QED  BY <2>2, <2>3
<1>11. Rows' /\ Told'
  BY <1>0 DEF Layers, Rows, Told
<1>12. Lists'
  <2>1. /\ IsListOf(ListColumns(truth), Listing, made)
        /\ IsListOf(ListCards(truth), Card, made)
    BY TruthLists DEF Layers
  <2>2. /\ \A l \in reads'[1].columns : IsListOf(l, Listing, made)
        /\ \A l \in reads'[1].cards : IsListOf(l, Card, made)
    BY <1>2, <1>10, <2>1 DEF Layers, Lists
  <2>3. ASSUME NEW r \in DOMAIN reads'
        PROVE  /\ \A l \in reads'[r].columns : IsListOf(l, Listing, made')
               /\ \A l \in reads'[r].cards : IsListOf(l, Card, made')
               /\ r # 1 => reads'[r].columns = {} /\ reads'[r].cards = {}
    <3>1. CASE r = 1
      BY <1>0, <2>2, <3>1
    <3>2. CASE r # 1
      BY <1>0, <1>1, <1>7, <3>2 DEF Layers, Lists
    <3> QED  BY <3>1, <3>2
  <2> QED  BY <1>0, <2>3 DEF Layers, Lists
<1>13. reads' # <<>>
  BY <1>7, ListedEmpty
<1>14. Stamped'
  BY <1>0, <1>13 DEF Layers, Stamped
<1>15. Fresh'
  <2>1. CASE n # 1
    <3>1. reads'[Len(reads')].columns = {} /\ reads'[Len(reads')].cards = {}
      BY <1>1, <1>2, <1>7, <1>8, <2>1 DEF Layers, Lists
    <3>2. Current(reads[Len(reads)])'
      BY <3>1 DEF Current
    <3> QED  BY <1>13, <3>2 DEF Fresh
  <2>2. CASE n = 1
    <3>1. CASE missed' \/ unpublished # {} \/ wire # <<>> \/ live.timer
      BY <1>0, <3>1 DEF Fresh
    <3>2. CASE missed /\ ~missed'
      <4>1. reads[1].columns = {} /\ reads[1].cards = {}
        BY <1>9, <3>2
      <4>2. /\ reads'[1].columns \subseteq {ListColumns(truth)}
            /\ reads'[1].cards \subseteq {ListCards(truth)}
        BY <1>10, <4>1
      <4>3. Current(reads[Len(reads)])'
        BY <1>0, <1>8, <2>2, <4>2 DEF Current
      <4> QED  BY <1>13, <4>3 DEF Fresh
    <3>3. CASE Current(reads[Len(reads)])
      <4>1. /\ reads'[1].columns \subseteq {ListColumns(truth)}
            /\ reads'[1].cards \subseteq {ListCards(truth)}
        BY <1>1, <1>10, <2>2, <3>3 DEF Current
      <4>2. Current(reads[Len(reads)])'
        BY <1>0, <1>8, <2>2, <4>1 DEF Current
      <4> QED  BY <1>13, <4>2 DEF Fresh
    <3> QED  BY <1>0, <3>1, <3>2, <3>3 DEF Layers, Fresh
  <2> QED  BY <2>1, <2>2
<1> QED  BY <1>11, <1>12, <1>14, <1>15 DEF Layers

\* What is retired is gone from the log, and nothing else.
LEMMA RetireIs ==
    ASSUME Stamped, Listed(live.log), live' = Retire(live)
    PROVE  /\ DOMAIN live' = {"log", "readsStarted", "timer"} /\ Listed(live'.log)
           /\ live'.readsStarted = live.readsStarted /\ live'.timer = live.timer
           /\ \A k \in DOMAIN live'.log : \E j \in DOMAIN live.log :
                  /\ live'.log[k] = live.log[j]
                  /\ live.log[j].stamp = live.readsStarted
           /\ live'.log # <<>> => live.timer
<1>1. PICK T : live.log \in Seq(T)
  BY DEF Listed
<1>2. PICK log \in Seq(T) : log = live.log
  BY <1>1
<1> DEFINE S == {e \in ToSet(log) : e.stamp >= live.readsStarted}
<1>3. live' = [live EXCEPT !.log = Keep(log, S)]
  BY <1>2 DEF Retire
<1>4. PICK kept : kept = Keep(log, S)
  OBVIOUS
<1>5. DOMAIN live = {"log", "readsStarted", "timer"}
  BY DEF Stamped
<1>6. /\ DOMAIN live' = {"log", "readsStarted", "timer"} /\ live'.log = kept
      /\ live'.readsStarted = live.readsStarted /\ live'.timer = live.timer
  <2> HIDE DEF S
  <2> QED  BY <1>3, <1>4, <1>5
<1>7. /\ kept \in Seq(T) /\ Len(kept) \in Nat
      /\ \E p \in [1..Len(kept) -> 1..Len(log)] :
             \A j \in 1..Len(kept) : kept[j] = log[p[j]] /\ kept[j] \in S
  <2> HIDE DEF S
  <2> QED  BY <1>4, KeepHas
<1>8. DOMAIN kept = 1..Len(kept) /\ DOMAIN log = 1..Len(log)
  BY <1>7
<1>9. \A k \in DOMAIN kept : \E j \in DOMAIN log :
          kept[k] = log[j] /\ log[j].stamp = live.readsStarted /\ live.timer
  <2>1. PICK p \in [1..Len(kept) -> 1..Len(log)] :
             \A j \in 1..Len(kept) : kept[j] = log[p[j]] /\ kept[j] \in S
    BY <1>7
  <2>2. ASSUME NEW k \in 1..Len(kept)
        PROVE  /\ p[k] \in DOMAIN log /\ kept[k] = log[p[k]]
               /\ log[p[k]].stamp = live.readsStarted /\ live.timer
    <3>1. PICK j \in DOMAIN log : j = p[k]
      BY <1>8, <2>2
    <3>2. kept[k] = log[j] /\ kept[k].stamp >= live.readsStarted
      BY <2>1, <3>1
    <3>3. /\ log[j].stamp \in Nat /\ log[j].stamp <= live.readsStarted
          /\ log[j].stamp = live.readsStarted => live.timer
          /\ live.readsStarted \in Nat
      BY <1>2 DEF Stamped
    <3>4. log[j].stamp = live.readsStarted
      BY <3>2, <3>3
    <3> QED  BY <3>1, <3>2, <3>3, <3>4
  <2> QED  BY <1>8, <2>2
<1>10. kept # <<>> => live.timer
  <2>1. ASSUME kept # <<>>
        PROVE  1 \in DOMAIN kept
    BY <1>7, <1>8, <2>1
  <2> QED  BY <1>9, <2>1
<1> QED  BY <1>2, <1>6, <1>7, <1>9, <1>10 DEF Listed

\* What is rendered was read, and the log behind it is retired.
LEMMA RenderLayers ==
    ASSUME Layers, Listed(reads), Render
    PROVE  Layers'
<1>0. /\ truth' = truth /\ made' = made /\ unpublished' = unpublished /\ wire' = wire
      /\ missed' = missed /\ reads # <<>> /\ live' = Retire(live) /\ reads' = Tail(reads)
  BY DEF Render, server
<1>1. PICK n \in Nat \ {0} : n = Len(reads) /\ DOMAIN reads = 1..n /\ Head(reads) = reads[1]
  BY <1>0, ListedTail, ListedIs
<1>2. 1 \in DOMAIN reads
  BY <1>1
<1>3. PICK columns \in reads[1].columns : \E cards \in reads[1].cards :
          snapshot' = GroupCards(columns, cards)
  BY <1>1 DEF Render
<1>4. PICK cards \in reads[1].cards : snapshot' = GroupCards(columns, cards)
  BY <1>3
<1>5. IsListOf(columns, Listing, made) /\ IsListOf(cards, Card, made)
  BY <1>2 DEF Layers, Lists
<1>6. Sound(snapshot') /\ Within(snapshot', 1..made)
  <2>1. /\ columns \in Seq(Listing) /\ Distinct(columns)
        /\ cards \in Seq(Card) /\ Distinct(cards)
        /\ \A k \in 1..Len(columns) : columns[k].id \in 1..made
        /\ \A k \in 1..Len(cards) : cards[k].id \in 1..made
    BY <1>5 DEF IsListOf
  <2>2. /\ Sound(snapshot')
        /\ \A id : OnBoard(snapshot', id) => \E m \in 1..Len(cards) : cards[m].id = id
        /\ \A id : InColumns(snapshot', id) => \E i \in 1..Len(columns) : columns[i].id = id
    BY <1>4, <2>1, Grouped
  <2> QED  BY <2>1, <2>2 DEF Within
<1>7. /\ Listed(reads') /\ Len(reads') = n - 1
      /\ \A k \in 1..(n - 1) : reads'[k] = reads[k + 1]
  BY <1>0, <1>1, ListedTail
<1>8. DOMAIN reads' = 1..(n - 1)
  BY <1>7, ListedIs
<1>9. \A k \in 1..(n - 1) : k + 1 \in 1..n /\ k + 1 # 1
  OBVIOUS
<1>10. \A k \in DOMAIN reads' : reads'[k].columns = {} /\ reads'[k].cards = {}
  BY <1>1, <1>7, <1>8, <1>9 DEF Layers, Lists
<1>11. Rows'
  BY <1>0 DEF Layers, Rows
<1>12. Lists'
  BY <1>0, <1>6, <1>10 DEF Lists
<1>13. /\ DOMAIN live' = {"log", "readsStarted", "timer"} /\ Listed(live'.log)
       /\ live'.readsStarted = live.readsStarted /\ live'.timer = live.timer
       /\ \A k \in DOMAIN live'.log : \E j \in DOMAIN live.log :
              /\ live'.log[k] = live.log[j]
              /\ live.log[j].stamp = live.readsStarted
       /\ live'.log # <<>> => live.timer
  BY <1>0, RetireIs DEF Layers, Told
<1>14. Told'
  BY <1>0, <1>13 DEF Layers, Told
<1>15. Stamped'
  BY <1>13 DEF Layers, Stamped
<1>16. Fresh'
  <2>1. CASE missed \/ unpublished # {} \/ wire # <<>> \/ live.timer
    BY <1>0, <1>13, <2>1 DEF Fresh
  <2>2. CASE n # 1
    <3>1. n - 1 \in DOMAIN reads' /\ n - 1 = Len(reads')
      BY <1>7, <1>8, <2>2
    <3>2. reads' # <<>>
      BY <3>1, ListedEmpty
    <3>3. Current(reads[Len(reads)])'
      BY <1>10, <3>1 DEF Current
    <3> QED  BY <3>2, <3>3 DEF Fresh
  <2>3. CASE n = 1 /\ Current(reads[Len(reads)])
    <3>1. columns = ListColumns(truth) /\ cards = ListCards(truth)
      BY <1>1, <2>3 DEF Current
    <3>2. snapshot' = truth
      BY <1>4, <3>1, RoundTrip DEF Layers, Rows
    <3>3. reads' = <<>>
      <4>1. Listed(reads') /\ Len(reads') = 0
        BY <1>7, <2>3
      <4>2. PICK T : reads' \in Seq(T)
        BY <4>1 DEF Listed
      <4> QED  BY <4>1, <4>2
    <3> QED  BY <1>0, <3>2, <3>3 DEF Fresh
  <2> QED  BY <1>0, <1>1, <2>1, <2>2, <2>3 DEF Layers, Fresh
<1> QED  BY <1>11, <1>12, <1>14, <1>15, <1>16 DEF Layers

-----------------------------------------------------------------------------
(* The layers and what is asked hold of every step. *)

Data == Layers /\ Asked

\* The first page has what was read of the board.
LEMMA InitLayers ==
    ASSUME Init
    PROVE  Data
<1>1. PICK start \in Start : truth = start.board
  BY DEF Init
<1>2. /\ made = FirstMade /\ unpublished = {} /\ wire = <<>> /\ snapshot = truth
      /\ live = [log |-> <<>>, readsStarted |-> 0, timer |-> FALSE]
      /\ reads = <<>> /\ writes = <<>>
      /\ hand = [lifted |-> None, dragging |-> None, proposal |-> <<>>]
  BY DEF Init
<1>3. IsBoard(truth)
  BY <1>1, StartAssumption
<1>4. Listed(<<>>) /\ DOMAIN <<>> = {}
  BY ListedEmpty
<1>5. PICK columns : columns = ListColumns(truth)
  OBVIOUS
<1>6. PICK cards : cards = ListCards(truth)
  OBVIOUS
<1>7. /\ columns \in Seq([id : 1..FirstMade, name : STRING])
      /\ cards \in Seq([id : 1..FirstMade, columnId : Int, text : STRING])
      /\ \A i, j \in DOMAIN columns : columns[i].id = columns[j].id => i = j
      /\ \A i, j \in DOMAIN cards : cards[i].id = cards[j].id => i = j
      /\ truth = GroupCards(columns, cards) /\ truth.unplaced = <<>>
  BY <1>3, <1>5, <1>6 DEF IsBoard
<1>8. columns \in Seq(Listing)
  <2>1. [id : 1..FirstMade, name : STRING] \subseteq Listing
    BY DEF Listing, Word
  <2> QED  BY <1>7, <2>1, SeqMonotonic
<1>9. cards \in Seq(Card)
  <2>1. [id : 1..FirstMade, columnId : Int, text : STRING] \subseteq Card
    BY DEF Card, Word
  <2> QED  BY <1>7, <2>1, SeqMonotonic
<1>10. Distinct(columns) /\ Distinct(cards)
  BY <1>7 DEF Distinct
<1>11. /\ Sound(truth)
       /\ \A id : OnBoard(truth, id) => \E m \in 1..Len(cards) : cards[m].id = id
       /\ \A id : InColumns(truth, id) => \E i \in 1..Len(columns) : columns[i].id = id
  BY <1>7, <1>8, <1>9, <1>10, Grouped
<1>12. /\ \A i \in 1..Len(columns) : columns[i].id \in 1..FirstMade
       /\ \A m \in 1..Len(cards) : cards[m].id \in 1..FirstMade
  <2>1. columns \in Seq([id : 1..FirstMade, name : STRING])
    BY <1>7
  <2>2. cards \in Seq([id : 1..FirstMade, columnId : Int, text : STRING])
    BY <1>7
  <2>3. \A i \in 1..Len(columns) : columns[i] \in [id : 1..FirstMade, name : STRING]
    BY <2>1, ElementOfSeq
  <2>4. \A m \in 1..Len(cards) :
            cards[m] \in [id : 1..FirstMade, columnId : Int, text : STRING]
    BY <2>2, ElementOfSeq
  <2>5. \A i \in 1..Len(columns) : columns[i].id \in 1..FirstMade
    BY <2>3
  <2>6. \A m \in 1..Len(cards) : cards[m].id \in 1..FirstMade
    BY <2>4
  <2> QED  BY <2>5, <2>6
<1>13. Within(truth, 1..made)
  BY <1>2, <1>11, <1>12 DEF Within
<1>14. Rows
  BY <1>2, <1>7, <1>11, <1>13 DEF Rows, FirstMade
<1>15. live.log = <<>> /\ live.readsStarted = 0 /\ live.timer = FALSE
       /\ DOMAIN live = {"log", "readsStarted", "timer"}
  BY <1>2
<1>16. Told
  BY <1>2, <1>4, <1>15 DEF Told
<1>17. Lists
  BY <1>2, <1>4, <1>11, <1>13 DEF Lists
<1>18. Stamped
  <2>1. live.timer \in BOOLEAN
    BY <1>15
  <2>2. live.readsStarted \in Nat
    BY <1>15
  <2> QED  BY <1>4, <1>15, <2>1, <2>2 DEF Stamped
<1>19. Fresh
  BY <1>2 DEF Fresh
<1>20. Asked
  BY <1>2, <1>4 DEF Asked
<1> QED  BY <1>14, <1>16, <1>17, <1>18, <1>19, <1>20 DEF Data, Layers

\* A proposal is an own move.
LEMMA OffersOwn ==
    ASSUME NEW p, Offers(p)
    PROVE  \A k \in DOMAIN p : IsOwnMove(p[k])
<1>1. CASE p = <<>>
  BY <1>1, ListedEmpty
<1>2. ASSUME NEW move, p = <<move>>, IsOwnMove(move)
      PROVE  \A k \in DOMAIN p : IsOwnMove(p[k])
  <2>1. DOMAIN p = {1} /\ p[1] = move
    BY <1>2
  <2> QED  BY <1>2, <2>1
<1> QED  BY <1>1, <1>2 DEF Offers

\* The writes that are there ask for what they asked for.
LEMMA AskedStays ==
    ASSUME Asked, Onward \/ writes' = writes,
           hand'.proposal = hand.proposal \/ Offers(hand'.proposal)
    PROVE  Asked'
<1>1. \A i \in DOMAIN writes' : i \in DOMAIN writes /\ writes'[i].change = writes[i].change
  BY DEF Onward
<1>2. \A k \in DOMAIN hand'.proposal : IsOwnMove(hand'.proposal[k])
  BY OffersOwn DEF Asked
<1> QED  BY <1>1, <1>2 DEF Asked

\* And the one that joins them asks for an own change.
LEMMA AskedJoins ==
    ASSUME Asked, NEW w, Joins(w), IsOwnChange(w.change, Len(writes) + 1),
           hand'.proposal = hand.proposal \/ Offers(hand'.proposal)
    PROVE  Asked'
<1>1. \A i \in DOMAIN writes' :
          \/ i \in DOMAIN writes /\ writes'[i] = writes[i]
          \/ i = Len(writes) + 1 /\ writes'[i] = w
  BY DEF Joins
<1>2. \A k \in DOMAIN hand'.proposal : IsOwnMove(hand'.proposal[k])
  BY OffersOwn DEF Asked
<1> QED  BY <1>1, <1>2 DEF Asked

\* commit, as the hand lets go.
LEMMA CommitAsked ==
    ASSUME Inv, Data, NEW m, IsOwnMove(m), CommitMove(m), LetGo, HandMoves
    PROVE  Data'
<1>1. Layers'
  BY LayersStay DEF HandMoves, Data
<1>2. Offers(hand'.proposal)
  BY DEF LetGo, Hold, Offers
<1>3. CASE writes' = writes
  BY <1>1, <1>2, <1>3, AskedStays DEF Data
<1>4. CASE SendMove(m)
  <2>1. PICK w : /\ w = Write(m, tail[m.cardId], Unsettled(m.cardId))
                 /\ writes' = Append(writes, w)
    BY <1>4 DEF SendMove
  <2>2. w.change = m
    BY <2>1 DEF Write
  <2>3. Joins(w)
    BY <2>1, AppendJoins DEF Inv
  <2>4. IsOwnChange(w.change, Len(writes) + 1)
    BY <2>2 DEF IsOwnChange
  <2> QED  BY <1>1, <1>2, <2>3, <2>4, AskedJoins DEF Data
<1> QED  BY <1>3, <1>4 DEF CommitMove, sending

\* What the user does keeps the invariant,
LEMMA GestureData ==
    ASSUME Inv, Data, Gesture
    PROVE  Data'
<1>1. /\ hand.lifted \in Handled \cup {None} /\ hand.dragging \in Handled \cup {None}
      /\ Listed(hand.proposal) /\ Listed(writes)
      /\ \A k \in DOMAIN hand.proposal : IsOwnMove(hand.proposal[k])
  BY DEF Inv, Held, Recorded, Data, Asked
<1>2. /\ Fine(Shown, made, Len(writes)) /\ made \in Nat /\ Len(writes) \in Nat
  BY <1>1, ScreenFine, ListedIs DEF Inv, Data, Layers, Rows
<1>3. ASSUME HandMoves, UNCHANGED sending, Offers(hand'.proposal)
      PROVE  Data'
  BY <1>3, LayersStay, AskedStays DEF HandMoves, sending, Data
<1>4. ASSUME HandMoves, UNCHANGED sending, LetGo
      PROVE  Data'
  BY <1>3, <1>4 DEF LetGo, Hold, Offers
<1>5. ASSUME NEW c, Lift(c) \/ DragStart(c)
      PROVE  Data'
  <2>1. HandMoves /\ UNCHANGED sending /\ Offers(hand'.proposal)
    BY <1>5 DEF Lift, DragStart, Hold, Offers
  <2> QED  BY <1>3, <2>1
<1>6. ASSUME hand.lifted # None, NEW direction, Nudge(direction)
      PROVE  Data'
  <2>1. PICK m \in CardNudge(Shown, hand.lifted, direction) : Hold(hand.lifted, None, <<m>>)
    BY <1>6 DEF Nudge
  <2>2. hand.lifted \in Nat \ {0}
    BY <1>1, <1>6, HandledAssumption
  <2>3. IsOwnMove(m)
    BY <1>2, <2>1, <2>2, NudgeIs
  <2>4. HandMoves /\ UNCHANGED sending /\ Offers(hand'.proposal)
    BY <1>6, <2>1, <2>3 DEF Nudge, Hold, Offers
  <2> QED  BY <1>3, <2>4
<1>7. ASSUME KeyboardDrop
      PROVE  Data'
  <2>1. LetGo /\ HandMoves
    BY <1>7 DEF KeyboardDrop
  <2>2. CASE hand.proposal = <<>>
    BY <1>4, <1>7, <2>1, <2>2 DEF KeyboardDrop
  <2>3. CASE hand.proposal # <<>>
    <3>1. CommitMove(Head(hand.proposal))
      BY <1>7, <2>3 DEF KeyboardDrop
    <3>2. Head(hand.proposal) = hand.proposal[1] /\ 1 \in DOMAIN hand.proposal
      <4>1. Head(hand.proposal) = hand.proposal[1] /\ Len(hand.proposal) \in Nat \ {0}
        BY <1>1, <2>3, ListedTail
      <4>2. DOMAIN hand.proposal = 1..Len(hand.proposal)
        BY <1>1, ListedIs
      <4> QED  BY <4>1, <4>2
    <3> QED  BY <1>1, <2>1, <3>1, <3>2, CommitAsked
  <2> QED  BY <2>2, <2>3
<1>8. ASSUME hand.dragging # None, NEW over, NEW past, DragOver(over, past)
      PROVE  Data'
  <2>1. PICK m \in CardDropTarget(Shown, hand.dragging, over, past) :
            Hold(None, hand.dragging, <<m>>)
    BY <1>8 DEF DragOver
  <2>2. hand.dragging \in Nat \ {0}
    BY <1>1, <1>8, HandledAssumption
  <2>3. IsOwnMove(m)
    BY <1>2, <2>1, <2>2, DropIs
  <2>4. HandMoves /\ UNCHANGED sending /\ Offers(hand'.proposal)
    BY <1>8, <2>1, <2>3 DEF DragOver, Hold, Offers
  <2> QED  BY <1>3, <2>4
<1>9. ASSUME hand.dragging # None, NEW over, NEW past, Drop(over, past)
      PROVE  Data'
  <2> DEFINE target == CardDropTarget(Shown, hand.dragging, over, past)
  <2>1. LetGo /\ HandMoves
    BY <1>9 DEF Drop
  <2>2. \/ UNCHANGED sending
        \/ \E m \in target \cup ToSet(hand.proposal) : CommitMove(m)
    BY <1>9 DEF Drop
  <2>3. hand.dragging \in Nat \ {0}
    BY <1>1, <1>9, HandledAssumption
  <2>4. ASSUME NEW m \in target \cup ToSet(hand.proposal), CommitMove(m)
        PROVE  Data'
    <3>1. IsOwnMove(m)
      <4>1. CASE m \in target
        BY <1>2, <2>3, <4>1, DropIs
      <4>2. CASE m \in ToSet(hand.proposal)
        BY <1>1, <4>2 DEF ToSet
      <4> QED  BY <4>1, <4>2
    <3> QED  BY <2>1, <2>4, <3>1, CommitAsked
  <2> QED  BY <1>4, <2>1, <2>2, <2>4
<1>10. ASSUME KeyboardCancel \/ DragCancel
       PROVE  Data'
  BY <1>4, <1>10 DEF KeyboardCancel, DragCancel
<1> QED  BY <1>5, <1>6, <1>7, <1>8, <1>9, <1>10 DEF Gesture

\* as does an answer,
LEMMA AnsweredData ==
    ASSUME Inv, Data, NEW i \in DOMAIN writes, NEW accepted \in BOOLEAN,
           NEW refreshes \in BOOLEAN, writes[i].phase = "waiting",
           Answered(i, accepted, refreshes), UNCHANGED <<server, wire, snapshot, live, hand>>
    PROVE  Data'
<1>1. Onward
  BY AnsweredQueue
<1>2. Asked'
  BY <1>1, AskedStays DEF Data
<1>3. Listed(reads)
  BY DEF Inv, Recorded
<1>4. CASE refreshes
  <2>1. reads' = Refresh(i)
    BY <1>4 DEF Answered
  <2> QED  BY <1>2, <1>3, <2>1, LayersAsk DEF Data
<1>5. CASE ~refreshes
  <2>1. reads' = reads
    BY <1>5 DEF Answered
  <2> QED  BY <1>2, <2>1, LayersStay DEF Data, screen
<1> QED  BY <1>4, <1>5

\* and all that goes on by itself.
LEMMA RunsData ==
    ASSUME Inv, Data, Runs
    PROVE  Data'
<1>1. /\ Listed(reads) /\ \A r \in DOMAIN reads : IsRead(reads[r])
      /\ Listed(writes) /\ Layers /\ Asked
  BY DEF Inv, Recorded, Data
<1>2. ASSUME writes' = writes, hand' = hand
      PROVE  Asked'
  BY <1>1, <1>2, AskedStays
<1>3. CASE Deliver
  BY <1>1, <1>2, <1>3, DeliverLayers DEF Deliver, own, Data
<1>4. CASE TimerFires
  BY <1>1, <1>2, <1>4, TimerLayers DEF TimerFires, own, Data
<1>5. CASE Render
  <2>1. Onward /\ hand' = hand
    BY <1>5, RenderQueue DEF Render
  <2> QED  BY <1>1, <1>5, <2>1, RenderLayers, AskedStays DEF Data
<1>6. ASSUME NEW u \in unpublished, Publish(u)
      PROVE  Data'
  BY <1>1, <1>2, <1>6, PublishLayers DEF Publish, own, Data
<1>7. ASSUME NEW list \in {"columns", "cards"}, ReadList(list)
      PROVE  Data'
  BY <1>1, <1>2, <1>7, ReadLayers DEF ReadList, own, Data
<1>8. ASSUME NEW i \in DOMAIN writes, PassGate(i)
      PROVE  Data'
  <2>1. Onward
    BY <1>8, PassGateQueue
  <2>2. UNCHANGED <<server, wire, screen>> /\ hand' = hand
    BY <1>8 DEF PassGate
  <2> QED  BY <1>1, <2>1, <2>2, LayersStay, AskedStays DEF Data
<1>9. ASSUME NEW i \in DOMAIN writes, HandleRequest(i)
      PROVE  Data'
  <2>1. Onward
    BY <1>9, HandleQueue
  <2>2. UNCHANGED <<missed, wire, screen>> /\ hand' = hand
    BY <1>9 DEF HandleRequest
  <2>3. Asked'
    BY <1>1, <2>1, <2>2, AskedStays
  <2>4. CASE UNCHANGED <<truth, made, unpublished>>
    <3>1. UNCHANGED <<server, wire, screen>>
      BY <2>2, <2>4 DEF server
    <3> QED  BY <1>1, <2>3, <3>1, LayersStay DEF Data
  <2>5. CASE Commit(Stored(writes[i].change), i)
    <3>1. PICK c : c = Stored(writes[i].change)
      OBVIOUS
    <3>2. i \in Nat \ {0} /\ made \in Nat
      BY <1>1, ListedIs DEF Layers, Rows
    <3>3. IsCommit(c, made)
      BY <1>1, <3>1, <3>2, StoredIs DEF Asked
    <3>4. Commit(c, i)
      BY <2>5, <3>1
    <3> QED  BY <1>1, <2>2, <2>3, <3>3, <3>4, CommitLayers DEF Data
  <2> QED  BY <1>9, <2>4, <2>5 DEF HandleRequest
<1>10. ASSUME NEW i \in DOMAIN writes, Answer(i)
       PROVE  Data'
  BY <1>10, AnsweredData DEF Answer
<1> QED  BY <1>3, <1>4, <1>5, <1>6, <1>7, <1>8, <1>9, <1>10 DEF Runs

\* So every step keeps it.
LEMMA NextData ==
    ASSUME Inv, Data, Next
    PROVE  Data'
<1>1. Listed(writes) /\ Layers /\ Asked /\ Rows /\ made \in Nat
  BY DEF Inv, Recorded, Data, Layers, Rows
<1>2. CASE OtherWrites
  <2>1. PICK c \in Edits : Commit(c, None)
    BY <1>2 DEF OtherWrites
  <2>2. IsCommit(c, made)
    BY <1>1, EditsAre
  <2>3. UNCHANGED <<missed, wire, screen>> /\ writes' = writes /\ hand' = hand
    BY <1>2 DEF OtherWrites, own
  <2> QED  BY <1>1, <2>1, <2>2, <2>3, CommitLayers, AskedStays DEF Data
<1>3. CASE StreamDrops
  <2>1. writes' = writes /\ hand' = hand
    BY <1>3 DEF StreamDrops, own
  <2> QED  BY <1>1, <1>3, <2>1, DropsLayers, AskedStays DEF Data
<1>4. CASE Compose \/ Arrange
  <2>1. Fine(Shown, made, Len(writes)) /\ Len(writes) \in Nat
    BY <1>1, ScreenFine, ListedIs DEF Inv, Layers
  <2>2. PICK c : IsOwnChange(c, Len(writes) + 1) /\ Submit(c)
    BY <1>1, <1>4, <2>1, ComposedIs, ArrangedIs DEF Compose, Arrange
  <2>3. PICK w : w = Write(c, None, {}) /\ writes' = Append(writes, w)
    BY <2>2 DEF Submit
  <2>4. w.change = c
    BY <2>3 DEF Write
  <2>5. Joins(w)
    BY <2>3, AppendJoins DEF Inv
  <2>6. UNCHANGED <<server, wire, screen>> /\ hand' = hand
    BY <2>2 DEF Submit
  <2> QED  BY <1>1, <2>2, <2>4, <2>5, <2>6, LayersStay, AskedJoins DEF Data
<1>5. ASSUME NEW i \in DOMAIN writes, AnswerLost(i)
      PROVE  Data'
  BY <1>5, AnsweredData DEF AnswerLost
<1> QED  BY <1>2, <1>3, <1>4, <1>5, RunsData, GestureData DEF Next

\* The layers of the screen hold throughout.
THEOREM BoardLayers == Spec => [](Inv /\ Data)
<1>1. ASSUME Data, UNCHANGED vars
      PROVE  Data'
  <2>1. UNCHANGED <<server, wire, screen>> /\ writes' = writes /\ hand' = hand
    BY <1>1 DEF vars, own
  <2> QED  BY <1>1, <2>1, LayersStay, AskedStays DEF Data
<1>2. Init => Data
  BY InitLayers
<1>3. Inv /\ Data /\ [Next]_vars => Data'
  BY <1>1, NextData
<1> QED  BY <1>2, <1>3, BoardInvariant, PTL DEF Spec

-----------------------------------------------------------------------------
(* What the layers say of the screen. *)

\* Once every write is over, the edits draw nothing.
LEMMA NothingDrawn ==
    ASSUME Listed(writes), NEW run, OptimisticRuns(run),
           \A i \in DOMAIN writes : writes[i].phase = "over"
    PROVE  Optimistic = Live
<1>1. PICK n \in Nat : n = Len(writes) /\ DOMAIN writes = 1..n
  BY ListedIs
<1>2. \A k \in 1..n : run[k] = run[k - 1]
  BY <1>1 DEF OptimisticRuns, Drawing
<1> DEFINE Same == {k \in 0..n : run[k] = run[0]}
<1>3. 0 \in Same
  BY <1>1
<1>4. \A k \in 0..(n - 1) : k \in Same => k + 1 \in Same
  <2>1. ASSUME NEW k \in 0..(n - 1), k \in Same
        PROVE  k + 1 \in Same
    <3>1. k + 1 \in 1..n /\ (k + 1) - 1 = k /\ k + 1 \in 0..n
      BY <1>1, <2>1
    <3>2. run[k + 1] = run[k]
      BY <1>2, <3>1
    <3> QED  BY <2>1, <3>1, <3>2
  <2> QED  BY <2>1
<1>5. n \in Same
  <2> HIDE DEF Same
  <2>1. n \in Nat /\ n \in 0..n
    BY <1>1
  <2>2. 0..n \subseteq Same
    BY <2>1, <1>3, <1>4, UpTo, Zenon
  <2> QED  BY <2>1, <2>2
<1> QED  BY <1>1, <1>5 DEF OptimisticRuns

\* Once the log is empty, what is live is what was read.
LEMMA NothingLive ==
    ASSUME Rows, Lists, live.log = <<>>
    PROVE  Live = snapshot
<1>1. PICK events : events = [i \in DOMAIN live.log |-> live.log[i].event]
  OBVIOUS
<1>2. DOMAIN live.log = {}
  OBVIOUS
<1>3. events = <<>>
  BY <1>1, <1>2
<1>4. Listed(events) /\ Len(events) = 0 /\ DOMAIN events = {}
  BY <1>3, ListedEmpty
<1>5. Live = ApplyLiveLog(snapshot, events)
  BY <1>1 DEF Live
<1>6. PICK run : LiveRuns(run, snapshot, events, made)
  BY <1>4, LiveRun DEF Rows, Lists
<1> QED  BY <1>4, <1>5, <1>6 DEF LiveRuns

(* When nothing is left to do, the screen shows the board as it is, out of the read
   alone, unless an event was missed for good. *)
THEOREM BoardConverges == Spec => []Converges
<1>1. ASSUME Inv, Data, QueueDrains, Quiet
      PROVE  live.log = <<>> /\ (missed \/ Optimistic = truth)
  <2>1. \A i \in DOMAIN writes : writes[i].phase = "over"
    BY <1>1 DEF QueueDrains
  <2>2. live.log = <<>>
    BY <1>1 DEF Data, Layers, Stamped, Quiet
  <2>3. missed \/ snapshot = truth
    BY <1>1 DEF Data, Layers, Fresh, Quiet
  <2>4. Live = snapshot
    BY <1>1, <2>2, NothingLive DEF Data, Layers
  <2>5. PICK run : OptimisticRuns(run)
    BY <1>1, ScreenFine DEF Inv, Data, Layers
  <2>6. Optimistic = Live
    BY <1>1, <2>1, <2>5, NothingDrawn DEF Inv, Recorded
  <2> QED  BY <2>2, <2>3, <2>4, <2>6
<1>2. Inv /\ Data /\ QueueDrains => Converges
  BY <1>1 DEF Converges
<1> QED  BY <1>2, BoardLayers, BoardQueueDrains, PTL

(* What the database has not acknowledged stays at the bottom of its column, and no
   request that moves a card names one. *)
THEOREM BoardStandInsAside == Spec => []StandInsAside
<1>1. ASSUME Inv, Data
      PROVE  StandInsAside
  <2>1. PICK s : s = Shown
    OBVIOUS
  <2>2. Sound(s) /\ Aside(s)
    BY <1>1, <2>1, ScreenFine DEF Inv, Data, Layers, Fine
  <2>3. /\ DOMAIN s.columns = 1..Len(s.columns)
        /\ \A i \in 1..Len(s.columns) : Len(s.columns[i].cards) \in Nat
    BY <2>2, BoardIs DEF Sound
  <2>4. ASSUME NEW i \in 1..Len(s.columns), NEW j \in 1..(Len(s.columns[i].cards) - 1),
               IsPendingId(s.columns[i].cards[j].id)
        PROVE  IsPendingId(s.columns[i].cards[j + 1].id)
    <3>1. j \in 1..Len(s.columns[i].cards) /\ j + 1 \in 1..Len(s.columns[i].cards) /\ j < j + 1
      BY <2>3
    <3> QED  BY <2>2, <2>4, <3>1 DEF Aside
  <2>5. ASSUME NEW i \in DOMAIN writes, writes[i].change.kind = "card.moved"
        PROVE  /\ writes[i].change.cardId > 0 /\ writes[i].change.columnId > 0
               /\ writes[i].change.after >= 0
    <3>1. i \in Nat \ {0}
      BY <1>1, <2>5, ListedIs DEF Inv, Recorded
    <3>2. IsOwnMove(writes[i].change)
      BY <1>1, <2>5, <3>1, OwnChangeIs DEF Data, Asked
    <3> QED  BY <3>2 DEF IsOwnMove
  <2> QED  BY <2>1, <2>3, <2>4, <2>5 DEF StandInsAside
<1> QED  BY <1>1, BoardLayers, PTL

-----------------------------------------------------------------------------
(* What a change leaves in its place. *)

\* t has the columns of s but those of K, with their cards but those of D.
Spares(t, s, K, D) ==
    \A i \in 1..Len(s.columns) : s.columns[i].id \notin K =>
        \E h \in 1..Len(t.columns) :
            /\ t.columns[h].id = s.columns[i].id
            /\ \A j \in 1..Len(s.columns[i].cards) : s.columns[i].cards[j].id \notin D =>
                   \E m \in 1..Len(t.columns[h].cards) :
                       t.columns[h].cards[m].id = s.columns[i].cards[j].id

\* What is not the subject of the change stays, and what is made is there.
Spared(t, s, c) ==
    /\ \A k : InColumns(s, k) /\ ~(c.kind = "column.deleted" /\ c.columnId = k)
                  => InColumns(t, k)
    /\ \A k, id : /\ IsIn(s, k, id) /\ ~(c.kind = "column.deleted" /\ c.columnId = k)
                  /\ ~(c.kind \in {"card.deleted", "card.moved"} /\ c.cardId = id)
                  => IsIn(t, k, id)
    /\ c.kind = "card.created" /\ InColumns(s, c.card.columnId)
           => IsIn(t, c.card.columnId, c.card.id)
    /\ c.kind = "column.created" => InColumns(t, c.column.id)

\* In other words, columns and cards stay but for those.
LEMMA SparesIs ==
    ASSUME NEW s \in BoardType, NEW t \in BoardType, NEW K, NEW D, Spares(t, s, K, D)
    PROVE  /\ \A k : InColumns(s, k) /\ k \notin K => InColumns(t, k)
           /\ \A k, id : IsIn(s, k, id) /\ k \notin K /\ id \notin D => IsIn(t, k, id)
<1>1. ASSUME NEW k, InColumns(s, k), k \notin K
      PROVE  InColumns(t, k)
  <2>1. PICK i \in 1..Len(s.columns) : s.columns[i].id = k
    BY <1>1, OnBoardIs
  <2>2. PICK h \in 1..Len(t.columns) : t.columns[h].id = k
    BY <1>1, <2>1 DEF Spares
  <2> QED  BY <2>2, OnBoardIs
<1>2. ASSUME NEW k, NEW id, IsIn(s, k, id), k \notin K, id \notin D
      PROVE  IsIn(t, k, id)
  <2>1. PICK i \in 1..Len(s.columns) :
            /\ s.columns[i].id = k
            /\ \E j \in 1..Len(s.columns[i].cards) : s.columns[i].cards[j].id = id
    BY <1>2, IsInIs
  <2>2. PICK j \in 1..Len(s.columns[i].cards) : s.columns[i].cards[j].id = id
    BY <2>1
  <2>3. PICK h \in 1..Len(t.columns) :
            /\ t.columns[h].id = k
            /\ \A x \in 1..Len(s.columns[i].cards) : s.columns[i].cards[x].id \notin D =>
                   \E m \in 1..Len(t.columns[h].cards) :
                       t.columns[h].cards[m].id = s.columns[i].cards[x].id
    BY <1>2, <2>1 DEF Spares
  <2>4. PICK m \in 1..Len(t.columns[h].cards) : t.columns[h].cards[m].id = id
    BY <1>2, <2>2, <2>3
  <2> QED  BY <2>3, <2>4, IsInIs
<1> QED  BY <1>1, <1>2

\* What is kept of a list.
LEMMA KeepSpares ==
    ASSUME NEW T, NEW seq \in Seq(T), NEW S
    PROVE  \A i \in 1..Len(seq) : seq[i] \in S =>
               \E j \in 1..Len(Keep(seq, S)) : Keep(seq, S)[j] = seq[i]
<1>1. PICK kept : kept = Keep(seq, S)
  OBVIOUS
<1>2. PICK p : Picks(p, kept, seq, S)
  BY <1>1, KeepPicks
<1>3. \A j \in 1..Len(kept) : kept[j] = seq[p[j]]
  BY <1>2 DEF Picks
<1>4. \A i \in 1..Len(seq) : seq[i] \in S => \E j \in 1..Len(kept) : p[j] = i
  BY <1>2 DEF Picks
<1>5. \A i \in 1..Len(seq) : seq[i] \in S => \E j \in 1..Len(kept) : kept[j] = seq[i]
  BY <1>3, <1>4
<1> QED  BY <1>1, <1>5

\* An edited card stays,
LEMMA UpdatedSpares ==
    ASSUME NEW s, Sound(s), NEW c, c.kind = "card.updated"
    PROVE  Spares(ApplyBoardChange(s, c), s, {}, {})
<1> DEFINE t == ApplyBoardChange(s, c)
           edit(x) == IF x.id = c.cardId THEN [x EXCEPT !.text = c.text] ELSE x
<1>1. /\ s \in BoardType /\ Len(s.columns) \in Nat /\ DOMAIN s.columns = 1..Len(s.columns)
      /\ \A i \in 1..Len(s.columns) :
             /\ Len(s.columns[i].cards) \in Nat
             /\ DOMAIN s.columns[i].cards = 1..Len(s.columns[i].cards)
             /\ \A j \in 1..Len(s.columns[i].cards) : s.columns[i].cards[j] \in Card
  BY BoardIs DEF Sound
<1>2. PICK new : new = [i \in 1..Len(s.columns) |->
                          [j \in 1..Len(s.columns[i].cards) |-> edit(s.columns[i].cards[j])]]
  OBVIOUS
<1>3. t.columns = [i \in 1..Len(s.columns) |->
                      [id |-> s.columns[i].id, name |-> s.columns[i].name, cards |-> new[i]]]
  BY <1>1, <1>2 DEF ApplyBoardChange, MapColumns, Snapshot, WithCards, Entry
<1>4. ASSUME NEW x \in Card
      PROVE  edit(x).id = x.id
  BY DEF Card
<1> HIDE DEF t, edit
<1>5. Len(t.columns) = Len(s.columns)
  BY <1>1, <1>3
<1>6. ASSUME NEW i \in 1..Len(s.columns)
      PROVE  /\ t.columns[i].id = s.columns[i].id
             /\ \A j \in 1..Len(s.columns[i].cards) :
                    /\ j \in 1..Len(t.columns[i].cards)
                    /\ t.columns[i].cards[j].id = s.columns[i].cards[j].id
  <2>1. t.columns[i] = [id |-> s.columns[i].id, name |-> s.columns[i].name, cards |-> new[i]]
    BY <1>3
  <2>2. t.columns[i].id = s.columns[i].id /\ t.columns[i].cards = new[i]
    BY <2>1
  <2>3. new[i] = [j \in 1..Len(s.columns[i].cards) |-> edit(s.columns[i].cards[j])]
    BY <1>2
  <2>4. PICK n \in Nat : n = Len(s.columns[i].cards)
    BY <1>1
  <2>5. PICK u : u = new[i]
    OBVIOUS
  <2>6. u = [j \in 1..n |-> edit(s.columns[i].cards[j])]
    BY <2>3, <2>4, <2>5
  <2>7. Len(u) = n
    BY <2>6
  <2>8. \A j \in 1..n : u[j].id = s.columns[i].cards[j].id
    BY <1>1, <1>4, <2>4, <2>6
  <2> QED  BY <2>2, <2>4, <2>5, <2>7, <2>8
<1>7. Spares(t, s, {}, {})
  BY <1>5, <1>6 DEF Spares
<1> QED  BY <1>7 DEF t

\* a deleted card alone is gone,
LEMMA DeletedSpares ==
    ASSUME NEW s, Sound(s), NEW c, c.kind = "card.deleted"
    PROVE  Spares(ApplyBoardChange(s, c), s, {}, {c.cardId})
<1> DEFINE t == ApplyBoardChange(s, c)
<1>1. /\ s \in BoardType /\ Len(s.columns) \in Nat /\ DOMAIN s.columns = 1..Len(s.columns)
      /\ \A i \in 1..Len(s.columns) : s.columns[i].cards \in Seq(Card)
  BY BoardIs DEF Sound
<1>2. PICK new : new = [i \in 1..Len(s.columns) |-> Without(s.columns[i].cards, c.cardId)]
  OBVIOUS
<1>3. t.columns = [i \in 1..Len(s.columns) |->
                      [id |-> s.columns[i].id, name |-> s.columns[i].name, cards |-> new[i]]]
  BY <1>1, <1>2 DEF ApplyBoardChange, MapColumns, Snapshot, WithCards, Entry
<1> HIDE DEF t
<1>5. Len(t.columns) = Len(s.columns)
  BY <1>1, <1>3
<1>6. ASSUME NEW i \in 1..Len(s.columns)
      PROVE  /\ t.columns[i].id = s.columns[i].id
             /\ \A j \in 1..Len(s.columns[i].cards) :
                    s.columns[i].cards[j].id \notin {c.cardId} =>
                        \E m \in 1..Len(t.columns[i].cards) :
                            t.columns[i].cards[m].id = s.columns[i].cards[j].id
  <2>1. t.columns[i] = [id |-> s.columns[i].id, name |-> s.columns[i].name, cards |-> new[i]]
    BY <1>3
  <2>2. t.columns[i].id = s.columns[i].id /\ t.columns[i].cards = new[i]
    BY <2>1
  <2>3. new[i] = Without(s.columns[i].cards, c.cardId)
    BY <1>2
  <2>4. \A j \in 1..Len(s.columns[i].cards) : s.columns[i].cards[j].id # c.cardId =>
            \E m \in 1..Len(new[i]) : new[i][m] = s.columns[i].cards[j]
    BY <1>1, <2>3, WithoutIs, SMTT(30)
  <2> QED  BY <2>2, <2>4
<1>7. Spares(t, s, {}, {c.cardId})
  BY <1>5, <1>6 DEF Spares
<1> QED  BY <1>7 DEF t

\* a renamed column stays,
LEMMA RenamedSpares ==
    ASSUME NEW s, Sound(s), NEW c, c.kind = "column.renamed"
    PROVE  Spares(ApplyBoardChange(s, c), s, {}, {})
<1> DEFINE t == ApplyBoardChange(s, c)
<1>1. s \in BoardType /\ Len(s.columns) \in Nat /\ DOMAIN s.columns = 1..Len(s.columns)
  BY BoardIs DEF Sound
<1>3. t.columns = [i \in 1..Len(s.columns) |->
                      IF s.columns[i].id = c.columnId
                      THEN [id |-> s.columns[i].id, name |-> c.name,
                            cards |-> s.columns[i].cards]
                      ELSE s.columns[i]]
  BY <1>1 DEF ApplyBoardChange, MapColumns, Snapshot, Entry
<1> HIDE DEF t
<1>5. Len(t.columns) = Len(s.columns)
  BY <1>1, <1>3
<1>6. ASSUME NEW i \in 1..Len(s.columns)
      PROVE  t.columns[i].id = s.columns[i].id /\ t.columns[i].cards = s.columns[i].cards
  <2>1. t.columns[i] = IF s.columns[i].id = c.columnId
                       THEN [id |-> s.columns[i].id, name |-> c.name,
                             cards |-> s.columns[i].cards]
                       ELSE s.columns[i]
    BY <1>3
  <2> QED  BY <2>1
<1>7. Spares(t, s, {}, {})
  BY <1>5, <1>6 DEF Spares
<1> QED  BY <1>7 DEF t

\* and a deleted column alone is gone.
LEMMA ColumnDeletedSpares ==
    ASSUME NEW s, Sound(s), NEW c, c.kind = "column.deleted"
    PROVE  Spares(ApplyBoardChange(s, c), s, {c.columnId}, {})
<1> DEFINE t == ApplyBoardChange(s, c)
<1>1. s \in BoardType /\ s.columns \in Seq(Column) /\ DOMAIN s.columns = 1..Len(s.columns)
  BY BoardIs DEF Sound
<1>2. PICK S : S = {e \in ToSet(s.columns) : e.id # c.columnId}
  OBVIOUS
<1>3. t.columns = Keep(s.columns, S)
  BY <1>2 DEF ApplyBoardChange, Snapshot
<1> HIDE DEF t
<1>4. \A i \in 1..Len(s.columns) : s.columns[i] \in S =>
          \E j \in 1..Len(t.columns) : t.columns[j] = s.columns[i]
  BY <1>1, <1>3, KeepSpares
<1>5. \A i \in 1..Len(s.columns) : s.columns[i].id # c.columnId => s.columns[i] \in S
  BY <1>1, <1>2 DEF ToSet
<1>6. Spares(t, s, {c.columnId}, {})
  BY <1>4, <1>5 DEF Spares
<1> QED  BY <1>6 DEF t

\* A moved column stays, and so do the others.
LEMMA ColumnMovedSpares ==
    ASSUME NEW s, Sound(s), NEW c, c.kind = "column.moved"
    PROVE  Spares(ApplyBoardChange(s, c), s, {}, {})
<1> DEFINE t == ApplyBoardChange(s, c)
           n == Len(s.columns)
           from == IndexOf(s.columns, c.columnId)
           rest == RemoveAt(s.columns, from)
           at == IndexOf(rest, c.after)
<1>1. s \in BoardType /\ s.columns \in Seq(Column) /\ n \in Nat /\ s.unplaced \in Seq(Card)
  BY BoardIs DEF Sound
<1>2. t = [columns |-> MoveColumn(s.columns, c), unplaced |-> s.unplaced]
  BY DEF ApplyBoardChange, Snapshot
<1>3. ASSUME \A i \in 1..n : \E h \in 1..Len(t.columns) : t.columns[h] = s.columns[i]
      PROVE  Spares(t, s, {}, {})
  BY <1>3 DEF Spares
<1>4. CASE from = 0 \/ (at = 0 /\ c.after # First)
  <2>1. t.columns = s.columns
    BY <1>2, <1>4 DEF MoveColumn
  <2> QED  BY <1>3, <2>1
<1>5. CASE ~(from = 0 \/ (at = 0 /\ c.after # First))
  <2>1. from \in 1..n
    BY <1>1, <1>5, IndexIs
  <2> HIDE DEF from
  <2>2. /\ rest \in Seq(Column) /\ Len(rest) = n - 1
        /\ \A j \in 1..(n - 1) : rest[j] = IF j < from THEN s.columns[j] ELSE s.columns[j + 1]
    BY <1>1, <2>1, RemoveAtIs
  <2> HIDE DEF rest
  <2>3. Len(rest) \in Nat /\ at \in 0..Len(rest)
    BY <2>2, IndexIs
  <2> HIDE DEF at
  <2>4. PICK k : k = at + 1
    OBVIOUS
  <2>5. PICK e : e = s.columns[from]
    OBVIOUS
  <2>6. k \in 1..(Len(rest) + 1)
    BY <2>3, <2>4
  <2>7. e \in Column
    BY <1>1, <2>1, <2>5, ElementOfSeq
  <2>8. t.columns = InsertAt(rest, k, e)
    BY <1>2, <1>5, <2>4, <2>5 DEF MoveColumn, from, rest, at
  <2> HIDE DEF t
  <2>9a. rest \in Seq(Column)
    BY <2>2
  <2>9. /\ Len(InsertAt(rest, k, e)) = Len(rest) + 1
        /\ \A j \in 1..(Len(rest) + 1) : InsertAt(rest, k, e)[j] =
               IF j < k THEN rest[j] ELSE IF j = k THEN e ELSE rest[j - 1]
    BY <2>6, <2>7, <2>9a, InsertAtIs
  <2>10. /\ Len(t.columns) = n
         /\ \A j \in 1..n : t.columns[j] =
                IF j < k THEN rest[j] ELSE IF j = k THEN e ELSE rest[j - 1]
    BY <1>1, <2>2, <2>8, <2>9
  <2>11. k \in 1..n
    BY <1>1, <2>2, <2>6
  <2> HIDE DEF n
  <2>12. ASSUME NEW b \in 1..(n - 1)
         PROVE  \E h \in 1..n : t.columns[h] = rest[b]
    <3>1. CASE b < k
      <4>1. b \in 1..n
        BY <1>1
      <4> QED  BY <2>10, <3>1, <4>1
    <3>2. CASE ~(b < k)
      <4>1. b + 1 \in 1..n /\ ~(b + 1 < k) /\ b + 1 # k /\ (b + 1) - 1 = b
        BY <1>1, <2>11, <3>2
      <4> QED  BY <2>10, <4>1
    <3> QED  BY <3>1, <3>2
  <2>13. ASSUME NEW i \in 1..n
         PROVE  \E h \in 1..n : t.columns[h] = s.columns[i]
    <3>1. CASE i = from
      <4>1. t.columns[k] = e
        BY <2>10, <2>11
      <4> QED  BY <2>5, <2>11, <3>1, <4>1
    <3>2. CASE i < from
      <4>1. i \in 1..(n - 1)
        BY <1>1, <2>1, <3>2
      <4>2. rest[i] = s.columns[i]
        BY <2>2, <3>2, <4>1
      <4> QED  BY <2>12, <4>1, <4>2
    <3>3. CASE i > from
      <4>1. i - 1 \in 1..(n - 1) /\ ~(i - 1 < from) /\ (i - 1) + 1 = i
        BY <1>1, <2>1, <3>3
      <4>2. rest[i - 1] = s.columns[i]
        BY <2>2, <4>1
      <4> QED  BY <2>12, <4>1, <4>2
    <3>4. i \in Nat /\ from \in Nat
      BY <1>1, <2>1
    <3> QED  BY <3>1, <3>2, <3>3, <3>4
  <2>14. \A i \in 1..n : \E h \in 1..Len(t.columns) : t.columns[h] = s.columns[i]
    BY <2>10, <2>13
  <2> QED  BY <1>3, <2>14 DEF t
<1> QED  BY <1>4, <1>5

\* What a card is put into keeps its cards, and has it.
LEMMA InsertedKeeps ==
    ASSUME NEW s \in BoardType, NEW t, NEW k, NEW at, NEW card, Inserted(t, s, k, at, card)
    PROVE  /\ \A x : InColumns(s, x) => InColumns(t, x)
           /\ \A x, id : IsIn(s, x, id) => IsIn(t, x, id)
           /\ IsIn(t, s.columns[k].id, card.id)
<1>1. /\ t \in BoardType /\ Len(t.columns) = Len(s.columns) /\ k \in 1..Len(s.columns)
      /\ \A i \in 1..Len(s.columns) : t.columns[i].id = s.columns[i].id
      /\ \A i \in 1..Len(s.columns) : i # k => t.columns[i].cards = s.columns[i].cards
  BY DEF Inserted
<1>2. PICK u : u = t.columns[k].cards
  OBVIOUS
<1>3. PICK v : v = s.columns[k].cards
  OBVIOUS
<1>4. /\ Len(u) = Len(v) + 1 /\ at \in 1..(Len(v) + 1) /\ Len(v) \in Nat
      /\ \A j \in 1..(Len(v) + 1) :
             u[j] = IF j < at THEN v[j] ELSE IF j = at THEN card ELSE v[j - 1]
  BY <1>1, <1>2, <1>3, BoardIs DEF Inserted, PutAt
<1>5. at \in 1..Len(u) /\ u[at] = card
  BY <1>4
<1>6. ASSUME NEW j \in 1..Len(v)
      PROVE  \E m \in 1..Len(u) : u[m] = v[j]
  <2>1. CASE j < at
    BY <1>4, <2>1
  <2>2. CASE ~(j < at)
    <3>1. j + 1 \in 1..Len(u) /\ ~(j + 1 < at) /\ j + 1 # at /\ (j + 1) - 1 = j
      BY <1>4, <2>2
    <3>2. u[j + 1] = v[j]
      BY <1>4, <3>1
    <3> QED  BY <3>1, <3>2
  <2> QED  BY <2>1, <2>2
<1>7. ASSUME NEW i \in 1..Len(s.columns), NEW j \in 1..Len(s.columns[i].cards)
      PROVE  \E m \in 1..Len(t.columns[i].cards) :
                 t.columns[i].cards[m].id = s.columns[i].cards[j].id
  <2>1. CASE i = k
    <3>1. PICK m \in 1..Len(u) : u[m] = v[j]
      BY <1>3, <1>6, <1>7, <2>1
    <3> QED  BY <1>2, <1>3, <2>1, <3>1
  <2>2. CASE i # k
    BY <1>1, <2>2
  <2> QED  BY <2>1, <2>2
<1>8. Spares(t, s, {}, {})
  BY <1>1, <1>7 DEF Spares
<1>9. IsIn(t, s.columns[k].id, card.id)
  <2>1. k \in 1..Len(t.columns) /\ t.columns[k].id = s.columns[k].id
    BY <1>1
  <2>2. \E j \in 1..Len(t.columns[k].cards) : t.columns[k].cards[j].id = card.id
    BY <1>2, <1>5
  <2> QED  BY <1>1, <2>1, <2>2, IsInIs
<1>10. t \in BoardType
  BY <1>1
<1> QED  BY <1>8, <1>9, <1>10, SparesIs

\* So every change spares what it is not about.
LEMMA ChangedSpares ==
    ASSUME NEW s, Sound(s), NEW c, BoardChange(c), Unmade(s, c)
    PROVE  Spared(ApplyBoardChange(s, c), s, c)
<1> DEFINE t == ApplyBoardChange(s, c)
<1>1. s \in BoardType /\ t \in BoardType
  BY ChangedSound DEF Sound
<1>2. ASSUME NEW K, NEW D, Spares(t, s, K, D), c.kind # "card.created", c.kind # "column.created",
             K = {} \/ (c.kind = "column.deleted" /\ K = {c.columnId}),
             D = {} \/ (c.kind = "card.deleted" /\ D = {c.cardId})
      PROVE  Spared(t, s, c)
  <2> HIDE DEF t
  <2>1. /\ \A k : InColumns(s, k) /\ k \notin K => InColumns(t, k)
        /\ \A k, id : IsIn(s, k, id) /\ k \notin K /\ id \notin D => IsIn(t, k, id)
    BY <1>1, <1>2, SparesIs
  <2> QED  BY <1>2, <2>1 DEF Spared
<1>3. CASE c.kind = "card.created"
  <2>1. c.card \in Card /\ ~OnBoard(s, c.card.id)
    BY <1>3 DEF BoardChange, Unmade
  <2>2. \/ t = s /\ ~InColumns(s, c.card.columnId)
        \/ \E k \in 1..Len(s.columns) :
               Inserted(t, s, k, Len(s.columns[k].cards) + 1, c.card)
    BY <1>3, <2>1, CreatedIs
  <2> HIDE DEF t
  <2>3. CASE t = s /\ ~InColumns(s, c.card.columnId)
    BY <1>3, <2>3 DEF Spared, t
  <2>4. ASSUME NEW k, Inserted(t, s, k, Len(s.columns[k].cards) + 1, c.card)
        PROVE  Spared(t, s, c)
    <3>1. c.card.columnId = s.columns[k].id
      BY <2>4 DEF Inserted
    <3>2. /\ \A x : InColumns(s, x) => InColumns(t, x)
          /\ \A x, id : IsIn(s, x, id) => IsIn(t, x, id)
          /\ IsIn(t, s.columns[k].id, c.card.id)
      BY <1>1, <2>4, InsertedKeeps
    <3> QED  BY <1>3, <3>1, <3>2 DEF Spared
  <2> QED  BY <2>2, <2>3, <2>4 DEF t
<1>4. CASE c.kind = "card.updated"
  BY <1>2, <1>4, UpdatedSpares
<1>5. CASE c.kind = "card.deleted"
  BY <1>2, <1>5, DeletedSpares
<1>6. CASE c.kind = "card.moved"
  <2>1. \/ t = s
        \/ \E mid, k, at, card : Relocated(t, s, c, mid, k, at, card)
    BY <1>6, MovedIs
  <2> HIDE DEF t
  <2>2. CASE t = s
    BY <1>6, <2>2 DEF Spared, t
  <2>3. ASSUME NEW mid, NEW k, NEW at, NEW card, Relocated(t, s, c, mid, k, at, card)
        PROVE  Spared(t, s, c)
    <3>1. /\ mid \in BoardType /\ Inserted(t, mid, k, at, card)
          /\ \A k2, id : IsIn(s, k2, id) /\ id # c.cardId => IsIn(mid, k2, id)
          /\ \A id : InColumns(s, id) => InColumns(mid, id)
      BY <2>3 DEF Relocated, Drawn
    <3>2. /\ \A x : InColumns(mid, x) => InColumns(t, x)
          /\ \A x, id : IsIn(mid, x, id) => IsIn(t, x, id)
      BY <3>1, InsertedKeeps
    <3> QED  BY <1>6, <3>1, <3>2 DEF Spared
  <2> QED  BY <2>1, <2>2, <2>3 DEF t
<1>7. CASE c.kind = "column.created"
  <2>1. c.column \in Column /\ c.column.cards = <<>> /\ ~InColumns(s, c.column.id)
    BY <1>7 DEF BoardChange, Unmade
  <2>2. /\ \A id : InColumns(t, id) <=> InColumns(s, id) \/ id = c.column.id
        /\ \A k, id : IsIn(s, k, id) => IsIn(t, k, id)
    BY <1>7, <2>1, ColumnCreatedIs
  <2> HIDE DEF t
  <2>3. Spared(t, s, c)
    BY <1>7, <2>2 DEF Spared
  <2> QED  BY <2>3 DEF t
<1>8. CASE c.kind = "column.renamed"
  BY <1>2, <1>8, RenamedSpares
<1>9. CASE c.kind = "column.deleted"
  BY <1>2, <1>9, ColumnDeletedSpares
<1>10. CASE c.kind = "column.moved"
  BY <1>2, <1>10, ColumnMovedSpares
<1>11. c.kind \in {"card.created", "card.updated", "card.deleted", "card.moved",
                   "column.created", "column.renamed", "column.deleted", "column.moved"}
  BY DEF BoardChange
<1> HIDE DEF t
<1>12. Spared(t, s, c)
  BY <1>3, <1>4, <1>5, <1>6, <1>7, <1>8, <1>9, <1>10, <1>11 DEF t
<1> QED  BY <1>12 DEF t

-----------------------------------------------------------------------------
(* What comes and goes with an event, and with a write. *)

\* What an event makes, and the column it takes.
Makes(e, id) ==
    \/ e.kind = "card.created" /\ e.card.id = id
    \/ e.kind = "column.created" /\ e.column.id = id
Removes(e, k) == e.kind = "column.deleted" /\ e.columnId = k

\* The id is of a card or of a column of the board.
Has(s, id) == OnBoard(s, id) \/ InColumns(s, id)

\* An event brings nothing it does not make, and takes no column it does not remove.
LEMMA EventSpares ==
    ASSUME NEW m \in Nat, NEW s, Sound(s), NEW e, IsEvent(e, m)
    PROVE  /\ \A id : Has(ApplyLiveEvent(s, e), id) => Has(s, id) \/ Makes(e, id)
           /\ \A k : InColumns(s, k) /\ ~Removes(e, k) => InColumns(ApplyLiveEvent(s, e), k)
<1>1. CASE ApplyLiveEvent(s, e) = s
  BY <1>1
<1>2. ASSUME NEW c, Means(e, c, s)
      PROVE  /\ \A id : Has(ApplyLiveEvent(s, e), id) => Has(s, id) \/ Makes(e, id)
             /\ \A k : InColumns(s, k) /\ ~Removes(e, k) => InColumns(ApplyLiveEvent(s, e), k)
  <2>1. PICK t : t = ApplyLiveEvent(s, e) /\ t = ApplyBoardChange(s, c)
    BY <1>2 DEF Means
  <2>2. Gains(t, s, c) /\ Spared(t, s, c)
    BY <1>2, <2>1, ChangedSound, ChangedSpares DEF Means
  <2>3. c = e \/ c.kind = "column.renamed"
    BY <1>2 DEF Means
  <2>4. \A id : Has(t, id) => Has(s, id) \/ Makes(e, id)
    BY <2>2, <2>3 DEF Gains, Has, Makes
  <2>5. \A k : InColumns(s, k) /\ ~Removes(e, k) => InColumns(t, k)
    BY <2>2, <2>3 DEF Spared, Removes
  <2> QED  BY <2>1, <2>4, <2>5
<1> QED  BY <1>1, <1>2, EventIs

\* This user's own change brings nothing of the server's.
LEMMA OwnSpares ==
    ASSUME NEW m \in Nat, NEW k \in Nat \ {0}, NEW s, Fine(s, m, k - 1),
           NEW c, IsOwnChange(c, k)
    PROVE  /\ \A id \in Nat : Has(ApplyBoardChange(s, c), id) => Has(s, id)
           /\ Spared(ApplyBoardChange(s, c), s, c)
<1>1. /\ BoardChange(c)
      /\ c.kind = "card.created" => c.card.id = -k
      /\ c.kind = "column.created" => c.column.id = -k
  BY OwnChangeIs
<1>2. Sound(s) /\ \A id : OnBoard(s, id) \/ InColumns(s, id) => id \in Drafts(m, k - 1)
  BY DEF Fine, Within
<1>3. -k \notin Drafts(m, k - 1) /\ -k \notin Nat
  BY DEF Drafts
<1>4. Unmade(s, c)
  BY <1>1, <1>2, <1>3 DEF Unmade
<1>5. Gains(ApplyBoardChange(s, c), s, c) /\ Spared(ApplyBoardChange(s, c), s, c)
  BY <1>1, <1>2, <1>4, ChangedSound, ChangedSpares
<1> QED  BY <1>1, <1>3, <1>5 DEF Gains, Has

\* A move brings nothing.
LEMMA MoveSpares ==
    ASSUME NEW s, Sound(s), NEW c, IsOwnMove(c)
    PROVE  \A id : Has(ApplyBoardChange(s, c), id) => Has(s, id)
<1>1. BoardChange(c) /\ Unmade(s, c) /\ c.kind = "card.moved"
  BY DEF IsOwnMove, BoardChange, Unmade
<1> QED  BY <1>1, ChangedSound DEF Gains, Has

\* A column that is deleted is gone.
LEMMA ColumnGone ==
    ASSUME NEW s, Sound(s), NEW c, c.kind = "column.deleted"
    PROVE  ~InColumns(ApplyBoardChange(s, c), c.columnId)
<1>1. PICK t : t = ApplyBoardChange(s, c)
  OBVIOUS
<1>2. s.columns \in Seq(Column) /\ BoardChange(c) /\ Unmade(s, c)
  BY BoardIs DEF Sound, BoardChange, Unmade
<1>3. t \in BoardType
  BY <1>1, <1>2, ChangedSound DEF Sound
<1>4. PICK S : S = {e \in ToSet(s.columns) : e.id # c.columnId}
  OBVIOUS
<1>5. t.columns = Keep(s.columns, S)
  BY <1>1, <1>4 DEF ApplyBoardChange, Snapshot
<1>6. \A j \in 1..Len(t.columns) : t.columns[j] \in S
  BY <1>2, <1>5, KeepHas
<1>7. \A j \in 1..Len(t.columns) : t.columns[j].id # c.columnId
  BY <1>4, <1>6
<1> QED  BY <1>1, <1>3, <1>7, OnBoardIs

\* The ids on a screen.
LEMMA IdsAre ==
    ASSUME NEW s \in BoardType
    PROVE  \A id : id \in IdsOf(s) <=> Has(s, id)
<1>1. PICK cards \in Seq(Card) : cards = ListCards(s)
  BY ListCardsIs
<1>2. DOMAIN cards = 1..Len(cards)
  OBVIOUS
<1>3. \A id : id \in CardsOf(s) <=> OnBoard(s, id)
  <2>1. \A id : (\E m \in 1..Len(cards) : cards[m].id = id) <=> OnBoard(s, id)
    BY <1>1, ListCardsIds
  <2> QED  BY <1>1, <1>2, <2>1 DEF CardsOf, ToSet
<1>4. \A id : id \in {e.id : e \in ToSet(s.columns)} <=> InColumns(s, id)
  BY DEF InColumns, ToSet
<1> QED  BY <1>3, <1>4 DEF IdsOf, Has

\* A column of a board, in the words of the model.
LEMMA HasColumnIs ==
    ASSUME NEW s \in BoardType
    PROVE  \A k : HasColumn(s, k) <=> InColumns(s, k)
<1>1. Len(s.columns) \in Nat
  BY BoardIs
<1> QED  BY <1>1, IndexIs, OnBoardIs DEF HasColumn

\* A screen with a pending card or column has pending entities.
LEMMA PendingIs ==
    ASSUME NEW s, NEW id, Has(s, id), IsPendingId(id)
    PROVE  HasPendingEntities(s)
BY DEF Has, OnBoard, InColumns, HasPendingEntities

-----------------------------------------------------------------------------
(* The columns of the first page, and the rows this user's creates made. *)

Names(list, k) == \E m \in 1..Len(list) : list[m].id = k

\* Nothing said or read of the board denies the column.
Undenied(k) ==
    /\ InColumns(snapshot, k)
    /\ \A r \in DOMAIN reads : \A list \in reads[r].columns : Names(list, k)
    /\ \A u \in unpublished : ~Removes(u.event, k)
    /\ \A j \in DOMAIN wire : ~Removes(wire[j], k)
    /\ \A j \in DOMAIN live.log : ~Removes(live.log[j].event, k)

Lasts == \A k : InColumns(truth, k) /\ k <= FirstMade => Undenied(k)

Rowed == \A i \in DOMAIN writes :
    writes[i].row \in Nat /\ (writes[i].row # None => Creates(writes[i].change))

\* A create whose stand-in is on screen while its write is pending.
Abiding(c) == c.kind = "card.created" => Lasting(c.card.columnId)

\* Nor has the log the row of a create that is drawn.
Unshown == \A i \in DOMAIN writes :
    writes[i].row # None /\ writes[i].phase # "over" /\ Abiding(writes[i].change)
        => \A j \in DOMAIN live.log : ~Makes(live.log[j].event, writes[i].row)

\* What a step hands on: what was published, delivered, read and rendered.
Handed ==
    /\ \A j \in DOMAIN wire' :
           \/ wire'[j] = Resubscribed
           \/ \E i \in DOMAIN wire : wire'[j] = wire[i]
           \/ \E u \in unpublished : wire'[j] = u.event
    /\ \A j \in DOMAIN live'.log :
           \/ \E i \in DOMAIN live.log : live'.log[j] = live.log[i]
           \/ \E i \in DOMAIN wire :
                  /\ live'.log[j].event = wire[i] /\ wire[i] # Resubscribed
                  /\ Creates(wire[i]) => ~HasPendingEntities(Optimistic)
    /\ \A r \in DOMAIN reads' : \A list \in reads'[r].columns :
           (\E q \in DOMAIN reads : list \in reads[q].columns) \/ list = ListColumns(truth)
    /\ \/ snapshot' = snapshot
       \/ \E q \in DOMAIN reads : \E columns \in reads[q].columns :
              \E cards \in reads[q].cards : snapshot' = GroupCards(columns, cards)

Serves ==
    \/ truth' = truth /\ made' = made /\ unpublished' \subseteq unpublished
    \/ \E c, by : IsCommit(c, made) /\ Commit(c, by)

\* What the writes come to.
Ages ==
    /\ DOMAIN writes \subseteq DOMAIN writes'
    /\ \A i \in DOMAIN writes : writes'[i].change = writes[i].change
    /\ \A i \in DOMAIN writes' :
           \/ i \notin DOMAIN writes /\ writes'[i].row = None
           \/ /\ i \in DOMAIN writes
              /\ writes[i].phase = "over" => writes'[i].phase = "over"
              /\ \/ writes'[i].row \in {writes[i].row, None}
                 \/ writes'[i].row = made + 1 /\ Creates(writes[i].change)

\* No column comes back, and what is said of a commit denies no column that is left.
LEMMA ServesLasting ==
    ASSUME Rows, Serves
    PROVE  /\ \A k : InColumns(truth', k) /\ k <= FirstMade => InColumns(truth, k)
           /\ \A k : InColumns(truth', k) => \A u \in unpublished' :
                  u \in unpublished \/ ~Removes(u.event, k)
<1>1. CASE truth' = truth /\ made' = made /\ unpublished' \subseteq unpublished
  BY <1>1
<1>2. ASSUME NEW c, NEW by, IsCommit(c, made), Commit(c, by)
      PROVE  /\ \A k : InColumns(truth', k) /\ k <= FirstMade => InColumns(truth, k)
             /\ \A k : InColumns(truth', k) => \A u \in unpublished' :
                    u \in unpublished \/ ~Removes(u.event, k)
  <2>0. /\ made \in Nat /\ FirstMade <= made /\ FirstMade \in Nat
        /\ Sound(truth) /\ Within(truth, 1..made)
    BY DEF Rows, FirstMade
  <2>1. unpublished' = unpublished \cup {[event |-> EventOf(c), by |-> by]}
    BY <1>2 DEF Commit
  <2>2. PICK e : e = EventOf(c)
    OBVIOUS
  <2>3. \A u \in unpublished' : u \in unpublished \/ u.event = e
    BY <2>1, <2>2
  <2>4. CASE c.kind = "board.updated"
    <3>1. truth' = truth
      BY <1>2, <2>4 DEF Commit
    <3>2. e.kind # "column.deleted"
      BY <2>2, <2>4 DEF EventOf
    <3> QED  BY <2>3, <3>1, <3>2 DEF Removes
  <2>5. ASSUME NEW n \in Int, NEW name \in Word,
               c = [kind |-> "column.renamed", columnId |-> n, name |-> name]
        PROVE  BoardChange(c) /\ c.kind = "column.renamed" /\ e.kind # "column.deleted"
    <3>1. c.kind = "column.renamed" /\ c.name = name
      BY <2>5
    <3>2. e = [kind |-> "column.updated", columnId |-> n, name |-> name]
      BY <2>2, <2>5 DEF EventOf
    <3>3. e.kind # "column.deleted"
      BY <3>2
    <3> QED  BY <3>1, <3>3 DEF BoardChange
  <2>6. /\ c.kind # "board.updated" => BoardChange(c)
        /\ c.kind = "card.created" => c.card.id = made + 1
        /\ c.kind = "column.created" => c.column.id = made + 1
        /\ e.kind = "column.deleted" => e = c
    <3>1. CASE c.kind # "column.renamed"
      <4>1. e = c
        BY <2>2, <3>1 DEF EventOf
      <4>2. \A n, name : c # [kind |-> "column.renamed", columnId |-> n, name |-> name]
        BY <3>1
      <4> QED  BY <1>2, <4>1, <4>2 DEF IsCommit
    <3>2. CASE c.kind = "column.renamed"
      <4>1. PICK n \in Int, name \in Word :
                c = [kind |-> "column.renamed", columnId |-> n, name |-> name]
        BY <1>2, <3>2 DEF IsCommit
      <4> QED  BY <2>5, <3>2, <4>1
    <3> QED  BY <3>1, <3>2
  <2>7. CASE c.kind # "board.updated"
    <3>1. PICK t : t = truth' /\ t = ApplyBoardChange(truth, c)
      BY <1>2, <2>7 DEF Commit
    <3>2. made + 1 \notin 1..made /\ \A k : k <= FirstMade => k # made + 1
      BY <2>0
    <3>3. Unmade(truth, c) /\ BoardChange(c)
      BY <2>0, <2>6, <2>7, <3>2 DEF Unmade, Within
    <3>4. Gains(t, truth, c)
      BY <2>0, <3>1, <3>3, ChangedSound
    <3>5. \A k : InColumns(t, k) /\ k <= FirstMade => InColumns(truth, k)
      BY <2>6, <3>2, <3>4 DEF Gains
    <3>6. ASSUME NEW k, InColumns(t, k)
          PROVE  ~Removes(e, k)
      <4>1. SUFFICES ASSUME e.kind = "column.deleted", e.columnId = k
                     PROVE  FALSE
        BY DEF Removes
      <4>2. c.kind = "column.deleted" /\ c.columnId = k
        BY <2>6, <4>1
      <4> QED  BY <2>0, <3>1, <3>6, <4>2, ColumnGone
    <3> QED  BY <2>3, <3>1, <3>5, <3>6
  <2> QED  BY <2>4, <2>7
<1> QED  BY <1>1, <1>2 DEF Serves

\* So a column that lasts stays undenied.
LEMMA LastsStep ==
    ASSUME Rows, Lists, Lasts, Handed, Serves
    PROVE  Lasts'
<1>1. SUFFICES ASSUME NEW k, InColumns(truth', k), k <= FirstMade
               PROVE  Undenied(k)'
  BY DEF Lasts
<1>2. InColumns(truth, k) /\ Undenied(k)
  BY <1>1, ServesLasting DEF Lasts
<1>3. \A u \in unpublished' : ~Removes(u.event, k)
  BY <1>1, <1>2, ServesLasting DEF Undenied
<1>4. ~Removes(Resubscribed, k)
  BY DEF Removes, Resubscribed
<1>5. \A j \in DOMAIN wire' : ~Removes(wire'[j], k)
  BY <1>2, <1>4 DEF Handed, Undenied
<1>6. \A j \in DOMAIN live'.log : ~Removes(live'.log[j].event, k)
  BY <1>2 DEF Handed, Undenied
<1>7. Names(ListColumns(truth), k)
  <2>1. truth \in BoardType
    BY DEF Rows, Sound
  <2>2. PICK i \in 1..Len(truth.columns) : truth.columns[i].id = k
    BY <1>2, <2>1, OnBoardIs
  <2>3. i \in DOMAIN truth.columns
    BY <2>1, <2>2, BoardIs
  <2>4. ListColumns(truth)[i].id = k /\ i \in 1..Len(ListColumns(truth))
    BY <2>1, <2>2, <2>3, ListColumnsIs
  <2> QED  BY <2>4 DEF Names
<1>8. \A r \in DOMAIN reads' : \A list \in reads'[r].columns : Names(list, k)
  BY <1>2, <1>7 DEF Handed, Undenied
<1>9. InColumns(snapshot', k)
  <2>1. CASE snapshot' = snapshot
    BY <1>2, <2>1 DEF Undenied
  <2>2. ASSUME NEW q \in DOMAIN reads, NEW columns \in reads[q].columns,
               NEW cards \in reads[q].cards, snapshot' = GroupCards(columns, cards)
        PROVE  InColumns(snapshot', k)
    <3>1. /\ columns \in Seq(Listing) /\ Distinct(columns)
          /\ cards \in Seq(Card) /\ Distinct(cards)
      BY DEF Lists, IsListOf
    <3>2. \E i \in 1..Len(columns) : columns[i].id = k
      BY <1>2 DEF Undenied, Names
    <3>3. InColumns(GroupCards(columns, cards), k)
      BY <3>1, <3>2, Grouped
    <3> QED  BY <2>2, <3>3
  <2> QED  BY <2>1, <2>2 DEF Handed
<1> QED  BY <1>3, <1>5, <1>6, <1>8, <1>9 DEF Undenied

-----------------------------------------------------------------------------
(* Every step hands on, serves and ages. *)

\* A read that is asked for has no list yet.
LEMMA ReadBehind ==
    ASSUME Listed(reads), reads' = reads \/ \E by : reads' = Refresh(by)
    PROVE  \A r \in DOMAIN reads' : \A list \in reads'[r].columns :
               \E q \in DOMAIN reads : list \in reads[q].columns
<1>1. SUFFICES ASSUME NEW r \in DOMAIN reads', NEW list \in reads'[r].columns
               PROVE  \E q \in DOMAIN reads : list \in reads[q].columns
  OBVIOUS
<1>2. CASE reads' = reads
  BY <1>1, <1>2
<1>3. ASSUME NEW by, reads' = Refresh(by)
      PROVE  \E q \in DOMAIN reads : list \in reads[q].columns
  <2>1. PICK read : read = [by |-> by, columns |-> {}, cards |-> {}]
    OBVIOUS
  <2>2. reads' = Append(reads, read) /\ read.columns = {}
    BY <1>3, <2>1 DEF Refresh
  <2>3. PICK n \in Nat : n = Len(reads) /\ DOMAIN reads = 1..n
    BY ListedIs
  <2>4. /\ Listed(reads') /\ Len(reads') = n + 1
        /\ \A k \in 1..(n + 1) : reads'[k] = IF k = n + 1 THEN read ELSE reads[k]
    BY <2>2, <2>3, ListedAppend
  <2>5. r \in 1..(n + 1)
    <3>1. DOMAIN reads' = 1..(n + 1)
      BY <2>4, ListedIs
    <3> QED  BY <1>1, <3>1
  <2>6. r # n + 1
    BY <1>1, <2>2, <2>4, <2>5
  <2>7. r \in DOMAIN reads /\ reads'[r] = reads[r]
    BY <2>3, <2>4, <2>5, <2>6
  <2> QED  BY <1>1, <2>7
<1> QED  BY <1>2, <1>3

\* What hands nothing on, hands on no more than it may.
LEMMA HandedStill ==
    ASSUME Listed(reads), wire' = wire, live' = live, snapshot' = snapshot,
           reads' = reads \/ \E by : reads' = Refresh(by)
    PROVE  Handed
<1>1. /\ \A j \in DOMAIN wire' : \E i \in DOMAIN wire : wire'[j] = wire[i]
      /\ \A j \in DOMAIN live'.log : \E i \in DOMAIN live.log : live'.log[j] = live.log[i]
  OBVIOUS
<1>2. \A r \in DOMAIN reads' : \A list \in reads'[r].columns :
          \E q \in DOMAIN reads : list \in reads[q].columns
  BY ReadBehind
<1> QED  BY <1>1, <1>2 DEF Handed

\* A delivery puts in the log what was on the wire, a create only if nothing is pending.
LEMMA DeliverHanded ==
    ASSUME Layers, Listed(reads), Deliver
    PROVE  Handed
<1>1. wire # <<>> /\ wire' = Tail(wire) /\ snapshot' = snapshot
  BY DEF Deliver
<1>2. Listed(wire) /\ Listed(live.log)
  BY DEF Layers, Told
<1>3. PICK n \in Nat \ {0} : n = Len(wire) /\ DOMAIN wire = 1..n
  BY <1>1, <1>2, ListedTail, ListedIs
<1>4. /\ Listed(wire') /\ Len(wire') = n - 1 /\ Head(wire) = wire[1]
      /\ \A k \in 1..(n - 1) : wire'[k] = wire[k + 1]
  BY <1>1, <1>2, <1>3, ListedTail
<1>5. \A j \in DOMAIN wire' : \E i \in DOMAIN wire : wire'[j] = wire[i]
  <2>1. DOMAIN wire' = 1..(n - 1)
    BY <1>4, ListedIs
  <2>2. \A j \in 1..(n - 1) : j + 1 \in 1..n
    OBVIOUS
  <2> QED  BY <1>3, <1>4, <2>1, <2>2
<1>6. 1 \in DOMAIN wire
  BY <1>3
<1>7. CASE wire[1] = Resubscribed
  <2>1. OnResubscribed
    BY <1>4, <1>7 DEF Deliver
  <2>2. reads' = Refresh(None)
    BY <2>1 DEF OnResubscribed
  <2>3. DOMAIN live'.log = {}
    <3>1. DOMAIN live = {"log", "readsStarted", "timer"}
      BY DEF Layers, Stamped
    <3>2. live' = [[live EXCEPT !.log = <<>>] EXCEPT !.readsStarted = @ + 1]
      BY <2>1 DEF OnResubscribed, StartRead
    <3>3. live'.log = <<>>
      BY <3>1, <3>2
    <3> QED  BY <3>3, ListedEmpty
  <2>4. \A r \in DOMAIN reads' : \A list \in reads'[r].columns :
            (\E q \in DOMAIN reads : list \in reads[q].columns) \/ list = ListColumns(truth)
    BY <2>2, ReadBehind
  <2> QED  BY <1>1, <1>5, <2>3, <2>4 DEF Handed
<1>8. CASE wire[1] # Resubscribed
  <2>1. PICK e : e = wire[1]
    OBVIOUS
  <2>2. OnEvent(e) /\ reads' = reads
    BY <1>4, <1>8, <2>1 DEF Deliver, OnEvent
  <2>3. DOMAIN live = {"log", "readsStarted", "timer"}
    BY DEF Layers, Stamped
  <2>4. \A j \in DOMAIN live'.log :
           \/ \E i \in DOMAIN live.log : live'.log[j] = live.log[i]
           \/ \E i \in DOMAIN wire :
                  /\ live'.log[j].event = wire[i] /\ wire[i] # Resubscribed
                  /\ Creates(wire[i]) => ~HasPendingEntities(Optimistic)
    <3>1. CASE e.kind = "board.updated" \/ (Creates(e) /\ HasPendingEntities(Optimistic))
      <4>1. live' = [live EXCEPT !.timer = TRUE]
        BY <2>2, <3>1 DEF OnEvent, ScheduleRead
      <4>2. live'.log = live.log
        BY <2>3, <4>1
      <4> QED  BY <4>2
    <3>2. CASE ~(e.kind = "board.updated" \/ (Creates(e) /\ HasPendingEntities(Optimistic)))
      <4>1. PICK x : x = [event |-> e, stamp |-> live.readsStarted]
        OBVIOUS
      <4>2. live' = [[live EXCEPT !.log = Append(@, x)] EXCEPT !.timer = TRUE]
        BY <2>2, <3>2, <4>1 DEF OnEvent, ScheduleRead
      <4>3. live'.log = Append(live.log, x)
        BY <2>3, <4>2
      <4>4. PICK m \in Nat : m = Len(live.log) /\ DOMAIN live.log = 1..m
        BY <1>2, ListedIs
      <4>5. /\ Listed(live'.log) /\ Len(live'.log) = m + 1
            /\ \A k \in 1..(m + 1) : live'.log[k] = IF k = m + 1 THEN x ELSE live.log[k]
        BY <1>2, <4>3, <4>4, ListedAppend
      <4>6. DOMAIN live'.log = 1..(m + 1)
        BY <4>5, ListedIs
      <4>7. x.event = wire[1]
        BY <2>1, <4>1
      <4>8. Creates(wire[1]) => ~HasPendingEntities(Optimistic)
        BY <2>1, <3>2
      <4>9. ASSUME NEW j \in 1..(m + 1)
            PROVE  \/ \E i \in DOMAIN live.log : live'.log[j] = live.log[i]
                   \/ live'.log[j] = x
        BY <4>4, <4>5
      <4> QED  BY <1>6, <1>8, <4>6, <4>7, <4>8, <4>9
    <3> QED  BY <3>1, <3>2
  <2> QED  BY <1>1, <1>5, <2>2, <2>4 DEF Handed
<1> QED  BY <1>7, <1>8

\* A publication puts on the wire what was committed.
LEMMA PublishHanded ==
    ASSUME Layers, Listed(reads), NEW u \in unpublished, Publish(u)
    PROVE  Handed /\ Serves
<1>1. /\ truth' = truth /\ made' = made /\ unpublished' \subseteq unpublished
      /\ snapshot' = snapshot /\ live' = live /\ reads' = reads
      /\ wire' = Append(wire, u.event) \/ wire' = wire
  BY DEF Publish, screen
<1>2. CASE wire' = wire
  BY <1>1, <1>2, HandedStill DEF Serves
<1>3. CASE wire' = Append(wire, u.event)
  <2>1. PICK n \in Nat : n = Len(wire) /\ DOMAIN wire = 1..n
    BY ListedIs DEF Layers, Told
  <2>2. PICK e : e = u.event
    OBVIOUS
  <2>3. /\ Listed(wire') /\ Len(wire') = n + 1
        /\ \A k \in 1..(n + 1) : wire'[k] = IF k = n + 1 THEN e ELSE wire[k]
    BY <1>3, <2>1, <2>2, ListedAppend DEF Layers, Told
  <2>4. DOMAIN wire' = 1..(n + 1)
    BY <2>3, ListedIs
  <2>5. ASSUME NEW j \in 1..(n + 1)
        PROVE  wire'[j] = u.event \/ \E i \in DOMAIN wire : wire'[j] = wire[i]
    BY <2>1, <2>2, <2>3
  <2> QED  BY <1>1, <2>4, <2>5 DEF Handed, Serves
<1> QED  BY <1>1, <1>2, <1>3

\* A lost stream puts nothing there.
LEMMA DropsHanded ==
    ASSUME StreamDrops
    PROVE  Handed /\ Serves
<1>1. /\ truth' = truth /\ made' = made /\ unpublished' \subseteq unpublished
      /\ snapshot' = snapshot /\ live' = live /\ reads' = reads
      /\ wire' = <<Resubscribed>>
  BY DEF StreamDrops, screen
<1>2. \A j \in DOMAIN wire' : wire'[j] = Resubscribed
  BY <1>1
<1> QED  BY <1>1, <1>2 DEF Handed, Serves

\* A read has the columns there are.
LEMMA ReadHanded ==
    ASSUME Listed(reads), \A r \in DOMAIN reads : IsRead(reads[r]),
           NEW list \in {"columns", "cards"}, ReadList(list)
    PROVE  Handed /\ Serves
<1>0. /\ truth' = truth /\ made' = made /\ unpublished' = unpublished /\ wire' = wire
      /\ snapshot' = snapshot /\ live' = live /\ reads # <<>>
  BY DEF ReadList
<1>1. PICK n \in Nat \ {0} : n = Len(reads) /\ DOMAIN reads = 1..n
  BY <1>0, ListedTail, ListedIs
<1>2. 1 \in DOMAIN reads
  BY <1>1
<1>3. DOMAIN reads[1] = {"by", "columns", "cards"}
  BY <1>2 DEF IsRead
<1>4. PICK got : got = {IF list = "columns" THEN ListColumns(truth) ELSE ListCards(truth)}
  OBVIOUS
<1>5. reads' = [reads EXCEPT ![1][list] = got]
  BY <1>4 DEF ReadList
<1>6. reads = [k \in 1..n |-> reads[k]]
  BY <1>1, ListedIs
<1>7. DOMAIN reads' = 1..n /\ \A k \in 1..n : k # 1 => reads'[k] = reads[k]
  BY <1>1, <1>5, <1>6
<1>8. reads'[1].columns = {ListColumns(truth)} \/ reads'[1].columns = reads[1].columns
  <2>1. reads'[1] = [reads[1] EXCEPT ![list] = got]
    BY <1>2, <1>5
  <2>2. CASE list = "columns"
    BY <1>3, <1>4, <2>1, <2>2
  <2>3. CASE list = "cards"
    BY <1>3, <1>4, <2>1, <2>3
  <2> QED  BY <2>2, <2>3
<1>9. ASSUME NEW r \in DOMAIN reads', NEW l \in reads'[r].columns
      PROVE  (\E q \in DOMAIN reads : l \in reads[q].columns) \/ l = ListColumns(truth)
  <2>1. CASE r = 1
    BY <1>2, <1>8, <1>9, <2>1
  <2>2. CASE r # 1
    BY <1>1, <1>7, <1>9, <2>2
  <2> QED  BY <2>1, <2>2
<1> QED  BY <1>0, <1>9 DEF Handed, Serves

\* A page is rendered from what was read.
LEMMA RenderHanded ==
    ASSUME Layers, Listed(reads), Render
    PROVE  Handed /\ Serves
<1>0. /\ truth' = truth /\ made' = made /\ unpublished' = unpublished /\ wire' = wire
      /\ reads # <<>> /\ live' = Retire(live) /\ reads' = Tail(reads)
  BY DEF Render, server
<1>1. PICK n \in Nat \ {0} : n = Len(reads) /\ DOMAIN reads = 1..n /\ Head(reads) = reads[1]
  BY <1>0, ListedTail, ListedIs
<1>2. 1 \in DOMAIN reads
  BY <1>1
<1>3. \E q \in DOMAIN reads : \E columns \in reads[q].columns :
          \E cards \in reads[q].cards : snapshot' = GroupCards(columns, cards)
  BY <1>1, <1>2 DEF Render
<1>4. /\ Listed(reads') /\ Len(reads') = n - 1
      /\ \A k \in 1..(n - 1) : reads'[k] = reads[k + 1]
  BY <1>0, <1>1, ListedTail
<1>5. DOMAIN reads' = 1..(n - 1)
  BY <1>4, ListedIs
<1>6. \A k \in 1..(n - 1) : k + 1 \in 1..n
  OBVIOUS
<1>7. \A j \in DOMAIN live'.log : \E i \in DOMAIN live.log : live'.log[j] = live.log[i]
  BY <1>0, RetireIs DEF Layers, Told
<1> QED  BY <1>0, <1>1, <1>3, <1>4, <1>5, <1>6, <1>7 DEF Handed, Serves

\* The writes may stay as they are,
LEMMA AgesStill ==
    ASSUME writes' = writes
    PROVE  Ages
BY DEF Ages

\* one may get on,
LEMMA AgesOne ==
    ASSUME Recorded, NEW i \in DOMAIN writes, NEW w, Becomes(i, w),
           w.change = writes[i].change, writes[i].phase = "over" => w.phase = "over",
           \/ w.row = writes[i].row \/ w.row = None
           \/ w.row = made + 1 /\ Creates(writes[i].change)
    PROVE  Ages
BY DEF Ages, Becomes

\* or one may join them.
LEMMA AgesJoins ==
    ASSUME NEW w, Joins(w), w.row = None
    PROVE  Ages
<1>1. ASSUME NEW k \in DOMAIN writes
      PROVE  k \in DOMAIN writes' /\ writes'[k] = writes[k]
  BY DEF Joins
<1>2. ASSUME NEW k \in DOMAIN writes'
      PROVE  k \in DOMAIN writes \/ k = Len(writes) + 1
  BY DEF Joins
<1>3. writes'[Len(writes) + 1].row = None
  BY DEF Joins
<1>4. ASSUME NEW k \in DOMAIN writes', k \notin DOMAIN writes
      PROVE  writes'[k].row = None
  BY <1>2, <1>3, <1>4
<1> QED  BY <1>1, <1>4 DEF Ages

\* passGate: one that waited is sent.
LEMMA PassGateAges ==
    ASSUME Inv, NEW i \in DOMAIN writes, PassGate(i)
    PROVE  Ages
<1>1. writes[i].phase = "gated" /\ DOMAIN writes[i] = Fields
  BY DEF PassGate, Inv, Recorded, IsWrite
<1>2. \/ writes' = [writes EXCEPT ![i] = [@ EXCEPT !.phase = "waiting", !.request = "sent"]]
      \/ writes' = [writes EXCEPT ![i] = [@ EXCEPT !.phase = "over", !.settled = TRUE]]
  BY DEF PassGate
<1>3. PICK w : /\ writes' = [writes EXCEPT ![i] = w]
               /\ \/ w = [writes[i] EXCEPT !.phase = "waiting", !.request = "sent"]
                  \/ w = [writes[i] EXCEPT !.phase = "over", !.settled = TRUE]
  BY <1>2
<1>4. w.change = writes[i].change /\ w.row = writes[i].row
  BY <1>1, <1>3 DEF Fields
<1>5. Becomes(i, w)
  BY <1>3, ReplaceOne DEF Inv
<1> QED  BY <1>1, <1>4, <1>5, AgesOne DEF Inv

\* The API takes one up: it may get the row of its create.
LEMMA HandleAges ==
    ASSUME Inv, NEW i \in DOMAIN writes, HandleRequest(i)
    PROVE  Ages
<1>1. DOMAIN writes[i] = Fields
  BY DEF Inv, Recorded, IsWrite
<1>2. PICK v, r : /\ writes' = [writes EXCEPT ![i] = [@ EXCEPT !.request = v, !.row = r]]
                  /\ r = None \/ (r = made + 1 /\ Creates(writes[i].change))
  BY DEF HandleRequest
<1>3. PICK w : /\ writes' = [writes EXCEPT ![i] = w]
               /\ w = [writes[i] EXCEPT !.request = v, !.row = r]
  BY <1>2
<1>4. w.change = writes[i].change /\ w.phase = writes[i].phase /\ w.row = r
  BY <1>1, <1>3 DEF Fields
<1>5. Becomes(i, w)
  BY <1>3, ReplaceOne DEF Inv
<1> QED  BY <1>2, <1>4, <1>5, AgesOne DEF Inv

\* One is answered.
LEMMA AnsweredAges ==
    ASSUME Inv, NEW i \in DOMAIN writes, NEW accepted \in BOOLEAN, NEW refreshes \in BOOLEAN,
           writes[i].phase = "waiting", Answered(i, accepted, refreshes)
    PROVE  Ages
<1>1. DOMAIN writes[i] = Fields
  BY DEF Inv, Recorded, IsWrite
<1>2. PICK p : writes' = [writes EXCEPT ![i] = [@ EXCEPT !.accepted = accepted,
                                                  !.settled = TRUE, !.phase = p]]
  BY DEF Answered
<1>3. PICK w : /\ writes' = [writes EXCEPT ![i] = w]
               /\ w = [writes[i] EXCEPT !.accepted = accepted, !.settled = TRUE, !.phase = p]
  BY <1>2
<1>4. w.change = writes[i].change /\ w.row = writes[i].row
  BY <1>1, <1>3 DEF Fields
<1>5. Becomes(i, w)
  BY <1>3, ReplaceOne DEF Inv
<1> QED  BY <1>4, <1>5, AgesOne DEF Inv

\* Those that waited for the page are over.
LEMMA RenderAges ==
    ASSUME Inv, Render
    PROVE  Ages
<1>1. PICK b : writes' = [k \in DOMAIN writes |-> IF k = b
                                                  THEN [writes[k] EXCEPT !.phase = "over"]
                                                  ELSE writes[k]]
  BY DEF Render
<1>2. ASSUME NEW k \in DOMAIN writes
      PROVE  /\ writes'[k].change = writes[k].change /\ writes'[k].row = writes[k].row
             /\ writes[k].phase = "over" => writes'[k].phase = "over"
  <2>1. DOMAIN writes[k] = Fields
    BY DEF Inv, Recorded, IsWrite
  <2>2. writes'[k] = IF k = b THEN [writes[k] EXCEPT !.phase = "over"] ELSE writes[k]
    BY <1>1
  <2> QED  BY <2>1, <2>2 DEF Fields
<1>3. DOMAIN writes' = DOMAIN writes
  BY <1>1
<1> QED  BY <1>2, <1>3 DEF Ages

\* A move joins them.
LEMMA SendAges ==
    ASSUME Inv, NEW m, CommitMove(m)
    PROVE  Ages
<1>1. CASE writes' = writes
  BY <1>1, AgesStill
<1>2. CASE SendMove(m)
  <2>1. PICK w : /\ w = Write(m, tail[m.cardId], Unsettled(m.cardId))
                 /\ writes' = Append(writes, w)
    BY <1>2 DEF SendMove
  <2>2. w.row = None
    BY <2>1 DEF Write
  <2>3. Joins(w)
    BY <2>1, AppendJoins DEF Inv
  <2> QED  BY <2>2, <2>3, AgesJoins
<1> QED  BY <1>1, <1>2 DEF CommitMove, sending

\* What the user does adds at most one.
LEMMA GestureAges ==
    ASSUME Inv, Gesture
    PROVE  Ages /\ HandMoves
<1>1. ASSUME NEW c, Lift(c) \/ DragStart(c)
      PROVE  Ages /\ HandMoves
  BY <1>1, AgesStill DEF Lift, DragStart, sending
<1>2. ASSUME NEW direction, Nudge(direction)
      PROVE  Ages /\ HandMoves
  BY <1>2, AgesStill DEF Nudge, sending
<1>3. CASE KeyboardDrop
  <2>1. HandMoves /\ (UNCHANGED sending \/ CommitMove(Head(hand.proposal)))
    BY <1>3 DEF KeyboardDrop
  <2> QED  BY <2>1, AgesStill, SendAges DEF sending
<1>4. CASE KeyboardCancel \/ DragCancel
  BY <1>4, AgesStill DEF KeyboardCancel, DragCancel, sending
<1>5. ASSUME NEW over, NEW past, DragOver(over, past)
      PROVE  Ages /\ HandMoves
  BY <1>5, AgesStill DEF DragOver, sending
<1>6. ASSUME NEW over, NEW past, Drop(over, past)
      PROVE  Ages /\ HandMoves
  <2>1. HandMoves /\ (UNCHANGED sending \/ \E m : CommitMove(m))
    BY <1>6 DEF Drop
  <2> QED  BY <2>1, AgesStill, SendAges DEF sending
<1> QED  BY <1>1, <1>2, <1>3, <1>4, <1>5, <1>6 DEF Gesture

\* What a step of the screen alone leaves as it is.
LEMMA ScreenStep ==
    ASSUME Listed(reads), UNCHANGED <<server, wire, snapshot, live>>,
           reads' = reads \/ \E by : reads' = Refresh(by)
    PROVE  Handed /\ Serves
<1>1. /\ truth' = truth /\ made' = made /\ unpublished' = unpublished
      /\ wire' = wire /\ snapshot' = snapshot /\ live' = live
  BY DEF server
<1> QED  BY <1>1, HandedStill DEF Serves

\* So it is with an answer,
LEMMA AnsweredHands ==
    ASSUME Inv, NEW i \in DOMAIN writes, NEW accepted \in BOOLEAN,
           NEW refreshes \in BOOLEAN, writes[i].phase = "waiting",
           Answered(i, accepted, refreshes), UNCHANGED <<server, wire, snapshot, live, hand>>
    PROVE  Handed /\ Serves /\ Ages
<1>1. reads' = reads \/ \E by : reads' = Refresh(by)
  BY DEF Answered
<1>2. Listed(reads)
  BY DEF Inv, Recorded
<1> QED  BY <1>1, <1>2, AnsweredAges, ScreenStep

\* with a commit of others,
LEMMA CommitStepHands ==
    ASSUME Listed(reads), NEW c, NEW by, IsCommit(c, made), Commit(c, by),
           UNCHANGED <<missed, wire, screen>>
    PROVE  Handed /\ Serves
<1>1. wire' = wire /\ snapshot' = snapshot /\ live' = live /\ reads' = reads
  BY DEF screen
<1> QED  BY <1>1, HandedStill DEF Serves

\* with all that goes on by itself,
LEMMA RunsHands ==
    ASSUME Inv, Data, Runs
    PROVE  Handed /\ Serves /\ Ages
<1>1. /\ Listed(reads) /\ \A r \in DOMAIN reads : IsRead(reads[r])
      /\ Listed(writes) /\ Layers /\ Asked
  BY DEF Inv, Recorded, Data
<1>3. CASE Deliver
  <2>1. writes' = writes /\ truth' = truth /\ made' = made /\ unpublished' = unpublished
    BY <1>3 DEF Deliver, own, server
  <2> QED  BY <1>1, <1>3, <2>1, DeliverHanded, AgesStill DEF Serves
<1>4. CASE TimerFires
  <2>1. /\ writes' = writes /\ truth' = truth /\ made' = made /\ unpublished' = unpublished
        /\ wire' = wire /\ snapshot' = snapshot /\ reads' = Refresh(None)
    BY <1>4 DEF TimerFires, own, server
  <2>2. DOMAIN live = {"log", "readsStarted", "timer"}
    BY <1>1 DEF Layers, Stamped
  <2>3. live' = [[live EXCEPT !.timer = FALSE] EXCEPT !.readsStarted = @ + 1]
    BY <1>4 DEF TimerFires, StartRead
  <2>4. live'.log = live.log
    BY <2>2, <2>3
  <2>5. Handed
    <3>1. \A r \in DOMAIN reads' : \A list \in reads'[r].columns :
              \E q \in DOMAIN reads : list \in reads[q].columns
      BY <1>1, <2>1, ReadBehind
    <3> QED  BY <2>1, <2>4, <3>1 DEF Handed
  <2> QED  BY <2>1, <2>5, AgesStill DEF Serves
<1>5. CASE Render
  BY <1>1, <1>5, RenderHanded, RenderAges
<1>6. ASSUME NEW u \in unpublished, Publish(u)
      PROVE  Handed /\ Serves /\ Ages
  <2>1. writes' = writes
    BY <1>6 DEF Publish, own
  <2> QED  BY <1>1, <1>6, <2>1, PublishHanded, AgesStill
<1>7. ASSUME NEW list \in {"columns", "cards"}, ReadList(list)
      PROVE  Handed /\ Serves /\ Ages
  <2>1. writes' = writes
    BY <1>7 DEF ReadList, own
  <2> QED  BY <1>1, <1>7, <2>1, ReadHanded, AgesStill
<1>8. ASSUME NEW i \in DOMAIN writes, PassGate(i)
      PROVE  Handed /\ Serves /\ Ages
  <2>1. UNCHANGED <<server, wire, snapshot, live>> /\ reads' = reads
    BY <1>8 DEF PassGate, screen
  <2> QED  BY <1>1, <1>8, <2>1, PassGateAges, ScreenStep
<1>9. ASSUME NEW i \in DOMAIN writes, HandleRequest(i)
      PROVE  Handed /\ Serves /\ Ages
  <2>1. UNCHANGED <<missed, wire, screen>>
    BY <1>9 DEF HandleRequest
  <2>2. CASE UNCHANGED <<truth, made, unpublished>>
    <3>1. UNCHANGED <<server, wire, snapshot, live>> /\ reads' = reads
      BY <2>1, <2>2 DEF server, screen
    <3> QED  BY <1>1, <1>9, <3>1, HandleAges, ScreenStep
  <2>3. CASE Commit(Stored(writes[i].change), i)
    <3>1. PICK c : c = Stored(writes[i].change)
      OBVIOUS
    <3>2. i \in Nat \ {0} /\ made \in Nat
      BY <1>1, ListedIs DEF Layers, Rows
    <3>3. IsCommit(c, made)
      BY <1>1, <3>1, <3>2, StoredIs DEF Asked
    <3>4. Commit(c, i)
      BY <2>3, <3>1
    <3> QED  BY <1>1, <1>9, <2>1, <3>3, <3>4, CommitStepHands, HandleAges
  <2> QED  BY <1>9, <2>2, <2>3 DEF HandleRequest
<1>10. ASSUME NEW i \in DOMAIN writes, Answer(i)
       PROVE  Handed /\ Serves /\ Ages
  BY <1>1, <1>10, AnsweredHands DEF Answer
<1> QED  BY <1>3, <1>4, <1>5, <1>6, <1>7, <1>8, <1>9, <1>10 DEF Runs

\* and with every step.
LEMMA NextHands ==
    ASSUME Inv, Data, Next
    PROVE  Handed /\ Serves /\ Ages
<1>1. Listed(writes) /\ Listed(reads) /\ Layers /\ Asked /\ Rows /\ made \in Nat
  BY DEF Inv, Recorded, Data, Layers, Rows
<1>2. CASE OtherWrites
  <2>1. PICK c \in Edits : Commit(c, None)
    BY <1>2 DEF OtherWrites
  <2>2. IsCommit(c, made)
    BY <1>1, EditsAre
  <2>3. UNCHANGED <<missed, wire, screen>> /\ writes' = writes
    BY <1>2 DEF OtherWrites, own
  <2> QED  BY <1>1, <2>1, <2>2, <2>3, CommitStepHands, AgesStill
<1>3. CASE StreamDrops
  <2>1. writes' = writes
    BY <1>3 DEF StreamDrops, own
  <2> QED  BY <1>3, <2>1, DropsHanded, AgesStill
<1>4. CASE Compose \/ Arrange
  <2>1. PICK c : Submit(c)
    BY <1>4 DEF Compose, Arrange
  <2>2. PICK w : w = Write(c, None, {}) /\ writes' = Append(writes, w)
    BY <2>1 DEF Submit
  <2>3. w.row = None
    BY <2>2 DEF Write
  <2>4. Joins(w)
    BY <2>2, AppendJoins DEF Inv
  <2>5. UNCHANGED <<server, wire, snapshot, live>> /\ reads' = reads
    BY <2>1 DEF Submit, screen
  <2> QED  BY <1>1, <2>3, <2>4, <2>5, ScreenStep, AgesJoins
<1>5. CASE Gesture
  <2>1. Ages /\ HandMoves
    BY <1>5, GestureAges
  <2>2. UNCHANGED <<server, wire, snapshot, live>> /\ reads' = reads
    BY <2>1 DEF HandMoves, screen
  <2> QED  BY <1>1, <2>1, <2>2, ScreenStep
<1>6. ASSUME NEW i \in DOMAIN writes, AnswerLost(i)
      PROVE  Handed /\ Serves /\ Ages
  BY <1>1, <1>6, AnsweredHands DEF AnswerLost
<1> QED  BY <1>2, <1>3, <1>4, <1>5, <1>6, RunsHands DEF Next

-----------------------------------------------------------------------------
(* What the layers of the screen keep and gain, from the page to what is drawn. *)

\* What is live keeps a column nothing denies, and has nothing that was neither read nor made.
LEMMA LiveTells ==
    ASSUME Rows, Told, Lists
    PROVE  /\ \A k : InColumns(snapshot, k)
                     /\ (\A j \in DOMAIN live.log : ~Removes(live.log[j].event, k))
                     => InColumns(Live, k)
           /\ \A id : Has(Live, id) =>
                  \/ Has(snapshot, id)
                  \/ \E j \in DOMAIN live.log : Makes(live.log[j].event, id)
<1> DEFINE log == live.log
           events == [i \in DOMAIN log |-> log[i].event]
<1>1. Listed(log) /\ Len(log) \in Nat /\ DOMAIN log = 1..Len(log)
  BY ListedIs DEF Told
<1>2. DOMAIN events = 1..Len(log) /\ events = [i \in 1..Len(log) |-> events[i]]
  BY <1>1
<1>3. Listed(events) /\ Len(events) = Len(log)
  <2> HIDE DEF events, log
  <2> QED  BY <1>1, <1>2, ListedOf
<1>4. \A k \in DOMAIN events : events[k] = live.log[k].event /\ IsEvent(events[k], made)
  BY DEF Told
<1>5. Live = ApplyLiveLog(snapshot, events)
  BY DEF Live
<1> HIDE DEF events, log
<1>6. PICK run : LiveRuns(run, snapshot, events, made)
  BY <1>3, <1>4, LiveRun DEF Rows, Lists
<1>7. PICK n \in Nat : n = Len(events) /\ DOMAIN events = 1..n
  BY <1>1, <1>2, <1>3
<1>8. run[0] = snapshot /\ run[n] = Live /\ made \in Nat
  BY <1>5, <1>6, <1>7 DEF LiveRuns, Rows
<1>9. ASSUME NEW j \in 0..(n - 1)
      PROVE  /\ Sound(run[j]) /\ run[j + 1] = ApplyLiveEvent(run[j], events[j + 1])
             /\ IsEvent(events[j + 1], made) /\ j + 1 \in DOMAIN live.log
             /\ events[j + 1] = live.log[j + 1].event
  <2>1. j \in 0..n /\ j + 1 \in 1..n /\ (j + 1) - 1 = j
    OBVIOUS
  <2>2. run[j + 1] = ApplyLiveEvent(run[(j + 1) - 1], events[j + 1])
    BY <1>6, <1>7, <2>1 DEF LiveRuns
  <2>3. Sound(run[j])
    BY <1>6, <1>7, <2>1 DEF LiveRuns
  <2>4. j + 1 \in DOMAIN events /\ DOMAIN events = DOMAIN live.log
    BY <1>1, <1>2, <1>7, <2>1 DEF log
  <2> QED  BY <1>4, <2>1, <2>2, <2>3, <2>4
<1>10. ASSUME NEW j \in 0..(n - 1)
       PROVE  /\ \A id : Has(run[j + 1], id) =>
                     Has(run[j], id) \/ Makes(live.log[j + 1].event, id)
              /\ \A k : InColumns(run[j], k) /\ ~Removes(live.log[j + 1].event, k)
                     => InColumns(run[j + 1], k)
              /\ j + 1 \in DOMAIN live.log
  <2>1. PICK e : e = events[j + 1]
    OBVIOUS
  <2>2. PICK s : s = run[j]
    OBVIOUS
  <2>3. /\ \A id : Has(ApplyLiveEvent(s, e), id) => Has(s, id) \/ Makes(e, id)
        /\ \A k : InColumns(s, k) /\ ~Removes(e, k) => InColumns(ApplyLiveEvent(s, e), k)
    BY <1>8, <1>9, <2>1, <2>2, EventSpares
  <2> QED  BY <1>9, <2>1, <2>2, <2>3
<1>11. ASSUME NEW k, InColumns(snapshot, k),
              \A j \in DOMAIN live.log : ~Removes(live.log[j].event, k)
       PROVE  InColumns(Live, k)
  <2>1. PICK T : T = {j \in 0..n : InColumns(run[j], k)}
    OBVIOUS
  <2>2. 0 \in T
    BY <1>8, <1>11, <2>1
  <2>3. \A j \in 0..(n - 1) : j \in T => j + 1 \in T
    BY <1>10, <1>11, <2>1
  <2>4. 0..n \subseteq T
    BY <2>2, <2>3, UpTo, Zenon
  <2>5. n \in T
    BY <2>4
  <2> QED  BY <1>8, <2>1, <2>5
<1>12. ASSUME NEW id, ~Has(snapshot, id),
              \A j \in DOMAIN live.log : ~Makes(live.log[j].event, id)
       PROVE  ~Has(Live, id)
  <2>1. PICK T : T = {j \in 0..n : ~Has(run[j], id)}
    OBVIOUS
  <2>2. 0 \in T
    BY <1>8, <1>12, <2>1
  <2>3. \A j \in 0..(n - 1) : j \in T => j + 1 \in T
    BY <1>10, <1>12, <2>1
  <2>4. 0..n \subseteq T
    BY <2>2, <2>3, UpTo, Zenon
  <2>5. n \in T
    BY <2>4
  <2> QED  BY <1>8, <2>1, <2>5
<1> QED  BY <1>11, <1>12

\* The same of what is drawn of this user's own writes.
LEMMA DrawingSpares ==
    ASSUME Recorded, Rows, Asked, NEW run, OptimisticRuns(run), NEW k \in 1..Len(writes)
    PROVE  /\ k \in DOMAIN writes
           /\ \A id \in Nat : Has(run[k], id) => Has(run[k - 1], id)
           /\ writes[k].phase = "over" => run[k] = run[k - 1]
           /\ writes[k].phase # "over" => Spared(run[k], run[k - 1], writes[k].change)
<1>1. Len(writes) \in Nat /\ DOMAIN writes = 1..Len(writes) /\ made \in Nat
  BY ListedIs DEF Recorded, Rows
<1>2. k \in DOMAIN writes /\ k \in Nat \ {0} /\ k - 1 \in 0..Len(writes)
  BY <1>1
<1>3. run[k] = Drawing(run[k - 1], writes[k]) /\ Fine(run[k - 1], made, k - 1)
  BY <1>2 DEF OptimisticRuns
<1>4. CASE writes[k].phase = "over"
  BY <1>2, <1>3, <1>4 DEF Drawing
<1>5. CASE writes[k].phase # "over"
  <2>1. PICK s : s = run[k - 1]
    OBVIOUS
  <2>2. PICK c : c = writes[k].change
    OBVIOUS
  <2>3. run[k] = ApplyBoardChange(s, c) /\ IsOwnChange(c, k) /\ Fine(s, made, k - 1)
    BY <1>2, <1>3, <1>5, <2>1, <2>2 DEF Drawing, Asked
  <2>4. /\ \A id \in Nat : Has(ApplyBoardChange(s, c), id) => Has(s, id)
        /\ Spared(ApplyBoardChange(s, c), s, c)
    BY <1>1, <1>2, <2>3, OwnSpares
  <2> QED  BY <1>2, <1>5, <2>1, <2>2, <2>3, <2>4
<1> QED  BY <1>4, <1>5

\* This user's writes draw no id of the server's that is not live,
LEMMA OptimisticTells ==
    ASSUME Recorded, Held, Rows, Told, Lists, Asked
    PROVE  \A id \in Nat : Has(Optimistic, id) => Has(Live, id)
<1>1. PICK run : OptimisticRuns(run)
  BY ScreenFine
<1>2. PICK n \in Nat : n = Len(writes)
  BY ListedIs DEF Recorded
<1>3. run[0] = Live /\ run[n] = Optimistic
  BY <1>1, <1>2 DEF OptimisticRuns
<1>4. SUFFICES ASSUME NEW id \in Nat, ~Has(Live, id)
               PROVE  ~Has(Optimistic, id)
  OBVIOUS
<1>5. PICK T : T = {k \in 0..n : ~Has(run[k], id)}
  OBVIOUS
<1>6. 0 \in T
  BY <1>3, <1>4, <1>5
<1>7. ASSUME NEW k \in 0..(n - 1), k \in T
      PROVE  k + 1 \in T
  <2>1. PICK m \in 1..n : m = k + 1
    OBVIOUS
  <2>2. Has(run[m], id) => Has(run[m - 1], id)
    BY <1>1, <1>2, <1>4, DrawingSpares
  <2>3. m - 1 = k /\ m \in 0..n
    BY <2>1
  <2> QED  BY <1>5, <1>7, <2>1, <2>2, <2>3
<1>8. 0..n \subseteq T
  BY <1>6, <1>7, UpTo, Zenon
<1>9. n \in T
  BY <1>8
<1> QED  BY <1>3, <1>5, <1>9

\* and the proposal draws nothing new.
LEMMA ShownTells ==
    ASSUME Recorded, Held, Rows, Told, Lists, Asked
    PROVE  \A id : Has(Shown, id) => Has(Optimistic, id)
<1>1. PICK p : p = hand.proposal
  OBVIOUS
<1>3. p = <<>> \/ \E move : p = <<move>> /\ IsOwnMove(move)
  BY <1>1, ProposalIs DEF Offers
<1>4. Sound(Optimistic)
  BY ScreenFine DEF Fine
<1>5. CASE p = <<>>
  BY <1>1, <1>5, ShownIs
<1>6. ASSUME NEW move, p = <<move>>, IsOwnMove(move)
      PROVE  \A id : Has(Shown, id) => Has(Optimistic, id)
  <2>1. Shown = ApplyBoardChange(Optimistic, move)
    BY <1>1, <1>6, ShownIs
  <2> QED  BY <1>4, <1>6, <2>1, MoveSpares
<1> QED  BY <1>3, <1>5, <1>6

-----------------------------------------------------------------------------
(* While a create is pending its stand-in is drawn, and so its row is not logged. *)

\* The column of a pending create stays, and what stands in for the row stays in it.
LEMMA StandInStays ==
    ASSUME Recorded, Rows, Asked, NEW run, OptimisticRuns(run), NEW i \in DOMAIN writes,
           writes[i].phase # "over", NEW K, InColumns(Live, K),
           \A j \in DOMAIN writes : ~Removes(writes[j].change, K),
           writes[i].change.kind = "card.created", writes[i].change.card.columnId = K
    PROVE  IsIn(Optimistic, K, -i)
<1>1. PICK n \in Nat : n = Len(writes) /\ DOMAIN writes = 1..n
  BY ListedIs DEF Recorded
<1>2. run[0] = Live /\ run[n] = Optimistic /\ i \in 1..n
  BY <1>1 DEF OptimisticRuns
<1>3. writes[i].change.card.id = -i
  BY <1>1, <1>2, OwnChangeIs DEF Asked
<1>4. PICK T : T = {k \in 0..n : InColumns(run[k], K) /\ (i <= k => IsIn(run[k], K, -i))}
  OBVIOUS
<1>5. 0 \in T
  BY <1>2, <1>4
<1>6. ASSUME NEW k \in 0..(n - 1), k \in T
      PROVE  k + 1 \in T
  <2>1. PICK m \in 1..n : m = k + 1
    OBVIOUS
  <2>2. m - 1 = k /\ m \in 0..n /\ m \in DOMAIN writes /\ m \in Nat \ {0}
    BY <1>1, <2>1
  <2>3. InColumns(run[k], K) /\ (i <= k => IsIn(run[k], K, -i))
    BY <1>4, <1>6
  <2>4. /\ writes[m].phase = "over" => run[m] = run[m - 1]
        /\ writes[m].phase # "over" => Spared(run[m], run[m - 1], writes[m].change)
    BY <1>1, DrawingSpares
  <2>5. CASE writes[m].phase = "over"
    <3>1. i # m /\ run[m] = run[k]
      BY <2>2, <2>4, <2>5
    <3>2. i <= m => i <= k
      BY <1>2, <2>1, <3>1
    <3>3. InColumns(run[m], K) /\ (i <= m => IsIn(run[m], K, -i))
      BY <2>3, <3>1, <3>2
    <3> QED  BY <1>4, <2>1, <2>2, <3>3
  <2>6. CASE writes[m].phase # "over"
    <3>1. PICK c : c = writes[m].change
      OBVIOUS
    <3>2. Spared(run[m], run[k], c)
      BY <2>2, <2>4, <2>6, <3>1
    <3>3. ~(c.kind = "column.deleted" /\ c.columnId = K)
      BY <2>2, <3>1 DEF Removes
    <3>4. /\ c.kind # "card.deleted" /\ (c.kind = "card.moved" => IsOwnMove(c))
      BY <2>2, <3>1, OwnChangeIs DEF Asked
    <3>5. ~(c.kind \in {"card.deleted", "card.moved"} /\ c.cardId = -i)
      <4>1. -i \notin Nat
        BY <1>2
      <4> QED  BY <3>4, <4>1 DEF IsOwnMove
    <3>6. InColumns(run[m], K)
      BY <2>3, <3>2, <3>3 DEF Spared
    <3>7. i <= k => IsIn(run[m], K, -i)
      BY <2>3, <3>2, <3>3, <3>5 DEF Spared
    <3>8. i = m => IsIn(run[m], K, -i)
      BY <1>3, <2>3, <3>1, <3>2 DEF Spared
    <3>9. i <= m => i <= k \/ i = m
      BY <1>2, <2>1
    <3>10. InColumns(run[m], K) /\ (i <= m => IsIn(run[m], K, -i))
      BY <3>6, <3>7, <3>8, <3>9
    <3> QED  BY <1>4, <2>1, <2>2, <3>10
  <2> QED  BY <2>5, <2>6
<1>7. 0..n \subseteq T
  BY <1>5, <1>6, UpTo, Zenon
<1>8. n \in T /\ i <= n
  BY <1>2, <1>7
<1> QED  BY <1>2, <1>4, <1>8

\* What stands in for a column stays.
LEMMA ColumnStandInStays ==
    ASSUME Recorded, Rows, Asked, NEW run, OptimisticRuns(run), NEW i \in DOMAIN writes,
           writes[i].phase # "over", writes[i].change.kind = "column.created"
    PROVE  InColumns(Optimistic, -i)
<1>1. PICK n \in Nat : n = Len(writes) /\ DOMAIN writes = 1..n
  BY ListedIs DEF Recorded
<1>2. run[n] = Optimistic /\ i \in 1..n
  BY <1>1 DEF OptimisticRuns
<1>3. writes[i].change.column.id = -i
  BY <1>1, <1>2, OwnChangeIs DEF Asked
<1>4. PICK T : T = {k \in 0..n : i <= k => InColumns(run[k], -i)}
  OBVIOUS
<1>5. 0 \in T
  BY <1>2, <1>4
<1>6. ASSUME NEW k \in 0..(n - 1), k \in T
      PROVE  k + 1 \in T
  <2>1. PICK m \in 1..n : m = k + 1
    OBVIOUS
  <2>2. m - 1 = k /\ m \in 0..n /\ m \in DOMAIN writes /\ m \in Nat \ {0}
    BY <1>1, <2>1
  <2>3. i <= k => InColumns(run[k], -i)
    BY <1>4, <1>6
  <2>4. /\ writes[m].phase = "over" => run[m] = run[m - 1]
        /\ writes[m].phase # "over" => Spared(run[m], run[m - 1], writes[m].change)
    BY <1>1, DrawingSpares
  <2>5. CASE writes[m].phase = "over"
    <3>1. i # m /\ run[m] = run[k]
      BY <2>2, <2>4, <2>5
    <3>2. i <= m => i <= k
      BY <1>2, <2>1, <3>1
    <3>3. i <= m => InColumns(run[m], -i)
      BY <2>3, <3>1, <3>2
    <3> QED  BY <1>4, <2>1, <2>2, <3>3
  <2>6. CASE writes[m].phase # "over"
    <3>1. PICK c : c = writes[m].change
      OBVIOUS
    <3>2. Spared(run[m], run[k], c)
      BY <2>2, <2>4, <2>6, <3>1
    <3>3. ~(c.kind = "column.deleted" /\ c.columnId = -i)
      <4>1. c.kind = "column.deleted" => c.columnId \in Nat \ {0}
        BY <2>2, <3>1, OwnChangeIs DEF Asked
      <4>2. -i \notin Nat
        BY <1>2
      <4> QED  BY <4>1, <4>2
    <3>4. i <= k => InColumns(run[m], -i)
      BY <2>3, <3>2, <3>3 DEF Spared
    <3>5. i = m => InColumns(run[m], -i)
      BY <1>3, <3>1, <3>2 DEF Spared
    <3>6. i <= m => i <= k \/ i = m
      BY <1>2, <2>1
    <3>7. i <= m => InColumns(run[m], -i)
      BY <3>4, <3>5, <3>6
    <3> QED  BY <1>4, <2>1, <2>2, <3>7
  <2> QED  BY <2>5, <2>6
<1>7. 0..n \subseteq T
  BY <1>5, <1>6, UpTo, Zenon
<1>8. n \in T /\ i <= n
  BY <1>2, <1>7
<1> QED  BY <1>2, <1>4, <1>8

\* A create that is pending, in a column that lasts, is on screen.
LEMMA StandInDrawn ==
    ASSUME Inv, Data, Lasts, NEW i \in DOMAIN writes, writes[i].phase # "over",
           Creates(writes[i].change), Abiding(writes[i].change)
    PROVE  HasPendingEntities(Optimistic)
<1>1. /\ Recorded /\ Held /\ Rows /\ Told /\ Lists /\ Asked
      /\ truth \in BoardType
  BY DEF Inv, Data, Layers, Rows, Sound
<1>2. i \in Nat \ {0} /\ IsPendingId(-i)
  <2>1. i \in 1..Len(writes)
    BY <1>1, ListedIs DEF Recorded
  <2> QED  BY <2>1 DEF IsPendingId
<1>3. PICK run : OptimisticRuns(run)
  BY <1>1, ScreenFine
<1>4. CASE writes[i].change.kind = "column.created"
  <2>1. InColumns(Optimistic, -i)
    BY <1>1, <1>3, <1>4, ColumnStandInStays
  <2> QED  BY <1>2, <2>1, PendingIs DEF Has
<1>5. CASE writes[i].change.kind = "card.created"
  <2>1. PICK K : K = writes[i].change.card.columnId
    OBVIOUS
  <2>2. Lasting(K)
    BY <1>5, <2>1 DEF Abiding
  <2>3. InColumns(truth, K) /\ K <= FirstMade
    BY <1>1, <2>2, HasColumnIs DEF Lasting
  <2>4. Undenied(K)
    BY <2>3 DEF Lasts
  <2>5. InColumns(Live, K)
    BY <1>1, <2>4, LiveTells DEF Undenied
  <2>6. \A j \in DOMAIN writes : ~Removes(writes[j].change, K)
    BY <2>2 DEF Lasting, Removes
  <2>7. IsIn(Optimistic, K, -i)
    BY <1>1, <1>3, <1>5, <2>1, <2>5, <2>6, StandInStays
  <2>8. OnBoard(Optimistic, -i)
    BY <2>7 DEF IsIn, OnBoard
  <2> QED  BY <1>2, <2>8, PendingIs DEF Has
<1> QED  BY <1>4, <1>5 DEF Creates

\* An event makes no row that is yet to be made.
LEMMA MadeBefore ==
    ASSUME NEW m \in Nat, NEW e, IsEvent(e, m), NEW id, Makes(e, id)
    PROVE  id \in 1..m /\ Creates(e)
<1>1. e.kind \in {"card.created", "column.created"}
  BY DEF Makes
<1>2. \A k, name : e # [kind |-> "column.updated", columnId |-> k, name |-> name]
  <2>1. SUFFICES ASSUME NEW k, NEW name,
                        e = [kind |-> "column.updated", columnId |-> k, name |-> name]
                 PROVE  FALSE
    OBVIOUS
  <2>2. e.kind = "column.updated"
    BY <2>1
  <2> QED  BY <1>1, <2>2
<1>3. /\ e.kind = "card.created" => e.card.id \in 1..m
      /\ e.kind = "column.created" => e.column.id \in 1..m
  BY <1>1, <1>2 DEF IsEvent
<1> QED  BY <1>1, <1>3 DEF Makes, Creates

\* A step keeps the rows of pending creates out of the log.
LEMMA UnshownStep ==
    ASSUME Inv, Data, Lasts, Rowed, Unshown, Handed, Serves, Ages, Data'
    PROVE  Rowed' /\ Unshown'
<1>1. /\ Rows /\ Told /\ made \in Nat /\ truth \in BoardType /\ truth' \in BoardType
  BY DEF Data, Layers, Rows, Sound
<1>2. Rowed'
  <2>1. None \in Nat /\ made + 1 \in Nat
    BY <1>1 DEF None
  <2>2. ASSUME NEW i \in DOMAIN writes'
        PROVE  writes'[i].row \in Nat /\ (writes'[i].row # None => Creates(writes'[i].change))
    <3>1. CASE i \notin DOMAIN writes
      BY <2>1, <3>1 DEF Ages
    <3>2. CASE i \in DOMAIN writes
      <4>1. writes'[i].change = writes[i].change
        BY <3>2 DEF Ages
      <4>2. \/ writes'[i].row = writes[i].row \/ writes'[i].row = None
            \/ writes'[i].row = made + 1 /\ Creates(writes[i].change)
        BY <3>2 DEF Ages
      <4> QED  BY <2>1, <3>2, <4>1, <4>2 DEF Rowed
    <3> QED  BY <3>1, <3>2
  <2> QED  BY <2>2 DEF Rowed
<1>3. ASSUME NEW k, Lasting(k)'
      PROVE  Lasting(k)
  <2>1. k <= FirstMade /\ HasColumn(truth', k)
    BY <1>3 DEF Lasting
  <2>2. InColumns(truth', k)
    BY <1>1, <2>1, HasColumnIs
  <2>3. InColumns(truth, k)
    BY <1>1, <2>1, <2>2, ServesLasting
  <2>4. HasColumn(truth, k)
    BY <1>1, <2>3, HasColumnIs
  <2>5. ASSUME NEW j \in DOMAIN writes, writes[j].change.kind = "column.deleted"
        PROVE  writes[j].change.columnId # k
    <3>1. j \in DOMAIN writes' /\ writes'[j].change = writes[j].change
      BY DEF Ages
    <3> QED  BY <1>3, <2>5, <3>1 DEF Lasting
  <2> QED  BY <2>1, <2>4, <2>5 DEF Lasting
<1>4. ASSUME NEW i \in DOMAIN writes', writes'[i].row # None, writes'[i].phase # "over",
             Abiding(writes[i].change)', NEW j \in DOMAIN live'.log,
             Makes(live'.log[j].event, writes'[i].row)
      PROVE  FALSE
  <2>1. i \in DOMAIN writes
    BY <1>4 DEF Ages
  <2>2. writes'[i].change = writes[i].change /\ writes[i].phase # "over"
    BY <1>4, <2>1 DEF Ages
  <2>3. PICK c : c = writes[i].change
    OBVIOUS
  <2>4. Abiding(c)
    BY <1>3, <1>4, <2>2, <2>3 DEF Abiding
  <2>5. PICK id : id = writes'[i].row
    OBVIOUS
  <2>6. \/ id = writes[i].row
        \/ id = made + 1
    BY <1>4, <2>1, <2>5 DEF Ages
  <2>7. \/ \E x \in DOMAIN live.log : live'.log[j] = live.log[x]
        \/ \E x \in DOMAIN wire :
               /\ live'.log[j].event = wire[x] /\ wire[x] # Resubscribed
               /\ Creates(wire[x]) => ~HasPendingEntities(Optimistic)
    BY <1>4 DEF Handed
  <2>8. PICK e : e = live'.log[j].event
    OBVIOUS
  <2>9. IsEvent(e, made)
    BY <1>1, <2>7, <2>8 DEF Told
  <2>10. id \in 1..made /\ Creates(e)
    BY <1>1, <1>4, <2>5, <2>8, <2>9, MadeBefore
  <2>11. id = writes[i].row /\ writes[i].row # None
    <3>1. id # made + 1
      BY <1>1, <2>10
    <3> QED  BY <1>4, <2>5, <2>6, <3>1
  <2>12. CASE \E x \in DOMAIN live.log : live'.log[j] = live.log[x]
    BY <1>4, <2>1, <2>2, <2>3, <2>4, <2>5, <2>11, <2>12 DEF Unshown
  <2>13. CASE Creates(e) => ~HasPendingEntities(Optimistic)
    <3>1. Creates(c)
      BY <2>1, <2>3, <2>11 DEF Rowed
    <3>2. HasPendingEntities(Optimistic)
      BY <2>1, <2>2, <2>3, <2>4, <3>1, StandInDrawn
    <3> QED  BY <2>10, <2>13, <3>2
  <2> QED  BY <2>7, <2>8, <2>12, <2>13
<1>5. Unshown'
  BY <1>4 DEF Unshown
<1> QED  BY <1>2, <1>5

\* What stays of the first page, and what is not shown of what is made.
Drafted == Lasts /\ Rowed /\ Unshown

\* The first page is as it was read, and nothing is written.
LEMMA InitDrafted ==
    ASSUME Init
    PROVE  Drafted
<1>1. /\ unpublished = {} /\ wire = <<>> /\ snapshot = truth /\ reads = <<>> /\ writes = <<>>
      /\ live = [log |-> <<>>, readsStarted |-> 0, timer |-> FALSE]
  BY DEF Init
<1>2. live.log = <<>>
  BY <1>1
<1>3. DOMAIN <<>> = {}
  BY ListedEmpty
<1> QED  BY <1>1, <1>2, <1>3 DEF Drafted, Lasts, Undenied, Rowed, Unshown

\* All this is of the variables alone.
LEMMA DraftedStays ==
    ASSUME Drafted, UNCHANGED vars
    PROVE  Drafted'
<1>1. /\ truth' = truth /\ unpublished' = unpublished /\ wire' = wire /\ snapshot' = snapshot
      /\ live' = live /\ reads' = reads /\ writes' = writes
  BY DEF vars, server, screen, own
<1>2. Lasts'
  BY <1>1 DEF Drafted, Lasts, Undenied
<1>3. Rowed'
  BY <1>1 DEF Drafted, Rowed
<1>4. Unshown'
  BY <1>1 DEF Drafted, Unshown, Abiding, Lasting
<1> QED  BY <1>2, <1>3, <1>4 DEF Drafted

(* Throughout, a column of the first page that is still there is in all that was read
   and denied by nothing that was said; and the log has no row of a create that is
   pending in such a column. *)
THEOREM BoardDrafts == Spec => [](Inv /\ Data /\ Drafted)
<1>1. Init => Drafted
  BY InitDrafted
<1>2. ASSUME Inv, Data, Drafted, Next, Data'
      PROVE  Drafted'
  <2>1. Handed /\ Serves /\ Ages
    BY <1>2, NextHands
  <2>2. Lasts'
    BY <1>2, <2>1, LastsStep DEF Drafted, Data, Layers
  <2>3. Rowed' /\ Unshown'
    BY <1>2, <2>1, UnshownStep DEF Drafted
  <2> QED  BY <2>2, <2>3 DEF Drafted
<1>3. Inv /\ Data /\ Data' /\ Drafted /\ [Next]_vars => Drafted'
  BY <1>2, DraftedStays
<1> QED  BY <1>1, <1>3, BoardLayers, PTL DEF Spec

\* Of things with ids of their own there are as many as there are ids.
LEMMA DistinctCounted ==
    ASSUME NEW T, NEW seq \in Seq(T), Distinct(seq)
    PROVE  Cardinality({seq[i].id : i \in DOMAIN seq}) = Len(seq)
<1>1. PICK n \in Nat : n = Len(seq) /\ DOMAIN seq = 1..n
  OBVIOUS
<1>2. PICK S : S = {seq[i].id : i \in 1..n}
  OBVIOUS
<1>3. PICK f : f = [i \in 1..n |-> seq[i].id]
  OBVIOUS
<1>4. f \in Bijection(1..n, S)
  <2>1. f \in [1..n -> S]
    BY <1>2, <1>3
  <2>2. \A a, b \in 1..n : f[a] = f[b] => a = b
    BY <1>1, <1>3 DEF Distinct
  <2>3. \A y \in S : \E a \in 1..n : f[a] = y
    BY <1>2, <1>3
  <2>4. f \in Injection(1..n, S)
    BY <2>1, <2>2 DEF Injection, IsInjective
  <2>5. f \in Surjection(1..n, S)
    BY <2>1, <2>3 DEF Surjection
  <2> QED  BY <2>4, <2>5 DEF Bijection
<1>5. ExistsBijection(1..n, S)
  BY <1>4 DEF ExistsBijection
<1> QED  BY <1>1, <1>2, <1>5, FS_CountingElements

(* Nothing is drawn twice. *)
THEOREM BoardDrawnOnce == Spec => []DrawnOnce
<1>1. ASSUME Inv, Data, Drafted
      PROVE  DrawnOnce
  <2>1. /\ Recorded /\ Held /\ Rows /\ Told /\ Lists /\ Asked
        /\ snapshot \in BoardType
    BY <1>1 DEF Inv, Data, Layers, Lists, Sound
  <2>2. PICK s \in BoardType : s = Shown /\ Once(s)
    BY <2>1, ScreenFine DEF Fine, Sound
  <2>3. PICK cards \in Seq(Card) : cards = ListCards(s)
    BY ListCardsIs
  <2>4. Distinct(cards)
    BY <2>2, <2>3, ListCardsDistinct
  <2>5. Cardinality({cards[i].id : i \in DOMAIN cards}) = Len(cards)
    BY <2>4, DistinctCounted
  <2>6. ASSUME NEW i \in DOMAIN writes, writes[i].row # None, writes[i].phase # "over",
               Abiding(writes[i].change), writes[i].row \notin IdsOf(snapshot)
        PROVE  writes[i].row \notin IdsOf(s)
    <3>1. PICK id : id = writes[i].row
      OBVIOUS
    <3>2. id \in Nat /\ \A j \in DOMAIN live.log : ~Makes(live.log[j].event, id)
      BY <1>1, <2>6, <3>1 DEF Drafted, Rowed, Unshown
    <3>3. ~Has(snapshot, id)
      BY <2>1, <2>6, <3>1, IdsAre
    <3>4. ~Has(Live, id)
      BY <2>1, <3>2, <3>3, LiveTells
    <3>5. ~Has(Optimistic, id)
      BY <2>1, <3>2, <3>4, OptimisticTells
    <3>6. ~Has(s, id)
      BY <2>1, <2>2, <3>5, ShownTells
    <3> QED  BY <3>1, <3>6, IdsAre
  <2>7. \A i \in DOMAIN writes : LET c == writes[i].change IN
            /\ writes[i].row # None /\ writes[i].phase # "over"
            /\ c.kind = "card.created" => Lasting(c.card.columnId)
            /\ writes[i].row \notin IdsOf(snapshot)
            => ~({-i, writes[i].row} \subseteq IdsOf(s))
    BY <2>6 DEF Abiding
  <2> QED  BY <2>2, <2>3, <2>5, <2>7 DEF DrawnOnce
<1> QED  BY <1>1, BoardDrafts, PTL

-----------------------------------------------------------------------------
(* A card carried along its column. *)

\* A list without the card at d is the list with d taken out,
LEMMA WithoutOne ==
    ASSUME NEW v \in Seq(Card), Distinct(v), NEW d \in 1..Len(v)
    PROVE  Without(v, v[d].id) = RemoveAt(v, d)
<1>1. PICK n \in Nat : n = Len(v)
  OBVIOUS
<1>2. PICK u : u = RemoveAt(v, d)
  OBVIOUS
<1>3. /\ u \in Seq(Card) /\ Len(u) = n - 1
      /\ \A j \in 1..(n - 1) : u[j] = IF j < d THEN v[j] ELSE v[j + 1]
  BY <1>1, <1>2, RemoveAtIs
<1>4. d \in 1..n /\ d \in Int /\ n - 1 \in Nat
  BY <1>1
<1>5. PICK p : p = [j \in 1..(n - 1) |-> IF j < d THEN j ELSE j + 1]
  OBVIOUS
<1>6. PICK S : S = {c \in ToSet(v) : c.id # v[d].id}
  OBVIOUS
<1>7. \A i \in 1..n : v[i] \in S <=> i # d
  <2>1. \A i \in 1..n : v[i] \in ToSet(v)
    BY <1>1 DEF ToSet
  <2>2. \A i \in 1..n : v[i].id = v[d].id => i = d
    BY <1>1, <1>4 DEF Distinct
  <2> QED  BY <1>6, <2>1, <2>2
<1>8. \A j \in 1..(n - 1) : p[j] = (IF j < d THEN j ELSE j + 1) /\ p[j] \in 1..n /\ p[j] # d
  BY <1>4, <1>5
<1>9. p \in [1..(n - 1) -> 1..n]
  BY <1>5, <1>8
<1>10. \A j, m \in 1..(n - 1) : j < m => p[j] < p[m]
  BY <1>4, <1>8
<1>11. \A j \in 1..(n - 1) : u[j] = v[p[j]] /\ u[j] \in S
  <2>1. \A j \in 1..(n - 1) : u[j] = v[p[j]]
    BY <1>3, <1>8
  <2> QED  BY <1>7, <1>8, <2>1
<1>12. ASSUME NEW i \in 1..n, v[i] \in S
       PROVE  \E j \in 1..(n - 1) : p[j] = i
  <2>1. i # d
    BY <1>7, <1>12
  <2>2. CASE i < d
    <3>1. i \in 1..(n - 1) /\ p[i] = i
      BY <1>4, <1>8, <2>2
    <3> QED  BY <3>1
  <2>3. CASE d < i
    <3>1. i - 1 \in 1..(n - 1) /\ p[i - 1] = i
      BY <1>4, <1>8, <2>3
    <3> QED  BY <3>1
  <2> QED  BY <1>4, <2>1, <2>2, <2>3
<1>13. Picks(p, u, v, S)
  BY <1>1, <1>3, <1>9, <1>10, <1>11, <1>12 DEF Picks
<1>14. Keep(v, S) = u
  BY <1>3, <1>13, KeepIs
<1> QED  BY <1>2, <1>6, <1>14 DEF Without

\* and without a card that it has not, the list.
LEMMA WithoutNone ==
    ASSUME NEW v \in Seq(Card), NEW id, \A j \in 1..Len(v) : v[j].id # id
    PROVE  Without(v, id) = v
<1>1. PICK S : S = {c \in ToSet(v) : c.id # id}
  OBVIOUS
<1>2. \A j \in 1..Len(v) : v[j] \in S
  BY <1>1 DEF ToSet
<1>3. Keep(v, S) = v
  BY <1>2, KeepAll
<1> QED  BY <1>1, <1>3 DEF Without

\* Where each card of the list was that has the card at d put at to.
Was(j, d, to) ==
    IF j < to THEN IF j < d THEN j ELSE j + 1
    ELSE IF j = to THEN d
    ELSE IF j - 1 < d THEN j - 1 ELSE j

\* The card at d taken out and put in at to.
Carried(v, d, to) == InsertAt(RemoveAt(v, d), to, v[d])

\* It is the same list in another order.
LEMMA CarriedIs ==
    ASSUME NEW T, NEW v \in Seq(T), NEW d \in 1..Len(v), NEW to \in 1..Len(v)
    PROVE  /\ Carried(v, d, to) \in Seq(T) /\ Len(Carried(v, d, to)) = Len(v)
           /\ \A j \in 1..Len(v) : Carried(v, d, to)[j] = v[Was(j, d, to)]
<1>1. PICK n \in Nat : n = Len(v)
  OBVIOUS
<1>2. PICK u : u = RemoveAt(v, d)
  OBVIOUS
<1>3. /\ u \in Seq(T) /\ Len(u) = n - 1
      /\ \A j \in 1..(n - 1) : u[j] = IF j < d THEN v[j] ELSE v[j + 1]
  BY <1>1, <1>2, RemoveAtIs
<1>4. d \in 1..n /\ to \in 1..n /\ d \in Int /\ to \in Int /\ (n - 1) + 1 = n
  BY <1>1
<1>5. PICK e \in T : e = v[d]
  BY ElementOfSeq
<1>6. PICK w : w = InsertAt(u, to, e)
  OBVIOUS
<1>7. to \in 1..(Len(u) + 1)
  BY <1>3, <1>4
<1>8. /\ w \in Seq(T) /\ Len(w) = n
      /\ \A j \in 1..n : w[j] = IF j < to THEN u[j] ELSE IF j = to THEN e ELSE u[j - 1]
  BY <1>3, <1>4, <1>5, <1>6, <1>7, InsertAtIs
<1>9. ASSUME NEW j \in 1..n
      PROVE  w[j] = v[Was(j, d, to)]
  <2>1. CASE j < to
    <3>1. j \in 1..(n - 1)
      BY <1>4, <2>1
    <3>2. w[j] = u[j] /\ u[j] = v[IF j < d THEN j ELSE j + 1]
      BY <1>3, <1>8, <2>1, <3>1
    <3> QED  BY <2>1, <3>2 DEF Was
  <2>2. CASE j = to
    <3>1. ~(j < to) /\ w[j] = e
      BY <1>4, <1>8, <2>2
    <3> QED  BY <1>5, <2>2, <3>1 DEF Was
  <2>3. CASE to < j
    <3>1. j - 1 \in 1..(n - 1) /\ ~(j < to) /\ j # to /\ (j - 1) + 1 = j
      BY <1>4, <2>3
    <3>2. w[j] = u[j - 1] /\ u[j - 1] = v[IF j - 1 < d THEN j - 1 ELSE j]
      BY <1>3, <1>8, <3>1
    <3> QED  BY <3>1, <3>2 DEF Was
  <2> QED  BY <1>4, <2>1, <2>2, <2>3
<1> QED  BY <1>1, <1>2, <1>5, <1>6, <1>8, <1>9 DEF Carried

\* Among the first m the others stay there, and those behind stay where they are.
LEMMA WasWithin ==
    ASSUME NEW m \in Nat, NEW d \in 1..m, NEW to \in 1..m, NEW j \in Nat \ {0}
    PROVE  /\ j <= m => Was(j, d, to) \in 1..m
           /\ m < j => Was(j, d, to) = j
           /\ Was(j, d, d) = j
BY DEF Was

\* A card put where it was.
LEMMA CarriedNowhere ==
    ASSUME NEW T, NEW v \in Seq(T), NEW d \in 1..Len(v)
    PROVE  Carried(v, d, d) = v
<1>1. PICK n \in Nat : n = Len(v)
  OBVIOUS
<1>2. PICK u : u = Carried(v, d, d)
  OBVIOUS
<1>3. u \in Seq(T) /\ Len(u) = n /\ \A j \in 1..n : u[j] = v[Was(j, d, d)]
  BY <1>1, <1>2, CarriedIs
<1>4. \A j \in 1..n : Was(j, d, d) = j
  BY <1>1, WasWithin
<1> QED  BY <1>1, <1>2, <1>3, <1>4, SeqEqual

\* The first m cards are acknowledged, and no other.
SettledTo(v, m) ==
    m \in 0..Len(v) /\ \A j \in 1..Len(v) : j <= m <=> ~IsPendingId(v[j].id)

\* Settled: they are those m.
LEMMA SettledPrefix ==
    ASSUME NEW v \in Seq(Card), NEW m, SettledTo(v, m)
    PROVE  /\ Settled(v) \in Seq(Card) /\ Len(Settled(v)) = m
           /\ \A j \in 1..m : Settled(v)[j] = v[j]
<1>1. PICK n \in Nat : n = Len(v)
  OBVIOUS
<1>2. m \in Nat /\ m <= n
  BY <1>1 DEF SettledTo
<1>2a. \A j \in 1..n : j <= m <=> ~IsPendingId(v[j].id)
  BY <1>1 DEF SettledTo
<1>3. \A j \in 1..m : v[j] \in Card
  BY <1>1, <1>2, ElementOfSeq
<1>4. PICK u : u = SubSeq(v, 1, m)
  OBVIOUS
<1>5. u \in Seq(Card) /\ Len(u) = m /\ \A j \in 1..m : u[j] = v[j]
  BY <1>1, <1>2, <1>3, <1>4, SubSeqProperties
<1>6. PICK S : S = {c \in ToSet(v) : ~IsPendingId(c.id)}
  OBVIOUS
<1>7. \A i \in 1..n : v[i] \in S <=> i <= m
  <2>1. \A i \in 1..n : v[i] \in ToSet(v)
    BY <1>1 DEF ToSet
  <2> QED  BY <1>2a, <1>6, <2>1
<1>8. PICK p : p = [j \in 1..m |-> j]
  OBVIOUS
<1>9. p \in [1..m -> 1..n] /\ \A j \in 1..m : p[j] = j
  BY <1>2, <1>8
<1>10. \A j \in 1..m : j \in 1..n /\ j <= m
  BY <1>2
<1>11. \A j \in 1..m : u[j] = v[p[j]] /\ u[j] \in S
  BY <1>5, <1>7, <1>9, <1>10
<1>12. \A i \in 1..n : v[i] \in S => \E j \in 1..m : p[j] = i
  <2>1. \A i \in 1..n : i <= m => i \in 1..m
    BY <1>2
  <2> QED  BY <1>7, <1>9, <2>1
<1>13. \A j, k \in 1..m : j < k => p[j] < p[k]
  BY <1>9
<1>14. Picks(p, u, v, S)
  BY <1>1, <1>5, <1>9, <1>11, <1>12, <1>13 DEF Picks
<1>15. Keep(v, S) = u
  BY <1>5, <1>14, KeepIs
<1> QED  BY <1>5, <1>6, <1>15 DEF Settled

\* The pending cards are last.
PendingLast(v) ==
    \A j, k \in 1..Len(v) : j < k /\ IsPendingId(v[j].id) => IsPendingId(v[k].id)

\* So there are first ones that are acknowledged.
LEMMA SettledSome ==
    ASSUME NEW v \in Seq(Card), PendingLast(v)
    PROVE  \E m : SettledTo(v, m)
<1>1. PICK n \in Nat : n = Len(v)
  OBVIOUS
<1>1a. \A j, k \in 1..n : j < k /\ IsPendingId(v[j].id) => IsPendingId(v[k].id)
  BY <1>1 DEF PendingLast
<1>2. PICK T : T = {j \in 1..n : IsPendingId(v[j].id)}
  OBVIOUS
<1>3. CASE T = {}
  <2>1. \A j \in 1..n : j <= n <=> ~IsPendingId(v[j].id)
    BY <1>2, <1>3
  <2>2. n \in 0..n
    OBVIOUS
  <2> QED  BY <1>1, <2>1, <2>2 DEF SettledTo
<1>4. CASE T # {}
  <2>1. T \subseteq Nat
    BY <1>2
  <2>2. PICK x \in T : \A y \in T : x <= y
    BY <1>4, <2>1, LeastElement
  <2>3. x \in 1..n /\ IsPendingId(v[x].id)
    BY <1>2, <2>2
  <2>4. PICK m : m = x - 1
    OBVIOUS
  <2>5. m \in 0..n
    BY <2>3, <2>4
  <2>6. ASSUME NEW j \in 1..n
        PROVE  j <= m <=> ~IsPendingId(v[j].id)
    <3>1. CASE j < x
      <4>1. j \notin T
        BY <2>1, <2>2, <3>1
      <4>2. ~IsPendingId(v[j].id)
        BY <1>2, <4>1
      <4>3. j <= m
        BY <2>3, <2>4, <3>1
      <4> QED  BY <4>2, <4>3
    <3>2. CASE j = x
      <4>1. ~(j <= m)
        BY <2>3, <2>4, <3>2
      <4> QED  BY <2>3, <3>2, <4>1
    <3>3. CASE x < j
      <4>1. IsPendingId(v[j].id)
        BY <1>1a, <2>3, <3>3
      <4>2. ~(j <= m)
        BY <2>3, <2>4, <3>3
      <4> QED  BY <4>1, <4>2
    <3> QED  BY <2>3, <3>1, <3>2, <3>3
  <2> QED  BY <1>1, <2>5, <2>6 DEF SettledTo
<1> QED  BY <1>3, <1>4

\* Carrying an acknowledged card among those carries it among what is settled.
LEMMA SettledCarried ==
    ASSUME NEW v \in Seq(Card), NEW m, SettledTo(v, m), NEW d \in 1..m, NEW to \in 1..m
    PROVE  Settled(Carried(v, d, to)) = Carried(Settled(v), d, to)
<1>1. PICK n \in Nat : n = Len(v)
  OBVIOUS
<1>2. m \in Nat /\ m <= n /\ d \in 1..n /\ to \in 1..n /\ \A j \in 1..m : j \in 1..n
  BY <1>1 DEF SettledTo
<1>2a. \A j \in 1..n : j <= m <=> ~IsPendingId(v[j].id)
  BY <1>1 DEF SettledTo
<1>3. PICK w : w = Settled(v)
  OBVIOUS
<1>4. w \in Seq(Card) /\ Len(w) = m /\ \A j \in 1..m : w[j] = v[j]
  BY <1>1, <1>3, SettledPrefix
<1>5. PICK u : u = Carried(v, d, to)
  OBVIOUS
<1>6. u \in Seq(Card) /\ Len(u) = n /\ \A j \in 1..n : u[j] = v[Was(j, d, to)]
  BY <1>1, <1>2, <1>5, CarriedIs
<1>7. \A j \in 1..n : j <= m <=> ~IsPendingId(u[j].id)
  <2>1. ASSUME NEW j \in 1..n
        PROVE  j <= m <=> ~IsPendingId(u[j].id)
    <3>0. j \in Nat \ {0}
      OBVIOUS
    <3>1. /\ j <= m => Was(j, d, to) \in 1..m
          /\ m < j => Was(j, d, to) = j
      BY <1>2, <3>0, WasWithin
    <3>2. CASE j <= m
      <4>1. PICK i \in 1..m : i = Was(j, d, to)
        BY <3>1, <3>2
      <4>2. i \in 1..n /\ i <= m
        BY <1>2
      <4>3. ~IsPendingId(v[i].id)
        BY <1>2a, <4>2
      <4> QED  BY <1>6, <3>2, <4>1, <4>3
    <3>3. CASE m < j
      <4>1. u[j] = v[j] /\ ~(j <= m)
        BY <1>2, <1>6, <3>1, <3>3
      <4> QED  BY <1>2a, <4>1
    <3> QED  BY <1>2, <3>2, <3>3
  <2> QED  BY <2>1
<1>8. PICK x : x = Settled(u)
  OBVIOUS
<1>9. x \in Seq(Card) /\ Len(x) = m /\ \A j \in 1..m : x[j] = u[j]
  <2>1. SettledTo(u, m)
    BY <1>2, <1>6, <1>7 DEF SettledTo
  <2> QED  BY <1>6, <1>8, <2>1, SettledPrefix
<1>10. PICK y : y = Carried(w, d, to)
  OBVIOUS
<1>11. y \in Seq(Card) /\ Len(y) = m /\ \A j \in 1..m : y[j] = w[Was(j, d, to)]
  BY <1>4, <1>10, CarriedIs, SMTT(30)
<1>12. ASSUME NEW j \in 1..m
       PROVE  x[j] = y[j]
  <2>0. j \in Nat \ {0} /\ j <= m
    BY <1>2
  <2>1. Was(j, d, to) \in 1..m
    BY <1>2, <2>0, WasWithin
  <2>2. w[Was(j, d, to)] = v[Was(j, d, to)]
    BY <1>4, <2>1
  <2> QED  BY <1>2, <1>6, <1>9, <1>11, <2>2
<1>13. x = y
  BY <1>9, <1>11, <1>12, SeqEqual
<1> QED  BY <1>3, <1>5, <1>8, <1>10, <1>13

\* A card is in the column, and at the index, where it is.
LEMMA LocatedIs ==
    ASSUME NEW s, Sound(s), NEW i \in 1..Len(s.columns), NEW j \in 1..Len(s.columns[i].cards)
    PROVE  /\ ColumnOf(s, s.columns[i].cards[j].id) = i
           /\ IndexOf(s.columns[i].cards, s.columns[i].cards[j].id) = j
           /\ Distinct(s.columns[i].cards)
<1>1. PICK id : id = s.columns[i].cards[j].id
  OBVIOUS
<1>2. PICK v \in Seq(Card) : v = s.columns[i].cards
  BY BoardIs DEF Sound
<1>3. \A a, b \in 1..Len(s.columns) :
          \A x \in 1..Len(s.columns[a].cards) : \A y \in 1..Len(s.columns[b].cards) :
              s.columns[a].cards[x].id = s.columns[b].cards[y].id => a = b /\ x = y
  BY OnceIs DEF Sound
<1>4. \A x, y \in 1..Len(v) : v[x].id = v[y].id => x = y
  BY <1>2, <1>3
<1>5. Distinct(v)
  BY <1>4 DEF Distinct
<1>6. IndexOf(v, id) = j
  BY <1>1, <1>2, <1>5, IndexDistinct
<1>7. PICK h : h = ColumnOf(s, id)
  OBVIOUS
<1>8. s \in BoardType
  BY DEF Sound
<1>9. h # 0
  <2>1. OnBoard(s, id)
    BY <1>1, <1>8, OnBoardIs
  <2> QED  BY <1>7, <1>8, <2>1, ColumnOfIs
<1>10. /\ h \in 1..Len(s.columns)
       /\ \E y \in 1..Len(s.columns[h].cards) : s.columns[h].cards[y].id = id
  BY <1>7, <1>8, <1>9, ColumnOfIs
<1>11. PICK y \in 1..Len(s.columns[h].cards) : s.columns[h].cards[y].id = id
  BY <1>10
<1>12. h = i
  BY <1>1, <1>3, <1>10, <1>11
<1> QED  BY <1>1, <1>2, <1>5, <1>6, <1>7, <1>12

\* anchorAt, where the card before is acknowledged, or there is none.
LEMMA AnchorHere ==
    ASSUME NEW u, Len(u) \in Nat, NEW k \in 0..Len(u), k # 0 => ~IsPendingId(u[k].id)
    PROVE  AnchorAt(u, k) = IF k = 0 THEN First ELSE u[k].id
<1>1. k \in Int
  OBVIOUS
<1>2. CASE /\ AnchorAt(u, k) = First
           /\ \A j \in 1..Len(u) : j <= k => IsPendingId(u[j].id)
  <2>1. k # 0 => k \in 1..Len(u) /\ k <= k
    OBVIOUS
  <2>2. k = 0
    BY <1>2, <2>1
  <2> QED  BY <1>2, <2>2
<1>3. ASSUME NEW a \in 1..Len(u), a <= k, AnchorAt(u, k) = u[a].id, ~IsPendingId(u[a].id),
             \A j \in 1..Len(u) : a < j /\ j <= k => IsPendingId(u[j].id)
      PROVE  AnchorAt(u, k) = IF k = 0 THEN First ELSE u[k].id
  <2>1. k # 0 /\ k \in 1..Len(u) /\ k <= k
    BY <1>3
  <2>2. ~(a < k)
    BY <1>3, <2>1
  <2>3. a = k
    BY <1>3, <2>1, <2>2
  <2> QED  BY <1>3, <2>1, <2>3
<1> QED  BY <1>1, <1>2, <1>3, AnchorIs

\* With one card less the ids still differ.
LEMMA RestDistinct ==
    ASSUME NEW v \in Seq(Card), Distinct(v), NEW d \in 1..Len(v)
    PROVE  Distinct(RemoveAt(v, d))
<1>1. PICK n \in Nat : n = Len(v)
  OBVIOUS
<1>2. PICK rest : rest = RemoveAt(v, d)
  OBVIOUS
<1>3. /\ rest \in Seq(Card) /\ Len(rest) = n - 1
      /\ \A j \in 1..(n - 1) : rest[j] = IF j < d THEN v[j] ELSE v[j + 1]
  BY <1>1, <1>2, RemoveAtIs
<1>4. d \in 1..n /\ d \in Int
  BY <1>1
<1>5. \A x, y \in 1..n : v[x].id = v[y].id => x = y
  BY <1>1 DEF Distinct
<1>6. ASSUME NEW x \in 1..(n - 1)
      PROVE  \E a \in 1..n : rest[x] = v[a] /\ a = IF x < d THEN x ELSE x + 1
  <2>1. x \in 1..n /\ x + 1 \in 1..n
    BY <1>4
  <2>2. rest[x] = v[IF x < d THEN x ELSE x + 1]
    BY <1>3
  <2> QED  BY <2>1, <2>2
<1>7. ASSUME NEW x \in 1..(n - 1), NEW y \in 1..(n - 1), rest[x].id = rest[y].id
      PROVE  x = y
  <2>1. PICK a \in 1..n : rest[x] = v[a] /\ a = IF x < d THEN x ELSE x + 1
    BY <1>6
  <2>2. PICK b \in 1..n : rest[y] = v[b] /\ b = IF y < d THEN y ELSE y + 1
    BY <1>6
  <2>3. a = b
    BY <1>5, <1>7, <2>1, <2>2
  <2> QED  BY <1>4, <2>1, <2>2, <2>3
<1>8. DOMAIN rest = 1..(n - 1)
  BY <1>3
<1> QED  BY <1>2, <1>7, <1>8 DEF Distinct

\* The board with other cards in column i.
WithColumn(s, i, cards) ==
    [columns |-> [h \in 1..Len(s.columns) |->
                     Entry(s.columns[h].id, s.columns[h].name,
                           IF h = i THEN cards ELSE s.columns[h].cards)],
     unplaced |-> s.unplaced]

\* c puts the d-th card of column i behind the one before to, or first.
PutsAt(s, c, i, d, to) ==
    LET v == s.columns[i].cards IN
    /\ c.kind = "card.moved" /\ c.cardId = v[d].id /\ c.columnId = s.columns[i].id
    /\ to = 1 => c.after = First
    /\ to # 1 => c.after = RemoveAt(v, d)[to - 1].id

\* applyBoardChange: a move within a column carries the card, and nothing else.
LEMMA MovedWithin ==
    ASSUME NEW s, Sound(s), ~OnBoard(s, First), NEW i \in 1..Len(s.columns),
           NEW d \in 1..Len(s.columns[i].cards), NEW to \in 1..Len(s.columns[i].cards),
           NEW c, PutsAt(s, c, i, d, to)
    PROVE  ApplyBoardChange(s, c) = WithColumn(s, i, Carried(s.columns[i].cards, d, to))
<1>1. /\ s \in BoardType /\ DOMAIN s.columns = 1..Len(s.columns) /\ Len(s.columns) \in Nat
      /\ s.columns[i].cards \in Seq(Card)
  BY BoardIs DEF Sound
<1>2. PICK v \in Seq(Card) : v = s.columns[i].cards
  BY <1>1
<1>3. PICK id : id = c.cardId
  OBVIOUS
<1>4. PICK n \in Nat : n = Len(v)
  OBVIOUS
<1>5. d \in 1..n /\ to \in 1..n /\ d \in Int /\ to \in Int /\ to - 1 \in Int
  BY <1>2, <1>4
<1>6. /\ c.kind = "card.moved" /\ id = v[d].id /\ c.columnId = s.columns[i].id
      /\ to = 1 => c.after = First
      /\ to # 1 => c.after = RemoveAt(v, d)[to - 1].id
  BY <1>2, <1>3 DEF PutsAt
<1>7. ColumnOf(s, id) = i /\ IndexOf(v, id) = d /\ Distinct(v)
  BY <1>2, <1>6, LocatedIs, ZenonT(40)
<1>8. PICK rest : rest = RemoveAt(v, d)
  OBVIOUS
<1>9. /\ rest \in Seq(Card) /\ Len(rest) = n - 1
      /\ \A j \in 1..(n - 1) : rest[j] = IF j < d THEN v[j] ELSE v[j + 1]
  BY <1>4, <1>5, <1>8, RemoveAtIs
<1>10. Without(v, id) = rest
  BY <1>4, <1>5, <1>6, <1>7, <1>8, WithoutOne
<1>11. IndexOf(s.columns, c.columnId) = i
  <2>1. s.columns \in Seq(Column) /\ Distinct(s.columns)
    BY <1>1, BoardIs DEF Sound
  <2> QED  BY <1>6, <2>1, IndexDistinct
<1>12. Distinct(rest)
  BY <1>2, <1>4, <1>5, <1>7, <1>8, RestDistinct
<1>13. IndexOf(rest, c.after) = to - 1 /\ (to - 1 = 0 => c.after = First)
  <2>1. CASE to = 1
    <3>1. \A j \in 1..n : v[j].id # First
      BY <1>1, <1>2, <1>4, OnBoardIs
    <3>2. \A j \in 1..(n - 1) : rest[j].id # First
      <4>1. ASSUME NEW j \in 1..(n - 1)
            PROVE  rest[j].id # First
        <5>0. j \in 1..n /\ j + 1 \in 1..n
          BY <1>5
        <5>1. PICK a \in 1..n : rest[j] = v[a]
          BY <1>9, <5>0
        <5> QED  BY <3>1, <5>1
      <4> QED  BY <4>1
    <3>3. Len(rest) \in Nat
      BY <1>9
    <3>4. IndexOf(rest, First) # 0 => /\ IndexOf(rest, First) \in 1..Len(rest)
                                      /\ rest[IndexOf(rest, First)].id = First
      BY <3>3, IndexIs
    <3>5. IndexOf(rest, First) = 0
      BY <1>9, <3>2, <3>4
    <3> QED  BY <1>6, <2>1, <3>5
  <2>2. CASE to # 1
    <3>1. PICK k \in 1..Len(rest) : k = to - 1
      BY <1>5, <1>9, <2>2
    <3>2. c.after = rest[k].id
      BY <1>6, <1>8, <2>2, <3>1
    <3>3. IndexOf(rest, c.after) = k
      BY <1>9, <1>12, <3>2, IndexDistinct
    <3> QED  BY <3>1, <3>3
  <2> QED  BY <2>1, <2>2
<1>14. PICK e : e = v[d]
  OBVIOUS
<1>15. [e EXCEPT !.columnId = c.columnId] = e
  <2>1. e \in Card
    BY <1>4, <1>5, <1>14, ElementOfSeq
  <2>2. e.columnId = s.columns[i].id
    BY <1>1, <1>2, <1>4, <1>5, <1>14, HomeIs DEF Sound
  <2>3. e = [id |-> e.id, columnId |-> e.columnId, text |-> e.text]
    BY <2>1 DEF Card
  <2> QED  BY <1>6, <2>2, <2>3
<1>16. PICK placed : placed = Carried(v, d, to)
  OBVIOUS
<1>17. InsertAt(rest, IndexOf(rest, c.after) + 1, [e EXCEPT !.columnId = c.columnId]) = placed
  <2>1. IndexOf(rest, c.after) + 1 = to
    BY <1>5, <1>13
  <2> QED  BY <1>8, <1>14, <1>15, <1>16, <2>1 DEF Carried
<1>18. ASSUME NEW h \in 1..Len(s.columns), h # i
       PROVE  Without(s.columns[h].cards, id) = s.columns[h].cards
  <2>1. s.columns[h].cards \in Seq(Card)
    BY <1>1, BoardIs
  <2>2. \A j \in 1..Len(s.columns[h].cards) : s.columns[h].cards[j].id # id
    BY <1>1, <1>2, <1>4, <1>5, <1>6, <1>18, OnceIs DEF Sound
  <2> QED  BY <2>1, <2>2, WithoutNone
<1>19. i # 0
  BY <1>1
<1>20. MoveCard(s, c) = [h \in 1..Len(s.columns) |->
                          Entry(s.columns[h].id, s.columns[h].name,
                                IF h = i THEN placed ELSE Without(s.columns[h].cards, id))]
  <2>1. s.columns[ColumnOf(s, c.cardId)].cards = v
    BY <1>2, <1>3, <1>7
  <2>2. v[IndexOf(v, c.cardId)] = e
    BY <1>3, <1>7, <1>14
  <2>3. Without(s.columns[IndexOf(s.columns, c.columnId)].cards, c.cardId) = rest
    BY <1>2, <1>3, <1>10, <1>11
  <2>4. /\ ColumnOf(s, c.cardId) # 0 /\ IndexOf(s.columns, c.columnId) = i
        /\ ~(IndexOf(rest, c.after) = 0 /\ c.after # First)
    BY <1>3, <1>5, <1>7, <1>11, <1>13, <1>19
  <2> QED  BY <1>1, <1>3, <1>17, <1>19, <2>1, <2>2, <2>3, <2>4 DEF MoveCard, WithCards
<1>21. MoveCard(s, c) = WithColumn(s, i, placed).columns
  BY <1>18, <1>20 DEF WithColumn
<1>22. ApplyBoardChange(s, c) = [columns |-> MoveCard(s, c), unplaced |-> s.unplaced]
  BY <1>6 DEF ApplyBoardChange, Snapshot
<1> QED  BY <1>2, <1>16, <1>21, <1>22 DEF WithColumn

\* A column with the cards it has.
LEMMA WithColumnSame ==
    ASSUME NEW s \in BoardType, NEW i
    PROVE  WithColumn(s, i, s.columns[i].cards) = s
<1>1. /\ s.columns \in Seq(Column) /\ s = [columns |-> s.columns, unplaced |-> s.unplaced]
      /\ s.columns = [h \in 1..Len(s.columns) |-> s.columns[h]]
  BY DEF BoardType
<1>2. ASSUME NEW h \in 1..Len(s.columns)
      PROVE  Entry(s.columns[h].id, s.columns[h].name,
                   IF h = i THEN s.columns[i].cards ELSE s.columns[h].cards) = s.columns[h]
  <2>1. s.columns[h] \in Column
    BY BoardIs
  <2>2. s.columns[h] = [id |-> s.columns[h].id, name |-> s.columns[h].name,
                        cards |-> s.columns[h].cards]
    BY <2>1 DEF Column
  <2> QED  BY <2>2 DEF Entry
<1> QED  BY <1>1, <1>2 DEF WithColumn

\* A fold over one move applies it.
LEMMA FoldOne ==
    ASSUME NEW s, NEW move
    PROVE  FoldSet(LAMBDA m, b : ApplyBoardChange(b, m), s, {move}) = ApplyBoardChange(s, move)
<1> DEFINE Folded(f) == f = [S \in SUBSET {move} |->
                               IF S = {} THEN s
                               ELSE ApplyBoardChange(f[S \ {CHOOSE x \in S : TRUE}],
                                                     CHOOSE x \in S : TRUE)]
           g == CHOOSE f : Folded(f)
           h == [S \in SUBSET {move} |-> IF S = {} THEN s ELSE ApplyBoardChange(s, move)]
<1>1. FoldSet(LAMBDA m, b : ApplyBoardChange(b, m), s, {move}) = g[{move}]
  BY DEF FoldSet, MapThenFoldSet
<1>2. \A S \in SUBSET {move} : S = {} \/ S = {move}
  OBVIOUS
<1>3. (CHOOSE x \in {move} : TRUE) = move
  OBVIOUS
<1>4. {move} \ {move} = {} /\ {} \in SUBSET {move} /\ {move} \in SUBSET {move} /\ {move} # {}
  OBVIOUS
<1>5. h[{}] = s /\ h[{move}] = ApplyBoardChange(s, move)
  BY <1>4
<1>6. ASSUME NEW S \in SUBSET {move}
      PROVE  h[S] = IF S = {} THEN s
                    ELSE ApplyBoardChange(h[S \ {CHOOSE x \in S : TRUE}], CHOOSE x \in S : TRUE)
  <2>1. CASE S = {}
    BY <1>5, <2>1
  <2>2. CASE S = {move}
    <3> HIDE DEF h
    <3> QED  BY <1>3, <1>4, <1>5, <2>2
  <2> QED  BY <1>2, <2>1, <2>2
<1>7. h = [S \in SUBSET {move} |-> h[S]]
  OBVIOUS
<1>8. Folded(h)
  <2> HIDE DEF h
  <2> QED  BY <1>6, <1>7
<1>9. Folded(g)
  <2> HIDE DEF h
  <2> QED  BY <1>8
<1>10. g[{}] = s
  <2> HIDE DEF g
  <2> QED  BY <1>4, <1>9
<1>11. g[{move}] = ApplyBoardChange(g[{}], move)
  <2> HIDE DEF g
  <2> QED  BY <1>3, <1>4, <1>9
<1> QED  BY <1>1, <1>10, <1>11

\* What is acknowledged in a column, and how many.
LEMMA SettledIn ==
    ASSUME NEW s, Sound(s), Aside(s), NEW i \in 1..Len(s.columns)
    PROVE  /\ PendingLast(s.columns[i].cards)
           /\ \E m : SettledTo(s.columns[i].cards, m)
           /\ s.columns[i].cards # <<>> => ~IsPendingId(s.columns[i].id)
<1>1. PICK v \in Seq(Card) : v = s.columns[i].cards
  BY BoardIs DEF Sound
<1>2. DOMAIN s.columns = 1..Len(s.columns) /\ DOMAIN s.columns[i].cards = 1..Len(v)
  BY <1>1, BoardIs DEF Sound
<1>3. PendingLast(v)
  BY <1>1, <1>2 DEF Aside, PendingLast
<1>4. v # <<>> => ~IsPendingId(s.columns[i].id)
  BY <1>1, <1>2 DEF Aside
<1>5. \E m : SettledTo(v, m)
  BY <1>3, SettledSome
<1> QED  BY <1>1, <1>3, <1>4, <1>5

\* One move is asked for, and it puts the card there.
PutsOne(moves, s, i, d, to) == \E move : moves = {move} /\ PutsAt(s, move, i, d, to)

\* cardDropTarget: over a card of its column a card is put where that card is.
LEMMA DropWithin ==
    ASSUME NEW s, Sound(s), Aside(s), NEW i \in 1..Len(s.columns), NEW v, v = s.columns[i].cards,
           NEW m, SettledTo(v, m), NEW d \in 1..m, NEW to \in 1..m, d # to, NEW past,
           NEW over, over.kind = "card", over.id = v[to].id
    PROVE  PutsOne(CardDropTarget(s, v[d].id, over, past), s, i, d, to)
<1>1. v \in Seq(Card)
  BY BoardIs DEF Sound
<1>1a. v # <<>> => ~IsPendingId(s.columns[i].id)
  BY SettledIn
<1>2. PICK n \in Nat : n = Len(v)
  BY <1>1
<1>3. /\ m \in Nat /\ m <= n /\ d \in 1..n /\ to \in 1..n
      /\ d \in Int /\ to \in Int /\ d <= m /\ to <= m
  BY <1>2 DEF SettledTo
<1>3a. \A j \in 1..n : j <= m <=> ~IsPendingId(v[j].id)
  BY <1>2 DEF SettledTo
<1>4. PICK id, oid : id = v[d].id /\ oid = v[to].id
  OBVIOUS
<1>5. ColumnOf(s, id) = i /\ IndexOf(v, id) = d /\ Distinct(v)
  BY <1>2, <1>3, <1>4, LocatedIs
<1>6. ColumnOf(s, oid) = i /\ IndexOf(v, oid) = to
  BY <1>2, <1>3, <1>4, LocatedIs
<1>7. id # oid
  BY <1>5, <1>6
<1>8. PICK rest : rest = RemoveAt(v, d)
  OBVIOUS
<1>9. /\ rest \in Seq(Card) /\ Len(rest) = n - 1
      /\ \A j \in 1..(n - 1) : rest[j] = IF j < d THEN v[j] ELSE v[j + 1]
  BY <1>1, <1>2, <1>3, <1>8, RemoveAtIs
<1>10. Without(v, id) = rest
  BY <1>1, <1>2, <1>3, <1>4, <1>5, <1>8, WithoutOne
<1>11. Distinct(rest)
  BY <1>1, <1>2, <1>3, <1>5, <1>8, RestDistinct
<1>12. PICK k : k = IF to < d THEN to ELSE to - 1
  OBVIOUS
<1>13. k \in 1..(n - 1) /\ (k < d <=> to < d) /\ (~(to < d) => k + 1 = to)
  BY <1>3, <1>12
<1>14. rest[k] = v[to]
  BY <1>9, <1>12, <1>13
<1>15. IndexOf(rest, oid) = k
  <2>1. k \in 1..Len(rest) /\ oid = rest[k].id
    BY <1>4, <1>9, <1>13, <1>14
  <2> QED  BY <1>9, <1>11, <2>1, IndexDistinct
<1>16. IndexOf(rest, oid) - (IF d < to THEN 0 ELSE 1) = to - 1
  BY <1>3, <1>12, <1>15
<1>17. ~IsPendingId(s.columns[i].id)
  BY <1>1, <1>1a, <1>2, <1>3
<1>18. PICK move : move = CardMove(id, s.columns[i].id, AnchorAt(rest, to - 1))
  OBVIOUS
<1>19. CardDropTarget(s, id, over, past) = {move}
  <2>1. over.kind # "column" /\ over.id = oid /\ over # [kind |-> "card", id |-> id]
    <3>1. over = [kind |-> "card", id |-> id] => over.id = id
      OBVIOUS
    <3> QED  BY <1>4, <1>7, <3>1
  <2>2. i # 0
    OBVIOUS
  <2>3. Without(s.columns[i].cards, id) = rest
    BY <1>10
  <2> DEFINE col == IF over.kind = "column" THEN IndexOf(s.columns, over.id)
                    ELSE ColumnOf(s, over.id)
             others == Without(s.columns[col].cards, id)
             below == IF ColumnOf(s, id) = col
                      THEN IndexOf(s.columns[col].cards, id)
                           < IndexOf(s.columns[col].cards, over.id)
                      ELSE past
             at == IF over.kind = "column" THEN Len(others)
                   ELSE IndexOf(others, over.id) - (IF below THEN 0 ELSE 1)
             nowhere == ColumnOf(s, id) = 0 \/ col = 0 \/ over = [kind |-> "card", id |-> id]
  <2>4. CardDropTarget(s, id, over, past) =
            IF nowhere THEN {} ELSE IF IsPendingId(s.columns[col].id) THEN {}
            ELSE {CardMove(id, s.columns[col].id, AnchorAt(others, at))}
    BY DEF CardDropTarget
  <2>5. col = i
    BY <1>6, <2>1
  <2> HIDE DEF col
  <2>6. ~nowhere
    BY <1>5, <2>1, <2>2, <2>5
  <2>7. others = rest
    BY <2>3, <2>5
  <2>8. below <=> d < to
    BY <1>5, <1>6, <2>1, <2>5
  <2> HIDE DEF others, below
  <2>9. at = to - 1
    BY <1>16, <2>1, <2>7, <2>8
  <2> HIDE DEF at, nowhere
  <2> QED  BY <1>17, <1>18, <2>4, <2>5, <2>6, <2>7, <2>9
<1>20. AnchorAt(rest, to - 1) = IF to - 1 = 0 THEN First ELSE rest[to - 1].id
  <2>1. Len(rest) \in Nat /\ to - 1 \in 0..Len(rest)
    BY <1>3, <1>9
  <2>2. ASSUME to - 1 # 0
        PROVE  ~IsPendingId(rest[to - 1].id)
    <3>1. to - 1 \in 1..(n - 1) /\ to - 1 \in 1..n /\ (to - 1) + 1 = to /\ to - 1 <= m
      BY <1>3, <2>2
    <3>2. rest[to - 1] = v[to - 1] \/ rest[to - 1] = v[to]
      BY <1>9, <3>1
    <3>3. ~IsPendingId(v[to - 1].id) /\ ~IsPendingId(v[to].id)
      BY <1>3, <1>3a, <3>1
    <3> QED  BY <3>2, <3>3
  <2> QED  BY <2>1, <2>2, AnchorHere
<1>21. /\ move.kind = "card.moved" /\ move.cardId = id /\ move.columnId = s.columns[i].id
       /\ move.after = AnchorAt(rest, to - 1)
  BY <1>18 DEF CardMove
<1>22. (to = 1 <=> to - 1 = 0)
  BY <1>3
<1>23. PutsAt(s, move, i, d, to)
  BY <1>4, <1>8, <1>20, <1>21, <1>22 DEF PutsAt
<1> QED  BY <1>4, <1>19, <1>23 DEF PutsOne

\* A move that finds no place changes nothing.
LEMMA MoveLost ==
    ASSUME NEW s \in BoardType, NEW c, c.kind = "card.moved",
           ColumnOf(s, c.cardId) = 0 \/ c.after = c.cardId, c.cardId # First
    PROVE  ApplyBoardChange(s, c) = s
<1>1. MoveCard(s, c) = s.columns
  <2>1. CASE ColumnOf(s, c.cardId) = 0
    BY <2>1 DEF MoveCard
  <2>2. CASE IndexOf(s.columns, c.columnId) = 0
    BY <2>2 DEF MoveCard
  <2>3. CASE c.after = c.cardId /\ IndexOf(s.columns, c.columnId) # 0
    <3>1. PICK to : to = IndexOf(s.columns, c.columnId)
      OBVIOUS
    <3>2. to \in 1..Len(s.columns)
      BY <2>3, <3>1, BoardIs, IndexIs
    <3>3. s.columns[to].cards \in Seq(Card)
      BY <3>2, BoardIs
    <3>4. PICK rest \in Seq(Card) : rest = Without(s.columns[to].cards, c.cardId)
      BY <3>3, WithoutIs
    <3>5. \A j \in 1..Len(rest) : rest[j].id # c.cardId
      BY <3>3, <3>4, WithoutIs
    <3>6. Len(rest) \in Nat
      OBVIOUS
    <3>7. IndexOf(rest, c.after) = 0
      BY <2>3, <3>5, <3>6, IndexIs
    <3>8. c.after # First
      BY <2>3
    <3> QED  BY <3>1, <3>4, <3>7, <3>8 DEF MoveCard
  <2> QED  BY <2>1, <2>2, <2>3
<1>2. ApplyBoardChange(s, c) = [columns |-> s.columns, unplaced |-> s.unplaced]
  BY <1>1 DEF ApplyBoardChange, Snapshot
<1> QED  BY <1>2 DEF BoardType

\* isRedundantMove: what it takes for a move that changes nothing changes nothing.
LEMMA RedundantStays ==
    ASSUME NEW m \in Nat, NEW k \in Nat, NEW s, Fine(s, m, k), NEW c, IsOwnMove(c),
           IsRedundantMove(s, c)
    PROVE  ApplyBoardChange(s, c) = s
<1>1. /\ s \in BoardType /\ Sound(s) /\ Aside(s) /\ c.kind = "card.moved"
      /\ c.cardId \in Nat \ {0} /\ c.cardId # First
  BY DEF Fine, Sound, IsOwnMove, First
<1>2. PICK i : i = ColumnOf(s, c.cardId)
  OBVIOUS
<1>3. CASE i = 0 \/ c.after = c.cardId
  BY <1>1, <1>2, <1>3, MoveLost
<1>4. CASE i # 0 /\ c.after # c.cardId
  <2>1. /\ i \in 1..Len(s.columns)
        /\ IndexOf(s.columns[i].cards, c.cardId) \in 1..Len(s.columns[i].cards)
        /\ s.columns[i].cards[IndexOf(s.columns[i].cards, c.cardId)].id = c.cardId
    BY <1>1, <1>2, <1>4, ColumnOfIs
  <2>2. PICK v : v = s.columns[i].cards
    OBVIOUS
  <2>3. v \in Seq(Card)
    BY <1>1, <2>1, <2>2, BoardIs
  <2>3a. PendingLast(v)
    BY <1>1, <2>1, <2>2, SettledIn
  <2>4. PICK d \in 1..Len(v) : d = IndexOf(v, c.cardId)
    BY <2>1, <2>2
  <2>5. v[d].id = c.cardId /\ Distinct(v)
    BY <1>1, <2>1, <2>2, <2>4, LocatedIs
  <2>6. s.columns[i].id = c.columnId /\ AnchorAt(Without(v, c.cardId), d - 1) = c.after
    BY <1>2, <1>4, <2>2, <2>4 DEF IsRedundantMove
  <2>7. PICK n \in Nat : n = Len(v)
    BY <2>3
  <2>8. PICK rest : rest = RemoveAt(v, d)
    OBVIOUS
  <2>9. /\ rest \in Seq(Card) /\ Len(rest) = n - 1
        /\ \A j \in 1..(n - 1) : rest[j] = IF j < d THEN v[j] ELSE v[j + 1]
    BY <2>3, <2>7, <2>8, RemoveAtIs
  <2>10. Without(v, c.cardId) = rest
    BY <2>3, <2>5, <2>8, WithoutOne
  <2>11. AnchorAt(rest, d - 1) = IF d - 1 = 0 THEN First ELSE rest[d - 1].id
    <3>1. Len(rest) \in Nat /\ d - 1 \in 0..Len(rest)
      BY <2>7, <2>9
    <3>2. ASSUME d - 1 # 0
          PROVE  ~IsPendingId(rest[d - 1].id)
      <4>1. d - 1 \in 1..(n - 1) /\ d - 1 \in 1..n /\ d - 1 < d
        BY <2>7, <3>2
      <4>2. rest[d - 1] = v[d - 1]
        BY <2>9, <4>1
      <4>3. ~IsPendingId(v[d].id)
        BY <1>1, <2>5 DEF IsPendingId
      <4>4. d \in 1..n
        BY <2>7
      <4> QED  BY <2>3a, <2>7, <4>1, <4>2, <4>3, <4>4 DEF PendingLast
    <3> QED  BY <3>1, <3>2, AnchorHere
  <2>12. d = 1 <=> d - 1 = 0
    BY <2>7
  <2>13. PutsAt(s, c, i, d, d)
    BY <1>1, <2>2, <2>5, <2>6, <2>8, <2>10, <2>11, <2>12 DEF PutsAt
  <2>14. ~OnBoard(s, First)
    BY DEF Fine, Within, Drafts, First
  <2>15. ApplyBoardChange(s, c) = WithColumn(s, i, Carried(v, d, d))
    BY <1>1, <2>1, <2>2, <2>13, <2>14, MovedWithin
  <2>16. Carried(v, d, d) = v
    BY <2>3, CarriedNowhere
  <2> QED  BY <1>1, <2>2, <2>15, <2>16, WithColumnSame
<1> QED  BY <1>3, <1>4

\* One move is asked for, and leaves these acknowledged cards in column i.
DrawsOne(moves, s, i, cards) ==
    \E move : moves = {move} /\ Settled(ApplyBoardChange(s, move).columns[i].cards) = cards

\* A drop within a column asks for the move that carries the card.
LEMMA DropCarries ==
    ASSUME NEW m \in Nat, NEW k \in Nat, NEW s, Fine(s, m, k), NEW i \in 1..Len(s.columns),
           NEW w, w = Settled(s.columns[i].cards), NEW id, NEW from, from = IndexOf(w, id),
           from # 0, NEW to \in DOMAIN w \ {from}, NEW past,
           NEW over, over.kind = "card", over.id = w[to].id
    PROVE  DrawsOne(CardDropTarget(s, id, over, past), s, i,
                    InsertAt(RemoveAt(w, from), to, w[from]))
<1>1. Sound(s) /\ Aside(s)
  BY DEF Fine
<1>2. PICK v : v = s.columns[i].cards
  OBVIOUS
<1>3. v \in Seq(Card)
  BY <1>1, <1>2, BoardIs DEF Sound
<1>4. PICK x : SettledTo(v, x)
  BY <1>1, <1>2, SettledIn
<1>5. w \in Seq(Card) /\ Len(w) = x /\ \A j \in 1..x : w[j] = v[j]
  BY <1>2, <1>3, <1>4, SettledPrefix
<1>6. x \in Nat /\ DOMAIN w = 1..x /\ x <= Len(v) /\ Len(v) \in Nat
  BY <1>3, <1>4, <1>5 DEF SettledTo
<1>7. from \in 1..x /\ w[from].id = id
  <2>1. Len(w) \in Nat
    BY <1>5, <1>6
  <2> QED  BY <1>5, <2>1, IndexIs
<1>8. to \in 1..x /\ from # to
  BY <1>6
<1>9. w[from] = v[from] /\ w[to] = v[to] /\ v[from].id = id
  BY <1>5, <1>7, <1>8
<1>10. PICK move : CardDropTarget(s, id, over, past) = {move} /\ PutsAt(s, move, i, from, to)
  <2>1. over.kind = "card" /\ over.id = v[to].id
    BY <1>9
  <2>2. PutsOne(CardDropTarget(s, v[from].id, over, past), s, i, from, to)
    BY <1>1, <1>2, <1>4, <1>7, <1>8, <2>1, DropWithin
  <2> QED  BY <1>9, <2>2 DEF PutsOne
<1>11. PICK dropped : dropped = ApplyBoardChange(s, move)
  OBVIOUS
<1>12. from \in 1..Len(v) /\ to \in 1..Len(v)
  BY <1>6, <1>7, <1>8
<1>13. ~OnBoard(s, First)
  BY DEF Fine, Within, Drafts, First
<1>14. dropped = WithColumn(s, i, Carried(v, from, to))
  BY <1>1, <1>2, <1>10, <1>11, <1>12, <1>13, MovedWithin
<1>15. dropped.columns[i].cards = Carried(v, from, to)
  BY <1>14 DEF WithColumn, Entry
<1>16. Settled(Carried(v, from, to)) = Carried(w, from, to)
  BY <1>2, <1>3, <1>4, <1>7, <1>8, SettledCarried
<1>17. Settled(ApplyBoardChange(s, move).columns[i].cards) = Carried(w, from, to)
  BY <1>11, <1>15, <1>16
<1>18. Carried(w, from, to) = InsertAt(RemoveAt(w, from), to, w[from])
  BY DEF Carried
<1>19. CardDropTarget(s, id, over, past) = {move}
  BY <1>10
<1> QED  BY <1>17, <1>18, <1>19, Zenon DEF DrawsOne

\* What is drawn of a drop in column i, as the drag library draws it.
AsDrawn(s, dragging, i) ==
    LET cards == Settled(s.columns[i].cards)
        from == IndexOf(cards, dragging)
    IN  from # 0 => \A to \in DOMAIN cards \ {from}, past \in BOOLEAN :
            LET over == [kind |-> "card", id |-> cards[to].id]
                dropped == FoldSet(LAMBDA c, b : ApplyBoardChange(b, c), s,
                                   CardDropTarget(s, dragging, over, past))
            IN  Settled(dropped.columns[i].cards) = InsertAt(RemoveAt(cards, from), to, cards[from])

\* So it is on any fine screen.
LEMMA DropDrawn ==
    ASSUME NEW m \in Nat, NEW k \in Nat, NEW s, Fine(s, m, k), NEW i \in 1..Len(s.columns), NEW id
    PROVE  AsDrawn(s, id, i)
<1>1. PICK w : w = Settled(s.columns[i].cards)
  OBVIOUS
<1>2. PICK from : from = IndexOf(w, id)
  OBVIOUS
<1>3. ASSUME from # 0, NEW to \in DOMAIN w \ {from}, NEW past \in BOOLEAN
      PROVE  Settled(FoldSet(LAMBDA c, b : ApplyBoardChange(b, c), s,
                             CardDropTarget(s, id, [kind |-> "card", id |-> w[to].id], past))
                     .columns[i].cards) = InsertAt(RemoveAt(w, from), to, w[from])
  <2>1. PICK over : over = [kind |-> "card", id |-> w[to].id]
    OBVIOUS
  <2>2. over.kind = "card" /\ over.id = w[to].id
    BY <2>1
  <2>3. PICK moves : moves = CardDropTarget(s, id, over, past)
    OBVIOUS
  <2>4. DrawsOne(moves, s, i, InsertAt(RemoveAt(w, from), to, w[from]))
    <3>1. DrawsOne(CardDropTarget(s, id, over, past), s, i,
                   InsertAt(RemoveAt(w, from), to, w[from]))
      BY <1>1, <1>2, <1>3, <2>2, DropCarries, Zenon
    <3> QED  BY <2>3, <3>1
  <2>5. PICK move : /\ moves = {move}
                    /\ Settled(ApplyBoardChange(s, move).columns[i].cards)
                           = InsertAt(RemoveAt(w, from), to, w[from])
    BY <2>4 DEF DrawsOne
  <2>6. FoldSet(LAMBDA c, b : ApplyBoardChange(b, c), s, {move}) = ApplyBoardChange(s, move)
    BY FoldOne
  <2>7. CardDropTarget(s, id, [kind |-> "card", id |-> w[to].id], past) = {move}
    BY <2>1, <2>3, <2>5
  <2> QED  BY <2>5, <2>6, <2>7
<1> QED  BY <1>1, <1>2, <1>3 DEF AsDrawn

(* What is drawn is what is done: a drop within a column leaves the acknowledged cards
   as the drag library drew them, and one that is taken to change nothing, and so is
   not sent, changes nothing on screen. *)
THEOREM BoardDropsWhereDrawn == Spec => []DropsWhereDrawn
<1>1. ASSUME Inv, Data
      PROVE  DropsWhereDrawn
  <2>1. PICK s : s = Shown
    OBVIOUS
  <2>2. PICK o : o = Optimistic
    OBVIOUS
  <2>3. PICK m \in Nat : m = made
    BY <1>1 DEF Data, Layers, Rows
  <2>4. PICK k \in Nat : k = Len(writes)
    BY <1>1, ListedIs DEF Inv, Recorded
  <2>5. Fine(s, m, k) /\ Fine(o, m, k)
    BY <1>1, <2>1, <2>2, <2>3, <2>4, ScreenFine DEF Inv, Data, Layers
  <2>6. ASSUME NEW i \in DOMAIN s.columns
        PROVE  AsDrawn(s, hand.dragging, i)
    <3>1. i \in 1..Len(s.columns)
      BY <2>5, BoardIs DEF Fine, Sound
    <3> QED  BY <2>5, <3>1, DropDrawn
  <2>7. ASSUME hand.proposal # <<>>, IsRedundantMove(o, Head(hand.proposal))
        PROVE  s = o
    <3>1. Offers(hand.proposal)
      BY <1>1, ProposalIs DEF Inv, Data
    <3>2. PICK move : hand.proposal = <<move>> /\ IsOwnMove(move)
      BY <2>7, <3>1 DEF Offers
    <3>3. Head(hand.proposal) = move
      BY <3>2
    <3>4. ApplyBoardChange(o, move) = o
      BY <2>5, <2>7, <3>2, <3>3, RedundantStays
    <3> QED  BY <2>1, <2>2, <3>2, <3>4, ShownIs
  <2> QED  BY <2>1, <2>2, <2>6, <2>7 DEF DropsWhereDrawn, AsDrawn
<1> QED  BY <1>1, BoardLayers, PTL
=============================================================================
