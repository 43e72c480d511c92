----------------------------- MODULE CardMoves -----------------------------
(***************************************************************************)
(* Concurrent card creates, moves and deletes on one board: the            *)
(* transactions of apps/api/internal/api/cards.go, the statements of       *)
(* store/query.sql they run, and store.Store.WithTenant around them.       *)
(*                                                                         *)
(* Postgres is used as the code uses it: READ COMMITTED, so every          *)
(* statement reads a snapshot taken when it starts; a row another          *)
(* transaction has written is locked until that one ends; and an UPDATE    *)
(* that had to wait, or that finds a row changed since its snapshot, is    *)
(* applied to the row's newest version as long as its own WHERE still      *)
(* holds for it, with everything else it read still from its snapshot.     *)
(*                                                                         *)
(* A rank is a numeric: its value and its scale, the digits after the      *)
(* point.  Halving adds a digit, so a value is a multiple of 2^-scale and  *)
(* is kept as an integer number of 1/Unit.                                 *)
(***************************************************************************)
EXTENDS Integers, FiniteSets

CONSTANTS
    Txn,        \* bound: the transactions of a behaviour
    Column,     \* the board's columns
    Card,       \* bound: the cards that can exist
    MaxScale,   \* needs_rebalance is scale(position) > MaxScale
    None        \* no lock holder, no anchor, no column

ASSUME MaxScaleNat == MaxScale \in Nat
ASSUME NoneIsNothing == None \notin Txn \cup Column \cup Card
ASSUME CardFinite == IsFiniteSet(Card)

\* The powers of two.
Power[n \in 0..(MaxScale + 1)] == IF n = 0 THEN 1 ELSE 2 * Power[n - 1]
Unit == Power[MaxScale + 1]

VARIABLES
    row,        \* the committed version of each card
    pending,    \* per transaction: the versions it has written, so locked
    locked,     \* per column: the transaction holding it FOR UPDATE
    pc,         \* per transaction: its next statement
    job,        \* per transaction: the request
    rank,       \* per transaction: the rank MoveCard computed
    renumber    \* per transaction: the rows its rebalance has still to write

vars == <<row, pending, locked, pc, job, rank, renumber>>

Gone == [col |-> None, at |-> 0, scale |-> 0]
Row == [col : Column, at : Int, scale : Nat] \cup {Gone}
Rank == [at : Int, scale : Nat]
Job == [op : {"create", "move", "delete", "none"}, card : Card \cup {None},
        col : Column \cup {None}, anchor : Card \cup {None}]

NoJob == [op |-> "none", card |-> None, col |-> None, anchor |-> None]
NoRank == [at |-> 0, scale |-> 0]
Labels == {"idle", "moveRead", "moveWrite", "rebalanceRead", "rebalanceWrite",
           "insert", "commit", "ended"}

Nowhere == [c \in {} |-> Gone]

\* What a statement of t reads: its own writes over the committed rows.
Sees(t) == [c \in Card |-> IF c \in DOMAIN pending[t] THEN pending[t][c] ELSE row[c]]

\* Another transaction holds the row.
RowHolders(t, c) == {u \in Txn \ {t} : c \in DOMAIN pending[u]}

Write(t, c, version) ==
    pending' = [pending EXCEPT ![t] =
        [d \in DOMAIN @ \cup {c} |-> IF d = c THEN version ELSE @[d]]]

\* Any board whose columns are numbered 1..n, as creates and rebalances leave
\* them.
Init ==
    /\ row \in [Card -> [col : Column, at : {Unit * n : n \in 1..Cardinality(Card)},
                         scale : {0}] \cup {Gone}]
    /\ \A k \in Column :
        LET members == {c \in Card : row[c].col = k} IN
        {row[c].at : c \in members} = {Unit * n : n \in 1..Cardinality(members)}
    /\ pending = [t \in Txn |-> Nowhere]
    /\ locked = [k \in Column |-> None]
    /\ pc = [t \in Txn |-> "idle"]
    /\ job = [t \in Txn |-> NoJob]
    /\ rank = [t \in Txn |-> NoRank]
    /\ renumber = [t \in Txn |-> Nowhere]

-----------------------------------------------------------------------------
(* A transaction begins when its first lock is granted; while it waits for
   that one it holds nothing.  Clients name cards and columns they have seen,
   gone or not. *)

Goto(t, label) == pc' = [pc EXCEPT ![t] = label]

\* LockColumn: SELECT ... FOR UPDATE on the target column.
LockColumn(t, k, label) ==
    /\ pc[t] = "idle"
    /\ locked[k] = None
    /\ locked' = [locked EXCEPT ![k] = t]
    /\ Goto(t, label)
    /\ UNCHANGED <<row, pending, rank, renumber>>

BeginMove(t, c, k, a) ==
    /\ LockColumn(t, k, "moveRead")
    /\ job' = [job EXCEPT ![t] = [op |-> "move", card |-> c, col |-> k, anchor |-> a]]

\* The new card's id is one nobody else has.
BeginCreate(t, c, k) ==
    /\ row[c] = Gone
    /\ \A u \in Txn : job[u].card # c
    /\ LockColumn(t, k, "insert")
    /\ job' = [job EXCEPT ![t] = [op |-> "create", card |-> c, col |-> k, anchor |-> None]]

\* The transaction ends; its locks go, and its writes with them unless kept.
End(t) ==
    /\ Goto(t, "ended")
    /\ pending' = [pending EXCEPT ![t] = Nowhere]
    /\ locked' = [k \in Column |-> IF locked[k] = t THEN None ELSE locked[k]]
    /\ renumber' = [renumber EXCEPT ![t] = Nowhere]
    /\ job' = [job EXCEPT ![t] = NoJob]
    /\ rank' = [rank EXCEPT ![t] = NoRank]

Refuse(t) == End(t) /\ UNCHANGED row

-----------------------------------------------------------------------------
(* moveCard *)

\* The cards of k in a snapshot, other than c.
Siblings(snapshot, k, c) == {d \in Card \ {c} : snapshot[d].col = k}

\* The row with the smallest position of a non-empty set, or the largest.
Lowest(snapshot, S) == snapshot[CHOOSE d \in S : \A e \in S : snapshot[d].at <= snapshot[e].at]
Highest(snapshot, S) == snapshot[CHOOSE d \in S : \A e \in S : snapshot[d].at >= snapshot[e].at]

\* MoveCard's CASE: below = "the anchor's row, if any", above = the siblings
\* past it.
Larger(m, n) == IF m >= n THEN m ELSE n
\* Mutant of Placed: the upper bound is not looked for past the anchor.
PlacedAboveAll(snapshot, c, k, a) ==
    LET sibs  == Siblings(snapshot, k, c)
        above == sibs
        lower == snapshot[a]
        upper == Lowest(snapshot, above)
    IN  IF a = None
        THEN IF above = {}
             THEN [at |-> Unit, scale |-> 0]
             ELSE [at |-> upper.at - Unit, scale |-> upper.scale]
        ELSE IF above = {}
             THEN [at |-> lower.at + Unit, scale |-> lower.scale]
             ELSE [at |-> (lower.at + upper.at) \div 2,
                   scale |-> Larger(lower.scale, upper.scale) + 1]

Placed(snapshot, c, k, a) ==
    LET sibs  == Siblings(snapshot, k, c)
        above == {d \in sibs : a = None \/ snapshot[d].at > snapshot[a].at}
        lower == snapshot[a]
        upper == Lowest(snapshot, above)
    IN  IF a = None
        THEN IF above = {}
             THEN [at |-> Unit, scale |-> 0]
             ELSE [at |-> upper.at - Unit, scale |-> upper.scale]
        ELSE IF above = {}
             THEN [at |-> lower.at + Unit, scale |-> lower.scale]
             ELSE [at |-> (lower.at + upper.at) \div 2,
                   scale |-> Larger(lower.scale, upper.scale) + 1]

\* GetCard and MoveCard up to its row lock: no row, and a refusal, when the
\* card is not there or the anchor is not another card of the column.  (A card
\* that GetCard missed never comes back, so one step reads for both.)
MoveRead(t) ==
    LET j == job[t]
        anchored == j.anchor = None \/ j.anchor \in Siblings(row, j.col, j.card)
    IN
    /\ pc[t] = "moveRead"
    /\ IF row[j.card] # Gone /\ anchored
       THEN /\ rank' = [rank EXCEPT ![t] = Placed(row, j.card, j.col, j.anchor)]
            /\ Goto(t, "moveWrite")
            /\ UNCHANGED <<row, pending, locked, job, renumber>>
       ELSE Refuse(t)

\* The card's row is free: write its newest version, or match no row if it was
\* deleted meanwhile.
MoveWrite(t) ==
    LET j == job[t] IN
    /\ pc[t] = "moveWrite"
    /\ RowHolders(t, j.card) = {}
    /\ IF row[j.card] = Gone
       THEN Refuse(t)
       ELSE /\ Write(t, j.card, [col |-> j.col, at |-> rank[t].at, scale |-> rank[t].scale])
            /\ Goto(t, IF rank[t].scale > MaxScale THEN "rebalanceRead" ELSE "commit")
            /\ UNCHANGED <<row, locked, job, rank, renumber>>

\* Mutant of Numberings: row_number() without ORDER BY position.
NumberingsUnordered(snapshot, members) ==
    {f \in [members -> 1..Cardinality(members)] :
        \A c, d \in members : c # d => f[c] # f[d]}

\* RebalanceColumnCards: row_number() OVER (ORDER BY position, id).  Ids are
\* random, so cards of equal position may come in either order.
Numberings(snapshot, members) ==
    {f \in [members -> 1..Cardinality(members)] :
        \A c, d \in members : c # d =>
            /\ f[c] # f[d]
            /\ snapshot[c].at < snapshot[d].at => f[c] < f[d]}

RebalanceRead(t) ==
    LET snapshot == Sees(t)
        members == {c \in Card : snapshot[c].col = job[t].col}
    IN
    /\ pc[t] = "rebalanceRead"
    /\ \E f \in Numberings(snapshot, members) : renumber' = [renumber EXCEPT ![t] = f]
    /\ Goto(t, "rebalanceWrite")
    /\ UNCHANGED <<row, pending, locked, job, rank>>

\* One row of it, in whatever order the plan visits them.  The statement's
\* WHERE is the id alone, so a row that has changed column is still written.
RebalanceWrite(t, c) ==
    LET newest == Sees(t)[c] IN
    /\ pc[t] = "rebalanceWrite"
    /\ c \in DOMAIN renumber[t]
    /\ RowHolders(t, c) = {}
    /\ renumber' = [renumber EXCEPT ![t] = [d \in DOMAIN @ \ {c} |-> @[d]]]
    /\ IF newest = Gone
       THEN UNCHANGED pending
       ELSE Write(t, c, [newest EXCEPT !.at = Unit * renumber[t][c], !.scale = 0])
    /\ UNCHANGED <<row, locked, pc, job, rank>>

Rebalanced(t) ==
    /\ pc[t] = "rebalanceWrite"
    /\ DOMAIN renumber[t] = {}
    /\ Goto(t, "commit")
    /\ UNCHANGED <<row, pending, locked, job, rank, renumber>>

-----------------------------------------------------------------------------
(* createCardHandler and deleteCardHandler *)

\* Mutant of InsertCard: ranks by the number of cards instead of the last rank.
InsertCardCounted(t) ==
    LET j == job[t]
        sibs == Siblings(row, j.col, j.card)
    IN
    /\ pc[t] = "insert"
    /\ Write(t, j.card, [col |-> j.col, at |-> Unit * (Cardinality(sibs) + 1), scale |-> 0])
    /\ Goto(t, "commit")
    /\ UNCHANGED <<row, locked, job, rank, renumber>>

InsertCard(t) ==
    LET j == job[t]
        sibs == Siblings(row, j.col, j.card)
        last == IF sibs = {} THEN [at |-> 0, scale |-> 0] ELSE Highest(row, sibs)
    IN
    /\ pc[t] = "insert"
    /\ Write(t, j.card, [col |-> j.col, at |-> last.at + Unit, scale |-> last.scale])
    /\ Goto(t, "commit")
    /\ UNCHANGED <<row, locked, job, rank, renumber>>

\* A delete of a card that is not there refuses and changes nothing.
DeleteCard(t, c) ==
    /\ pc[t] = "idle"
    /\ RowHolders(t, c) = {}
    /\ row[c] # Gone
    /\ job' = [job EXCEPT ![t] = [op |-> "delete", card |-> c, col |-> None, anchor |-> None]]
    /\ Write(t, c, Gone)
    /\ Goto(t, "commit")
    /\ UNCHANGED <<row, locked, rank, renumber>>

-----------------------------------------------------------------------------
(* WithTenant *)

Commit(t) ==
    /\ pc[t] = "commit"
    /\ row' = Sees(t)
    /\ End(t)

\* A client that hangs up, or Postgres picking this transaction as the victim
\* of a deadlock.
Cancel(t) ==
    /\ pc[t] \notin {"idle", "ended"}
    /\ Refuse(t)

Step(t) ==
    \/ MoveRead(t) \/ MoveWrite(t) \/ InsertCard(t) \/ Commit(t)
    \/ RebalanceRead(t) \/ Rebalanced(t)
    \/ \E c \in Card : RebalanceWrite(t, c)

Request(t) ==
    \E c \in Card :
        \/ DeleteCard(t, c)
        \/ \E k \in Column :
            \/ BeginCreate(t, c, k)
            \/ \E a \in Card \cup {None} : BeginMove(t, c, k, a)

Next == \E t \in Txn : Request(t) \/ Step(t) \/ Cancel(t)

Spec == Init /\ [][Next]_vars

-----------------------------------------------------------------------------
(* What the ordering promises (docs/adr/0004-card-ordering.md). *)

\* "Ranks within a column are therefore distinct by construction": two
\* committed cards of a column never share a rank.
DistinctRanks ==
    \A c, d \in Card :
        (c # d /\ row[c] # Gone /\ row[c].col = row[d].col) => row[c].at # row[d].at

\* A move lands where it was asked to: when it commits, the card directly
\* follows its anchor if the anchor is still in the column, and is first if it
\* named none, whatever was created, moved or deleted meanwhile.
LandsAfterAnchor ==
    [][\A t \in Txn : (Commit(t) /\ job[t].op = "move") =>
        LET c == job[t].card
            k == job[t].col
            a == job[t].anchor
            others == {d \in Card \ {c} : row'[d].col = k}
        IN  /\ a = None => \A d \in others : row'[c].at < row'[d].at
            /\ a \in others =>
                /\ row'[a].at < row'[c].at
                /\ \A d \in others : row'[a].at < row'[d].at => row'[c].at < row'[d].at]_vars

\* Placing, creating or deleting one card never reorders two others: cards that
\* were and stay in one column keep their order, renumbered or not.
OthersKeepOrder ==
    [][\A t \in Txn : Commit(t) =>
        \A c, d \in Card \ {job[t].card} :
            (row[c] # Gone /\ row[c].col = row[d].col /\ row[c].at < row[d].at)
                => (row'[c].col = row'[d].col => row'[c].at < row'[d].at)]_vars

\* t cannot go on before u ends.
Waits(t, u) ==
    \/ pc[t] = "moveWrite" /\ u \in RowHolders(t, job[t].card)
    \/ /\ pc[t] = "rebalanceWrite"
       /\ DOMAIN renumber[t] # {}
       /\ \A c \in DOMAIN renumber[t] : RowHolders(t, c) # {}
       /\ \E c \in DOMAIN renumber[t] : u \in RowHolders(t, c)

\* moveCard: "there is no cycle and no deadlock between two concurrent moves".
NoDeadlock ==
    \A S \in (SUBSET Txn) \ {{}} : \E t \in S : \A u \in S : ~Waits(t, u)
=============================================================================
