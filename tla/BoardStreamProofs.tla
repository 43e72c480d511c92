------------------------- MODULE BoardStreamProofs --------------------------
(***************************************************************************)
(* Proofs about BoardStream and the Relay it runs over: the last word of   *)
(* every response body, the type invariant with the bound on a body, who   *)
(* is told that a session ended, that stop() is permanent, and that a      *)
(* missed change is owed a read.                                           *)
(*                                                                         *)
(* Relays (every slot's relay is sound) is inductive alone.  StreamInv     *)
(* adds the client and the world; Settled and DeletedKnown are what        *)
(* MissedIsOwed needs besides: what a screen with nothing pending hears.   *)
(* A chunk is folded in one step of the model, so what it does is shown    *)
(* message by message along the run that DispatchRun finds.                *)
(***************************************************************************)
EXTENDS BoardStream, FoldLemmas, SequenceTheorems

-----------------------------------------------------------------------------
(* What a body weighs. *)

\* A message weighs a frame's weight at most, and one if it is no frame.
LEMMA WeightNat ==
  ASSUME NEW m \in Message
  PROVE  Weight(m) \in Nat /\ Weight(m) <= FrameWeight /\ (m.t # "frame" => Weight(m) = 1)
  BY DEF Message, OpenMessage, Frame, Closed, Weight, FrameWeight

\* A body is weighed message by message.
LEMMA BufferedRun ==
  ASSUME NEW body \in Seq(Message)
  PROVE  \E sum \in [0..Len(body) -> Nat] :
           /\ sum[0] = 0
           /\ \A k \in 1..Len(body) : sum[k] = sum[k - 1] + Weight(body[k])
           /\ Buffered(body) = sum[Len(body)]
<1> DEFINE n == Len(body)
           step == [x \in Nat \X (1..n) |-> x[1] + Weight(body[x[2]])]
           Sums(f) == f = [S \in SUBSET (1..n) |->
                             IF S = {} THEN 0
                             ELSE f[S \ {Max(S)}] + Weight(body[Max(S)])]
           g == CHOOSE f : Sums(f)
<1>1. n \in Nat /\ DOMAIN body = 1..n
  BY LenProperties
<1>2. \A i \in 1..n : Weight(body[i]) \in Nat
  BY WeightNat, ElementOfSeq DEF FrameWeight
<1>3. Buffered(body) = g[1..n]
  BY <1>1 DEF Buffered, FoldLeft, MapThenFoldSet
<1>4. step \in [Nat \X (1..n) -> Nat]
  BY <1>2
<1>5. Sums(g)
  <2>1. PICK f \in [SUBSET (1..n) -> Nat] : IsFold(f, n, 0, step)
    <3> HIDE DEF step, n
    <3>1. 0 \in Nat
      OBVIOUS
    <3>2. QED
      BY <1>1, <1>4, <3>1, FoldExists
  <2>2. ASSUME NEW S \in SUBSET (1..n), S # {}
        PROVE  f[S] = f[S \ {Max(S)}] + Weight(body[Max(S)])
    <3>1. Max(S) \in 1..n
      BY <1>1, <2>2, MaxOfIndices
    <3>2. f[S \ {Max(S)}] \in Nat
      BY <2>1
    <3>3. f[S] = step[<<f[S \ {Max(S)}], Max(S)>>]
      BY <2>1, <2>2 DEF IsFold
    <3>4. QED
      BY <3>1, <3>2, <3>3
  <2>3. f[{}] = 0
    BY <2>1 DEF IsFold
  <2>4. Sums(f)
    BY <2>1, <2>2, <2>3
  <2>5. QED
    BY <2>4
<1> HIDE DEF g
<1>6. FoldsWithin(g, Nat, n, 0, step)
  <2>1. ASSUME NEW S \in SUBSET (1..n), S # {}, g[S \ {Max(S)}] \in Nat
        PROVE  g[S] = step[<<g[S \ {Max(S)}], Max(S)>>]
    <3>1. Max(S) \in 1..n
      BY <1>1, <2>1, MaxOfIndices
    <3>2. g[S] = g[S \ {Max(S)}] + Weight(body[Max(S)])
      BY <1>5, <2>1
    <3>3. QED
      BY <2>1, <3>1, <3>2
  <2>2. g[{}] = 0
    BY <1>5
  <2>3. QED
    BY <2>1, <2>2 DEF FoldsWithin
<1>7. PICK run \in [0..n -> Nat] : IsRun(run, n, 0, step, g[1..n])
  <2> HIDE DEF step, n
  <2>1. 0 \in Nat /\ n \in Nat
    BY <1>1 DEF n
  <2>2. \E run \in [0..n -> Nat] : IsRun(run, n, 0, step, g[1..n])
    BY <1>4, <1>6, <2>1, FoldPrefixes
  <2>3. QED
    BY <2>2
<1>8. ASSUME NEW k \in 1..n
      PROVE  run[k] = run[k - 1] + Weight(body[k])
  <2>1. k - 1 \in 0..n
    BY <1>1
  <2>2. run[k - 1] \in Nat
    BY <1>7, <2>1
  <2>3. QED
    BY <1>7, <2>2 DEF IsRun
<1>9. QED
  BY <1>1, <1>3, <1>7, <1>8 DEF IsRun

\* A weight is a number.
LEMMA BufferedNat ==
  ASSUME NEW body \in Seq(Message)
  PROVE  Buffered(body) \in Nat
<1>1. PICK sum \in [0..Len(body) -> Nat] : Buffered(body) = sum[Len(body)]
  BY BufferedRun
<1>2. Len(body) \in 0..Len(body)
  BY LenProperties
<1>3. QED
  BY <1>1, <1>2

\* An empty body weighs nothing.
LEMMA BufferedEmpty == Buffered(<<>>) = 0
  BY BufferedRun, EmptySeq

\* One message more weighs that message more.
LEMMA BufferedAppend ==
  ASSUME NEW body \in Seq(Message), NEW m \in Message
  PROVE  Buffered(Append(body, m)) = Buffered(body) + Weight(m)
<1> DEFINE n == Len(body)
           longer == Append(body, m)
<1>1. n \in Nat /\ longer \in Seq(Message) /\ Len(longer) = n + 1
      /\ (\A i \in 1..n : longer[i] = body[i]) /\ longer[n + 1] = m
  BY LenProperties, AppendProperties
<1>2. PICK sum \in [0..n -> Nat] :
        /\ sum[0] = 0
        /\ \A k \in 1..n : sum[k] = sum[k - 1] + Weight(body[k])
        /\ Buffered(body) = sum[n]
  BY BufferedRun
<1> HIDE DEF n, longer
<1>3. PICK more \in [0..(n + 1) -> Nat] :
        /\ more[0] = 0
        /\ \A k \in 1..(n + 1) : more[k] = more[k - 1] + Weight(longer[k])
        /\ Buffered(longer) = more[n + 1]
  BY <1>1, BufferedRun
<1>4. n \in {k \in 0..n : more[k] = sum[k]}
  <2> DEFINE T == {k \in 0..n : more[k] = sum[k]}
  <2>1. 0 \in T
    BY <1>1, <1>2, <1>3
  <2>2. ASSUME NEW k \in 0..(n - 1), k \in T
        PROVE  k + 1 \in T
    <3>1. k + 1 \in 1..n /\ k + 1 \in 1..(n + 1) /\ (k + 1) - 1 = k /\ k + 1 \in 0..n
      BY <1>1
    <3>2. sum[k + 1] = sum[k] + Weight(body[k + 1])
      BY <1>2, <3>1
    <3>3. more[k + 1] = more[k] + Weight(longer[k + 1])
      BY <1>3, <3>1
    <3>4. QED
      BY <1>1, <2>2, <3>1, <3>2, <3>3
  <2> HIDE DEF T
  <2>3. 0..n \subseteq T
    BY <1>1, <2>1, <2>2, UpTo
  <2>4. QED
    BY <1>1, <2>3 DEF T
<1>5. more[n + 1] = more[n] + Weight(m)
  <2>1. n + 1 \in 1..(n + 1) /\ (n + 1) - 1 = n
    BY <1>1
  <2>2. QED
    BY <1>1, <1>3, <2>1
<1>6. QED
  BY <1>2, <1>3, <1>4, <1>5 DEF longer

\* What is left of a body after a read weighs no more than the body did.
LEMMA BufferedRest ==
  ASSUME NEW body \in Seq(Message), NEW r \in 1..Len(body)
  PROVE  /\ SubSeq(body, r + 1, Len(body)) \in Seq(Message)
         /\ Len(SubSeq(body, r + 1, Len(body))) = Len(body) - r
         /\ \A i \in 1..(Len(body) - r) :
              SubSeq(body, r + 1, Len(body))[i] = body[i + r]
         /\ Buffered(SubSeq(body, r + 1, Len(body))) <= Buffered(body)
<1> DEFINE n == Len(body)
           rest == SubSeq(body, r + 1, n)
<1>1. n \in Nat /\ \A i \in 1..n : body[i] \in Message
  BY LenProperties, ElementOfSeq
<1>2. rest \in Seq(Message) /\ Len(rest) = n - r /\ \A i \in 1..(n - r) : rest[i] = body[i + r]
  <2>1. r + 1 \in Int /\ n \in Int /\ \A i \in (r + 1)..n : body[i] \in Message
    BY <1>1
  <2>2. /\ rest \in Seq(Message)
        /\ Len(rest) = IF r + 1 <= n THEN n - (r + 1) + 1 ELSE 0
        /\ \A i \in 1..(n - (r + 1) + 1) : rest[i] = body[(r + 1) + i - 1]
    <3> HIDE DEF n
    <3>1. QED
      BY <2>1, SubSeqProperties
  <2>3. Len(rest) = n - r
    BY <1>1, <2>2
  <2>4. ASSUME NEW i \in 1..(n - r)
        PROVE  rest[i] = body[i + r]
    <3>1. (r + 1) + i - 1 = i + r /\ i \in 1..(n - (r + 1) + 1)
      BY <1>1
    <3>2. QED
      BY <2>2, <3>1
  <2>5. QED
    BY <2>2, <2>3, <2>4
<1>3. PICK sum \in [0..n -> Nat] :
        /\ sum[0] = 0
        /\ \A k \in 1..n : sum[k] = sum[k - 1] + Weight(body[k])
        /\ Buffered(body) = sum[n]
  BY BufferedRun
<1> HIDE DEF n, rest
<1>4. n - r \in Nat /\ r \in 0..n
  BY <1>1 DEF n
<1>5. PICK less \in [0..(n - r) -> Nat] :
        /\ less[0] = 0
        /\ \A k \in 1..(n - r) : less[k] = less[k - 1] + Weight(rest[k])
        /\ Buffered(rest) = less[n - r]
  BY <1>2, BufferedRun
<1>6. less[n - r] <= sum[n]
  <2> DEFINE T == {k \in 0..(n - r) : less[k] <= sum[k + r]}
  <2>1. 0 \in T
    BY <1>3, <1>4, <1>5
  <2>2. ASSUME NEW k \in 0..((n - r) - 1), k \in T
        PROVE  k + 1 \in T
    <3>1. /\ k + 1 \in 1..(n - r) /\ (k + 1) - 1 = k /\ k + 1 \in 0..(n - r)
          /\ k + r + 1 \in 1..n /\ (k + r + 1) - 1 = k + r /\ (k + 1) + r = k + r + 1
          /\ k \in 0..(n - r) /\ k + r \in 0..n /\ k + r + 1 \in 0..n
      BY <1>1, <1>4
    <3>2. sum[k + r + 1] = sum[k + r] + Weight(body[k + r + 1])
      BY <1>3, <3>1
    <3>3. less[k + 1] = less[k] + Weight(rest[k + 1])
      BY <1>5, <3>1
    <3>4. rest[k + 1] = body[k + r + 1]
      <4>1. rest[k + 1] = body[(k + 1) + r]
        BY <1>2, <3>1
      <4>2. QED
        BY <3>1, <4>1
    <3>5. Weight(body[k + r + 1]) \in Nat
      BY <1>1, <3>1, WeightNat DEF FrameWeight
    <3>6. less[k] \in Nat /\ sum[k + r] \in Nat /\ less[k] <= sum[k + r]
      BY <1>3, <1>5, <2>2, <3>1
    <3>7. less[k + 1] <= sum[(k + 1) + r]
      BY <3>1, <3>2, <3>3, <3>4, <3>5, <3>6
    <3>8. QED
      BY <3>1, <3>7
  <2> HIDE DEF T
  <2>3. 0..(n - r) \subseteq T
    BY <1>4, <2>1, <2>2, UpTo
  <2>4. n - r \in T /\ (n - r) + r = n
    BY <1>1, <1>4, <2>3
  <2>5. QED
    BY <2>4 DEF T
<1>7. QED
  BY <1>2, <1>3, <1>5, <1>6 DEF n, rest

-----------------------------------------------------------------------------
(* The relay of one slot. *)

\* The flags agree: a relay is finished, its controller closed and its socket
\* closed, all at once.
Flags(r) == r.done = r.finished /\ (r.done <=> r.socket = "closed")

\* A body passes the budget by one frame at most, and by a last word.
Fits(r) == Buffered(r.body) <= Budget - 1 + FrameWeight + (IF r.done THEN 1 ELSE 0)

\* The last message of a finished relay's body, and no other, is a `closed`.
Closes(r) ==
  \A i \in 1..Len(r.body) : r.body[i].t = "closed" => i = Len(r.body) /\ r.finished

\* The API took the subscription away after message i of the body.
TakenAfter(r, i) == \E j \in (i + 1)..Len(r.body) : r.body[j] = Frame("unsubscribed")

\* A `subscribed` that nobody has read is still true, or what undid it is behind it.
Followed(r) ==
  \A i \in 1..Len(r.body) :
    r.body[i] = Frame("subscribed") /\ ~r.done => r.socket = "subscribed" \/ TakenAfter(r, i)

Steady(r) == r \in RelayState /\ Flags(r) /\ Fits(r) /\ Closes(r)
Sound(r) == Steady(r) /\ Followed(r)

\* The kinds of message are told apart.
LEMMA MessageKinds ==
  /\ OpenMessage \in Message /\ OpenMessage.t = "open"
  /\ Comment \in Message /\ Comment.t = "comment"
  /\ \A k \in FrameKind : Frame(k) \in Message /\ Frame(k).t = "frame" /\ Frame(k).kind = k
  /\ \A x \in Code : Closed(x) \in Message /\ Closed(x).t = "closed" /\ Closed(x).code = x
  /\ \A m \in Message : \/ m = OpenMessage \/ m = Comment
                        \/ m.t = "frame" /\ m.kind \in FrameKind /\ m = Frame(m.kind)
                        \/ m.t = "closed" /\ m.code \in Code /\ m = Closed(m.code)
  /\ \A k \in FrameKind, l \in FrameKind : Frame(k) = Frame(l) <=> k = l
  /\ \A k \in FrameKind : Frame(k) # OpenMessage /\ \A x \in Code : Frame(k) # Closed(x)
<1>1. /\ OpenMessage \in Message /\ OpenMessage.t = "open"
      /\ Comment \in Message /\ Comment.t = "comment"
  BY DEF Message, OpenMessage, Comment
<1>2. \A k \in FrameKind : Frame(k) \in Message /\ Frame(k).t = "frame" /\ Frame(k).kind = k
  BY DEF Message, Frame
<1>3. \A x \in Code : Closed(x) \in Message /\ Closed(x).t = "closed" /\ Closed(x).code = x
  BY DEF Message, Closed
<1>4. ASSUME NEW m \in Message
      PROVE  \/ m = OpenMessage \/ m = Comment
             \/ m.t = "frame" /\ m.kind \in FrameKind /\ m = Frame(m.kind)
             \/ m.t = "closed" /\ m.code \in Code /\ m = Closed(m.code)
  <2>1. CASE m = OpenMessage \/ m = Comment
    BY <2>1
  <2>2. CASE \E k \in FrameKind : m = Frame(k)
    BY <1>2, <2>2
  <2>3. CASE \E x \in Code : m = Closed(x)
    BY <1>3, <2>3
  <2>4. QED
    BY <2>1, <2>2, <2>3 DEF Message
<1>5. \A k \in FrameKind, l \in FrameKind : Frame(k) = Frame(l) <=> k = l
  BY <1>2
<1>6. \A k \in FrameKind : Frame(k) # OpenMessage /\ \A x \in Code : Frame(k) # Closed(x)
  BY <1>1, <1>2, <1>3
<1>7. QED
  BY <1>1, <1>2, <1>3, <1>4, <1>5, <1>6

\* The empty body, and the budget.
LEMMA EmptyBody ==
  <<>> \in Seq(Message) /\ Len(<<>>) = 0 /\ Buffered(<<>>) = 0 /\ Budget \in Nat \ {0}
  BY EmptySeq, BufferedEmpty, RelayNat

\* A slot that no stream occupies.
LEMMA UnusedSound == Sound(Unused)
  BY EmptyBody DEF Unused, Sound, Steady, RelayState, Flags, Fits, Closes, Followed, FrameWeight

\* stop() leaves a relay as it was, or ends its body with what it was given.
LEMMA StopSound ==
  ASSUME NEW r, Steady(r), NEW code \in Code
  PROVE  Sound(Stop(r, <<Closed(code)>>)) \/ (r.finished /\ Stop(r, <<Closed(code)>>) = r)
<1> DEFINE last == Closed(code)
           longer == Append(r.body, last)
           t == Stop(r, <<last>>)
<1>1. CASE r.finished
  BY <1>1 DEF Stop
<1>2. CASE ~r.finished
  <2>1. /\ r \in RelayState /\ ~r.done /\ r.body \in Seq(Message)
        /\ Buffered(r.body) <= Budget - 1 + FrameWeight
    <3>1. r \in RelayState /\ Flags(r) /\ Fits(r)
      BY DEF Steady
    <3>2. r.body \in Seq(Message) /\ r.done = FALSE
      BY <1>2, <3>1 DEF Flags, RelayState
    <3>3. Buffered(r.body) <= Budget - 1 + FrameWeight + 0
      BY <3>1, <3>2 DEF Fits
    <3>4. QED
      BY <3>1, <3>2, <3>3, BufferedNat, RelayNat DEF FrameWeight
  <2>2. last \in Message /\ last.t = "closed"
    BY MessageKinds
  <2>3. r.body \o <<last>> = longer
    BY <2>1, <2>2, AppendIsConcat
  <2>4. /\ longer \in Seq(Message) /\ Len(longer) = Len(r.body) + 1
        /\ \A i \in 1..Len(r.body) : longer[i] = r.body[i]
    BY <2>1, <2>2, AppendProperties
  <2>5. Buffered(longer) = Buffered(r.body) + 1
    BY <2>1, <2>2, BufferedAppend, WeightNat
  <2>6. t = [r EXCEPT !.body = longer, !.finished = TRUE, !.heartbeat = FALSE,
                      !.socket = "closed", !.done = TRUE]
    BY <1>2, <2>1, <2>3 DEF Stop
  <2> HIDE DEF last, longer
  <2>7. /\ t \in RelayState /\ t.body = longer /\ t.done = TRUE /\ t.finished = TRUE
        /\ t.socket = "closed"
    BY <2>1, <2>4, <2>6 DEF RelayState
  <2>8. Fits(t)
    <3>1. Buffered(r.body) \in Nat
      BY <2>1, BufferedNat
    <3>2. QED
      BY <2>1, <2>5, <2>7, <3>1, RelayNat DEF Fits, FrameWeight
  <2>9. Closes(t)
    <3>1. ASSUME NEW i \in 1..Len(longer), longer[i].t = "closed"
          PROVE  i = Len(longer)
      <4>1. Len(r.body) \in Nat
        BY <2>1, LenProperties
      <4>2. CASE i \in 1..Len(r.body)
        BY <1>2, <2>4, <3>1, <4>2 DEF Steady, Closes
      <4>3. QED
        BY <2>4, <4>1, <4>2
    <3>2. QED
      BY <2>7, <3>1 DEF Closes
  <2>10. QED
    <3>1. Flags(t)
      BY <2>7 DEF Flags
    <3>2. Followed(t)
      BY <2>7 DEF Followed
    <3>3. QED
      BY <2>7, <2>8, <2>9, <3>1, <3>2 DEF Sound, Steady, last
<1>3. QED
  BY <1>1, <1>2

\* A write leaves a relay as it was, ends it, or puts the message on the body.
LEMMA WriteSound ==
  ASSUME NEW r, Steady(r), NEW m \in Message, m.t # "closed",
         m = Frame("subscribed") => r.socket = "subscribed",
         Followed(r) \/ m = Frame("unsubscribed")
  PROVE  Sound(Write(r, m)) \/ (r.finished /\ Write(r, m) = r)
<1> DEFINE longer == Append(r.body, m)
           t == [r EXCEPT !.body = longer]
<1>1. CASE r.finished
  BY <1>1 DEF Write
<1>2. CASE ~r.finished /\ OverBudget(r)
  <2>1. 4002 \in Code
    BY DEF Code
  <2>2. Write(r, m) = Stop(r, <<Closed(4002)>>)
    BY <1>2 DEF Write, ShedSlowConsumer
  <2>3. QED
    BY <1>2, <2>1, <2>2, StopSound
<1>3. CASE ~r.finished /\ ~OverBudget(r)
  <2>1. r \in RelayState /\ Flags(r) /\ Closes(r)
    BY DEF Steady
  <2>2. r.done = FALSE /\ r.finished = FALSE /\ r.body \in Seq(Message)
        /\ r.socket # "closed"
    BY <1>3, <2>1 DEF Flags, RelayState
  <2>3. Write(r, m) = t
    BY <1>3, <2>2 DEF Write, Enqueue
  <2>4. /\ longer \in Seq(Message) /\ Len(longer) = Len(r.body) + 1
        /\ \A i \in 1..Len(r.body) : longer[i] = r.body[i]
        /\ longer[Len(r.body) + 1] = m
    BY <2>2, AppendProperties
  <2>5. /\ Buffered(longer) = Buffered(r.body) + Weight(m)
        /\ Buffered(r.body) \in Nat /\ Weight(m) \in Nat /\ Weight(m) <= FrameWeight
    BY <2>2, BufferedAppend, BufferedNat, WeightNat
  <2> HIDE DEF longer
  <2>6. /\ t \in RelayState /\ t.body = longer /\ t.done = FALSE
        /\ t.finished = FALSE /\ t.socket = r.socket
    BY <2>1, <2>2, <2>4 DEF RelayState
  <2>7. Len(r.body) \in Nat
    BY <2>2, LenProperties
  <2>8. Fits(t)
    <3>1. Buffered(r.body) < Budget
      BY <1>3, <2>2, <2>5, RelayNat DEF OverBudget
    <3>2. Buffered(longer) <= Budget - 1 + FrameWeight + 0
      BY <2>5, <3>1, RelayNat DEF FrameWeight
    <3>3. QED
      BY <2>6, <3>2 DEF Fits
  <2>9. Closes(t)
    <3>1. ASSUME NEW i \in 1..Len(longer)
          PROVE  longer[i].t # "closed"
      BY <2>1, <2>2, <2>4, <2>7 DEF Closes
    <3>2. QED
      BY <2>6, <3>1 DEF Closes
  <2>10. Followed(t)
    <3>1. ASSUME NEW i \in 1..Len(longer), longer[i] = Frame("subscribed")
          PROVE  r.socket = "subscribed" \/ TakenAfter(t, i)
      <4>1. CASE i = Len(r.body) + 1
        BY <2>4, <3>1, <4>1
      <4>2. CASE i \in 1..Len(r.body)
        <5>1. CASE m = Frame("unsubscribed")
          <6>1. Len(longer) \in (i + 1)..Len(longer)
            BY <2>4, <2>7, <4>2
          <6>2. QED
            BY <2>4, <2>6, <5>1, <6>1 DEF TakenAfter
        <5>2. CASE Followed(r)
          <6>1. r.socket = "subscribed" \/ TakenAfter(r, i)
            BY <2>2, <2>4, <3>1, <4>2, <5>2 DEF Followed
          <6>2. ASSUME NEW j \in (i + 1)..Len(r.body), r.body[j] = Frame("unsubscribed")
                PROVE  TakenAfter(t, i)
            <7>1. j \in 1..Len(r.body) /\ j \in (i + 1)..Len(longer)
              BY <2>4, <2>7, <4>2
            <7>2. QED
              BY <2>4, <2>6, <6>2, <7>1 DEF TakenAfter
          <6>3. QED
            BY <6>1, <6>2 DEF TakenAfter
        <5>3. QED
          BY <5>1, <5>2
      <4>3. QED
        BY <2>4, <2>7, <4>1, <4>2
    <3>2. QED
      BY <2>6, <3>1 DEF Followed
  <2>11. Flags(t)
    BY <2>2, <2>6 DEF Flags
  <2>12. QED
    BY <2>3, <2>6, <2>8, <2>9, <2>10, <2>11 DEF Sound, Steady
<1>4. QED
  BY <1>1, <1>2, <1>3

\* A relay that starts is sound: dialing, or at its end already.
LEMMA StartedSound ==
  /\ Sound(Started(FALSE, TRUE)) /\ Sound(Started(FALSE, FALSE)) /\ Sound(Started(TRUE, TRUE))
  /\ Started(FALSE, TRUE).socket = "dialing" /\ Started(FALSE, TRUE).body = <<>>
  /\ Started(FALSE, FALSE).done /\ Started(FALSE, FALSE).body = <<Closed(0)>>
<1> DEFINE new == [socket |-> "dialing", body |-> <<>>, done |-> FALSE,
                   finished |-> FALSE, heartbeat |-> FALSE]
<1>1. Steady(new)
  BY EmptyBody DEF Steady, RelayState, Flags, Fits, Closes, FrameWeight
<1>2. Sound(Started(FALSE, TRUE)) /\ Started(FALSE, TRUE).socket = "dialing"
      /\ Started(FALSE, TRUE).body = <<>>
  <2> DEFINE t == Started(FALSE, TRUE)
  <2>1. t = [new EXCEPT !.heartbeat = TRUE]
    BY DEF Started
  <2>2. /\ t \in RelayState /\ t.socket = "dialing" /\ t.body = <<>>
        /\ t.done = FALSE /\ t.finished = FALSE
    BY <2>1, EmptyBody DEF RelayState
  <2> HIDE DEF t
  <2>3. Flags(t)
    BY <2>2 DEF Flags
  <2>4. Fits(t)
    BY <2>2, EmptyBody DEF Fits, FrameWeight
  <2>5. Closes(t) /\ Followed(t)
    BY <2>2, EmptyBody DEF Closes, Followed
  <2>6. QED
    BY <2>2, <2>3, <2>4, <2>5 DEF Sound, Steady, t
<1>3. 0 \in Code
  BY DEF Code
<1>4. Sound(Started(FALSE, FALSE))
  BY <1>1, <1>3, StopSound DEF Started
<1>5. Started(FALSE, FALSE).done /\ Started(FALSE, FALSE).body = <<Closed(0)>>
  <2>1. <<>> \o <<Closed(0)>> = <<Closed(0)>>
    BY <1>3, MessageKinds, ConcatEmptySeq
  <2>2. QED
    BY <2>1 DEF Started, Stop
<1>6. Sound(Started(TRUE, TRUE))
  <2>1. <<>> \o <<>> = <<>>
    BY EmptyBody, ConcatEmptySeq
  <2>2. Started(TRUE, TRUE) = [socket |-> "closed", body |-> <<>>, done |-> TRUE,
                               finished |-> TRUE, heartbeat |-> FALSE]
    BY <2>1 DEF Started, Stop
  <2>3. QED
    BY <2>2, UnusedSound DEF Unused
<1>7. QED
  BY <1>2, <1>4, <1>5, <1>6

\* A relay whose reader is gone keeps nothing.
LEMMA EmptiedSound ==
  ASSUME NEW r \in RelayState
  PROVE  /\ ~r.finished => Sound([Stop(r, <<>>) EXCEPT !.body = <<>>])
         /\ Sound([r EXCEPT !.finished = TRUE, !.heartbeat = FALSE, !.socket = "closed",
                            !.done = TRUE, !.body = <<>>])
<1> DEFINE t == [r EXCEPT !.finished = TRUE, !.heartbeat = FALSE, !.socket = "closed",
                          !.done = TRUE, !.body = <<>>]
<1>1. Sound(t)
  <2>1. /\ t \in RelayState /\ t.socket = "closed" /\ t.body = <<>>
        /\ t.done = TRUE /\ t.finished = TRUE
    BY EmptyBody DEF RelayState
  <2> HIDE DEF t
  <2>2. Flags(t)
    BY <2>1 DEF Flags
  <2>3. Fits(t)
    BY <2>1, EmptyBody DEF Fits, FrameWeight
  <2>4. Closes(t) /\ Followed(t)
    BY <2>1, EmptyBody DEF Closes, Followed
  <2>5. QED
    BY <2>1, <2>2, <2>3, <2>4 DEF Sound, Steady
<1>2. ~r.finished => [Stop(r, <<>>) EXCEPT !.body = <<>>] = t
  BY DEF Stop, RelayState
<1>3. QED
  BY <1>1, <1>2

\* What a reader leaves of a body is as sound as the body was.
LEMMA RestSound ==
  ASSUME NEW r, Sound(r), NEW n \in 1..Len(r.body)
  PROVE  Sound([r EXCEPT !.body = SubSeq(r.body, n + 1, Len(r.body))])
<1> DEFINE len == Len(r.body)
           rest == SubSeq(r.body, n + 1, len)
           t == [r EXCEPT !.body = rest]
<1>1. r \in RelayState /\ Flags(r) /\ Fits(r) /\ Closes(r) /\ Followed(r)
  BY DEF Sound, Steady
<1>2. r.body \in Seq(Message) /\ r.done \in BOOLEAN /\ r.finished \in BOOLEAN
  BY <1>1 DEF RelayState
<1>3. /\ rest \in Seq(Message) /\ Len(rest) = len - n
      /\ \A i \in 1..(len - n) : rest[i] = r.body[i + n]
      /\ Buffered(rest) <= Buffered(r.body)
  BY <1>2, BufferedRest
<1>4. len \in Nat /\ n \in 1..len
  BY <1>2, LenProperties
<1> HIDE DEF rest, len
<1>5. /\ t \in RelayState /\ t.body = rest /\ t.done = r.done
      /\ t.finished = r.finished /\ t.socket = r.socket
  BY <1>1, <1>3 DEF RelayState
<1>6. Flags(t)
  BY <1>1, <1>5 DEF Flags
<1>7. Fits(t)
  <2>1. Buffered(rest) \in Nat /\ Buffered(r.body) \in Nat
    BY <1>2, <1>3, BufferedNat
  <2>2. QED
    BY <1>1, <1>2, <1>3, <1>5, <2>1, RelayNat DEF Fits, FrameWeight
<1>8. Closes(t)
  <2>1. ASSUME NEW i \in 1..Len(rest), rest[i].t = "closed"
        PROVE  i = Len(rest) /\ r.finished
    <3>1. i + n \in 1..len /\ r.body[i + n].t = "closed"
      BY <1>3, <1>4, <2>1
    <3>2. i + n = len /\ r.finished
      BY <1>1, <3>1 DEF Closes, len
    <3>3. QED
      BY <1>3, <1>4, <3>2
  <2>2. QED
    BY <1>5, <2>1 DEF Closes
<1>9. Followed(t)
  <2>1. ASSUME NEW i \in 1..Len(rest), rest[i] = Frame("subscribed"), ~r.done
        PROVE  r.socket = "subscribed" \/ TakenAfter(t, i)
    <3>1. i + n \in 1..len /\ r.body[i + n] = Frame("subscribed") /\ i \in 1..(len - n)
      BY <1>3, <1>4, <2>1
    <3>2. r.socket = "subscribed" \/ TakenAfter(r, i + n)
      BY <1>1, <2>1, <3>1 DEF Followed, len
    <3>3. ASSUME NEW j \in (i + n + 1)..len, r.body[j] = Frame("unsubscribed")
          PROVE  TakenAfter(t, i)
      <4>1. j - n \in (i + 1)..Len(rest) /\ j - n \in 1..(len - n) /\ (j - n) + n = j
        BY <1>3, <1>4, <3>1
      <4>2. rest[j - n] = Frame("unsubscribed")
        BY <1>3, <3>3, <4>1
      <4>3. QED
        BY <1>5, <4>1, <4>2 DEF TakenAfter
    <3>4. QED
      BY <3>2, <3>3 DEF TakenAfter, len
  <2>2. QED
    BY <1>5, <2>1 DEF Followed
<1>10. QED
  BY <1>5, <1>6, <1>7, <1>8, <1>9 DEF Sound, Steady, rest, len

-----------------------------------------------------------------------------
(* Every relay stays sound. *)

Relays == relay \in [Slot -> RelayState] /\ \A c \in Slot : Sound(relay[c])

\* A listener that sets its slot to a sound relay leaves all of them sound.
LEMMA SetSound ==
  ASSUME Relays, NEW c \in Slot, NEW r, Sound(r), relay' = [relay EXCEPT ![c] = r]
  PROVE  Relays'
<1>1. r \in RelayState
  BY DEF Sound, Steady
<1>2. \A d \in Slot : relay'[d] = IF d = c THEN r ELSE relay[d]
  BY DEF Relays
<1>3. relay' \in [Slot -> RelayState]
  BY <1>1 DEF Relays
<1>4. ASSUME NEW d \in Slot
      PROVE  Sound(relay[d])'
  <2>1. Sound(relay'[d])
    BY <1>2 DEF Relays
  <2>2. QED
    BY <2>1 DEF Sound, Steady, RelayState, Flags, Fits, Closes, Followed, TakenAfter
<1>5. QED
  BY <1>3, <1>4 DEF Relays

\* "open", "message" and "close" of the socket, the interval, the abort and cancel().
LEMMA ListenersSound ==
  ASSUME Relays, NEW c \in Slot,
         \/ SocketOpened(c) \/ SocketOpenFailed(c)
         \/ Heartbeat(c) \/ RequestAborted(c) \/ Cancelled(c)
         \/ \E code \in Code : SocketEnded(c, code)
         \/ /\ relay[c].socket = "asked"
            /\ \/ SocketMessage(c, "subscribed", "subscribed")
               \/ SocketMessage(c, "refused", "left")
               \/ SocketMessage(c, "unavailable", "left")
         \/ relay[c].socket = "subscribed" /\ SocketMessage(c, "unsubscribed", "left")
  PROVE  Relays'
<1> DEFINE r == relay[c]
<1>1. Sound(r) /\ Steady(r) /\ r \in RelayState /\ Flags(r) /\ Fits(r) /\ Closes(r)
      /\ Followed(r)
  BY DEF Relays, Sound, Steady
<1>2. 0 \in Code /\ 4002 \in Code
  BY DEF Code
<1>3. ASSUME NEW code \in Code, r.socket # "closed", Set(c, Stop(r, <<Closed(code)>>))
      PROVE  Relays'
  <2>1. ~r.finished
    BY <1>1, <1>3 DEF Flags, RelayState
  <2>2. Sound(Stop(r, <<Closed(code)>>))
    BY <1>1, <2>1, StopSound
  <2>3. QED
    BY <1>3, <2>2, SetSound DEF Set
<1>4. ASSUME NEW kind \in FrameKind,
             NEW socket \in {"asked", "subscribed", "left"}, r.socket # "closed",
             kind = "subscribed" => socket = "subscribed",
             r.socket = "subscribed" => kind = "unsubscribed",
             SocketMessage(c, kind, socket)
      PROVE  Relays'
  <2> DEFINE t == [r EXCEPT !.socket = socket]
  <2>1. t \in RelayState /\ t.socket = socket /\ t.body = r.body /\ t.done = r.done
        /\ t.finished = r.finished /\ r.finished = FALSE
    BY <1>1, <1>4 DEF RelayState, Flags
  <2> HIDE DEF t
  <2>2. Steady(t)
    <3>1. Flags(t)
      BY <1>1, <1>4, <2>1 DEF Flags
    <3>2. Fits(t)
      BY <1>1, <2>1 DEF Fits
    <3>3. Closes(t)
      BY <1>1, <2>1 DEF Closes
    <3>4. QED
      BY <2>1, <3>1, <3>2, <3>3 DEF Steady
  <2>3. Followed(t) \/ Frame(kind) = Frame("unsubscribed")
    <3>1. CASE r.socket # "subscribed"
      BY <1>1, <2>1, <3>1 DEF Followed, TakenAfter
    <3>2. QED
      BY <1>4, <3>1
  <2>4. Frame(kind) \in Message /\ Frame(kind).t # "closed"
        /\ (Frame(kind) = Frame("subscribed") => t.socket = "subscribed")
    BY <1>4, <2>1, MessageKinds DEF FrameKind
  <2>5. Sound(Write(t, Frame(kind)))
    BY <2>1, <2>2, <2>3, <2>4, WriteSound
  <2>6. relay' = [relay EXCEPT ![c] = Write(t, Frame(kind))]
    BY <1>4 DEF SocketMessage, Set, t
  <2>7. QED
    BY <2>5, <2>6, SetSound
<1>5. CASE SocketOpened(c)
  <2> DEFINE t == [r EXCEPT !.socket = "asked"]
  <2>1. r.socket = "dialing"
    BY <1>5 DEF SocketOpened
  <2>2. t \in RelayState /\ t.socket = "asked" /\ t.body = r.body /\ t.done = r.done
        /\ t.finished = r.finished /\ r.finished = FALSE
    BY <1>1, <2>1 DEF RelayState, Flags
  <2> HIDE DEF t
  <2>3. Steady(t)
    <3>1. Flags(t)
      BY <1>1, <2>1, <2>2 DEF Flags
    <3>2. Fits(t)
      BY <1>1, <2>2 DEF Fits
    <3>3. Closes(t)
      BY <1>1, <2>2 DEF Closes
    <3>4. QED
      BY <2>2, <3>1, <3>2, <3>3 DEF Steady
  <2>4. Followed(t)
    BY <1>1, <2>1, <2>2 DEF Followed, TakenAfter
  <2>5. OpenMessage \in Message /\ OpenMessage.t # "closed"
        /\ OpenMessage # Frame("subscribed")
    BY MessageKinds DEF FrameKind
  <2>6. Sound(Write(t, OpenMessage))
    BY <2>2, <2>3, <2>4, <2>5, WriteSound
  <2>7. relay' = [relay EXCEPT ![c] = Write(t, OpenMessage)]
    BY <1>5 DEF SocketOpened, Set, t
  <2>8. QED
    BY <2>6, <2>7, SetSound
<1>6. CASE SocketOpenFailed(c)
  BY <1>2, <1>3, <1>6 DEF SocketOpenFailed
<1>7. CASE Heartbeat(c)
  <2>1. Comment \in Message /\ Comment.t # "closed" /\ Comment # Frame("subscribed")
    BY MessageKinds DEF FrameKind
  <2>2. Sound(Write(r, Comment))
    BY <1>1, <2>1, WriteSound
  <2>3. relay' = [relay EXCEPT ![c] = Write(r, Comment)]
    BY <1>7 DEF Heartbeat, Set
  <2>4. QED
    BY <2>2, <2>3, SetSound
<1>8. CASE RequestAborted(c)
  <2>1. Sound([Stop(r, <<>>) EXCEPT !.body = <<>>])
    BY <1>1, <1>8, EmptiedSound DEF RequestAborted
  <2>2. relay' = [relay EXCEPT ![c] = [Stop(r, <<>>) EXCEPT !.body = <<>>]]
    BY <1>8 DEF RequestAborted, Set
  <2>3. QED
    BY <2>1, <2>2, SetSound
<1>9. CASE Cancelled(c)
  <2> DEFINE t == [r EXCEPT !.finished = TRUE, !.heartbeat = FALSE, !.socket = "closed",
                            !.done = TRUE, !.body = <<>>]
  <2>1. Sound(t)
    BY <1>1, EmptiedSound
  <2>2. relay' = [relay EXCEPT ![c] = t]
    BY <1>9 DEF Cancelled, Set
  <2>3. QED
    BY <2>1, <2>2, SetSound
<1>10. ASSUME NEW code \in Code, SocketEnded(c, code)
       PROVE  Relays'
  BY <1>3, <1>10 DEF SocketEnded
<1>11. QED
  BY <1>4, <1>5, <1>6, <1>7, <1>8, <1>9, <1>10 DEF FrameKind

\* What does not touch the relays leaves them sound.
LEMMA RelaysSame ==
  ASSUME Relays, UNCHANGED relay
  PROVE  Relays'
  BY DEF Relays, Sound, Steady, RelayState, Flags, Fits, Closes, Followed, TakenAfter

\* A change is written to every socket that is subscribed.
LEMMA DeliverSound ==
  ASSUME Relays, NEW kind \in {"event", "deleted"}, Deliver(kind)
  PROVE  Relays'
<1> DEFINE m == Frame(kind)
<1>1. m \in Message /\ m.t # "closed" /\ m # Frame("subscribed")
  BY MessageKinds DEF FrameKind
<1>2. \A c \in Slot : relay[c] \in RelayState /\ Steady(relay[c]) /\ Followed(relay[c])
  BY DEF Relays, Sound
<1>3. ASSUME NEW c \in Slot, relay[c].socket = "subscribed"
      PROVE  Sound(Write(relay[c], m))
  <2>1. Flags(relay[c]) /\ relay[c].done \in BOOLEAN /\ relay[c].finished \in BOOLEAN
    BY <1>2 DEF Steady, RelayState
  <2>2. ~relay[c].finished
    BY <1>3, <2>1 DEF Flags
  <2> HIDE DEF m
  <2>3. QED
    BY <1>1, <1>2, <2>2, WriteSound
<1>4. \A c \in Slot : Sound(relay'[c])
  BY <1>3 DEF Deliver, Relays
<1>5. relay' \in [Slot -> RelayState]
  <2>1. relay' = [c \in Slot |-> IF relay[c].socket = "subscribed" THEN Write(relay[c], m)
                                 ELSE relay[c]]
    BY DEF Deliver
  <2>2. \A c \in Slot : relay'[c] \in RelayState
    BY <1>4 DEF Sound, Steady
  <2>3. QED
    BY <2>1, <2>2
<1>6. ASSUME NEW d \in Slot
      PROVE  Sound(relay[d])'
  BY <1>4 DEF Sound, Steady, RelayState, Flags, Fits, Closes, Followed, TakenAfter
<1>7. QED
  BY <1>5, <1>6 DEF Relays

\* #connect starts on a slot nobody uses.
LEMMA ConnectSound ==
  ASSUME Relays, NEW s, Connect(s)
  PROVE  Relays'
<1>1. CASE s.stopped
  BY <1>1, RelaysSame DEF Connect
<1>2. CASE ~s.stopped
  <2>1. PICK c \in FirstFree : relay' = [relay EXCEPT ![c] = Unused]
    BY <1>2 DEF Connect
  <2>2. c \in Slot
    BY <2>1 DEF FirstFree
  <2>3. QED
    BY <2>1, <2>2, UnusedSound, SetSound
<1>3. QED
  BY <1>1, <1>2

\* Each step of the stream and of the world keeps the relays sound.
LEMMA RelaysStep ==
  ASSUME Relays, [Next]_vars
  PROVE  Relays'
<1>1. ASSUME NEW c \in Slot, StreamOpened(c)
      PROVE  Relays'
  BY <1>1, StartedSound, SetSound DEF StreamOpened, Set
<1>2. ASSUME NEW c \in Slot, StreamAborted(c)
      PROVE  Relays'
  BY <1>2, StartedSound, SetSound DEF StreamAborted, Set
<1>3. ASSUME NEW c \in Slot, ReadChunk(c)
      PROVE  Relays'
  <2>1. PICK n \in 1..Len(relay[c].body) :
          relay' = [relay EXCEPT ![c] =
            [relay[c] EXCEPT !.body = SubSeq(relay[c].body, n + 1, Len(relay[c].body))]]
    BY <1>3 DEF ReadChunk, Set
  <2>2. Sound(relay[c])
    BY DEF Relays
  <2>3. Sound([relay[c] EXCEPT !.body = SubSeq(relay[c].body, n + 1, Len(relay[c].body))])
    BY <2>2, RestSound
  <2>4. QED
    BY <2>1, <2>3, SetSound
<1>4. ASSUME NEW c \in Slot,
             StreamUnauthorized(c) \/ StreamRefused(c) \/ ReadOver(c) \/ ReadAborted(c)
             \/ Cut(c)
      PROVE  Relays'
  BY <1>4, RelaysSame DEF StreamUnauthorized, StreamRefused, ReadOver, ReadAborted, Cut
<1>5. ASSUME NEW c \in Slot, ServerStep(c) \/ RelayBeats(c) \/ RelayEnds(c) \/ ApiFails(c)
      PROVE  Relays'
  <2>1. {4001, 4003, 0, 1001, 1006, 4002} \subseteq Code
    BY DEF Code
  <2>2. CASE RelayOpened(c)
    BY <2>2, ListenersSound DEF RelayOpened
  <2>3. CASE RelayEnds(c)
    BY <2>3, ListenersSound DEF RelayEnds
  <2>4. CASE Answer(c)
    BY <2>4, ListenersSound DEF Answer
  <2>5. CASE Sweep(c)
    BY <2>5, ListenersSound DEF Sweep
  <2>6. CASE ApiEnds(c)
    BY <2>1, <2>6, ListenersSound DEF ApiEnds
  <2>7. CASE RelayBeats(c)
    BY <2>7, ListenersSound DEF RelayBeats
  <2>8. CASE ApiFails(c)
    BY <2>1, <2>8, ListenersSound DEF ApiFails
  <2>9. QED
    BY <1>5, <2>2, <2>3, <2>4, <2>5, <2>6, <2>7, <2>8 DEF ServerStep
<1>6. ASSUME NEW id \in Timer, TimerFired(id)
      PROVE  Relays'
  <2>1. UNCHANGED relay \/ \E s : Connect(s)
    BY <1>6 DEF TimerFired
  <2>2. QED
    BY <2>1, RelaysSame, ConnectSound
<1>7. CASE Renewed
  <2>1. UNCHANGED relay \/ Connect(cl)
    BY <1>7 DEF Renewed, RenewedTimer, RenewedStream
  <2>2. QED
    BY <2>1, RelaysSame, ConnectSound
<1>8. CASE Publish
  <2>1. \E kind \in {"event", "deleted"} : Deliver(kind)
    BY <1>8 DEF Publish
  <2>2. QED
    BY <2>1, DeliverSound
<1>9. CASE Unmount \/ TokenExpires \/ SessionEnds \/ AccessEnds \/ UNCHANGED vars
  BY <1>9, RelaysSame DEF Unmount, TokenExpires, SessionEnds, AccessEnds, vars
<1>10. QED
  BY <1>1, <1>2, <1>3, <1>4, <1>5, <1>6, <1>7, <1>8, <1>9 DEF Next, ClientStep

\* They are sound at the start.
LEMMA RelaysInit ==
  ASSUME Init
  PROVE  Relays
  BY UnusedSound DEF Init, Relays, Sound, Steady

(* Relay.LastWord for every budget and number of slots, over whatever the browser,
   the API and the network do: a response body ends with the reason of its end,
   and says it once. *)
THEOREM StreamLastWord == Spec => []LastWord
<1>1. Relays => LastWord
  BY DEF Relays, Sound, Steady, Closes, LastWord
<1>2. QED
  BY <1>1, RelaysInit, RelaysStep, PTL DEF Spec

-----------------------------------------------------------------------------
(* The methods of the client, from one client state to the next. *)

Client ==
  [mounted : BOOLEAN, stopped : BOOLEAN,
   status : {"connecting", "live", "reconnecting", "stopped"},
   notice : {"none", "revoked", "problem", "refused", "signedOut"},
   attempt : 0..(QuietRetries + 1),
   abort : Slot \cup {None}, aborted : SUBSET Slot,
   timers : [Timer -> {"off", "reconnect", "refresh"}],
   timer : Timer \cup {None},
   seenDeleted : BOOLEAN,
   missed : BOOLEAN]

Recovery ==
  [action : {"refresh", "reconnect", "stop"},
   notice : {"none", "revoked", "problem", "refused", "signedOut"},
   escalates : BOOLEAN]

\* What a frame or a close code may make the screen say.
Verdict == {"revoked", "problem", "refused"}

\* The stream is stopped, or one of its timers is armed.
Armed(s) == \E id \in Timer : s.timers[id] # "off"
Halted(s) == s.stopped \/ Armed(s)

\* What no method of the client undoes between s and t.
Keeps(s, t) ==
  /\ t.mounted = s.mounted
  /\ s.stopped => t.stopped
  /\ \A id \in Timer : s.timers[id] # "off" => t.timers[id] # "off"

\* Between s and t only what #ended touches has changed.
SameElse(s, t) ==
  /\ t.aborted = s.aborted /\ t.seenDeleted = s.seenDeleted /\ t.missed = s.missed

\* Methods that keep these keep them one after the other.
LEMMA KeepsOn ==
  ASSUME NEW s, NEW t, NEW u, Keeps(s, t), Keeps(t, u)
  PROVE  Keeps(s, u) /\ (Halted(s) => Halted(t))
  BY DEF Keeps, Halted, Armed

\* The recovery table.
LEMMA RecoveryTyped ==
  /\ \A code \in Code : RecoveryFor(code) \in Recovery
                        /\ RecoveryFor(code).notice \in Verdict \cup {"none"}
  /\ \A kind : RecoveryForErrorFrame(kind) \in Recovery
               /\ RecoveryForErrorFrame(kind).notice \in Verdict \cup {"none"}
  /\ StopWith("revoked") \in Recovery /\ StopWith("revoked").notice \in Verdict
  /\ SignedOutRecovery \in Recovery
  /\ Reconnect(TRUE) \in Recovery /\ Reconnect(TRUE).notice = "none"
  /\ Reconnect(TRUE).action = "reconnect"
<1>1. ASSUME NEW notice \in Verdict \cup {"signedOut"}
      PROVE  StopWith(notice) \in Recovery /\ StopWith(notice).notice = notice
  BY DEF StopWith, Recovery, Verdict
<1>2. ASSUME NEW b \in BOOLEAN
      PROVE  Reconnect(b) \in Recovery /\ Reconnect(b).notice = "none"
             /\ Reconnect(b).action = "reconnect"
  BY DEF Reconnect, Recovery
<1>3. ASSUME NEW code \in Code
      PROVE  RecoveryFor(code) \in Recovery
             /\ RecoveryFor(code).notice \in Verdict \cup {"none"}
  <2>1. CASE code = 4001
    BY <2>1 DEF RecoveryFor, Recovery, Verdict
  <2>2. CASE code \in {4003, 1003}
    <3>1. RecoveryFor(4003) = StopWith("revoked") /\ RecoveryFor(1003) = StopWith("problem")
      BY DEF RecoveryFor
    <3>2. QED
      BY <1>1, <2>2, <3>1 DEF Verdict
  <2>3. CASE code \in Code \ {4001, 4003, 1003}
    BY <2>3 DEF RecoveryFor, Reconnect, Recovery, Code
  <2>4. QED
    BY <2>1, <2>2, <2>3
<1>4. \A kind : RecoveryForErrorFrame(kind) \in Recovery
                /\ RecoveryForErrorFrame(kind).notice \in Verdict \cup {"none"}
  BY <1>1, <1>2 DEF RecoveryForErrorFrame, Verdict
<1>5. QED
  BY <1>1, <1>2, <1>3, <1>4 DEF SignedOutRecovery, Verdict

\* setTimer arms a timer, and disarms none.
LEMMA SetTimerArms ==
  ASSUME NEW s \in Client, NEW action \in {"reconnect", "refresh"}
  PROVE  LET t == SetTimer(s, action)
         IN  /\ t \in Client /\ Armed(t) /\ Keeps(s, t) /\ SameElse(s, t)
             /\ t.notice = s.notice
<1> DEFINE free == {i \in Timer : s.timers[i] = "off"}
           from == IF free = {} THEN Timer ELSE free
           id == CHOOSE i \in from : TRUE
           t == SetTimer(s, action)
<1>1. id \in Timer
  <2>1. from # {} /\ from \subseteq Timer
    BY BoundsNat DEF Timer
  <2> HIDE DEF from
  <2>2. id \in from
    BY <2>1
  <2>3. QED
    BY <2>1, <2>2
<1>2. t = [s EXCEPT !.timers[id] = action, !.timer = id]
  BY DEF SetTimer
<1> HIDE DEF id, t
<1>3. t \in Client /\ t.timers = [s.timers EXCEPT ![id] = action]
      /\ t.mounted = s.mounted /\ t.stopped = s.stopped /\ t.notice = s.notice
      /\ SameElse(s, t)
  BY <1>1, <1>2 DEF Client, SameElse
<1>4. Armed(t) /\ Keeps(s, t)
  BY <1>1, <1>3 DEF Armed, Keeps, Client
<1>5. QED
  BY <1>3, <1>4 DEF t

\* #ended stops the stream or arms a timer.
LEMMA EndedHalts ==
  ASSUME NEW s \in Client, NEW recovery \in Recovery
  PROVE  LET t == Ended(s, recovery)
         IN  /\ t \in Client /\ Halted(t) /\ Keeps(s, t) /\ SameElse(s, t)
             /\ t.notice \in {s.notice, recovery.notice}
             /\ recovery.action # "stop" => t.notice = s.notice
             /\ recovery.action # "stop" /\ ~s.stopped => Armed(t)
<1> DEFINE t == Ended(s, recovery)
           attempt == IF recovery.escalates /\ s.attempt <= QuietRetries
                      THEN s.attempt + 1 ELSE s.attempt
           over == [s EXCEPT !.abort = None]
           waiting == [over EXCEPT !.attempt = attempt,
                                   !.status = IF attempt > QuietRetries
                                              THEN "reconnecting" ELSE @]
           told == [over EXCEPT !.stopped = TRUE, !.status = "stopped",
                                !.notice = recovery.notice]
<1>1. CASE s.stopped
  <2>1. t = over
    BY <1>1 DEF Ended
  <2>2. over \in Client
    BY DEF Client
  <2>3. over.stopped /\ Keeps(s, over) /\ SameElse(s, over) /\ over.notice = s.notice
    BY <1>1 DEF Client, Keeps, SameElse
  <2>4. QED
    BY <1>1, <2>1, <2>2, <2>3 DEF Halted
<1>2. CASE ~s.stopped /\ recovery.action = "stop"
  <2>1. t = told
    BY <1>2 DEF Ended
  <2>2. told \in Client
    BY DEF Client, Recovery
  <2>3. told.stopped /\ Keeps(s, told) /\ SameElse(s, told)
        /\ told.notice = recovery.notice
    BY DEF Client, Keeps, SameElse
  <2>4. QED
    BY <1>2, <2>1, <2>2, <2>3 DEF Halted
<1>3. CASE ~s.stopped /\ recovery.action # "stop"
  <2>1. recovery.action \in {"reconnect", "refresh"}
    BY <1>3 DEF Recovery
  <2>2. attempt \in 0..(QuietRetries + 1)
    BY DEF Client, QuietRetries
  <2> HIDE DEF attempt
  <2>3. waiting \in Client
    BY <2>2 DEF Client
  <2>4. Keeps(s, waiting) /\ SameElse(s, waiting) /\ waiting.notice = s.notice
    BY DEF Client, Keeps, SameElse
  <2>5. t = SetTimer(waiting, recovery.action)
    BY <1>3 DEF Ended, attempt
  <2> HIDE DEF waiting, t
  <2>6. t \in Client /\ Armed(t) /\ Keeps(waiting, t) /\ SameElse(waiting, t)
        /\ t.notice = waiting.notice
    BY <2>1, <2>3, <2>5, SetTimerArms
  <2>7. Keeps(s, t) /\ SameElse(s, t)
    BY <2>4, <2>6, KeepsOn DEF SameElse
  <2>8. QED
    BY <2>4, <2>6, <2>7 DEF Halted, t
<1>4. QED
  BY <1>1, <1>2, <1>3

\* A client state in which an abandoned stream has not left the hook mounted.
Usable(s) == s \in Client /\ (s.mounted \/ s.stopped)

\* A message that neither stops the stream nor arms a timer, and what it says.
Heard(s, t, m) ==
  /\ m.t # "closed" /\ m # Frame("unavailable") /\ m # Frame("refused")
  /\ m = Frame("unsubscribed") => s.seenDeleted
  /\ t.aborted = s.aborted
  /\ t.seenDeleted <=> s.seenDeleted \/ m = Frame("deleted")
  /\ t.missed <=> s.missed /\ m # Frame("subscribed")

\* abandon, while the hook is mounted, is #ended.
LEMMA AbandonHalts ==
  ASSUME NEW s, Usable(s), NEW recovery \in Recovery
  PROVE  LET t == Abandon(s, recovery)
         IN  /\ t \in Client /\ Halted(t) /\ Keeps(s, t)
             /\ t.notice \in {s.notice, recovery.notice}
             /\ t.seenDeleted = s.seenDeleted
<1> DEFINE t == Abandon(s, recovery)
           dropped == {s.abort} \cap Slot
           gap == \E c \in dropped : UnreadEvents(c)
           let == [s EXCEPT !.abort = None, !.aborted = @ \cup dropped,
                            !.missed = @ \/ gap]
<1>1. s \in Client /\ (s.mounted \/ s.stopped)
  BY DEF Usable
<1>2. CASE ~s.mounted
  <2>1. t = s
    BY <1>2 DEF Abandon
  <2>2. QED
    BY <1>1, <1>2, <2>1 DEF Halted, Keeps
<1>3. CASE s.mounted
  <2>1. t = Ended(let, recovery)
    BY <1>3 DEF Abandon
  <2>2. gap \in BOOLEAN
    OBVIOUS
  <2> HIDE DEF gap
  <2>3. let \in Client /\ Keeps(s, let) /\ let.notice = s.notice
        /\ let.seenDeleted = s.seenDeleted
    BY <1>1, <2>2 DEF Client, Keeps
  <2> HIDE DEF let, t
  <2>4. t \in Client /\ Halted(t) /\ Keeps(let, t) /\ SameElse(let, t)
        /\ t.notice \in {let.notice, recovery.notice}
    BY <2>1, <2>3, EndedHalts
  <2>5. Keeps(s, t)
    BY <2>3, <2>4, KeepsOn
  <2>6. QED
    BY <2>3, <2>4, <2>5 DEF SameElse, t
<1>4. QED
  BY <1>2, <1>3

\* One message either halts the stream or is heard.
LEMMA DispatchOne ==
  ASSUME NEW s, Usable(s), NEW m \in Message
  PROVE  LET t == Dispatch(s, m)
         IN  /\ Usable(t) /\ Keeps(s, t) /\ t.notice \in {s.notice} \cup Verdict \cup {"none"}
             /\ t.notice = "signedOut" => s.notice = "signedOut"
             /\ t.seenDeleted => s.seenDeleted \/ m = Frame("deleted")
             /\ Halted(t) \/ Heard(s, t, m)
<1> DEFINE t == Dispatch(s, m)
           Good(u) == /\ u \in Client /\ Keeps(s, u)
                      /\ u.notice \in {s.notice} \cup Verdict \cup {"none"}
                      /\ u.seenDeleted => s.seenDeleted \/ m = Frame("deleted")
                      /\ Halted(u) \/ Heard(s, u, m)
<1>1. s \in Client /\ (s.mounted \/ s.stopped)
  BY DEF Usable
<1>2. ASSUME NEW recovery \in Recovery, recovery.notice \in Verdict \cup {"none"},
             t = Abandon(s, recovery) \/ t = Ended(s, recovery)
      PROVE  Good(t)
  <2>1. CASE t = Abandon(s, recovery)
    <3> HIDE DEF t
    <3>1. /\ t \in Client /\ Halted(t) /\ Keeps(s, t)
          /\ t.notice \in {s.notice, recovery.notice}
          /\ t.seenDeleted = s.seenDeleted
      BY <2>1, AbandonHalts
    <3>2. QED
      BY <1>2, <3>1
  <2>2. CASE t = Ended(s, recovery)
    <3> HIDE DEF t
    <3>1. /\ t \in Client /\ Halted(t) /\ Keeps(s, t) /\ SameElse(s, t)
          /\ t.notice \in {s.notice, recovery.notice}
      BY <1>1, <2>2, EndedHalts
    <3>2. QED
      BY <1>2, <3>1 DEF SameElse
  <2>3. QED
    BY <1>2, <2>1, <2>2
<1>3. ASSUME m.t # "closed", m # Frame("unavailable"), m # Frame("refused"),
             m # Frame("deleted"), m # Frame("subscribed"),
             m = Frame("unsubscribed") => s.seenDeleted, t = s
      PROVE  Good(t)
  BY <1>1, <1>3 DEF Keeps, Heard
<1>4. ASSUME m = OpenMessage \/ m = Comment
      PROVE  Good(t)
  <2>1. t = s
    BY <1>4 DEF Dispatch, OpenMessage, Comment
  <2>2. QED
    BY <1>3, <1>4, <2>1, MessageKinds DEF FrameKind
<1>5. ASSUME NEW code \in Code, m = Closed(code)
      PROVE  Good(t)
  <2>1. t = Ended(s, RecoveryFor(code))
    BY <1>5, MessageKinds DEF Dispatch, Closed
  <2>2. QED
    BY <1>2, <2>1, RecoveryTyped
<1>6. ASSUME NEW kind \in FrameKind, m = Frame(kind)
      PROVE  Good(t)
  <2>1. t = OnFrame(s, kind)
    BY <1>6 DEF Dispatch, Frame
  <2>2. \A k \in FrameKind : Frame(k).t # "closed" /\ (m = Frame(k) <=> kind = k)
    BY <1>6, MessageKinds
  <2>3. CASE kind = "subscribed"
    <3>1. t = Subscribed(s)
      BY <2>1, <2>3 DEF OnFrame
    <3>2. /\ t \in Client /\ Keeps(s, t) /\ t.notice = s.notice /\ t.aborted = s.aborted
          /\ t.seenDeleted = s.seenDeleted /\ t.missed = FALSE
      <4>1. t = [s EXCEPT !.attempt = 0, !.status = "live", !.missed = FALSE]
        BY <3>1 DEF Subscribed
      <4>2. 0 \in 0..(QuietRetries + 1)
        BY DEF QuietRetries
      <4> HIDE DEF t
      <4>3. t \in Client
        BY <1>1, <4>1, <4>2 DEF Client
      <4>4. QED
        BY <1>1, <4>1, <4>3 DEF Client, Keeps
    <3>3. Heard(s, t, m)
      BY <2>2, <2>3, <3>2 DEF Heard, FrameKind
    <3>4. QED
      BY <3>2, <3>3
  <2>4. CASE kind = "deleted"
    <3>1. t = [s EXCEPT !.seenDeleted = TRUE]
      BY <2>1, <2>4 DEF OnFrame
    <3>2. /\ t \in Client /\ Keeps(s, t) /\ t.notice = s.notice /\ t.aborted = s.aborted
          /\ t.seenDeleted = TRUE /\ t.missed = s.missed
      BY <1>1, <3>1 DEF Client, Keeps
    <3>3. m = Frame("deleted") /\ Heard(s, t, m)
      BY <2>2, <2>4, <3>2 DEF Heard, FrameKind
    <3>4. QED
      BY <3>2, <3>3
  <2>5. CASE kind \in {"unavailable", "refused"}
    <3>1. t = Abandon(s, RecoveryForErrorFrame(kind))
      BY <2>1, <2>5 DEF OnFrame
    <3>2. QED
      BY <1>2, <3>1, RecoveryTyped
  <2>6. CASE kind = "unsubscribed" /\ ~s.seenDeleted
    <3>1. t = Abandon(s, StopWith("revoked"))
      BY <2>1, <2>6 DEF OnFrame
    <3>2. QED
      BY <1>2, <3>1, RecoveryTyped
  <2>7. CASE kind = "unsubscribed" /\ s.seenDeleted
    <3>1. t = s
      BY <2>1, <2>7 DEF OnFrame
    <3>2. QED
      BY <1>3, <2>2, <2>7, <3>1 DEF FrameKind
  <2>8. CASE kind = "event"
    <3>1. t = s
      BY <2>1, <2>8 DEF OnFrame
    <3>2. QED
      BY <1>3, <2>2, <2>8, <3>1 DEF FrameKind
  <2>9. QED
    BY <2>3, <2>4, <2>5, <2>6, <2>7, <2>8 DEF FrameKind
<1>7. Good(t)
  <2>1. m = OpenMessage \/ m = Comment \/ (\E k \in FrameKind : m = Frame(k))
        \/ (\E x \in Code : m = Closed(x))
    BY DEF Message
  <2> HIDE DEF t, Good
  <2>2. QED
    BY <1>4, <1>5, <1>6, <2>1
<1> HIDE DEF t
<1>8. Usable(t)
  BY <1>1, <1>7 DEF Usable, Keeps
<1>9. QED
  BY <1>7, <1>8 DEF t, Verdict

\* after is what the messages of a chunk make of s, one after the other.
IsAfter(after, s, chunk) ==
  /\ after[0] = s
  /\ \A k \in 1..Len(chunk) : after[k] = Dispatch(after[k - 1], chunk[k])
  /\ after[Len(chunk)] = DispatchAll(s, chunk)
  /\ \A k \in 0..Len(chunk) : Usable(after[k])

\* The loop of #read dispatches the messages of a chunk in their order.
LEMMA DispatchRun ==
  ASSUME NEW s, Usable(s), NEW chunk \in Seq(Message)
  PROVE  \E after : IsAfter(after, s, chunk)
<1> DEFINE X == {u \in Client : u.mounted \/ u.stopped}
           n == Len(chunk)
           step == [x \in X \X (1..n) |-> Dispatch(x[1], chunk[x[2]])]
           Runs(f) == f = [S \in SUBSET (1..n) |->
                             IF S = {} THEN s
                             ELSE Dispatch(f[S \ {Max(S)}], chunk[Max(S)])]
           g == CHOOSE f : Runs(f)
<1>1. n \in Nat /\ DOMAIN chunk = 1..n /\ \A i \in 1..n : chunk[i] \in Message
  BY LenProperties, ElementOfSeq
<1>2. s \in X /\ \A u : u \in X <=> Usable(u)
  BY DEF Usable
<1>3. DispatchAll(s, chunk) = g[1..n]
  BY <1>1 DEF DispatchAll, FoldLeft, MapThenFoldSet
<1>4. step \in [X \X (1..n) -> X]
  <2> HIDE DEF X
  <2>1. \A u \in X, i \in 1..n : Dispatch(u, chunk[i]) \in X
    BY <1>1, <1>2, DispatchOne
  <2>2. QED
    BY <2>1
<1> HIDE DEF X
<1>5. Runs(g)
  <2>1. PICK f \in [SUBSET (1..n) -> X] : IsFold(f, n, s, step)
    <3> HIDE DEF step, n
    <3>1. QED
      BY <1>1, <1>2, <1>4, FoldExists
  <2>2. ASSUME NEW S \in SUBSET (1..n), S # {}
        PROVE  f[S] = Dispatch(f[S \ {Max(S)}], chunk[Max(S)])
    <3>1. Max(S) \in 1..n
      BY <1>1, <2>2, MaxOfIndices
    <3>2. f[S \ {Max(S)}] \in X
      BY <2>1
    <3>3. f[S] = step[<<f[S \ {Max(S)}], Max(S)>>]
      BY <2>1, <2>2 DEF IsFold
    <3>4. QED
      BY <3>1, <3>2, <3>3
  <2>3. f[{}] = s
    BY <2>1 DEF IsFold
  <2>4. Runs(f)
    BY <2>1, <2>2, <2>3
  <2>5. QED
    BY <2>4
<1> HIDE DEF g
<1>6. FoldsWithin(g, X, n, s, step)
  <2>1. ASSUME NEW S \in SUBSET (1..n), S # {}, g[S \ {Max(S)}] \in X
        PROVE  g[S] = step[<<g[S \ {Max(S)}], Max(S)>>]
    <3>1. Max(S) \in 1..n
      BY <1>1, <2>1, MaxOfIndices
    <3>2. g[S] = Dispatch(g[S \ {Max(S)}], chunk[Max(S)])
      BY <1>5, <2>1
    <3>3. QED
      BY <2>1, <3>1, <3>2
  <2>2. g[{}] = s
    BY <1>5
  <2>3. QED
    BY <2>1, <2>2 DEF FoldsWithin
<1>7. PICK run \in [0..n -> X] : IsRun(run, n, s, step, g[1..n])
  <2>1. n \in Nat
    BY <1>1
  <2> HIDE DEF step, n
  <2>2. QED
    BY <1>2, <1>4, <1>6, <2>1, FoldPrefixes
<1>8. \A k \in 0..n : run[k] \in X
  BY <1>7
<1>9. ASSUME NEW k \in 1..n
      PROVE  run[k] = Dispatch(run[k - 1], chunk[k])
  <2>1. k - 1 \in 0..n
    BY <1>1
  <2>2. run[k - 1] \in X
    BY <1>8, <2>1
  <2>3. run[k] = step[<<run[k - 1], k>>]
    BY <1>7 DEF IsRun
  <2>4. QED
    BY <2>2, <2>3
<1>10. IsAfter(run, s, chunk)
  BY <1>2, <1>3, <1>7, <1>8, <1>9 DEF IsAfter, IsRun
<1>11. QED
  BY <1>10

\* What a chunk that halts nothing has told the client.
HeardAll(s, t, chunk) ==
  /\ \A i \in 1..Len(chunk) :
       /\ chunk[i].t # "closed"
       /\ chunk[i] # Frame("unavailable") /\ chunk[i] # Frame("refused")
       /\ chunk[i] = Frame("unsubscribed") => t.seenDeleted
  /\ t.aborted = s.aborted
  /\ t.seenDeleted <=> s.seenDeleted \/ Contains(chunk, Frame("deleted"))
  /\ t.missed <=> s.missed /\ ~Contains(chunk, Frame("subscribed"))

\* A chunk either halts the stream or is heard to its end.
LEMMA ChunkHeard ==
  ASSUME NEW s, Usable(s), NEW chunk \in Seq(Message)
  PROVE  LET t == DispatchAll(s, chunk)
         IN  /\ Usable(t) /\ Keeps(s, t)
             /\ t.notice = "signedOut" => s.notice = "signedOut"
             /\ t.seenDeleted => s.seenDeleted \/ Contains(chunk, Frame("deleted"))
             /\ Halted(t) \/ HeardAll(s, t, chunk)
<1> DEFINE n == Len(chunk)
           Said(k, m) == \E i \in 1..k : chunk[i] = m
           HeardTo(k, u) ==
             /\ \A i \in 1..k :
                  /\ chunk[i].t # "closed"
                  /\ chunk[i] # Frame("unavailable") /\ chunk[i] # Frame("refused")
                  /\ chunk[i] = Frame("unsubscribed") => u.seenDeleted
             /\ u.aborted = s.aborted
             /\ u.seenDeleted <=> s.seenDeleted \/ Said(k, Frame("deleted"))
             /\ u.missed <=> s.missed /\ ~Said(k, Frame("subscribed"))
           Good(k, u) ==
             /\ Keeps(s, u)
             /\ u.notice = "signedOut" => s.notice = "signedOut"
             /\ u.seenDeleted => s.seenDeleted \/ Said(k, Frame("deleted"))
             /\ Halted(u) \/ HeardTo(k, u)
<1>1. PICK after : IsAfter(after, s, chunk)
  BY DispatchRun
<1>2. n \in Nat /\ \A i \in 1..n : chunk[i] \in Message
  BY LenProperties, ElementOfSeq
<1> DEFINE T == {k \in 0..n : Good(k, after[k])}
<1>3. 0 \in T
  <2>1. after[0] = s
    BY <1>1 DEF IsAfter
  <2>2. Good(0, s)
    BY DEF Keeps
  <2>3. QED
    BY <1>2, <2>1, <2>2
<1>4. ASSUME NEW k \in 0..(n - 1), k \in T
      PROVE  k + 1 \in T
  <2> DEFINE u == after[k]
             v == after[k + 1]
             m == chunk[k + 1]
  <2>1. k \in 0..n /\ k + 1 \in 1..n /\ (k + 1) - 1 = k /\ k + 1 \in 0..n
    BY <1>2
  <2>2. Usable(u) /\ v = Dispatch(u, m) /\ m \in Message
    BY <1>1, <1>2, <2>1 DEF IsAfter
  <2>3. Good(k, u)
    BY <1>4
  <2> HIDE DEF u, v, m
  <2>4. /\ Keeps(u, v)
        /\ v.notice = "signedOut" => u.notice = "signedOut"
        /\ v.seenDeleted => u.seenDeleted \/ m = Frame("deleted")
        /\ Halted(v) \/ Heard(u, v, m)
    BY <2>2, DispatchOne
  <2>5. Keeps(s, v) /\ (Halted(u) => Halted(v))
    <3>1. Keeps(s, u)
      BY <2>3
    <3>2. Halted(u) => Halted(v)
      BY <2>4 DEF Keeps, Halted, Armed
    <3>3. QED
      BY <2>4, <3>1, <3>2, KeepsOn
  <2>6. 1..(k + 1) = (1..k) \cup {k + 1}
    BY <2>1
  <2>7. \A x : Said(k + 1, x) <=> Said(k, x) \/ m = x
    BY <2>6 DEF m
  <2>8. v.seenDeleted => s.seenDeleted \/ Said(k + 1, Frame("deleted"))
    BY <2>3, <2>4, <2>7
  <2>9. ASSUME HeardTo(k, u), Heard(u, v, m)
        PROVE  HeardTo(k + 1, v)
    <3>1. ASSUME NEW i \in 1..(k + 1)
          PROVE  /\ chunk[i].t # "closed"
                 /\ chunk[i] # Frame("unavailable") /\ chunk[i] # Frame("refused")
                 /\ chunk[i] = Frame("unsubscribed") => v.seenDeleted
      <4>1. CASE i = k + 1
        BY <2>9, <4>1 DEF Heard, m
      <4>2. CASE i \in 1..k
        BY <2>9, <4>2 DEF Heard
      <4>3. QED
        BY <2>6, <4>1, <4>2
    <3> HIDE DEF Said
    <3>2. v.aborted = s.aborted
      BY <2>9 DEF Heard
    <3>3. v.seenDeleted <=> s.seenDeleted \/ Said(k + 1, Frame("deleted"))
      BY <2>7, <2>9 DEF Heard
    <3>4. v.missed <=> s.missed /\ ~Said(k + 1, Frame("subscribed"))
      BY <2>7, <2>9 DEF Heard
    <3>5. QED
      BY <3>1, <3>2, <3>3, <3>4
  <2>10. Halted(v) \/ HeardTo(k + 1, v)
    <3> HIDE DEF HeardTo
    <3>1. QED
      BY <2>3, <2>4, <2>5, <2>9
  <2> HIDE DEF HeardTo, Said
  <2>11. Good(k + 1, v)
    BY <2>3, <2>4, <2>5, <2>8, <2>10
  <2>12. QED
    BY <2>1, <2>11 DEF v
<1>5. Good(n, after[n])
  <2> HIDE DEF T
  <2>1. 0..n \subseteq T
    BY <1>2, <1>3, <1>4, UpTo
  <2>2. n \in T
    BY <1>2, <2>1
  <2>3. QED
    BY <2>2 DEF T
<1>6. after[n] = DispatchAll(s, chunk) /\ Usable(after[n])
  BY <1>1, <1>2 DEF IsAfter
<1>7. \A x : Said(n, x) <=> Contains(chunk, x)
  BY DEF Contains
<1> HIDE DEF Said
<1>8. HeardTo(n, after[n]) => HeardAll(s, after[n], chunk)
  BY <1>7 DEF HeardAll
<1> HIDE DEF HeardTo
<1>9. QED
  BY <1>5, <1>6, <1>7, <1>8

-----------------------------------------------------------------------------
(* The type invariant, and who is told that a session ended. *)

\* What TypeOK says of everything but the relays and the client's own object.
OthersTyped ==
  /\ phase \in [Slot -> {"over", "fetching", "renewing", "reading"}]
  /\ cut \in [Slot -> BOOLEAN]
  /\ renewing \in Slot \cup {None, ByTimer}
  /\ session \in {"fresh", "expired", "over"}
  /\ access \in BOOLEAN
  /\ faults \in 0..MaxFaults
  /\ board \in {"there", "deleted"}
  /\ published \in 0..MaxEvents

StreamInv == Relays /\ Usable(cl) /\ OthersTyped /\ SignedOutIsOver

\* Forgetting an abort changes nothing else.
LEMMA ForgetKeeps ==
  ASSUME NEW s, s \in Client, NEW c \in Slot
  PROVE  LET t == Forget(s, c)
         IN  /\ t \in Client /\ Keeps(s, t) /\ Keeps(t, s) /\ t.notice = s.notice
             /\ t.seenDeleted = s.seenDeleted /\ t.missed = s.missed
             /\ t.aborted = s.aborted \ {c}
<1>1. Forget(s, c) = [s EXCEPT !.aborted = @ \ {c}]
  BY DEF Forget
<1>2. QED
  BY <1>1 DEF Client, Keeps

\* #connect takes a free slot, and only of a stream that was not stopped.
LEMMA ConnectKeeps ==
  ASSUME NEW s, Usable(s), OthersTyped, Connect(s)
  PROVE  /\ Usable(cl') /\ Keeps(s, cl') /\ cl'.notice = s.notice
         /\ cl'.seenDeleted = s.seenDeleted /\ cl'.missed = s.missed
         /\ phase' \in [Slot -> {"over", "fetching", "renewing", "reading"}]
         /\ cut' \in [Slot -> BOOLEAN]
         /\ s.stopped => cl' = s /\ UNCHANGED <<relay, phase, cut>>
         /\ ~s.stopped => \E c \in FirstFree :
              /\ cl'.aborted = s.aborted \ {c}
              /\ phase' = [phase EXCEPT ![c] = "fetching"]
              /\ relay' = [relay EXCEPT ![c] = Unused]
              /\ cut' = [cut EXCEPT ![c] = FALSE]
<1>1. s \in Client /\ (s.mounted \/ s.stopped)
  BY DEF Usable
<1>2. CASE s.stopped
  BY <1>1, <1>2 DEF Connect, Usable, Keeps, OthersTyped
<1>3. CASE ~s.stopped
  <2>1. PICK c \in FirstFree :
          /\ cl' = [s EXCEPT !.abort = c, !.aborted = @ \ {c}]
          /\ phase' = [phase EXCEPT ![c] = "fetching"]
          /\ relay' = [relay EXCEPT ![c] = Unused]
          /\ cut' = [cut EXCEPT ![c] = FALSE]
    BY <1>3 DEF Connect
  <2>2. c \in Slot
    BY <2>1 DEF FirstFree
  <2>3. /\ cl' \in Client /\ Keeps(s, cl') /\ cl'.notice = s.notice
        /\ cl'.seenDeleted = s.seenDeleted /\ cl'.missed = s.missed
        /\ cl'.aborted = s.aborted \ {c}
    BY <1>1, <2>1, <2>2 DEF Client, Keeps
  <2>4. Usable(cl')
    BY <1>1, <2>3 DEF Usable, Keeps
  <2>5. /\ phase' \in [Slot -> {"over", "fetching", "renewing", "reading"}]
        /\ cut' \in [Slot -> BOOLEAN]
    BY <2>1, <2>2 DEF OthersTyped
  <2>6. QED
    BY <1>3, <2>1, <2>3, <2>4, <2>5
<1>4. QED
  BY <1>2, <1>3

\* #ended, on the client as it stands.
LEMMA EndedUsable ==
  ASSUME NEW s, Usable(s), NEW recovery \in Recovery
  PROVE  LET t == Ended(s, recovery)
         IN  /\ Usable(t) /\ Halted(t) /\ Keeps(s, t) /\ SameElse(s, t)
             /\ t.notice \in {s.notice, recovery.notice}
             /\ recovery.action # "stop" => t.notice = s.notice
<1> DEFINE t == Ended(s, recovery)
<1>1. s \in Client /\ (s.mounted \/ s.stopped)
  BY DEF Usable
<1> HIDE DEF t
<1>2. /\ t \in Client /\ Halted(t) /\ Keeps(s, t) /\ SameElse(s, t)
      /\ t.notice \in {s.notice, recovery.notice}
      /\ recovery.action # "stop" => t.notice = s.notice
  BY <1>1, EndedHalts DEF t
<1>3. Usable(t)
  BY <1>1, <1>2 DEF Usable, Keeps
<1>4. QED
  BY <1>2, <1>3 DEF t

\* The stream as start() leaves it.
LEMMA InitInv ==
  ASSUME Init
  PROVE  StreamInv
<1>1. 1 \in Slot /\ 0 \in 0..MaxFaults /\ 0 \in 0..MaxEvents
  BY RelayNat, BoundsNat DEF Slot
<1>2. cl \in Client
  BY <1>1 DEF Init, Client, QuietRetries
<1>3. OthersTyped
  BY <1>1 DEF Init, OthersTyped
<1>4. QED
  BY <1>2, <1>3, RelaysInit DEF Init, StreamInv, Usable, SignedOutIsOver

\* The steps of the stream itself.
LEMMA ClientInv ==
  ASSUME StreamInv, NEW c \in Slot, ClientStep(c)
  PROVE  Usable(cl') /\ Keeps(cl, cl') /\ OthersTyped' /\ SignedOutIsOver'
<1>1. Usable(cl) /\ cl \in Client /\ OthersTyped /\ SignedOutIsOver /\ Keeps(cl, cl)
  BY DEF StreamInv, Usable, Keeps
<1>2. Reconnect(TRUE) \in Recovery /\ Reconnect(TRUE).action # "stop"
  BY RecoveryTyped
<1> DEFINE ended == Ended(cl, Reconnect(TRUE))
<1>3. Usable(ended) /\ Keeps(cl, ended) /\ ended.notice = cl.notice
  BY <1>1, <1>2, EndedUsable
<1> HIDE DEF ended
<1>4. \A s : Usable(s) => /\ Usable(Forget(s, c)) /\ Keeps(s, Forget(s, c))
                          /\ Forget(s, c).notice = s.notice
  BY ForgetKeeps DEF Usable, Keeps
<1>5. CASE StreamOpened(c)
  <2>1. OthersTyped'
    <3>1. faults' \in 0..MaxFaults
      <4>1. UNCHANGED faults \/ Happens
        BY <1>5 DEF StreamOpened
      <4>2. QED
        BY <1>1, <4>1, BoundsNat DEF OthersTyped, Happens
    <3>2. phase' = [phase EXCEPT ![c] = "reading"]
          /\ UNCHANGED <<renewing, cut, session, access, board, published>>
      BY <1>5 DEF StreamOpened, worldVars
    <3>3. QED
      BY <1>1, <3>1, <3>2 DEF OthersTyped
  <2>2. QED
    BY <1>1, <1>5, <2>1 DEF StreamOpened, worldVars, SignedOutIsOver
<1>6. CASE StreamUnauthorized(c)
  <2>1. OthersTyped'
    BY <1>1, <1>6 DEF StreamUnauthorized, OthersTyped, Over, worldVars
  <2>2. (cl' = cl \/ cl' = ended) /\ session' = session
    BY <1>6 DEF StreamUnauthorized, worldVars, ended
  <2>3. QED
    BY <1>1, <1>3, <2>1, <2>2 DEF SignedOutIsOver
<1>7. CASE StreamRefused(c)
  <2>1. OthersTyped'
    BY <1>1, <1>7, BoundsNat DEF StreamRefused, OthersTyped, Over, Happens, worldVars
  <2>2. cl' = ended /\ session' = session
    BY <1>7 DEF StreamRefused, worldVars, ended
  <2>3. QED
    BY <1>1, <1>3, <2>1, <2>2 DEF SignedOutIsOver
<1>8. CASE StreamAborted(c) \/ ReadAborted(c)
  <2>1. OthersTyped'
    BY <1>1, <1>8 DEF StreamAborted, ReadAborted, OthersTyped, Over, worldVars
  <2>2. cl' = Forget(cl, c) /\ session' = session
    BY <1>8 DEF StreamAborted, ReadAborted, worldVars
  <2>3. QED
    BY <1>1, <1>4, <2>1, <2>2 DEF SignedOutIsOver
<1>9. CASE ReadChunk(c)
  <2>1. OthersTyped' /\ session' = session
    BY <1>1, <1>9 DEF ReadChunk, OthersTyped, Over, worldVars
  <2>2. PICK n \in 1..Len(relay[c].body) :
          LET s == DispatchAll(cl, SubSeq(relay[c].body, 1, n))
          IN  cl' = s \/ cl' = Forget(s, c)
    BY <1>9 DEF ReadChunk
  <2> DEFINE chunk == SubSeq(relay[c].body, 1, n)
             s == DispatchAll(cl, chunk)
  <2>3. chunk \in Seq(Message)
    <3>1. relay[c].body \in Seq(Message)
      BY DEF StreamInv, Relays, RelayState
    <3>2. 1 \in Int /\ n \in Int /\ \A i \in 1..n : relay[c].body[i] \in Message
      BY <3>1, LenProperties, ElementOfSeq
    <3>3. QED
      BY <3>2, SubSeqProperties
  <2> HIDE DEF chunk
  <2>4. Usable(s) /\ Keeps(cl, s) /\ (s.notice = "signedOut" => cl.notice = "signedOut")
    BY <1>1, <2>3, ChunkHeard
  <2>5. cl' = s \/ cl' = Forget(s, c)
    BY <2>2 DEF chunk
  <2> HIDE DEF s
  <2>6. Usable(cl') /\ Keeps(cl, cl') /\ cl'.notice = s.notice
    BY <1>4, <2>4, <2>5, KeepsOn
  <2>7. QED
    BY <1>1, <2>1, <2>4, <2>6 DEF SignedOutIsOver
<1>10. CASE ReadOver(c)
  <2>1. OthersTyped'
    BY <1>1, <1>10 DEF ReadOver, OthersTyped, Over, worldVars
  <2>2. (cl' = cl \/ cl' = ended) /\ session' = session
    BY <1>10 DEF ReadOver, worldVars, ended
  <2>3. QED
    BY <1>1, <1>3, <2>1, <2>2 DEF SignedOutIsOver
<1>11. QED
  BY <1>5, <1>6, <1>7, <1>8, <1>9, <1>10 DEF ClientStep

\* The timer's callback and the refresh it or #connect waited for.
LEMMA CallbackInv ==
  ASSUME StreamInv, (\E id \in Timer : TimerFired(id)) \/ Renewed
  PROVE  Usable(cl') /\ OthersTyped' /\ SignedOutIsOver'
<1>1. Usable(cl) /\ cl \in Client /\ (cl.mounted \/ cl.stopped) /\ OthersTyped
      /\ SignedOutIsOver
  BY DEF StreamInv, Usable
<1>2. ASSUME NEW id \in Timer, TimerFired(id)
      PROVE  Usable(cl') /\ OthersTyped' /\ SignedOutIsOver'
  <2> DEFINE s == [cl EXCEPT !.timers[id] = "off", !.timer = None]
  <2>1. Usable(s) /\ s.notice = cl.notice
    BY <1>1 DEF Usable, Client
  <2>2. UNCHANGED <<worldVars, faults>>
    BY <1>2 DEF TimerFired
  <2>3. \/ cl' = s /\ renewing' = ByTimer /\ UNCHANGED <<relay, phase, cut>>
        \/ Connect(s) /\ UNCHANGED renewing
    BY <1>2 DEF TimerFired
  <2> HIDE DEF s
  <2>4. CASE cl' = s /\ renewing' = ByTimer /\ UNCHANGED <<relay, phase, cut>>
    BY <1>1, <2>1, <2>2, <2>4 DEF OthersTyped, worldVars, SignedOutIsOver
  <2>5. CASE Connect(s) /\ UNCHANGED renewing
    <3>1. /\ Usable(cl') /\ cl'.notice = s.notice
          /\ phase' \in [Slot -> {"over", "fetching", "renewing", "reading"}]
          /\ cut' \in [Slot -> BOOLEAN]
      BY <1>1, <2>1, <2>5, ConnectKeeps
    <3>2. QED
      BY <1>1, <2>1, <2>2, <2>5, <3>1 DEF OthersTyped, worldVars, SignedOutIsOver
  <2>6. QED
    BY <2>3, <2>4, <2>5
<1>3. ASSUME Renewed
      PROVE  Usable(cl') /\ OthersTyped' /\ SignedOutIsOver'
  <2>1. PICK ok \in BOOLEAN :
          /\ RefreshSession(ok)
          /\ \/ renewing = ByTimer /\ RenewedTimer(ok)
             \/ renewing \in Slot /\ RenewedStream(renewing, ok)
    BY <1>3 DEF Renewed
  <2>2. renewing' = None /\ UNCHANGED <<access, board, published>>
    BY <1>3 DEF Renewed
  <2>3. /\ session' \in {"fresh", "expired", "over"} /\ faults' \in 0..MaxFaults
        /\ session = "over" => session' = "over"
        /\ ~ok => session' = "over" \/ Happens
    BY <1>1, <2>1, BoundsNat DEF RefreshSession, OthersTyped, Happens
  <2>4. ~ok => session' = "over"
    BY <2>1 DEF RefreshSession
  <2>5. ASSUME Usable(cl'), cl'.notice = cl.notice \/ (~ok /\ cl'.notice = "signedOut"),
               phase' \in [Slot -> {"over", "fetching", "renewing", "reading"}],
               cut' \in [Slot -> BOOLEAN]
        PROVE  Usable(cl') /\ OthersTyped' /\ SignedOutIsOver'
    BY <1>1, <2>2, <2>3, <2>4, <2>5 DEF OthersTyped, SignedOutIsOver
  <2>6. CASE renewing = ByTimer /\ RenewedTimer(ok)
    <3>1. CASE ok
      <4>1. Connect(cl)
        BY <2>6, <3>1 DEF RenewedTimer
      <4>2. QED
        BY <1>1, <2>5, <4>1, ConnectKeeps
    <3>2. CASE ~ok
      <4>1. cl' = [cl EXCEPT !.stopped = TRUE, !.status = "stopped",
                             !.notice = "signedOut"] /\ UNCHANGED <<phase, cut>>
        BY <2>6, <3>2 DEF RenewedTimer
      <4>2. Usable(cl') /\ cl'.notice = "signedOut"
        BY <1>1, <4>1 DEF Usable, Client
      <4>3. QED
        BY <1>1, <2>5, <3>2, <4>1, <4>2 DEF OthersTyped
    <3>3. QED
      BY <3>1, <3>2
  <2>7. CASE renewing \in Slot /\ RenewedStream(renewing, ok)
    <3> DEFINE recovery == IF ok THEN Reconnect(TRUE) ELSE SignedOutRecovery
               s == Ended(cl, recovery)
    <3>1. /\ recovery \in Recovery /\ (ok => recovery.action # "stop")
          /\ (~ok => recovery.notice = "signedOut")
      BY RecoveryTyped DEF SignedOutRecovery, StopWith
    <3> HIDE DEF recovery
    <3>2. /\ Usable(s) /\ s.notice \in {cl.notice, recovery.notice}
          /\ recovery.action # "stop" => s.notice = cl.notice
      BY <1>1, <3>1, EndedUsable
    <3>3. cl' = Forget(s, renewing)
      BY <2>7 DEF RenewedStream, recovery
    <3> HIDE DEF s
    <3>4. Usable(cl') /\ cl'.notice = s.notice
      BY <2>7, <3>2, <3>3, ForgetKeeps DEF Usable, Keeps
    <3>5. /\ phase' \in [Slot -> {"over", "fetching", "renewing", "reading"}]
          /\ cut' \in [Slot -> BOOLEAN]
      BY <1>1, <2>7 DEF RenewedStream, Over, OthersTyped
    <3>6. QED
      BY <2>5, <3>1, <3>2, <3>4, <3>5
  <2>8. QED
    BY <2>1, <2>6, <2>7
<1>4. QED
  BY <1>2, <1>3

\* The user, the relays and the world.
LEMMA WorldInv ==
  ASSUME StreamInv,
         \/ \E c \in Slot : \/ ServerStep(c) \/ RelayBeats(c) \/ RelayEnds(c)
                            \/ ApiFails(c) \/ Cut(c)
         \/ Unmount \/ Publish \/ TokenExpires \/ SessionEnds \/ AccessEnds
         \/ UNCHANGED vars
  PROVE  Usable(cl') /\ OthersTyped' /\ SignedOutIsOver'
<1>1. Usable(cl) /\ cl \in Client /\ (cl.mounted \/ cl.stopped) /\ OthersTyped
      /\ SignedOutIsOver
  BY DEF StreamInv, Usable
<1>2. ASSUME NEW c \in Slot, ServerStep(c) \/ RelayBeats(c) \/ RelayEnds(c) \/ ApiFails(c)
      PROVE  Usable(cl') /\ OthersTyped' /\ SignedOutIsOver'
  <2>1. UNCHANGED <<clientVars, cut, worldVars>>
    BY <1>2 DEF ServerStep, RelayOpened, RelayEnds, Answer, Sweep, ApiEnds, RelayBeats,
                ApiFails
  <2>2. UNCHANGED faults \/ Happens
    BY <1>2 DEF ServerStep, RelayOpened, RelayEnds, Answer, Sweep, ApiEnds, RelayBeats,
                ApiFails
  <2>3. faults' \in 0..MaxFaults
    BY <1>1, <2>2, BoundsNat DEF Happens, OthersTyped
  <2>4. QED
    BY <1>1, <2>1, <2>3 DEF OthersTyped, SignedOutIsOver, clientVars, worldVars
<1>3. ASSUME NEW c \in Slot, Cut(c)
      PROVE  Usable(cl') /\ OthersTyped' /\ SignedOutIsOver'
  <2> DEFINE gap == ~Gone(c) /\ UnreadEvents(c)
  <2>1. cl' = [cl EXCEPT !.missed = @ \/ gap]
    BY <1>3 DEF Cut
  <2>2. gap \in BOOLEAN
    OBVIOUS
  <2> HIDE DEF gap
  <2>3. Usable(cl') /\ cl'.notice = cl.notice
    BY <1>1, <2>1, <2>2 DEF Usable, Client
  <2>4. OthersTyped' /\ session' = session
    BY <1>1, <1>3, BoundsNat DEF Cut, Happens, OthersTyped, worldVars
  <2>5. QED
    BY <1>1, <2>3, <2>4 DEF SignedOutIsOver
<1>4. ASSUME Unmount
      PROVE  Usable(cl') /\ OthersTyped' /\ SignedOutIsOver'
  <2> DEFINE dropped == {cl.abort} \cap Slot
             cleared == {cl.timer} \cap Timer
  <2>1. cl' = [cl EXCEPT !.mounted = FALSE, !.stopped = TRUE, !.timer = None,
                         !.timers = [i \in Timer |-> IF i \in cleared THEN "off" ELSE @[i]],
                         !.abort = None, !.aborted = @ \cup dropped]
    BY <1>4 DEF Unmount
  <2>2. Usable(cl') /\ cl'.notice = cl.notice
    BY <1>1, <2>1 DEF Usable, Client
  <2>3. OthersTyped' /\ session' = session
    BY <1>1, <1>4 DEF Unmount, OthersTyped, worldVars
  <2>4. QED
    BY <1>1, <2>2, <2>3 DEF SignedOutIsOver
<1>5. ASSUME Publish
      PROVE  Usable(cl') /\ OthersTyped' /\ SignedOutIsOver'
  <2>1. PICK lost \in BOOLEAN : cl' = [cl EXCEPT !.missed = @ \/ lost]
    BY <1>5 DEF Publish, Deliver
  <2>2. Usable(cl') /\ cl'.notice = cl.notice
    BY <1>1, <2>1 DEF Usable, Client
  <2>3. OthersTyped' /\ session' = session
    BY <1>1, <1>5, BoundsNat DEF Publish, OthersTyped
  <2>4. QED
    BY <1>1, <2>2, <2>3 DEF SignedOutIsOver
<1>6. CASE TokenExpires \/ SessionEnds \/ AccessEnds
  <2>1. OthersTyped' /\ cl' = cl /\ (session = "over" => session' = "over")
    <3>1. faults' \in 0..MaxFaults
      BY <1>1, <1>6, BoundsNat DEF TokenExpires, SessionEnds, AccessEnds, Happens,
                                   OthersTyped
    <3>2. /\ UNCHANGED <<cl, phase, renewing, cut, board, published>>
          /\ session' \in {"fresh", "expired", "over"} /\ access' \in BOOLEAN
          /\ session = "over" => session' = "over"
      BY <1>1, <1>6 DEF TokenExpires, SessionEnds, AccessEnds, OthersTyped, clientVars
    <3>3. QED
      BY <1>1, <3>1, <3>2 DEF OthersTyped
  <2>2. QED
    BY <1>1, <2>1 DEF SignedOutIsOver
<1>7. CASE UNCHANGED vars
  BY <1>1, <1>7 DEF vars, clientVars, worldVars, OthersTyped, SignedOutIsOver
<1>8. QED
  BY <1>2, <1>3, <1>4, <1>5, <1>6, <1>7

\* Every step keeps the invariant.
LEMMA InvStep ==
  ASSUME StreamInv, [Next]_vars
  PROVE  StreamInv'
<1>1. Relays'
  BY RelaysStep DEF StreamInv
<1>2. Usable(cl') /\ OthersTyped' /\ SignedOutIsOver'
  <2>1. ASSUME NEW c \in Slot, ClientStep(c)
        PROVE  Usable(cl') /\ OthersTyped' /\ SignedOutIsOver'
    BY <2>1, ClientInv
  <2>2. ASSUME (\E id \in Timer : TimerFired(id)) \/ Renewed
        PROVE  Usable(cl') /\ OthersTyped' /\ SignedOutIsOver'
    BY <2>2, CallbackInv
  <2>3. ASSUME \/ \E c \in Slot : \/ ServerStep(c) \/ RelayBeats(c) \/ RelayEnds(c)
                                  \/ ApiFails(c) \/ Cut(c)
               \/ Unmount \/ Publish \/ TokenExpires \/ SessionEnds \/ AccessEnds
               \/ UNCHANGED vars
        PROVE  Usable(cl') /\ OthersTyped' /\ SignedOutIsOver'
    BY <2>3, WorldInv
  <2>4. QED
    BY <2>1, <2>2, <2>3 DEF Next
<1>3. QED
  BY <1>1, <1>2 DEF StreamInv, Usable, Client

\* The invariant holds of every state of the stream.
THEOREM StreamInvariant == Spec => []StreamInv
  BY InitInv, InvStep, PTL DEF Spec

(* BoardStream.TypeOK for every number of slots, timers, events and faults and every
   budget; with it the bound on what a response body holds. *)
THEOREM StreamTypeOK == Spec => []TypeOK
<1>1. StreamInv => TypeOK
  <2>1. SUFFICES ASSUME StreamInv
                 PROVE  TypeOK
    OBVIOUS
  <2>2. ASSUME NEW c \in Slot
        PROVE  Buffered(relay[c].body) <= Budget - 1 + FrameWeight + 1
    <3>1. Fits(relay[c]) /\ relay[c].body \in Seq(Message) /\ relay[c].done \in BOOLEAN
      BY <2>1 DEF StreamInv, Relays, Sound, Steady, RelayState
    <3>2. Buffered(relay[c].body) \in Nat
      BY <3>1, BufferedNat
    <3>3. QED
      BY <3>1, <3>2, RelayNat DEF Fits, FrameWeight
  <2>3. relay \in [Slot -> RelayState] /\ cl \in Client /\ OthersTyped
    BY <2>1 DEF StreamInv, Relays, Usable
  <2>4. QED
    BY <2>2, <2>3 DEF TypeOK, Client, OthersTyped
<1>2. QED
  BY <1>1, StreamInvariant, PTL

(* BoardStream.SignedOutIsOver for every instance: a 401 is false, an API that
   cannot be reached counts as renewed, and no refresh takes `over` back. *)
THEOREM StreamSignedOutIsOver == Spec => []SignedOutIsOver
<1>1. StreamInv => SignedOutIsOver
  BY DEF StreamInv
<1>2. QED
  BY <1>1, StreamInvariant, PTL

(* BoardStream.StoppedStaysStopped for every instance.  Only #connect starts a
   fetch, and it asks whether the stream was stopped; the timer's callback and the
   answer to a refresh hand it the client as it is then, not as it was. *)
THEOREM StreamStaysStopped == Spec => StoppedStaysStopped
<1> DEFINE Stays ==
             cl.stopped => \A c \in Slot : phase'[c] = "fetching" => phase[c] = "fetching"
<1>1. ASSUME StreamInv, [Next]_vars
      PROVE  Stays
  <2>1. SUFFICES ASSUME cl.stopped
                 PROVE  \A c \in Slot : phase'[c] = "fetching" => phase[c] = "fetching"
    OBVIOUS
  <2>2. /\ phase \in [Slot -> {"over", "fetching", "renewing", "reading"}]
        /\ cl \in Client
    BY <1>1 DEF StreamInv, OthersTyped, Usable
  <2>3. ASSUME NEW c \in Slot, ClientStep(c)
        PROVE  phase' = phase \/ \E p \in {"over", "renewing", "reading"} :
                                    phase' = [phase EXCEPT ![c] = p]
    BY <2>3 DEF ClientStep, StreamOpened, StreamUnauthorized, StreamRefused, StreamAborted,
                ReadChunk, ReadOver, ReadAborted, Over
  <2>4. ASSUME NEW c \in Slot,
               \/ ServerStep(c) \/ RelayBeats(c) \/ RelayEnds(c)
               \/ ApiFails(c) \/ Cut(c)
        PROVE  phase' = phase
    BY <2>4 DEF ServerStep, RelayOpened, RelayEnds, Answer, Sweep, ApiEnds, RelayBeats,
                ApiFails, Cut, clientVars
  <2>5. ASSUME NEW id \in Timer, TimerFired(id)
        PROVE  phase' = phase
    <3> DEFINE s == [cl EXCEPT !.timers[id] = "off", !.timer = None]
    <3>1. s.stopped
      BY <2>1, <2>2 DEF Client
    <3> HIDE DEF s
    <3>2. phase' = phase \/ Connect(s)
      BY <2>5 DEF TimerFired, s
    <3>3. QED
      BY <3>1, <3>2 DEF Connect
  <2>6. CASE Renewed
    <3>1. \/ phase' = phase \/ Connect(cl)
          \/ renewing \in Slot /\ phase' = [phase EXCEPT ![renewing] = "over"]
      BY <2>6 DEF Renewed, RenewedTimer, RenewedStream, Over
    <3>2. QED
      BY <2>1, <2>2, <3>1 DEF Connect
  <2>7. CASE Unmount \/ Publish \/ TokenExpires \/ SessionEnds \/ AccessEnds
             \/ UNCHANGED vars
    BY <2>7 DEF Unmount, Publish, TokenExpires, SessionEnds, AccessEnds, clientVars, vars
  <2>8. QED
    BY <1>1, <2>2, <2>3, <2>4, <2>5, <2>6, <2>7 DEF Next
<1>2. QED
  BY <1>1, StreamInvariant, PTL DEF Spec, StoppedStaysStopped

-----------------------------------------------------------------------------
(* What is owed to a screen that missed a change. *)

\* This client will read what the body of slot c still holds.
Watching(c) == phase[c] = "reading" /\ c \notin cl.aborted /\ ~cut[c]

\* The API still speaks to slot c, or has said that it no longer will.
Hears(c) ==
  /\ Watching(c)
  /\ relay[c].socket = "subscribed" \/ Contains(relay[c].body, Frame("unsubscribed"))

\* Nothing reaches the screen through slot c.
Quiet(c) ==
  Watching(c) => relay[c].socket # "subscribed" /\ ~Contains(relay[c].body, Frame("deleted"))

\* Unread frames after which the board is read again or the stream is over.
Promises(r) ==
  \E kind \in {"subscribed", "unavailable", "refused"} : Contains(r.body, Frame(kind))

\* Slot c will yet connect, or end, or be read as subscribed.
Underway(c) ==
  /\ c \notin cl.aborted
  /\ \/ phase[c] = "fetching"
     \/ /\ phase[c] = "reading"
        /\ \/ cut[c] \/ relay[c].done \/ relay[c].socket \in {"dialing", "asked"}
           \/ Promises(relay[c])

Pending == Armed(cl) \/ renewing # None \/ \E c \in Slot : Underway(c)

\* When nothing is pending, a screen that is not stopped listens, unless it knows
\* that its board is gone; and it has missed something only if all that still
\* speaks to it is a subscription's end.
Settled ==
  ~cl.stopped /\ ~Pending =>
    /\ cl.missed => ~cl.seenDeleted /\ \A c \in Slot : Quiet(c)
    /\ ~cl.seenDeleted => \E c \in Slot : Hears(c)

\* Only a board that was deleted is said to be.
DeletedKnown ==
  /\ cl.seenDeleted => board = "deleted"
  /\ \A c \in Slot : Contains(relay[c].body, Frame("deleted")) => board = "deleted"

\* One message more is found where it was put.
LEMMA ContainsAppend ==
  ASSUME NEW body \in Seq(Message), NEW m \in Message, NEW x
  PROVE  Contains(Append(body, m), x) <=> Contains(body, x) \/ m = x
<1> DEFINE n == Len(body)
           longer == Append(body, m)
<1>1. n \in Nat /\ Len(longer) = n + 1 /\ longer[n + 1] = m
      /\ \A i \in 1..n : longer[i] = body[i]
  BY LenProperties, AppendProperties
<1> HIDE DEF longer, n
<1>2. 1..(n + 1) = (1..n) \cup {n + 1}
  BY <1>1
<1>3. Contains(longer, x) <=> (\E i \in 1..n : body[i] = x) \/ m = x
  BY <1>1, <1>2 DEF Contains
<1>4. QED
  BY <1>3 DEF Contains, longer, n

\* What a body holds is in the chunk that was read or in what is left.
LEMMA ContainsChunk ==
  ASSUME NEW body \in Seq(Message), NEW n \in 1..Len(body)
  PROVE  LET chunk == SubSeq(body, 1, n)
             rest == SubSeq(body, n + 1, Len(body))
         IN  /\ chunk \in Seq(Message) /\ Len(chunk) = n
             /\ \A i \in 1..n : chunk[i] = body[i]
             /\ \A x : Contains(body, x) <=> Contains(chunk, x) \/ Contains(rest, x)
<1> DEFINE len == Len(body)
           chunk == SubSeq(body, 1, n)
           rest == SubSeq(body, n + 1, Len(body))
<1>1. len \in Nat /\ n \in 1..len /\ \A i \in 1..len : body[i] \in Message
  BY LenProperties, ElementOfSeq
<1>2. chunk \in Seq(Message) /\ Len(chunk) = n /\ \A i \in 1..n : chunk[i] = body[i]
  <2>1. 1 \in Int /\ n \in Int /\ \A i \in 1..n : body[i] \in Message
    BY <1>1
  <2>2. /\ chunk \in Seq(Message)
        /\ Len(chunk) = IF 1 <= n THEN n - 1 + 1 ELSE 0
        /\ \A i \in 1..(n - 1 + 1) : chunk[i] = body[1 + i - 1]
    BY <2>1, SubSeqProperties
  <2> HIDE DEF chunk
  <2>3. Len(chunk) = n /\ n - 1 + 1 = n /\ \A i \in 1..n : 1 + i - 1 = i
    BY <1>1, <2>2
  <2>4. QED
    BY <2>2, <2>3
<1>3. Len(rest) = len - n /\ \A i \in 1..(len - n) : rest[i] = body[i + n]
  BY BufferedRest
<1> HIDE DEF chunk, rest, len
<1>4. ASSUME NEW x
      PROVE  Contains(body, x) <=> Contains(chunk, x) \/ Contains(rest, x)
  <2>1. Contains(body, x) <=> \E i \in 1..len : body[i] = x
    BY DEF Contains, len
  <2>2. Contains(chunk, x) <=> \E i \in 1..n : body[i] = x
    BY <1>2 DEF Contains
  <2>3. Contains(rest, x) <=> \E i \in 1..(len - n) : body[i + n] = x
    BY <1>3 DEF Contains
  <2>4. ASSUME NEW i \in 1..len, i \notin 1..n
        PROVE  i - n \in 1..(len - n) /\ (i - n) + n = i
    BY <1>1, <2>4
  <2>5. \A i \in 1..(len - n) : i + n \in 1..len
    BY <1>1
  <2>6. \A i \in 1..n : i \in 1..len
    BY <1>1
  <2>7. ASSUME Contains(body, x), ~Contains(chunk, x)
        PROVE  Contains(rest, x)
    <3>1. PICK i \in 1..len : body[i] = x
      BY <2>1, <2>7
    <3>2. i \notin 1..n
      BY <2>2, <2>7, <3>1
    <3>3. i - n \in 1..(len - n) /\ body[(i - n) + n] = x
      BY <2>4, <3>1, <3>2
    <3>4. QED
      BY <2>3, <3>3
  <2>8. QED
    BY <2>1, <2>2, <2>3, <2>5, <2>6, <2>7
<1>5. QED
  BY <1>2, <1>4 DEF chunk, rest

\* A write ends the stream or is found on the body.
LEMMA WriteOutcome ==
  ASSUME NEW r \in RelayState, Flags(r), ~r.finished, NEW m \in Message
  PROVE  \/ Write(r, m).done = TRUE
         \/ /\ Write(r, m).socket = r.socket /\ Write(r, m).done = FALSE
            /\ Write(r, m).body = Append(r.body, m)
<1>1. r.done = FALSE /\ r.finished = FALSE
  BY DEF Flags, RelayState
<1>2. CASE OverBudget(r)
  BY <1>1, <1>2 DEF Write, ShedSlowConsumer, Stop, RelayState
<1>3. CASE ~OverBudget(r)
  BY <1>1, <1>3 DEF Write, Enqueue, RelayState
<1>4. QED
  BY <1>2, <1>3

\* The bodies, so far as they say that the board was deleted.
LEMMA StopSays ==
  ASSUME NEW r \in RelayState, Flags(r), NEW code \in Code
  PROVE  LET t == Stop(r, <<Closed(code)>>)
         IN  /\ ~r.finished => t.done = TRUE
             /\ Contains(t.body, Frame("deleted")) => Contains(r.body, Frame("deleted"))
<1> DEFINE m == Closed(code)
           longer == r.body \o <<m>>
<1>1. r.body \in Seq(Message) /\ m \in Message /\ m # Frame("deleted")
  BY MessageKinds DEF RelayState, FrameKind
<1> HIDE DEF m
<1>2. longer = Append(r.body, m)
  BY <1>1, AppendIsConcat
<1> HIDE DEF longer
<1>3. Contains(longer, Frame("deleted")) => Contains(r.body, Frame("deleted"))
  BY <1>1, <1>2, ContainsAppend
<1>4. CASE r.finished
  BY <1>4 DEF Stop
<1>5. CASE ~r.finished
  <2>1. r.done = FALSE
    BY <1>5 DEF Flags, RelayState
  <2>2. Stop(r, <<m>>).done = TRUE /\ Stop(r, <<m>>).body = longer
    BY <1>5, <2>1 DEF Stop, RelayState, longer
  <2>3. QED
    BY <1>3, <2>2 DEF m
<1>6. QED
  BY <1>4, <1>5

\* A write says that the board was deleted only if it is told to.
LEMMA WriteSays ==
  ASSUME NEW r \in RelayState, Flags(r), NEW m \in Message,
         Contains(Write(r, m).body, Frame("deleted"))
  PROVE  Contains(r.body, Frame("deleted")) \/ m = Frame("deleted")
<1>1. CASE r.finished
  BY <1>1 DEF Write
<1>2. CASE ~r.finished /\ OverBudget(r)
  <2> DEFINE code == 4002
  <2>1. Write(r, m) = Stop(r, <<Closed(code)>>) /\ code \in Code
    BY <1>2 DEF Write, ShedSlowConsumer, Code
  <2> HIDE DEF code
  <2>2. Contains(r.body, Frame("deleted"))
    BY <2>1, StopSays
  <2>3. QED
    BY <2>2
<1>3. CASE ~r.finished /\ ~OverBudget(r)
  <2>1. r.done = FALSE /\ r.body \in Seq(Message)
    BY <1>3 DEF Flags, RelayState
  <2>2. Write(r, m).body = Append(r.body, m)
    BY <1>3, <2>1 DEF Write, Enqueue, RelayState
  <2>3. QED
    BY <2>1, <2>2, ContainsAppend
<1>4. QED
  BY <1>1, <1>2, <1>3

\* What the reader of a relay's body will still be told.
Informs(r) == r.done \/ r.socket \in {"dialing", "asked"} \/ Promises(r)

\* The listeners of one slot touch no other, report no deletion, and leave
\* something to be told, except when the sweep takes a subscription away.
LEMMA ServerSays ==
  ASSUME Relays, NEW c \in Slot, ServerStep(c) \/ RelayBeats(c) \/ RelayEnds(c) \/ ApiFails(c)
  PROVE  /\ \A d \in Slot \ {c} : relay'[d] = relay[d]
         /\ Contains(relay'[c].body, Frame("deleted"))
              => Contains(relay[c].body, Frame("deleted"))
         /\ Informs(relay'[c]) \/ Gone(c) \/ Sweep(c)
<1> DEFINE r == relay[c]
           Fine(t) == /\ relay' = [relay EXCEPT ![c] = t]
                      /\ Contains(t.body, Frame("deleted"))
                           => Contains(r.body, Frame("deleted"))
                      /\ Informs(t) \/ Gone(c) \/ Sweep(c)
<1>1. relay \in [Slot -> RelayState] /\ r \in RelayState /\ Flags(r)
  BY DEF Relays, Sound, Steady
<1>2. SUFFICES \E t : Fine(t)
  BY <1>1
<1>3. {0, 1001, 1006, 4001, 4002, 4003} \subseteq Code /\ 0 \in Code /\ 4002 \in Code
  BY DEF Code
<1>4. ASSUME NEW code \in Code, ~r.finished,
             relay' = [relay EXCEPT ![c] = Stop(r, <<Closed(code)>>)]
      PROVE  \E t : Fine(t)
  <2> DEFINE t == Stop(r, <<Closed(code)>>)
  <2>1. t.done /\ (Contains(t.body, Frame("deleted")) => Contains(r.body, Frame("deleted")))
    BY <1>1, <1>4, StopSays
  <2>2. relay' = [relay EXCEPT ![c] = t]
    BY <1>4
  <2> HIDE DEF t
  <2>3. Fine(t)
    BY <2>1, <2>2 DEF Informs
  <2>4. QED
    BY <2>3
<1>5. ASSUME NEW socket \in {"asked", "subscribed", "left"}, r.socket # "closed",
             NEW m \in Message, m # Frame("deleted"),
             relay' = [relay EXCEPT ![c] = Write([r EXCEPT !.socket = socket], m)],
             \/ socket = "asked" \/ Sweep(c)
             \/ m \in {Frame("subscribed"), Frame("unavailable"), Frame("refused")}
      PROVE  \E t : Fine(t)
  <2> DEFINE u == [r EXCEPT !.socket = socket]
             t == Write(u, m)
  <2>1. u \in RelayState /\ Flags(u) /\ ~u.finished /\ u.body = r.body /\ u.socket = socket
    <3>1. u \in RelayState /\ u.body = r.body /\ u.socket = socket /\ u.finished = r.finished
          /\ u.done = r.done
      BY <1>1, <1>5 DEF RelayState
    <3>2. r.finished = FALSE /\ r.done = FALSE
      BY <1>1, <1>5 DEF Flags, RelayState
    <3> HIDE DEF u
    <3>3. QED
      BY <1>5, <3>1, <3>2 DEF Flags
  <2>2. relay' = [relay EXCEPT ![c] = t]
    BY <1>5
  <2> HIDE DEF u
  <2>3. Contains(t.body, Frame("deleted")) => Contains(r.body, Frame("deleted"))
    BY <1>5, <2>1, WriteSays
  <2>4. \/ t.done = TRUE
        \/ t.socket = socket /\ t.done = FALSE /\ t.body = Append(u.body, m)
    BY <2>1, WriteOutcome
  <2> HIDE DEF t
  <2>5. u.body \in Seq(Message)
    BY <2>1 DEF RelayState
  <2>6. Informs(t) \/ Sweep(c)
    <3>1. CASE t.done = TRUE
      BY <3>1 DEF Informs
    <3>2. CASE t.socket = socket /\ t.done = FALSE /\ t.body = Append(u.body, m)
      <4>1. Contains(t.body, m)
        BY <2>5, <3>2, ContainsAppend
      <4>2. QED
        BY <1>5, <3>2, <4>1 DEF Informs, Promises
    <3>3. QED
      BY <2>4, <3>1, <3>2
  <2>7. Fine(t)
    BY <2>2, <2>3, <2>6
  <2>8. QED
    BY <2>7
<1>6. ASSUME NEW t, relay' = [relay EXCEPT ![c] = t], t.body = <<>>, Gone(c)
      PROVE  \E u : Fine(u)
  <2>1. ~Contains(t.body, Frame("deleted"))
    BY <1>6, EmptyBody DEF Contains
  <2>2. Fine(t)
    BY <1>6, <2>1
  <2>3. QED
    BY <2>2
<1>7. r.socket # "closed" => ~r.finished
  BY <1>1 DEF Flags, RelayState
<1> HIDE DEF Fine
<1>8. ASSUME NEW code \in Code, SocketEnded(c, code)
      PROVE  \E t : Fine(t)
  BY <1>4, <1>7, <1>8 DEF SocketEnded, Set
<1>9. \A k \in FrameKind : Frame(k) \in Message /\ (Frame(k) = Frame("deleted") => k = "deleted")
  BY MessageKinds DEF FrameKind
<1>10. CASE RelayOpened(c)
  <2>1. CASE SocketOpened(c)
    <3>1. /\ r.socket = "dialing"
          /\ relay' = [relay EXCEPT ![c] = Write([r EXCEPT !.socket = "asked"], OpenMessage)]
      BY <2>1 DEF SocketOpened, Set
    <3>2. OpenMessage \in Message /\ OpenMessage # Frame("deleted")
      BY MessageKinds DEF FrameKind
    <3>3. QED
      BY <1>5, <3>1, <3>2
  <2>2. CASE SocketOpenFailed(c)
    <3> DEFINE code == 0
    <3>1. r.socket = "dialing" /\ relay' = [relay EXCEPT ![c] = Stop(r, <<Closed(code)>>)]
      BY <2>2 DEF SocketOpenFailed, Set
    <3>2. code \in Code
      BY <1>3
    <3> HIDE DEF code
    <3>3. QED
      BY <1>4, <1>7, <3>1, <3>2
  <2>3. QED
    BY <1>10, <2>1, <2>2 DEF RelayOpened
<1>11. CASE RelayEnds(c)
  <2>1. Gone(c)
    BY <1>11 DEF RelayEnds
  <2>2. CASE RequestAborted(c)
    <3> DEFINE t == [Stop(r, <<>>) EXCEPT !.body = <<>>]
    <3>1. relay' = [relay EXCEPT ![c] = t]
      BY <2>2 DEF RequestAborted, Set
    <3>2. t.body = <<>>
      BY <1>1 DEF Stop, RelayState
    <3> HIDE DEF t
    <3>3. QED
      BY <1>6, <2>1, <3>1, <3>2
  <2>3. CASE Cancelled(c)
    <3> DEFINE t == [r EXCEPT !.finished = TRUE, !.heartbeat = FALSE, !.socket = "closed",
                              !.done = TRUE, !.body = <<>>]
    <3>1. relay' = [relay EXCEPT ![c] = t]
      BY <2>3 DEF Cancelled, Set
    <3>2. t.body = <<>>
      BY <1>1 DEF RelayState
    <3> HIDE DEF t
    <3>3. QED
      BY <1>6, <2>1, <3>1, <3>2
  <2>4. QED
    BY <1>11, <2>2, <2>3 DEF RelayEnds
<1>12. CASE RelayBeats(c)
  <2> DEFINE t == Write(r, Comment)
  <2>1. relay' = [relay EXCEPT ![c] = t]
    BY <1>12 DEF RelayBeats, Heartbeat, Set
  <2>2. Comment \in Message /\ Comment # Frame("deleted")
    BY MessageKinds DEF FrameKind
  <2>3. Contains(t.body, Frame("deleted")) => Contains(r.body, Frame("deleted"))
    BY <1>1, <2>2, WriteSays
  <2>4. Informs(t) \/ Gone(c)
    <3>1. CASE cut[c]
      BY <3>1 DEF Gone
    <3>2. CASE ~cut[c]
      <4>1. OverBudget(r)
        BY <1>12, <3>2 DEF RelayBeats
      <4>2. r.done = FALSE /\ r.finished = FALSE
        BY <1>1, <4>1 DEF OverBudget, Flags, RelayState
      <4>3. t.done = TRUE
        BY <1>1, <4>1, <4>2 DEF Write, ShedSlowConsumer, Stop, RelayState
      <4> HIDE DEF t
      <4>4. QED
        BY <4>3 DEF Informs
    <3>3. QED
      BY <3>1, <3>2
  <2> HIDE DEF t
  <2>5. Fine(t)
    BY <2>1, <2>3, <2>4 DEF Fine
  <2>6. QED
    BY <2>5
<1>13. CASE Answer(c)
  <2>1. PICK kind \in {"subscribed", "refused", "unavailable"},
             socket \in {"subscribed", "left"} :
          relay' = [relay EXCEPT ![c] = Write([r EXCEPT !.socket = socket], Frame(kind))]
    BY <1>13 DEF Answer, SocketMessage, Set
  <2>2. r.socket # "closed"
    BY <1>13 DEF Answer
  <2>3. Frame(kind) \in Message /\ Frame(kind) # Frame("deleted")
    BY <1>9 DEF FrameKind
  <2>4. Frame(kind) \in {Frame("subscribed"), Frame("unavailable"), Frame("refused")}
    OBVIOUS
  <2>5. QED
    BY <1>5, <2>1, <2>2, <2>3, <2>4
<1>14. CASE Sweep(c)
  <2>1. relay' = [relay EXCEPT ![c] = Write([r EXCEPT !.socket = "left"],
                                            Frame("unsubscribed"))]
        /\ r.socket = "subscribed"
    BY <1>14 DEF Sweep, SocketMessage, Set
  <2>2. Frame("unsubscribed") \in Message /\ Frame("unsubscribed") # Frame("deleted")
    BY <1>9 DEF FrameKind
  <2>3. QED
    BY <1>5, <1>14, <2>1, <2>2
<1>15. CASE ApiEnds(c) \/ ApiFails(c)
  <2>1. \E code \in Code : SocketEnded(c, code)
    BY <1>3, <1>15 DEF ApiEnds, ApiFails
  <2>2. QED
    BY <1>8, <2>1
<1>16. QED
  BY <1>10, <1>11, <1>12, <1>13, <1>14, <1>15 DEF ServerStep

\* Only the API's event says that the board is gone, and the board is gone by then.
LEMMA DeletedStep ==
  ASSUME StreamInv, DeletedKnown, [Next]_vars
  PROVE  DeletedKnown'
<1>1. Usable(cl) /\ cl \in Client /\ OthersTyped /\ Relays
      /\ relay \in [Slot -> RelayState]
  BY DEF StreamInv, Usable, Relays
<1>2. \A c \in Slot : relay[c] \in RelayState /\ Flags(relay[c])
                      /\ relay[c].body \in Seq(Message)
  BY <1>1 DEF Relays, Sound, Steady, RelayState
<1> DEFINE Says(r) == Contains(r.body, Frame("deleted"))
           Same == /\ board = "deleted" => board' = "deleted"
                   /\ cl'.seenDeleted => cl.seenDeleted \/ \E c \in Slot : Says(relay[c])
                   /\ \A c \in Slot : Says(relay'[c]) => Says(relay[c]) \/ board' = "deleted"
<1>3. ASSUME Same
      PROVE  DeletedKnown'
  BY <1>3 DEF DeletedKnown
<1> HIDE DEF Same
<1>4. ASSUME NEW c \in Slot, NEW t, ~Says(t), relay' = [relay EXCEPT ![c] = t]
      PROVE  \A d \in Slot : Says(relay'[d]) => Says(relay[d])
  BY <1>1, <1>4
<1>5. /\ ~Says(Unused) /\ ~Says(Started(FALSE, TRUE)) /\ ~Says(Started(FALSE, FALSE))
      /\ ~Says(Started(TRUE, TRUE))
  <2>1. ~Contains(<<>>, Frame("deleted"))
    BY EmptyBody DEF Contains
  <2> DEFINE m == Closed(0)
  <2>2. m # Frame("deleted") /\ m \in Message
    BY MessageKinds DEF FrameKind, Code
  <2>3. <<m>> = Append(<<>>, m)
    OBVIOUS
  <2>4. ~Contains(<<m>>, Frame("deleted"))
    <3> HIDE DEF m
    <3>1. ~Contains(Append(<<>>, m), Frame("deleted"))
      BY <2>1, <2>2, EmptyBody, ContainsAppend
    <3>2. QED
      BY <2>3, <3>1
  <2>5. Started(TRUE, TRUE).body = <<>>
    <3>1. <<>> \o <<>> = <<>>
      BY EmptyBody, ConcatEmptySeq
    <3>2. QED
      BY <3>1 DEF Started, Stop
  <2>6. QED
    BY <2>1, <2>4, <2>5, StartedSound DEF Unused
<1>6. ASSUME NEW s, Usable(s), s.seenDeleted = cl.seenDeleted, Connect(s), board' = board
      PROVE  Same
  <2>1. /\ cl'.seenDeleted = s.seenDeleted
        /\ s.stopped => UNCHANGED relay
        /\ ~s.stopped => \E c \in FirstFree : relay' = [relay EXCEPT ![c] = Unused]
    BY <1>1, <1>6, ConnectKeeps
  <2>2. FirstFree \subseteq Slot
    BY DEF FirstFree
  <2>3. \A d \in Slot : Says(relay'[d]) => Says(relay[d])
    BY <1>4, <1>5, <2>1, <2>2
  <2>4. QED
    BY <1>6, <2>1, <2>3 DEF Same
<1>7. ASSUME NEW s, Usable(s), s.seenDeleted = cl.seenDeleted, NEW c \in Slot,
             NEW recovery \in Recovery,
             \/ cl' = s \/ cl' = Ended(s, recovery) \/ cl' = Forget(s, c)
             \/ cl' = Forget(Ended(s, recovery), c)
      PROVE  cl'.seenDeleted = cl.seenDeleted
  <2> DEFINE e == Ended(s, recovery)
  <2>1. e \in Client /\ s \in Client /\ e.seenDeleted = s.seenDeleted
    BY <1>7, EndedUsable DEF Usable, SameElse
  <2> HIDE DEF e
  <2>2. Forget(s, c).seenDeleted = s.seenDeleted /\ Forget(e, c).seenDeleted = e.seenDeleted
    BY <2>1, ForgetKeeps
  <2>3. QED
    BY <1>7, <2>1, <2>2 DEF e
<1>8. Reconnect(TRUE) \in Recovery /\ SignedOutRecovery \in Recovery
  BY RecoveryTyped
<1>9. ASSUME NEW c \in Slot,
             StreamUnauthorized(c) \/ StreamRefused(c) \/ ReadOver(c) \/ ReadAborted(c)
      PROVE  Same
  <2>1. UNCHANGED <<relay, board>>
    BY <1>9 DEF StreamUnauthorized, StreamRefused, ReadOver, ReadAborted, worldVars
  <2>2. cl' = cl \/ cl' = Ended(cl, Reconnect(TRUE)) \/ cl' = Forget(cl, c)
    BY <1>9 DEF StreamUnauthorized, StreamRefused, ReadOver, ReadAborted
  <2>3. cl'.seenDeleted = cl.seenDeleted
    BY <1>1, <1>7, <1>8, <2>2
  <2>4. QED
    BY <2>1, <2>3 DEF Same
<1>10. ASSUME NEW c \in Slot, StreamOpened(c) \/ StreamAborted(c)
       PROVE  Same
  <2>1. board' = board /\ (cl' = cl \/ cl' = Forget(cl, c))
    BY <1>10 DEF StreamOpened, StreamAborted, worldVars
  <2>2. \E t \in {Started(FALSE, TRUE), Started(FALSE, FALSE), Started(TRUE, TRUE)} :
          relay' = [relay EXCEPT ![c] = t]
    BY <1>10 DEF StreamOpened, StreamAborted, Set
  <2>3. \A d \in Slot : Says(relay'[d]) => Says(relay[d])
    BY <1>4, <1>5, <2>2
  <2>4. cl'.seenDeleted = cl.seenDeleted
    BY <1>1, <1>7, <1>8, <2>1
  <2>5. QED
    BY <2>1, <2>3, <2>4 DEF Same
<1>11. ASSUME NEW c \in Slot, ReadChunk(c)
       PROVE  Same
  <2> DEFINE body == relay[c].body
  <2>1. PICK n \in 1..Len(body) :
          LET s == DispatchAll(cl, SubSeq(body, 1, n))
          IN  /\ cl' = s \/ cl' = Forget(s, c)
              /\ Set(c, [relay[c] EXCEPT !.body = SubSeq(body, n + 1, Len(body))])
    BY <1>11 DEF ReadChunk
  <2> DEFINE chunk == SubSeq(body, 1, n)
             rest == SubSeq(body, n + 1, Len(body))
             s == DispatchAll(cl, chunk)
  <2>2. body \in Seq(Message)
    BY <1>2
  <2>3. chunk \in Seq(Message)
        /\ \A x : Contains(body, x) <=> Contains(chunk, x) \/ Contains(rest, x)
    BY <2>2, ContainsChunk
  <2>4. /\ \A d \in Slot \ {c} : relay'[d] = relay[d]
        /\ relay'[c].body = rest
    BY <1>1, <1>2, <2>1 DEF Set, RelayState
  <2>5. cl' = s \/ cl' = Forget(s, c)
    BY <2>1
  <2>6. board' = board
    BY <1>11 DEF ReadChunk, worldVars
  <2> HIDE DEF chunk, rest, body
  <2>7. Usable(s) /\ (s.seenDeleted => cl.seenDeleted \/ Contains(chunk, Frame("deleted")))
    BY <1>1, <2>3, ChunkHeard
  <2> HIDE DEF s
  <2>8. cl'.seenDeleted = s.seenDeleted
    BY <2>5, <2>7, ForgetKeeps DEF Usable
  <2>9. cl'.seenDeleted => cl.seenDeleted \/ Says(relay[c])
    BY <2>3, <2>7, <2>8 DEF body
  <2>10. \A d \in Slot : Says(relay'[d]) => Says(relay[d])
    BY <2>3, <2>4 DEF body
  <2>11. QED
    BY <2>6, <2>9, <2>10 DEF Same
<1>12. ASSUME NEW c \in Slot, ServerStep(c) \/ RelayBeats(c) \/ RelayEnds(c) \/ ApiFails(c)
       PROVE  Same
  <2>1. UNCHANGED <<cl, board>>
    BY <1>12 DEF ServerStep, RelayOpened, RelayEnds, Answer, Sweep, ApiEnds, RelayBeats,
                 ApiFails, clientVars, worldVars
  <2>2. /\ \A d \in Slot \ {c} : relay'[d] = relay[d]
        /\ Says(relay'[c]) => Says(relay[c])
    BY <1>1, <1>12, ServerSays
  <2>3. QED
    BY <2>1, <2>2 DEF Same
<1>13. ASSUME NEW id \in Timer, TimerFired(id)
       PROVE  Same
  <2> DEFINE s == [cl EXCEPT !.timers[id] = "off", !.timer = None]
  <2>1. Usable(s) /\ s.seenDeleted = cl.seenDeleted
    BY <1>1 DEF Usable, Client
  <2>2. board' = board
    BY <1>13 DEF TimerFired, worldVars
  <2>3. Connect(s) \/ (cl' = s /\ UNCHANGED relay)
    BY <1>13 DEF TimerFired
  <2> HIDE DEF s
  <2>4. CASE Connect(s)
    BY <1>6, <2>1, <2>2, <2>4
  <2>5. CASE cl' = s /\ UNCHANGED relay
    BY <2>1, <2>2, <2>5 DEF Same
  <2>6. QED
    BY <2>3, <2>4, <2>5
<1>14. CASE Renewed
  <2>1. PICK ok \in BOOLEAN :
          \/ renewing = ByTimer /\ RenewedTimer(ok)
          \/ renewing \in Slot /\ RenewedStream(renewing, ok)
    BY <1>14 DEF Renewed
  <2>2. board' = board
    BY <1>14 DEF Renewed
  <2>3. CASE Connect(cl)
    BY <1>1, <1>3, <1>6, <2>2, <2>3
  <2>4. CASE cl' = [cl EXCEPT !.stopped = TRUE, !.status = "stopped",
                              !.notice = "signedOut"] /\ UNCHANGED relay
    <3>1. cl'.seenDeleted = cl.seenDeleted
      BY <1>1, <2>4 DEF Client
    <3>2. QED
      BY <1>3, <2>2, <2>4, <3>1 DEF Same
  <2>5. CASE renewing \in Slot /\ RenewedStream(renewing, ok)
    <3>1. \E recovery \in Recovery : cl' = Forget(Ended(cl, recovery), renewing)
      BY <1>8, <2>5 DEF RenewedStream
    <3>2. cl'.seenDeleted = cl.seenDeleted
      BY <1>1, <1>7, <2>5, <3>1
    <3>3. QED
      BY <1>3, <2>2, <2>5, <3>2 DEF Same, RenewedStream
  <2>6. QED
    BY <2>1, <2>3, <2>4, <2>5 DEF RenewedTimer
<1>15. ASSUME NEW c \in Slot, Cut(c)
       PROVE  Same
  <2>1. cl'.seenDeleted = cl.seenDeleted /\ UNCHANGED <<relay, board>>
    BY <1>1, <1>15 DEF Cut, worldVars, Client
  <2>2. QED
    BY <2>1 DEF Same
<1>16. CASE Publish
  <2>1. PICK kind \in {"event", "deleted"} :
          Deliver(kind) /\ (kind = "deleted" => board' = "deleted") /\ board = "there"
    BY <1>16 DEF Publish
  <2>2. cl'.seenDeleted = cl.seenDeleted
    BY <1>1, <2>1 DEF Deliver, Client
  <2>3. Frame(kind) \in Message /\ (Frame(kind) = Frame("deleted") => kind = "deleted")
    BY MessageKinds DEF FrameKind
  <2>4. ASSUME NEW c \in Slot, Says(relay'[c])
        PROVE  Says(relay[c]) \/ board' = "deleted"
    <3>1. relay'[c] = relay[c] \/ relay'[c] = Write(relay[c], Frame(kind))
      BY <2>1 DEF Deliver
    <3>2. CASE relay'[c] = Write(relay[c], Frame(kind))
      <4>1. Contains(Write(relay[c], Frame(kind)).body, Frame("deleted"))
        BY <2>4, <3>2
      <4>2. QED
        BY <1>2, <2>1, <2>3, <4>1, WriteSays
    <3>3. QED
      BY <2>4, <3>1, <3>2
  <2>5. QED
    BY <1>3, <2>1, <2>2, <2>4 DEF Same
<1>17. CASE Unmount \/ TokenExpires \/ SessionEnds \/ AccessEnds \/ UNCHANGED vars
  <2>1. UNCHANGED <<relay, board>> /\ cl'.seenDeleted = cl.seenDeleted
    BY <1>1, <1>17 DEF Unmount, TokenExpires, SessionEnds, AccessEnds, vars, clientVars,
                       worldVars, Client
  <2>2. QED
    BY <1>3, <2>1 DEF Same
<1>18. QED
  BY <1>3, <1>9, <1>10, <1>11, <1>12, <1>13, <1>14, <1>15, <1>16, <1>17
     DEF Next, ClientStep

\* While something is pending there is nothing to settle.
LEMMA SettledByHalt ==
  ASSUME cl'.stopped \/ Armed(cl') \/ renewing' # None \/ \E c \in Slot : Underway(c)'
  PROVE  Settled'
  BY DEF Settled, Pending, Armed

\* A slot that is as it was is no more pending, and hears and lets through as much.
LEMMA SameSlot ==
  ASSUME NEW d \in Slot, relay'[d] = relay[d], phase'[d] = phase[d], cut'[d] = cut[d],
         d \in cl'.aborted <=> d \in cl.aborted
  PROVE  /\ Underway(d)' <=> Underway(d)
         /\ Quiet(d)' <=> Quiet(d)
         /\ Hears(d)' <=> Hears(d)
<1>1. Watching(d)' <=> Watching(d)
  BY DEF Watching
<1>2. Promises(relay'[d]) <=> Promises(relay[d])
  OBVIOUS
<1>3. Underway(d)' <=> Underway(d)
  BY DEF Underway, Promises
<1>4. QED
  BY <1>1, <1>3 DEF Quiet, Hears

\* A step of one slot that stays pending, or was not and settles as before.
LEMMA SlotSettled ==
  ASSUME Settled, NEW c \in Slot,
         cl'.stopped = cl.stopped, cl'.seenDeleted = cl.seenDeleted,
         cl'.missed => cl.missed, Armed(cl) => Armed(cl'), renewing' = renewing,
         \A d \in Slot \ {c} : /\ relay'[d] = relay[d] /\ phase'[d] = phase[d]
                               /\ cut'[d] = cut[d]
                               /\ d \in cl'.aborted <=> d \in cl.aborted,
         \/ Underway(c)'
         \/ ~Underway(c) /\ (Quiet(c) => Quiet(c)') /\ (Hears(c) => Hears(c)')
  PROVE  Settled'
<1>1. CASE Underway(c)'
  BY <1>1, SettledByHalt
<1>2. CASE cl'.stopped \/ Armed(cl') \/ renewing' # None \/ \E d \in Slot : Underway(d)'
  BY <1>2, SettledByHalt
<1>3. CASE /\ ~Underway(c) /\ (Quiet(c) => Quiet(c)') /\ (Hears(c) => Hears(c)')
           /\ ~cl'.stopped /\ ~Armed(cl') /\ renewing' = None
           /\ \A d \in Slot : ~Underway(d)'
  <2>1. \A d \in Slot \ {c} : /\ Underway(d)' <=> Underway(d)
                              /\ Quiet(d)' <=> Quiet(d)
                              /\ Hears(d)' <=> Hears(d)
    BY SameSlot
  <2>2. ~cl.stopped /\ ~Pending
    <3>1. \A d \in Slot : ~Underway(d)
      BY <1>3, <2>1
    <3>2. QED
      BY <1>3, <3>1 DEF Pending
  <2>3. /\ cl.missed => ~cl.seenDeleted /\ \A d \in Slot : Quiet(d)
        /\ ~cl.seenDeleted => \E d \in Slot : Hears(d)
    BY <2>2 DEF Settled
  <2>4. cl.missed => \A d \in Slot : Quiet(d)'
    BY <1>3, <2>1, <2>3
  <2>5. ~cl.seenDeleted => \E d \in Slot : Hears(d)'
    BY <1>3, <2>1, <2>3
  <2>6. cl'.missed => ~cl'.seenDeleted /\ \A d \in Slot : Quiet(d)'
    BY <2>3, <2>4
  <2>7. ~cl'.seenDeleted => \E d \in Slot : Hears(d)'
    BY <2>5
  <2>8. QED
    BY <2>6, <2>7 DEF Settled
<1>4. QED
  BY <1>1, <1>2, <1>3

\* The relays' listeners.
LEMMA ServerSettled ==
  ASSUME StreamInv, Settled, NEW c \in Slot,
         ServerStep(c) \/ RelayBeats(c) \/ RelayEnds(c) \/ ApiFails(c)
  PROVE  Settled'
<1>1. UNCHANGED <<cl, phase, renewing, cut>>
  BY DEF ServerStep, RelayOpened, RelayEnds, Answer, Sweep, ApiEnds, RelayBeats,
         ApiFails, clientVars
<1>2. Relays /\ relay[c] \in RelayState /\ Flags(relay[c]) /\ relay[c].body \in Seq(Message)
      /\ relay \in [Slot -> RelayState]
  BY DEF StreamInv, Relays, Sound, Steady, RelayState
<1>3. /\ \A d \in Slot \ {c} : relay'[d] = relay[d]
      /\ Informs(relay'[c]) \/ Gone(c) \/ Sweep(c)
  BY <1>2, ServerSays
<1>4. ASSUME Underway(c)' \/ (~Underway(c) /\ (Quiet(c) => Quiet(c)') /\ (Hears(c) => Hears(c)'))
      PROVE  Settled'
  BY <1>1, <1>3, <1>4, SlotSettled
<1>5. Watching(c)' <=> Watching(c)
  BY <1>1 DEF Watching
<1>6. CASE ~Watching(c)
  <2>1. Underway(c) => Underway(c)'
    BY <1>1, <1>6 DEF Underway, Watching
  <2>2. ~Hears(c) /\ Quiet(c)'
    BY <1>5, <1>6 DEF Hears, Quiet
  <2>3. QED
    BY <1>4, <2>1, <2>2
<1>7. CASE Watching(c) /\ Informs(relay'[c])
  <2>1. Underway(c)'
    BY <1>1, <1>7 DEF Underway, Watching, Informs
  <2>2. QED
    BY <1>4, <2>1
<1>8. CASE Watching(c) /\ Sweep(c)
  <2> DEFINE r == relay[c]
             m == Frame("unsubscribed")
             u == [r EXCEPT !.socket = "left"]
             t == Write(u, m)
  <2>1. r.socket = "subscribed" /\ relay' = [relay EXCEPT ![c] = t]
    BY <1>8 DEF Sweep, SocketMessage, Set
  <2>2. r.done = FALSE /\ r.finished = FALSE
    BY <1>2, <2>1 DEF Flags, RelayState
  <2>3. u \in RelayState /\ Flags(u) /\ ~u.finished /\ u.body = r.body /\ u.socket = "left"
    <3>1. u \in RelayState /\ u.body = r.body /\ u.socket = "left" /\ u.finished = FALSE
          /\ u.done = FALSE
      BY <1>2, <2>2 DEF RelayState
    <3> HIDE DEF u
    <3>2. QED
      BY <3>1 DEF Flags
  <2>4. m \in Message
    BY MessageKinds DEF FrameKind
  <2>5. relay'[c] = t
    BY <1>2, <2>1
  <2> HIDE DEF u, m
  <2>6. t.done = TRUE \/ (t.socket = "left" /\ t.body = Append(r.body, m))
    BY <2>3, <2>4, WriteOutcome
  <2> HIDE DEF t
  <2>7. CASE t.done = TRUE
    <3>1. Informs(relay'[c])
      BY <2>5, <2>7 DEF Informs
    <3>2. QED
      BY <1>7, <1>8, <3>1
  <2>8. CASE t.socket = "left" /\ t.body = Append(r.body, m)
    <3>1. \A x : Contains(t.body, x) <=> Contains(r.body, x) \/ m = x
      BY <1>2, <2>4, <2>8, ContainsAppend
    <3>2. Promises(r) => Promises(t)
      BY <3>1 DEF Promises
    <3>3. Underway(c) => Underway(c)'
      <4>1. Underway(c) => Promises(r)
        BY <1>8, <2>1, <2>2 DEF Underway, Watching
      <4>2. QED
        BY <1>1, <1>8, <2>5, <3>2, <4>1 DEF Underway, Watching
    <3>4. Hears(c)'
      BY <1>5, <1>8, <2>5, <3>1 DEF Hears, m
    <3>5. ~Quiet(c)
      BY <1>8, <2>1 DEF Quiet
    <3>6. QED
      BY <1>4, <3>3, <3>4, <3>5
  <2>9. QED
    BY <2>6, <2>7, <2>8
<1>9. Gone(c) => ~Watching(c)
  BY DEF Gone, Watching
<1>10. QED
  BY <1>3, <1>6, <1>7, <1>8, <1>9

\* A chunk that is read.
LEMMA ReadSettled ==
  ASSUME StreamInv, Settled, NEW c \in Slot, ReadChunk(c)
  PROVE  Settled'
<1> DEFINE r == relay[c]
           body == r.body
<1>1. /\ Usable(cl) /\ Sound(r) /\ r \in RelayState /\ body \in Seq(Message)
      /\ Followed(r) /\ relay \in [Slot -> RelayState]
  BY DEF StreamInv, Relays, Sound, Steady, RelayState
<1>2. /\ phase[c] = "reading" /\ ~Gone(c) /\ UNCHANGED <<renewing, cut>>
      /\ \E n \in 1..Len(body) :
           LET s == DispatchAll(cl, SubSeq(body, 1, n))
           IN  /\ Set(c, [r EXCEPT !.body = SubSeq(body, n + 1, Len(body))])
               /\ IF HasClosed(SubSeq(body, 1, n))
                  THEN cl' = Forget(s, c) /\ Over(c)
                  ELSE cl' = s /\ UNCHANGED phase
  BY DEF ReadChunk
<1>3. PICK n \in 1..Len(body) :
        LET s == DispatchAll(cl, SubSeq(body, 1, n))
        IN  /\ Set(c, [r EXCEPT !.body = SubSeq(body, n + 1, Len(body))])
            /\ IF HasClosed(SubSeq(body, 1, n))
               THEN cl' = Forget(s, c) /\ Over(c)
               ELSE cl' = s /\ UNCHANGED phase
  BY <1>2
<1> DEFINE chunk == SubSeq(body, 1, n)
           rest == SubSeq(body, n + 1, Len(body))
           s == DispatchAll(cl, chunk)
<1>4. /\ chunk \in Seq(Message) /\ Len(chunk) = n /\ \A i \in 1..n : chunk[i] = body[i]
      /\ \A x : Contains(body, x) <=> Contains(chunk, x) \/ Contains(rest, x)
  BY <1>1, ContainsChunk
<1>5. /\ \A d \in Slot \ {c} : relay'[d] = relay[d]
      /\ relay'[c].body = rest /\ relay'[c].done = r.done /\ relay'[c].socket = r.socket
  BY <1>1, <1>3 DEF Set, RelayState
<1>6. /\ Len(rest) = Len(body) - n /\ Len(body) \in Nat
      /\ \A i \in 1..(Len(body) - n) : rest[i] = body[i + n]
  BY <1>1, BufferedRest, LenProperties
<1>7. cl' = s \/ cl' = Forget(s, c)
  BY <1>3
<1>8. ~HasClosed(chunk) => cl' = s /\ UNCHANGED <<phase, cut>>
  BY <1>2, <1>3
<1> HIDE DEF chunk, rest
<1>9. Usable(s) /\ (Halted(s) \/ HeardAll(cl, s, chunk))
  BY <1>1, <1>4, ChunkHeard
<1> HIDE DEF s
<1>10. Halted(s) => cl'.stopped \/ Armed(cl')
  <2>1. Keeps(s, Forget(s, c))
    BY <1>9, ForgetKeeps DEF Usable
  <2>2. QED
    BY <1>7, <2>1 DEF Keeps, Halted, Armed
<1>11. SUFFICES ASSUME ~cl'.stopped, ~Armed(cl'), renewing' = None,
                       \A d \in Slot : ~Underway(d)'
                PROVE  Settled'
  BY SettledByHalt
<1>12. HeardAll(cl, s, chunk)
  BY <1>9, <1>10, <1>11
<1>13. cl' = s /\ UNCHANGED <<phase, cut>>
  <2>1. \A code \in Code : ~Contains(chunk, Closed(code))
    BY <1>12, MessageKinds DEF HeardAll, Contains
  <2>2. QED
    BY <1>8, <2>1 DEF HasClosed
<1>14. /\ cl'.aborted = cl.aborted
       /\ cl'.seenDeleted <=> cl.seenDeleted \/ Contains(chunk, Frame("deleted"))
       /\ cl'.missed <=> cl.missed /\ ~Contains(chunk, Frame("subscribed"))
       /\ ~Contains(chunk, Frame("unavailable")) /\ ~Contains(chunk, Frame("refused"))
       /\ Contains(chunk, Frame("unsubscribed")) => cl'.seenDeleted
  BY <1>12, <1>13 DEF HeardAll, Contains
<1>15. Watching(c) /\ Watching(c)' /\ \A d \in Slot : Watching(d)' <=> Watching(d)
  BY <1>2, <1>13, <1>14 DEF Watching, Gone
<1>16. ~r.done /\ r.socket \notin {"dialing", "asked"} /\ ~Promises(relay'[c])
  BY <1>5, <1>11, <1>15 DEF Underway, Watching, Promises
<1>17. \A d \in Slot \ {c} : /\ Underway(d)' <=> Underway(d)
                             /\ Quiet(d)' <=> Quiet(d)
                             /\ Hears(d)' <=> Hears(d)
  BY <1>5, <1>13, <1>14, SameSlot
<1>18. CASE Contains(chunk, Frame("subscribed"))
  <2>1. ASSUME ~cl'.seenDeleted
        PROVE  Hears(c)'
    <3>1. PICK i \in 1..n : body[i] = Frame("subscribed")
      BY <1>4, <1>18 DEF Contains
    <3>2. i \in 1..Len(body)
      BY <1>6, <3>1
    <3>3. r.socket = "subscribed" \/ TakenAfter(r, i)
      BY <1>1, <1>16, <3>1, <3>2 DEF Followed
    <3>4. ASSUME TakenAfter(r, i)
          PROVE  Contains(rest, Frame("unsubscribed"))
      <4>1. PICK j \in (i + 1)..Len(body) : body[j] = Frame("unsubscribed")
        BY <3>4 DEF TakenAfter
      <4>2. j \in 1..Len(body)
        BY <1>6, <3>1, <4>1
      <4>3. Contains(body, Frame("unsubscribed"))
        BY <4>1, <4>2 DEF Contains
      <4>4. QED
        BY <1>4, <1>14, <2>1, <4>3
    <3>5. QED
      BY <1>5, <1>15, <3>3, <3>4 DEF Hears
  <2>2. QED
    BY <1>14, <1>18, <2>1 DEF Settled
<1>19. CASE ~Contains(chunk, Frame("subscribed"))
  <2>1. ~Underway(c)
    <3>1. ~Promises(r)
      BY <1>4, <1>5, <1>14, <1>16, <1>19 DEF Promises
    <3>2. QED
      BY <1>15, <1>16, <3>1 DEF Underway, Watching
  <2>2. ~cl.stopped /\ ~Armed(cl)
    <3>1. Keeps(cl, s)
      BY <1>1, <1>4, ChunkHeard DEF s
    <3>2. QED
      BY <1>11, <1>13, <3>1 DEF Keeps, Armed
  <2>3. ~Pending
    BY <1>2, <1>11, <1>17, <2>1, <2>2 DEF Pending
  <2>4. /\ cl.missed => ~cl.seenDeleted /\ \A d \in Slot : Quiet(d)
        /\ ~cl.seenDeleted => \E d \in Slot : Hears(d)
    BY <2>2, <2>3 DEF Settled
  <2>5. ASSUME cl'.missed
        PROVE  ~cl'.seenDeleted /\ \A d \in Slot : Quiet(d)'
    <3>1. cl.missed
      BY <1>14, <2>5
    <3>2. r.socket # "subscribed" /\ ~Contains(body, Frame("deleted"))
      BY <1>15, <2>4, <3>1 DEF Quiet
    <3>3. ~cl'.seenDeleted
      BY <1>4, <1>14, <2>4, <3>1, <3>2
    <3>4. Quiet(c)'
      BY <1>4, <1>5, <3>2 DEF Quiet
    <3>5. QED
      BY <1>17, <2>4, <3>1, <3>3, <3>4
  <2>6. ASSUME ~cl'.seenDeleted
        PROVE  \E d \in Slot : Hears(d)'
    <3>1. PICK d \in Slot : Hears(d)
      BY <1>14, <2>4, <2>6
    <3>2. CASE d = c
      <4>1. r.socket = "subscribed" \/ Contains(rest, Frame("unsubscribed"))
        BY <1>4, <1>14, <2>6, <3>1, <3>2 DEF Hears
      <4>2. QED
        BY <1>5, <1>15, <3>2, <4>1 DEF Hears
    <3>3. CASE d # c
      BY <1>17, <3>1, <3>3
    <3>4. QED
      BY <3>2, <3>3
  <2>7. QED
    BY <2>5, <2>6 DEF Settled
<1>20. QED
  BY <1>18, <1>19

\* A change that is published.
LEMMA PublishSettled ==
  ASSUME StreamInv, DeletedKnown, Settled, Publish
  PROVE  Settled'
<1>1. Relays /\ cl \in Client /\ relay \in [Slot -> RelayState]
      /\ \A c \in Slot : /\ relay[c] \in RelayState /\ Flags(relay[c])
                         /\ relay[c].body \in Seq(Message)
  BY DEF StreamInv, Usable, Relays, Sound, Steady, RelayState
<1>2. UNCHANGED <<phase, renewing, cut>> /\ board = "there"
  BY DEF Publish
<1>3. PICK kind \in {"event", "deleted"} : Deliver(kind)
  BY DEF Publish
<1> DEFINE m == Frame(kind)
           to == {c \in Slot : relay[c].socket = "subscribed"}
           seen == {c \in to : /\ Contains(Write(relay[c], m).body, m)
                               /\ phase[c] = "reading" /\ ~Gone(c)}
<1>4. m \in Message
  BY MessageKinds DEF FrameKind
<1>5. /\ relay' = [c \in Slot |-> IF c \in to THEN Write(relay[c], m) ELSE relay[c]]
      /\ cl' = [cl EXCEPT !.missed = @ \/ seen = {}]
  BY <1>3 DEF Deliver
<1> HIDE DEF m
<1>6. /\ cl'.stopped = cl.stopped /\ cl'.timers = cl.timers /\ cl'.aborted = cl.aborted
      /\ cl'.seenDeleted = cl.seenDeleted /\ (cl'.missed <=> cl.missed \/ seen = {})
  BY <1>1, <1>5 DEF Client
<1>7. \A d \in Slot : Watching(d)' <=> Watching(d)
  BY <1>2, <1>6 DEF Watching
<1>8. ASSUME NEW c \in Slot, relay[c].socket = "subscribed"
      PROVE  \/ relay'[c].done = TRUE
             \/ /\ relay'[c].socket = "subscribed" /\ relay'[c].body = Append(relay[c].body, m)
                /\ relay'[c].done = FALSE
  <2>1. ~relay[c].finished /\ relay[c] \in RelayState /\ Flags(relay[c])
    BY <1>1, <1>8 DEF Flags, RelayState
  <2>2. relay'[c] = Write(relay[c], m)
    BY <1>5, <1>8
  <2>3. QED
    BY <1>4, <1>8, <2>1, <2>2, WriteOutcome
<1>9. \A c \in Slot : relay[c].socket # "subscribed" => relay'[c] = relay[c]
  BY <1>5
<1>10. ASSUME NEW c \in Slot, relay[c].socket = "subscribed"
       PROVE  \/ relay'[c].done = TRUE
              \/ /\ relay'[c].socket = "subscribed"
                 /\ \A x : Contains(relay'[c].body, x) <=> Contains(relay[c].body, x) \/ m = x
  <2> DEFINE body == relay[c].body
  <2>1. body \in Seq(Message)
    BY <1>1
  <2> HIDE DEF body
  <2>2. \A x : Contains(Append(body, m), x) <=> Contains(body, x) \/ m = x
    BY <1>4, <2>1, ContainsAppend
  <2>3. \/ relay'[c].done = TRUE
        \/ relay'[c].socket = "subscribed" /\ relay'[c].body = Append(body, m)
    BY <1>8, <1>10 DEF body
  <2>4. ASSUME relay'[c].body = Append(body, m)
        PROVE  \A x : Contains(relay'[c].body, x) <=> Contains(body, x) \/ m = x
    BY <2>2, <2>4
  <2>5. QED
    BY <2>3, <2>4 DEF body
<1>11. ASSUME NEW c \in Slot, Underway(c)
       PROVE  Underway(c)'
  <2>1. CASE relay[c].socket = "subscribed"
    <3>1. relay'[c].done = TRUE \/ (Promises(relay[c]) => Promises(relay'[c]))
      BY <1>10, <2>1 DEF Promises
    <3>2. relay[c].done = FALSE
      BY <1>1, <2>1 DEF Flags, RelayState
    <3>3. QED
      BY <1>2, <1>6, <1>11, <2>1, <3>1, <3>2 DEF Underway
  <2>2. CASE relay[c].socket # "subscribed"
    BY <1>2, <1>6, <1>9, <1>11, <2>2, SameSlot
  <2>3. QED
    BY <2>1, <2>2
<1>12. SUFFICES ASSUME ~cl'.stopped, ~Armed(cl'), renewing' = None,
                       \A d \in Slot : ~Underway(d)'
                PROVE  Settled'
  BY SettledByHalt
<1>13. ~cl.seenDeleted /\ \A c \in Slot : ~Contains(relay[c].body, Frame("deleted"))
  BY <1>2 DEF DeletedKnown
<1>14. /\ cl.missed => ~cl.seenDeleted /\ \A d \in Slot : Quiet(d)
       /\ ~cl.seenDeleted => \E d \in Slot : Hears(d)
  <2>1. ~cl.stopped /\ ~Pending
    BY <1>2, <1>6, <1>11, <1>12 DEF Pending, Armed
  <2>2. QED
    BY <2>1 DEF Settled
<1>15. ASSUME NEW c \in Slot, Watching(c), relay[c].socket = "subscribed"
       PROVE  c \in seen /\ relay'[c].socket = "subscribed"
              /\ \A x : Contains(relay[c].body, x) => Contains(relay'[c].body, x)
  <2>1. relay'[c].done # TRUE
    BY <1>7, <1>12, <1>15 DEF Underway, Watching
  <2>2. /\ relay'[c].socket = "subscribed" /\ Contains(relay'[c].body, m)
        /\ \A x : Contains(relay[c].body, x) => Contains(relay'[c].body, x)
    BY <1>10, <1>15, <2>1
  <2>3. relay'[c] = Write(relay[c], m)
    BY <1>5, <1>15
  <2>4. phase[c] = "reading" /\ ~Gone(c)
    BY <1>15 DEF Watching, Gone
  <2>5. QED
    BY <1>15, <2>2, <2>3, <2>4
<1>16. ASSUME cl'.missed
       PROVE  ~cl'.seenDeleted /\ \A d \in Slot : Quiet(d)'
  <2>1. \A c \in Slot : Watching(c) => relay[c].socket # "subscribed"
    BY <1>6, <1>14, <1>15, <1>16 DEF Quiet
  <2>2. ASSUME NEW d \in Slot, Watching(d)
        PROVE  relay'[d].socket # "subscribed" /\ ~Contains(relay'[d].body, Frame("deleted"))
    <3>1. relay'[d] = relay[d]
      BY <1>9, <2>1, <2>2
    <3>2. QED
      BY <1>13, <2>1, <2>2, <3>1
  <2>3. \A d \in Slot : Quiet(d)'
    BY <1>7, <2>2 DEF Quiet
  <2>4. QED
    BY <1>6, <1>13, <2>3
<1>17. \E d \in Slot : Hears(d)'
  <2>1. PICK d \in Slot : Hears(d)
    BY <1>13, <1>14
  <2>2. CASE relay[d].socket = "subscribed"
    BY <1>7, <1>15, <2>1, <2>2 DEF Hears
  <2>3. CASE relay[d].socket # "subscribed"
    BY <1>2, <1>6, <1>9, <2>1, <2>3, SameSlot
  <2>4. QED
    BY <2>2, <2>3
<1>18. QED
  BY <1>16, <1>17 DEF Settled

\* Every step settles what it leaves with nothing pending.
LEMMA SettledStep ==
  ASSUME StreamInv, DeletedKnown, Settled, [Next]_vars
  PROVE  Settled'
<1>1. Usable(cl) /\ cl \in Client /\ OthersTyped /\ Relays
      /\ relay \in [Slot -> RelayState]
  BY DEF StreamInv, Usable, Relays
<1>2. Reconnect(TRUE) \in Recovery /\ SignedOutRecovery \in Recovery
  BY RecoveryTyped
<1>3. ASSUME NEW recovery \in Recovery, NEW c \in Slot,
             \/ cl' = Ended(cl, recovery) \/ cl' = Forget(Ended(cl, recovery), c)
      PROVE  Settled'
  <2> DEFINE e == Ended(cl, recovery)
  <2>1. Halted(e) /\ e \in Client
    BY <1>1, EndedHalts
  <2>2. cl' = e \/ cl' = Forget(e, c)
    BY <1>3
  <2> HIDE DEF e
  <2>3. Keeps(e, Forget(e, c))
    BY <2>1, ForgetKeeps
  <2>4. cl'.stopped \/ Armed(cl')
    BY <2>1, <2>2, <2>3 DEF Keeps, Halted, Armed
  <2>5. QED
    BY <2>4, SettledByHalt
<1>4. ASSUME NEW s, Usable(s), Connect(s)
      PROVE  Settled'
  <2>1. CASE s.stopped
    <3>1. cl'.stopped
      BY <2>1, <1>4 DEF Connect
    <3>2. QED
      BY <3>1, SettledByHalt
  <2>2. CASE ~s.stopped
    <3>1. PICK c \in FirstFree :
            cl'.aborted = s.aborted \ {c} /\ phase' = [phase EXCEPT ![c] = "fetching"]
      BY <1>1, <1>4, <2>2, ConnectKeeps
    <3>2. c \in Slot
      BY <3>1 DEF FirstFree
    <3>3. Underway(c)'
      BY <1>1, <3>1, <3>2 DEF Underway, OthersTyped
    <3>4. QED
      BY <3>2, <3>3, SettledByHalt
  <2>3. QED
    BY <2>1, <2>2
<1>5. ASSUME NEW c \in Slot, StreamOpened(c)
      PROVE  Settled'
  <2>1. phase'[c] = "reading" /\ c \notin cl'.aborted
    BY <1>1, <1>5 DEF StreamOpened, OthersTyped, Gone
  <2>2. relay'[c] = Started(FALSE, TRUE) \/ relay'[c] = Started(FALSE, FALSE)
    BY <1>1, <1>5 DEF StreamOpened, Set
  <2>3. Underway(c)'
    BY <2>1, <2>2, StartedSound DEF Underway
  <2>4. QED
    BY <2>3, SettledByHalt
<1>6. ASSUME NEW c \in Slot, StreamUnauthorized(c)
      PROVE  Settled'
  <2>1. renewing' = c \/ cl' = Ended(cl, Reconnect(TRUE))
    BY <1>6 DEF StreamUnauthorized
  <2>2. c # None
    BY RelayNat DEF Slot, None
  <2>3. CASE renewing' = c
    BY <2>2, <2>3, SettledByHalt
  <2>4. CASE cl' = Ended(cl, Reconnect(TRUE))
    BY <1>2, <1>3, <2>4
  <2>5. QED
    BY <2>1, <2>3, <2>4
<1>7. ASSUME NEW c \in Slot, StreamRefused(c)
      PROVE  Settled'
  BY <1>2, <1>3, <1>7 DEF StreamRefused
<1>8. ASSUME NEW c \in Slot, StreamAborted(c) \/ ReadAborted(c)
      PROVE  Settled'
  <2>1. /\ cl' = Forget(cl, c) /\ c \in cl.aborted /\ renewing' = renewing
        /\ phase' = [phase EXCEPT ![c] = "over"] /\ cut' = cut
        /\ \A d \in Slot \ {c} : relay'[d] = relay[d]
    BY <1>1, <1>8 DEF StreamAborted, ReadAborted, Over, Set
  <2>2. /\ cl'.stopped = cl.stopped /\ cl'.timers = cl.timers /\ cl'.missed = cl.missed
        /\ cl'.seenDeleted = cl.seenDeleted /\ cl'.aborted = cl.aborted \ {c}
    BY <1>1, <2>1 DEF Forget, Client
  <2>3. phase'[c] = "over" /\ \A d \in Slot \ {c} : phase'[d] = phase[d] /\ cut'[d] = cut[d]
    BY <1>1, <2>1 DEF OthersTyped
  <2>4. ~Underway(c) /\ Quiet(c)' /\ ~Hears(c)
    BY <2>1, <2>3 DEF Underway, Quiet, Hears, Watching
  <2>5. \A d \in Slot \ {c} : d \in cl'.aborted <=> d \in cl.aborted
    BY <2>2
  <2>6. Armed(cl) => Armed(cl')
    BY <2>2 DEF Armed
  <2>7. QED
    BY <2>1, <2>2, <2>3, <2>4, <2>5, <2>6, SlotSettled
<1>9. ASSUME NEW c \in Slot, ReadOver(c)
      PROVE  Settled'
  <2>1. CASE cl.stopped
    <3>1. cl'.stopped
      BY <1>9, <2>1 DEF ReadOver
    <3>2. QED
      BY <3>1, SettledByHalt
  <2>2. CASE ~cl.stopped
    BY <1>2, <1>3, <1>9, <2>2 DEF ReadOver
  <2>3. QED
    BY <2>1, <2>2
<1>10. ASSUME NEW id \in Timer, TimerFired(id)
       PROVE  Settled'
  <2> DEFINE s == [cl EXCEPT !.timers[id] = "off", !.timer = None]
  <2>1. Usable(s)
    BY <1>1 DEF Usable, Client
  <2>2. renewing' = ByTimer \/ Connect(s)
    BY <1>10 DEF TimerFired
  <2> HIDE DEF s
  <2>3. ByTimer # None
    BY RelayNat DEF ByTimer, None
  <2>4. QED
    BY <1>4, <2>1, <2>2, <2>3, SettledByHalt
<1>11. CASE Renewed
  <2>1. PICK ok \in BOOLEAN :
          \/ renewing = ByTimer /\ RenewedTimer(ok)
          \/ renewing \in Slot /\ RenewedStream(renewing, ok)
    BY <1>11 DEF Renewed
  <2>2. CASE Connect(cl)
    BY <1>1, <1>4, <2>2
  <2>3. CASE cl' = [cl EXCEPT !.stopped = TRUE, !.status = "stopped",
                              !.notice = "signedOut"]
    <3>1. cl'.stopped
      BY <1>1, <2>3 DEF Client
    <3>2. QED
      BY <3>1, SettledByHalt
  <2>4. CASE renewing \in Slot /\ RenewedStream(renewing, ok)
    <3>1. \E recovery \in Recovery : cl' = Forget(Ended(cl, recovery), renewing)
      BY <1>2, <2>4 DEF RenewedStream
    <3>2. QED
      BY <1>3, <2>4, <3>1
  <2>5. QED
    BY <2>1, <2>2, <2>3, <2>4 DEF RenewedTimer
<1>12. CASE Unmount
  <2>1. cl'.stopped
    BY <1>1, <1>12 DEF Unmount, Client
  <2>2. QED
    BY <2>1, SettledByHalt
<1>13. ASSUME NEW c \in Slot, Cut(c)
       PROVE  Settled'
  <2> DEFINE gap == ~Gone(c) /\ UnreadEvents(c)
  <2>1. /\ UNCHANGED <<relay, phase, renewing>>
        /\ cut' = [cut EXCEPT ![c] = TRUE] /\ ~cut[c]
        /\ cl' = [cl EXCEPT !.missed = @ \/ gap]
        /\ phase[c] \in {"fetching", "reading"} \/ Gone(c)
    BY <1>13 DEF Cut
  <2>2. gap \in BOOLEAN /\ (Gone(c) => ~gap)
    OBVIOUS
  <2> HIDE DEF gap
  <2>3. /\ cut'[c] /\ \A d \in Slot \ {c} : cut'[d] = cut[d]
        /\ cl'.stopped = cl.stopped /\ cl'.seenDeleted = cl.seenDeleted
        /\ cl'.aborted = cl.aborted /\ cl'.timers = cl.timers
        /\ cl'.missed = (cl.missed \/ gap)
    BY <1>1, <2>1 DEF OthersTyped, Client
  <2>4. CASE c \notin cl.aborted /\ phase[c] \in {"fetching", "reading"}
    <3>1. Underway(c)'
      BY <2>1, <2>3, <2>4 DEF Underway
    <3>2. QED
      BY <3>1, SettledByHalt
  <2>5. CASE c \in cl.aborted \/ phase[c] = "over"
    <3>1. ~Underway(c) /\ Quiet(c)' /\ ~Hears(c)
      BY <2>1, <2>3, <2>5 DEF Underway, Quiet, Hears, Watching
    <3>2. ~gap
      BY <2>2, <2>5 DEF Gone
    <3>3. Armed(cl) => Armed(cl')
      BY <2>3 DEF Armed
    <3>4. QED
      BY <2>1, <2>3, <3>1, <3>2, <3>3, SlotSettled
  <2>6. QED
    BY <2>1, <2>4, <2>5 DEF Gone
<1>14. CASE TokenExpires \/ SessionEnds \/ AccessEnds \/ UNCHANGED vars
  <2>1. UNCHANGED <<relay, cl, phase, renewing, cut>>
    BY <1>14 DEF TokenExpires, SessionEnds, AccessEnds, vars, clientVars
  <2>2. QED
    BY <2>1 DEF Settled, Pending, Armed, Underway, Promises, Quiet, Hears, Watching
<1>15. QED
  BY <1>5, <1>6, <1>7, <1>8, <1>9, <1>10, <1>11, <1>12, <1>13, <1>14,
     ReadSettled, ServerSettled, PublishSettled DEF Next, ClientStep

\* The stream starts with a request under way.
LEMMA SettledInit ==
  ASSUME Init
  PROVE  Settled /\ DeletedKnown
<1>1. 1 \in Slot
  BY RelayNat DEF Slot
<1>2. Underway(1)
  BY <1>1 DEF Init, Underway
<1>3. Settled
  BY <1>1, <1>2 DEF Settled, Pending
<1>4. DeletedKnown
  BY EmptyBody DEF Init, DeletedKnown, Unused, Contains
<1>5. QED
  BY <1>3, <1>4

(* BoardStream.MissedIsOwed for every instance.  With nothing pending, Settled finds
   the slot that still speaks to the screen: not subscribed, so its body holds the
   `unsubscribed` whose reading ends the stream. *)
THEOREM StreamMissedIsOwed == Spec => []MissedIsOwed
<1> DEFINE Strong == StreamInv /\ DeletedKnown /\ Settled
<1>1. Init => Strong
  BY InitInv, SettledInit
<1>2. Strong /\ [Next]_vars => Strong'
  BY InvStep, DeletedStep, SettledStep
<1>3. Strong => MissedIsOwed
  <2>1. SUFFICES ASSUME Strong, cl.missed, ~cl.stopped
                 PROVE  \/ \E id \in Timer : cl.timers[id] # "off"
                        \/ renewing # None
                        \/ \E c \in Slot : phase[c] = "fetching" \/ Owed(c)
    BY DEF MissedIsOwed
  <2>2. {"subscribed", "unavailable", "refused", "unsubscribed"}
          \subseteq FrameKind \ {"event", "deleted"}
    BY DEF FrameKind
  <2>3. \A c \in Slot : Underway(c) => phase[c] = "fetching" \/ Owed(c)
    BY <2>2 DEF Underway, Owed, Promises
  <2>4. CASE Pending
    BY <2>3, <2>4 DEF Pending, Armed
  <2>5. CASE ~Pending
    <3>1. PICK c \in Slot : Hears(c) /\ Quiet(c)
      BY <2>1, <2>5 DEF Settled
    <3>2. Owed(c)
      BY <2>2, <3>1 DEF Hears, Quiet, Watching, Owed
    <3>3. QED
      BY <3>2
  <2>6. QED
    BY <2>4, <2>5
<1> HIDE DEF Strong
<1>4. QED
  BY <1>1, <1>2, <1>3, PTL DEF Spec

=============================================================================
