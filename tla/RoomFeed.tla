------------------------------ MODULE RoomFeed ------------------------------
(***************************************************************************)
(* What a room promises the connections watching it, with no buffers,      *)
(* goroutines or sockets: one log of events; a watcher receives, in order  *)
(* and without a gap, the events logged after it entered; it may be cut    *)
(* off at any point, and then receives nothing more.  It is never merely   *)
(* skipped.                                                                *)
(***************************************************************************)
EXTENDS Naturals, Sequences

CONSTANTS Conn, Event

VARIABLES
    log,        \* the events of the room in the order the process saw them
    place,      \* where each connection stands
    from, upto, \* the window of the log it is entitled to
    got         \* what it has received

feedVars == <<log, place, from, upto, got>>

Init ==
    /\ log = <<>>
    /\ place = [c \in Conn |-> "away"]
    /\ from = [c \in Conn |-> 0]
    /\ upto = [c \in Conn |-> 0]
    /\ got = [c \in Conn |-> <<>>]

Log(e) ==
    /\ log' = Append(log, e)
    /\ UNCHANGED <<place, from, upto, got>>

Enter(c) ==
    /\ place[c] = "away"
    /\ place' = [place EXCEPT ![c] = "watching"]
    /\ from' = [from EXCEPT ![c] = Len(log)]
    /\ UNCHANGED <<log, upto, got>>

Leave(c) ==
    /\ place[c] = "watching"
    /\ place' = [place EXCEPT ![c] = "left"]
    /\ upto' = [upto EXCEPT ![c] = Len(log)]
    /\ UNCHANGED <<log, from, got>>

\* The next event of the window: never another one, never one twice.
Receive(c) ==
    LET next == from[c] + Len(got[c]) + 1 IN
    /\ \/ place[c] = "watching" /\ next <= Len(log)
       \/ place[c] = "left" /\ next <= upto[c]
    /\ got' = [got EXCEPT ![c] = Append(@, log[next])]
    /\ UNCHANGED <<log, place, from, upto>>

\* A connection that is cut is entitled to nothing: its window is forgotten.
Cut(c) ==
    /\ place[c] # "cut"
    /\ place' = [place EXCEPT ![c] = "cut"]
    /\ from' = [from EXCEPT ![c] = 0]
    /\ upto' = [upto EXCEPT ![c] = 0]
    /\ UNCHANGED <<log, got>>

Next ==
    \/ \E e \in Event : Log(e)
    \/ \E c \in Conn : Enter(c) \/ Leave(c) \/ Receive(c) \/ Cut(c)

Spec == Init /\ [][Next]_feedVars
=============================================================================
