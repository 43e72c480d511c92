------------------------------ MODULE Sessions ------------------------------
(***************************************************************************)
(* Refresh tokens (apps/api/internal/auth/session.go) and the requests     *)
(* that use them (Login, Refresh, Logout and SwitchOrganization of         *)
(* service.go), served concurrently by any number of API processes over    *)
(* one Redis.                                                              *)
(*                                                                         *)
(* Each step is one Redis command, because that is all that is atomic: a   *)
(* session is a record per token and one pointer to its current token, and *)
(* a handler reads and writes them one after the other.  Any command may   *)
(* fail, a write with or without having been applied.                      *)
(*                                                                         *)
(* Tokens are numbered in the order their records are written, sessions in *)
(* the order they are issued.                                              *)
(***************************************************************************)
EXTENDS Naturals, FiniteSets

CONSTANTS
    Proc,           \* requests in flight at once
    MaxSessions,    \* bound: sessions ever issued
    MaxTokens,      \* bound: tokens ever minted
    Faults          \* may a Redis command fail?

ASSUME SessionBounds == MaxSessions \in Nat /\ MaxTokens \in Nat
ASSUME FaultsBool == Faults \in BOOLEAN

Session == 1..MaxSessions
Token == 1..MaxTokens
Nothing == 0        \* no such key, no such session

VARIABLES
    record,     \* auth:refresh:<sha256 of the token> -> the session, or Nothing
    pointer,    \* auth:session:<id> -> the current token's key, or Nothing
    minted,     \* how many tokens have been minted
    issued,     \* how many sessions have been issued
    member,     \* sessions whose organization membership still stands
    handed,     \* tokens an answer has carried to a client
    used,       \* history: tokens exchanged by a refresh that was answered
    over,       \* history: sessions revoked while no rotation was under way
    pc,         \* per request: the next command
    job         \* per request: its locals

store == <<record, pointer>>
history == <<handed, used, over>>
vars == <<record, pointer, minted, issued, member, handed, used, over, pc, job>>

\* op, the token presented, the session concerned, the token minted for it,
\* the pointer RevokeSession read, the session it revokes; and, for history,
\* whether the session's membership had ended, and whether the token had been
\* exchanged by an answered refresh, before the request began.
Job == [op : {"login", "refresh", "logout", "switch"},
        token : Token \cup {Nothing}, session : Session \cup {Nothing},
        fresh : Token \cup {Nothing}, current : Token \cup {Nothing},
        revokes : Session \cup {Nothing}, late : BOOLEAN, again : BOOLEAN]

NoJob == [op |-> "login", token |-> Nothing, session |-> Nothing,
          fresh |-> Nothing, current |-> Nothing, revokes |-> Nothing,
          late |-> FALSE, again |-> FALSE]

Reads == {"getRecord", "getPointer", "members", "getRevoked"}
Writes == {"setRecord", "setPointer", "delRevoked", "delPresented", "delLogout"}
Answers == {"ok", "unknown", "reused", "notMember", "error"}

TypeOK ==
    /\ record \in [Token -> Session \cup {Nothing}]
    /\ pointer \in [Session -> Token \cup {Nothing}]
    /\ minted \in 0..MaxTokens
    /\ issued \in 0..MaxSessions
    /\ member \in SUBSET Session
    /\ handed \in SUBSET Token
    /\ used \in SUBSET Token
    /\ over \in SUBSET Session
    /\ pc \in [Proc -> {"idle"} \cup Reads \cup Writes \cup Answers]
    /\ job \in [Proc -> Job]

Init ==
    /\ record = [t \in Token |-> Nothing]
    /\ pointer = [s \in Session |-> Nothing]
    /\ minted = 0
    /\ issued = 0
    /\ member = Session
    /\ handed = {}
    /\ used = {}
    /\ over = {}
    /\ pc = [p \in Proc |-> "idle"]
    /\ job = [p \in Proc |-> NoJob]

Goto(p, label) == pc' = [pc EXCEPT ![p] = label]

\* A write was applied; the handler learns so, or times out waiting for it.
Wrote(p, label) ==
    \/ Goto(p, label)
    \/ Faults /\ Goto(p, "error")

\* A rotation of s, or its first issue, that is past its lookup: it will write
\* the pointer whatever happens to the session meanwhile.
Minting(s) == \E p \in Proc : pc[p] \in {"setRecord", "setPointer"} /\ job[p].session = s

\* A revocation of s takes effect: for good, unless it races with such a
\* rotation.
Ends(s) == over' = IF Minting(s) THEN over ELSE over \cup {s}

-----------------------------------------------------------------------------
(* Requests begin. *)

Begin(p, label, change) ==
    /\ pc[p] = "idle"
    /\ Goto(p, label)
    /\ job' = [job EXCEPT ![p] = change]
    /\ UNCHANGED <<store, minted, member, history>>

\* startSession for a verified member of an organization.
Login(p) ==
    /\ issued < MaxSessions
    /\ issued + 1 \in member
    /\ issued' = issued + 1
    /\ Begin(p, "setRecord", [NoJob EXCEPT !.session = issued'])

\* SwitchOrganization: a session in the other organization, replacing one the
\* caller's access token names, which may long be over.
Switch(p, old) ==
    /\ old \in 1..issued
    /\ issued < MaxSessions
    /\ issued + 1 \in member
    /\ issued' = issued + 1
    /\ Begin(p, "setRecord",
             [NoJob EXCEPT !.op = "switch", !.session = issued', !.revokes = old])

Refresh(p, t) ==
    /\ t \in handed
    /\ Begin(p, "getRecord", [NoJob EXCEPT !.op = "refresh", !.token = t,
                                       !.again = t \in used])
    /\ UNCHANGED issued

Logout(p, t) ==
    /\ t \in handed
    /\ Begin(p, "getRecord", [NoJob EXCEPT !.op = "logout", !.token = t])
    /\ UNCHANGED issued

-----------------------------------------------------------------------------
(* SessionStore.lookup *)

GetRecord(p) ==
    LET s == record[job[p].token] IN
    /\ pc[p] = "getRecord"
    /\ Goto(p, IF s = Nothing THEN "unknown" ELSE "getPointer")
    /\ job' = [job EXCEPT ![p].session = s, ![p].late = s # Nothing /\ s \notin member]
    /\ UNCHANGED <<store, minted, issued, member, history>>

\* Mutant of GetPointer: does not compare the pointer with the presented token.
GetPointerUnchecked(p) ==
    LET s == job[p].session IN
    /\ pc[p] = "getPointer"
    /\ \/ pointer[s] = Nothing /\ Goto(p, "unknown") /\ UNCHANGED job
       \/ /\ pointer[s] # Nothing
          /\ Goto(p, IF job[p].op = "logout" THEN "delLogout" ELSE "setRecord")
          /\ UNCHANGED job
    /\ UNCHANGED <<store, minted, issued, member, history>>

\* Mutant of GetPointer: a record that survived its pointer is taken as valid.
GetPointerAbsent(p) ==
    LET s == job[p].session IN
    /\ pc[p] = "getPointer"
    /\ \/ /\ pointer[s] \in {Nothing, job[p].token}
          /\ Goto(p, IF job[p].op = "logout" THEN "delLogout" ELSE "setRecord")
          /\ UNCHANGED job
       \/ /\ pointer[s] \notin {Nothing, job[p].token}
          /\ Goto(p, "getRevoked")
          /\ job' = [job EXCEPT ![p].revokes = s]
    /\ UNCHANGED <<store, minted, issued, member, history>>

\* Absent: revoked.  Ours: the caller goes on.  Another's: reuse, so
\* RevokeSession and then the presented record.
GetPointer(p) ==
    LET s == job[p].session IN
    /\ pc[p] = "getPointer"
    /\ \/ pointer[s] = Nothing /\ Goto(p, "unknown") /\ UNCHANGED job
       \/ /\ pointer[s] = job[p].token
          /\ Goto(p, IF job[p].op = "logout" THEN "delLogout" ELSE "setRecord")
          /\ UNCHANGED job
       \/ /\ pointer[s] \notin {Nothing, job[p].token}
          /\ Goto(p, "getRevoked")
          /\ job' = [job EXCEPT ![p].revokes = s]
    /\ UNCHANGED <<store, minted, issued, member, history>>

(* SessionStore.mint *)

\* Mutant of SetRecord: stores the key under itself.
SetRecordOfKey(p) ==
    /\ pc[p] = "setRecord"
    /\ minted < MaxTokens
    /\ minted' = minted + 1
    /\ record' = [record EXCEPT ![minted'] = minted']
    /\ job' = [job EXCEPT ![p].fresh = minted']
    /\ Wrote(p, "setPointer")
    /\ UNCHANGED <<pointer, issued, member, history>>

SetRecord(p) ==
    /\ pc[p] = "setRecord"
    /\ minted < MaxTokens
    /\ minted' = minted + 1
    /\ record' = [record EXCEPT ![minted'] = job[p].session]
    /\ job' = [job EXCEPT ![p].fresh = minted']
    /\ Wrote(p, "setPointer")
    /\ UNCHANGED <<pointer, issued, member, history>>

\* Rotate returns to Refresh, which re-checks the membership; Issue returns to
\* startSession, which revokes the session it replaces, if any.
SetPointer(p) ==
    /\ pc[p] = "setPointer"
    /\ pointer' = [pointer EXCEPT ![job[p].session] = job[p].fresh]
    /\ Wrote(p, CASE job[p].op = "refresh" -> "members"
                  [] job[p].op = "switch" -> "getRevoked"
                  [] OTHER -> "ok")
    /\ UNCHANGED <<record, minted, issued, member, history, job>>

\* Mutant of Members: the membership is not re-checked.
MembersUnchecked(p) ==
    LET s == job[p].session IN
    /\ pc[p] = "members"
    /\ Goto(p, "ok")
    /\ job' = [job EXCEPT ![p].revokes = IF s \in member THEN Nothing ELSE s]
    /\ UNCHANGED <<store, minted, issued, member, history>>

\* Service.Refresh: the membership that justified the session may be gone.
Members(p) ==
    LET s == job[p].session IN
    /\ pc[p] = "members"
    /\ Goto(p, IF s \in member THEN "ok" ELSE "getRevoked")
    /\ job' = [job EXCEPT ![p].revokes = IF s \in member THEN Nothing ELSE s]
    /\ UNCHANGED <<store, minted, issued, member, history>>

(* SessionStore.RevokeSession, for whichever caller. *)

\* What follows it: lookup deletes the presented record, Refresh answers that
\* the membership is gone, SwitchOrganization answers with its new session.
AfterRevoke(p) ==
    CASE job[p].op = "switch" -> "ok"
      [] job[p].op = "refresh" /\ job[p].fresh # Nothing -> "notMember"
      [] OTHER -> "delPresented"

\* Where a failure inside it leads: SwitchOrganization logs it, and Refresh
\* reports reuse whether or not the revocation went through.
Abandoned(p) ==
    CASE job[p].op = "switch" -> "ok"
      [] job[p].op = "refresh" /\ job[p].fresh # Nothing -> "error"
      [] OTHER -> "reused"

GetRevoked(p) ==
    LET s == job[p].revokes IN
    /\ pc[p] = "getRevoked"
    /\ IF pointer[s] = Nothing
       THEN Goto(p, AfterRevoke(p)) /\ Ends(s)
       ELSE Goto(p, "delRevoked") /\ UNCHANGED over
    /\ job' = [job EXCEPT ![p].current = pointer[s]]
    /\ UNCHANGED <<store, minted, issued, member, handed, used>>

\* Mutant of DelRevoked: deletes the token and leaves the pointer.
DelRevokedRecord(p) ==
    LET s == job[p].revokes IN
    /\ pc[p] = "delRevoked"
    /\ record' = [record EXCEPT ![job[p].current] = Nothing]
    /\ Ends(s)
    /\ \/ Goto(p, AfterRevoke(p))
       \/ Faults /\ Goto(p, Abandoned(p))
    /\ UNCHANGED <<pointer, minted, issued, member, handed, used, job>>

DelRevoked(p) ==
    LET s == job[p].revokes IN
    /\ pc[p] = "delRevoked"
    /\ record' = [record EXCEPT ![job[p].current] = Nothing]
    /\ pointer' = [pointer EXCEPT ![s] = Nothing]
    /\ Ends(s)
    /\ \/ Goto(p, AfterRevoke(p))
       \/ Faults /\ Goto(p, Abandoned(p))
    /\ UNCHANGED <<minted, issued, member, handed, used, job>>

DelPresented(p) ==
    /\ pc[p] = "delPresented"
    /\ record' = [record EXCEPT ![job[p].token] = Nothing]
    /\ Goto(p, "reused")
    /\ UNCHANGED <<pointer, minted, issued, member, history, job>>

\* SessionStore.Revoke: both keys in one command.
DelLogout(p) ==
    LET s == job[p].session IN
    /\ pc[p] = "delLogout"
    /\ record' = [record EXCEPT ![job[p].token] = Nothing]
    /\ pointer' = [pointer EXCEPT ![s] = Nothing]
    /\ Ends(s)
    /\ Wrote(p, "ok")
    /\ UNCHANGED <<minted, issued, member, handed, used, job>>

\* A command fails and was not applied.
Fail(p) ==
    /\ Faults
    /\ pc[p] \in Reads \cup Writes
    /\ Goto(p, IF pc[p] \in {"getRevoked", "delRevoked", "delPresented"}
               THEN Abandoned(p)
               ELSE "error")
    /\ UNCHANGED <<store, minted, issued, member, history, job>>

-----------------------------------------------------------------------------
(* Answers.  A new token reaches the client, or the answer is lost. *)

Carries(p) == pc[p] = "ok" /\ job[p].op # "logout"

Answer(p) ==
    /\ pc[p] \in Answers
    /\ IF Carries(p)
       THEN \/ handed' = handed \cup {job[p].fresh}
            \/ UNCHANGED handed
       ELSE UNCHANGED handed
    /\ used' = IF Carries(p) /\ job[p].op = "refresh"
               THEN used \cup {job[p].token}
               ELSE used
    /\ Goto(p, "idle")
    /\ job' = [job EXCEPT ![p] = NoJob]
    /\ UNCHANGED <<store, minted, issued, member, over>>

(* Time and the database.  Every key has the same ttl and a record is written
   before its pointer, so keys expire in the order they were written. *)

ExpireRecord(t) ==
    /\ record[t] # Nothing
    /\ \A u \in 1..(t - 1) : record[u] = Nothing
    /\ record' = [record EXCEPT ![t] = Nothing]
    /\ UNCHANGED <<pointer, minted, issued, member, history, pc, job>>

ExpirePointer(s) ==
    /\ pointer[s] # Nothing
    /\ record[pointer[s]] = Nothing
    /\ pointer' = [pointer EXCEPT ![s] = Nothing]
    /\ UNCHANGED <<record, minted, issued, member, history, pc, job>>

RemoveMember(s) ==
    /\ s \in member
    /\ member' = member \ {s}
    /\ UNCHANGED <<store, minted, issued, history, pc, job>>

Next ==
    \/ \E p \in Proc :
        \/ Login(p)
        \/ \E s \in Session : Switch(p, s)
        \/ \E t \in Token : Refresh(p, t) \/ Logout(p, t)
        \/ GetRecord(p) \/ GetPointer(p) \/ SetRecord(p) \/ SetPointer(p)
        \/ Members(p) \/ GetRevoked(p) \/ DelRevoked(p) \/ DelPresented(p)
        \/ DelLogout(p) \/ Fail(p) \/ Answer(p)
    \/ \E t \in Token : ExpireRecord(t)
    \/ \E s \in Session : ExpirePointer(s) \/ RemoveMember(s)

Spec == Init /\ [][Next]_vars

-----------------------------------------------------------------------------
(* What the session store promises. *)

\* "a session cannot outlive its own token and leave an unrevocable pointer
\* behind" (mint): whatever rotations, revocations and failures interleave, a
\* session's pointer leads to a record of that session, unless every key that
\* old has expired.
UsablePointer ==
    \A s \in Session : pointer[s] # Nothing =>
        \/ record[pointer[s]] = s
        \/ \A t \in 1..pointer[s] : record[t] = Nothing

\* Rotation detects reuse (lookup): once a refresh of a token has been
\* answered with a new one, no request that begins later exchanges it again.
NoLaterUse ==
    \A p \in Proc : (pc[p] = "ok" /\ job[p].op = "refresh") => ~job[p].again

\* Service.Refresh re-checks the membership: a refresh that begins after the
\* membership ended is never answered with tokens.
MembershipRechecked ==
    \A p \in Proc : (pc[p] = "ok" /\ job[p].op = "refresh") => ~job[p].late

\* A revocation (logout, reuse, lost membership, replacement) that no rotation
\* of the session overlaps is final: nothing ever makes one of the session's
\* tokens current again.  One that a rotation does overlap can be undone by it:
\* mint writes the pointer whether or not the session still exists.
RevokedStaysRevoked ==
    \A s \in Session : s \in over => pointer[s] = Nothing
=============================================================================
