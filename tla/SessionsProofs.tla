--------------------------- MODULE SessionsProofs ---------------------------
(***************************************************************************)
(* Theorems about module Sessions, for any requests in flight, any number  *)
(* of sessions and tokens, with or without failures.                       *)
(***************************************************************************)
EXTENDS Sessions, TLAPS

(* The parts of the invariant. *)

Presents(p) == job[p].op \in {"refresh", "logout"}

\* No session's current token.
Dead(t) == \A s \in Session : pointer[s] # t

\* What a request's locals hold where it uses them.
Locals ==
    \A p \in Proc :
        /\ Presents(p) => job[p].token \in handed
        /\ pc[p] \in {"getRecord", "getPointer", "delPresented", "delLogout"} => Presents(p)
        /\ pc[p] = "members" => job[p].op = "refresh"
        /\ pc[p] = "delLogout" => job[p].op = "logout"
        /\ pc[p] \in {"getRevoked", "delRevoked"} =>
            /\ job[p].op # "login"
            /\ job[p].revokes \in 1..issued
        /\ pc[p] \in {"getPointer", "setRecord", "setPointer", "members", "delLogout"} =>
            job[p].session \in 1..issued
        /\ (pc[p] \in {"setRecord", "setPointer"} /\ job[p].op = "switch") =>
            job[p].revokes \in 1..issued
        /\ (pc[p] \in {"setPointer", "members"}
            \/ (pc[p] \in {"getRevoked", "delRevoked"} /\ job[p].op = "switch")
            \/ (pc[p] = "ok" /\ job[p].op # "logout")) => job[p].fresh # Nothing
        /\ pc[p] = "delRevoked" => job[p].current \in 1..minted

\* Only minted tokens and issued sessions are in the store or with a client.
Numbered ==
    /\ \A s \in Session : pointer[s] <= minted
    /\ \A t \in Token : record[t] # Nothing => (t <= minted /\ record[t] <= issued)
    /\ \A t \in handed : t <= minted
    /\ used \subseteq handed

\* A token being minted is this request's alone until the request is answered.
Fresh ==
    /\ \A p \in Proc : job[p].fresh <= minted /\ job[p].fresh \notin handed
    /\ \A p, q \in Proc :
        (p # q /\ job[p].fresh = job[q].fresh) => job[p].fresh = Nothing
    /\ \A p \in Proc : pc[p] = "setPointer" => Dead(job[p].fresh)

\* A token is the current one of at most one session, and what lookup and
\* RevokeSession have read of it stays true for all the others.
Owned ==
    /\ \A r, s \in Session : (r # s /\ pointer[r] = pointer[s]) => pointer[r] = Nothing
    /\ \A p \in Proc : pc[p] = "delRevoked" =>
        /\ \A s \in Session : s # job[p].revokes => pointer[s] # job[p].current
        /\ \A q \in Proc : pc[q] = "setPointer" => job[q].fresh # job[p].current
    /\ \A p \in Proc :
        (Presents(p) /\ pc[p] \in {"getPointer", "setRecord", "setPointer", "delLogout"}) =>
            \A s \in Session : s # job[p].session => pointer[s] # job[p].token
    /\ \A p \in Proc :
        (Presents(p) /\ pc[p] \in {"members", "getRevoked", "delRevoked", "delPresented", "ok"})
            => Dead(job[p].token)

\* The record of t is still there for s, or has had the time to expire.
Lasts(t, s) == record[t] = s \/ \A u \in 1..t : record[u] = Nothing

Usable ==
    /\ \A s \in Session : pointer[s] # Nothing => Lasts(pointer[s], s)
    /\ \A p \in Proc : pc[p] = "setPointer" => Lasts(job[p].fresh, job[p].session)

Revoked == \A s \in over : s <= issued /\ pointer[s] = Nothing /\ ~Minting(s)

Later ==
    /\ \A t \in used : Dead(t)
    /\ \A p \in Proc : job[p].again => job[p].token \in used
    /\ \A p \in Proc :
        (job[p].op = "refresh" /\ pc[p] \in {"setRecord", "setPointer", "members", "ok"})
            => ~job[p].again

Rechecked ==
    \A p \in Proc :
        /\ job[p].late => job[p].session \notin member
        /\ (pc[p] = "ok" /\ job[p].op = "refresh") => ~job[p].late

\* The inductive invariant.
SInv == TypeOK /\ Locals /\ Numbered /\ Fresh /\ Owned /\ Usable /\ Revoked
            /\ Later /\ Rechecked

-----------------------------------------------------------------------------
(* What the invariant says of one request. *)

USE SessionBounds, FaultsBool DEF Token, Session, Nothing, store, history, Goto, Presents, Dead

\* A request's locals, as members of the sets they are drawn from.
LEMMA LocalsTyped ==
  ASSUME SInv, NEW p \in Proc
  PROVE  /\ job[p] \in Job
         /\ job[p].token \in 0..MaxTokens /\ job[p].session \in 0..MaxSessions
         /\ job[p].fresh \in 0..MaxTokens /\ job[p].revokes \in 0..MaxSessions
         /\ job[p].current \in 0..MaxTokens
         /\ job[p].op \in {"login", "refresh", "logout", "switch"}
         /\ job[p].late \in BOOLEAN /\ job[p].again \in BOOLEAN
         /\ Presents(p) => job[p].token \in Token
         /\ job[p].session \in 1..issued => job[p].session \in Session
         /\ job[p].revokes \in 1..issued => job[p].revokes \in Session
<1>1. job[p] \in Job /\ issued \in 0..MaxSessions /\ handed \subseteq Token
  BY DEF SInv, TypeOK
<1>2. Presents(p) => job[p].token \in handed
  BY DEF SInv, Locals
<1>3. QED
  BY <1>1, <1>2 DEF Job

\* Deleting records keeps Lasts for any token whose own record is left alone,
\* or none of whose elders is left.
LEMMA LastsKept ==
  ASSUME SInv, NEW t \in 0..MaxTokens, NEW s \in Session, Lasts(t, s),
         \A u \in Token : record'[u] = record[u] \/ record'[u] = Nothing,
         \/ t = Nothing \/ record'[t] = record[t]
         \/ \A u \in 1..t : record'[u] = Nothing
  PROVE  Lasts(t, s)'
  BY DEF Lasts

-----------------------------------------------------------------------------
(* Each action keeps each part of the invariant: requests begin. *)

LEMMA LoginKeeps ==
  ASSUME SInv, NEW p \in Proc, Login(p)
  PROVE  SInv'
<1> USE DEF Login, Begin, NoJob
<1>1. TypeOK'
  <2>1. job' \in [Proc -> Job]
    BY DEF SInv, TypeOK, Job
  <2>2. QED
    BY <2>1 DEF SInv, TypeOK, Writes
<1>2. Locals'
  BY DEF SInv, Locals, TypeOK
<1>3. Numbered'
  BY DEF SInv, Numbered, TypeOK
<1>4. Fresh'
  BY DEF SInv, Fresh, TypeOK
<1>5. Owned'
  BY DEF SInv, Owned, TypeOK
<1>6. Usable'
  BY DEF SInv, Usable, Lasts
<1>7. Revoked'
  BY DEF SInv, Revoked, TypeOK, Minting
<1>8. Later'
  BY DEF SInv, Later, TypeOK
<1>9. Rechecked'
  BY DEF SInv, Rechecked
<1>10. QED
  BY <1>1, <1>2, <1>3, <1>4, <1>5, <1>6, <1>7, <1>8, <1>9 DEF SInv

LEMMA SwitchKeeps ==
  ASSUME SInv, NEW p \in Proc, NEW old \in Session, Switch(p, old)
  PROVE  SInv'
<1> USE DEF Switch, Begin, NoJob
<1>1. TypeOK'
  <2>1. job' \in [Proc -> Job]
    BY DEF SInv, TypeOK, Job
  <2>2. QED
    BY <2>1 DEF SInv, TypeOK, Writes
<1>2. Locals'
  BY DEF SInv, Locals, TypeOK
<1>3. Numbered'
  BY DEF SInv, Numbered, TypeOK
<1>4. Fresh'
  BY DEF SInv, Fresh, TypeOK
<1>5. Owned'
  BY DEF SInv, Owned, TypeOK
<1>6. Usable'
  BY DEF SInv, Usable, Lasts
<1>7. Revoked'
  BY DEF SInv, Revoked, TypeOK, Minting
<1>8. Later'
  BY DEF SInv, Later, TypeOK
<1>9. Rechecked'
  BY DEF SInv, Rechecked
<1>10. QED
  BY <1>1, <1>2, <1>3, <1>4, <1>5, <1>6, <1>7, <1>8, <1>9 DEF SInv

LEMMA RefreshKeeps ==
  ASSUME SInv, NEW p \in Proc, NEW t \in Token, Refresh(p, t)
  PROVE  SInv'
<1>1. job \in [Proc -> Job]
  BY DEF SInv, TypeOK
<1>2. NoJob \in Job
  BY DEF NoJob, Job
<1>3. ASSUME NEW b \in BOOLEAN
      PROVE  [NoJob EXCEPT !.op = "refresh", !.token = t, !.again = b] \in Job
  BY <1>2 DEF Job
<1>4. (t \in used) \in BOOLEAN
  OBVIOUS
<1>5. job' \in [Proc -> Job]
  BY <1>1, <1>3, <1>4 DEF Refresh, Begin
<1>6. /\ \A q \in Proc : q # p => job'[q] = job[q] /\ pc'[q] = pc[q]
      /\ job'[p].op = "refresh" /\ job'[p].token = t /\ job'[p].again = (t \in used)
      /\ pc'[p] = "getRecord"
      /\ UNCHANGED <<store, minted, issued, member, handed, used, over>>
  BY DEF SInv, TypeOK, Refresh, Begin, NoJob
<1>7. TypeOK'
  BY <1>5, <1>6 DEF SInv, TypeOK, Refresh, Begin, Reads
<1>8. Later'
  BY <1>6 DEF SInv, Later
<1> USE DEF Refresh, Begin, NoJob
<1>9. Locals'
  BY DEF SInv, Locals, TypeOK
<1>10. Numbered'
  BY DEF SInv, Numbered
<1>11. Fresh'
  BY DEF SInv, Fresh, TypeOK
<1>12. Owned'
  BY DEF SInv, Owned
<1>13. Usable'
  BY DEF SInv, Usable, Lasts
<1>14. Revoked'
  BY DEF SInv, Revoked, Minting
<1>15. Rechecked'
  BY DEF SInv, Rechecked
<1>16. QED
  BY <1>7, <1>8, <1>9, <1>10, <1>11, <1>12, <1>13, <1>14, <1>15 DEF SInv

LEMMA LogoutKeeps ==
  ASSUME SInv, NEW p \in Proc, NEW t \in Token, Logout(p, t)
  PROVE  SInv'
<1> USE DEF Logout, Begin, NoJob
<1>1. TypeOK'
  <2>1. job' \in [Proc -> Job]
    BY DEF SInv, TypeOK, Job
  <2>2. QED
    BY <2>1 DEF SInv, TypeOK, Reads
<1>2. Locals'
  BY DEF SInv, Locals, TypeOK
<1>3. Numbered'
  BY DEF SInv, Numbered
<1>4. Fresh'
  BY DEF SInv, Fresh, TypeOK
<1>5. Owned'
  BY DEF SInv, Owned
<1>6. Usable'
  BY DEF SInv, Usable, Lasts
<1>7. Revoked'
  BY DEF SInv, Revoked, Minting
<1>8. Later'
  BY DEF SInv, Later
<1>9. Rechecked'
  BY DEF SInv, Rechecked
<1>10. QED
  BY <1>1, <1>2, <1>3, <1>4, <1>5, <1>6, <1>7, <1>8, <1>9 DEF SInv

-----------------------------------------------------------------------------
(* lookup *)

\* Usable is why the other parts survive a lookup: a record found belongs to
\* the one session whose pointer can name the token.
LEMMA GetRecordKeeps ==
  ASSUME SInv, NEW p \in Proc, GetRecord(p)
  PROVE  SInv'
<1> DEFINE t == job[p].token
<1>1. Presents(p) /\ t \in Token /\ record[t] \in 0..MaxSessions /\ pc[p] = "getRecord"
  BY LocalsTyped DEF SInv, TypeOK, Locals, GetRecord
<1>2. job \in [Proc -> Job] /\ job' = [job EXCEPT ![p].session = record[t], ![p].late = record[t] # Nothing
                                                                   /\ record[t] \notin member]
  BY DEF SInv, TypeOK, GetRecord
<1> DEFINE looked == [job EXCEPT ![p].session = record[t]]
<1>3. looked \in [Proc -> Job]
  BY <1>1, <1>2 DEF Job
<1>4. job' = [looked EXCEPT ![p].late = record[t] # Nothing /\ record[t] \notin member]
  BY <1>2
<1> HIDE DEF looked
<1>5. ASSUME NEW b \in BOOLEAN
      PROVE  [looked EXCEPT ![p].late = b] \in [Proc -> Job]
  BY <1>3 DEF Job
<1>6. (record[t] # Nothing /\ record[t] \notin member) \in BOOLEAN
  OBVIOUS
<1>7. job' \in [Proc -> Job]
  BY <1>4, <1>5, <1>6
<1>8. TypeOK'
  BY <1>1, <1>7 DEF SInv, TypeOK, GetRecord, Reads, Answers
<1>9. /\ \A q \in Proc : job'[q].op = job[q].op /\ job'[q].token = job[q].token
        /\ job'[q].fresh = job[q].fresh /\ job'[q].current = job[q].current
        /\ job'[q].revokes = job[q].revokes
      /\ \A q \in Proc : q # p => pc'[q] = pc[q] /\ job'[q].session = job[q].session
      /\ job'[p].session = record[t]
      /\ pc'[p] = IF record[t] = Nothing THEN "unknown" ELSE "getPointer"
      /\ UNCHANGED <<store, minted, issued, member, handed, used, over>>
  <2>1. /\ \A q \in Proc : q # p => job'[q] = job[q]
        /\ job'[p].session = record[t]
    BY <1>2 DEF Job
  <2>2. /\ job'[p].op = job[p].op /\ job'[p].token = t
        /\ job'[p].fresh = job[p].fresh /\ job'[p].current = job[p].current
        /\ job'[p].revokes = job[p].revokes
    BY <1>2 DEF Job
  <2>3. /\ \A q \in Proc : q # p => pc'[q] = pc[q]
        /\ pc'[p] = IF record[t] = Nothing THEN "unknown" ELSE "getPointer"
    BY DEF SInv, TypeOK, GetRecord
  <2>4. UNCHANGED <<store, minted, issued, member, handed, used, over>>
    BY DEF GetRecord
  <2>5. QED
    BY <2>1, <2>2, <2>3, <2>4
<1>10. ASSUME NEW s \in Session, record[t] # Nothing, s # record[t]
      PROVE  pointer[s] # t
  BY <1>1, <1>10 DEF SInv, Usable, Lasts
<1>11. Owned'
  BY <1>1, <1>9, <1>10 DEF SInv, Owned
<1>12. Locals'
  BY <1>1, <1>9 DEF SInv, Locals, Numbered
<1>13. Numbered'
  BY <1>9 DEF SInv, Numbered
<1>14. Fresh'
  <2>1. \A q \in Proc : job'[q].fresh = job[q].fresh /\ (pc'[q] = "setPointer" => pc[q] = "setPointer")
    BY <1>9
  <2>2. UNCHANGED <<pointer, minted, handed>>
    BY <1>9
  <2>3. QED
    BY <2>1, <2>2 DEF SInv, Fresh
<1> USE DEF GetRecord
<1>15. Usable'
  BY DEF SInv, Usable, TypeOK, Lasts
<1>16. Revoked'
  BY DEF SInv, Revoked, TypeOK, Minting
<1>17. Later'
  BY DEF SInv, Later, TypeOK
<1>18. Rechecked'
  BY DEF SInv, Rechecked, TypeOK, Job
<1>19. QED
  BY <1>8, <1>11, <1>12, <1>13, <1>14, <1>15, <1>16, <1>17, <1>18 DEF SInv

LEMMA GetPointerKeeps ==
  ASSUME SInv, NEW p \in Proc, GetPointer(p)
  PROVE  SInv'
<1> DEFINE s == job[p].session
<1>1. /\ pc[p] = "getPointer" /\ Presents(p) /\ job[p].token \in Token
      /\ s \in Session /\ s \in 1..issued /\ pointer[s] \in 0..MaxTokens
      /\ job \in [Proc -> Job] /\ job[p].op \in {"refresh", "logout"}
      /\ pc \in [Proc -> {"idle"} \cup Reads \cup Writes \cup Answers]
  BY LocalsTyped DEF SInv, TypeOK, Locals, GetPointer
<1>2. /\ UNCHANGED <<record, pointer, minted, issued, member, handed, used, over>>
      /\ \A q \in Proc : q # p => pc'[q] = pc[q] /\ job'[q] = job[q]
  BY <1>1 DEF GetPointer
<1>3. CASE pointer[s] = Nothing
  <2>1. /\ job' = job
        /\ pc' = [pc EXCEPT ![p] = "unknown"] /\ pc'[p] = "unknown"
    BY <1>1, <1>3 DEF GetPointer
  <2>2. TypeOK'
    BY <1>1, <1>2, <2>1 DEF SInv, TypeOK, Answers
  <2>3. Locals'
    BY <1>1, <1>2, <2>1 DEF SInv, Locals
  <2>4. Numbered'
    BY <1>2 DEF SInv, Numbered
  <2>5. Fresh'
    BY <1>1, <1>2, <2>1 DEF SInv, Fresh
  <2>6. Owned'
    BY <1>1, <1>2, <2>1 DEF SInv, Owned
  <2>7. Usable'
    BY <1>1, <1>2, <2>1 DEF SInv, Usable, Lasts
  <2>8. Revoked'
    BY <1>1, <1>2, <2>1 DEF SInv, Revoked, Minting
  <2>9. Later'
    BY <1>1, <1>2, <2>1 DEF SInv, Later
  <2>10. Rechecked'
    BY <1>1, <1>2, <2>1 DEF SInv, Rechecked
  <2>11. QED
    BY <2>2, <2>3, <2>4, <2>5, <2>6, <2>7, <2>8, <2>9, <2>10 DEF SInv
<1>4. CASE pointer[s] = job[p].token
  <2>1. /\ job' = job /\ pointer[s] = job[p].token
        /\ pc' = [pc EXCEPT ![p] = IF job[p].op = "logout" THEN "delLogout" ELSE "setRecord"]
        /\ pc'[p] = IF job[p].op = "logout" THEN "delLogout" ELSE "setRecord"
    BY <1>1, <1>4 DEF GetPointer
  <2>2. TypeOK'
    BY <1>1, <1>2, <2>1 DEF SInv, TypeOK, Writes
  <2>3. Locals'
    BY <1>1, <1>2, <2>1 DEF SInv, Locals
  <2>4. Numbered'
    BY <1>2 DEF SInv, Numbered
  <2>5. Fresh'
    BY <1>1, <1>2, <2>1 DEF SInv, Fresh
  <2>6. Owned'
    BY <1>1, <1>2, <2>1 DEF SInv, Owned
  <2>7. Usable'
    BY <1>1, <1>2, <2>1 DEF SInv, Usable, Lasts
  <2>8. Revoked'
    BY <1>1, <1>2, <2>1 DEF SInv, Revoked, Minting
  <2>9. Later'
    BY <1>1, <1>2, <2>1 DEF SInv, Later
  <2>10. Rechecked'
    BY <1>1, <1>2, <2>1 DEF SInv, Rechecked
  <2>11. QED
    BY <2>2, <2>3, <2>4, <2>5, <2>6, <2>7, <2>8, <2>9, <2>10 DEF SInv
<1>5. CASE pointer[s] \notin {Nothing, job[p].token}
  <2>1. /\ job' = [job EXCEPT ![p].revokes = s]
        /\ pc' = [pc EXCEPT ![p] = "getRevoked"] /\ pc'[p] = "getRevoked"
    BY <1>1, <1>5 DEF GetPointer
  <2>2. job' \in [Proc -> Job]
    BY <1>1, <2>1 DEF Job
  <2>3. /\ job'[p].op = job[p].op /\ job'[p].token = job[p].token
        /\ job'[p].session = s /\ job'[p].fresh = job[p].fresh
        /\ job'[p].current = job[p].current /\ job'[p].revokes = s
        /\ job'[p].late = job[p].late /\ job'[p].again = job[p].again
    BY <1>1, <2>1 DEF Job
  <2>4. \A r \in Session : pointer[r] # job[p].token
    BY <1>1, <1>5 DEF SInv, Owned
  <2>5. /\ pc' = [pc EXCEPT ![p] = "getRevoked"] /\ pc'[p] = "getRevoked" /\ job' \in [Proc -> Job]
        /\ job'[p].op = job[p].op /\ job'[p].token = job[p].token
        /\ job'[p].session = s /\ job'[p].fresh = job[p].fresh
        /\ job'[p].current = job[p].current /\ job'[p].revokes = s
        /\ job'[p].late = job[p].late /\ job'[p].again = job[p].again
        /\ \A r \in Session : pointer[r] # job[p].token
    BY <2>1, <2>2, <2>3, <2>4
  <2>6. TypeOK'
    BY <1>1, <1>2, <2>5 DEF SInv, TypeOK, Reads
  <2>7. Locals'
    BY <1>1, <1>2, <2>5 DEF SInv, Locals
  <2>8. Numbered'
    BY <1>2 DEF SInv, Numbered
  <2>9. Fresh'
    BY <1>1, <1>2, <2>5 DEF SInv, Fresh
  <2>10. Owned'
    BY <1>1, <1>2, <2>5 DEF SInv, Owned
  <2>11. Usable'
    BY <1>1, <1>2, <2>5 DEF SInv, Usable, Lasts
  <2>12. Revoked'
    BY <1>1, <1>2, <2>5 DEF SInv, Revoked, Minting
  <2>13. Later'
    BY <1>1, <1>2, <2>5 DEF SInv, Later
  <2>14. Rechecked'
    BY <1>1, <1>2, <2>5 DEF SInv, Rechecked
  <2>15. QED
    BY <2>6, <2>7, <2>8, <2>9, <2>10, <2>11, <2>12, <2>13, <2>14 DEF SInv
<1>6. QED
  BY <1>3, <1>4, <1>5

-----------------------------------------------------------------------------
(* mint, and the check that follows it *)

LEMMA SetRecordKeeps ==
  ASSUME SInv, NEW p \in Proc, SetRecord(p)
  PROVE  SInv'
<1>1. pc[p] = "setRecord" /\ job[p].session \in Session /\ minted' \in Token /\ minted' = minted + 1
      /\ minted \in 0..MaxTokens
  BY LocalsTyped DEF SInv, TypeOK, Locals, SetRecord
<1>2. job \in [Proc -> Job] /\ job' = [job EXCEPT ![p].fresh = minted']
  BY DEF SInv, TypeOK, SetRecord
<1>3. job' \in [Proc -> Job]
  BY <1>1, <1>2 DEF Job
<1>4. /\ record' \in [Token -> 0..MaxSessions]
      /\ record'[minted'] = job[p].session
      /\ \A u \in Token : u # minted' => record'[u] = record[u]
  BY <1>1 DEF SInv, TypeOK, SetRecord
<1>5. pc' = [pc EXCEPT ![p] = "setPointer"] \/ pc' = [pc EXCEPT ![p] = "error"]
  BY DEF SetRecord, Wrote
<1>6. pc' \in [Proc -> {"idle"} \cup Reads \cup Writes \cup Answers]
  BY <1>5 DEF SInv, TypeOK, Writes, Answers
<1>7. TypeOK'
  BY <1>1, <1>3, <1>4, <1>6 DEF SInv, TypeOK, SetRecord
<1>8. ASSUME NEW u \in 0..minted, NEW s \in Session, Lasts(u, s), u # Nothing
      PROVE  Lasts(u, s)'
  BY <1>1, <1>4, <1>8 DEF Lasts
<1>9. \A q \in Proc : q # p => pc'[q] = pc[q] /\ job'[q] = job[q]
  BY DEF SetRecord, SInv, TypeOK, Wrote
<1>10. job'[p].fresh = minted' /\ job'[p].session = job[p].session
  BY LocalsTyped DEF SetRecord, SInv, TypeOK, Job
<1>11. pointer' = pointer /\ pointer \in [Session -> 0..MaxTokens]
  BY DEF SetRecord, SInv, TypeOK
<1>12. \A s \in Session : pointer'[s] # Nothing => Lasts(pointer[s], s)'
  BY <1>1, <1>8, <1>11 DEF SInv, Usable, Numbered
<1>13. ASSUME NEW q \in Proc, pc'[q] = "setPointer" PROVE Lasts(job[q].fresh, job[q].session)'
  <2>1. CASE q = p
    BY <2>1, <1>1, <1>4, <1>10 DEF Lasts
  <2>2. CASE q # p
    BY <2>2, <1>13, <1>9, <1>1, <1>8, LocalsTyped DEF SInv, Usable, Fresh, Locals
  <2>3. QED
    BY <2>1, <2>2
<1>14. TypeOK' /\ Usable'
  BY <1>7, <1>11, <1>12, <1>13 DEF Usable
<1> USE DEF SetRecord, Wrote
<1>15. Locals'
  BY DEF SInv, Locals, TypeOK
<1>16. Numbered'
  BY DEF SInv, Numbered, TypeOK, Locals, Job
<1>17. Fresh'
  BY DEF SInv, Fresh, TypeOK, Locals, Numbered, Job
<1>18. Owned'
  BY DEF SInv, Owned, TypeOK, Locals
<1>19. Revoked'
  BY DEF SInv, Revoked, TypeOK, Minting
<1>20. Later'
  BY DEF SInv, Later, TypeOK
<1>21. Rechecked'
  BY DEF SInv, Rechecked, TypeOK
<1>22. QED
  BY <1>14, <1>15, <1>16, <1>17, <1>18, <1>19, <1>20, <1>21 DEF SInv

\* The token written is no client's and no other session's (Fresh), so that no
\* lookup already done is about it.
LEMMA SetPointerKeeps ==
  ASSUME SInv, NEW p \in Proc, SetPointer(p)
  PROVE  SInv'
<1> DEFINE s == job[p].session
           f == job[p].fresh
<1>1. /\ pc[p] = "setPointer" /\ s \in Session /\ f \in Token /\ Dead(f)
      /\ f \notin handed /\ used \subseteq handed /\ pointer \in [Session -> 0..MaxTokens]
  BY LocalsTyped DEF SInv, TypeOK, Locals, Numbered, Fresh, SetPointer
<1>2. /\ pointer'[s] = f /\ \A r \in Session : r # s => pointer'[r] = pointer[r]
      /\ UNCHANGED <<record, minted, issued, member, handed, used, over, job>>
  BY <1>1 DEF SetPointer
<1>3. /\ \A q \in Proc : q # p => pc'[q] = pc[q]
      /\ pc'[p] \in {"members", "getRevoked", "ok", "error"}
      /\ pc'[p] = "getRevoked" => ~Presents(p)
  BY DEF SInv, TypeOK, SetPointer, Wrote
<1>4. \A q \in Proc : Presents(q) => job[q].token \in handed
  BY DEF SInv, Locals
<1>5. Owned'
  <2>1. \A q, r \in Session : (q # r /\ pointer'[q] = pointer'[r]) => pointer'[q] = Nothing
    BY <1>1, <1>2 DEF SInv, Owned
  <2>2. ASSUME NEW q \in Proc, pc'[q] = "delRevoked"
        PROVE  /\ \A r \in Session : r # job'[q].revokes => pointer'[r] # job'[q].current
               /\ \A u \in Proc : pc'[u] = "setPointer" => job'[u].fresh # job'[q].current
    BY <1>1, <1>2, <1>3, <2>2 DEF SInv, Owned
  <2>3. ASSUME NEW q \in Proc, Presents(q)',
               pc'[q] \in {"getPointer", "setRecord", "setPointer", "delLogout"}
        PROVE  \A r \in Session : r # job'[q].session => pointer'[r] # job'[q].token
    BY <1>1, <1>2, <1>3, <1>4, <2>3 DEF SInv, Owned
  <2>4. ASSUME NEW q \in Proc, Presents(q)',
               pc'[q] \in {"members", "getRevoked", "delRevoked", "delPresented", "ok"}
        PROVE  Dead(job[q].token)'
    <3>1. Presents(q) /\ job[q].token \in handed /\ job[q].token # f
      BY <1>1, <1>2, <1>4, <2>4
    <3>2. CASE q = p
      <4>1. \A r \in Session : r # s => pointer[r] # job[q].token
        BY <1>1, <3>1, <3>2 DEF SInv, Owned
      <4>2. QED
        BY <1>2, <3>1, <4>1
    <3>3. CASE q # p
      <4>1. Dead(job[q].token)
        BY <1>3, <2>4, <3>1, <3>3 DEF SInv, Owned
      <4>2. QED
        BY <1>2, <3>1, <4>1
    <3>4. QED
      BY <3>2, <3>3
  <2>5. QED
    BY <1>2, <2>1, <2>2, <2>3, <2>4 DEF Owned
<1>6. Later'
  BY <1>1, <1>2, <1>3 DEF SInv, Later
<1> USE DEF SetPointer, Wrote
<1>7. TypeOK'
  BY DEF SInv, TypeOK, Job, Reads, Answers
<1>8. Locals'
  BY DEF SInv, Locals, TypeOK
<1>9. Numbered'
  BY DEF SInv, Numbered, Fresh
<1>10. Fresh'
  BY DEF SInv, Fresh, TypeOK, Locals
<1>11. Usable'
  BY DEF SInv, Usable, TypeOK, Lasts
<1>12. Revoked'
  BY DEF SInv, Revoked, TypeOK, Minting
<1>13. Rechecked'
  BY DEF SInv, Rechecked, TypeOK
<1>14. QED
  BY <1>5, <1>6, <1>7, <1>8, <1>9, <1>10, <1>11, <1>12, <1>13 DEF SInv

LEMMA MembersKeeps ==
  ASSUME SInv, NEW p \in Proc, Members(p)
  PROVE  SInv'
<1> DEFINE r == IF job[p].session \in member THEN Nothing ELSE job[p].session
<1>1. r \in 0..MaxSessions /\ job \in [Proc -> Job] /\ job' = [job EXCEPT ![p].revokes = r]
  BY LocalsTyped DEF SInv, TypeOK, Members
<1> HIDE DEF r
<1>2. job' \in [Proc -> Job]
  BY <1>1 DEF Job
<1>3. TypeOK'
  BY <1>2 DEF SInv, TypeOK, Members, Reads, Answers
<1> USE DEF Members
<1>4. Locals'
  BY DEF SInv, Locals, TypeOK
<1>5. Numbered'
  BY DEF SInv, Numbered
<1>6. Fresh'
  BY DEF SInv, Fresh
<1>7. Owned'
  BY DEF SInv, Owned
<1>8. Usable'
  BY DEF SInv, Usable, Lasts
<1>9. Revoked'
  BY DEF SInv, Revoked, Minting
<1>10. Later'
  BY DEF SInv, Later
<1>11. Rechecked'
  BY DEF SInv, Rechecked
<1>12. QED
  BY <1>3, <1>4, <1>5, <1>6, <1>7, <1>8, <1>9, <1>10, <1>11 DEF SInv

-----------------------------------------------------------------------------
(* Revocation *)

LEMMA GetRevokedKeeps ==
  ASSUME SInv, NEW p \in Proc, GetRevoked(p)
  PROVE  SInv'
<1> DEFINE s == job[p].revokes
<1>1. /\ s \in Session /\ pointer[s] \in 0..MaxTokens
      /\ job \in [Proc -> Job] /\ job' = [job EXCEPT ![p].current = pointer[s]]
  BY LocalsTyped DEF SInv, TypeOK, Locals, GetRevoked
<1>2. job' \in [Proc -> Job]
  BY <1>1 DEF Job
<1>3. pc' \in [Proc -> {"idle"} \cup Reads \cup Writes \cup Answers]
  BY DEF SInv, TypeOK, GetRevoked, AfterRevoke, Writes, Answers
<1>4. over' \in SUBSET Session
  BY <1>1 DEF SInv, TypeOK, GetRevoked, Ends
<1>5. TypeOK'
  BY <1>2, <1>3, <1>4 DEF SInv, TypeOK, GetRevoked
<1> USE DEF GetRevoked, AfterRevoke, Ends, Minting
<1>6. Locals'
  BY DEF SInv, Locals, TypeOK, Job, Numbered
<1>7. Numbered'
  BY DEF SInv, Numbered
<1>8. Fresh'
  BY DEF SInv, Fresh, TypeOK
<1>9. Owned'
  BY DEF SInv, Owned, TypeOK, Locals, Fresh
<1>10. Usable'
  BY DEF SInv, Usable, TypeOK, Lasts
<1>11. Revoked'
  BY DEF SInv, Revoked, TypeOK, Locals
<1>12. Later'
  BY DEF SInv, Later, TypeOK
<1>13. Rechecked'
  BY DEF SInv, Rechecked, TypeOK
<1>14. QED
  BY <1>5, <1>6, <1>7, <1>8, <1>9, <1>10, <1>11, <1>12, <1>13 DEF SInv

\* The token deleted is one that RevokeSession read before: it can no longer
\* be another session's, nor one about to be written (Owned).
LEMMA DelRevokedKeeps ==
  ASSUME SInv, NEW p \in Proc, DelRevoked(p)
  PROVE  SInv'
<1> DEFINE s == job[p].revokes
           c == job[p].current
<1>1. /\ pc[p] = "delRevoked" /\ s \in Session /\ c \in Token
      /\ pointer \in [Session -> 0..MaxTokens] /\ record \in [Token -> 0..MaxSessions]
  BY LocalsTyped DEF SInv, TypeOK, Locals, DelRevoked
<1>2. /\ pointer'[s] = Nothing /\ \A r \in Session : r # s => pointer'[r] = pointer[r]
      /\ UNCHANGED <<minted, issued, member, handed, used, job>>
  BY <1>1 DEF DelRevoked
<1>3. job' = job /\ \A r \in Session : pointer'[r] \in {pointer[r], Nothing}
  BY <1>1, <1>2
<1>4. /\ record'[c] = Nothing /\ \A u \in Token : u # c => record'[u] = record[u]
      /\ \A u \in Token : record'[u] = record[u] \/ record'[u] = Nothing
  BY <1>1 DEF DelRevoked
<1>5. pointer' \in [Session -> 0..MaxTokens] /\ record' \in [Token -> 0..MaxSessions]
  BY <1>1 DEF DelRevoked
<1>6. /\ \A q \in Proc : q # p => pc'[q] = pc[q]
      /\ pc' \in [Proc -> {"idle"} \cup Reads \cup Writes \cup Answers]
      /\ pc'[p] \in {"ok", "notMember", "delPresented", "error", "reused"}
      /\ pc'[p] = "ok" => ~Presents(p)
  BY DEF SInv, TypeOK, DelRevoked, AfterRevoke, Abandoned, Writes, Answers
<1>7. over' \in SUBSET Session
  BY <1>1 DEF SInv, TypeOK, DelRevoked, Ends
<1>8. TypeOK'
  BY <1>2, <1>5, <1>6, <1>7 DEF SInv, TypeOK
<1>9. \A q \in Proc : /\ Presents(q) => job[q].token \in Token
                      /\ pc[q] = "delRevoked" => job[q].current \in Token
  BY LocalsTyped DEF SInv, Locals
<1>10. Owned'
  <2>1. \A q, r \in Session : (q # r /\ pointer'[q] = pointer'[r]) => pointer'[q] = Nothing
    <3>1. \A q, r \in Session : (q # r /\ pointer[q] = pointer[r]) => pointer[q] = Nothing
      BY DEF SInv, Owned
    <3>2. QED
      BY <1>3, <3>1
  <2>2. ASSUME NEW q \in Proc, pc'[q] = "delRevoked"
        PROVE  /\ \A r \in Session : r # job'[q].revokes => pointer'[r] # job'[q].current
               /\ \A u \in Proc : pc'[u] = "setPointer" => job'[u].fresh # job'[q].current
    <3>1. pc[q] = "delRevoked" /\ job[q].current \in Token
      BY <1>6, <1>9, <2>2
    <3>2. \A u \in Proc : pc'[u] = "setPointer" => pc[u] = "setPointer"
      BY <1>6
    <3>3. /\ \A r \in Session : r # job[q].revokes => pointer[r] # job[q].current
          /\ \A u \in Proc : pc[u] = "setPointer" => job[u].fresh # job[q].current
      BY <3>1 DEF SInv, Owned
    <3>4. QED
      BY <1>3, <3>1, <3>2, <3>3
  <2>3. ASSUME NEW q \in Proc, Presents(q)',
               pc'[q] \in {"getPointer", "setRecord", "setPointer", "delLogout"}
        PROVE  \A r \in Session : r # job'[q].session => pointer'[r] # job'[q].token
    <3>1. pc'[q] = pc[q] /\ job[q].token \in Token /\ Presents(q)
      BY <1>2, <1>6, <1>9, <2>3
    <3>2. \A r \in Session : r # job[q].session => pointer[r] # job[q].token
      BY <2>3, <3>1 DEF SInv, Owned
    <3>3. QED
      BY <1>3, <3>1, <3>2
  <2>4. ASSUME NEW q \in Proc, Presents(q)',
               pc'[q] \in {"members", "getRevoked", "delRevoked", "delPresented", "ok"}
        PROVE  Dead(job[q].token)'
    <3>1. Presents(q) /\ job[q].token \in Token
      BY <1>2, <1>9, <2>4
    <3>2. CASE q = p
      <4>1. Presents(p) /\ pc[p] = "delRevoked"
        BY <1>1, <3>1, <3>2
      <4>2. Dead(job[p].token)
        BY <4>1 DEF SInv, Owned
      <4>3. QED
        BY <1>3, <3>1, <3>2, <4>2
    <3>3. CASE q # p
      <4>1. Dead(job[q].token)
        BY <1>6, <2>4, <3>1, <3>3 DEF SInv, Owned
      <4>2. QED
        BY <1>3, <3>1, <4>1
    <3>4. QED
      BY <3>2, <3>3
  <2>5. QED
    BY <1>2, <2>1, <2>2, <2>3, <2>4 DEF Owned
<1>11. ASSUME NEW r \in Session, pointer'[r] # Nothing
      PROVE  Lasts(pointer[r], r)' /\ pointer'[r] = pointer[r]
  <2>1. r # s /\ pointer'[r] = pointer[r] /\ pointer[r] # c /\ pointer[r] \in Token
    BY <1>1, <1>2, <1>11 DEF SInv, Owned
  <2>2. Lasts(pointer[r], r)
    BY <1>11, <2>1 DEF SInv, Usable
  <2>3. QED
    BY <1>1, <1>2, <1>4, <2>1, <2>2, LastsKept
<1>12. ASSUME NEW q \in Proc, pc'[q] = "setPointer"
      PROVE  Lasts(job[q].fresh, job[q].session)'
  <2>1. pc[q] = "setPointer" /\ job[q].fresh # c
    BY <1>1, <1>6, <1>12 DEF SInv, Owned
  <2>2. job[q].session \in Session /\ job[q].fresh \in 0..MaxTokens
    BY <2>1, LocalsTyped DEF SInv, Locals
  <2>3. Lasts(job[q].fresh, job[q].session)
    BY <2>1 DEF SInv, Usable
  <2>4. job[q].fresh = Nothing \/ record'[job[q].fresh] = record[job[q].fresh]
    BY <1>4, <2>1, <2>2
  <2>5. job' = job /\ \A u \in Token : record'[u] = record[u] \/ record'[u] = Nothing
    BY <1>2, <1>4
  <2>6. QED
    BY <2>2, <2>3, <2>4, <2>5, LastsKept
<1>13. Usable'
  BY <1>2, <1>11, <1>12 DEF Usable
<1> USE DEF DelRevoked, AfterRevoke, Abandoned, Ends, Minting
<1>14. Locals'
  BY DEF SInv, Locals, TypeOK, Job
<1>15. Numbered'
  BY DEF SInv, Numbered, TypeOK
<1>16. Fresh'
  BY DEF SInv, Fresh, TypeOK, Locals
<1>17. Revoked'
  BY DEF SInv, Revoked, TypeOK, Locals
<1>18. Later'
  BY DEF SInv, Later, TypeOK
<1>19. Rechecked'
  BY DEF SInv, Rechecked, TypeOK
<1>20. QED
  BY <1>8, <1>10, <1>13, <1>14, <1>15, <1>16, <1>17, <1>18, <1>19 DEF SInv

LEMMA DelPresentedKeeps ==
  ASSUME SInv, NEW p \in Proc, DelPresented(p)
  PROVE  SInv'
<1> DEFINE c == job[p].token
<1>1. /\ c \in Token /\ c \in handed /\ Dead(c)
      /\ pointer \in [Session -> 0..MaxTokens] /\ record \in [Token -> 0..MaxSessions]
  BY LocalsTyped DEF SInv, TypeOK, Locals, Owned, DelPresented
<1>2. /\ record'[c] = Nothing /\ \A u \in Token : u # c => record'[u] = record[u]
      /\ \A u \in Token : record'[u] = record[u] \/ record'[u] = Nothing
      /\ UNCHANGED <<pointer, job>> /\ \A q \in Proc : pc'[q] = "setPointer" => pc[q] = "setPointer"
  BY <1>1 DEF SInv, DelPresented
<1>3. ASSUME NEW r \in Session, pointer[r] # Nothing
      PROVE  Lasts(pointer[r], r)'
  <2>1. pointer[r] \in Token /\ pointer[r] # c
    BY <1>1, <1>3
  <2>2. Lasts(pointer[r], r)
    BY <1>3 DEF SInv, Usable
  <2>3. record'[pointer[r]] = record[pointer[r]]
    BY <1>2, <2>1
  <2>4. pointer' = pointer /\ \A u \in Token : record'[u] = record[u] \/ record'[u] = Nothing
    BY <1>2
  <2>5. QED
    BY <2>1, <2>2, <2>3, <2>4, LastsKept
<1>4. ASSUME NEW q \in Proc, pc[q] = "setPointer"
      PROVE  Lasts(job[q].fresh, job[q].session)'
  <2>1. job[q].session \in Session /\ job[q].fresh \in 0..MaxTokens /\ job[q].fresh # c
    BY <1>1, <1>4, LocalsTyped DEF SInv, Locals, Fresh
  <2>2. Lasts(job[q].fresh, job[q].session)
    BY <1>4 DEF SInv, Usable
  <2>3. job[q].fresh = Nothing \/ record'[job[q].fresh] = record[job[q].fresh]
    BY <1>2, <2>1
  <2>4. job' = job /\ \A u \in Token : record'[u] = record[u] \/ record'[u] = Nothing
    BY <1>2
  <2>5. QED
    BY <2>1, <2>2, <2>3, <2>4, LastsKept
<1>5. Usable'
  BY <1>2, <1>3, <1>4 DEF Usable
<1> USE DEF DelPresented
<1>6. TypeOK'
  BY DEF SInv, TypeOK, Answers
<1>7. Locals'
  BY DEF SInv, Locals
<1>8. Numbered'
  BY DEF SInv, Numbered
<1>9. Fresh'
  BY DEF SInv, Fresh
<1>10. Owned'
  BY DEF SInv, Owned
<1>11. Revoked'
  BY DEF SInv, Revoked, Minting
<1>12. Later'
  BY DEF SInv, Later
<1>13. Rechecked'
  BY DEF SInv, Rechecked
<1>14. QED
  BY <1>5, <1>6, <1>7, <1>8, <1>9, <1>10, <1>11, <1>12, <1>13 DEF SInv

LEMMA DelLogoutKeeps ==
  ASSUME SInv, NEW p \in Proc, DelLogout(p)
  PROVE  SInv'
<1> DEFINE s == job[p].session
           c == job[p].token
<1>1. /\ pc[p] = "delLogout" /\ s \in Session /\ c \in Token /\ c \in handed /\ Presents(p)
      /\ pointer \in [Session -> 0..MaxTokens] /\ record \in [Token -> 0..MaxSessions]
  BY LocalsTyped DEF SInv, TypeOK, Locals, DelLogout
<1>2. /\ pointer'[s] = Nothing /\ \A r \in Session : r # s => pointer'[r] = pointer[r]
      /\ UNCHANGED <<minted, issued, member, handed, used, job>>
  BY <1>1 DEF DelLogout
<1>3. job' = job /\ \A r \in Session : pointer'[r] \in {pointer[r], Nothing}
  BY <1>1, <1>2
<1>4. /\ record'[c] = Nothing /\ \A u \in Token : u # c => record'[u] = record[u]
      /\ \A u \in Token : record'[u] = record[u] \/ record'[u] = Nothing
  BY <1>1 DEF DelLogout
<1>5. pointer' \in [Session -> 0..MaxTokens] /\ record' \in [Token -> 0..MaxSessions]
  BY <1>1 DEF DelLogout
<1>6. /\ \A q \in Proc : q # p => pc'[q] = pc[q]
      /\ pc' \in [Proc -> {"idle"} \cup Reads \cup Writes \cup Answers]
      /\ pc'[p] \in {"ok", "error"}
  BY DEF SInv, TypeOK, DelLogout, Wrote, Answers
<1>7. over' \in SUBSET Session
  BY <1>1 DEF SInv, TypeOK, DelLogout, Ends
<1>8. TypeOK'
  BY <1>2, <1>5, <1>6, <1>7 DEF SInv, TypeOK
<1>9. \A q \in Proc : /\ Presents(q) => job[q].token \in Token
                      /\ pc[q] = "delRevoked" => job[q].current \in Token
  BY LocalsTyped DEF SInv, Locals
<1>10. \A r \in Session : r # s => pointer[r] # c
  BY <1>1 DEF SInv, Owned
<1>11. /\ \A r \in Session : r # s => (pointer'[r] = pointer[r] /\ pointer[r] # c)
      /\ pointer'[s] # c
  BY <1>1, <1>2, <1>10
<1>12. Owned'
  <2>1. \A q, r \in Session : (q # r /\ pointer'[q] = pointer'[r]) => pointer'[q] = Nothing
    <3>1. \A q, r \in Session : (q # r /\ pointer[q] = pointer[r]) => pointer[q] = Nothing
      BY DEF SInv, Owned
    <3>2. QED
      BY <1>3, <3>1
  <2>2. ASSUME NEW q \in Proc, pc'[q] = "delRevoked"
        PROVE  /\ \A r \in Session : r # job'[q].revokes => pointer'[r] # job'[q].current
               /\ \A u \in Proc : pc'[u] = "setPointer" => job'[u].fresh # job'[q].current
    <3>1. pc[q] = "delRevoked" /\ job[q].current \in Token
      BY <1>6, <1>9, <2>2
    <3>2. \A u \in Proc : pc'[u] = "setPointer" => pc[u] = "setPointer"
      BY <1>6
    <3>3. /\ \A r \in Session : r # job[q].revokes => pointer[r] # job[q].current
          /\ \A u \in Proc : pc[u] = "setPointer" => job[u].fresh # job[q].current
      BY <3>1 DEF SInv, Owned
    <3>4. QED
      BY <1>3, <3>1, <3>2, <3>3
  <2>3. ASSUME NEW q \in Proc, Presents(q)',
               pc'[q] \in {"getPointer", "setRecord", "setPointer", "delLogout"}
        PROVE  \A r \in Session : r # job'[q].session => pointer'[r] # job'[q].token
    <3>1. pc'[q] = pc[q] /\ job[q].token \in Token /\ Presents(q)
      BY <1>2, <1>6, <1>9, <2>3
    <3>2. \A r \in Session : r # job[q].session => pointer[r] # job[q].token
      BY <2>3, <3>1 DEF SInv, Owned
    <3>3. QED
      BY <1>3, <3>1, <3>2
  <2>4. ASSUME NEW q \in Proc, Presents(q)',
               pc'[q] \in {"members", "getRevoked", "delRevoked", "delPresented", "ok"}
        PROVE  Dead(job[q].token)'
    <3>1. Presents(q) /\ job[q].token \in Token
      BY <1>2, <1>9, <2>4
    <3>2. CASE q = p
      <4>1. \A r \in Session : pointer'[r] # c
        BY <1>11
      <4>2. QED
        BY <1>3, <3>2, <4>1
    <3>3. CASE q # p
      <4>1. Dead(job[q].token)
        BY <1>6, <2>4, <3>1, <3>3 DEF SInv, Owned
      <4>2. QED
        BY <1>3, <3>1, <4>1
    <3>4. QED
      BY <3>2, <3>3
  <2>5. QED
    BY <1>2, <2>1, <2>2, <2>3, <2>4 DEF Owned
<1>13. ASSUME NEW r \in Session, pointer'[r] # Nothing
      PROVE  Lasts(pointer[r], r)' /\ pointer'[r] = pointer[r]
  <2>1. r # s /\ pointer'[r] = pointer[r] /\ pointer[r] # c /\ pointer[r] \in Token
    <3>1. r # s
      BY <1>2, <1>13
    <3>2. pointer'[r] = pointer[r] /\ pointer[r] # c
      BY <1>11, <3>1
    <3>3. pointer[r] \in Token
      BY <1>1, <1>13, <3>2
    <3>4. QED
      BY <3>1, <3>2, <3>3
  <2>2. Lasts(pointer[r], r)
    BY <1>13, <2>1 DEF SInv, Usable
  <2>3. QED
    BY <1>1, <1>2, <1>4, <2>1, <2>2, LastsKept
<1>14. ASSUME NEW q \in Proc, pc'[q] = "setPointer"
      PROVE  Lasts(job[q].fresh, job[q].session)'
  <2>1. pc[q] = "setPointer"
    BY <1>6, <1>14
  <2>2. job[q].session \in Session /\ job[q].fresh \in 0..MaxTokens /\ job[q].fresh # c
    BY <1>1, <2>1, LocalsTyped DEF SInv, Locals, Fresh
  <2>3. Lasts(job[q].fresh, job[q].session)
    BY <2>1 DEF SInv, Usable
  <2>4. job[q].fresh = Nothing \/ record'[job[q].fresh] = record[job[q].fresh]
    BY <1>4, <2>2
  <2>5. job' = job /\ \A u \in Token : record'[u] = record[u] \/ record'[u] = Nothing
    BY <1>2, <1>4
  <2>6. QED
    BY <2>2, <2>3, <2>4, <2>5, LastsKept
<1>15. Usable'
  BY <1>2, <1>13, <1>14 DEF Usable
<1> USE DEF DelLogout, Wrote, Ends, Minting
<1>16. Locals'
  BY DEF SInv, Locals, TypeOK
<1>17. Numbered'
  BY DEF SInv, Numbered, TypeOK
<1>18. Fresh'
  BY DEF SInv, Fresh, TypeOK, Locals
<1>19. Revoked'
  BY DEF SInv, Revoked, TypeOK, Locals
<1>20. Later'
  BY DEF SInv, Later, TypeOK, Locals
<1>21. Rechecked'
  BY DEF SInv, Rechecked, TypeOK, Locals
<1>22. QED
  BY <1>8, <1>12, <1>15, <1>16, <1>17, <1>18, <1>19, <1>20, <1>21 DEF SInv

-----------------------------------------------------------------------------
(* Failures, answers, time *)

LEMMA FailKeeps ==
  ASSUME SInv, NEW p \in Proc, Fail(p)
  PROVE  SInv'
<1> USE DEF Fail, Abandoned
<1>1. TypeOK'
  BY DEF SInv, TypeOK, Answers
<1>2. Locals'
  BY DEF SInv, Locals
<1>3. Numbered'
  BY DEF SInv, Numbered
<1>4. Fresh'
  BY DEF SInv, Fresh
<1>5. Owned'
  BY DEF SInv, Owned
<1>6. Usable'
  BY DEF SInv, Usable, Lasts
<1>7. Revoked'
  BY DEF SInv, Revoked, Minting
<1>8. Later'
  BY DEF SInv, Later
<1>9. Rechecked'
  BY DEF SInv, Rechecked
<1>10. QED
  BY <1>1, <1>2, <1>3, <1>4, <1>5, <1>6, <1>7, <1>8, <1>9 DEF SInv

LEMMA AnswerKeeps ==
  ASSUME SInv, NEW p \in Proc, Answer(p)
  PROVE  SInv'
<1>1. /\ NoJob \in Job /\ job \in [Proc -> Job] /\ job' = [job EXCEPT ![p] = NoJob]
      /\ pc' = [pc EXCEPT ![p] = "idle"]
  BY DEF SInv, TypeOK, Answer, NoJob, Job
<1>2. Carries(p) => job[p].fresh \in Token /\ job[p].fresh <= minted
  BY LocalsTyped DEF SInv, Locals, Fresh, Carries
<1>3. (Carries(p) /\ job[p].op = "refresh") => job[p].token \in handed
  BY DEF SInv, Locals
<1>4. /\ handed' = handed \/ (Carries(p) /\ handed' = handed \cup {job[p].fresh})
      /\ used' = used \/ (Carries(p) /\ job[p].op = "refresh" /\ used' = used \cup {job[p].token})
      /\ UNCHANGED <<store, minted, issued, member, over>>
  BY DEF Answer
<1>5. handed \in SUBSET Token /\ used \subseteq handed
  BY DEF SInv, TypeOK, Numbered
<1>6. job' \in [Proc -> Job]
  BY <1>1
<1>7. handed' \in SUBSET Token /\ used' \subseteq handed'
  BY <1>2, <1>3, <1>4, <1>5
<1>8. TypeOK'
  BY <1>1, <1>4, <1>6, <1>7 DEF SInv, TypeOK
<1>9. Numbered'
  BY <1>2, <1>4, <1>7 DEF SInv, Numbered
<1> USE DEF Answer, Carries, NoJob, Answers
<1>10. Locals'
  BY DEF SInv, Locals, TypeOK
<1>11. Fresh'
  BY DEF SInv, Fresh, TypeOK, Locals
<1>12. Owned'
  BY DEF SInv, Owned
<1>13. Usable'
  BY DEF SInv, Usable, Lasts
<1>14. Revoked'
  BY DEF SInv, Revoked, Minting
<1>15. Later'
  BY DEF SInv, Later, Owned
<1>16. Rechecked'
  BY DEF SInv, Rechecked
<1>17. QED
  BY <1>8, <1>9, <1>10, <1>11, <1>12, <1>13, <1>14, <1>15, <1>16 DEF SInv

LEMMA ExpireRecordKeeps ==
  ASSUME SInv, NEW t \in Token, ExpireRecord(t)
  PROVE  SInv'
<1>1. /\ \A u \in Token : u # t => record'[u] = record[u]
      /\ \A u \in 1..t : record'[u] = Nothing
      /\ \A u \in Token : record'[u] = record[u] \/ record'[u] = Nothing
      /\ UNCHANGED <<pointer, pc, job>> /\ pointer \in [Session -> 0..MaxTokens]
  BY DEF SInv, TypeOK, ExpireRecord
<1>2. ASSUME NEW r \in Session, pointer[r] # Nothing
      PROVE  Lasts(pointer[r], r)'
  BY <1>1, <1>2, LastsKept DEF SInv, Usable
<1>3. ASSUME NEW q \in Proc, pc[q] = "setPointer"
      PROVE  Lasts(job[q].fresh, job[q].session)'
  <2>1. job[q].session \in Session /\ job[q].fresh \in 0..MaxTokens
    BY <1>3, LocalsTyped DEF SInv, Locals
  <2>2. Lasts(job[q].fresh, job[q].session)
    BY <1>3 DEF SInv, Usable
  <2>3. QED
    BY <1>1, <2>1, <2>2, LastsKept
<1>4. Usable'
  BY <1>1, <1>2, <1>3 DEF Usable
<1> USE DEF ExpireRecord
<1>5. TypeOK'
  BY DEF SInv, TypeOK
<1>6. Locals'
  BY DEF SInv, Locals
<1>7. Numbered'
  BY DEF SInv, Numbered
<1>8. Fresh'
  BY DEF SInv, Fresh
<1>9. Owned'
  BY DEF SInv, Owned
<1>10. Revoked'
  BY DEF SInv, Revoked, Minting
<1>11. Later'
  BY DEF SInv, Later
<1>12. Rechecked'
  BY DEF SInv, Rechecked
<1>13. QED
  BY <1>4, <1>5, <1>6, <1>7, <1>8, <1>9, <1>10, <1>11, <1>12 DEF SInv

LEMMA ExpirePointerKeeps ==
  ASSUME SInv, NEW r \in Session, ExpirePointer(r)
  PROVE  SInv'
<1> USE DEF ExpirePointer
<1>1. TypeOK'
  BY DEF SInv, TypeOK
<1>2. Locals'
  BY DEF SInv, Locals
<1>3. Numbered'
  BY DEF SInv, Numbered, TypeOK
<1>4. Fresh'
  BY DEF SInv, Fresh, Locals
<1>5. Owned'
  BY DEF SInv, Owned, TypeOK, Locals
<1>6. Usable'
  BY DEF SInv, Usable, Lasts
<1>7. Revoked'
  BY DEF SInv, Revoked, Minting
<1>8. Later'
  BY DEF SInv, Later, TypeOK
<1>9. Rechecked'
  BY DEF SInv, Rechecked
<1>10. QED
  BY <1>1, <1>2, <1>3, <1>4, <1>5, <1>6, <1>7, <1>8, <1>9 DEF SInv

LEMMA RemoveMemberKeeps ==
  ASSUME SInv, NEW r \in Session, RemoveMember(r)
  PROVE  SInv'
<1> USE DEF RemoveMember
<1>1. TypeOK'
  BY DEF SInv, TypeOK
<1>2. Locals'
  BY DEF SInv, Locals
<1>3. Numbered'
  BY DEF SInv, Numbered
<1>4. Fresh'
  BY DEF SInv, Fresh
<1>5. Owned'
  BY DEF SInv, Owned
<1>6. Usable'
  BY DEF SInv, Usable, Lasts
<1>7. Revoked'
  BY DEF SInv, Revoked, Minting
<1>8. Later'
  BY DEF SInv, Later
<1>9. Rechecked'
  BY DEF SInv, Rechecked
<1>10. QED
  BY <1>1, <1>2, <1>3, <1>4, <1>5, <1>6, <1>7, <1>8, <1>9 DEF SInv

-----------------------------------------------------------------------------
(* The invariant holds. *)

LEMMA InitHolds == Init => SInv
<1> SUFFICES ASSUME Init
             PROVE  SInv
  OBVIOUS
<1> USE DEF Init
<1>1. NoJob \in Job
  BY DEF NoJob, Job
<1>2. TypeOK
  BY <1>1 DEF TypeOK
<1>3. Locals
  BY DEF Locals, NoJob
<1>4. Numbered /\ Usable /\ Revoked
  BY DEF Numbered, Usable, Lasts, Revoked
<1>5. Fresh
  BY DEF Fresh, NoJob
<1>6. Owned
  BY DEF Owned
<1>7. Later /\ Rechecked
  BY DEF Later, Rechecked, NoJob
<1>8. QED
  BY <1>2, <1>3, <1>4, <1>5, <1>6, <1>7 DEF SInv

LEMMA StutterKeeps == ASSUME SInv, UNCHANGED vars PROVE SInv'
<1> USE DEF vars
<1>1. TypeOK' /\ Locals' /\ Numbered' /\ Fresh' /\ Owned'
  BY DEF SInv, TypeOK, Locals, Numbered, Fresh, Owned
<1>2. Usable' /\ Revoked' /\ Later' /\ Rechecked'
  BY DEF SInv, Usable, Lasts, Revoked, Minting, Later, Rechecked
<1>3. QED
  BY <1>1, <1>2 DEF SInv

LEMMA NextKeeps == SInv /\ [Next]_vars => SInv'
<1> SUFFICES ASSUME SInv, [Next]_vars
             PROVE  SInv'
  OBVIOUS
<1>1. CASE UNCHANGED vars
  BY <1>1, StutterKeeps
<1>2. ASSUME NEW p \in Proc, NEW s \in Session, Login(p) \/ Switch(p, s)
      PROVE  SInv'
  BY <1>2, LoginKeeps, SwitchKeeps
<1>3. ASSUME NEW p \in Proc, Login(p)
      PROVE  SInv'
  BY <1>3, LoginKeeps
<1>4. ASSUME NEW p \in Proc, NEW t \in Token, Refresh(p, t) \/ Logout(p, t)
      PROVE  SInv'
  BY <1>4, RefreshKeeps, LogoutKeeps
<1>5. ASSUME NEW p \in Proc, GetRecord(p) \/ GetPointer(p) \/ SetRecord(p) \/ SetPointer(p)
      PROVE  SInv'
  BY <1>5, GetRecordKeeps, GetPointerKeeps, SetRecordKeeps, SetPointerKeeps
<1>6. ASSUME NEW p \in Proc, Members(p) \/ GetRevoked(p) \/ DelRevoked(p)
                             \/ DelPresented(p) \/ DelLogout(p)
      PROVE  SInv'
  BY <1>6, MembersKeeps, GetRevokedKeeps, DelRevokedKeeps, DelPresentedKeeps, DelLogoutKeeps
<1>7. ASSUME NEW p \in Proc, Fail(p) \/ Answer(p)
      PROVE  SInv'
  BY <1>7, FailKeeps, AnswerKeeps
<1>8. ASSUME NEW t \in Token, ExpireRecord(t)
      PROVE  SInv'
  BY <1>8, ExpireRecordKeeps
<1>9. ASSUME NEW s \in Session, ExpirePointer(s) \/ RemoveMember(s)
      PROVE  SInv'
  BY <1>9, ExpirePointerKeeps, RemoveMemberKeeps
<1>10. QED
  BY <1>1, <1>2, <1>3, <1>4, <1>5, <1>6, <1>7, <1>8, <1>9 DEF Next

\* The invariant, with its consequences for a single state.
LEMMA SInvImplies ==
  SInv => UsablePointer /\ NoLaterUse /\ MembershipRechecked /\ RevokedStaysRevoked
<1> SUFFICES ASSUME SInv
             PROVE  UsablePointer /\ NoLaterUse /\ MembershipRechecked /\ RevokedStaysRevoked
  OBVIOUS
<1>1. UsablePointer
  BY DEF SInv, Usable, Lasts, UsablePointer
<1>2. NoLaterUse
  BY DEF SInv, Later, NoLaterUse
<1>3. MembershipRechecked
  BY DEF SInv, Rechecked, MembershipRechecked
<1>4. RevokedStaysRevoked
  BY DEF SInv, Revoked, RevokedStaysRevoked
<1>5. QED
  BY <1>1, <1>2, <1>3, <1>4

\* SInv is an invariant: every state of Sessions satisfies it.
THEOREM SessionsInvariant == Spec => []SInv
<1>1. QED
  BY InitHolds, NextKeeps, PTL DEF Spec

\* Every variable keeps its type: in particular a request only ever names
\* tokens that were minted and sessions that were issued.
THEOREM SessionsTypeOK == Spec => []TypeOK
<1>1. SInv => TypeOK
  BY DEF SInv
<1>2. QED
  BY <1>1, SessionsInvariant, PTL

\* mint writes the record before the pointer: whatever rotations, revocations
\* and failures interleave, a session's pointer leads to a record of that
\* session, unless every record as old as it has expired.
THEOREM SessionsUsablePointer == Spec => []UsablePointer
<1>1. QED
  BY SInvImplies, SessionsInvariant, PTL

\* lookup compares the pointer with the presented token: once a refresh of a
\* token has been answered, no refresh that begins later succeeds with it.
THEOREM SessionsNoLaterUse == Spec => []NoLaterUse
<1>1. QED
  BY SInvImplies, SessionsInvariant, PTL

\* Service.Refresh re-checks the membership after it has rotated: a refresh
\* that begins after the membership ended is never answered with tokens.
THEOREM SessionsMembershipRechecked == Spec => []MembershipRechecked
<1>1. QED
  BY SInvImplies, SessionsInvariant, PTL

\* RevokeSession and Revoke delete the pointer: a revocation that no rotation
\* of the session overlaps leaves it without a current token for good.
THEOREM SessionsRevokedStaysRevoked == Spec => []RevokedStaysRevoked
<1>1. QED
  BY SInvImplies, SessionsInvariant, PTL
=============================================================================
