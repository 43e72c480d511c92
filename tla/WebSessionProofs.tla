-------------------------- MODULE WebSessionProofs --------------------------
(***************************************************************************)
(* Proofs about WebSession, for every number of calls, pages and renewals  *)
(* at once, of tokens and of faults: no response stores or clears the      *)
(* cookies of a session it has no business with, no call joins a renewal   *)
(* of before a sign-out, no response brings back what it has ended, and no *)
(* token is presented again.                                               *)
(*                                                                         *)
(* The inductive invariant follows an outcome on its way: from refresh.ts  *)
(* (recent), through the request that waits for it, to the cookies of the  *)
(* response.  At each place the token that was spent and the outcome       *)
(* belong to one session, and the outcome, if a token, is the newer one.   *)
(***************************************************************************)
EXTENDS WebSession, TLAPS

\* u is what t was exchanged for: of its session, and not yet old.
Succeeds(u, t) ==
    t # None /\ t < u /\ u <= issued /\ session[u] = session[t] /\ age[u] = "fresh"

\* What may be said of t's exchange.
True(outcome, t) ==
    /\ outcome > 0 => Succeeds(outcome, t)
    /\ outcome = Rejected => t # None /\ session[t] \in over

\* The cookies a request that carries t may be answered with.
Owed(kind, t, cookies, status) ==
    /\ kind \in {"page", "call", "renewal"} /\ cookies > 0
        => /\ t # None /\ session[cookies] = session[t]
           /\ kind = "page" => status # "401"
    /\ cookies = Clear /\ kind # "logout" => t = None \/ session[t] \in over

\* A request holds tokens the API has issued; what it waits for is the outcome of the
\* token it carries, and what its response does with the cookies follows from that.
Fair(q) ==
    /\ q.carried <= issued /\ q.cookies <= issued
    /\ q.phase \in {"waits", "sent"} => q.carried # None
    /\ q.phase = "waits" => q.joins = q.carried
    /\ q.phase = "arrived" => ~q.retried
    /\ q.phase = "sent" => q.kind = "call"
    /\ q.phase = "sent" /\ q.retried => q.outcome > 0
    /\ True(q.outcome, q.carried)
    /\ Owed(q.kind, q.carried, q.cookies, q.status)

Remembered == \A t \in Tokens :
    recent[t] # None => t <= issued /\ recent[t] <= issued /\ True(recent[t], t)
RequestsFair == \A r \in Requests : Fair(reqs[r])
Known == jar <= issued /\ \A t \in inFlight : t <= issued

\* A renewal somebody waits for is under way, and began in the waiter's era; the one
\* to be joined, in this era.
Joined ==
    /\ pendingRefresh # None =>
        reqs[pendingRefresh].phase # "none" /\ reqs[pendingRefresh].era = era
    /\ \A c \in Calls : calls[c].joined # None =>
        /\ reqs[calls[c].joined].phase # "none"
        /\ reqs[calls[c].joined].era = calls[c].era

Inv == TypeOK /\ Known /\ Remembered /\ RequestsFair /\ Joined

-----------------------------------------------------------------------------
(* What the API does to its sessions. *)

\* Tokens are issued and sessions end; no token changes its session.
Grows ==
    /\ issued' \in Tokens /\ issued <= issued' /\ over \subseteq over'
    /\ session' \in [Tokens -> Tokens \cup {None}] /\ age' \in [Tokens -> Age]
    /\ \A t \in Tokens : t <= issued => session'[t] = session[t] /\ age'[t] = age[t]
    /\ used' \subseteq Tokens /\ over' \cup replayed' \subseteq Tokens \cup {None}

LEMMA ApiStays == TypeOK /\ UNCHANGED api => Grows
BY SomeTokens DEF TypeOK, Grows, api, Tokens

(* Issuing a token gives it its session and touches no other. *)
LEMMA IssueGrows ==
    ASSUME TypeOK, NEW s \in Tokens \cup {None}, Issue(s)
    PROVE  /\ issued' = issued + 1 /\ issued' \in Tokens
           /\ session' \in [Tokens -> Tokens \cup {None}] /\ age' \in [Tokens -> Age]
           /\ \A t \in Tokens : t <= issued => session'[t] = session[t] /\ age'[t] = age[t]
           /\ session'[issued'] = s /\ age'[issued'] = "fresh"
<1>1. issued + 1 \in Tokens
  BY SomeTokens DEF TypeOK, Issue, CanIssue, Tokens
<1>2. \A t \in Tokens : t <= issued => t # issued + 1
  BY DEF TypeOK, Tokens
<1> QED  BY <1>1, <1>2 DEF TypeOK, Issue, Age

(* What was true of an exchange stays true. *)
LEMMA TrueGrows ==
    ASSUME TypeOK, Grows, NEW t \in Tokens \cup {None}, t <= issued,
           NEW outcome \in Tokens \cup {None, Rejected, Unavailable}, True(outcome, t)
    PROVE  True(outcome, t)'
<1>1. t # None => session'[t] = session[t]
  BY DEF Grows, None
<1>2. CASE outcome \in Tokens
  <2>1. outcome > 0 /\ outcome # Rejected
    BY <1>2, SomeTokens DEF Tokens, Rejected
  <2>2. Succeeds(outcome, t)
    BY <2>1 DEF True
  <2>3. session'[outcome] = session[outcome] /\ age'[outcome] = age[outcome]
        /\ outcome <= issued'
    BY <1>2, <2>2, SomeTokens DEF Grows, Succeeds, TypeOK, Tokens
  <2> QED  BY <1>1, <2>1, <2>2, <2>3 DEF True, Succeeds
<1>3. CASE outcome \notin Tokens
  BY <1>1, <1>3 DEF True, Grows, None, Rejected, Unavailable
<1> QED  BY <1>2, <1>3

(* And what is so of a request stays so. *)
LEMMA FairGrows ==
    ASSUME TypeOK, Grows, NEW q \in Request, Fair(q) PROVE Fair(q)'
<1>1. True(q.outcome, q.carried)'
  BY TrueGrows DEF Fair, Request
<1>2. q.carried # None => session'[q.carried] = session[q.carried]
  BY DEF Fair, Grows, Request
<1>3. q.cookies > 0 => q.cookies \in Tokens /\ session'[q.cookies] = session[q.cookies]
  BY DEF Fair, Grows, Request, Keep, Clear
<1>4. q.carried <= issued' /\ q.cookies <= issued'
  BY SomeTokens DEF Fair, Grows, Request, TypeOK, Tokens, None, Keep, Clear
<1> QED  BY <1>1, <1>2, <1>3, <1>4 DEF Fair, Owed, Grows

(* And what refresh.ts remembers. *)
LEMMA RememberedGrows ==
    ASSUME TypeOK, Grows, NEW t \in Tokens, t <= issued, NEW outcome \in Tokens \cup {None, Rejected},
           outcome <= issued /\ True(outcome, t)
    PROVE  t <= issued' /\ outcome <= issued' /\ True(outcome, t)'
<1>1. t <= issued' /\ outcome <= issued'
  BY SomeTokens DEF Grows, TypeOK, Tokens, None, Rejected
<1> QED  BY <1>1, TrueGrows

LEMMA RememberedStays ==
    ASSUME TypeOK, Grows, Remembered, UNCHANGED recent PROVE Remembered'
<1>1. SUFFICES ASSUME NEW t \in Tokens, recent[t] # None
               PROVE  t <= issued' /\ recent[t] <= issued' /\ True(recent[t], t)'
  BY DEF Remembered, True, Succeeds
<1> QED  BY <1>1, RememberedGrows DEF Remembered, TypeOK

-----------------------------------------------------------------------------
(* The shapes of the steps. *)

(* A step that leaves the browser alone, and every renewal in its era. *)
LEMMA JoinedStays ==
    ASSUME TypeOK, Joined, UNCHANGED <<calls, pendingRefresh, era>>,
           \A r \in Requests : reqs[r].phase # "none"
                => reqs'[r].phase # "none" /\ reqs'[r].era = reqs[r].era
    PROVE  Joined'
BY DEF Joined, TypeOK, Call, Requests, None

(* A step of the API and the web app, whatever the requests come to. *)
LEMMA ServerStep ==
    ASSUME Inv, Grows, UNCHANGED <<jar, browser>>, Remembered',
           recent' \in [Tokens -> Tokens \cup {None, Rejected}],
           inFlight' \subseteq Tokens, \A t \in inFlight' : t \in inFlight \/ t <= issued,
           excused' \subseteq Tokens \cup {None}, adrift' \subseteq Tokens \cup {None},
           reqs' \in [Requests -> Request], RequestsFair',
           \A r \in Requests : reqs[r].phase # "none"
                => reqs'[r].phase # "none" /\ reqs'[r].era = reqs[r].era
    PROVE  Inv'
<1>1. Joined'
  BY JoinedStays DEF Inv, browser
<1>2. Known'
  <2>1. jar' <= issued'
    BY SomeTokens DEF Inv, Known, Grows, TypeOK, Tokens, None
  <2>2. ASSUME NEW t \in inFlight' PROVE t <= issued'
    BY <2>2, SomeTokens DEF Inv, Known, Grows, TypeOK, Tokens
  <2> QED  BY <2>1, <2>2 DEF Known
<1>3. TypeOK'
  BY DEF Inv, TypeOK, Grows, browser
<1> QED  BY <1>1, <1>2, <1>3 DEF Inv

(* One request goes on as q. *)
LEMMA ServesOne ==
    ASSUME Inv, Grows, NEW r \in Requests, NEW q \in Request,
           reqs' = [reqs EXCEPT ![r] = q], Fair(q)', q.phase # "none",
           q.era = reqs[r].era
    PROVE  /\ reqs' \in [Requests -> Request] /\ RequestsFair'
           /\ \A x \in Requests : reqs[x].phase # "none"
                => reqs'[x].phase # "none" /\ reqs'[x].era = reqs[x].era
<1>1. reqs' \in [Requests -> Request]
  BY DEF Inv, TypeOK
<1>2. ASSUME NEW x \in Requests PROVE Fair(reqs[x])'
  <2>1. CASE x = r
    <3>1. reqs'[x] = q
      BY <2>1 DEF Inv, TypeOK
    <3> QED  BY <3>1 DEF Fair, True, Succeeds, Owed
  <2>2. CASE x # r
    <3>1. PICK p \in Request : p = reqs[x] /\ p = reqs'[x]
      BY <2>2 DEF Inv, TypeOK
    <3>2. Fair(p)'
      BY <3>1, FairGrows DEF Inv, RequestsFair
    <3> QED  BY <3>1, <3>2 DEF Fair, True, Succeeds, Owed
  <2> QED  BY <2>1, <2>2
<1>3. RequestsFair'
  BY <1>2 DEF RequestsFair
<1>4. \A x \in Requests : reqs[x].phase # "none"
                => reqs'[x].phase # "none" /\ reqs'[x].era = reqs[x].era
  BY DEF Inv, TypeOK
<1> QED  BY <1>1, <1>3, <1>4

(* A response, whose cookies are owed. *)
LEMMA RespondInv ==
    ASSUME Inv, Grows, NEW r \in Requests, NEW status \in {"ok", "401", "502"},
           NEW cookies \in Tokens \cup {Keep, Clear}, Respond(r, status, cookies),
           NEW kind, NEW t, kind = reqs[r].kind, t = reqs[r].carried,
           cookies <= issued', Owed(kind, t, cookies, status)',
           UNCHANGED <<process, jar, browser, excused>>, adrift' \subseteq Tokens \cup {None}
    PROVE  Inv'
<1> DEFINE q == [reqs[r] EXCEPT !.phase = "back", !.outcome = None, !.status = status,
                               !.cookies = cookies]
<1>0. reqs[r] \in Request /\ Fair(reqs[r])
  BY DEF Inv, TypeOK, RequestsFair
<1>1. q \in Request /\ q.phase = "back" /\ q.era = reqs[r].era /\ q.outcome = None
      /\ q.status = status /\ q.cookies = cookies /\ q.carried = t /\ q.kind = kind
  BY <1>0, ZenonT(40) DEF Request
<1>2. reqs' = [reqs EXCEPT ![r] = q]
  BY <1>0 DEF Respond, Inv, TypeOK
<1> HIDE DEF q
<1>3. t <= issued'
  BY <1>0, <1>1, SomeTokens DEF Fair, Grows, Inv, TypeOK, Tokens, Request, None
<1>4. PICK p \in Request : p = q
  BY <1>1
<1>5. Fair(p)'
  BY <1>1, <1>3, <1>4 DEF Fair, True, None, Rejected
<1>6. Remembered' /\ UNCHANGED recent /\ UNCHANGED inFlight
  BY RememberedStays DEF process, Inv
<1>7. /\ reqs' \in [Requests -> Request] /\ RequestsFair'
      /\ \A x \in Requests : reqs[x].phase # "none"
            => reqs'[x].phase # "none" /\ reqs'[x].era = reqs[x].era
  BY <1>1, <1>2, <1>4, <1>5, ServesOne
<1> QED  BY <1>6, <1>7, ServerStep DEF Inv, TypeOK

(* A request that comes to wait for a refresh. *)
LEMMA RefreshInv ==
    ASSUME Inv, NEW r \in Requests, NEW t \in Tokens, t = reqs[r].carried,
           RefreshSession(r, t), UNCHANGED <<api, recent, jar, browser, history>>
    PROVE  Inv'
<1> DEFINE q == [reqs[r] EXCEPT !.phase = "waits", !.joins = t, !.outcome = recent[t]]
<1>0. reqs[r] \in Request /\ Fair(reqs[r]) /\ Grows /\ t # None
  BY ApiStays, SomeTokens DEF Inv, TypeOK, RequestsFair, Tokens, None
<1>1. q \in Request /\ q.phase = "waits" /\ q.era = reqs[r].era /\ q.outcome = recent[t]
      /\ q.status = reqs[r].status /\ q.cookies = reqs[r].cookies /\ q.carried = t
      /\ q.kind = reqs[r].kind /\ q.joins = t
  BY <1>0 DEF Request, Inv, TypeOK
<1>2. reqs' = [reqs EXCEPT ![r] = q]
  BY <1>0 DEF RefreshSession, Inv, TypeOK
<1>3. True(recent[t], t)
  <2>1. CASE recent[t] = None
    BY <2>1 DEF True, None, Rejected
  <2> QED  BY <2>1 DEF Inv, Remembered
<1> HIDE DEF q
<1>4. PICK p \in Request : p = q
  BY <1>1
<1>5. Fair(p)
  BY <1>0, <1>1, <1>3, <1>4 DEF Fair
<1>6. Remembered'
  BY <1>0, RememberedStays DEF Inv
<1>7. Fair(p)'
  BY <1>0, <1>5, FairGrows DEF Inv
<1>8. /\ reqs' \in [Requests -> Request] /\ RequestsFair'
      /\ \A x \in Requests : reqs[x].phase # "none"
            => reqs'[x].phase # "none" /\ reqs'[x].era = reqs[x].era
  BY <1>0, <1>1, <1>2, <1>4, <1>7, ServesOne
<1>9. inFlight' \subseteq Tokens /\ \A u \in inFlight' : u \in inFlight \/ u <= issued
  BY <1>0 DEF RefreshSession, Inv, TypeOK, Fair
<1>10. excused' \subseteq Tokens \cup {None} /\ adrift' \subseteq Tokens \cup {None}
       /\ recent' \in [Tokens -> Tokens \cup {None, Rejected}]
  BY DEF Inv, TypeOK, history
<1> QED  BY <1>0, <1>6, <1>8, <1>9, <1>10, ServerStep

(* A request that goes on to its render, or to the API. *)
LEMMA GoesOnInv ==
    ASSUME Inv, NEW r \in Requests, NEW phase \in {"rendering", "sent"},
           NEW again \in BOOLEAN,
           reqs' = [reqs EXCEPT ![r].phase = phase, ![r].retried = again],
           reqs[r].phase # "none",
           phase = "sent" => reqs[r].carried # None /\ reqs[r].kind = "call",
           phase = "sent" /\ again => reqs[r].outcome > 0,
           UNCHANGED <<api, process, jar, browser, history>>
    PROVE  Inv'
<1> DEFINE q == [reqs[r] EXCEPT !.phase = phase, !.retried = again]
<1>0. reqs[r] \in Request /\ Fair(reqs[r]) /\ Grows
  BY ApiStays DEF Inv, TypeOK, RequestsFair
<1>1. q \in Request /\ q.phase = phase /\ q.era = reqs[r].era /\ q.outcome = reqs[r].outcome
      /\ q.status = reqs[r].status /\ q.cookies = reqs[r].cookies
      /\ q.carried = reqs[r].carried /\ q.kind = reqs[r].kind /\ q.retried = again
  BY <1>0, ZenonT(40) DEF Request
<1>2. reqs' = [reqs EXCEPT ![r] = q]
  BY <1>0 DEF Inv, TypeOK
<1> HIDE DEF q
<1>4. PICK p \in Request : p = q
  BY <1>1
<1>5. Fair(p)
  BY <1>0, <1>1, <1>4 DEF Fair
<1>6. Remembered' /\ UNCHANGED recent /\ UNCHANGED inFlight
  BY <1>0, RememberedStays DEF process, Inv
<1>7. Fair(p)'
  BY <1>0, <1>5, FairGrows DEF Inv
<1>8. /\ reqs' \in [Requests -> Request] /\ RequestsFair'
      /\ \A x \in Requests : reqs[x].phase # "none"
            => reqs'[x].phase # "none" /\ reqs'[x].era = reqs[x].era
  BY <1>0, <1>1, <1>2, <1>4, <1>7, ServesOne
<1> QED  BY <1>0, <1>6, <1>8, ServerStep DEF Inv, TypeOK, history

-----------------------------------------------------------------------------
(* The actions of the web app's server. *)

LEMMA AtRequest ==
    ASSUME Inv, NEW r \in Requests
    PROVE  reqs[r] \in Request /\ Fair(reqs[r])
BY DEF Inv, TypeOK, RequestsFair

LEMMA ServePageInv == ASSUME Inv, NEW r \in Requests, ServePage(r) PROVE Inv'
<1>1. CASE Has(r) /\ age[reqs[r].carried] # "fresh"
  <2>1. reqs[r].carried \in Tokens
    BY <1>1, AtRequest DEF Has, Request
  <2> QED  BY <1>1, <2>1, RefreshInv DEF ServePage, browser
<1>2. CASE ~(Has(r) /\ age[reqs[r].carried] # "fresh")
  <2>1. reqs' = [reqs EXCEPT ![r].phase = "rendering", ![r].retried = reqs[r].retried]
    BY <1>2, AtRequest DEF ServePage, Inv, TypeOK, Request
  <2>2. reqs[r].retried \in BOOLEAN /\ reqs[r].phase # "none"
    BY AtRequest DEF ServePage, Awaiting, Request
  <2> QED  BY <1>2, <2>1, <2>2, GoesOnInv DEF ServePage, browser
<1> QED  BY <1>1, <1>2

LEMMA PageResumesInv == ASSUME Inv, NEW r \in Requests, PageResumes(r) PROVE Inv'
<1>1. reqs' = [reqs EXCEPT ![r].phase = "rendering", ![r].retried = reqs[r].retried]
  BY AtRequest DEF PageResumes, Inv, TypeOK, Request, Waited
<1>2. reqs[r].retried \in BOOLEAN /\ reqs[r].phase # "none"
  BY AtRequest DEF PageResumes, Waited, Request
<1> QED  BY <1>1, <1>2, GoesOnInv DEF PageResumes, browser

(* What a page's response stores is what the page was rendered with. *)
LEMMA PageOwed ==
    ASSUME Inv, NEW r \in Requests, NEW kind, NEW t, kind = reqs[r].kind,
           t = reqs[r].carried, NEW status, status = "401" => reqs[r].outcome <= 0
    PROVE  /\ PageCookies(r) \in Tokens \cup {Keep, Clear} /\ PageCookies(r) <= issued
           /\ Owed(kind, t, PageCookies(r), status)
<1>1. reqs[r] \in Request /\ Fair(reqs[r])
  BY AtRequest
<1>2. CASE reqs[r].outcome \in Tokens
  <2>1. PageCookies(r) = reqs[r].outcome /\ reqs[r].outcome > 0
        /\ reqs[r].outcome # Clear
    BY <1>2, SomeTokens DEF PageCookies, Tokens, Clear, Rejected
  <2>2. Succeeds(reqs[r].outcome, reqs[r].carried)
    BY <1>1, <2>1 DEF Fair, True
  <2> QED  BY <1>2, <2>1, <2>2, SomeTokens DEF Succeeds, Owed, Tokens
<1>3. CASE reqs[r].outcome = Rejected
  <2>1. PageCookies(r) = Clear /\ ~(Clear > 0) /\ Clear <= issued
    BY <1>3, SomeTokens DEF PageCookies, Rejected, Clear, Inv, TypeOK, Tokens
  <2>2. session[reqs[r].carried] \in over
    BY <1>1, <1>3 DEF Fair, True
  <2> QED  BY <2>1, <2>2 DEF Owed
<1>4. CASE reqs[r].outcome \in {None, Unavailable}
  <2>1. PageCookies(r) = Keep /\ ~(Keep > 0) /\ Keep <= issued /\ Keep # Clear
    BY <1>4, SomeTokens
    DEF PageCookies, Rejected, Clear, Keep, None, Unavailable, Inv, TypeOK, Tokens
  <2> QED  BY <2>1 DEF Owed
<1> QED  BY <1>1, <1>2, <1>3, <1>4 DEF Request

LEMMA RedirectedInv == ASSUME Inv, NEW r \in Requests, RedirectedToSignIn(r) PROVE Inv'
<1>1. reqs[r].outcome <= 0
  <2>1. ~(reqs[r].outcome > 0)
    BY DEF RedirectedToSignIn, RenderSession, Forwarded, None
  <2> QED  BY <2>1, AtRequest, SomeTokens DEF Request, Tokens, None, Rejected, Unavailable
<1>2. PICK kind, t : kind = reqs[r].kind /\ t = reqs[r].carried
  OBVIOUS
<1>3. /\ PageCookies(r) \in Tokens \cup {Keep, Clear} /\ PageCookies(r) <= issued
      /\ Owed(kind, t, PageCookies(r), "401")
  BY <1>1, <1>2, PageOwed
<1>4. PICK cookies \in Tokens \cup {Keep, Clear} : cookies = PageCookies(r)
  BY <1>3
<1>5. cookies <= issued' /\ Owed(kind, t, cookies, "401")'
  BY <1>3, <1>4 DEF RedirectedToSignIn, api, Owed
<1>6. Respond(r, "401", cookies) /\ Grows
      /\ UNCHANGED <<process, jar, browser, excused>> /\ adrift' \subseteq Tokens \cup {None}
  BY <1>4, ApiStays DEF RedirectedToSignIn, Inv, TypeOK, history
<1> QED  BY <1>2, <1>5, <1>6, RespondInv

LEMMA RenderedInv == ASSUME Inv, NEW r \in Requests, Rendered(r) PROVE Inv'
<1>1. PICK status \in {"ok", "401"} :
        status = IF age[RenderSession(r)] = "expired" THEN "401" ELSE "ok"
  OBVIOUS
<1>2. status = "401" => reqs[r].outcome <= 0
  <2>1. SUFFICES ASSUME status = "401" PROVE ~(reqs[r].outcome > 0)
    BY AtRequest, SomeTokens DEF Request, Tokens, None, Rejected, Unavailable
  <2>2. SUFFICES ASSUME reqs[r].outcome > 0 PROVE FALSE
    OBVIOUS
  <2>3. RenderSession(r) = reqs[r].outcome
    BY <2>2 DEF RenderSession, Forwarded, None
  <2>4. age[reqs[r].outcome] = "fresh"
    BY <2>2, AtRequest DEF Fair, True, Succeeds
  <2> QED  BY <1>1, <2>1, <2>3, <2>4
<1>3. PICK kind, t : kind = reqs[r].kind /\ t = reqs[r].carried
  OBVIOUS
<1>4. /\ PageCookies(r) \in Tokens \cup {Keep, Clear} /\ PageCookies(r) <= issued
      /\ Owed(kind, t, PageCookies(r), status)
  BY <1>2, <1>3, PageOwed
<1>5. PICK cookies \in Tokens \cup {Keep, Clear} : cookies = PageCookies(r)
  BY <1>4
<1>6. cookies <= issued' /\ Owed(kind, t, cookies, status)'
  BY <1>4, <1>5 DEF Rendered, api, Owed
<1>7. Respond(r, status, cookies) /\ Grows
      /\ UNCHANGED <<process, jar, browser, excused>> /\ adrift' \subseteq Tokens \cup {None}
  BY <1>1, <1>5, ApiStays DEF Rendered, Inv, TypeOK, history
<1> QED  BY <1>3, <1>6, <1>7, RespondInv

(* A response that leaves the cookies alone is owed to everybody. *)
LEMMA RespondKeepInv ==
    ASSUME Inv, NEW r \in Requests, NEW status \in {"ok", "401", "502"},
           Respond(r, status, Keep), UNCHANGED <<api, process, jar, browser, history>>
    PROVE  Inv'
<1>1. PICK kind, t : kind = reqs[r].kind /\ t = reqs[r].carried
  OBVIOUS
<1>2. Keep <= issued' /\ Owed(kind, t, Keep, status)'
  BY SomeTokens DEF Owed, Keep, Clear, api, Inv, TypeOK, Tokens
<1>3. Grows /\ adrift' \subseteq Tokens \cup {None} /\ UNCHANGED excused
  BY ApiStays DEF Inv, TypeOK, history
<1> QED  BY <1>1, <1>2, <1>3, RespondInv

(* A response that stores the outcome of the refresh a request waited for. *)
LEMMA RespondOutcomeInv ==
    ASSUME Inv, NEW r \in Requests, NEW status \in {"ok", "401", "502"},
           reqs[r].kind # "page", reqs[r].outcome > 0, Respond(r, status, reqs[r].outcome),
           UNCHANGED <<api, process, jar, browser, history>>
    PROVE  Inv'
<1>1. PICK kind, t : kind = reqs[r].kind /\ t = reqs[r].carried
  OBVIOUS
<1>2. Succeeds(reqs[r].outcome, t)
  BY <1>1, AtRequest DEF Fair, True
<1>3. PICK cookies \in Tokens \cup {Keep, Clear} : cookies = reqs[r].outcome
  BY AtRequest DEF Request, None, Rejected, Unavailable
<1>4. cookies <= issued' /\ Owed(kind, t, cookies, status)'
  BY <1>1, <1>2, <1>3 DEF Owed, Succeeds, Clear, api
<1>5. Grows /\ adrift' \subseteq Tokens \cup {None} /\ UNCHANGED excused
  BY ApiStays DEF Inv, TypeOK, history
<1> QED  BY <1>1, <1>3, <1>4, <1>5, RespondInv

LEMMA ServeCallInv == ASSUME Inv, NEW r \in Requests, ServeCall(r) PROVE Inv'
<1>1. CASE Has(r)
  <2>1. ~reqs[r].retried /\ reqs[r].phase # "none"
    BY AtRequest DEF ServeCall, Awaiting, Fair
  <2>2. reqs' = [reqs EXCEPT ![r].phase = "sent", ![r].retried = FALSE]
    BY <1>1, <2>1, AtRequest DEF ServeCall, Inv, TypeOK, Request
  <2> QED  BY <1>1, <2>1, <2>2, GoesOnInv DEF ServeCall, Awaiting, Has, browser
<1>2. CASE ~Has(r)
  BY <1>2, RespondKeepInv DEF ServeCall
<1> QED  BY <1>1, <1>2

(* The cookies of a proxied call's response. *)
LEMMA RespondStoredInv ==
    ASSUME Inv, NEW r \in Requests, NEW status \in {"ok", "401", "502"},
           reqs[r].phase = "sent", Respond(r, status, Stored(r)),
           UNCHANGED <<api, process, jar, browser, history>>
    PROVE  Inv'
<1>0. reqs[r].kind # "page"
  BY AtRequest DEF Fair
<1>1. CASE reqs[r].retried
  <2>1. reqs[r].outcome > 0
    BY <1>1, AtRequest DEF Fair
  <2> QED  BY <1>0, <1>1, <2>1, RespondOutcomeInv DEF Stored
<1>2. CASE ~reqs[r].retried
  BY <1>2, RespondKeepInv DEF Stored
<1> QED  BY <1>1, <1>2

LEMMA CallAnsweredInv == ASSUME Inv, NEW r \in Requests, CallAnswered(r) PROVE Inv'
<1>0. UNCHANGED <<api, jar, browser, history>> /\ reqs[r].phase = "sent"
  BY DEF CallAnswered
<1>1. CASE age[With(r)] # "expired"
  BY <1>0, <1>1, RespondStoredInv DEF CallAnswered
<1>2. CASE age[With(r)] = "expired" /\ reqs[r].retried
  BY <1>0, <1>2, RespondStoredInv DEF CallAnswered
<1>3. CASE age[With(r)] = "expired" /\ ~reqs[r].retried
  <2>1. reqs[r].carried \in Tokens
    BY <1>0, AtRequest DEF Fair, Request
  <2> QED  BY <1>0, <1>3, <2>1, RefreshInv DEF CallAnswered
<1> QED  BY <1>1, <1>2, <1>3

LEMMA ServeRenewalInv == ASSUME Inv, NEW r \in Requests, ServeRenewal(r) PROVE Inv'
<1>1. CASE Has(r)
  <2>1. reqs[r].carried \in Tokens
    BY <1>1, AtRequest DEF Has, Request
  <2> QED  BY <1>1, <2>1, RefreshInv DEF ServeRenewal
<1>2. CASE ~Has(r)
  <2>1. PICK kind, t : kind = reqs[r].kind /\ t = reqs[r].carried
    OBVIOUS
  <2>2. Clear <= issued' /\ Owed(kind, t, Clear, "401")'
    BY <1>2, <2>1, SomeTokens DEF Has, Owed, Clear, ServeRenewal, api, Inv, TypeOK, Tokens
  <2>3. Grows /\ adrift' \subseteq Tokens \cup {None} /\ UNCHANGED excused
    BY ApiStays DEF ServeRenewal, Inv, TypeOK, history
  <2> QED  BY <1>2, <2>1, <2>2, <2>3, RespondInv DEF ServeRenewal
<1> QED  BY <1>1, <1>2

LEMMA ResumeInv == ASSUME Inv, NEW r \in Requests, Resume(r) PROVE Inv'
<1>0. UNCHANGED <<api, process, jar, browser, history>> /\ reqs[r].kind # "page"
      /\ reqs[r].phase = "waits" /\ reqs[r].outcome # None
  BY DEF Resume, Waited
<1>1. CASE reqs[r].outcome > 0 /\ reqs[r].kind = "call"
  <2>1. reqs[r].carried # None
    BY <1>0, AtRequest DEF Fair
  <2> QED  BY <1>0, <1>1, <2>1, GoesOnInv DEF Resume
<1>2. CASE reqs[r].outcome > 0 /\ reqs[r].kind # "call"
  BY <1>0, <1>2, RespondOutcomeInv DEF Resume
<1>3. CASE reqs[r].outcome = Rejected
  <2>1. PICK kind, t : kind = reqs[r].kind /\ t = reqs[r].carried
    OBVIOUS
  <2>2. session[t] \in over
    BY <1>3, <2>1, AtRequest DEF Fair, True
  <2>3. Clear <= issued' /\ Owed(kind, t, Clear, "401")'
    BY <1>0, <2>2, SomeTokens DEF Owed, Clear, api, Inv, TypeOK, Tokens
  <2>4. Grows /\ adrift' \subseteq Tokens \cup {None} /\ UNCHANGED excused
    BY <1>0, ApiStays DEF Inv, TypeOK, history
  <2>5. Respond(r, "401", Clear)
    BY <1>3 DEF Resume, Rejected
  <2> QED  BY <1>0, <2>1, <2>3, <2>4, <2>5, RespondInv
<1>4. CASE ~(reqs[r].outcome > 0) /\ reqs[r].outcome # Rejected
  BY <1>0, <1>4, RespondKeepInv DEF Resume
<1>5. reqs[r].outcome > 0 => reqs[r].outcome # Rejected
  BY DEF Rejected
<1> QED  BY <1>1, <1>2, <1>3, <1>4

LEMMA CallFailedInv == ASSUME Inv, NEW r \in Requests, CallFailed(r) PROVE Inv'
<1>0. UNCHANGED <<api, process, jar, browser, history>>
  BY DEF CallFailed
<1>1. CASE reqs[r].phase = "sent" /\ Respond(r, "502", Stored(r))
  BY <1>0, <1>1, RespondStoredInv
<1>2. CASE Rendering(r) /\ Respond(r, "502", PageCookies(r))
  <2>1. PICK kind, t : kind = reqs[r].kind /\ t = reqs[r].carried
    OBVIOUS
  <2>2. /\ PageCookies(r) \in Tokens \cup {Keep, Clear} /\ PageCookies(r) <= issued
        /\ Owed(kind, t, PageCookies(r), "502")
    <3>1. PICK status : status = "502"
      OBVIOUS
    <3>2. status # "401"
      BY <3>1
    <3> QED  BY <2>1, <3>1, <3>2, PageOwed
  <2>3. PICK cookies \in Tokens \cup {Keep, Clear} : cookies = PageCookies(r)
    BY <2>2
  <2>4. cookies <= issued' /\ Owed(kind, t, cookies, "502")'
    BY <1>0, <2>2, <2>3 DEF api, Owed
  <2>5. Grows /\ adrift' \subseteq Tokens \cup {None} /\ UNCHANGED excused
    BY <1>0, ApiStays DEF Inv, TypeOK, history
  <2> QED  BY <1>0, <1>2, <2>1, <2>3, <2>4, <2>5, RespondInv
<1> QED  BY <1>1, <1>2 DEF CallFailed

(* A token of a new session, which the response stores. *)
LEMMA RespondNewInv ==
    ASSUME Inv, NEW r \in Requests, reqs[r].kind \in {"login", "switch"},
           Grows, issued' = issued + 1, Respond(r, "ok", issued + 1),
           UNCHANGED <<process, jar, browser, history>>
    PROVE  Inv'
<1>1. PICK kind, t : kind = reqs[r].kind /\ t = reqs[r].carried
  OBVIOUS
<1>2. PICK cookies \in Tokens \cup {Keep, Clear} : cookies = issued + 1
  BY DEF Grows
<1>3. cookies <= issued' /\ cookies # Clear
  BY <1>2, SomeTokens DEF Inv, TypeOK, Tokens, Clear
<1>4. Owed(kind, t, cookies, "ok")'
  BY <1>1, <1>3 DEF Owed
<1>5. adrift' \subseteq Tokens \cup {None} /\ UNCHANGED excused
  BY DEF Inv, TypeOK, history
<1> QED  BY <1>1, <1>2, <1>3, <1>4, <1>5, RespondInv

LEMMA ServeLoginGrows ==
    ASSUME Inv, NEW r \in Requests, ServeLogin(r) PROVE Grows /\ issued' = issued + 1
<1>1. issued + 1 \in Tokens
  BY SomeTokens DEF ServeLogin, Issue, CanIssue, Inv, TypeOK, Tokens
<1> QED  BY <1>1, IssueGrows, SomeTokens DEF ServeLogin, Grows, Inv, TypeOK, Tokens

LEMMA ServeLoginInv == ASSUME Inv, NEW r \in Requests, ServeLogin(r) PROVE Inv'
BY ServeLoginGrows, RespondNewInv DEF ServeLogin, Awaiting

LEMMA ServeSwitchGrows ==
    ASSUME Inv, NEW r \in Requests, ServeSwitch(r)
    PROVE  Grows /\ (Has(r) /\ age[reqs[r].carried] # "expired" => issued' = issued + 1)
<1>1. CASE Has(r) /\ age[reqs[r].carried] # "expired"
  <2>1. issued + 1 \in Tokens
    BY <1>1, SomeTokens DEF ServeSwitch, Issue, CanIssue, Inv, TypeOK, Tokens
  <2>2. session[reqs[r].carried] \in Tokens \cup {None}
    BY <1>1, AtRequest DEF Has, Request, Inv, TypeOK
  <2>3. /\ Issue(issued + 1) /\ UNCHANGED <<used, replayed>>
        /\ over' = over \cup {session[reqs[r].carried]}
    BY <1>1 DEF ServeSwitch
  <2>4. /\ issued' = issued + 1 /\ issued' \in Tokens
        /\ session' \in [Tokens -> Tokens \cup {None}] /\ age' \in [Tokens -> Age]
        /\ \A t \in Tokens : t <= issued => session'[t] = session[t] /\ age'[t] = age[t]
    BY <2>1, <2>3, IssueGrows DEF Inv
  <2>5. issued <= issued'
    BY <2>4, SomeTokens DEF Inv, TypeOK, Tokens
  <2>6. over \subseteq over' /\ used' \subseteq Tokens
        /\ over' \cup replayed' \subseteq Tokens \cup {None}
    BY <2>2, <2>3 DEF Inv, TypeOK
  <2> QED  BY <2>4, <2>5, <2>6 DEF Grows
<1>2. CASE ~(Has(r) /\ age[reqs[r].carried] # "expired")
  BY <1>2, ApiStays DEF ServeSwitch, Inv
<1> QED  BY <1>1, <1>2

LEMMA ServeSwitchInv == ASSUME Inv, NEW r \in Requests, ServeSwitch(r) PROVE Inv'
<1>1. CASE Has(r) /\ age[reqs[r].carried] # "expired"
  BY <1>1, ServeSwitchGrows, RespondNewInv DEF ServeSwitch, Awaiting
<1>2. CASE ~(Has(r) /\ age[reqs[r].carried] # "expired")
  BY <1>2, RespondKeepInv DEF ServeSwitch
<1> QED  BY <1>1, <1>2

LEMMA ServeLogoutGrows == ASSUME Inv, NEW r \in Requests, ServeLogout(r) PROVE Grows
<1>1. CASE UNCHANGED api
  BY <1>1, ApiStays DEF Inv
<1>2. CASE /\ over' = IF Has(r) THEN over \cup {session[reqs[r].carried]} ELSE over
           /\ UNCHANGED <<issued, session, age, used, replayed>>
  <2>1. Has(r) => session[reqs[r].carried] \in Tokens \cup {None}
    BY AtRequest DEF Has, Request, Inv, TypeOK
  <2> QED  BY <1>2, <2>1, SomeTokens DEF Grows, Inv, TypeOK, Tokens
<1> QED  BY <1>1, <1>2 DEF ServeLogout

LEMMA ServeLogoutInv == ASSUME Inv, NEW r \in Requests, ServeLogout(r) PROVE Inv'
<1>1. PICK kind, t : kind = reqs[r].kind /\ t = reqs[r].carried
  OBVIOUS
<1>4. adrift' \subseteq Tokens \cup {None}
  <2>1. Has(r) => session[reqs[r].carried] \in Tokens \cup {None}
    BY AtRequest DEF Has, Request, Inv, TypeOK
  <2> QED  BY <2>1 DEF ServeLogout, Inv, TypeOK
<1>2. Grows
  BY ServeLogoutGrows
<1>3. Clear <= issued' /\ Owed(kind, t, Clear, "ok")'
  BY <1>1, <1>2, SomeTokens DEF ServeLogout, Awaiting, Owed, Clear, Grows, Tokens
<1> QED  BY <1>1, <1>2, <1>3, <1>4, RespondInv DEF ServeLogout

-----------------------------------------------------------------------------
(* The actions of refresh.ts. *)

(* POST /auth/refresh: what it does is what Outcome says of it. *)
LEMMA ExchangeGrows ==
    ASSUME Inv, NEW t \in Tokens, t <= issued, Exchange(t), Outcome(t) = Rejected \/ CanIssue,
           NEW outcome, outcome = Outcome(t)
    PROVE  /\ Grows /\ outcome \in Tokens \cup {Rejected} /\ outcome <= issued'
           /\ True(outcome, t)'
<1>0. session[t] \in Tokens \cup {None} /\ t # None
  BY SomeTokens DEF Inv, TypeOK, Tokens, None
<1>1. CASE session[t] \in over
  <2>1. outcome = Rejected /\ UNCHANGED api
    BY <1>1 DEF Outcome, Exchange
  <2>2. Grows /\ Rejected <= issued'
    BY <2>1, ApiStays, SomeTokens DEF Inv, TypeOK, Tokens, Rejected, api
  <2> QED  BY <1>0, <1>1, <2>1, <2>2 DEF True, Rejected, api
<1>2. CASE session[t] \notin over /\ t \in used
  <2>1. /\ outcome = Rejected /\ UNCHANGED <<issued, session, age, used>>
        /\ over' = over \cup {session[t]} /\ replayed' = replayed \cup {session[t]}
    BY <1>2 DEF Outcome, Exchange
  <2>2. Grows /\ Rejected <= issued'
    BY <1>0, <2>1, SomeTokens DEF Grows, Inv, TypeOK, Tokens, Rejected
  <2> QED  BY <1>0, <2>1, <2>2 DEF True, Rejected
<1>3. CASE session[t] \notin over /\ t \notin used
  <2>1. /\ outcome = issued + 1 /\ Issue(session[t]) /\ used' = used \cup {t}
        /\ UNCHANGED <<over, replayed>>
    BY <1>3 DEF Outcome, Exchange
  <2>2. /\ issued' = issued + 1 /\ issued' \in Tokens
        /\ session' \in [Tokens -> Tokens \cup {None}] /\ age' \in [Tokens -> Age]
        /\ \A u \in Tokens : u <= issued => session'[u] = session[u] /\ age'[u] = age[u]
        /\ session'[issued'] = session[t] /\ age'[issued'] = "fresh"
    BY <1>0, <2>1, IssueGrows DEF Inv
  <2>3. Grows
    BY <2>1, <2>2, SomeTokens DEF Grows, Inv, TypeOK, Tokens
  <2>4. t < issued' /\ issued' <= issued' /\ issued' # Rejected /\ session'[t] = session[t]
    BY <2>2, SomeTokens DEF Inv, TypeOK, Tokens, Rejected
  <2> QED  BY <1>0, <2>1, <2>2, <2>3, <2>4 DEF True, Succeeds
<1> QED  BY <1>1, <1>2, <1>3

(* Settling the exchange of t: everybody who waits for it carries it. *)
LEMMA SettleInv ==
    ASSUME Inv, Grows, NEW t \in inFlight,
           NEW outcome \in Tokens \cup {Rejected, Unavailable}, Settle(t, outcome),
           outcome <= issued', True(outcome, t)', UNCHANGED <<jar, browser>>,
           excused' \subseteq Tokens \cup {None}, adrift' \subseteq Tokens \cup {None}
    PROVE  Inv'
<1>0. t \in Tokens /\ t <= issued /\ t <= issued'
  BY SomeTokens DEF Inv, TypeOK, Known, Grows, Tokens
<1>1. Remembered' /\ recent' \in [Tokens -> Tokens \cup {None, Rejected}]
  <2>1. CASE outcome = Unavailable
    BY <2>1, RememberedStays DEF Settle, Inv, TypeOK
  <2>2. CASE outcome # Unavailable
    <3>1. recent' = [recent EXCEPT ![t] = outcome]
      BY <2>2 DEF Settle
    <3>2. recent' \in [Tokens -> Tokens \cup {None, Rejected}]
      BY <2>2, <3>1 DEF Inv, TypeOK
    <3>3. ASSUME NEW u \in Tokens, recent'[u] # None
          PROVE  u <= issued' /\ recent'[u] <= issued' /\ True(recent[u], u)'
      <4>1. CASE u = t
        <5>1. recent'[u] = outcome
          BY <1>0, <3>1, <4>1 DEF Inv, TypeOK
        <5> QED  BY <1>0, <4>1, <5>1 DEF True, Succeeds
      <4>2. CASE u # t
        <5>1. PICK out \in Tokens \cup {None, Rejected} : out = recent[u] /\ out = recent'[u]
          BY <3>1, <4>2 DEF Inv, TypeOK
        <5>2. out # None /\ u <= issued /\ out <= issued /\ True(out, u)
          BY <3>3, <5>1 DEF Inv, Remembered
        <5>3. u <= issued' /\ out <= issued' /\ True(out, u)'
          BY <5>2, RememberedGrows DEF Inv
        <5> QED  BY <5>1, <5>3 DEF True, Succeeds
      <4> QED  BY <4>1, <4>2
    <3> QED  BY <3>2, <3>3 DEF Remembered
  <2> QED  BY <2>1, <2>2
<1>2. ASSUME NEW r \in Requests
      PROVE  /\ reqs'[r] \in Request /\ Fair(reqs[r])'
             /\ reqs[r].phase # "none" => reqs'[r].phase # "none" /\ reqs'[r].era = reqs[r].era
  <2>0. reqs[r] \in Request /\ Fair(reqs[r])
    BY AtRequest
  <2>1. PICK p \in Request : p = reqs[r]
    BY <2>0
  <2>2. Fair(p)'
    BY <2>0, <2>1, FairGrows DEF Inv
  <2>3. CASE reqs'[r] = reqs[r]
    BY <2>0, <2>1, <2>2, <2>3 DEF Fair, True, Succeeds, Owed
  <2>4. CASE /\ reqs[r].phase = "waits" /\ reqs[r].joins = t
             /\ reqs'[r] = [reqs[r] EXCEPT !.outcome = outcome]
    <3>1. PICK q \in Request : q = reqs'[r]
      BY <2>0, <2>4 DEF Request
    <3>2. /\ q.phase = "waits" /\ q.outcome = outcome /\ q.carried = t /\ q.joins = t
          /\ q.kind = p.kind /\ q.status = p.status /\ q.cookies = p.cookies
          /\ q.era = p.era /\ p.carried = t
      BY <2>0, <2>1, <2>4, <3>1 DEF Request, Fair
    <3>3. Fair(q)'
      BY <1>0, <2>2, <3>2, SomeTokens DEF Fair, Tokens, None
    <3>4. Fair(reqs[r])'
      BY <3>1, <3>3 DEF Fair, True, Succeeds, Owed
    <3> QED  BY <2>1, <3>1, <3>2, <3>4
  <2> QED  BY <2>3, <2>4 DEF Settle, Tell
<1>3. reqs' \in [Requests -> Request]
  BY <1>2 DEF Settle, Tell
<1>4. RequestsFair'
  BY <1>2 DEF RequestsFair
<1>5. inFlight' \subseteq Tokens /\ \A u \in inFlight' : u \in inFlight \/ u <= issued
  BY DEF Settle, Inv, TypeOK
<1> QED  BY <1>1, <1>2, <1>3, <1>4, <1>5, ServerStep

LEMMA RefreshAnsweredInv == ASSUME Inv, NEW t \in Tokens, RefreshAnswered(t) PROVE Inv'
<1>1. t \in inFlight /\ t <= issued
  BY DEF RefreshAnswered, Inv, Known
<1>2. PICK outcome : outcome = Outcome(t)
  OBVIOUS
<1>3. /\ Grows /\ outcome \in Tokens \cup {Rejected} /\ outcome <= issued'
      /\ True(outcome, t)'
  BY <1>1, <1>2, ExchangeGrows DEF RefreshAnswered
<1>4. UNCHANGED <<jar, browser>> /\ Settle(t, outcome)
  BY <1>2 DEF RefreshAnswered
<1>5. excused' \subseteq Tokens \cup {None} /\ adrift' \subseteq Tokens \cup {None}
  BY DEF RefreshAnswered, history, Inv, TypeOK
<1> QED  BY <1>1, <1>3, <1>4, <1>5, SettleInv

LEMMA RefreshFailedInv == ASSUME Inv, NEW t \in Tokens, RefreshFailed(t) PROVE Inv'
<1>1. t \in inFlight /\ t <= issued /\ session[t] \in Tokens \cup {None}
  BY DEF RefreshFailed, Inv, Known, TypeOK
<1>2. Grows
  <2>1. CASE UNCHANGED api
    BY <2>1, ApiStays DEF Inv
  <2>2. CASE Exchange(t) /\ (Outcome(t) = Rejected \/ CanIssue)
    BY <1>1, <2>2, ExchangeGrows
  <2> QED  BY <2>1, <2>2 DEF RefreshFailed
<1>3. True(Unavailable, t)' /\ Unavailable <= issued'
  BY <1>2, SomeTokens DEF True, Unavailable, Rejected, Grows, Tokens
<1>4. excused' \subseteq Tokens \cup {None} /\ adrift' \subseteq Tokens \cup {None}
  BY <1>1 DEF RefreshFailed, Inv, TypeOK
<1> QED  BY <1>1, <1>2, <1>3, <1>4, SettleInv DEF RefreshFailed

LEMMA ForgetInv ==
    ASSUME Inv, NEW t \in Tokens, GraceEnds(t) \/ Evicted(t) PROVE Inv'
<1>1. UNCHANGED <<api, inFlight, jar, reqs, browser, adrift>>
      /\ recent' = [recent EXCEPT ![t] = None]
  BY DEF GraceEnds, Evicted, history
<1>0. excused' \subseteq Tokens \cup {None}
  BY DEF GraceEnds, Evicted, history, Inv, TypeOK
<1>2. recent' \in [Tokens -> Tokens \cup {None, Rejected}]
      /\ \A u \in Tokens : recent'[u] = None \/ recent'[u] = recent[u]
  BY <1>1 DEF Inv, TypeOK
<1>3. Remembered'
  BY <1>1, <1>2 DEF Inv, Remembered, True, Succeeds, api
<1>4. RequestsFair'
  BY <1>1 DEF Inv, RequestsFair, Fair, True, Succeeds, Owed, api
<1> QED
  BY <1>0, <1>1, <1>2, <1>3, <1>4 DEF Inv, TypeOK, Known, Joined, api, browser

(* A token grows old when no request of before it is under way, nor the grace of the
   token it succeeded. *)
LEMMA AgesInv == ASSUME Inv, NEW t \in Tokens, Ages(t) PROVE Inv'
<1>1. /\ UNCHANGED <<issued, session, used, over, replayed, process, jar, reqs, browser,
                     history>>
      /\ age' = [age EXCEPT ![t] = Older[age[t]]] /\ age[t] \in DOMAIN Older
      /\ \A r \in Requests : reqs[r] # Nothing => reqs[r].carried >= t
      /\ \A u \in Tokens : recent[u] # t
  BY DEF Ages, Idle
<1>2. age' \in [Tokens -> Age] /\ \A u \in Tokens : u # t => age'[u] = age[u]
  BY <1>1 DEF Older, Age, Inv, TypeOK
<1>3. ASSUME NEW u \in Tokens, recent'[u] # None
      PROVE  u <= issued' /\ recent'[u] <= issued' /\ True(recent[u], u)'
  <2>1. recent'[u] = recent[u] /\ recent[u] \in Tokens \cup {Rejected}
    BY <1>1, <1>3 DEF process, Inv, TypeOK
  <2>2. u <= issued /\ recent[u] <= issued /\ True(recent[u], u)
    BY <1>3, <2>1 DEF Inv, Remembered
  <2> QED
    BY <1>1, <1>2, <2>1, <2>2, SomeTokens DEF True, Succeeds, Rejected, Tokens
<1>4. ASSUME NEW r \in Requests PROVE Fair(reqs[r])'
  <2>1. reqs[r] \in Request /\ Fair(reqs[r]) /\ reqs'[r] = reqs[r]
    BY <1>1, AtRequest
  <2>2. ASSUME reqs[r].outcome > 0 PROVE Succeeds(reqs[r].outcome, reqs[r].carried)'
    <3>1. Succeeds(reqs[r].outcome, reqs[r].carried) /\ reqs[r].outcome \in Tokens
          /\ reqs[r].carried \in Tokens
      BY <2>1, <2>2, SomeTokens
      DEF Fair, True, Succeeds, Request, None, Rejected, Unavailable
    <3>2. reqs[r] # Nothing
      BY <2>2 DEF Nothing, None
    <3>3. reqs[r].outcome # t
      BY <1>1, <3>1, <3>2, SomeTokens DEF Succeeds, Tokens
    <3> QED  BY <1>1, <1>2, <2>1, <3>1, <3>3 DEF Succeeds
  <2>3. True(reqs[r].outcome, reqs[r].carried)'
    BY <1>1, <2>1, <2>2 DEF Fair, True
  <2> QED  BY <1>1, <2>1, <2>3 DEF Fair, Owed
<1>5. Remembered' /\ RequestsFair'
  BY <1>3, <1>4 DEF Remembered, RequestsFair
<1> QED
  BY <1>1, <1>2, <1>5 DEF Inv, TypeOK, Known, Joined, process, browser, history

-----------------------------------------------------------------------------
(* The browser's actions. *)

\* A request that has just been sent, with a token the API has issued.
Asks(q) ==
    /\ q \in Request /\ q.phase = "arrived" /\ ~q.retried
    /\ q.outcome = None /\ q.cookies = Keep /\ q.carried <= issued

LEMMA AskAsks ==
    ASSUME NEW r, NEW kind \in {"page", "call", "renewal", "login", "switch", "logout"},
           jar \in Tokens \cup {None}, jar <= issued
    PROVE  Asks(Ask(r, kind)) /\ Ask(r, kind).era = 0
BY DEF Asks, Ask, Nothing, Request, None, Keep

LEMMA AsksFair ==
    ASSUME TypeOK, NEW q, q = Nothing \/ Asks(q) PROVE q \in Request /\ Fair(q)
<1>1. /\ q \in Request /\ q.carried <= issued /\ q.outcome = None /\ q.cookies = Keep
      /\ q.phase \notin {"waits", "sent"}
      /\ q.phase = "arrived" => ~q.retried
  <2>1. CASE q = Nothing
    BY <2>1, SomeTokens DEF Nothing, Request, TypeOK, Tokens, None, Keep
  <2>2. CASE Asks(q)
    BY <2>2 DEF Asks, None, Keep
  <2> QED  BY <2>1, <2>2
<1> QED
  BY <1>1, SomeTokens
  DEF Fair, True, Owed, None, Keep, Clear, Rejected, TypeOK, Tokens

(* What the browser does to its requests: it sends some, and is done with others. *)
LEMMA BrowserStep ==
    ASSUME Inv, UNCHANGED <<api, process>>,
           jar' \in Tokens \cup {None}, jar' <= issued,
           DOMAIN reqs' = Requests, reqs' = [r \in Requests |-> reqs'[r]],
           \A r \in Requests : reqs'[r] = reqs[r] \/ reqs'[r] = Nothing \/ Asks(reqs'[r]),
           calls' \in [Calls -> Call], pendingRefresh' \in Renewals \cup {None},
           era' \in Nat, signedOut' \in BOOLEAN, adrift' \subseteq Tokens \cup {None},
           excused' \subseteq Tokens \cup {None}, Joined'
    PROVE  Inv'
<1>0. Grows
  BY ApiStays DEF Inv
<1>1. ASSUME NEW r \in Requests PROVE reqs'[r] \in Request /\ Fair(reqs[r])'
  <2>1. PICK q : q = reqs'[r]
    OBVIOUS
  <2>2. q \in Request /\ Fair(q)
    BY <2>1, AsksFair, AtRequest DEF Inv
  <2>3. Fair(q)'
    BY <1>0, <2>2, FairGrows DEF Inv
  <2> QED  BY <2>1, <2>2, <2>3 DEF Fair, True, Succeeds, Owed
<1>2. reqs' \in [Requests -> Request]
  BY <1>1
<1>3. RequestsFair'
  BY <1>1 DEF RequestsFair
<1>4. Remembered'
  BY <1>0, RememberedStays DEF process, Inv
<1>5. Known'
  BY DEF Known, Inv, api, process
<1>6. TypeOK'
  BY <1>2 DEF Inv, TypeOK, api, process
<1> QED  BY <1>3, <1>4, <1>5, <1>6 DEF Inv

(* A response brings a token the API has issued, or none. *)
LEMMA SetCookiesKnown ==
    ASSUME Inv, NEW r \in Requests, SetCookies(r)
    PROVE  /\ jar' \in Tokens \cup {None} /\ jar' <= issued
           /\ excused' \cup adrift' \subseteq Tokens \cup {None}
<1>1. reqs[r].cookies \in used => session[reqs[r].cookies] \in Tokens \cup {None}
  BY DEF Inv, TypeOK
<1>2. jar # None => session[jar] \in Tokens \cup {None}
  BY DEF Inv, TypeOK
<1>3. excused' \cup adrift' \subseteq Tokens \cup {None}
  BY <1>1, <1>2 DEF SetCookies, Displaces, Inv, TypeOK
<1> QED
  BY <1>3, AtRequest DEF SetCookies, Request, Fair, Inv, TypeOK, Known, Keep, Clear, None

LEMMA JarKnown == Inv => jar \in Tokens \cup {None} /\ jar <= issued
BY DEF Inv, TypeOK, Known

(* A page, or what signs in and out, is asked for, or is answered. *)
LEMMA OtherStep ==
    ASSUME Inv, NEW r \in Pages \cup {Door}, NEW q, q = Nothing \/ Asks(q),
           reqs' = [reqs EXCEPT ![r] = q], jar' \in Tokens \cup {None}, jar' <= issued,
           UNCHANGED <<api, process, calls>>, signedOut' \in BOOLEAN,
           excused' \cup adrift' \subseteq Tokens \cup {None},
           \/ pendingRefresh' = pendingRefresh /\ era' = era
           \/ pendingRefresh' = None /\ era' = era + 1
    PROVE  Inv'
<1>1. \A x \in Requests : reqs'[x] = IF x = r THEN q ELSE reqs[x]
  BY DEF Inv, TypeOK, Requests
<1>2. \A x \in Renewals : x # r
  BY Apart
<1>3. Joined'
  BY <1>1, <1>2 DEF Inv, Joined, TypeOK, Call, Requests, None
<1>4. DOMAIN reqs' = Requests /\ reqs' = [x \in Requests |-> reqs'[x]]
  BY DEF Inv, TypeOK
<1>5. calls' \in [Calls -> Call] /\ pendingRefresh' \in Renewals \cup {None} /\ era' \in Nat
  BY DEF Inv, TypeOK
<1> QED  BY <1>1, <1>3, <1>4, <1>5, BrowserStep

LEMMA NavigateInv == ASSUME Inv, NEW r \in Pages, Navigate(r) PROVE Inv'
<1>1. Asks(Ask(r, "page"))
  BY AskAsks, JarKnown
<1>2. /\ reqs' = [reqs EXCEPT ![r] = Ask(r, "page")]
      /\ UNCHANGED <<api, process, jar, browser, history>>
  BY DEF Navigate
<1>7. PICK q : q = Ask(r, "page")
  OBVIOUS
<1>8. /\ UNCHANGED <<api, process, calls>> /\ signedOut' \in BOOLEAN
      /\ excused' \cup adrift' \subseteq Tokens \cup {None}
      /\ \/ pendingRefresh' = pendingRefresh /\ era' = era
         \/ pendingRefresh' = None /\ era' = era + 1
  BY <1>2 DEF browser, history, Inv, TypeOK
<1>9. q = Nothing \/ Asks(q)
  BY <1>1, <1>7
<1> QED  BY <1>2, JarKnown, <1>7, <1>8, <1>9, OtherStep

LEMMA SignOutInv == ASSUME Inv, SignOut PROVE Inv'
<1>1. Asks(Ask(Door, "logout"))
  BY AskAsks, JarKnown
<1>2. /\ reqs' = [reqs EXCEPT ![Door] = Ask(Door, "logout")]
      /\ pendingRefresh' = None /\ era' = era + 1
      /\ UNCHANGED <<api, process, jar, calls, signedOut, history>>
  BY DEF SignOut
<1>7. PICK q : q = Ask(Door, "logout")
  OBVIOUS
<1>8. /\ UNCHANGED <<api, process, calls>> /\ signedOut' \in BOOLEAN
      /\ excused' \cup adrift' \subseteq Tokens \cup {None}
      /\ \/ pendingRefresh' = pendingRefresh /\ era' = era
         \/ pendingRefresh' = None /\ era' = era + 1
  BY <1>2 DEF history, Inv, TypeOK
<1>9. q = Nothing \/ Asks(q)
  BY <1>1, <1>7
<1> QED  BY <1>2, JarKnown, <1>7, <1>8, <1>9, OtherStep

LEMMA EnterInv ==
    ASSUME Inv, NEW kind \in {"login", "switch"}, Enter(kind) PROVE Inv'
<1>1. Asks(Ask(Door, kind))
  BY AskAsks, JarKnown
<1>2. /\ reqs' = [reqs EXCEPT ![Door] = Ask(Door, kind)]
      /\ UNCHANGED <<api, process, jar, browser, history>>
  BY DEF Enter
<1>7. PICK q : q = Ask(Door, kind)
  OBVIOUS
<1>8. /\ UNCHANGED <<api, process, calls>> /\ signedOut' \in BOOLEAN
      /\ excused' \cup adrift' \subseteq Tokens \cup {None}
      /\ \/ pendingRefresh' = pendingRefresh /\ era' = era
         \/ pendingRefresh' = None /\ era' = era + 1
  BY <1>2 DEF browser, history, Inv, TypeOK
<1>9. q = Nothing \/ Asks(q)
  BY <1>1, <1>7
<1> QED  BY <1>2, JarKnown, <1>7, <1>8, <1>9, OtherStep

LEMMA PageArrivesInv == ASSUME Inv, NEW r \in Pages, PageArrives(r) PROVE Inv'
<1>1. /\ reqs' = [reqs EXCEPT ![r] = Nothing] /\ SetCookies(r)
      /\ UNCHANGED <<api, process, browser>>
  BY DEF PageArrives, Done
<1>2. jar' \in Tokens \cup {None} /\ jar' <= issued
      /\ excused' \cup adrift' \subseteq Tokens \cup {None}
  BY <1>1, SetCookiesKnown DEF Requests
<1>7. PICK q : q = Nothing
  OBVIOUS
<1>8. /\ UNCHANGED <<api, process, calls>> /\ signedOut' \in BOOLEAN
      /\ \/ pendingRefresh' = pendingRefresh /\ era' = era
         \/ pendingRefresh' = None /\ era' = era + 1
  BY <1>1 DEF browser, Inv, TypeOK
<1>9. q = Nothing \/ Asks(q)
  BY <1>1, <1>7
<1> QED  BY <1>1, <1>2, <1>7, <1>8, <1>9, OtherStep

LEMMA DoorArrivesInv == ASSUME Inv, DoorArrives PROVE Inv'
<1>1. /\ reqs' = [reqs EXCEPT ![Door] = Nothing] /\ SetCookies(Door)
      /\ UNCHANGED <<api, process, calls, pendingRefresh, era>>
  BY DEF DoorArrives, Done
<1>2. jar' \in Tokens \cup {None} /\ jar' <= issued
      /\ excused' \cup adrift' \subseteq Tokens \cup {None}
  BY <1>1, SetCookiesKnown DEF Requests
<1>3. signedOut' \in BOOLEAN
  BY DEF DoorArrives, Inv, TypeOK
<1>7. PICK q : q = Nothing
  OBVIOUS
<1>8. /\ UNCHANGED <<api, process, calls>> /\ signedOut' \in BOOLEAN
      /\ \/ pendingRefresh' = pendingRefresh /\ era' = era
         \/ pendingRefresh' = None /\ era' = era + 1
  BY <1>1, <1>3
<1>9. q = Nothing \/ Asks(q)
  BY <1>1, <1>7
<1> QED  BY <1>1, <1>2, <1>7, <1>8, <1>9, OtherStep

LEMMA StartCallInv == ASSUME Inv, NEW c \in Calls, StartCall(c) PROVE Inv'
<1>1. Asks(Ask(c, "call"))
  BY AskAsks, JarKnown
<1>2. /\ reqs' = [reqs EXCEPT ![c] = Ask(c, "call")]
      /\ calls' = [calls EXCEPT ![c].phase = "first"]
      /\ UNCHANGED <<api, process, jar, pendingRefresh, era, signedOut, history>>
  BY DEF StartCall
<1>3. \A x \in Requests : reqs'[x] = IF x = c THEN Ask(c, "call") ELSE reqs[x]
  BY <1>2 DEF Inv, TypeOK, Requests
<1>4. calls' \in [Calls -> Call]
      /\ \A d \in Calls : calls'[d].joined = calls[d].joined /\ calls'[d].era = calls[d].era
  BY <1>2 DEF Inv, TypeOK, Call
<1>5. \A x \in Renewals : x # c
  BY Apart
<1>6. Joined'
  BY <1>2, <1>3, <1>4, <1>5 DEF Inv, Joined, TypeOK, Call, Requests, None
<1>7. DOMAIN reqs' = Requests /\ reqs' = [x \in Requests |-> reqs'[x]]
  BY <1>2 DEF Inv, TypeOK
<1> QED
  BY <1>1, <1>2, <1>3, <1>4, <1>6, <1>7, BrowserStep, JarKnown DEF Inv, TypeOK, history

(* A call's own request is over; what becomes of the call is the component's. *)
LEMMA CallArrivesInv == ASSUME Inv, NEW c \in Calls, CallArrives(c) PROVE Inv'
<1>0. /\ SetCookies(c) /\ c \in Requests
      /\ UNCHANGED <<api, process, era, signedOut>>
  BY DEF CallArrives, Requests
<1>1. /\ jar' \in Tokens \cup {None} /\ jar' <= issued
      /\ excused' \cup adrift' \subseteq Tokens \cup {None}
  BY <1>0, SetCookiesKnown
<1>2. Quiet \in Call /\ Quiet.joined = None
  BY DEF Quiet, Call, None
<1>3. CASE /\ calls' = [calls EXCEPT ![c] = Quiet] /\ Done(c) /\ UNCHANGED pendingRefresh
  <2>1. \A x \in Requests : reqs'[x] = IF x = c THEN Nothing ELSE reqs[x]
    BY <1>3 DEF Done, Inv, TypeOK
  <2>2. DOMAIN reqs' = Requests /\ reqs' = [x \in Requests |-> reqs'[x]]
    BY <1>3 DEF Done, Inv, TypeOK
  <2>3. calls' \in [Calls -> Call] /\ \A d \in Calls : calls'[d] = IF d = c THEN Quiet ELSE calls[d]
    BY <1>2, <1>3 DEF Inv, TypeOK
  <2>4. \A x \in Renewals : x # c
    BY Apart
  <2>5. Joined'
    BY <1>0, <1>2, <1>3, <2>1, <2>3, <2>4 DEF Inv, Joined, TypeOK, Call, Requests, None
  <2> QED
    BY <1>0, <1>1, <1>3, <2>1, <2>2, <2>3, <2>5, BrowserStep DEF Inv, TypeOK
<1>4. CASE /\ pendingRefresh # None /\ Done(c) /\ UNCHANGED pendingRefresh
           /\ calls' = [calls EXCEPT ![c].phase = "renewing", ![c].joined = pendingRefresh,
                                     ![c].era = era]
  <2>1. \A x \in Requests : reqs'[x] = IF x = c THEN Nothing ELSE reqs[x]
    BY <1>4 DEF Done, Inv, TypeOK
  <2>2. DOMAIN reqs' = Requests /\ reqs' = [x \in Requests |-> reqs'[x]]
    BY <1>4 DEF Done, Inv, TypeOK
  <2>3. /\ calls' \in [Calls -> Call]
        /\ \A d \in Calls : d # c => calls'[d] = calls[d]
        /\ calls'[c].joined = pendingRefresh /\ calls'[c].era = era
    BY <1>4, ZenonT(40) DEF Inv, TypeOK, Call
  <2>4. \A x \in Renewals : x # c
    BY Apart
  <2>5. Joined'
    BY <1>0, <1>4, <2>1, <2>3, <2>4 DEF Inv, Joined, TypeOK, Call, Requests, None
  <2> QED
    BY <1>0, <1>1, <1>4, <2>1, <2>2, <2>3, <2>5, BrowserStep DEF Inv, TypeOK
<1>5. ASSUME NEW r \in Renewals, Idle(r), pendingRefresh' = r,
             calls' = [calls EXCEPT ![c].phase = "renewing", ![c].joined = r,
                                    ![c].era = era],
             reqs' = [reqs EXCEPT ![c] = Nothing,
                          ![r] = [Ask(r, "renewal") EXCEPT !.carried = jar', !.era = era]]
      PROVE  Inv'
  <2>0. r # c /\ r \in Requests /\ reqs[r].phase = "none" /\ r # None
    BY <1>5, Apart DEF Requests, Idle, Nothing, None
  <2>1. PICK q : q = [Ask(r, "renewal") EXCEPT !.carried = jar', !.era = era]
    OBVIOUS
  <2>2. Asks(q) /\ q.phase = "arrived" /\ q.era = era
    BY <1>1, <2>1 DEF Asks, Ask, Nothing, Request, None, Keep, Inv, TypeOK
  <2>3. \A x \in Requests : reqs'[x] = IF x = r THEN q ELSE IF x = c THEN Nothing ELSE reqs[x]
    BY <1>5, <2>0, <2>1 DEF Inv, TypeOK
  <2>4. DOMAIN reqs' = Requests /\ reqs' = [x \in Requests |-> reqs'[x]]
    BY <1>5 DEF Inv, TypeOK
  <2>5. /\ calls' \in [Calls -> Call]
        /\ \A d \in Calls : d # c => calls'[d] = calls[d]
        /\ calls'[c].joined = r /\ calls'[c].era = era
    BY <1>5, ZenonT(40) DEF Inv, TypeOK, Call
  <2>6. \A d \in Calls : d # c => calls[d].joined # r
    BY <2>0 DEF Inv, Joined
  <2>7. \A x \in Renewals : x # c
    BY Apart
  <2>8. Joined'
    BY <1>0, <1>5, <2>0, <2>2, <2>3, <2>5, <2>6, <2>7
    DEF Inv, Joined, TypeOK, Call, Requests, None
  <2> QED
    BY <1>0, <1>1, <1>5, <2>2, <2>3, <2>4, <2>5, <2>8, BrowserStep DEF Inv, TypeOK
<1> QED  BY <1>3, <1>4, <1>5 DEF CallArrives

(* A renewal is over, and with it what its waiters had joined. *)
LEMMA RenewedInv ==
    ASSUME Inv, NEW r \in Renewals, NEW worked \in BOOLEAN, Renewed(r, worked),
           jar' \in Tokens \cup {None}, jar' <= issued, pendingRefresh' = None,
           UNCHANGED <<api, process, era>>, signedOut' \in BOOLEAN,
           adrift' \subseteq Tokens \cup {None}, excused' \subseteq Tokens \cup {None}
    PROVE  Inv'
<1>1. DOMAIN reqs' = Requests /\ reqs' = [x \in Requests |-> reqs'[x]]
  BY DEF Renewed
<1>2. ASSUME NEW x \in Requests
      PROVE  reqs'[x] = reqs[x] \/ reqs'[x] = Nothing \/ Asks(reqs'[x])
  <2>1. PICK q : q = [Ask(x, "call") EXCEPT !.carried = jar']
    OBVIOUS
  <2>2. Asks(q)
    BY <2>1 DEF Asks, Ask, Nothing, Request, None, Keep
  <2>3. reqs'[x] = reqs[x] \/ reqs'[x] = Nothing \/ reqs'[x] = q
    BY <2>1 DEF Renewed
  <2> QED  BY <2>2, <2>3
<1>3. Quiet \in Call /\ [Quiet EXCEPT !.phase = "second"] \in Call
      /\ Quiet.joined = None /\ [Quiet EXCEPT !.phase = "second"].joined = None
  BY DEF Quiet, Call, None
<1>4. ASSUME NEW c \in Calls
      PROVE  /\ calls'[c] \in Call
             /\ calls'[c].joined # None => calls'[c] = calls[c] /\ calls[c].joined # r
  BY <1>3 DEF Renewed, Inv, TypeOK
<1>5. calls' \in [Calls -> Call]
  BY <1>4 DEF Renewed
<1>6. \A x \in Renewals : x # r => reqs'[x] = reqs[x]
  BY Apart DEF Renewed, Requests
<1>7. Joined'
  BY <1>4, <1>6 DEF Inv, Joined, TypeOK, Call
<1>8. pendingRefresh' \in Renewals \cup {None} /\ era' \in Nat
  BY DEF Inv, TypeOK
<1> QED  BY <1>1, <1>2, <1>5, <1>7, <1>8, BrowserStep

LEMMA RenewalArrivesInv == ASSUME Inv, NEW r \in Renewals, RenewalArrives(r) PROVE Inv'
<1>1. PICK worked \in BOOLEAN : worked = (reqs[r].status = "ok")
  OBVIOUS
<1>2. Renewed(r, worked)
  BY <1>1 DEF RenewalArrives
<1>3. /\ jar' \in Tokens \cup {None} /\ jar' <= issued
      /\ excused' \cup adrift' \subseteq Tokens \cup {None} /\ signedOut' \in BOOLEAN
  BY SetCookiesKnown DEF RenewalArrives, Requests, Inv, TypeOK
<1> QED  BY <1>2, <1>3, RenewedInv DEF RenewalArrives

LEMMA FetchFailsInv == ASSUME Inv, NEW r \in Requests, FetchFails(r) PROVE Inv'
<1>0. /\ UNCHANGED <<api, process, era>> /\ signedOut' \in BOOLEAN /\ jar' = jar
      /\ excused' \subseteq Tokens \cup {None} /\ adrift' \subseteq Tokens \cup {None}
  <2>1. reqs[r].cookies > 0 => session[reqs[r].cookies] \in Tokens \cup {None}
    BY AtRequest DEF Request, Keep, Clear, Inv, TypeOK
  <2>2. reqs[r].carried # None => session[reqs[r].carried] \in Tokens \cup {None}
    BY AtRequest DEF Request, Inv, TypeOK
  <2> QED  BY <2>1, <2>2 DEF FetchFails, Unheard, Inv, TypeOK
<1>1. CASE r \in Renewals
  <2>1. jar' = jar /\ Renewed(r, FALSE) /\ pendingRefresh' = None
    BY <1>0, <1>1 DEF FetchFails
  <2> QED  BY <1>0, <1>1, <2>1, RenewedInv, JarKnown
<1>2. CASE r \notin Renewals
  <2>0. Done(r) /\ jar' = jar /\ pendingRefresh' = pendingRefresh
    BY <1>0, <1>2 DEF FetchFails
  <2>1. \A x \in Requests : reqs'[x] = IF x = r THEN Nothing ELSE reqs[x]
    BY <2>0 DEF Done, Inv, TypeOK
  <2>2. DOMAIN reqs' = Requests /\ reqs' = [x \in Requests |-> reqs'[x]]
    BY <2>0 DEF Done, Inv, TypeOK
  <2>3. /\ calls' \in [Calls -> Call]
        /\ \A d \in Calls : calls'[d] = calls[d] \/ calls'[d].joined = None
    <3>1. Quiet \in Call /\ Quiet.joined = None
      BY DEF Quiet, Call, None
    <3> QED  BY <1>2, <3>1 DEF FetchFails, Inv, TypeOK
  <2>4. \A x \in Renewals : x # r
    BY <1>2
  <2>5. Joined'
    BY <1>0, <2>0, <2>1, <2>3, <2>4 DEF Inv, Joined, TypeOK, Call, Requests, None
  <2> QED
    BY <1>0, <2>0, <2>1, <2>2, <2>3, <2>5, BrowserStep, JarKnown DEF Inv, TypeOK
<1> QED  BY <1>1, <1>2

-----------------------------------------------------------------------------
(* Sign-out.  The sessions the browser has not lost sight of are the jar's alone:
   every request under way carries one of the jar's, or one that is gone. *)

GoneSession(s) == s \in over \cup adrift
Gone == jar = None \/ GoneSession(session[jar])

\* Who asks for what.
Kinds ==
    /\ reqs[Door].kind \in {"none", "login", "switch", "logout"}
    /\ reqs[Door].phase \in {"none", "arrived", "back"}
    /\ \A r \in Requests : r # Door => reqs[r].kind \in {"none", "page", "call", "renewal"}
    /\ \A r \in Requests : reqs[r].kind = "none" => reqs[r] = Nothing

CarryTheJars == \A r \in Requests :
    r # Door /\ reqs[r].carried # None
        => \/ GoneSession(session[reqs[r].carried])
           \/ jar # None /\ session[jar] = session[reqs[r].carried]

\* While somebody signs in, over or out, the jar's session is the one to be left; when
\* that is done, it is gone.
DoorLeaves ==
    /\ reqs[Door].kind # "none"
        => Gone \/ (reqs[Door].carried # None /\ session[jar] = session[reqs[Door].carried])
    /\ reqs[Door].kind = "login" => reqs[Door].carried = None
    /\ reqs[Door].phase = "back" =>
        /\ reqs[Door].cookies # Keep => Gone
        /\ reqs[Door].kind = "logout" => reqs[Door].cookies = Clear

SignedOutGone == signedOut => Gone

Leaving == Kinds /\ CarryTheJars /\ DoorLeaves /\ SignedOutGone

\* A handler keeps who asked and with what.
Handled(r) ==
    /\ reqs[r] # Nothing
    /\ \A x \in Requests :
        /\ x # r => reqs'[x] = reqs[x]
        /\ reqs'[x].kind = reqs[x].kind /\ reqs'[x].carried = reqs[x].carried

LEMMA RespondHandled ==
    ASSUME Inv, NEW r \in Requests, reqs[r] # Nothing, NEW status, NEW cookies,
           Respond(r, status, cookies)
    PROVE  /\ Handled(r)
           /\ reqs'[r].phase = "back" /\ reqs'[r].cookies = cookies
BY DEF Handled, Respond, Inv, TypeOK, Request

LEMMA RefreshHandled ==
    ASSUME Inv, NEW r \in Requests, reqs[r] # Nothing, NEW t, RefreshSession(r, t)
    PROVE  Handled(r)
BY DEF Handled, RefreshSession, Inv, TypeOK, Request

(* What is gone stays gone, whatever the API and the web app do meanwhile. *)
LEMMA ServingLeaves ==
    ASSUME Inv, Leaving, Grows, adrift \subseteq adrift', UNCHANGED <<jar, signedOut>>,
           \A x \in Requests :
                /\ reqs'[x].kind = reqs[x].kind /\ reqs'[x].carried = reqs[x].carried
                /\ reqs[x] = Nothing => reqs'[x] = Nothing,
           \/ reqs'[Door] = reqs[Door]
           \/ /\ reqs'[Door].phase = "back"
              /\ reqs'[Door].cookies # Keep => Gone'
              /\ reqs'[Door].kind = "logout" => reqs'[Door].cookies = Clear
    PROVE  Leaving'
<1>0. Door \in Requests
  BY DEF Requests
<1>1. jar # None => jar \in Tokens /\ jar <= issued /\ session'[jar] = session[jar]
  BY DEF Inv, TypeOK, Known, Grows
<1>2. ASSUME NEW x \in Requests, reqs[x].carried # None
      PROVE  session'[reqs[x].carried] = session[reqs[x].carried]
  BY <1>2, AtRequest DEF Fair, Request, Grows
<1>3. Gone => Gone'
  BY <1>1 DEF Gone, GoneSession, Grows
<1>4. Kinds'
  BY <1>0 DEF Leaving, Kinds
<1>5. CarryTheJars'
  BY <1>1, <1>2 DEF Leaving, CarryTheJars, GoneSession, Grows
<1>6. DoorLeaves'
  <2>1. reqs[Door].kind # "none" =>
            Gone' \/ (reqs[Door].carried # None /\ session'[jar] = session'[reqs[Door].carried])
    <3>0. CASE Gone
      BY <1>3, <3>0
    <3>1. CASE reqs[Door].kind # "none" /\ ~Gone
    <4>2. reqs[Door].carried # None /\ session[jar] = session[reqs[Door].carried]
      BY <3>1 DEF Leaving, DoorLeaves
    <4>3. session'[jar] = session[jar]
      BY <1>1, <3>1 DEF Gone
    <4>4. session'[reqs[Door].carried] = session[reqs[Door].carried]
      BY <1>0, <1>2, <4>2
    <4> QED  BY <4>2, <4>3, <4>4
    <3> QED  BY <3>0, <3>1
  <2> QED  BY <1>0, <1>3, <2>1 DEF Leaving, DoorLeaves
<1>7. SignedOutGone'
  BY <1>3 DEF Leaving, SignedOutGone
<1> QED  BY <1>4, <1>5, <1>6, <1>7 DEF Leaving

(* A request other than the door's is handled. *)
LEMMA HandledLeaves ==
    ASSUME Inv, Leaving, NEW r \in Requests, r # Door, Handled(r), Grows,
           UNCHANGED <<jar, signedOut, adrift>>
    PROVE  Leaving'
<1>1. reqs'[Door] = reqs[Door]
  BY DEF Handled, Requests
<1>2. \A x \in Requests : reqs[x] = Nothing => reqs'[x] = Nothing
  BY DEF Handled
<1> QED  BY <1>1, <1>2, ServingLeaves DEF Handled

LEMMA DoorWaitsForNobody ==
    ASSUME Inv, Leaving
    PROVE  \A r \in Requests : reqs[r].phase \in {"waits", "sent", "rendering"} => r # Door
BY DEF Leaving, Kinds

LEMMA HandlesLeaves ==
    ASSUME Inv, Leaving, NEW r \in Requests, Handles(r) PROVE Leaving'
<1>1. CASE \/ ServePage(r) \/ PageResumes(r) \/ RedirectedToSignIn(r) \/ Rendered(r)
           \/ ServeCall(r) \/ CallAnswered(r) \/ ServeRenewal(r) \/ Resume(r)
  <2>1. UNCHANGED <<api, jar, browser, history>> /\ reqs[r].phase # "none"
    BY <1>1 DEF ServePage, PageResumes, RedirectedToSignIn, Rendered, ServeCall,
       CallAnswered, ServeRenewal, Resume, Awaiting, Waited, Rendering
  <2>2. Grows /\ UNCHANGED <<jar, signedOut, adrift>>
    BY <2>1, ApiStays DEF Inv, browser, history
  <2>3. r # Door
    <3>1. CASE ServePage(r) \/ ServeCall(r) \/ ServeRenewal(r)
      BY <3>1 DEF ServePage, ServeCall, ServeRenewal, Awaiting, Leaving, Kinds
    <3> QED
      BY <1>1, <3>1, DoorWaitsForNobody
      DEF PageResumes, RedirectedToSignIn, Rendered, CallAnswered, Resume, Waited, Rendering
  <2>4. reqs[r] # Nothing
    BY <2>1 DEF Nothing
  <2>5. CASE \E p \in {"rendering", "sent"} :
                \/ reqs' = [reqs EXCEPT ![r].phase = p]
                \/ reqs' = [reqs EXCEPT ![r].phase = p, ![r].retried = TRUE]
    <3>1. Handled(r)
      BY <2>4, <2>5 DEF Handled, Inv, TypeOK, Request
    <3> QED  BY <2>2, <2>3, <3>1, HandledLeaves
  <2>6. CASE \E status, cookies : Respond(r, status, cookies)
    BY <2>2, <2>3, <2>4, <2>6, RespondHandled, HandledLeaves
  <2>7. CASE \E t : RefreshSession(r, t)
    BY <2>2, <2>3, <2>4, <2>7, RefreshHandled, HandledLeaves
  <2> QED
    BY <1>1, <2>5, <2>6, <2>7
    DEF ServePage, PageResumes, RedirectedToSignIn, Rendered, ServeCall, CallAnswered,
        ServeRenewal, Resume
<1>2. CASE ServeLogin(r) \/ ServeSwitch(r) \/ ServeLogout(r)
  <2>1. r = Door /\ reqs[r] # Nothing /\ reqs[Door].kind # "none"
    BY <1>2 DEF ServeLogin, ServeSwitch, ServeLogout, Awaiting, Nothing, Leaving, Kinds
  <2>2. UNCHANGED <<jar, signedOut>>
    BY <1>2 DEF ServeLogin, ServeSwitch, ServeLogout, browser
  <2>3. Gone \/ (reqs[Door].carried # None /\ session[jar] = session[reqs[Door].carried])
    BY <2>1 DEF Leaving, DoorLeaves
  <2>4. CASE ServeLogin(r)
    <3>1. Inv' /\ Grows
      BY <2>4, ServeLoginInv, ServeLoginGrows
    <3>2. Gone
      BY <2>1, <2>3, <2>4 DEF ServeLogin, Awaiting, Leaving, DoorLeaves
    <3>3. Gone'
      BY <2>2, <2>4, <3>1, <3>2
      DEF Gone, GoneSession, ServeLogin, history, Grows, Inv, TypeOK, Known
    <3>4. Handled(r) /\ reqs'[r].phase = "back" /\ reqs'[r].kind = "login"
      BY <2>1, <2>4, RespondHandled DEF ServeLogin, Awaiting, Handled
    <3>5. adrift \subseteq adrift'
      BY <2>4 DEF ServeLogin, history
    <3> QED  BY <2>1, <2>2, <3>1, <3>3, <3>4, <3>5, ServingLeaves DEF Handled
  <2>5. CASE ServeSwitch(r)
    <3>1. Grows /\ adrift' = adrift
      BY <2>5, ServeSwitchGrows DEF ServeSwitch, history
    <3>2. Handled(r) /\ reqs'[r].phase = "back" /\ reqs'[r].kind = "switch"
      BY <2>1, <2>5, RespondHandled DEF ServeSwitch, Awaiting, Handled
    <3>3. reqs'[r].cookies # Keep => Gone'
      <4>1. reqs'[r].cookies # Keep => over' = over \cup {session[reqs[r].carried]}
        BY <2>1, <2>5, RespondHandled DEF ServeSwitch
      <4> QED
        BY <2>1, <2>2, <2>3, <3>1, <4>1 DEF Gone, GoneSession, Grows, Inv, TypeOK, Known
    <3> QED  BY <2>1, <2>2, <3>1, <3>2, <3>3, ServingLeaves DEF Handled
  <2>6. CASE ServeLogout(r)
    <3>1. Grows /\ adrift \subseteq adrift'
      BY <2>6, ServeLogoutGrows DEF ServeLogout
    <3>2. /\ Handled(r) /\ reqs'[r].phase = "back" /\ reqs'[r].cookies = Clear
      BY <2>1, <2>6, RespondHandled DEF ServeLogout, Awaiting
    <3>3. Gone'
      <4>1. Has(r) => session[reqs[r].carried] \in over' \cup adrift'
        BY <2>6 DEF ServeLogout
      <4> QED
        BY <2>1, <2>2, <2>3, <3>1, <4>1
        DEF Has, Gone, GoneSession, Grows, Inv, TypeOK, Known
    <3> QED  BY <2>1, <2>2, <3>1, <3>2, <3>3, ServingLeaves DEF Handled
  <2> QED  BY <1>2, <2>4, <2>5, <2>6
<1> QED  BY <1>1, <1>2 DEF Handles

LEMMA RefreshLeaves ==
    ASSUME Inv, Leaving, NEW t \in Tokens, RefreshAnswered(t) \/ RefreshFailed(t)
    PROVE  Leaving'
<1>1. t \in inFlight /\ t <= issued
  BY DEF RefreshAnswered, RefreshFailed, Inv, Known
<1>2. Grows
  <2>1. CASE UNCHANGED api
    BY <2>1, ApiStays DEF Inv
  <2>2. CASE Exchange(t) /\ (Outcome(t) = Rejected \/ CanIssue)
    BY <1>1, <2>2, ExchangeGrows
  <2> QED  BY <2>1, <2>2 DEF RefreshAnswered, RefreshFailed
<1>3. UNCHANGED <<jar, signedOut, adrift>>
  BY DEF RefreshAnswered, RefreshFailed, browser, history
<1>4. PICK outcome : Tell(t, outcome)
  BY DEF RefreshAnswered, RefreshFailed, Settle
<1>5. ASSUME NEW x \in Requests
      PROVE  /\ reqs'[x].kind = reqs[x].kind /\ reqs'[x].carried = reqs[x].carried
             /\ reqs[x].phase # "waits" => reqs'[x] = reqs[x]
  BY <1>4, AtRequest DEF Tell, Request
<1>6. Nothing.phase # "waits" /\ reqs[Door].phase # "waits" /\ Door \in Requests
  BY DEF Nothing, Leaving, Kinds, Requests
<1>7. \A x \in Requests : reqs[x] = Nothing => reqs'[x] = Nothing
  BY <1>5, <1>6
<1> QED  BY <1>2, <1>3, <1>5, <1>6, <1>7, ServingLeaves

(* Nothing is asked, answered or issued. *)
LEMMA TimeLeaves ==
    ASSUME Inv, Leaving, UNCHANGED <<session, over, jar, reqs, signedOut, adrift>>
    PROVE  Leaving'
BY DEF Leaving, Kinds, CarryTheJars, DoorLeaves, SignedOutGone, Gone, GoneSession

-----------------------------------------------------------------------------
(* The browser, when the door's request is not concerned. *)

\* What a response may do to the jar.
JarMoves ==
    /\ adrift \subseteq adrift' /\ (Gone => Gone')
    /\ jar # None => \/ session[jar] \in over \cup adrift'
                     \/ jar' # None /\ session[jar'] = session[jar]
    /\ Gone' \/ (jar # None /\ jar' # None /\ session[jar'] = session[jar])

LEMMA JarStays == ASSUME UNCHANGED <<api, jar, adrift>> PROVE JarMoves
<1>1. session' = session /\ over' = over /\ jar' = jar /\ adrift' = adrift
  BY DEF api
<1>2. Gone' <=> Gone
  BY <1>1 DEF Gone, GoneSession
<1>3. jar = None => Gone
  BY DEF Gone
<1> QED  BY <1>1, <1>2, <1>3 DEF JarMoves

LEMMA SetCookiesMoves ==
    ASSUME Inv, Leaving, NEW r \in Requests, r # Door, SetCookies(r), UNCHANGED api
    PROVE  JarMoves
<1>0. reqs[r] \in Request /\ Fair(reqs[r]) /\ session' = session /\ over' = over
  BY AtRequest DEF api
<1>1. CASE reqs[r].cookies = Keep
  <2>1. jar' = jar /\ adrift' = adrift
    BY <1>1 DEF SetCookies, Displaces
  <2> QED  BY <2>1, JarStays
<1>2. CASE reqs[r].cookies = Clear
  <2>1. jar' = None /\ (jar # None => session[jar] \in adrift') /\ adrift \subseteq adrift'
    BY <1>2 DEF SetCookies, Displaces, Keep, Clear, None
  <2>2. Gone'
    BY <2>1 DEF Gone
  <2> QED  BY <2>1, <2>2 DEF JarMoves
<1>3. CASE reqs[r].cookies \in Tokens
  <2>0. reqs[r].cookies > 0 /\ reqs[r].cookies # Keep /\ reqs[r].cookies # Clear
        /\ reqs[r].cookies # None
    BY <1>3, SomeTokens DEF Tokens, Keep, Clear, None
  <2>1. reqs[r].kind \in {"page", "call", "renewal"}
    <3>1. reqs[r] # Nothing
      BY <2>0 DEF Nothing
    <3> QED  BY <3>1 DEF Leaving, Kinds
  <2>2. reqs[r].carried # None /\ session[reqs[r].cookies] = session[reqs[r].carried]
    BY <1>0, <2>0, <2>1 DEF Fair, Owed
  <2>3. \/ GoneSession(session[reqs[r].cookies])
        \/ jar # None /\ session[jar] = session[reqs[r].cookies]
    BY <2>2 DEF Leaving, CarryTheJars
  <2>4. jar' = reqs[r].cookies
    BY <2>0 DEF SetCookies
  <2>5. /\ adrift \subseteq adrift'
        /\ jar # None /\ session[reqs[r].cookies] # session[jar] => session[jar] \in adrift'
    BY <2>0 DEF SetCookies, Displaces
  <2>6. jar' # None /\ session'[jar'] = session[reqs[r].cookies]
    BY <1>0, <2>0, <2>4
  <2>7. CASE jar # None /\ session[jar] = session[reqs[r].cookies]
    <3>1. Gone => Gone'
      BY <1>0, <2>5, <2>6, <2>7 DEF Gone, GoneSession
    <3> QED  BY <1>0, <2>4, <2>5, <2>6, <2>7, <3>1 DEF JarMoves
  <2>8. CASE ~(jar # None /\ session[jar] = session[reqs[r].cookies])
    <3>1. Gone'
      BY <1>0, <2>3, <2>5, <2>6, <2>8 DEF Gone, GoneSession
    <3>2. jar # None => session[jar] \in adrift'
      BY <2>5, <2>8
    <3> QED  BY <2>5, <3>1, <3>2 DEF JarMoves
  <2> QED  BY <2>7, <2>8
<1> QED  BY <1>0, <1>1, <1>2, <1>3 DEF Request

(* Whoever asks carries what is in the jar. *)
LEMMA BrowserLeaves ==
    ASSUME Inv, Leaving, JarMoves, UNCHANGED <<api, signedOut>>, reqs'[Door] = reqs[Door],
           \A x \in Requests : x # Door =>
                \/ reqs'[x] = reqs[x] \/ reqs'[x] = Nothing
                \/ reqs'[x].carried = jar' /\ reqs'[x].kind \in {"page", "call", "renewal"}
    PROVE  Leaving'
<1>0. session' = session /\ over' = over /\ Door \in Requests
  BY DEF api, Requests
<1>1. Nothing.kind = "none" /\ Nothing.carried = None
  BY DEF Nothing, None
<1>2. Kinds'
  BY <1>0, <1>1 DEF Leaving, Kinds
<1>3. CarryTheJars'
  <2>1. SUFFICES ASSUME NEW x \in Requests, x # Door, reqs'[x].carried # None
                 PROVE  \/ session[reqs'[x].carried] \in over \cup adrift'
                        \/ jar' # None /\ session[jar'] = session[reqs'[x].carried]
    BY <1>0 DEF CarryTheJars, GoneSession
  <2>2. CASE reqs'[x] = reqs[x]
    BY <2>1, <2>2 DEF Leaving, CarryTheJars, GoneSession, JarMoves
  <2>3. CASE reqs'[x].carried = jar'
    BY <2>1, <2>3
  <2> QED  BY <1>1, <2>1, <2>2, <2>3
<1>4. DoorLeaves'
  <2>1. reqs[Door].kind # "none" =>
            Gone' \/ (reqs[Door].carried # None /\ session[jar'] = session[reqs[Door].carried])
    BY DEF Leaving, DoorLeaves, JarMoves
  <2> QED  BY <1>0, <2>1 DEF Leaving, DoorLeaves, JarMoves
<1>5. SignedOutGone'
  BY DEF Leaving, SignedOutGone, JarMoves
<1> QED  BY <1>2, <1>3, <1>4, <1>5 DEF Leaving

LEMMA AskCarries ==
    ASSUME NEW r, NEW kind PROVE Ask(r, kind).carried = jar /\ Ask(r, kind).kind = kind
BY DEF Ask, Nothing

LEMMA NavigateLeaves ==
    ASSUME Inv, Leaving, NEW r \in Pages, Navigate(r) PROVE Leaving'
<1>1. /\ reqs' = [reqs EXCEPT ![r] = Ask(r, "page")] /\ UNCHANGED <<api, jar, adrift, signedOut>>
  BY DEF Navigate, browser, history
<1>2. r # Door
  BY Apart
<1>3. \A x \in Requests : reqs'[x] = IF x = r THEN Ask(r, "page") ELSE reqs[x]
  BY <1>1 DEF Inv, TypeOK
<1> QED
  BY <1>1, <1>2, <1>3, JarStays, BrowserLeaves, AskCarries DEF Requests

LEMMA StartCallLeaves ==
    ASSUME Inv, Leaving, NEW c \in Calls, StartCall(c) PROVE Leaving'
<1>1. /\ reqs' = [reqs EXCEPT ![c] = Ask(c, "call")] /\ UNCHANGED <<api, jar, adrift, signedOut>>
  BY DEF StartCall, history
<1>2. c # Door
  BY Apart
<1>3. \A x \in Requests : reqs'[x] = IF x = c THEN Ask(c, "call") ELSE reqs[x]
  BY <1>1 DEF Inv, TypeOK
<1> QED
  BY <1>1, <1>2, <1>3, JarStays, BrowserLeaves, AskCarries DEF Requests

LEMMA PageArrivesLeaves ==
    ASSUME Inv, Leaving, NEW r \in Pages, PageArrives(r) PROVE Leaving'
<1>1. r # Door /\ r \in Requests /\ Door \in Requests
  BY Apart DEF Requests
<1>2. JarMoves
  BY <1>1, SetCookiesMoves DEF PageArrives
<1>3. \A x \in Requests : reqs'[x] = IF x = r THEN Nothing ELSE reqs[x]
  BY DEF PageArrives, Done, Inv, TypeOK
<1> QED  BY <1>1, <1>2, <1>3, BrowserLeaves DEF PageArrives, browser

LEMMA CallArrivesLeaves ==
    ASSUME Inv, Leaving, NEW c \in Calls, CallArrives(c) PROVE Leaving'
<1>1. c # Door /\ c \in Requests /\ Door \in Requests
      /\ \A r \in Renewals : r # Door /\ r \in Requests
  BY Apart DEF Requests
<1>2. JarMoves
  BY <1>1, SetCookiesMoves DEF CallArrives
<1>3. ASSUME NEW x \in Requests
      PROVE  /\ x = Door => reqs'[x] = reqs[x]
             /\ \/ reqs'[x] = reqs[x] \/ reqs'[x] = Nothing
                \/ reqs'[x].carried = jar' /\ reqs'[x].kind \in {"page", "call", "renewal"}
  <2>1. CASE Done(c)
    BY <1>1, <2>1 DEF Done, Inv, TypeOK
  <2>2. ASSUME NEW r \in Renewals,
               reqs' = [reqs EXCEPT ![c] = Nothing,
                            ![r] = [Ask(r, "renewal") EXCEPT !.carried = jar', !.era = era]]
        PROVE  /\ x = Door => reqs'[x] = reqs[x]
               /\ \/ reqs'[x] = reqs[x] \/ reqs'[x] = Nothing
                  \/ reqs'[x].carried = jar' /\ reqs'[x].kind \in {"page", "call", "renewal"}
    <3>1. PICK q : q = [Ask(r, "renewal") EXCEPT !.carried = jar', !.era = era]
      OBVIOUS
    <3>2. q.carried = jar' /\ q.kind = "renewal"
      BY <3>1 DEF Ask, Nothing
    <3>3. reqs'[x] = IF x = r THEN q ELSE IF x = c THEN Nothing ELSE reqs[x]
      BY <1>1, <2>2, <3>1 DEF Inv, TypeOK
    <3> QED  BY <1>1, <3>2, <3>3
  <2> QED  BY <2>1, <2>2 DEF CallArrives
<1> QED  BY <1>1, <1>2, <1>3, BrowserLeaves DEF CallArrives

LEMMA RenewedLeaves ==
    ASSUME Inv, Leaving, JarMoves, UNCHANGED <<api, signedOut>>, NEW r \in Renewals,
           NEW worked, Renewed(r, worked)
    PROVE  Leaving'
<1>1. Door \notin Calls \cup Renewals /\ Door \in Requests
  BY Apart DEF Requests
<1>2. ASSUME NEW x \in Requests
      PROVE  /\ x = Door => reqs'[x] = reqs[x]
             /\ \/ reqs'[x] = reqs[x] \/ reqs'[x] = Nothing
                \/ reqs'[x].carried = jar' /\ reqs'[x].kind \in {"page", "call", "renewal"}
  <2>1. PICK q : q = [Ask(x, "call") EXCEPT !.carried = jar']
    OBVIOUS
  <2>2. q.carried = jar' /\ q.kind = "call"
    BY <2>1 DEF Ask, Nothing
  <2>3. reqs'[x] = IF x = r THEN Nothing
                   ELSE IF worked /\ x \in {c \in Calls : calls[c].joined = r} THEN q
                   ELSE reqs[x]
    BY <2>1 DEF Renewed
  <2> QED  BY <1>1, <2>2, <2>3
<1> QED  BY <1>1, <1>2, BrowserLeaves

LEMMA FetchFailsLeaves ==
    ASSUME Inv, Leaving, NEW r \in Requests, r # Door, FetchFails(r) PROVE Leaving'
<1>1. UNCHANGED <<api, jar, adrift, signedOut>> /\ Door \in Requests
  BY DEF FetchFails, Unheard, Requests, Leaving, Kinds, Inv, TypeOK
<1>2. CASE r \in Renewals
  BY <1>1, <1>2, JarStays, RenewedLeaves DEF FetchFails
<1>3. CASE r \notin Renewals
  <2>1. \A x \in Requests : reqs'[x] = IF x = r THEN Nothing ELSE reqs[x]
    BY <1>3 DEF FetchFails, Done, Inv, TypeOK
  <2> QED  BY <1>1, <2>1, JarStays, BrowserLeaves
<1> QED  BY <1>2, <1>3

-----------------------------------------------------------------------------
(* The door. *)

LEMMA DoorAskLeaves ==
    ASSUME Inv, Leaving, SignOut \/ \E kind \in {"login", "switch"} : Enter(kind)
    PROVE  Leaving'
<1>0. Door \in Requests /\ UNCHANGED <<api, jar, adrift, signedOut>>
  BY DEF Requests, SignOut, Enter, browser, history
<1>1. PICK kind \in {"login", "switch", "logout"} :
        /\ reqs' = [reqs EXCEPT ![Door] = Ask(Door, kind)]
        /\ kind = "login" => jar = None
  BY DEF SignOut, Enter
<1>2. PICK q : q = Ask(Door, kind)
  OBVIOUS
<1>3. q.kind = kind /\ q.phase = "arrived" /\ q.carried = jar
  BY <1>2 DEF Ask, Nothing
<1>4. \A x \in Requests : reqs'[x] = IF x = Door THEN q ELSE reqs[x]
  BY <1>1, <1>2 DEF Inv, TypeOK
<1>5. Kinds'
  BY <1>0, <1>3, <1>4 DEF Leaving, Kinds
<1>6. CarryTheJars'
  BY <1>0, <1>4 DEF Leaving, CarryTheJars, GoneSession, api
<1>7. DoorLeaves'
  BY <1>0, <1>1, <1>3, <1>4 DEF DoorLeaves, Gone, GoneSession, api
<1>8. SignedOutGone'
  BY <1>0 DEF Leaving, SignedOutGone, Gone, GoneSession, api
<1> QED  BY <1>5, <1>6, <1>7, <1>8 DEF Leaving

LEMMA DoorArrivesLeaves == ASSUME Inv, Leaving, DoorArrives PROVE Leaving'
<1>0. /\ Door \in Requests /\ UNCHANGED <<api, adrift>> /\ reqs[Door].phase = "back"
      /\ session' = session /\ over' = over /\ reqs[Door] \in Request
  BY AtRequest DEF Requests, DoorArrives, SetCookies, Displaces, api
<1>1. \A x \in Requests : reqs'[x] = IF x = Door THEN Nothing ELSE reqs[x]
  BY DEF DoorArrives, Done, Inv, TypeOK
<1>2. Nothing.kind = "none" /\ Nothing.phase = "none"
  BY DEF Nothing
<1>3. Kinds'
  BY <1>0, <1>1, <1>2 DEF Leaving, Kinds
<1>4. DoorLeaves'
  BY <1>0, <1>1, <1>2 DEF DoorLeaves
<1>5. CASE reqs[Door].cookies = Keep
  <2>0. reqs[Door].kind # "logout" /\ ~(reqs[Door].cookies > 0)
    BY <1>0, <1>5 DEF Leaving, DoorLeaves, Keep, Clear
  <2>1. jar' = jar /\ signedOut' = signedOut
    BY <1>0, <1>5, <2>0 DEF DoorArrives, SetCookies
  <2>2. CarryTheJars' /\ SignedOutGone'
    BY <1>0, <1>1, <2>1 DEF Leaving, CarryTheJars, SignedOutGone, Gone, GoneSession
  <2> QED  BY <1>3, <1>4, <2>2 DEF Leaving
<1>6. CASE reqs[Door].cookies # Keep
  <2>1. Gone
    BY <1>0, <1>6 DEF Leaving, DoorLeaves
  <2>2. CarryTheJars'
    BY <1>0, <1>1, <2>1 DEF Leaving, CarryTheJars, Gone, GoneSession
  <2>3. jar' = reqs[Door].cookies
    BY <1>6 DEF DoorArrives, SetCookies
  <2>4. signedOut' => reqs[Door].cookies = Clear
    <3>1. reqs[Door].cookies \in Tokens => reqs[Door].cookies > 0
      BY SomeTokens DEF Tokens
    <3> QED  BY <1>0, <1>6, <3>1 DEF DoorArrives, Leaving, DoorLeaves, Request
  <2>5. SignedOutGone'
    BY <2>3, <2>4 DEF SignedOutGone, Gone, Clear, None
  <2> QED  BY <1>3, <1>4, <2>2, <2>5 DEF Leaving
<1> QED  BY <1>5, <1>6

(* A sign-out that fails leaves a session that the API has ended, or one that is known to
   be left. *)
LEMMA DoorFailsLeaves == ASSUME Inv, Leaving, FetchFails(Door) PROVE Leaving'
<1>0. /\ Door \in Requests /\ Door \notin Renewals /\ UNCHANGED <<api, jar>>
      /\ reqs[Door].phase \in {"arrived", "back"}
      /\ session' = session /\ over' = over /\ reqs[Door] \in Request
  BY Apart, AtRequest DEF Requests, FetchFails, api
<1>1. \A x \in Requests : reqs'[x] = IF x = Door THEN Nothing ELSE reqs[x]
  BY <1>0 DEF FetchFails, Done, Inv, TypeOK
<1>2. Nothing.kind = "none" /\ Nothing.phase = "none"
  BY DEF Nothing
<1>3. Kinds'
  BY <1>0, <1>1, <1>2 DEF Leaving, Kinds
<1>4. DoorLeaves'
  BY <1>0, <1>1, <1>2 DEF DoorLeaves
<1>5. adrift \subseteq adrift' /\ (Gone => Gone')
  BY <1>0 DEF FetchFails, Gone, GoneSession
<1>6. CarryTheJars'
  BY <1>0, <1>1, <1>5 DEF Leaving, CarryTheJars, GoneSession
<1>7. SignedOutGone'
  <2>1. CASE reqs[Door].kind # "logout"
    <3>1. signedOut' = signedOut
      BY <2>1 DEF FetchFails, Inv, TypeOK
    <3> QED  BY <1>5, <3>1 DEF Leaving, SignedOutGone
  <2>2. CASE reqs[Door].kind = "logout" /\ reqs[Door].phase = "back"
    BY <1>5, <2>2 DEF Leaving, DoorLeaves, SignedOutGone, Keep, Clear
  <2>3. CASE reqs[Door].kind = "logout" /\ reqs[Door].phase = "arrived" /\ ~Gone
    <3>1. reqs[Door].carried # None /\ session[jar] = session[reqs[Door].carried]
      BY <2>3 DEF Leaving, DoorLeaves
    <3>2. session[reqs[Door].carried] \in adrift'
      BY <2>3, <3>1 DEF FetchFails, Unheard
    <3> QED  BY <1>0, <3>1, <3>2 DEF SignedOutGone, Gone, GoneSession
  <2> QED  BY <1>0, <1>5, <2>1, <2>2, <2>3 DEF SignedOutGone
<1> QED  BY <1>3, <1>4, <1>6, <1>7 DEF Leaving

-----------------------------------------------------------------------------
(* The theorems. *)

LEMMA InitInv == Init => Inv
<1> SUFFICES ASSUME Init PROVE Inv
  OBVIOUS
<1>1. 1 \in Tokens /\ ~(None > 0)
  BY SomeTokens DEF Tokens, None
<1>2. TypeOK
  <2>1. Nothing \in Request /\ Quiet \in Call
    BY DEF Nothing, Quiet, Request, Call, None, Keep
  <2> QED  BY <1>1, <2>1 DEF Init, TypeOK, Age
<1>3. RequestsFair
  BY <1>2, AsksFair DEF Init, RequestsFair
<1>4. Known /\ Remembered
  BY <1>1 DEF Init, Known, Remembered
<1>5. Joined
  BY DEF Init, Joined, Quiet, None
<1> QED  BY <1>2, <1>3, <1>4, <1>5 DEF Inv

LEMMA NextInv == Inv /\ [Next]_vars => Inv'
<1> SUFFICES ASSUME Inv, [Next]_vars PROVE Inv'
  OBVIOUS
<1>1. CASE Runs
  <2>1. ASSUME NEW r \in Requests, Handles(r) PROVE Inv'
    BY <2>1, ServePageInv, PageResumesInv, RedirectedInv, RenderedInv, ServeCallInv,
       CallAnsweredInv, ServeRenewalInv, ResumeInv, ServeLoginInv, ServeSwitchInv,
       ServeLogoutInv
    DEF Handles
  <2> QED
    BY <1>1, <2>1, RefreshAnsweredInv, PageArrivesInv, CallArrivesInv, RenewalArrivesInv,
       DoorArrivesInv
    DEF Runs
<1>2. CASE \E t \in Tokens : RefreshFailed(t) \/ GraceEnds(t) \/ Evicted(t) \/ Ages(t)
  BY <1>2, RefreshFailedInv, ForgetInv, AgesInv
<1>3. CASE \E r \in Requests : FetchFails(r) \/ CallFailed(r)
  BY <1>3, FetchFailsInv, CallFailedInv
<1>4. CASE \E r \in Pages : Navigate(r)
  BY <1>4, NavigateInv
<1>5. CASE \E c \in Calls : StartCall(c)
  BY <1>5, StartCallInv
<1>6. CASE SignOut \/ \E kind \in {"login", "switch"} : Enter(kind)
  BY <1>6, SignOutInv, EnterInv
<1>7. CASE UNCHANGED vars
  <2>1. /\ UNCHANGED <<issued, session, age, used, over, replayed, inFlight, recent, jar>>
        /\ UNCHANGED <<reqs, calls, pendingRefresh, era, signedOut, adrift, excused>>
    BY <1>7 DEF vars, api, process, browser, history
  <2> QED
    BY <2>1 DEF Inv, TypeOK, Known, Remembered, RequestsFair, Joined, Fair, Owed, True,
       Succeeds
<1> QED  BY <1>1, <1>2, <1>3, <1>4, <1>5, <1>6, <1>7 DEF Next

LEMMA Invariance == Spec => []Inv
BY InitInv, NextInv, PTL DEF Spec

LEMMA InitLeaves == Init => Leaving
<1> SUFFICES ASSUME Init PROVE Leaving
  OBVIOUS
<1>1. /\ Door \in Requests /\ \A r \in Requests : reqs[r] = Nothing
      /\ Nothing.kind = "none" /\ Nothing.phase = "none" /\ Nothing.carried = None
  BY DEF Init, Requests, Nothing
<1>2. ~signedOut
  BY DEF Init
<1> QED
  BY <1>1, <1>2 DEF Leaving, Kinds, CarryTheJars, DoorLeaves, SignedOutGone

LEMMA NextLeaves == Inv /\ Leaving /\ [Next]_vars => Leaving'
<1> SUFFICES ASSUME Inv, Leaving, [Next]_vars PROVE Leaving'
  OBVIOUS
<1>1. CASE Runs
  <2>1. ASSUME NEW r \in Renewals, RenewalArrives(r) PROVE Leaving'
    <3>1. r \in Requests /\ r # Door
      BY Apart DEF Requests
    <3>2. JarMoves /\ UNCHANGED <<api, signedOut>>
      BY <2>1, <3>1, SetCookiesMoves DEF RenewalArrives
    <3> QED  BY <2>1, <3>2, RenewedLeaves DEF RenewalArrives
  <2> QED
    BY <1>1, <2>1, RefreshLeaves, HandlesLeaves, PageArrivesLeaves, CallArrivesLeaves,
       DoorArrivesLeaves
    DEF Runs
<1>2. CASE \E t \in Tokens : RefreshFailed(t) \/ GraceEnds(t) \/ Evicted(t) \/ Ages(t)
  BY <1>2, RefreshLeaves, TimeLeaves DEF GraceEnds, Evicted, Ages, api, browser, history
<1>3. CASE \E r \in Requests : FetchFails(r) \/ CallFailed(r)
  <2>1. ASSUME NEW r \in Requests, CallFailed(r) PROVE Leaving'
    <3>1. /\ UNCHANGED <<api, jar, signedOut, adrift>>
          /\ \E cookies : Respond(r, "502", cookies)
          /\ reqs[r].phase \in {"sent", "rendering"} /\ reqs[r] # Nothing
      BY <2>1 DEF CallFailed, Rendering, Nothing, browser, history
    <3>2. r # Door /\ Grows
      BY <3>1, DoorWaitsForNobody, ApiStays DEF Inv
    <3> QED  BY <3>1, <3>2, RespondHandled, HandledLeaves
  <2> QED  BY <1>3, <2>1, FetchFailsLeaves, DoorFailsLeaves
<1>4. CASE \E r \in Pages : Navigate(r)
  BY <1>4, NavigateLeaves
<1>5. CASE \E c \in Calls : StartCall(c)
  BY <1>5, StartCallLeaves
<1>6. CASE SignOut \/ \E kind \in {"login", "switch"} : Enter(kind)
  BY <1>6, DoorAskLeaves
<1>7. CASE UNCHANGED vars
  BY <1>7, TimeLeaves DEF vars, api, process, browser, history
<1> QED  BY <1>1, <1>2, <1>3, <1>4, <1>5, <1>6, <1>7 DEF Next

LEMMA Leaves == Spec => []Leaving
BY InitLeaves, NextLeaves, Invariance, PTL DEF Spec

(* The jar, what refresh.ts remembers and every request hold tokens the API has issued
   and outcomes of its exchanges, and nothing else. *)
THEOREM TypeCorrect == Spec => []TypeOK
BY Invariance, PTL DEF Inv

(* Whatever a process remembers and shares between requests, nobody is handed the
   tokens of another session, and a page that stores new ones was rendered with them. *)
THEOREM OwnSessionHolds == Spec => []OwnSession
<1>1. Inv => OwnSession
  BY AtRequest DEF OwnSession, Inv, Fair, Owed
<1> QED  BY <1>1, Invariance, PTL

(* Cookies are cleared by the user or for a session that is over, however many of the
   API's answers are lost. *)
THEOREM BlipsKeep == Spec => []BlipKeeps
<1>1. Inv => BlipKeeps
  BY AtRequest DEF BlipKeeps, Fair, Owed
<1> QED  BY <1>1, Invariance, PTL

(* A call waits for no renewal of before a sign-out, although whichever renewal ends
   clears pendingRefresh. *)
THEOREM CallsJoinTheirOwn == Spec => []JoinsItsOwn
<1>1. Inv => JoinsItsOwn
  BY DEF JoinsItsOwn, Inv, Joined
<1> QED  BY <1>1, Invariance, PTL

(* Once signed out, with the response or without it, the browser neither keeps nor is put
   back into a session that is live, whichever requests of whichever session were under
   way: but for one whose sign-out never got to the API or whose cookies another's late
   response replaced. *)
THEOREM SignOutIsFinal == Spec => []SignedOutIsOver
<1>1. Leaving => SignedOutIsOver
  BY DEF Leaving, SignedOutGone, SignedOutIsOver, Gone, GoneSession
<1> QED  BY <1>1, Leaves, PTL

-----------------------------------------------------------------------------
(* No token is presented again.  Once it has been exchanged, whoever carries it finds
   the outcome remembered, and as long as the jar holds it, the response of one of them
   is on its way with the next one. *)

\* A token whose second exchange would be held against a session that has not ended
\* and whose newest token the browser has, or is being sent.
Spent(t) == t \in used /\ session[t] \notin over \cup excused

\* The answer to q will replace t in the jar.
Brings(q, t) ==
    /\ q.carried = t /\ q.phase # "none"
    /\ IF q.phase = "back" THEN q.cookies > 0 /\ q.cookies # t ELSE q.outcome > 0

Awaits(q, t) == q.phase = "waits" /\ q.carried = t /\ q.outcome = None

\* Who is yet to ask has been told nothing.
Untold(q) == (q.phase = "arrived" \/ (q.phase = "sent" /\ ~q.retried)) => q.outcome = None

SpentOnce == \A t \in inFlight : ~Spent(t)
Awaited == \A t \in inFlight :
    recent[t] = None /\ \E r \in Requests \ {Door} : Awaits(reqs[r], t)
Covered == \A r \in Requests :
    reqs[r].carried # None /\ Spent(reqs[r].carried) => recent[reqs[r].carried] # None
Succeeded ==
    jar # None /\ Spent(jar) => \E r \in Requests \ {Door} : Brings(reqs[r], jar)
AllUntold == \A r \in Requests : Untold(reqs[r])

\* A call between two requests has none under way.
Asked == \A c \in Calls :
    /\ calls[c].phase \in {"idle", "renewing"} => reqs[c].phase = "none"
    /\ calls[c].joined # None => calls[c].phase = "renewing"

Issued == \A t \in used : t <= issued

Surviving ==
    /\ SpentOnce /\ Awaited /\ Covered /\ Succeeded
    /\ AllUntold /\ Asked /\ Issued /\ SessionSurvives

(* What was not spent is not, as long as nothing is exchanged. *)
LEMMA SpentShrinks ==
    ASSUME Inv, Issued, Grows, UNCHANGED used, excused \subseteq excused',
           NEW t \in Tokens, Spent(t)'
    PROVE  Spent(t)
BY DEF Spent, Issued, Grows

(* A handler's step, whatever becomes of its request. *)
LEMMA HandledSurvives ==
    ASSUME Inv, Leaving, Surviving, Grows, UNCHANGED <<used, replayed, recent, jar, calls>>,
           excused \subseteq excused', NEW r \in Requests, Handled(r),
           reqs[r].phase # "none", ~(reqs[r].phase = "waits" /\ reqs[r].outcome = None),
           inFlight \subseteq inFlight',
           \A t \in inFlight' \ inFlight :
                r # Door /\ t # None /\ recent[t] = None /\ Awaits(reqs'[r], t),
           Untold(reqs'[r]),
           r # Door => \A t \in Tokens : Brings(reqs[r], t) => Brings(reqs'[r], t)
    PROVE  Surviving'
<1>1. \A x \in Requests : x # r => reqs'[x] = reqs[x]
  BY DEF Handled
<1>2. \A x \in Requests : reqs'[x].carried = reqs[x].carried
                          /\ reqs[x].carried \in Tokens \cup {None}
  BY AtRequest DEF Handled, Request
<1>3. \A t \in Tokens : Spent(t)' => Spent(t)
  BY SpentShrinks DEF Surviving
<1>4. SpentOnce'
  <2>1. SUFFICES ASSUME NEW t \in inFlight' PROVE ~Spent(t)'
    BY DEF SpentOnce
  <2>2. CASE t \in inFlight
    BY <1>3, <2>2 DEF Surviving, SpentOnce, Inv, TypeOK
  <2>3. CASE t \notin inFlight
    <3>1. t = reqs[r].carried /\ t # None /\ recent[t] = None
      BY <1>2, <2>1, <2>3 DEF Awaits
    <3>2. ~Spent(t)
      BY <3>1 DEF Surviving, Covered
    <3> QED  BY <1>2, <1>3, <3>1, <3>2
  <2> QED  BY <2>2, <2>3
<1>5. Awaited'
  <2>1. SUFFICES ASSUME NEW t \in inFlight'
                 PROVE  recent[t] = None /\ \E x \in Requests \ {Door} : Awaits(reqs'[x], t)
    BY DEF Awaited, Awaits
  <2>2. CASE t \in inFlight
    <3>1. recent[t] = None
      BY <2>2 DEF Surviving, Awaited
    <3>2. PICK x \in Requests \ {Door} : Awaits(reqs[x], t)
      BY <2>2 DEF Surviving, Awaited
    <3>3. x # r
      BY <3>2 DEF Awaits
    <3> QED  BY <1>1, <3>1, <3>2, <3>3
  <2>3. CASE t \notin inFlight
    BY <2>1, <2>3
  <2> QED  BY <2>2, <2>3
<1>6. Covered'
  BY <1>2, <1>3 DEF Surviving, Covered
<1>7. Succeeded'
  <2>1. SUFFICES ASSUME jar # None, Spent(jar)'
                 PROVE  \E x \in Requests \ {Door} : Brings(reqs'[x], jar)
    BY DEF Succeeded, Brings
  <2>2. jar \in Tokens
    BY <2>1 DEF Inv, TypeOK
  <2>3. PICK x \in Requests \ {Door} : Brings(reqs[x], jar)
    BY <1>3, <2>1, <2>2 DEF Surviving, Succeeded
  <2>4. Brings(reqs'[x], jar)
    BY <1>1, <2>2, <2>3
  <2> QED  BY <2>4
<1>8. AllUntold'
  <2>1. \A x \in Requests : Untold(reqs'[x])
    BY <1>1 DEF Surviving, AllUntold
  <2> QED  BY <2>1 DEF AllUntold, Untold
<1>9. Asked'
  <2>1. \A c \in Calls : c # r => reqs'[c] = reqs[c]
    BY <1>1 DEF Requests
  <2>2. \A c \in Calls : c = r => calls[c].phase \notin {"idle", "renewing"}
    BY DEF Surviving, Asked
  <2>3. Asked /\ calls' = calls
    BY DEF Surviving
  <2>4. ASSUME NEW c \in Calls
        PROVE  /\ calls'[c].phase \in {"idle", "renewing"} => reqs'[c].phase = "none"
               /\ calls'[c].joined # None => calls'[c].phase = "renewing"
    BY <2>1, <2>2, <2>3 DEF Asked
  <2> QED  BY <2>4 DEF Asked
<1>10. Issued' /\ SessionSurvives'
  <2>1. issued <= issued' /\ issued \in Nat /\ issued' \in Nat
    BY SomeTokens DEF Inv, TypeOK, Grows, Tokens
  <2>2. used \subseteq Tokens
    BY DEF Inv, TypeOK
  <2>3. \A t \in used : t \in Nat
    BY <2>2, SomeTokens DEF Tokens
  <2> QED  BY <2>1, <2>3 DEF Surviving, Issued, SessionSurvives
<1> QED  BY <1>4, <1>5, <1>6, <1>7, <1>8, <1>9, <1>10 DEF Surviving

(* A response takes along what its request was told. *)
LEMMA RespondSurvives ==
    ASSUME Inv, Leaving, Surviving, Grows, UNCHANGED <<used, replayed, process, jar, calls>>,
           excused \subseteq excused', NEW r \in Requests, NEW status, NEW cookies,
           Respond(r, status, cookies),
           reqs[r].phase \in {"arrived", "waits", "sent", "rendering"},
           ~(reqs[r].phase = "waits" /\ reqs[r].outcome = None),
           r # Door /\ reqs[r].outcome > 0 => cookies = reqs[r].outcome
    PROVE  Surviving'
<1>1. reqs[r] # Nothing /\ UNCHANGED <<inFlight, recent>>
  BY DEF Nothing, process
<1>2. Handled(r) /\ reqs'[r].phase = "back" /\ reqs'[r].cookies = cookies
  BY <1>1, RespondHandled
<1>3. Untold(reqs'[r])
  BY <1>2 DEF Untold
<1>4. ASSUME r # Door, NEW t \in Tokens, Brings(reqs[r], t)
      PROVE  Brings(reqs'[r], t)
  <2>1. reqs[r].carried = t /\ reqs[r].outcome > 0
    BY <1>4 DEF Brings
  <2>2. t < cookies
    BY <1>4, <2>1, AtRequest DEF Fair, True, Succeeds
  <2>3. cookies > 0 /\ cookies # t
    BY <1>4, <2>1, <2>2, SomeTokens DEF Tokens
  <2> QED  BY <1>2, <2>1, <2>3 DEF Brings, Handled
<1> QED  BY <1>1, <1>2, <1>3, <1>4, HandledSurvives

(* A request that comes to wait waits for a token nobody has exchanged, or for an
   outcome that is remembered. *)
LEMMA RefreshSurvives ==
    ASSUME Inv, Leaving, Surviving, NEW r \in Requests, r # Door,
           UNCHANGED <<api, recent, jar, browser, history>>,
           reqs[r].phase \in {"arrived", "sent"}, reqs[r].outcome = None,
           reqs[r].carried # None, RefreshSession(r, reqs[r].carried)
    PROVE  Surviving'
<1> DEFINE t == reqs[r].carried
<1>1. /\ reqs[r] # Nothing /\ UNCHANGED <<used, replayed, excused, calls>> /\ Grows
      /\ t \in Tokens
  BY ApiStays, AtRequest DEF Nothing, api, browser, history, Inv, Request
<1>2. Handled(r)
  BY <1>1, RefreshHandled
<1>3. /\ reqs'[r].phase = "waits" /\ reqs'[r].outcome = recent[t] /\ reqs'[r].carried = t
      /\ inFlight' = IF recent[t] = None THEN inFlight \cup {t} ELSE inFlight
  BY <1>2, AtRequest DEF RefreshSession, Handled, Inv, TypeOK, Request
<1>4. \A u \in Tokens : ~Brings(reqs[r], u)
  BY DEF Brings, None
<1> HIDE DEF t
<1>5. \A u \in inFlight' \ inFlight : u # None /\ recent[u] = None /\ Awaits(reqs'[r], u)
  BY <1>1, <1>3, SomeTokens DEF Awaits, Tokens, None
<1>6. Untold(reqs'[r]) /\ inFlight \subseteq inFlight'
  BY <1>3 DEF Untold
<1> QED  BY <1>1, <1>2, <1>4, <1>5, <1>6, HandledSurvives

LEMMA GoesOnSurvives ==
    ASSUME Inv, Leaving, Surviving, NEW r \in Requests,
           NEW phase \in {"rendering", "sent"}, NEW again \in BOOLEAN,
           reqs' = [reqs EXCEPT ![r].phase = phase, ![r].retried = again],
           reqs[r].phase \in {"arrived", "waits"},
           ~(reqs[r].phase = "waits" /\ reqs[r].outcome = None),
           phase = "sent" /\ ~again => reqs[r].outcome = None,
           UNCHANGED <<api, process, jar, browser, history>>
    PROVE  Surviving'
<1>1. /\ reqs[r].phase # "none" /\ UNCHANGED <<used, replayed, excused, calls, inFlight, recent>>
      /\ Grows /\ reqs[r] # Nothing
  BY ApiStays DEF Nothing, api, browser, history, process, Inv
<1>2. /\ reqs'[r].phase = phase /\ reqs'[r].retried = again /\ Handled(r)
      /\ reqs'[r].outcome = reqs[r].outcome
  BY <1>1, AtRequest DEF Handled, Inv, TypeOK, Request
<1>3. Untold(reqs'[r])
  BY <1>2 DEF Untold
<1>4. \A t \in Tokens : Brings(reqs[r], t) => Brings(reqs'[r], t)
  BY <1>2 DEF Brings, Handled
<1> QED  BY <1>1, <1>2, <1>3, <1>4, HandledSurvives

(* What a page or a call is answered with is what it was told. *)
LEMMA CookiesTold ==
    ASSUME Inv, Surviving, NEW r \in Requests
    PROVE  /\ reqs[r].outcome > 0 => PageCookies(r) = reqs[r].outcome
           /\ reqs[r].phase = "sent" /\ reqs[r].outcome > 0 => Stored(r) = reqs[r].outcome
<1>1. reqs[r].outcome > 0 => PageCookies(r) = reqs[r].outcome
  BY DEF PageCookies, Rejected
<1>2. reqs[r].phase = "sent" /\ reqs[r].outcome > 0 => reqs[r].retried
  BY DEF Surviving, AllUntold, Untold, None
<1> QED  BY <1>1, <1>2 DEF Stored

(* Handlers exchange nothing. *)
LEMMA HandlesSurvive ==
    ASSUME Inv, Leaving, Surviving, NEW r \in Requests, Handles(r) PROVE Surviving'
<1>0. reqs[r] \in Request /\ Fair(reqs[r]) /\ Untold(reqs[r]) /\ None \notin Tokens
  BY AtRequest, SomeTokens DEF Surviving, AllUntold, None, Tokens
<1>1. UNCHANGED <<api, jar, browser, history>> =>
        Grows /\ UNCHANGED <<used, replayed, jar, excused, calls>>
  BY ApiStays DEF Inv, api, browser, history
<1>2. CASE ServePage(r)
  <2>1. r # Door /\ reqs[r].phase = "arrived" /\ reqs[r].outcome = None /\ ~reqs[r].retried
    BY <1>0, <1>2 DEF ServePage, Awaiting, Leaving, Kinds, Untold, Fair
  <2>2. CASE Has(r) /\ age[reqs[r].carried] # "fresh"
    BY <1>2, <2>1, <2>2, RefreshSurvives DEF ServePage, Has
  <2>3. CASE ~(Has(r) /\ age[reqs[r].carried] # "fresh")
    <3>1. reqs' = [reqs EXCEPT ![r].phase = "rendering", ![r].retried = FALSE]
      BY <1>0, <1>2, <2>1, <2>3 DEF ServePage, Inv, TypeOK, Request
    <3> QED  BY <1>2, <2>1, <2>3, <3>1, GoesOnSurvives DEF ServePage
  <2> QED  BY <2>2, <2>3
<1>3. CASE PageResumes(r)
  <2>1. reqs' = [reqs EXCEPT ![r].phase = "rendering", ![r].retried = reqs[r].retried]
    BY <1>0, <1>3 DEF PageResumes, Inv, TypeOK, Request
  <2>2. reqs[r].phase = "waits" /\ reqs[r].outcome # None /\ reqs[r].retried \in BOOLEAN
    BY <1>0, <1>3 DEF PageResumes, Waited, Request
  <2> QED  BY <1>3, <2>1, <2>2, GoesOnSurvives DEF PageResumes
<1>4. CASE RedirectedToSignIn(r) \/ Rendered(r)
  <2>1. /\ UNCHANGED <<api, process, jar, browser, history>> /\ reqs[r].phase = "rendering"
        /\ \E status : Respond(r, status, PageCookies(r))
    BY <1>4 DEF RedirectedToSignIn, Rendered, Rendering
  <2> QED  BY <1>1, <2>1, CookiesTold, RespondSurvives
<1>5. CASE ServeCall(r)
  <2>1. r # Door /\ reqs[r].phase = "arrived" /\ reqs[r].outcome = None /\ ~reqs[r].retried
    BY <1>0, <1>5 DEF ServeCall, Awaiting, Leaving, Kinds, Untold, Fair
  <2>2. CASE Has(r)
    <3>1. reqs' = [reqs EXCEPT ![r].phase = "sent", ![r].retried = FALSE]
      BY <1>0, <1>5, <2>1, <2>2 DEF ServeCall, Inv, TypeOK, Request
    <3> QED  BY <1>5, <2>1, <3>1, GoesOnSurvives DEF ServeCall
  <2>3. CASE ~Has(r)
    <3>1. Respond(r, "401", Keep) /\ ~(reqs[r].outcome > 0)
      BY <1>5, <2>1, <2>3 DEF ServeCall, None
    <3> QED  BY <1>1, <1>5, <2>1, <3>1, RespondSurvives DEF ServeCall
  <2> QED  BY <2>2, <2>3
<1>6. CASE CallAnswered(r)
  <2>1. reqs[r].phase = "sent" /\ r # Door /\ reqs[r].carried # None
    BY <1>0, <1>6, DoorWaitsForNobody DEF CallAnswered, Fair
  <2>2. CASE \E status : Respond(r, status, Stored(r)) /\ UNCHANGED process
    BY <1>1, <1>6, <2>1, <2>2, CookiesTold, RespondSurvives DEF CallAnswered
  <2>3. CASE ~reqs[r].retried /\ RefreshSession(r, reqs[r].carried) /\ UNCHANGED recent
    BY <1>0, <1>6, <2>1, <2>3, RefreshSurvives DEF CallAnswered, Untold
  <2> QED  BY <1>6, <2>2, <2>3 DEF CallAnswered
<1>7. CASE ServeRenewal(r)
  <2>1. r # Door /\ reqs[r].phase = "arrived" /\ reqs[r].outcome = None
    BY <1>0, <1>7 DEF ServeRenewal, Awaiting, Leaving, Kinds, Untold
  <2>2. CASE Has(r)
    BY <1>7, <2>1, <2>2, RefreshSurvives DEF ServeRenewal, Has
  <2>3. CASE ~Has(r)
    <3>1. Respond(r, "401", Clear) /\ ~(reqs[r].outcome > 0)
      BY <1>7, <2>1, <2>3 DEF ServeRenewal, None
    <3> QED  BY <1>1, <1>7, <2>1, <2>3, <3>1, RespondSurvives DEF ServeRenewal
  <2> QED  BY <2>2, <2>3
<1>8. CASE Resume(r)
  <2>1. reqs[r].phase = "waits" /\ reqs[r].outcome # None
    BY <1>8 DEF Resume, Waited
  <2>2. CASE reqs[r].outcome > 0 /\ reqs[r].kind = "call"
    <3>1. reqs' = [reqs EXCEPT ![r].phase = "sent", ![r].retried = TRUE]
      BY <1>8, <2>2 DEF Resume
    <3> QED  BY <1>8, <2>1, <3>1, GoesOnSurvives DEF Resume
  <2>3. CASE ~(reqs[r].outcome > 0 /\ reqs[r].kind = "call")
    <3>1. \E status, cookies : /\ Respond(r, status, cookies)
                               /\ reqs[r].outcome > 0 => cookies = reqs[r].outcome
      BY <1>8, <2>3 DEF Resume
    <3> QED  BY <1>1, <1>8, <2>1, <3>1, RespondSurvives DEF Resume
  <2> QED  BY <2>2, <2>3
<1>9. CASE ServeLogin(r) \/ ServeSwitch(r) \/ ServeLogout(r)
  <2>1. r = Door /\ reqs[r].phase = "arrived"
    BY <1>9 DEF ServeLogin, ServeSwitch, ServeLogout, Awaiting, Leaving, Kinds
  <2>2. Grows
    BY <1>9, ServeLoginGrows, ServeSwitchGrows, ServeLogoutGrows
  <2>3. UNCHANGED <<used, replayed, process, jar, calls, excused>>
    BY <1>9 DEF ServeLogin, ServeSwitch, ServeLogout, api, browser, history
  <2>4. \E status, cookies : Respond(r, status, cookies)
    BY <1>9 DEF ServeLogin, ServeSwitch, ServeLogout
  <2> QED  BY <2>1, <2>2, <2>3, <2>4, RespondSurvives
<1> QED
  BY <1>2, <1>3, <1>4, <1>5, <1>6, <1>7, <1>8, <1>9 DEF Handles

(* What an exchange of t, answered or not, does to the tokens: only t can come to be
   spent, and if it does, the next one is remembered and told. *)
LEMMA ExchangeSpends ==
    ASSUME Inv, Surviving, NEW t \in Tokens, RefreshAnswered(t) \/ RefreshFailed(t)
    PROVE  /\ t \in inFlight /\ Grows /\ Issued' /\ SessionSurvives'
           /\ \E outcome :
                /\ Settle(t, outcome)
                /\ \A u \in Tokens : Spent(u)' =>
                     Spent(u) \/ (u = t /\ outcome > 0 /\ outcome # Unavailable)
<1>0. t \in inFlight /\ t <= issued /\ ~Spent(t)
  BY DEF RefreshAnswered, RefreshFailed, Inv, Known, Surviving, SpentOnce
<1>1. Grows
  <2>1. CASE UNCHANGED api
    BY <2>1, ApiStays DEF Inv
  <2>2. CASE Exchange(t) /\ (Outcome(t) = Rejected \/ CanIssue)
    BY <1>0, <2>2, ExchangeGrows
  <2> QED  BY <2>1, <2>2 DEF RefreshAnswered, RefreshFailed
<1>2. /\ issued <= issued' /\ issued \in Nat /\ issued' \in Nat /\ t \in Nat
      /\ \A u \in used : u \in Nat /\ u \in Tokens
  <2>1. used \subseteq Tokens /\ issued \in Tokens /\ issued' \in Tokens /\ issued <= issued'
    BY <1>1 DEF Inv, TypeOK, Grows
  <2> QED  BY <2>1, SomeTokens DEF Tokens
<1>3. \A u \in Tokens : u \in used /\ Spent(u)' => session[u] \notin over \cup excused'
  BY <1>1, <1>2 DEF Spent, Grows, Surviving, Issued
<1>4. CASE UNCHANGED api /\ excused \subseteq excused' /\ Settle(t, Unavailable)
  <2>1. used' = used /\ replayed' = replayed
    BY <1>4 DEF api
  <2>2. \A u \in Tokens : Spent(u)' => Spent(u)
    BY <1>3, <1>4, <2>1 DEF Spent
  <2>3. Issued' /\ SessionSurvives'
    BY <1>2, <1>4, <2>1 DEF Surviving, Issued, SessionSurvives
  <2> QED  BY <1>0, <1>1, <1>4, <2>2, <2>3
<1>5. ASSUME Exchange(t), excused \subseteq excused'
      PROVE  /\ Issued' /\ SessionSurvives'
             /\ \A u \in Tokens : Spent(u)' => Spent(u) \/ (u = t /\ Outcome(t) = issued + 1)
  <2>1. used' = used \cup {t} \/ used' = used
    BY <1>5 DEF Exchange, api
  <2>2. replayed' \subseteq replayed \cup {session[t]}
        /\ (replayed' # replayed => t \in used /\ session[t] \notin over)
    BY <1>5 DEF Exchange, api
  <2>3. SessionSurvives'
    BY <1>0, <1>5, <2>2 DEF Spent, Surviving, SessionSurvives
  <2>4. Issued'
    BY <1>0, <1>2, <2>1 DEF Surviving, Issued
  <2>5. ASSUME NEW u \in Tokens, Spent(u)', ~Spent(u)
        PROVE  u = t /\ Outcome(t) = issued + 1
    <3>1. u \notin used
      BY <1>3, <1>5, <2>5 DEF Spent
    <3>2. u \in used'
      BY <2>5 DEF Spent
    <3>3. u = t /\ t \notin used /\ used' # used
      BY <2>1, <3>1, <3>2
    <3>4. session[t] \notin over
      BY <1>5, <3>3 DEF Exchange, api
    <3> QED  BY <3>3, <3>4 DEF Outcome
  <2> QED  BY <2>3, <2>4, <2>5
<1>6. CASE RefreshAnswered(t)
  <2>1. Exchange(t) /\ Settle(t, Outcome(t)) /\ excused' = excused
    BY <1>6 DEF RefreshAnswered, history
  <2>2. issued + 1 > 0 /\ issued + 1 # Unavailable
    BY <1>2 DEF Unavailable
  <2> QED  BY <1>0, <1>1, <1>5, <2>1, <2>2
<1>7. CASE RefreshFailed(t) /\ Exchange(t) /\ excused' = excused \cup {session[t]}
  <2>1. Settle(t, Unavailable)
    BY <1>7 DEF RefreshFailed
  <2>2. Issued' /\ SessionSurvives'
        /\ \A u \in Tokens : Spent(u)' => Spent(u) \/ (u = t /\ Outcome(t) = issued + 1)
    BY <1>5, <1>7
  <2>3. ~Spent(t)'
    BY <1>0, <1>1, <1>7 DEF Spent, Grows
  <2> QED  BY <1>0, <1>1, <2>1, <2>2, <2>3
<1> QED
  BY <1>4, <1>6, <1>7 DEF RefreshFailed

LEMMA ExchangeSurvives ==
    ASSUME Inv, Leaving, Surviving, NEW t \in Tokens, RefreshAnswered(t) \/ RefreshFailed(t)
    PROVE  Surviving'
<1>0. t \in inFlight /\ Issued' /\ SessionSurvives' /\ UNCHANGED <<jar, calls>> /\ ~Spent(t)
  BY ExchangeSpends DEF RefreshAnswered, RefreshFailed, browser, Surviving, SpentOnce
<1>1. PICK outcome :
        /\ Settle(t, outcome)
        /\ \A u \in Tokens : Spent(u)' =>
             Spent(u) \/ (u = t /\ outcome > 0 /\ outcome # Unavailable)
  BY ExchangeSpends
<1>2. /\ inFlight' = inFlight \ {t}
      /\ recent' = IF outcome = Unavailable THEN recent ELSE [recent EXCEPT ![t] = outcome]
      /\ Tell(t, outcome)
  BY <1>1 DEF Settle
<1>3. ASSUME NEW x \in Requests
      PROVE  /\ reqs'[x].carried = reqs[x].carried /\ reqs'[x].phase = reqs[x].phase
             /\ reqs'[x].cookies = reqs[x].cookies /\ reqs'[x].retried = reqs[x].retried
             /\ ~Awaits(reqs[x], t) => reqs'[x] = reqs[x]
             /\ Awaits(reqs[x], t) => reqs'[x].outcome = outcome
  BY <1>2, AtRequest DEF Tell, Awaits, Fair, Request
<1>4. \A u \in Tokens : recent'[u] = IF u = t /\ outcome # Unavailable THEN outcome ELSE recent[u]
  BY <1>2 DEF Inv, TypeOK
<1>5. recent[t] = None /\ inFlight \subseteq Tokens
  BY <1>0 DEF Surviving, Awaited, Inv, TypeOK
<1>6. SpentOnce'
  BY <1>1, <1>2, <1>5 DEF Surviving, SpentOnce
<1>7. Awaited'
  <2>1. SUFFICES ASSUME NEW u \in inFlight, u # t
                 PROVE  recent'[u] = None /\ \E x \in Requests \ {Door} : Awaits(reqs'[x], u)
    BY <1>2 DEF Awaited, Awaits
  <2>2. PICK x \in Requests \ {Door} : Awaits(reqs[x], u)
    BY DEF Surviving, Awaited
  <2>3. reqs'[x] = reqs[x]
    BY <1>3, <2>1, <2>2 DEF Awaits
  <2> QED  BY <1>4, <1>5, <2>1, <2>2, <2>3 DEF Surviving, Awaited
<1>8. Covered'
  <2>1. SUFFICES ASSUME NEW x \in Requests, reqs[x].carried # None, Spent(reqs[x].carried)'
                 PROVE  recent'[reqs[x].carried] # None
    BY <1>3 DEF Covered
  <2>2. reqs[x].carried \in Tokens
    BY <2>1, AtRequest DEF Request
  <2>3. CASE Spent(reqs[x].carried)
    <3>1. recent[reqs[x].carried] # None
      BY <2>1, <2>3 DEF Surviving, Covered
    <3>2. reqs[x].carried # t
      BY <1>0, <2>3
    <3> QED  BY <1>4, <2>2, <3>1, <3>2
  <2>4. CASE reqs[x].carried = t /\ outcome > 0 /\ outcome # Unavailable
    BY <1>4, <2>4 DEF None
  <2> QED  BY <1>1, <1>3, <2>1, <2>2, <2>3, <2>4 DEF Spent
<1>9. Succeeded'
  <2>1. SUFFICES ASSUME jar # None, Spent(jar)'
                 PROVE  \E x \in Requests \ {Door} : Brings(reqs'[x], jar)
    BY <1>0 DEF Succeeded, Brings
  <2>2. jar \in Tokens
    BY <2>1 DEF Inv, TypeOK
  <2>3. CASE Spent(jar)
    <3>1. PICK x \in Requests \ {Door} : Brings(reqs[x], jar)
      BY <2>1, <2>3 DEF Surviving, Succeeded
    <3>2. ~Awaits(reqs[x], t)
      BY <3>1 DEF Brings, Awaits, None
    <3> QED  BY <1>3, <3>1, <3>2
  <2>4. CASE jar = t /\ outcome > 0
    <3>1. PICK x \in Requests \ {Door} : Awaits(reqs[x], t)
      BY <1>0 DEF Surviving, Awaited
    <3>2. Brings(reqs'[x], jar)
      BY <1>3, <2>4, <3>1 DEF Brings, Awaits
    <3> QED  BY <3>2
  <2> QED  BY <1>0, <1>1, <2>1, <2>2, <2>3, <2>4 DEF Spent
<1>10. AllUntold'
  <2>1. \A x \in Requests : Untold(reqs'[x])
    BY <1>3 DEF Surviving, AllUntold, Untold, Awaits
  <2> QED  BY <2>1 DEF AllUntold, Untold
<1>11. Asked'
  BY <1>0, <1>3 DEF Surviving, Asked, Requests
<1> QED  BY <1>0, <1>6, <1>7, <1>8, <1>9, <1>10, <1>11 DEF Surviving

(* The grace of a token does not end under a request that carries it. *)
LEMMA TimeSurvives ==
    ASSUME Inv, Surviving, NEW t \in Tokens, GraceEnds(t) \/ Evicted(t) \/ Ages(t)
    PROVE  Surviving'
<1>1. /\ UNCHANGED <<used, replayed, over, session, issued, inFlight, jar, reqs, calls>>
      /\ excused \subseteq excused'
      /\ \A u \in Tokens : \/ recent'[u] = recent[u]
                           \/ /\ recent'[u] = None
                              /\ \/ \A r \in Requests : reqs[r].carried # u
                                 \/ session[u] \in excused'
  BY DEF GraceEnds, Evicted, Ages, api, process, browser, history, Inv, TypeOK
<1>2. inFlight \subseteq Tokens /\ \A r \in Requests : reqs[r].carried \in Tokens \cup {None}
  BY AtRequest DEF Inv, TypeOK, Request
<1>3. SpentOnce' /\ Succeeded' /\ AllUntold' /\ Asked' /\ Issued' /\ SessionSurvives'
  BY <1>1 DEF Surviving, SpentOnce, Spent, Succeeded, Brings, AllUntold, Untold, Asked,
     Issued, SessionSurvives
<1>4. Awaited'
  BY <1>1, <1>2 DEF Surviving, Awaited, Awaits
<1>5. Covered'
  BY <1>1, <1>2 DEF Surviving, Covered, Spent
<1> QED  BY <1>3, <1>4, <1>5 DEF Surviving

(* The browser: who asks carries what is in the jar, and what is put in the jar is not
   spent, or the browser has been left with it. *)
LEMMA BrowserSurvives ==
    ASSUME Inv, Surviving, UNCHANGED <<api, process>>, excused \subseteq excused', Asked',
           \A x \in Requests :
                \/ reqs'[x] = reqs[x]
                \/ /\ reqs[x].phase # "waits"
                   /\ \/ reqs'[x] = Nothing
                      \/ /\ reqs'[x].carried = jar' /\ reqs'[x].phase = "arrived"
                         /\ reqs'[x].outcome = None,
           jar' # None /\ Spent(jar)' =>
                /\ jar' = jar
                /\ \E x \in Requests \ {Door} : Brings(reqs[x], jar) /\ reqs'[x] = reqs[x]
    PROVE  Surviving'
<1>1. UNCHANGED <<issued, session, used, over, replayed, inFlight, recent>>
  BY DEF api, process
<1>2. \A u \in Tokens : Spent(u)' => Spent(u)
  BY <1>1 DEF Spent
<1>3. Nothing.phase = "none" /\ Nothing.carried = None
  BY DEF Nothing
<1>4. SpentOnce'
  BY <1>1, <1>2 DEF Surviving, SpentOnce, Inv, TypeOK
<1>5. Awaited'
  <2>1. SUFFICES ASSUME NEW u \in inFlight
                 PROVE  recent[u] = None /\ \E x \in Requests \ {Door} : Awaits(reqs'[x], u)
    BY <1>1 DEF Awaited, Awaits
  <2>2. PICK x \in Requests \ {Door} : Awaits(reqs[x], u)
    BY DEF Surviving, Awaited
  <2>3. reqs'[x] = reqs[x]
    BY <2>2 DEF Awaits
  <2> QED  BY <2>2, <2>3 DEF Surviving, Awaited
<1>6. Covered'
  <2>1. SUFFICES ASSUME NEW x \in Requests, reqs'[x].carried # None, Spent(reqs[x].carried)'
                 PROVE  recent[reqs'[x].carried] # None
    BY <1>1 DEF Covered
  <2>2. CASE reqs'[x] = reqs[x]
    <3>1. reqs[x].carried \in Tokens
      BY <2>1, <2>2, AtRequest DEF Request
    <3>2. Spent(reqs[x].carried)
      BY <1>1, <2>1, <2>2 DEF Spent
    <3> QED  BY <2>1, <2>2, <3>2 DEF Surviving, Covered
  <2>3. CASE reqs'[x] = Nothing
    BY <1>3, <2>1, <2>3
  <2>4. CASE reqs'[x].carried = jar'
    <3>1. jar' # None /\ Spent(jar)'
      BY <2>1, <2>4 DEF Spent
    <3>2. PICK y \in Requests \ {Door} : Brings(reqs[y], jar) /\ jar' = jar
      BY <3>1
    <3>3. reqs[y].carried = jar /\ Spent(jar)
      BY <1>1, <3>1, <3>2 DEF Brings, Spent
    <3>4. recent[jar] # None
      BY <3>1, <3>2, <3>3 DEF Surviving, Covered
    <3> QED  BY <2>4, <3>2, <3>4
  <2> QED  BY <2>2, <2>3, <2>4
<1>7. Succeeded'
  <2>1. SUFFICES ASSUME jar' # None, Spent(jar)'
                 PROVE  \E x \in Requests \ {Door} : Brings(reqs'[x], jar')
    BY DEF Succeeded, Brings
  <2> QED  BY <2>1
<1>8. AllUntold'
  <2>1. ASSUME NEW x \in Requests PROVE Untold(reqs'[x])
    BY <1>3 DEF Surviving, AllUntold, Untold
  <2> QED  BY <2>1 DEF AllUntold, Untold
<1>9. Issued' /\ SessionSurvives'
  BY <1>1 DEF Surviving, Issued, SessionSurvives
<1> QED  BY <1>4, <1>5, <1>6, <1>7, <1>8, <1>9 DEF Surviving

(* A response leaves no spent token in the jar but the one it finds there, for which
   another is on its way. *)
LEMMA CookiesReplace ==
    ASSUME Inv, Surviving, UNCHANGED api, NEW r \in Requests, reqs[r].phase = "back",
           SetCookies(r), jar' # None, Spent(jar)'
    PROVE  /\ jar' = jar
           /\ \E x \in Requests \ {Door} : Brings(reqs[x], jar) /\ x # r
<1>0. /\ UNCHANGED <<session, used, over>> /\ excused \subseteq excused'
      /\ reqs[r].cookies \in Tokens \cup {Keep, Clear}
  BY AtRequest DEF api, SetCookies, Request
<1>1. jar' = jar /\ ~(reqs[r].cookies > 0 /\ reqs[r].cookies # jar)
  <2>1. CASE reqs[r].cookies = Keep
    BY <2>1 DEF SetCookies, Keep
  <2>2. CASE reqs[r].cookies # Keep
    <3>1. jar' = reqs[r].cookies
      BY <2>2 DEF SetCookies
    <3>2. jar' \in used
      BY <1>0 DEF Spent
    <3>3. session[jar'] \notin excused'
      BY <1>0 DEF Spent
    <3> QED  BY <3>1, <3>2, <3>3 DEF SetCookies
  <2> QED  BY <2>1, <2>2
<1>2. Spent(jar)
  BY <1>0, <1>1 DEF Spent
<1>3. PICK x \in Requests \ {Door} : Brings(reqs[x], jar)
  BY <1>1, <1>2 DEF Surviving, Succeeded
<1>4. x # r
  BY <1>1, <1>3 DEF Brings
<1> QED  BY <1>1, <1>3, <1>4

(* A lost response leaves the browser without the token it would have brought. *)
LEMMA LostReplaces ==
    ASSUME Inv, Leaving, Surviving, UNCHANGED <<api, jar>>, NEW r \in Requests,
           reqs[r].phase \in {"arrived", "back"},
           excused' = IF reqs[r].cookies > 0
                      THEN excused \cup {session[reqs[r].cookies]} ELSE excused,
           jar' # None, Spent(jar)'
    PROVE  /\ jar' = jar
           /\ \E x \in Requests \ {Door} : Brings(reqs[x], jar) /\ x # r
<1>0. UNCHANGED <<session, used, over>> /\ excused \subseteq excused'
  BY DEF api
<1>1. Spent(jar) /\ session[jar] \notin excused'
  BY <1>0 DEF Spent
<1>2. PICK x \in Requests \ {Door} : Brings(reqs[x], jar)
  BY <1>1 DEF Surviving, Succeeded
<1>3. ASSUME x = r PROVE FALSE
  <2>1. reqs[r].cookies > 0 /\ reqs[r].carried = jar
    BY <1>2, <1>3 DEF Brings, Surviving, AllUntold, Untold, None
  <2>2. reqs[r].kind \in {"page", "call", "renewal"}
    BY <1>2, <1>3, <2>1 DEF Leaving, Kinds, Nothing, Keep
  <2>3. session[reqs[r].cookies] = session[jar]
    BY <2>1, <2>2, AtRequest DEF Fair, Owed
  <2> QED  BY <1>1, <2>1, <2>3
<1> QED  BY <1>2, <1>3

(* While nothing is put in the jar, what is to replace it is still on its way. *)
LEMMA JarReplaces ==
    ASSUME Surviving, UNCHANGED <<api, jar, excused>>, jar' # None, Spent(jar)'
    PROVE  jar' = jar /\ \E x \in Requests \ {Door} : Brings(reqs[x], jar)
BY DEF api, Spent, Surviving, Succeeded

LEMMA Answered == Nothing.phase = "none" /\ Quiet.phase = "idle" /\ Quiet.joined = None
BY DEF Nothing, Quiet

LEMMA AsksAnew ==
    ASSUME NEW r, NEW kind
    PROVE  /\ Ask(r, kind).carried = jar /\ Ask(r, kind).phase = "arrived"
           /\ Ask(r, kind).outcome = None
BY DEF Ask, Nothing

(* A request of the user's. *)
LEMMA AskSurvives ==
    ASSUME Inv, Surviving, UNCHANGED <<api, process, jar, excused>>, NEW r \in Requests,
           NEW kind, reqs[r].phase = "none", reqs' = [reqs EXCEPT ![r] = Ask(r, kind)],
           Asked'
    PROVE  Surviving'
<1>1. PICK q : q = Ask(r, kind)
  OBVIOUS
<1>2. \A x \in Requests : reqs'[x] = IF x = r THEN q ELSE reqs[x]
  BY <1>1 DEF Inv, TypeOK
<1>3. q.carried = jar' /\ q.phase = "arrived" /\ q.outcome = None
  BY <1>1, AsksAnew
<1>4. jar' # None /\ Spent(jar)' =>
        /\ jar' = jar
        /\ \E x \in Requests \ {Door} : Brings(reqs[x], jar) /\ reqs'[x] = reqs[x]
  <2>1. SUFFICES ASSUME jar' # None, Spent(jar)'
                 PROVE  \E x \in Requests \ {Door} : Brings(reqs[x], jar) /\ reqs'[x] = reqs[x]
    OBVIOUS
  <2>2. PICK x \in Requests \ {Door} : Brings(reqs[x], jar)
    BY <2>1, JarReplaces
  <2>3. x # r
    BY <2>2 DEF Brings
  <2> QED  BY <1>2, <2>2, <2>3
<1> QED  BY <1>2, <1>3, <1>4, BrowserSurvives

LEMMA UserSurvives ==
    ASSUME Inv, Surviving,
           \/ \E r \in Pages : Navigate(r)
           \/ \E c \in Calls : StartCall(c)
           \/ SignOut
           \/ \E kind \in {"login", "switch"} : Enter(kind)
    PROVE  Surviving'
<1>1. ASSUME NEW r \in Pages, Navigate(r) PROVE Surviving'
  <2>1. /\ reqs' = [reqs EXCEPT ![r] = Ask(r, "page")] /\ reqs[r].phase = "none"
        /\ UNCHANGED <<api, process, jar, excused, calls>>
    BY <1>1 DEF Navigate, Idle, Nothing, browser, history
  <2>2. r \in Requests /\ \A c \in Calls : reqs'[c] = reqs[c]
    BY <2>1, Apart DEF Requests, Inv, TypeOK
  <2>3. Asked'
    BY <2>1, <2>2 DEF Surviving, Asked
  <2> QED  BY <2>1, <2>2, <2>3, AskSurvives
<1>2. ASSUME NEW c \in Calls, StartCall(c) PROVE Surviving'
  <2>1. /\ reqs' = [reqs EXCEPT ![c] = Ask(c, "call")] /\ c \in Requests
        /\ calls[c].phase = "idle" /\ calls' = [calls EXCEPT ![c].phase = "first"]
        /\ UNCHANGED <<api, process, jar, excused>>
    BY <1>2 DEF StartCall, history, Requests
  <2>2. reqs[c].phase = "none" /\ calls[c].joined = None
    BY <2>1 DEF Surviving, Asked, Inv, TypeOK, Call
  <2>3. ASSUME NEW d \in Calls
        PROVE  /\ calls'[d].phase \in {"idle", "renewing"} => reqs'[d].phase = "none"
               /\ calls'[d].joined # None => calls'[d].phase = "renewing"
    <3>1. CASE d = c
      <4>1. calls'[d].phase = "first" /\ calls'[d].joined = None
        BY <2>1, <2>2, <3>1 DEF Inv, TypeOK, Call
      <4> QED  BY <4>1
    <3>2. CASE d # c
      <4>1. reqs'[d] = reqs[d] /\ calls'[d] = calls[d]
        BY <2>1, <3>2 DEF Inv, TypeOK, Requests
      <4> QED  BY <4>1 DEF Surviving, Asked
    <3> QED  BY <3>1, <3>2
  <2>4. Asked'
    BY <2>3 DEF Asked
  <2> QED  BY <2>1, <2>2, <2>4, AskSurvives
<1>3. ASSUME SignOut \/ \E kind \in {"login", "switch"} : Enter(kind) PROVE Surviving'
  <2>1. PICK kind : reqs' = [reqs EXCEPT ![Door] = Ask(Door, kind)]
    BY <1>3 DEF SignOut, Enter
  <2>2. /\ reqs[Door].phase = "none" /\ UNCHANGED <<api, process, jar, excused, calls>>
    BY <1>3 DEF SignOut, Enter, Idle, Nothing, browser, history
  <2>3. Door \in Requests /\ \A c \in Calls : reqs'[c] = reqs[c]
    BY <2>1, Apart DEF Requests, Inv, TypeOK
  <2>4. Asked'
    BY <2>2, <2>3 DEF Surviving, Asked
  <2> QED  BY <2>1, <2>2, <2>3, <2>4, AskSurvives
<1> QED  BY <1>1, <1>2, <1>3

(* The response of r has been dealt with, and nobody has been asked. *)
LEMMA DoneSurvives ==
    ASSUME Inv, Surviving, UNCHANGED <<api, process>>, NEW r \in Requests,
           reqs[r].phase # "waits", Done(r), excused \subseteq excused',
           jar' # None /\ Spent(jar)' =>
                /\ jar' = jar
                /\ \E x \in Requests \ {Door} : Brings(reqs[x], jar) /\ x # r,
           \A c \in Calls : calls'[c] = calls[c] \/ (c = r /\ calls'[c] = Quiet)
    PROVE  Surviving'
<1>1. \A x \in Requests : reqs'[x] = IF x = r THEN Nothing ELSE reqs[x]
  BY DEF Done, Inv, TypeOK
<1>2. Asked'
  BY <1>1, Answered DEF Surviving, Asked, Requests
<1> QED  BY <1>1, <1>2, BrowserSurvives

(* A response of a page, of the door's, and of a call that is over. *)
LEMMA PageSurvives ==
    ASSUME Inv, Surviving, NEW r \in Requests,
           (DoorArrives /\ r = Door) \/ PageArrives(r)
    PROVE  Surviving'
<1>1. /\ reqs[r].phase = "back" /\ SetCookies(r) /\ Done(r)
      /\ UNCHANGED <<api, process, calls>>
  BY DEF DoorArrives, PageArrives, browser
<1>2. excused \subseteq excused'
  BY <1>1 DEF SetCookies
<1> QED  BY <1>1, <1>2, CookiesReplace, DoneSurvives

LEMMA CallArrivesSurvives ==
    ASSUME Inv, Surviving, NEW c \in Calls, CallArrives(c) PROVE Surviving'
<1>1. /\ reqs[c].phase = "back" /\ SetCookies(c) /\ UNCHANGED <<api, process>>
      /\ excused \subseteq excused' /\ c \in Requests
  BY DEF CallArrives, SetCookies, Requests
<1>2. jar' # None /\ Spent(jar)' =>
        /\ jar' = jar
        /\ \E x \in Requests \ {Door} : Brings(reqs[x], jar) /\ x # c
  BY <1>1, CookiesReplace
<1>3. CASE calls' = [calls EXCEPT ![c] = Quiet] /\ Done(c)
  <2>1. \A d \in Calls : calls'[d] = calls[d] \/ (d = c /\ calls'[d] = Quiet)
    BY <1>3 DEF Inv, TypeOK
  <2> QED  BY <1>1, <1>2, <1>3, <2>1, DoneSurvives
<1>4. ASSUME NEW j, calls' = [calls EXCEPT ![c].phase = "renewing", ![c].joined = j,
                                          ![c].era = era]
      PROVE  /\ calls'[c].phase = "renewing"
             /\ \A d \in Calls : d # c => calls'[d] = calls[d]
  BY <1>4 DEF Inv, TypeOK, Call
<1>5. CASE /\ calls' = [calls EXCEPT ![c].phase = "renewing", ![c].joined = pendingRefresh,
                                    ![c].era = era]
           /\ Done(c)
  <2>1. \A x \in Requests : reqs'[x] = IF x = c THEN Nothing ELSE reqs[x]
    BY <1>5 DEF Done, Inv, TypeOK
  <2>2. Asked'
    <3>1. calls'[c].phase = "renewing" /\ \A d \in Calls : d # c => calls'[d] = calls[d]
      BY <1>4, <1>5
    <3>2. reqs'[c] = Nothing /\ \A d \in Calls : d # c => reqs'[d] = reqs[d]
      BY <2>1 DEF Requests
    <3> QED  BY <3>1, <3>2, Answered DEF Surviving, Asked
  <2> QED  BY <1>1, <1>2, <2>1, <2>2, BrowserSurvives
<1>6. ASSUME NEW r \in Renewals, Idle(r),
             calls' = [calls EXCEPT ![c].phase = "renewing", ![c].joined = r, ![c].era = era],
             reqs' = [reqs EXCEPT ![c] = Nothing,
                          ![r] = [Ask(r, "renewal") EXCEPT !.carried = jar', !.era = era]]
      PROVE  Surviving'
  <2>1. PICK q : q = [Ask(r, "renewal") EXCEPT !.carried = jar', !.era = era]
    OBVIOUS
  <2>2. q.carried = jar' /\ q.phase = "arrived" /\ q.outcome = None
    BY <2>1 DEF Ask, Nothing
  <2>3. /\ reqs[r].phase = "none" /\ r \notin Calls /\ r # c /\ r \in Requests
    BY <1>6, Apart DEF Idle, Nothing, Requests
  <2>4. \A x \in Requests : reqs'[x] = IF x = r THEN q ELSE IF x = c THEN Nothing ELSE reqs[x]
    BY <1>1, <1>6, <2>1, <2>3 DEF Inv, TypeOK
  <2>5. Asked'
    <3>1. calls'[c].phase = "renewing" /\ \A d \in Calls : d # c => calls'[d] = calls[d]
      BY <1>4, <1>6
    <3>2. reqs'[c] = Nothing /\ \A d \in Calls : d # c => reqs'[d] = reqs[d]
      BY <2>3, <2>4 DEF Requests
    <3> QED  BY <3>1, <3>2, Answered DEF Surviving, Asked
  <2>6. jar' # None /\ Spent(jar)' =>
          /\ jar' = jar
          /\ \E x \in Requests \ {Door} : Brings(reqs[x], jar) /\ reqs'[x] = reqs[x]
    <3>1. SUFFICES ASSUME jar' # None, Spent(jar)'
                   PROVE  /\ jar' = jar
                          /\ \E x \in Requests \ {Door} :
                                Brings(reqs[x], jar) /\ reqs'[x] = reqs[x]
      OBVIOUS
    <3>2. PICK x \in Requests \ {Door} : Brings(reqs[x], jar) /\ x # c /\ jar' = jar
      BY <1>2, <3>1
    <3>3. x # r
      BY <2>3, <3>2 DEF Brings
    <3> QED  BY <2>4, <3>2, <3>3
  <2> QED  BY <1>1, <2>2, <2>3, <2>4, <2>5, <2>6, BrowserSurvives
<1> QED  BY <1>3, <1>5, <1>6 DEF CallArrives

(* A renewal that ends, and the calls that waited for it. *)
LEMMA RenewedSurvives ==
    ASSUME Inv, Surviving, UNCHANGED <<api, process>>, NEW r \in Renewals,
           reqs[r].phase # "waits", NEW worked \in BOOLEAN, Renewed(r, worked),
           excused \subseteq excused',
           jar' # None /\ Spent(jar)' =>
                /\ jar' = jar
                /\ \E x \in Requests \ {Door} : Brings(reqs[x], jar) /\ x # r
    PROVE  Surviving'
<1>1. r \in Requests /\ r # None /\ r \notin Calls
  BY Apart DEF Requests, None
<1>2. ASSUME NEW c \in Calls, calls[c].joined = r
      PROVE  reqs[c].phase = "none"
  BY <1>1, <1>2 DEF Surviving, Asked
<1>3. ASSUME NEW x \in Requests
      PROVE  \/ reqs'[x] = reqs[x]
             \/ x = r /\ reqs'[x] = Nothing
             \/ /\ worked /\ x \in Calls /\ calls[x].joined = r
                /\ reqs'[x].carried = jar' /\ reqs'[x].phase = "arrived"
                /\ reqs'[x].outcome = None
  <2>1. PICK q : q = [Ask(x, "call") EXCEPT !.carried = jar']
    OBVIOUS
  <2>2. q.carried = jar' /\ q.phase = "arrived" /\ q.outcome = None
    BY <2>1 DEF Ask, Nothing
  <2>3. reqs'[x] = IF x = r THEN Nothing
                   ELSE IF worked /\ x \in {c \in Calls : calls[c].joined = r} THEN q
                   ELSE reqs[x]
    BY <2>1 DEF Renewed
  <2> QED  BY <2>2, <2>3
<1>4. ASSUME NEW c \in Calls
      PROVE  /\ calls'[c].phase \in {"idle", "renewing"} => reqs'[c].phase = "none"
             /\ calls'[c].joined # None => calls'[c].phase = "renewing"
  <2>1. PICK q : q = [Quiet EXCEPT !.phase = "second"]
    OBVIOUS
  <2>2. q.phase = "second" /\ q.joined = None
    BY <2>1 DEF Quiet
  <2>3. calls'[c] = IF calls[c].joined # r THEN calls[c] ELSE IF worked THEN q ELSE Quiet
    BY <2>1 DEF Renewed
  <2>4. c \in Requests /\ c # r
    BY <1>1 DEF Requests
  <2>5. CASE calls[c].joined = r
    <3>1. ~worked => reqs'[c] = reqs[c] /\ reqs[c].phase = "none"
      BY <1>2, <1>3, <2>4, <2>5
    <3> QED  BY <2>2, <2>3, <2>5, <3>1, Answered
  <2>6. CASE calls[c].joined # r
    <3>1. reqs'[c] = reqs[c] /\ calls'[c] = calls[c]
      BY <1>3, <2>3, <2>4, <2>6
    <3> QED  BY <3>1 DEF Surviving, Asked
  <2> QED  BY <2>5, <2>6
<1>5. Asked'
  BY <1>4 DEF Asked
<1>6. jar' # None /\ Spent(jar)' =>
        /\ jar' = jar
        /\ \E x \in Requests \ {Door} : Brings(reqs[x], jar) /\ reqs'[x] = reqs[x]
  <2>1. SUFFICES ASSUME jar' # None, Spent(jar)'
                 PROVE  /\ jar' = jar
                        /\ \E x \in Requests \ {Door} :
                              Brings(reqs[x], jar) /\ reqs'[x] = reqs[x]
    OBVIOUS
  <2>2. PICK x \in Requests \ {Door} : Brings(reqs[x], jar) /\ x # r /\ jar' = jar
    BY <2>1
  <2>3. reqs'[x] = reqs[x]
    BY <1>2, <1>3, <2>2 DEF Brings
  <2> QED  BY <2>2, <2>3
<1> QED  BY <1>2, <1>3, <1>5, <1>6, BrowserSurvives

LEMMA RenewalArrivesSurvives ==
    ASSUME Inv, Surviving, NEW r \in Renewals, RenewalArrives(r) PROVE Surviving'
<1>1. /\ reqs[r].phase = "back" /\ SetCookies(r) /\ Renewed(r, reqs[r].status = "ok")
      /\ UNCHANGED <<api, process>> /\ r \in Requests /\ excused \subseteq excused'
  BY DEF RenewalArrives, SetCookies, Requests
<1> QED  BY <1>1, CookiesReplace, RenewedSurvives

LEMMA FetchFailsSurvives ==
    ASSUME Inv, Leaving, Surviving, NEW r \in Requests, FetchFails(r) PROVE Surviving'
<1>1. /\ reqs[r].phase \in {"arrived", "back"} /\ UNCHANGED <<api, process, jar>>
      /\ excused' = IF reqs[r].cookies > 0
                    THEN excused \cup {session[reqs[r].cookies]} ELSE excused
  BY DEF FetchFails
<1>2. /\ excused \subseteq excused'
      /\ jar' # None /\ Spent(jar)' =>
            /\ jar' = jar
            /\ \E x \in Requests \ {Door} : Brings(reqs[x], jar) /\ x # r
  BY <1>1, LostReplaces
<1>3. CASE r \in Renewals
  BY <1>1, <1>2, <1>3, RenewedSurvives DEF FetchFails
<1>4. CASE r \notin Renewals
  <2>1. Done(r) /\ \A c \in Calls : calls'[c] = calls[c] \/ (c = r /\ calls'[c] = Quiet)
    BY <1>4 DEF FetchFails, Inv, TypeOK
  <2> QED  BY <1>1, <1>2, <2>1, DoneSurvives
<1> QED  BY <1>3, <1>4

LEMMA CallFailedSurvives ==
    ASSUME Inv, Leaving, Surviving, NEW r \in Requests, CallFailed(r) PROVE Surviving'
<1>1. /\ UNCHANGED <<used, replayed, process, jar, calls, excused>> /\ Grows
  BY ApiStays DEF CallFailed, api, browser, history, Inv
<1>2. /\ reqs[r].phase \in {"sent", "rendering"}
      /\ \E cookies : /\ Respond(r, "502", cookies)
                      /\ reqs[r].outcome > 0 => cookies = reqs[r].outcome
  BY CookiesTold DEF CallFailed, Rendering
<1> QED  BY <1>1, <1>2, RespondSurvives

LEMMA InitSurvives == Init => Surviving
<1> SUFFICES ASSUME Init PROVE Surviving
  OBVIOUS
<1>1. used = {} /\ inFlight = {} /\ replayed = {}
  BY DEF Init
<1>2. \A r \in Requests : reqs[r].phase = "none"
  BY DEF Init, Nothing
<1>3. \A c \in Calls : calls[c].phase = "idle" /\ calls[c].joined = None /\ c \in Requests
  BY DEF Init, Quiet, Requests
<1> QED
  BY <1>1, <1>2, <1>3
  DEF Surviving, SpentOnce, Awaited, Covered, Succeeded, AllUntold, Untold, Asked, Issued,
      Spent, SessionSurvives

LEMMA NextSurvives == Inv /\ Leaving /\ Surviving /\ [Next]_vars => Surviving'
<1> SUFFICES ASSUME Inv, Leaving, Surviving, [Next]_vars PROVE Surviving'
  OBVIOUS
<1>1. CASE Runs
  <2>1. Door \in Requests /\ Pages \subseteq Requests
    BY DEF Requests
  <2> QED
    BY <1>1, <2>1, ExchangeSurvives, HandlesSurvive, PageSurvives, CallArrivesSurvives,
       RenewalArrivesSurvives
    DEF Runs
<1>2. CASE \E t \in Tokens : RefreshFailed(t) \/ GraceEnds(t) \/ Evicted(t) \/ Ages(t)
  BY <1>2, ExchangeSurvives, TimeSurvives
<1>3. CASE \E r \in Requests : FetchFails(r) \/ CallFailed(r)
  BY <1>3, FetchFailsSurvives, CallFailedSurvives
<1>4. CASE \/ \E r \in Pages : Navigate(r)
           \/ \E c \in Calls : StartCall(c)
           \/ SignOut
           \/ \E kind \in {"login", "switch"} : Enter(kind)
  BY <1>4, UserSurvives
<1>5. CASE UNCHANGED vars
  <2>1. UNCHANGED <<session, used, over, replayed, issued, inFlight, recent, jar, reqs, calls,
                    excused>>
    BY <1>5 DEF vars, api, process, browser, history
  <2> QED
    BY <2>1
    DEF Surviving, SpentOnce, Awaited, Awaits, Covered, Succeeded, Brings, AllUntold, Untold,
        Asked, Issued, Spent, SessionSurvives
<1> QED  BY <1>1, <1>2, <1>3, <1>4, <1>5 DEF Next

(* refresh.ts presents no token twice: however many requests carry one at once or one
   after the other, the API never takes the app for a thief and ends a session, unless
   the browser was left without the session's newest token or the exchange was forgotten
   before its time. *)
THEOREM SessionsSurvive == Spec => []SessionSurvives
<1>1. Surviving => SessionSurvives
  BY DEF Surviving
<1> QED  BY <1>1, InitSurvives, NextSurvives, Invariance, Leaves, PTL DEF Spec
=============================================================================
