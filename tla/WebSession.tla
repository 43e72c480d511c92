----------------------------- MODULE WebSession -----------------------------
(***************************************************************************)
(* One browser's session in the web app: its cookie jar, the calls its     *)
(* components make (lib/api/browser.ts), and the Next process that spends  *)
(* its refresh tokens on the API (lib/session/refresh.ts), for a page      *)
(* (proxy.ts), a proxied call (lib/api/authenticated.ts) or on request     *)
(* (app/api/auth/refresh).                                                 *)
(*                                                                         *)
(* A refresh token and the access token issued with it are one number, and *)
(* so are the three cookies, which are always written and cleared together *)
(* (lib/session/cookies.ts).  A response sets its cookies when it arrives, *)
(* and responses arrive in any order.                                      *)
(***************************************************************************)
EXTENDS Integers, FiniteSets

CONSTANTS
    Calls,          \* API calls of components that can be under way at once
    Pages,          \* page requests that can be
    Renewals,       \* requests for /api/auth/refresh that can be
    Door,           \* the request that signs in, switches organization or signs out
    MaxTokens,      \* bound: refresh tokens the API issues
    Budgets         \* bound: how many of what may happen, one record a behaviour

ASSUME SomeTokens == MaxTokens \in Nat \ {0}
ASSUME Apart == /\ Calls \cap Renewals = {} /\ Pages \cap Renewals = {}
                /\ Calls \cap Pages = {} /\ Door \notin Calls \cup Pages \cup Renewals
                /\ 0 \notin Renewals

Tokens == 1..MaxTokens
Requests == Calls \cup Pages \cup Renewals \cup {Door}

VARIABLES
    issued,         \* how many tokens the API has issued
    session,        \* the session each of them is of
    age,            \* of its access token: "fresh", "stale" (cookies.ts) or "expired"
    used,           \* tokens that have been exchanged
    over,           \* sessions the API has revoked
    jar,            \* the token in the cookies
    inFlight,       \* refresh.ts: tokens being spent
    recent,         \* refresh.ts: settled outcomes, by the token that was spent
    reqs,           \* each request to the web app
    calls,          \* each call as its component sees it
    pendingRefresh, \* browser.ts: the renewal under way
    era,            \* history: how often the user has signed out
    signedOut,      \* history: signed out, and not in again
    adrift,         \* history: sessions left before they ended: a late response took
                    \* their cookies' place, or their sign-out did not get to the API
    replayed,       \* history: sessions revoked because a spent token came again
    excused,        \* history: sessions whose newest token the browser does not hold (it
                    \* was lost on its way, or a late response put an older one back),
                    \* or an exchange of which was forgotten early
    left            \* how many uses, agings, doors and faults are left

api == <<issued, session, age, used, over, replayed>>
process == <<inFlight, recent>>
browser == <<calls, pendingRefresh, era, signedOut>>
history == <<adrift, excused>>
vars == <<api, process, jar, reqs, browser, history, left>>

None == 0
Keep == -1              \* a response that sets no cookie
Clear == 0              \* one that clears them
Rejected == -1          \* RefreshOutcome: a token issued, or one of these
Unavailable == -2

Nothing == [kind |-> "none", phase |-> "none", carried |-> None, joins |-> None,
            outcome |-> None, retried |-> FALSE, cookies |-> Keep, status |-> "none", era |-> 0]
Quiet == [phase |-> "idle", joined |-> None, era |-> 0]

Spend(what) == left[what] > 0 /\ left' = [left EXCEPT ![what] = @ - 1]
Fault == Spend("faults")

-----------------------------------------------------------------------------
(* The API's sessions (external here, the module Sessions; an access token is good
   until it expires, whatever became of its session). *)

CanIssue == issued < MaxTokens

Issue(s) ==
    /\ CanIssue
    /\ issued' = issued + 1
    /\ session' = [session EXCEPT ![issued + 1] = s]
    /\ age' = [age EXCEPT ![issued + 1] = "fresh"]

\* POST /auth/refresh with t.
Exchange(t) ==
    IF session[t] \in over
    THEN UNCHANGED api
    ELSE IF t \in used
    THEN /\ over' = over \cup {session[t]} /\ replayed' = replayed \cup {session[t]}
         /\ UNCHANGED <<issued, session, age, used>>
    ELSE Issue(session[t]) /\ used' = used \cup {t} /\ UNCHANGED <<over, replayed>>

Outcome(t) ==
    IF session[t] \in over \/ t \in used THEN Rejected ELSE issued + 1

-----------------------------------------------------------------------------
(* refresh.ts *)

\* Mutant of RefreshSession: what has settled is not remembered.
RefreshSessionShared(r, t) ==
    /\ reqs' = [reqs EXCEPT ![r].phase = "waits", ![r].joins = t]
    /\ inFlight' = inFlight \cup {t}

\* Mutant of RefreshSession: what a token was rotated to is remembered for all of them.
RefreshSessionLast(r, t) ==
    LET done == {u \in Tokens : recent[u] > 0}
        joins == IF done = {} THEN t ELSE CHOOSE u \in done : TRUE
    IN  /\ reqs' = [reqs EXCEPT ![r].phase = "waits", ![r].joins = joins,
                                ![r].outcome = recent[joins]]
        /\ inFlight' = IF recent[joins] = None THEN inFlight \cup {joins} ELSE inFlight

\* refreshSession: r comes to wait for the outcome for t.  What is in flight is not
\* yet remembered, so it is joined when nothing is.
RefreshSession(r, t) ==
    /\ reqs' = [reqs EXCEPT ![r].phase = "waits", ![r].joins = t, ![r].outcome = recent[t]]
    /\ inFlight' = IF recent[t] = None THEN inFlight \cup {t} ELSE inFlight

\* Everybody who waits for t has its outcome.
Tell(t, outcome) ==
    reqs' = [r \in Requests |->
                IF /\ reqs[r].phase = "waits" /\ reqs[r].joins = t
                   /\ reqs[r].outcome = None
                THEN [reqs[r] EXCEPT !.outcome = outcome] ELSE reqs[r]]

\* remember, and the entry of inFlight dropped.
Settle(t, outcome) ==
    /\ recent' = IF outcome = Unavailable THEN recent ELSE [recent EXCEPT ![t] = outcome]
    /\ inFlight' = inFlight \ {t}
    /\ Tell(t, outcome)

RefreshAnswered(t) ==
    /\ t \in inFlight
    /\ Outcome(t) = Rejected \/ CanIssue
    /\ Exchange(t)
    /\ Settle(t, Outcome(t))
    /\ UNCHANGED <<jar, browser, history, left>>

\* Mutant of RefreshFailed: no answer is a refusal.
RefreshFailedRejected(t) ==
    /\ Fault
    /\ t \in inFlight
    /\ UNCHANGED <<api, excused>>
    /\ Settle(t, Rejected)
    /\ UNCHANGED <<jar, browser, adrift>>

\* No answer: a timeout, a network failure or a 5xx, and the API may have rotated.
RefreshFailed(t) ==
    /\ Fault
    /\ t \in inFlight
    /\ \/ UNCHANGED <<api, excused>>
       \/ /\ Outcome(t) = Rejected \/ CanIssue
          /\ Exchange(t)
          /\ excused' = excused \cup {session[t]}
    /\ Settle(t, Unavailable)
    /\ UNCHANGED <<jar, browser, adrift>>

\* GRACE_MS after it settled.  The grace is said to cover the slowest request of a
\* burst, so it does not end under a request that carries the token.
GraceEnds(t) ==
    /\ recent[t] # None
    /\ \A r \in Requests : reqs[r].carried # t
    /\ recent' = [recent EXCEPT ![t] = None]
    /\ UNCHANGED <<api, inFlight, jar, reqs, browser, history, left>>

\* remember makes room: the process serves other browsers too, and GRACE_MAX_ENTRIES
\* outcomes of theirs push this one out, under whichever request carries its token.
Evicted(t) ==
    /\ Fault
    /\ recent[t] # None
    /\ recent' = [recent EXCEPT ![t] = None]
    /\ excused' = excused \cup {session[t]}
    /\ UNCHANGED <<api, inFlight, jar, reqs, browser, adrift>>

-----------------------------------------------------------------------------
(* The web app's handlers *)

\* The response is on its way.
Respond(r, status, cookies) ==
    reqs' = [reqs EXCEPT ![r].phase = "back", ![r].outcome = None,
                         ![r].status = status, ![r].cookies = cookies]

Awaiting(r, kind) == reqs[r].phase = "arrived" /\ reqs[r].kind = kind
Waited(r) == reqs[r].phase = "waits" /\ reqs[r].outcome # None
Has(r) == reqs[r].carried # None

\* resolveProxySession: a token that is not stale is left alone.
ServePage(r) ==
    /\ Awaiting(r, "page")
    /\ LET t == reqs[r].carried IN
        IF Has(r) /\ age[t] # "fresh" THEN RefreshSession(r, t) /\ UNCHANGED recent
        ELSE reqs' = [reqs EXCEPT ![r].phase = "rendering"] /\ UNCHANGED process
    /\ UNCHANGED <<api, jar, browser, history, left>>

\* What proxy.ts does with the outcome: the render goes ahead whatever it is.
PageResumes(r) ==
    /\ Waited(r) /\ reqs[r].kind = "page"
    /\ reqs' = [reqs EXCEPT ![r].phase = "rendering"]
    /\ UNCHANGED <<api, process, jar, browser, history, left>>

\* And what it makes of it for the browser.
PageCookies(r) ==
    CASE reqs[r].outcome > 0 -> reqs[r].outcome
      [] reqs[r].outcome = Rejected -> Clear
      [] OTHER -> Keep

\* The header the proxy hands the render: the session it has just been given.
Forwarded(r) == IF reqs[r].outcome > 0 THEN reqs[r].outcome ELSE None

\* Mutant of RenderSession: a render reads the cookies of its request.
RenderSessionOfCookies(r) == reqs[r].carried

\* getRenderSession: the cookies of the request are from before the refresh.
RenderSession(r) == IF Forwarded(r) # None THEN Forwarded(r) ELSE reqs[r].carried

Rendering(r) == reqs[r].phase = "rendering"

\* requireSession
RedirectedToSignIn(r) ==
    /\ Rendering(r) /\ RenderSession(r) = None
    /\ Respond(r, "401", PageCookies(r))
    /\ UNCHANGED <<api, process, jar, browser, history, left>>

\* serverApi, which never refreshes: a 401 is what the page shows.
Rendered(r) ==
    /\ Rendering(r) /\ RenderSession(r) # None
    /\ Respond(r, IF age[RenderSession(r)] = "expired" THEN "401" ELSE "ok", PageCookies(r))
    /\ UNCHANGED <<api, process, jar, browser, history, left>>

\* authenticatedCall, before its first request: no session is a 401 of its own.
ServeCall(r) ==
    /\ Awaiting(r, "call")
    /\ IF Has(r) THEN reqs' = [reqs EXCEPT ![r].phase = "sent"]
       ELSE Respond(r, "401", Keep)
    /\ UNCHANGED <<api, process, jar, browser, history, left>>

\* The token a proxied call is sent with, and the cookies its response will set.
With(r) == IF reqs[r].retried THEN reqs[r].outcome ELSE reqs[r].carried
Stored(r) == IF reqs[r].retried THEN reqs[r].outcome ELSE Keep

\* The API's answer to it: only a first 401 is followed by a refresh.
CallAnswered(r) ==
    /\ reqs[r].phase = "sent"
    /\ IF age[With(r)] # "expired"
       THEN Respond(r, "ok", Stored(r)) /\ UNCHANGED process
       ELSE IF reqs[r].retried
       THEN Respond(r, "401", Stored(r)) /\ UNCHANGED process
       ELSE RefreshSession(r, reqs[r].carried) /\ UNCHANGED recent
    /\ UNCHANGED <<api, jar, browser, history, left>>

\* The API does not answer it.
CallFailed(r) ==
    /\ Fault
    /\ \/ reqs[r].phase = "sent" /\ Respond(r, "502", Stored(r))
       \/ Rendering(r) /\ Respond(r, "502", PageCookies(r))
    /\ UNCHANGED <<api, process, jar, browser, history>>

ServeRenewal(r) ==
    /\ Awaiting(r, "renewal")
    /\ IF Has(r) THEN RefreshSession(r, reqs[r].carried) /\ UNCHANGED recent
       ELSE Respond(r, "401", Clear) /\ UNCHANGED process
    /\ UNCHANGED <<api, jar, browser, history, left>>

\* Mutant of Resume: a retried call does not remember that it was.
ResumeForever(r) ==
    /\ Waited(r) /\ reqs[r].kind # "page"
    /\ IF reqs[r].outcome > 0 /\ reqs[r].kind = "call"
       THEN reqs' = [reqs EXCEPT ![r].phase = "sent"]
       ELSE Respond(r, "401", IF reqs[r].outcome = Unavailable THEN Keep
                              ELSE IF reqs[r].outcome = Rejected THEN Clear
                              ELSE reqs[r].outcome)
    /\ UNCHANGED <<api, process, jar, browser, history, left>>

\* What each handler does with the outcome of its refresh.
Resume(r) ==
    /\ Waited(r) /\ reqs[r].kind # "page"
    /\ LET outcome == reqs[r].outcome
           kind == reqs[r].kind
       IN  IF outcome > 0 /\ kind = "call"
           THEN reqs' = [reqs EXCEPT ![r].phase = "sent", ![r].retried = TRUE]
           ELSE IF outcome > 0 THEN Respond(r, "ok", outcome)
           ELSE Respond(r, IF outcome = Rejected \/ kind = "call" THEN "401" ELSE "502",
                        IF outcome = Rejected THEN Clear ELSE Keep)
    /\ UNCHANGED <<api, process, jar, browser, history, left>>

\* /api/auth/login: a session of its own.
ServeLogin(r) ==
    /\ Awaiting(r, "login")
    /\ Issue(issued + 1) /\ UNCHANGED <<used, over, replayed>>
    /\ Respond(r, "ok", issued + 1)
    /\ UNCHANGED <<process, jar, browser, history, left>>

\* /api/auth/organization: a new session, and the API ends the old one.
ServeSwitch(r) ==
    /\ Awaiting(r, "switch")
    /\ IF Has(r) /\ age[reqs[r].carried] # "expired"
       THEN /\ Issue(issued + 1)
            /\ over' = over \cup {session[reqs[r].carried]}
            /\ UNCHANGED <<used, replayed>>
            /\ Respond(r, "ok", issued + 1)
       ELSE UNCHANGED api /\ Respond(r, "401", Keep)
    /\ UNCHANGED <<process, jar, browser, history, left>>

\* Mutant of ServeLogout: the cookies are cleared and the session left to expire.
ServeLogoutLocal(r) ==
    /\ Awaiting(r, "logout")
    /\ UNCHANGED <<api, left>>
    /\ Respond(r, "ok", Clear)
    /\ UNCHANGED <<process, jar, browser, history>>

\* /api/auth/logout: the cookies are cleared whatever the API says.
ServeLogout(r) ==
    /\ Awaiting(r, "logout")
    /\ \/ /\ over' = IF Has(r) THEN over \cup {session[reqs[r].carried]} ELSE over
          /\ UNCHANGED <<issued, session, age, used, replayed, adrift, left>>
       \/ /\ Fault /\ Has(r) /\ UNCHANGED api
          /\ adrift' = adrift \cup {session[reqs[r].carried]}
    /\ Respond(r, "ok", Clear)
    /\ UNCHANGED <<process, jar, browser, excused>>

-----------------------------------------------------------------------------
(* The browser *)

Ask(r, kind) == [Nothing EXCEPT !.kind = kind, !.phase = "arrived", !.carried = jar]
Idle(r) == reqs[r] = Nothing

\* A document, or what the router asks for without one.
Navigate(r) ==
    /\ Spend("uses")
    /\ Idle(r)
    /\ reqs' = [reqs EXCEPT ![r] = Ask(r, "page")]
    /\ UNCHANGED <<api, process, jar, browser, history>>

\* browserApi's first send.
StartCall(c) ==
    /\ Spend("uses")
    /\ calls[c].phase = "idle"
    /\ calls' = [calls EXCEPT ![c].phase = "first"]
    /\ reqs' = [reqs EXCEPT ![c] = Ask(c, "call")]
    /\ UNCHANGED <<api, process, jar, pendingRefresh, era, signedOut, history>>

\* Mutant of SignOut: the refresh in flight is not detached.
SignOutJoined ==
    /\ Spend("doors")
    /\ Idle(Door)
    /\ era' = era + 1
    /\ reqs' = [reqs EXCEPT ![Door] = Ask(Door, "logout")]
    /\ UNCHANGED <<api, process, jar, calls, pendingRefresh, signedOut, history>>

SignOut ==
    /\ Spend("doors")
    /\ Idle(Door)
    /\ pendingRefresh' = None
    /\ era' = era + 1
    /\ reqs' = [reqs EXCEPT ![Door] = Ask(Door, "logout")]
    /\ UNCHANGED <<api, process, jar, calls, signedOut, history>>

\* The sign-in form, and the switch of organization.
Enter(kind) ==
    /\ Spend("doors")
    /\ Idle(Door)
    /\ CanIssue /\ (kind = "login" <=> jar = None)
    /\ reqs' = [reqs EXCEPT ![Door] = Ask(Door, kind)]
    /\ UNCHANGED <<api, process, jar, browser, history>>

\* A response of one session takes the place of another's cookies, or clears them.
Displaces(r) ==
    /\ r # Door /\ jar # None /\ reqs[r].cookies # Keep
    /\ reqs[r].cookies # Clear => session[reqs[r].cookies] # session[jar]

\* The response's cookies, which a late response may put back after the browser has
\* moved on: a token that has been exchanged then.
SetCookies(r) ==
    /\ jar' = IF reqs[r].cookies = Keep THEN jar ELSE reqs[r].cookies
    /\ excused' = IF reqs[r].cookies \in used /\ reqs[r].cookies # jar
                  THEN excused \cup {session[reqs[r].cookies]} ELSE excused
    /\ adrift' = IF Displaces(r) THEN adrift \cup {session[jar]} ELSE adrift
Done(r) == reqs' = [reqs EXCEPT ![r] = Nothing]

PageArrives(r) ==
    /\ reqs[r].phase = "back" /\ reqs[r].kind = "page"
    /\ SetCookies(r) /\ Done(r)
    /\ UNCHANGED <<api, process, browser, left>>

\* A first 401 asks for a renewal, or joins the one under way: refreshOnce.
CallArrives(c) ==
    /\ reqs[c].phase = "back"
    /\ SetCookies(c)
    /\ IF reqs[c].status # "401" \/ calls[c].phase = "second"
       THEN /\ calls' = [calls EXCEPT ![c] = Quiet]
            /\ Done(c)
            /\ UNCHANGED pendingRefresh
       ELSE IF pendingRefresh # None
       THEN /\ calls' = [calls EXCEPT ![c].phase = "renewing", ![c].joined = pendingRefresh,
                                    ![c].era = era]
            /\ Done(c)
            /\ UNCHANGED pendingRefresh
       ELSE \E r \in Renewals :
            /\ Idle(r)
            /\ calls' = [calls EXCEPT ![c].phase = "renewing", ![c].joined = r,
                                    ![c].era = era]
            /\ pendingRefresh' = r
            /\ reqs' = [reqs EXCEPT ![c] = Nothing,
                            ![r] = [Ask(r, "renewal") EXCEPT !.carried = jar', !.era = era]]
    /\ UNCHANGED <<api, process, era, signedOut, left>>

\* refreshOnce resolves: who waits sends again, once, or has its first 401.
Renewed(r, worked) ==
    LET waiting == {c \in Calls : calls[c].joined = r} IN
    /\ calls' = [c \in Calls |->
                    IF c \notin waiting THEN calls[c]
                    ELSE IF worked THEN [Quiet EXCEPT !.phase = "second"]
                    ELSE Quiet]
    /\ reqs' = [q \in Requests |->
                    IF q = r THEN Nothing
                    ELSE IF worked /\ q \in waiting
                    THEN [Ask(q, "call") EXCEPT !.carried = jar']
                    ELSE reqs[q]]

\* finally sets pendingRefresh to null, whichever renewal that is by now.
RenewalArrives(r) ==
    /\ reqs[r].phase = "back"
    /\ SetCookies(r)
    /\ Renewed(r, reqs[r].status = "ok")
    /\ pendingRefresh' = None
    /\ UNCHANGED <<api, process, era, signedOut, left>>

DoorArrives ==
    /\ reqs[Door].phase = "back"
    /\ SetCookies(Door) /\ Done(Door)
    /\ signedOut' = IF reqs[Door].kind = "logout" THEN TRUE
                    ELSE IF reqs[Door].cookies > 0 THEN FALSE ELSE signedOut
    /\ UNCHANGED <<api, process, calls, pendingRefresh, era, left>>

\* Of a sign-out that never got to the web app: its session is neither over nor out of
\* the jar.
Unheard(r) ==
    /\ reqs[r].kind = "logout" /\ reqs[r].phase = "arrived"
    /\ reqs[r].carried # None

\* fetch rejects: the request is lost before it is served, or the response is, and with
\* it the cookies it would have set.  signOut swallows that and announces its end.
FetchFails(r) ==
    /\ Fault
    /\ reqs[r].phase \in {"arrived", "back"}
    /\ IF r \in Renewals
       THEN Renewed(r, FALSE) /\ pendingRefresh' = None
       ELSE /\ Done(r) /\ UNCHANGED pendingRefresh
            /\ calls' = IF r \in Calls THEN [calls EXCEPT ![r] = Quiet] ELSE calls
    /\ signedOut' = (signedOut \/ reqs[r].kind = "logout")
    /\ excused' = IF reqs[r].cookies > 0
                  THEN excused \cup {session[reqs[r].cookies]} ELSE excused
    /\ adrift' = IF Unheard(r) THEN adrift \cup {session[reqs[r].carried]} ELSE adrift
    /\ UNCHANGED <<api, process, jar, era>>

\* Time passes: an access token lives for minutes, so no request of before it was
\* issued is still under way when it ages, and the grace (ten seconds) of the token
\* it succeeded is over.
Older == [fresh |-> "stale", stale |-> "expired"]
Ages(t) ==
    /\ Spend("agings")
    /\ t <= issued /\ age[t] \in DOMAIN Older
    /\ \A r \in Requests : ~Idle(r) => reqs[r].carried >= t
    /\ \A u \in Tokens : recent[u] # t
    /\ age' = [age EXCEPT ![t] = Older[@]]
    /\ UNCHANGED <<issued, session, used, over, replayed,
                   process, jar, reqs, browser, history>>

-----------------------------------------------------------------------------
Init ==
    /\ issued = 1
    /\ session = [t \in Tokens |-> IF t = 1 THEN 1 ELSE None]
    /\ age = [t \in Tokens |-> "fresh"]
    /\ used = {} /\ over = {} /\ replayed = {}
    /\ jar = 1
    /\ inFlight = {} /\ recent = [t \in Tokens |-> None]
    /\ reqs = [r \in Requests |-> Nothing]
    /\ calls = [c \in Calls |-> Quiet]
    /\ pendingRefresh = None
    /\ era = 0 /\ signedOut = FALSE
    /\ adrift = {} /\ excused = {}
    /\ left \in Budgets

Handles(r) ==
    \/ ServePage(r) \/ PageResumes(r) \/ RedirectedToSignIn(r) \/ Rendered(r)
    \/ ServeCall(r) \/ CallAnswered(r) \/ ServeRenewal(r) \/ Resume(r)
    \/ ServeLogin(r) \/ ServeSwitch(r) \/ ServeLogout(r)

\* What the web app, the API and the network see to.
Runs ==
    \/ \E t \in Tokens : RefreshAnswered(t)
    \/ \E r \in Requests : Handles(r)
    \/ \E r \in Pages : PageArrives(r)
    \/ \E c \in Calls : CallArrives(c)
    \/ \E r \in Renewals : RenewalArrives(r)
    \/ DoorArrives

Next ==
    \/ Runs
    \/ \E t \in Tokens : RefreshFailed(t) \/ GraceEnds(t) \/ Evicted(t) \/ Ages(t)
    \/ \E r \in Requests : FetchFails(r) \/ CallFailed(r)
    \/ \E r \in Pages : Navigate(r)
    \/ \E c \in Calls : StartCall(c)
    \/ SignOut
    \/ \E kind \in {"login", "switch"} : Enter(kind)

Spec == Init /\ [][Next]_vars

\* A request is handled, answered and delivered, or is lost: http.ts gives each ten
\* seconds.  The user, the clock and the faults are under no obligation.
FairSpec == Spec /\ WF_vars(Runs)

-----------------------------------------------------------------------------
Age == {"fresh", "stale", "expired"}

Request ==
    [kind : {"none", "page", "call", "renewal", "login", "switch", "logout"},
     phase : {"none", "arrived", "waits", "sent", "rendering", "back"},
     carried : Tokens \cup {None}, joins : Tokens \cup {None},
     outcome : Tokens \cup {None, Rejected, Unavailable}, retried : BOOLEAN,
     cookies : Tokens \cup {Keep, Clear}, status : {"none", "ok", "401", "502"}, era : Nat]

Call == [phase : {"idle", "first", "renewing", "second"},
         joined : Renewals \cup {None}, era : Nat]

TypeOK ==
    /\ issued \in Tokens
    /\ session \in [Tokens -> Tokens \cup {None}]
    /\ age \in [Tokens -> Age]
    /\ jar \in Tokens \cup {None}
    /\ inFlight \subseteq Tokens
    /\ recent \in [Tokens -> Tokens \cup {None, Rejected}]
    /\ reqs \in [Requests -> Request]
    /\ calls \in [Calls -> Call]
    /\ pendingRefresh \in Renewals \cup {None}
    /\ era \in Nat
    /\ used \subseteq Tokens
    /\ over \cup replayed \cup excused \cup adrift \subseteq Tokens \cup {None}
    /\ signedOut \in BOOLEAN

(* A session is not revoked because this app presented a spent token twice: requests
   that carry one token at once, or later, have one exchange among them
   (refresh.ts:6-39).  Unless the browser was left without its newest token (by an
   answer the app did not get, a response the browser did not, or a late response that
   put back a token already exchanged), or the app had no room to remember the
   exchange. *)
SessionSurvives == replayed \subseteq excused

(* Nobody is handed the tokens of another session: what a request's response stores
   is the successor of what the request carried (refresh.ts:89-92).  And a page that
   stores one was rendered with it, not with the cookies of its request, which may
   have expired (server.ts:54-60). *)
OwnSession ==
    \A r \in Requests :
        reqs[r].kind \in {"page", "call", "renewal"} /\ reqs[r].cookies > 0
            => /\ session[reqs[r].cookies] = session[reqs[r].carried]
               /\ reqs[r].kind = "page" => reqs[r].status # "401"

(* Cookies are cleared for a session that is over, or by the user: an API that cannot
   be reached signs nobody out (refresh.ts:64-69, proxy-session.ts:33-36). *)
BlipKeeps ==
    \A r \in Requests :
        reqs[r].cookies = Clear /\ reqs[r].kind # "logout"
            => reqs[r].carried = None \/ session[reqs[r].carried] \in over

(* After a sign-out, whether or not its response came, the jar has no session that
   could be renewed, and no late response puts one there: a refresh that was under way
   is of the session that has ended (browser.ts:180-195).  Except a session that nobody
   ended: its sign-out was announced and never got to the API, or a late response had
   taken its cookies' place. *)
SignedOutIsOver == signedOut => jar = None \/ session[jar] \in over \cup adrift

(* No call is told by a refresh from before a sign-out that its session is live
   (browser.ts:180-183). *)
JoinsItsOwn ==
    \A c \in Calls : calls[c].joined # None => reqs[calls[c].joined].era = calls[c].era

(* Every call of a component ends, however its refresh does. *)
CallsSettle == \A c \in Calls : calls[c].phase # "idle" ~> calls[c].phase = "idle"
=============================================================================
