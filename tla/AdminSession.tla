---------------------------- MODULE AdminSession ----------------------------
(***************************************************************************)
(* The admin UI's login: the browser tabs of one person share localStorage *)
(* and each keeps its own React state, its own requests and its own        *)
(* refreshRequest (api/client.ts, auth/AuthContext.tsx, LoginPage.tsx).    *)
(* The server side is the token and session handling of auth.go.           *)
(*                                                                         *)
(* A token pair is a number.  The access token of a pair is good until it  *)
(* expires, whatever became of its session; the refresh token is good      *)
(* while its auth_sessions row is active.  One synchronous run of          *)
(* JavaScript is one step: a handler is split where the code awaits.       *)
(***************************************************************************)
EXTENDS Naturals, FiniteSets

CONSTANTS
    Tabs,       \* open tabs of one browser profile
    Requests,   \* slots for outstanding requests
    TabOf,      \* the tab of each slot
    Users,      \* accounts the person may sign in with
    NoUser,     \* null in the user key and in the user state
    Gone,       \* stands for a tab in a refresh whose page was unloaded
    MaxPairs,   \* token pairs the server may issue in one behaviour
    MaxFaults,  \* failed requests and ended sessions in one behaviour
    MaxOps      \* logins, page requests, logouts and page loads in one behaviour

ASSUME SessionConstants ==
    /\ MaxPairs \in Nat \ {0} /\ MaxFaults \in Nat /\ MaxOps \in Nat
    /\ TabOf \in [Requests -> Tabs]
    /\ Users # {} /\ NoUser \notin Users
    /\ Gone \notin Tabs

VARIABLES
    stored,     \* localStorage: the token keys (one pair, 0 if removed) and the user key
    tab,        \* AuthProvider's token and user state, per tab
    leaving,    \* tabs whose window.location.replace('/login') is under way
    req,        \* requests of each tab: kind, progress, token sent, account
    calls,      \* refresh requests in flight
    session,    \* auth_sessions.status of each pair
    owner,      \* account each pair was issued to
    issued,     \* number of pairs issued
    expired,    \* pairs whose access token has expired
    faults,     \* faults so far
    ops,        \* operations of the person so far
    history     \* facts about the past that the properties refer to

server == <<session, owner, issued, expired>>
bounds == <<faults, ops>>
vars == <<stored, tab, leaving, req, calls, server, bounds, history>>

Pairs == 1..MaxPairs
MaybePair == 0..MaxPairs
MaybeUser == Users \cup {NoUser}

Request == [kind: {"none", "page", "me", "login"},
            pc: {"idle", "sent", "ok", "unauthorized", "failed", "waiting"},
            pair: MaybePair, user: MaybeUser]
Call == [tab: Tabs \cup {Gone}, pair: Pairs,
         pc: {"sent", "selected", "ok", "failed"}, next: MaybePair]
Keys == [pair: MaybePair, user: MaybeUser]

Idle == [kind |-> "none", pc |-> "idle", pair |-> 0, user |-> NoUser]
Empty == [pair |-> 0, user |-> NoUser]

(***************************************************************************)
(* What history may hold.  trouble: a request failed.  forced: a step of   *)
(* the program, not the person, removed a stored pair.  crossed: a login   *)
(* was answered while another tab was signed in or another answer that     *)
(* carries an account was outstanding.  contested: a refresh token was     *)
(* presented that another page had presented before.  dropped: a page load *)
(* dropped a refresh answer.                                               *)
(***************************************************************************)
TypeOK ==
    /\ stored \in Keys
    /\ tab \in [Tabs -> Keys]
    /\ leaving \subseteq Tabs
    /\ req \in [Requests -> Request]
    /\ calls \subseteq Call
    /\ session \in [Pairs -> {"none", "active", "rotated"}]
    /\ owner \in [Pairs -> MaybeUser]
    /\ issued \in MaybePair
    /\ expired \subseteq Pairs
    /\ faults \in 0..MaxFaults
    /\ ops \in 0..MaxOps
    /\ history \subseteq {"trouble", "forced", "crossed", "contested", "dropped"}

\* Somebody is signed in with the first pair, every tab was loaded since and
\* its requests are over.  Logging out leads to the signed-out profile.
Init ==
    LET keys == [pair |-> 1, user |-> CHOOSE u \in Users : TRUE] IN
    /\ stored = keys
    /\ tab = [t \in Tabs |-> keys]
    /\ leaving = {}
    /\ req = [r \in Requests |-> Idle]
    /\ calls = {}
    /\ session = [n \in Pairs |-> IF n = 1 THEN "active" ELSE "none"]
    /\ owner = [n \in Pairs |-> IF n = 1 THEN keys.user ELSE NoUser]
    /\ issued = 1
    /\ expired = {}
    /\ faults = 0
    /\ ops = 0
    /\ history = {}

-----------------------------------------------------------------------------
(* Helpers *)

\* PrivateRoute: pages are mounted only while the tab has a token.
SignedIn(t) == tab[t].pair # 0

Free(r) == req[r].pc = "idle"

\* apiRequest reads the access token from localStorage when it starts.
Outgoing(kind) == [kind |-> kind, pc |-> "sent", pair |-> stored.pair, user |-> NoUser]

\* Mutant: every 401 starts its own refresh.
RefreshingNever(t) == t \in Tabs /\ FALSE

\* refreshRequest of a tab.
Refreshing(t) == \E c \in calls : c.tab = t

\* The requests of a tab that await its refreshRequest.
Waiting(t) == {r \in Requests : TabOf[r] = t /\ req[r].pc = "waiting"}

\* Another tab, an /auth/me, a login or a refresh may still carry the account
\* that was signed in before request r.
Busy(r) ==
    \/ \E t \in Tabs : t # TabOf[r] /\ SignedIn(t)
    \/ \E q \in Requests : q # r /\ req[q].kind \in {"me", "login"}
    \/ calls # {}

\* The step adds fact f to the history if it is the case.
Note(f, case) == IF case THEN {f} ELSE {}

Fault == faults < MaxFaults /\ faults' = faults + 1

\* The person does one more thing.
Operate == ops < MaxOps /\ ops' = ops + 1

Issue(user) ==
    /\ issued < MaxPairs
    /\ issued' = issued + 1
    /\ session' = [session EXCEPT ![issued + 1] = "active"]
    /\ owner' = [owner EXCEPT ![issued + 1] = user]
    /\ UNCHANGED expired

-----------------------------------------------------------------------------
(* The person *)

\* LoginPage.submit: the button is disabled while a login is outstanding.
SubmitLogin(r, u) ==
    /\ Operate
    /\ ~SignedIn(TabOf[r])
    /\ Free(r)
    /\ \A q \in Requests : TabOf[q] = TabOf[r] => req[q].kind # "login"
    /\ req' = [req EXCEPT ![r] = [Outgoing("login") EXCEPT !.user = u]]
    /\ UNCHANGED <<stored, tab, leaving, calls, server, faults, history>>

\* A mounted page calls apiRequest.
PageRequest(r) ==
    /\ Operate
    /\ SignedIn(TabOf[r])
    /\ Free(r)
    /\ req' = [req EXCEPT ![r] = Outgoing("page")]
    /\ UNCHANGED <<stored, tab, leaving, calls, server, faults, history>>

\* AuthProvider.logout: local only, the server is not told.
Logout(t) ==
    /\ Operate
    /\ SignedIn(t)
    /\ stored' = Empty
    /\ tab' = [tab EXCEPT ![t] = Empty]
    /\ UNCHANGED <<leaving, req, calls, server, faults, history>>

\* The page is loaded anew, by the person or by the redirect of
\* clearAuthAndRedirect: the tab starts from localStorage and, with a token,
\* asks for /auth/me; its requests are gone and a refresh that reached the
\* server goes on there without a reader.
Reload(t) ==
    LET mine == {c \in calls : c.tab = t}
        first == CHOOSE r \in Requests : TabOf[r] = t
    IN
    /\ (t \in leaving /\ UNCHANGED ops) \/ Operate
    /\ tab' = [tab EXCEPT ![t] = stored]
    /\ leaving' = leaving \ {t}
    /\ req' = [r \in Requests |->
                  CASE TabOf[r] # t -> req[r]
                    [] r = first /\ stored.pair # 0 -> Outgoing("me")
                    [] OTHER -> Idle]
    /\ calls' = (calls \ mine) \cup
                {[c EXCEPT !.tab = Gone] : c \in {d \in mine : d.pc \notin {"ok", "failed"}}}
    /\ history' = history \cup Note("dropped", mine # {})
    /\ UNCHANGED <<stored, server, faults>>

-----------------------------------------------------------------------------
(* The server answers *)

\* The JWT middleware looks at the access token only: it may have expired by
\* now, and then stays so.  Any other answer to a page, an error too, changes
\* nothing here, so the request is over when it is given.
Serve(r) ==
    /\ req[r].pc = "sent"
    /\ req[r].kind \in {"page", "me"}
    /\ \/ /\ req[r].pair \in Pairs \ expired
          /\ req' = [req EXCEPT ![r] = IF @.kind = "page" THEN Idle ELSE [@ EXCEPT !.pc = "ok"]]
          /\ UNCHANGED expired
       \/ /\ req' = [req EXCEPT ![r].pc = "unauthorized"]
          /\ expired' = expired \cup ({req[r].pair} \ {0})
    /\ UNCHANGED <<stored, tab, leaving, calls, session, owner, issued, bounds, history>>

\* Login: the credentials are right and a session is stored, or the answer is
\* 401, which apiRequest does not try to refresh for this path.
ServeLogin(r) ==
    /\ req[r].pc = "sent"
    /\ req[r].kind = "login"
    /\ \/ /\ Issue(req[r].user)
          /\ req' = [req EXCEPT ![r].pc = "ok", ![r].pair = issued + 1]
       \/ /\ req' = [req EXCEPT ![r].pc = "failed"]
          /\ UNCHANGED server
    /\ UNCHANGED <<stored, tab, leaving, calls, bounds, history>>

\* fetch rejects, or the answer is an error other than 401.  To a page that is
\* one more answer that leaves the login alone, which Serve covers.
RequestFails(r) ==
    /\ Fault
    /\ req[r].pc = "sent"
    /\ req[r].kind \in {"me", "login"}
    /\ req' = [req EXCEPT ![r].pc = "failed"]
    /\ history' = history \cup {"trouble"}
    /\ UNCHANGED <<stored, tab, leaving, calls, server, ops>>

\* The call c becomes d; nobody reads the answer of an unloaded page.
Becomes(c, d) ==
    calls' = (calls \ {c}) \cup (IF d.tab = Gone /\ d.pc \in {"ok", "failed"} THEN {} ELSE {d})

\* Refresh: SELECT the active session.
SelectSession(c) ==
    /\ c.pc = "sent"
    /\ Becomes(c, [c EXCEPT !.pc = IF session[c.pair] = "active" THEN "selected" ELSE "failed"])
    /\ UNCHANGED <<stored, tab, leaving, req, server, bounds, history>>

\* Refresh: UPDATE by id, whatever the status is by now, then createSession
\* and the answer.  The INSERT may fail after the UPDATE; the bound on issued
\* pairs acts as such a failure.
RotateSession(c) ==
    /\ c.pc = "selected"
    /\ \/ /\ issued < MaxPairs
          /\ issued' = issued + 1
          /\ session' = [session EXCEPT ![c.pair] = "rotated", ![issued + 1] = "active"]
          /\ owner' = [owner EXCEPT ![issued + 1] = owner[c.pair]]
          /\ Becomes(c, [c EXCEPT !.pc = "ok", !.next = issued + 1])
          /\ UNCHANGED <<faults, history>>
       \/ /\ (issued = MaxPairs /\ UNCHANGED faults) \/ Fault
          /\ session' = [session EXCEPT ![c.pair] = "rotated"]
          /\ Becomes(c, [c EXCEPT !.pc = "failed"])
          /\ history' = history \cup {"trouble"}
          /\ UNCHANGED <<owner, issued>>
    /\ UNCHANGED <<stored, tab, leaving, req, expired, ops>>

\* The session has ended, the account is disabled, a statement before the
\* UPDATE fails, or the request is lost.
RefreshFails(c) ==
    /\ c.pc \in {"sent", "selected"}
    /\ Fault
    /\ Becomes(c, [c EXCEPT !.pc = "failed"])
    /\ history' = history \cup {"trouble"}
    /\ UNCHANGED <<stored, tab, leaving, req, server, ops>>

-----------------------------------------------------------------------------
(* The tab receives an answer *)

\* clearAuthAndRedirect: the logout event reaches this tab only.
ClearAuth(t) ==
    /\ stored' = Empty
    /\ tab' = [tab EXCEPT ![t] = Empty]
    /\ leaving' = IF SignedIn(t) THEN leaving \cup {t} ELSE leaving
    /\ history' = history \cup Note("forced", stored.pair # 0)

\* /auth/me: the answer is applied whatever happened to the login meanwhile;
\* any error logs out.
ReceiveMe(r) ==
    /\ req[r].kind = "me"
    /\ req' = [req EXCEPT ![r] = Idle]
    /\ \/ /\ req[r].pc = "ok"
          /\ LET user == owner[req[r].pair] IN
             /\ stored' = [stored EXCEPT !.user = user]
             /\ tab' = [tab EXCEPT ![TabOf[r]].user = user]
          /\ UNCHANGED history
       \/ /\ req[r].pc = "failed"
          /\ stored' = Empty
          /\ tab' = [tab EXCEPT ![TabOf[r]] = Empty]
          /\ history' = history \cup Note("forced", stored.pair # 0)
    /\ UNCHANGED <<leaving, calls, server, bounds>>

\* Mutant: the user state is not set.
ReceiveLoginTokenOnly(r) ==
    /\ req[r].kind = "login" /\ req[r].pc = "ok"
    /\ stored' = [pair |-> req[r].pair, user |-> req[r].user]
    /\ tab' = [tab EXCEPT ![TabOf[r]].pair = req[r].pair]
    /\ req' = [req EXCEPT ![r] = Idle]
    /\ history' = history \cup Note("crossed", Busy(r))
    /\ UNCHANGED <<leaving, calls, server, bounds>>

\* AuthProvider.login continues: tokens and user are stored, and the changed
\* token state starts /auth/me.
ReceiveLogin(r) ==
    LET answer == req[r]
        keys == [pair |-> answer.pair, user |-> answer.user]
    IN
    /\ answer.kind = "login"
    /\ \/ /\ answer.pc = "ok"
          /\ stored' = keys
          /\ tab' = [tab EXCEPT ![TabOf[r]] = keys]
          /\ req' = [req EXCEPT ![r] =
                        [kind |-> "me", pc |-> "sent", pair |-> answer.pair, user |-> NoUser]]
          /\ history' = history \cup Note("crossed", Busy(r))
       \/ /\ answer.pc = "failed"
          /\ req' = [req EXCEPT ![r] = Idle]
          /\ UNCHANGED <<stored, tab, history>>
    /\ UNCHANGED <<leaving, calls, server, bounds>>

\* Mutant: the missing refresh token is sent all the same.
ReceiveUnauthorizedAlways(r) ==
    /\ req[r].pc = "unauthorized"
    /\ req' = [req EXCEPT ![r].pc = "waiting"]
    /\ calls' = calls \cup {[tab |-> TabOf[r], pair |-> stored.pair, pc |-> "sent", next |-> 0]}
    /\ UNCHANGED <<stored, tab, leaving, server, bounds, history>>

\* apiRequest after a 401: without a refresh token the login is over, else the
\* request waits for the tab's refresh, which it starts if there is none.
ReceiveUnauthorized(r) ==
    /\ req[r].pc = "unauthorized"
    /\ \/ /\ stored.pair = 0
          /\ req' = [req EXCEPT ![r] = Idle]
          /\ ClearAuth(TabOf[r])
          /\ UNCHANGED <<calls>>
       \/ /\ stored.pair # 0
          /\ req' = [req EXCEPT ![r].pc = "waiting"]
          /\ calls' = IF Refreshing(TabOf[r]) THEN calls
                      ELSE calls \cup {[tab |-> TabOf[r], pair |-> stored.pair, pc |-> "sent", next |-> 0]}
          /\ history' = history \cup
                         Note("contested", /\ ~Refreshing(TabOf[r])
                                           /\ \/ session[stored.pair] = "rotated"
                                              \/ \E c \in calls : c.tab # TabOf[r] /\ c.pair = stored.pair)
          /\ UNCHANGED <<stored, tab, leaving>>
    /\ UNCHANGED <<server, bounds>>

\* Mutant: the new pair is not stored.
ReceiveRefreshNotStored(t, c) ==
    /\ c.tab = t /\ c.pc = "ok"
    /\ calls' = calls \ {c}
    /\ req' = [r \in Requests |-> IF r \in Waiting(t)
                                  THEN [req[r] EXCEPT !.pc = "sent", !.pair = c.next] ELSE req[r]]
    /\ UNCHANGED <<stored, tab, leaving, server, bounds, history>>

\* Mutant: a failed refresh reaches only one of the requests that await it.
ReceiveRefreshFailureOne(t, c) ==
    /\ c.tab = t /\ c.pc = "failed"
    /\ calls' = calls \ {c}
    /\ ClearAuth(t)
    /\ \E r \in Waiting(t) : req' = [req EXCEPT ![r] = Idle]
    /\ UNCHANGED <<server, bounds>>

\* refreshAccessToken's then and finally, and the requests that awaited it:
\* they start over with the new token.  The React state is not told.
ReceiveRefresh(t, c) ==
    /\ c.tab = t
    /\ c.pc = "ok"
    /\ calls' = calls \ {c}
    /\ stored' = [pair |-> c.next, user |-> owner[c.next]]
    /\ req' = [r \in Requests |-> IF r \in Waiting(t)
                                  THEN [req[r] EXCEPT !.pc = "sent", !.pair = c.next] ELSE req[r]]
    /\ UNCHANGED <<tab, leaving, server, bounds, history>>

ReceiveRefreshFailure(t, c) ==
    /\ c.tab = t
    /\ c.pc = "failed"
    /\ calls' = calls \ {c}
    /\ ClearAuth(t)
    /\ req' = [r \in Requests |-> IF r \in Waiting(t) THEN Idle ELSE req[r]]
    /\ UNCHANGED <<server, bounds>>

-----------------------------------------------------------------------------
RequestStep(r) ==
    \/ Serve(r)
    \/ ServeLogin(r)
    \/ ReceiveMe(r)
    \/ ReceiveLogin(r)
    \/ ReceiveUnauthorized(r)

RefreshStep(c) ==
    \/ SelectSession(c)
    \/ RotateSession(c)
    \/ RefreshFails(c)
    \/ \E t \in Tabs : ReceiveRefresh(t, c) \/ ReceiveRefreshFailure(t, c)

Next ==
    \/ \E r \in Requests :
          \/ \E u \in Users : SubmitLogin(r, u)
          \/ PageRequest(r)
          \/ RequestFails(r)
          \/ RequestStep(r)
    \/ \E t \in Tabs : Logout(t) \/ Reload(t)
    \/ \E c \in calls : RefreshStep(c)

Spec == Init /\ [][Next]_vars

\* Answers arrive and the event loops run; the person and the clock are free.
Fairness == WF_vars(\/ \E r \in Requests : RequestStep(r)
                    \/ \E c \in calls : RefreshStep(c))

FairSpec == Spec /\ Fairness

-----------------------------------------------------------------------------
(* Properties *)

\* A login ends by itself only for a cause: a failed request, a refresh answer
\* that a page load dropped, or two pages that presented the same refresh token
\* (client.ts shares refreshRequest within a tab only).  One tab that refreshes
\* on behalf of several requests never logs itself out.
LogoutHasCause ==
    "forced" \in history => history \cap {"trouble", "dropped", "contested"} # {}

\* A refresh token the server no longer accepts stays in localStorage only
\* while an answer that replaces or removes it is under way, or after a failure
\* or a dropped answer.
StoredPairAlive ==
    stored.pair # 0 /\ session[stored.pair] # "active" =>
        \/ history \cap {"trouble", "dropped"} # {}
        \/ \E c \in calls : c.tab # Gone /\ c.pair = stored.pair

\* The user whose permissions a tab shows is the user its requests act for,
\* unless a login was answered while another tab was signed in or an older
\* /auth/me, login or refresh was outstanding.
IdentityMatches ==
    "crossed" \notin history =>
        \A t \in Tabs : SignedIn(t) /\ stored.pair # 0 => tab[t].user = owner[stored.pair]

\* Once the person stops, every tab comes to rest: no request waits for a
\* refresh for ever, and none is repeated for ever as long as access tokens do
\* not expire for ever.
RequestsSettle == []<>(\A r \in Requests : Free(r))

=============================================================================
