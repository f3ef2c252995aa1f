------------------------ MODULE AdminSessionProofs ------------------------
(***************************************************************************)
(* Safety of the admin UI's login for any number of tabs, requests,        *)
(* accounts and token pairs.                                               *)
(*                                                                         *)
(* The argument follows a token pair through its life.  A pair that was    *)
(* issued is on its way to a tab, in one answer only and good (FreshOK);   *)
(* then it is stored, and localStorage is the only place a refresh takes   *)
(* its pair from; it stops being good when the refresh that presented it   *)
(* rotates it, and that refresh is still to be answered (StoredPairAlive). *)
(* Hence a refresh token that is refused was presented twice (CauseOK).    *)
(***************************************************************************)
EXTENDS AdminSession, TLAPS

LoginAnswered(r) == req[r].kind = "login" /\ req[r].pc = "ok"

\* Every pair in use has been issued.
IssuedOK ==
    /\ stored.pair <= issued
    /\ \A r \in Requests : req[r].pair <= issued
    /\ \A c \in calls : c.pair <= issued /\ c.next <= issued
    /\ \A n \in 1..issued : session[n] # "none"

\* An answer holds what its reader takes from it.
AnswersOK ==
    /\ \A r \in Requests :
          /\ req[r].kind = "me" /\ req[r].pc = "ok" => req[r].pair # 0
          /\ req[r].kind = "me" /\ req[r].pc = "failed" => "trouble" \in history
          /\ LoginAnswered(r) => req[r].pair # 0 /\ owner[req[r].pair] = req[r].user
    /\ \A c \in calls :
          /\ c.pc = "ok" => c.next # 0
          /\ c.tab = Gone => "dropped" \in history

\* Nobody has presented or stored the pair n.
Unused(n) == session[n] = "active" /\ stored.pair # n /\ \A c \in calls : c.pair # n

\* A pair on its way to a tab is in one answer only.
FreshOK ==
    /\ \A c \in calls : c.pc = "ok" =>
          Unused(c.next) /\ \A d \in calls : d.pc = "ok" /\ d.next = c.next => d = c
    /\ \A r \in Requests : LoginAnswered(r) =>
          /\ Unused(req[r].pair)
          /\ \A q \in Requests : LoginAnswered(q) /\ req[q].pair = req[r].pair => q = r
          /\ \A c \in calls : c.pc = "ok" => c.next # req[r].pair

Caused == history \cap {"trouble", "dropped", "contested"} # {}

\* Without a cause the refreshes under way present different, good pairs.
CauseOK ==
    /\ "forced" \in history => Caused
    /\ \A c \in calls : c.pc = "failed" => Caused
    /\ ~Caused => \A c \in calls :
          /\ c.pc = "sent" => session[c.pair] = "active"
          /\ \A d \in calls : d.pair = c.pair => d = c

\* Whatever is signed in, stored or about to arrive belongs to u.
Account(u) ==
    /\ \A t \in Tabs : SignedIn(t) => tab[t].user = u
    /\ stored.pair # 0 => owner[stored.pair] = u /\ stored.user = u
    /\ \A r \in Requests : req[r].kind = "me" /\ req[r].pair # 0 => owner[req[r].pair] = u
    /\ \A c \in calls : owner[c.pair] = u /\ (c.pc = "ok" => owner[c.next] = u)

AccountOK == "crossed" \notin history => \E u \in MaybeUser : Account(u)

IndInv ==
    TypeOK /\ IssuedOK /\ AnswersOK /\ FreshOK /\ CauseOK /\ StoredPairAlive /\ AccountOK

-----------------------------------------------------------------------------
(* Helpers *)

\* The types of the parts of a call.
LEMMA CallFacts ==
    ASSUME TypeOK, NEW c \in calls
    PROVE  /\ c \in Call /\ c.tab \in Tabs \cup {Gone} /\ c.pair \in Pairs /\ c.next \in MaybePair
           /\ c.pc \in {"sent", "selected", "ok", "failed"}
BY DEF TypeOK, Call

LEMMA ReqFacts ==
    ASSUME TypeOK, NEW r \in Requests
    PROVE  /\ req[r] \in Request /\ req[r].pair \in MaybePair /\ req[r].user \in MaybeUser
           /\ req[r].kind \in {"none", "page", "me", "login"}
           /\ req[r].pc \in {"idle", "sent", "ok", "unauthorized", "failed", "waiting"}
           /\ TabOf[r] \in Tabs
BY SessionConstants DEF TypeOK, Request

LEMMA StoredFacts ==
    ASSUME TypeOK
    PROVE  /\ stored.pair \in MaybePair /\ stored.user \in MaybeUser /\ issued \in MaybePair
           /\ MaxPairs \in Nat \ {0} /\ Pairs = MaybePair \ {0} /\ MaybePair \subseteq Nat
           /\ \A t \in Tabs : tab[t] \in Keys /\ tab[t].pair \in MaybePair
BY SessionConstants DEF TypeOK, Keys, Pairs, MaybePair

\* The variables that the invariant does not relate to others.
Loose == leaving' \subseteq Tabs /\ expired' \subseteq Pairs /\ faults' \in 0..MaxFaults /\ ops' \in 0..MaxOps

LEMMA Counters ==
    ASSUME TypeOK
    PROVE  (Operate => ops' \in 0..MaxOps) /\ (Fault => faults' \in 0..MaxFaults)
BY SessionConstants DEF TypeOK, Operate, Fault

History == {"trouble", "forced", "crossed", "contested", "dropped"}

\* A failed request is the only news.
Troubled == history' = history \/ history' = history \cup {"trouble"}

LEMMA TroubledFacts ==
    ASSUME TypeOK, Troubled
    PROVE  /\ history' \subseteq History /\ history \subseteq history'
           /\ Caused => Caused'
           /\ history' = history \/ Caused'
           /\ "crossed" \in history' => "crossed" \in history
           /\ "forced" \in history' => "forced" \in history
BY DEF TypeOK, Troubled, Caused, History

\* Pairs on their way stay so as long as no new one is answered.  The pair m that
\* is stored, if any, is no longer on its way.
LEMMA FreshTaken ==
    ASSUME IndInv, NEW m,
           \A n \in Pairs : n # m /\ Unused(n) => Unused(n)',
           \A q \in Requests : LoginAnswered(q)' =>
               LoginAnswered(q) /\ req'[q] = req[q] /\ req[q].pair # m,
           \A c \in calls' : c.pc = "ok" => c \in calls /\ c.next # m
    PROVE  FreshOK'
<1>0. TypeOK /\ AnswersOK /\ FreshOK BY DEF IndInv
<1>1. \A c \in calls' : c.pc = "ok" =>
        Unused(c.next)' /\ \A d \in calls' : d.pc = "ok" /\ d.next = c.next => d = c
  <2>1. \A c \in calls : c.pc = "ok" => c.next \in Pairs
    BY <1>0, CallFacts, StoredFacts DEF AnswersOK
  <2> QED BY <1>0, <2>1 DEF FreshOK
<1>2. ASSUME NEW q \in Requests, LoginAnswered(q)'
      PROVE  /\ Unused(req[q].pair)'
             /\ \A p \in Requests : LoginAnswered(p)' /\ req'[p].pair = req'[q].pair => p = q
             /\ \A c \in calls' : c.pc = "ok" => c.next # req'[q].pair
  <2>1. LoginAnswered(q) /\ req'[q] = req[q] BY <1>2
  <2>2. PICK n \in Pairs : n = req[q].pair BY <1>0, <2>1, ReqFacts, StoredFacts DEF AnswersOK
  <2>3. Unused(n)' BY <1>0, <1>2, <2>1, <2>2 DEF FreshOK
  <2>4. Unused(req[q].pair)' BY <2>1, <2>2, <2>3 DEF Unused
  <2> QED BY <1>0, <2>1, <2>4 DEF FreshOK
<1> QED BY <1>1, <1>2 DEF FreshOK

LEMMA FreshKept ==
    ASSUME IndInv,
           \A n \in Pairs : Unused(n) => Unused(n)',
           \A q \in Requests : LoginAnswered(q)' => LoginAnswered(q) /\ req'[q] = req[q],
           \A c \in calls' : c.pc = "ok" => c \in calls
    PROVE  FreshOK'
<1>1. \A q \in Requests : LoginAnswered(q) => req[q].pair # 0 BY DEF IndInv, AnswersOK
<1>2. \A c \in calls : c.pc = "ok" => c.next # 0 BY DEF IndInv, AnswersOK
<1> QED BY <1>1, <1>2, FreshTaken

-----------------------------------------------------------------------------
\* One request changes, and is not answered with a new pair.
LEMMA RequestChange ==
    ASSUME IndInv, NEW r \in Requests, NEW x \in Request,
           req' = [req EXCEPT ![r] = x],
           UNCHANGED <<stored, tab, calls, session, owner, issued>>, Loose, Troubled,
           x.pair <= issued,
           ~(x.kind = "login" /\ x.pc = "ok"),
           x.kind = "me" => \/ x.pair = stored.pair
                            \/ req[r].kind = "me" /\ x.pair = req[r].pair,
           x.kind = "me" /\ x.pc = "ok" => x.pair # 0,
           x.kind = "me" /\ x.pc = "failed" => "trouble" \in history'
    PROVE  IndInv'
<1>0. TypeOK /\ IssuedOK /\ AnswersOK /\ FreshOK /\ CauseOK /\ StoredPairAlive /\ AccountOK BY DEF IndInv
<1>1. /\ history' \subseteq History /\ history \subseteq history' /\ (Caused => Caused')
      /\ history' = history \/ Caused'
      /\ "crossed" \in history' => "crossed" \in history
      /\ "forced" \in history' => "forced" \in history
  BY <1>0, TroubledFacts
<1>2. req \in [Requests -> Request] /\ req' \in [Requests -> Request] BY <1>0 DEF TypeOK
<1>3. req'[r] = x /\ \A q \in Requests : q # r => req'[q] = req[q] BY <1>2
<1>4. TypeOK' BY <1>0, <1>1, <1>2 DEF TypeOK, Loose, History
<1>5. IssuedOK' BY <1>0, <1>3 DEF IssuedOK
<1>6. AnswersOK'
  <2>1. ASSUME NEW q \in Requests
        PROVE  /\ req'[q].kind = "me" /\ req'[q].pc = "ok" => req'[q].pair # 0
               /\ req'[q].kind = "me" /\ req'[q].pc = "failed" => "trouble" \in history'
               /\ LoginAnswered(q)' => req'[q].pair # 0 /\ owner'[req'[q].pair] = req'[q].user
    <3>1. CASE q = r BY <1>3, <3>1 DEF LoginAnswered
    <3>2. CASE q # r BY <1>0, <1>1, <1>3, <3>2 DEF AnswersOK, LoginAnswered
    <3> QED BY <3>1, <3>2
  <2>2. ASSUME NEW c \in calls' PROVE (c.pc = "ok" => c.next # 0) /\ (c.tab = Gone => "dropped" \in history')
    BY <1>0, <1>1 DEF AnswersOK
  <2> QED BY <2>1, <2>2 DEF AnswersOK
<1>7. FreshOK'
  <2>1. \A n : Unused(n) => Unused(n)' BY DEF Unused
  <2>2. \A q \in Requests : LoginAnswered(q)' => LoginAnswered(q) /\ req'[q] = req[q]
    BY <1>3 DEF LoginAnswered
  <2> QED BY <2>1, <2>2, FreshKept
<1>8. CauseOK' BY <1>0, <1>1 DEF CauseOK, Caused
<1>9. StoredPairAlive' BY <1>0, <1>1 DEF StoredPairAlive
<1>10. AccountOK'
  <2> SUFFICES ASSUME "crossed" \notin history' PROVE \E u \in MaybeUser : Account(u)'
    BY DEF AccountOK
  <2>1. PICK u \in MaybeUser : Account(u) BY <1>0, <1>1 DEF AccountOK
  <2>2. Account(u)'
    <3>1. \A q \in Requests : req'[q].kind = "me" /\ req'[q].pair # 0 => owner'[req'[q].pair] = u
      BY <1>3, <2>1 DEF Account
    <3> QED BY <2>1, <3>1 DEF Account, SignedIn
  <2> QED BY <2>2
<1> QED BY <1>4, <1>5, <1>6, <1>7, <1>8, <1>9, <1>10 DEF IndInv

\* The person asks for something.
LEMMA OutgoingFacts ==
    ASSUME IndInv, NEW k \in {"page", "me", "login"}
    PROVE  /\ Outgoing(k) \in Request
           /\ Outgoing(k).pair = stored.pair /\ Outgoing(k).pc = "sent" /\ Outgoing(k).kind = k
           /\ stored.pair <= issued
<1>1. stored.pair \in MaybePair BY StoredFacts DEF IndInv
<1> QED BY <1>1 DEF Outgoing, Request, MaybeUser, IndInv, IssuedOK

LEMMA SubmitLoginStep ==
    ASSUME IndInv, NEW r \in Requests, NEW u \in Users, SubmitLogin(r, u) PROVE IndInv'
<1> DEFINE x == [Outgoing("login") EXCEPT !.user = u]
<1>1. Outgoing("login") \in Request /\ Outgoing("login").pair = stored.pair
      /\ Outgoing("login").pc = "sent" /\ Outgoing("login").kind = "login" /\ stored.pair <= issued
  BY OutgoingFacts
<1>2. x \in Request /\ x.kind = "login" /\ x.pc = "sent" /\ x.pair <= issued
  BY <1>1 DEF Request, MaybeUser
<1>3. /\ req' = [req EXCEPT ![r] = x] /\ UNCHANGED <<stored, tab, calls, session, owner, issued>>
      /\ history' = history
  BY DEF SubmitLogin, server
<1>4. Loose BY Counters DEF SubmitLogin, server, Loose, IndInv, TypeOK
<1> HIDE DEF x
<1> QED BY <1>2, <1>3, <1>4, RequestChange DEF Troubled

LEMMA PageRequestStep == ASSUME IndInv, NEW r \in Requests, PageRequest(r) PROVE IndInv'
<1> DEFINE x == Outgoing("page")
<1>2. x \in Request /\ x.kind = "page" /\ x.pc = "sent" /\ x.pair <= issued BY OutgoingFacts
<1>3. /\ req' = [req EXCEPT ![r] = x] /\ UNCHANGED <<stored, tab, calls, session, owner, issued>>
      /\ history' = history
  BY DEF PageRequest, server
<1>4. Loose BY Counters DEF PageRequest, server, Loose, IndInv, TypeOK
<1> HIDE DEF x
<1> QED BY <1>2, <1>3, <1>4, RequestChange DEF Troubled

\* A request that only moves on keeps its pair.
LEMMA MovesOn ==
    ASSUME IndInv, NEW r \in Requests,
           NEW pc \in {"idle", "sent", "ok", "unauthorized", "failed", "waiting"},
           req' = [req EXCEPT ![r].pc = pc],
           req[r].kind = "me" /\ pc = "ok" => req[r].pair # 0,
           req[r].kind = "me" /\ pc = "failed" => "trouble" \in history',
           ~(req[r].kind = "login" /\ pc = "ok"),
           UNCHANGED <<stored, tab, calls, session, owner, issued>>, Loose, Troubled
    PROVE  IndInv'
<1>1. req[r] \in Request /\ req \in [Requests -> Request] BY ReqFacts DEF IndInv, TypeOK
<1> DEFINE x == [req[r] EXCEPT !.pc = pc]
<1>2. x \in Request /\ x.kind = req[r].kind /\ x.pair = req[r].pair /\ x.pc = pc BY <1>1 DEF Request
<1>3. req' = [req EXCEPT ![r] = x] BY <1>1
<1>4. x.pair <= issued BY <1>2 DEF IndInv, IssuedOK
<1> HIDE DEF x
<1> QED BY <1>2, <1>3, <1>4, RequestChange

\* A request that is over.
LEMMA IsOver ==
    ASSUME IndInv, NEW r \in Requests, req' = [req EXCEPT ![r] = Idle],
           UNCHANGED <<stored, tab, calls, session, owner, issued>>, Loose, Troubled
    PROVE  IndInv'
<1>1. Idle \in Request /\ Idle.kind = "none" /\ Idle.pair = 0 /\ 0 <= issued
  BY StoredFacts DEF Idle, Request, MaybeUser, MaybePair, IndInv
<1> QED BY <1>1, RequestChange

LEMMA ServeStep == ASSUME IndInv, NEW r \in Requests, Serve(r) PROVE IndInv'
<1>1. UNCHANGED <<stored, tab, leaving, calls, session, owner, issued, faults, ops, history>>
  BY DEF Serve, bounds
<1>2. TypeOK /\ req[r].pair \in MaybePair /\ req \in [Requests -> Request] BY ReqFacts DEF IndInv, TypeOK
<1>3. CASE req[r].pair \in Pairs \ expired
           /\ req' = [req EXCEPT ![r] = IF @.kind = "page" THEN Idle ELSE [@ EXCEPT !.pc = "ok"]]
           /\ UNCHANGED expired
  <2>1. Loose BY <1>1, <1>2, <1>3 DEF Loose, TypeOK
  <2>2. req[r].pair # 0 BY <1>3 DEF Pairs
  <2>3. CASE req[r].kind = "page"
    <3>1. req' = [req EXCEPT ![r] = Idle] BY <1>2, <1>3, <2>3
    <3> QED BY <1>1, <2>1, <3>1, IsOver DEF Troubled
  <2>4. CASE req[r].kind # "page"
    <3>1. req' = [req EXCEPT ![r].pc = "ok"] BY <1>2, <1>3, <2>4
    <3>2. req[r].kind = "me" BY <2>4 DEF Serve
    <3> QED BY <1>1, <2>1, <2>2, <3>1, <3>2, MovesOn DEF Troubled
  <2> QED BY <2>3, <2>4
<1>4. CASE req' = [req EXCEPT ![r].pc = "unauthorized"]
           /\ expired' = expired \cup ({req[r].pair} \ {0})
  <2>1. expired' \subseteq Pairs BY <1>2, <1>4, StoredFacts DEF TypeOK
  <2>2. Loose BY <1>1, <1>2, <2>1 DEF Loose, TypeOK
  <2> QED BY <1>1, <1>4, <2>2, MovesOn DEF Troubled
<1> QED BY <1>3, <1>4 DEF Serve

LEMMA RequestFailsStep == ASSUME IndInv, NEW r \in Requests, RequestFails(r) PROVE IndInv'
<1>1. /\ UNCHANGED <<stored, tab, calls, session, owner, issued, leaving, expired, ops>>
      /\ req' = [req EXCEPT ![r].pc = "failed"] /\ history' = history \cup {"trouble"}
      /\ faults' \in 0..MaxFaults
  BY Counters DEF RequestFails, server, IndInv
<1>2. Loose BY <1>1 DEF Loose, IndInv, TypeOK
<1> QED BY <1>1, <1>2, MovesOn DEF Troubled

-----------------------------------------------------------------------------
\* Login stores a session: its pair is new and only the answer has it.
LEMMA ServeLoginStep == ASSUME IndInv, NEW r \in Requests, ServeLogin(r) PROVE IndInv'
<1>0. TypeOK /\ IssuedOK /\ AnswersOK /\ FreshOK /\ CauseOK /\ StoredPairAlive /\ AccountOK BY DEF IndInv
<1>1. UNCHANGED <<stored, tab, leaving, calls, faults, ops, history>> /\ expired' = expired
  BY DEF ServeLogin, Issue, bounds, server
<1>2. Loose BY <1>0, <1>1 DEF Loose, TypeOK
<1>3. CASE req' = [req EXCEPT ![r].pc = "failed"] /\ UNCHANGED server
  BY <1>1, <1>2, <1>3, MovesOn DEF ServeLogin, server, Troubled
<1>4. CASE Issue(req[r].user) /\ req' = [req EXCEPT ![r].pc = "ok", ![r].pair = issued + 1]
  <2>0. PICK n : n = issued + 1 OBVIOUS
  <2>1. /\ issued' = n /\ n \in Pairs /\ n \in Nat /\ n # 0 /\ issued \in Nat
        /\ session' = [session EXCEPT ![n] = "active"] /\ owner' = [owner EXCEPT ![n] = req[r].user]
    BY <1>0, <1>4, <2>0, SessionConstants DEF Issue, TypeOK, Pairs, MaybePair
  <2>2. \A m \in MaybePair : m <= issued => m # n /\ m <= n BY <1>0, <2>0, <2>1, StoredFacts
  <2>3. MaybePair = Pairs \cup {0} /\ 0 \in MaybePair BY SessionConstants DEF Pairs, MaybePair
  <2>4. /\ req \in [Requests -> Request] /\ req[r] \in Request /\ req[r].kind = "login"
        /\ req[r].user \in MaybeUser
    BY <1>0, ReqFacts DEF TypeOK, ServeLogin
  <2>5. req' = [req EXCEPT ![r].pc = "ok", ![r].pair = n] BY <1>4, <2>0
  <2>6. /\ req' \in [Requests -> Request]
        /\ req'[r].kind = "login" /\ req'[r].pc = "ok" /\ req'[r].pair = n /\ req'[r].user = req[r].user
        /\ \A q \in Requests : q # r => req'[q] = req[q]
    BY <2>1, <2>3, <2>4, <2>5 DEF Request
  <2>7. /\ session' \in [Pairs -> {"none", "active", "rotated"}] /\ owner' \in [Pairs -> MaybeUser]
        /\ session'[n] = "active" /\ owner'[n] = req[r].user
        /\ \A m \in Pairs : m # n => session'[m] = session[m] /\ owner'[m] = owner[m]
    BY <1>0, <2>1, <2>4 DEF TypeOK
  <2>8. /\ \A q \in Requests : req[q].pair \in MaybePair /\ req[q].pair <= issued
        /\ \A c \in calls : c.pair \in Pairs /\ c.pair <= issued /\ c.next \in MaybePair /\ c.next <= issued
        /\ stored.pair \in MaybePair /\ stored.pair <= issued
    BY <1>0, CallFacts, ReqFacts, StoredFacts DEF IssuedOK
  <2>9. TypeOK'
    BY <1>0, <1>1, <2>1, <2>3, <2>6, <2>7 DEF TypeOK
  <2>10. IssuedOK'
    <3>1. \A m \in 1..issued' : m \in Pairs /\ (m = n \/ m \in 1..issued)
      BY <1>0, <2>0, <2>1, SessionConstants DEF Pairs
    <3>2. n <= issued' BY <2>1
    <3>3. \A m \in 1..issued' : session'[m] # "none" BY <1>0, <2>7, <3>1 DEF IssuedOK
    <3>4. \A q \in Requests : req'[q].pair <= issued' BY <2>1, <2>2, <2>6, <2>8, <3>2
    <3> QED BY <1>1, <2>1, <2>2, <2>8, <3>3, <3>4, <2>3 DEF IssuedOK
  <2>11. AnswersOK'
    <3>1. ASSUME NEW q \in Requests
          PROVE  /\ req'[q].kind = "me" /\ req'[q].pc = "ok" => req'[q].pair # 0
                 /\ req'[q].kind = "me" /\ req'[q].pc = "failed" => "trouble" \in history'
                 /\ LoginAnswered(q)' => req'[q].pair # 0 /\ owner'[req'[q].pair] = req'[q].user
      <4>1. CASE q = r BY <2>1, <2>6, <2>7, <4>1
      <4>2. CASE q # r
        BY <1>0, <1>1, <2>2, <2>3, <2>6, <2>7, <2>8, <4>2 DEF AnswersOK, LoginAnswered
      <4> QED BY <4>1, <4>2
    <3>2. \A c \in calls' : (c.pc = "ok" => c.next # 0) /\ (c.tab = Gone => "dropped" \in history')
      BY <1>0, <1>1 DEF AnswersOK
    <3> QED BY <3>1, <3>2 DEF AnswersOK
  <2>12. FreshOK'
    <3>1. \A m \in Pairs : m # n /\ Unused(m) => Unused(m)' BY <1>1, <2>7 DEF Unused
    <3>2. Unused(n)' BY <1>1, <2>2, <2>3, <2>7, <2>8 DEF Unused
    <3>3. ASSUME NEW c \in calls', c.pc = "ok"
          PROVE  Unused(c.next)' /\ c.next # n /\ \A d \in calls' : d.pc = "ok" /\ d.next = c.next => d = c
      <4>1. c \in calls /\ c.next \in Pairs /\ c.next # n
        BY <1>0, <1>1, <2>2, <2>3, <2>8, <3>3 DEF AnswersOK
      <4> QED BY <1>0, <1>1, <3>1, <3>3, <4>1 DEF FreshOK
    <3>4. \A q \in Requests : q # r /\ LoginAnswered(q)' =>
              LoginAnswered(q) /\ req'[q] = req[q] /\ req[q].pair \in Pairs /\ req[q].pair # n
      BY <1>0, <2>2, <2>3, <2>6, <2>8 DEF LoginAnswered, AnswersOK
    <3>5. ASSUME NEW q \in Requests, LoginAnswered(q)'
          PROVE  /\ Unused(req[q].pair)'
                 /\ \A p \in Requests : LoginAnswered(p)' /\ req'[p].pair = req'[q].pair => p = q
                 /\ \A c \in calls' : c.pc = "ok" => c.next # req'[q].pair
      <4>1. CASE q = r BY <2>6, <3>2, <3>3, <3>4, <4>1 DEF Unused
      <4>2. CASE q # r
        <5>1. LoginAnswered(q) /\ req'[q] = req[q] /\ req[q].pair \in Pairs /\ req[q].pair # n
          BY <3>4, <3>5, <4>2
        <5>2. PICK m \in Pairs : m = req[q].pair BY <5>1
        <5>3. Unused(m)' BY <1>0, <3>1, <5>1, <5>2 DEF FreshOK
        <5>4. Unused(req[q].pair)' BY <5>1, <5>2, <5>3 DEF Unused
        <5> QED BY <1>0, <1>1, <2>6, <3>4, <5>1, <5>4 DEF FreshOK
      <4> QED BY <4>1, <4>2
    <3> QED BY <3>3, <3>5 DEF FreshOK
  <2>13. CauseOK'
    <3>1. \A c \in calls : session'[c.pair] = session[c.pair] BY <2>2, <2>3, <2>7, <2>8
    <3> QED BY <1>0, <1>1, <3>1 DEF CauseOK, Caused
  <2>14. StoredPairAlive' BY <1>0, <1>1, <2>2, <2>3, <2>7, <2>8 DEF StoredPairAlive
  <2>15. AccountOK'
    <3> SUFFICES ASSUME "crossed" \notin history' PROVE \E u \in MaybeUser : Account(u)'
      BY DEF AccountOK
    <3>1. PICK u \in MaybeUser : Account(u) BY <1>0, <1>1 DEF AccountOK
    <3>2. stored'.pair # 0 => owner'[stored'.pair] = u /\ stored'.user = u
      BY <1>1, <2>2, <2>3, <2>7, <2>8, <3>1 DEF Account
    <3>3. \A q \in Requests : req'[q].kind = "me" /\ req'[q].pair # 0 => owner'[req'[q].pair] = u
      BY <2>2, <2>3, <2>6, <2>7, <2>8, <3>1 DEF Account
    <3>4. \A c \in calls' : owner'[c.pair] = u /\ (c.pc = "ok" => owner'[c.next] = u)
      BY <1>0, <1>1, <2>2, <2>3, <2>7, <2>8, <3>1 DEF Account, AnswersOK
    <3>5. Account(u)' BY <1>1, <3>1, <3>2, <3>3, <3>4 DEF Account, SignedIn
    <3> QED BY <3>5
  <2> QED BY <2>9, <2>10, <2>11, <2>12, <2>13, <2>14, <2>15 DEF IndInv
<1> QED BY <1>3, <1>4 DEF ServeLogin

-----------------------------------------------------------------------------
\* localStorage and one tab are cleared, and requests and refreshes may end.
LEMMA SignedOut ==
    ASSUME IndInv, NEW t \in Tabs, stored' = Empty, tab' = [tab EXCEPT ![t] = Empty],
           req' \in [Requests -> Request], \A q \in Requests : req'[q] = req[q] \/ req'[q] = Idle,
           calls' \subseteq calls, UNCHANGED <<session, owner, issued>>, Loose,
           history' = history \/ history' = history \cup {"forced"},
           "forced" \in history' => Caused
    PROVE  IndInv'
<1>0. TypeOK /\ IssuedOK /\ AnswersOK /\ FreshOK /\ CauseOK /\ AccountOK BY DEF IndInv
<1>1. /\ history' \subseteq History /\ Caused' = Caused
      /\ "trouble" \in history => "trouble" \in history'
      /\ "dropped" \in history => "dropped" \in history'
      /\ "crossed" \in history' <=> "crossed" \in history
  BY <1>0 DEF Caused, TypeOK, History
<1>2. Empty \in Keys /\ Empty.pair = 0 /\ Idle.kind = "none" /\ Idle.pair = 0 /\ issued \in Nat
  BY SessionConstants, <1>0, StoredFacts DEF Empty, Idle, Keys, MaybePair, MaybeUser
<1>3. tab' \in [Tabs -> Keys] /\ tab'[t] = Empty /\ \A s \in Tabs : s # t => tab'[s] = tab[s]
  BY <1>0, <1>2 DEF TypeOK
<1>4. TypeOK' BY <1>0, <1>1, <1>2, <1>3 DEF TypeOK, Loose, History
<1>5. IssuedOK'
  <2>1. \A q \in Requests : req'[q].pair <= issued' BY <1>0, <1>2 DEF IssuedOK
  <2> QED BY <1>0, <1>2, <2>1 DEF IssuedOK
<1>6. AnswersOK' BY <1>0, <1>1, <1>2 DEF AnswersOK, LoginAnswered
<1>7. FreshOK'
  <2>1. \A n \in Pairs : Unused(n) => Unused(n)'
    <3>1. \A n \in Pairs : n # 0 BY DEF Pairs
    <3> QED BY <1>2, <3>1 DEF Unused
  <2>2. \A q \in Requests : LoginAnswered(q)' => LoginAnswered(q) /\ req'[q] = req[q]
    BY <1>2 DEF LoginAnswered
  <2> QED BY <2>1, <2>2, FreshKept
<1>8. CauseOK' BY <1>0, <1>1 DEF CauseOK
<1>9. StoredPairAlive' BY <1>2 DEF StoredPairAlive
<1>10. AccountOK'
  <2> SUFFICES ASSUME "crossed" \notin history' PROVE \E u \in MaybeUser : Account(u)'
    BY DEF AccountOK
  <2>1. PICK u \in MaybeUser : Account(u) BY <1>0, <1>1 DEF AccountOK
  <2>2. \A s \in Tabs : SignedIn(s)' => tab'[s].user = u BY <1>2, <1>3, <2>1 DEF Account, SignedIn
  <2>3. Account(u)' BY <1>2, <2>1, <2>2 DEF Account
  <2> QED BY <2>3
<1> QED BY <1>4, <1>5, <1>6, <1>7, <1>8, <1>9, <1>10 DEF IndInv

LEMMA LogoutStep == ASSUME IndInv, NEW t \in Tabs, Logout(t) PROVE IndInv'
<1>1. /\ stored' = Empty /\ tab' = [tab EXCEPT ![t] = Empty]
      /\ UNCHANGED <<leaving, req, calls, session, owner, issued, expired, faults, history>>
      /\ ops' \in 0..MaxOps
  BY Counters DEF Logout, server, IndInv
<1>2. Loose /\ req \in [Requests -> Request] BY <1>1 DEF Loose, IndInv, TypeOK
<1>3. "forced" \in history' => Caused BY <1>1 DEF IndInv, CauseOK
<1> QED BY <1>1, <1>2, <1>3, SignedOut

\* The person's own account, read again.
LEMMA ReceiveMeStep == ASSUME IndInv, NEW r \in Requests, ReceiveMe(r) PROVE IndInv'
<1>0. TypeOK /\ IssuedOK /\ AnswersOK /\ FreshOK /\ CauseOK /\ StoredPairAlive /\ AccountOK BY DEF IndInv
<1>1. /\ UNCHANGED <<leaving, calls, session, owner, issued, expired, faults, ops>>
      /\ req' = [req EXCEPT ![r] = Idle] /\ req[r].kind = "me"
  BY DEF ReceiveMe, server, bounds
<1>2. Loose /\ req \in [Requests -> Request] /\ TabOf[r] \in Tabs BY <1>0, <1>1, ReqFacts DEF Loose, TypeOK
<1>3. Idle \in Request /\ Idle.kind = "none" /\ Idle.pair = 0
  BY SessionConstants DEF Idle, Request, MaybePair, MaybeUser
<1>4. /\ req' \in [Requests -> Request] /\ \A q \in Requests : req'[q] = req[q] \/ req'[q] = Idle
  BY <1>1, <1>2, <1>3
<1>5. CASE req[r].pc = "failed" /\ stored' = Empty /\ tab' = [tab EXCEPT ![TabOf[r]] = Empty]
           /\ history' = history \cup Note("forced", stored.pair # 0)
  <2>1. Caused BY <1>0, <1>1, <1>5 DEF AnswersOK, Caused
  <2>2. history' = history \/ history' = history \cup {"forced"} BY <1>5 DEF Note
  <2> QED BY <1>1, <1>2, <1>4, <1>5, <2>1, <2>2, SignedOut
<1>6. CASE req[r].pc = "ok" /\ stored' = [stored EXCEPT !.user = owner[req[r].pair]]
           /\ tab' = [tab EXCEPT ![TabOf[r]].user = owner[req[r].pair]] /\ UNCHANGED history
  <2> DEFINE v == owner[req[r].pair]
             t == TabOf[r]
  <2>1. req[r].pair \in Pairs /\ req[r].pair # 0
    BY <1>0, <1>1, <1>6, ReqFacts, StoredFacts DEF AnswersOK
  <2>2. v \in MaybeUser /\ t \in Tabs BY <1>0, <1>2, <2>1 DEF TypeOK
  <2>3. stored' = [stored EXCEPT !.user = v] /\ tab' = [tab EXCEPT ![t].user = v] BY <1>6
  <2>4. "crossed" \notin history => \A u : Account(u) => v = u BY <1>1, <2>1 DEF Account
  <2> HIDE DEF v, t
  <2>5. stored' \in Keys /\ stored'.pair = stored.pair /\ stored'.user = v
    BY <1>0, <2>2, <2>3 DEF TypeOK, Keys
  <2>6. /\ tab' \in [Tabs -> Keys] /\ tab'[t].user = v /\ tab'[t].pair = tab[t].pair
        /\ \A s \in Tabs : s # t => tab'[s] = tab[s]
    BY <1>0, <2>2, <2>3 DEF TypeOK, Keys
  <2>7. TypeOK' BY <1>0, <1>1, <1>4, <1>6, <2>5, <2>6 DEF TypeOK
  <2>8. issued \in Nat BY <1>0, StoredFacts
  <2>9. IssuedOK' BY <1>0, <1>1, <1>3, <1>4, <2>5, <2>8 DEF IssuedOK
  <2>10. AnswersOK' BY <1>0, <1>1, <1>3, <1>4, <1>6 DEF AnswersOK, LoginAnswered
  <2>11. FreshOK'
    <3>1. \A n : Unused(n) => Unused(n)' BY <1>1, <2>5 DEF Unused
    <3>2. \A q \in Requests : LoginAnswered(q)' => LoginAnswered(q) /\ req'[q] = req[q]
      BY <1>3, <1>4 DEF LoginAnswered
    <3> QED BY <1>1, <3>1, <3>2, FreshKept
  <2>12. CauseOK' BY <1>0, <1>1, <1>6 DEF CauseOK, Caused
  <2>13. StoredPairAlive' BY <1>0, <1>1, <1>6, <2>5 DEF StoredPairAlive
  <2>14. AccountOK'
    <3> SUFFICES ASSUME "crossed" \notin history' PROVE \E u \in MaybeUser : Account(u)'
      BY DEF AccountOK
    <3>1. PICK u \in MaybeUser : Account(u) BY <1>0, <1>6 DEF AccountOK
    <3>2. v = u BY <1>6, <2>4, <3>1
    <3>3. \A s \in Tabs : SignedIn(s)' => tab'[s].user = u BY <2>6, <3>1, <3>2 DEF Account, SignedIn
    <3>4. Account(u)' BY <1>1, <1>3, <1>4, <2>5, <3>1, <3>2, <3>3 DEF Account
    <3> QED BY <3>4
  <2> QED BY <2>7, <2>9, <2>10, <2>11, <2>12, <2>13, <2>14 DEF IndInv
<1> QED BY <1>5, <1>6 DEF ReceiveMe

-----------------------------------------------------------------------------
\* A refresh moves on without a new pair: it is selected, or fails.
LEMMA CallMoves ==
    ASSUME IndInv, NEW c \in calls, NEW d \in Call,
           d.tab = c.tab, d.pair = c.pair, d.next = c.next, d.pc \in {"selected", "failed"},
           Becomes(c, d), UNCHANGED <<stored, tab, req, owner, issued>>, Loose, Troubled,
           \/ session' = session
           \/ session' = [session EXCEPT ![c.pair] = "rotated"] /\ "trouble" \in history',
           d.pc = "failed" => Caused',
           d.pc = "selected" => session[c.pair] = "active"
    PROVE  IndInv'
<1>0. TypeOK /\ IssuedOK /\ AnswersOK /\ FreshOK /\ CauseOK /\ StoredPairAlive /\ AccountOK BY DEF IndInv
<1>1. /\ history' \subseteq History /\ history \subseteq history' /\ (Caused => Caused')
      /\ history' = history \/ Caused'
      /\ "crossed" \in history' => "crossed" \in history
      /\ "forced" \in history' => "forced" \in history
  BY <1>0, TroubledFacts
<1>2. c \in Call /\ c.pair \in Pairs /\ c.tab \in Tabs \cup {Gone} BY <1>0, CallFacts
<1>3. /\ calls' \subseteq (calls \ {c}) \cup {d} /\ calls \ {c} \subseteq calls'
      /\ d.tab # Gone => d \in calls'
  BY DEF Becomes
<1>4. /\ session' \in [Pairs -> {"none", "active", "rotated"}]
      /\ \A n \in Pairs : n # c.pair => session'[n] = session[n]
      /\ session'[c.pair] = session[c.pair] \/ (session'[c.pair] = "rotated" /\ "trouble" \in history')
  BY <1>0, <1>2 DEF TypeOK
<1>5. TypeOK'
  <2>1. calls' \subseteq Call BY <1>0, <1>3 DEF TypeOK
  <2> QED BY <1>0, <1>1, <1>4, <2>1 DEF TypeOK, Loose, History
<1>6. IssuedOK'
  <2>1. \A n \in 1..issued : n \in Pairs BY <1>0, SessionConstants DEF TypeOK, MaybePair, Pairs
  <2>2. \A n \in 1..issued' : session'[n] # "none" BY <1>0, <1>4, <2>1 DEF IssuedOK
  <2> QED BY <1>0, <1>3, <2>2 DEF IssuedOK
<1>7. AnswersOK' BY <1>0, <1>1, <1>3 DEF AnswersOK, LoginAnswered
<1>8. FreshOK'
  <2>1. \A n \in Pairs : Unused(n) => Unused(n)' BY <1>3, <1>4 DEF Unused
  <2>2. \A q \in Requests : LoginAnswered(q)' => LoginAnswered(q) /\ req'[q] = req[q] BY DEF LoginAnswered
  <2>3. \A e \in calls' : e.pc = "ok" => e \in calls BY <1>3
  <2> QED BY <2>1, <2>2, <2>3, FreshKept
<1>9. CauseOK'
  <2>1. "forced" \in history' => Caused' BY <1>0, <1>1 DEF CauseOK
  <2>2. \A e \in calls' : e.pc = "failed" => Caused' BY <1>0, <1>1, <1>3 DEF CauseOK
  <2>3. ASSUME ~Caused', NEW e \in calls'
        PROVE  /\ e.pc = "sent" => session'[e.pair] = "active"
               /\ \A f \in calls' : f.pair = e.pair => f = e
    <3>1. ~Caused /\ history' = history BY <1>1, <2>3
    <3>2. \A f \in calls : (f.pc = "sent" => session[f.pair] = "active")
                           /\ \A g \in calls : g.pair = f.pair => g = f
      BY <1>0, <3>1 DEF CauseOK
    <3>3. e # d => e \in calls /\ e.pair # c.pair /\ e.pair \in Pairs
      BY <1>0, <1>3, <3>2, CallFacts
    <3>4. e.pc = "sent" => session'[e.pair] = "active" BY <1>4, <3>2, <3>3
    <3>5. ASSUME NEW f \in calls', f.pair = e.pair PROVE f = e BY <1>3, <3>2, <3>3, <3>5
    <3> QED BY <3>4, <3>5
  <2> QED BY <2>1, <2>2, <2>3 DEF CauseOK
<1>10. StoredPairAlive'
  <2> SUFFICES ASSUME stored.pair # 0, session'[stored.pair] # "active", "trouble" \notin history', "dropped" \notin history'
               PROVE  \E e \in calls' : e.tab # Gone /\ e.pair = stored.pair
    BY DEF StoredPairAlive
  <2>1. stored.pair \in Pairs BY <1>0, StoredFacts
  <2>2. session[stored.pair] # "active" BY <1>4, <2>1
  <2>3. PICK e \in calls : e.tab # Gone /\ e.pair = stored.pair BY <1>0, <1>1, <2>2 DEF StoredPairAlive
  <2> QED BY <1>3, <2>3
<1>11. AccountOK'
  <2> SUFFICES ASSUME "crossed" \notin history' PROVE \E u \in MaybeUser : Account(u)'
    BY DEF AccountOK
  <2>1. PICK u \in MaybeUser : Account(u) BY <1>0, <1>1 DEF AccountOK
  <2>2. Account(u)' BY <1>3, <2>1 DEF Account, SignedIn
  <2> QED BY <2>2
<1> QED BY <1>5, <1>6, <1>7, <1>8, <1>9, <1>10, <1>11 DEF IndInv

\* A session that is no longer active was presented before.
LEMMA SelectStep == ASSUME IndInv, NEW c \in calls, SelectSession(c) PROVE IndInv'
<1>0. TypeOK /\ CauseOK /\ c \in Call BY CallFacts DEF IndInv
<1> DEFINE d == [c EXCEPT !.pc = IF session[c.pair] = "active" THEN "selected" ELSE "failed"]
<1>1. /\ Becomes(c, d) /\ c.pc = "sent"
      /\ UNCHANGED <<stored, tab, leaving, req, session, owner, issued, expired, faults, ops, history>>
  BY DEF SelectSession, server, bounds
<1>2. /\ d \in Call /\ d.tab = c.tab /\ d.pair = c.pair /\ d.next = c.next
      /\ d.pc = IF session[c.pair] = "active" THEN "selected" ELSE "failed"
  BY <1>0 DEF Call
<1> HIDE DEF d
<1>3. d.pc \in {"selected", "failed"} /\ (d.pc = "selected" => session[c.pair] = "active") BY <1>2
<1>4. d.pc = "failed" => Caused' BY <1>0, <1>1, <1>2 DEF CauseOK, Caused
<1>5. Loose BY <1>0, <1>1 DEF Loose, TypeOK
<1> QED BY <1>1, <1>2, <1>3, <1>4, <1>5, CallMoves DEF Troubled

LEMMA RefreshFailsStep == ASSUME IndInv, NEW c \in calls, RefreshFails(c) PROVE IndInv'
<1>0. TypeOK /\ c \in Call BY CallFacts DEF IndInv
<1> DEFINE d == [c EXCEPT !.pc = "failed"]
<1>1. /\ Becomes(c, d) /\ UNCHANGED <<stored, tab, leaving, req, session, owner, issued, expired, ops>>
      /\ faults' \in 0..MaxFaults /\ history' = history \cup {"trouble"}
  BY <1>0, Counters DEF RefreshFails, server
<1>2. d \in Call /\ d.tab = c.tab /\ d.pair = c.pair /\ d.next = c.next /\ d.pc = "failed"
  BY <1>0 DEF Call
<1> HIDE DEF d
<1>3. Caused' /\ Troubled BY <1>1 DEF Caused, Troubled
<1>4. Loose BY <1>0, <1>1 DEF Loose, TypeOK
<1> QED BY <1>1, <1>2, <1>3, <1>4, CallMoves

\* The new pair replaces the one that was presented, and is in the answer only.
LEMMA RotateStep == ASSUME IndInv, NEW c \in calls, RotateSession(c) PROVE IndInv'
<1>0. TypeOK /\ IssuedOK /\ AnswersOK /\ FreshOK /\ CauseOK /\ StoredPairAlive /\ AccountOK BY DEF IndInv
<1>1. UNCHANGED <<stored, tab, leaving, req, expired, ops>> BY DEF RotateSession
<1>2. c \in Call /\ c.pair \in Pairs /\ c.tab \in Tabs \cup {Gone} BY <1>0, CallFacts
<1>3. CASE /\ (issued = MaxPairs /\ UNCHANGED faults) \/ Fault
           /\ session' = [session EXCEPT ![c.pair] = "rotated"]
           /\ Becomes(c, [c EXCEPT !.pc = "failed"])
           /\ history' = history \cup {"trouble"}
           /\ UNCHANGED <<owner, issued>>
  <2> DEFINE d == [c EXCEPT !.pc = "failed"]
  <2>1. d \in Call /\ d.tab = c.tab /\ d.pair = c.pair /\ d.next = c.next /\ d.pc = "failed"
    BY <1>2 DEF Call
  <2>2. Becomes(c, d) BY <1>3
  <2> HIDE DEF d
  <2>3. Caused' /\ Troubled /\ "trouble" \in history' BY <1>3 DEF Caused, Troubled
  <2>4. Loose BY <1>0, <1>1, <1>3, Counters DEF Loose, TypeOK
  <2> QED BY <1>1, <1>3, <2>1, <2>2, <2>3, <2>4, CallMoves
<1>4. CASE /\ issued < MaxPairs
           /\ issued' = issued + 1
           /\ session' = [session EXCEPT ![c.pair] = "rotated", ![issued + 1] = "active"]
           /\ owner' = [owner EXCEPT ![issued + 1] = owner[c.pair]]
           /\ Becomes(c, [c EXCEPT !.pc = "ok", !.next = issued + 1])
           /\ UNCHANGED <<faults, history>>
  <2>0. PICK n : n = issued + 1 OBVIOUS
  <2>1. issued' = n /\ n \in Pairs /\ n \in Nat /\ n # 0 /\ issued \in Nat /\ n \in MaybePair
    BY <1>0, <1>4, <2>0, SessionConstants DEF TypeOK, Pairs, MaybePair
  <2>2. \A m \in MaybePair : m <= issued => m # n /\ m <= n BY <1>0, <2>0, <2>1, StoredFacts
  <2>3. MaybePair = Pairs \cup {0} BY SessionConstants DEF Pairs, MaybePair
  <2>4. /\ \A q \in Requests : req[q].pair \in MaybePair /\ req[q].pair <= issued
        /\ \A e \in calls : e.pair \in Pairs /\ e.pair <= issued /\ e.next \in MaybePair /\ e.next <= issued
        /\ stored.pair \in MaybePair /\ stored.pair <= issued
    BY <1>0, CallFacts, ReqFacts, StoredFacts DEF IssuedOK
  <2>5. c.pair # n BY <2>2, <2>3, <2>4
  <2>6. /\ session' \in [Pairs -> {"none", "active", "rotated"}] /\ owner' \in [Pairs -> MaybeUser]
        /\ session'[n] = "active" /\ owner'[n] = owner[c.pair] /\ session'[c.pair] = "rotated"
        /\ \A m \in Pairs : m # n => owner'[m] = owner[m]
        /\ \A m \in Pairs : m # n /\ m # c.pair => session'[m] = session[m]
    BY <1>0, <1>2, <1>4, <2>0, <2>1, <2>5 DEF TypeOK
  <2>7. PICK d : d = [c EXCEPT !.pc = "ok", !.next = n] OBVIOUS
  <2>8. d \in Call /\ d.tab = c.tab /\ d.pair = c.pair /\ d.pc = "ok" /\ d.next = n
    BY <1>2, <2>1, <2>7 DEF Call
  <2>9. /\ calls' \subseteq (calls \ {c}) \cup {d} /\ (d.tab # Gone => d \in calls')
        /\ calls \ {c} \subseteq calls'
    BY <1>4, <2>0, <2>7 DEF Becomes
  <2>10. TypeOK'
    <3>1. calls' \subseteq Call BY <1>0, <2>8, <2>9 DEF TypeOK
    <3> QED BY <1>0, <1>1, <1>4, <2>1, <2>6, <3>1 DEF TypeOK
  <2>11. IssuedOK'
    <3>1. \A m \in 1..issued' : m \in Pairs /\ (m = n \/ m \in 1..issued)
      BY <1>0, <2>0, <2>1, SessionConstants DEF Pairs
    <3>2. \A m \in 1..issued' : session'[m] # "none" BY <1>0, <2>6, <3>1 DEF IssuedOK
    <3>3. n <= issued' BY <2>1
    <3>4. \A e \in calls' : e.pair <= issued' /\ e.next <= issued'
      BY <2>1, <2>2, <2>3, <2>4, <2>8, <2>9, <3>3
    <3> QED BY <1>1, <2>1, <2>2, <2>3, <2>4, <3>2, <3>4 DEF IssuedOK
  <2>12. AnswersOK'
    <3>1. \A q \in Requests : LoginAnswered(q)' =>
              LoginAnswered(q) /\ req[q].pair \in Pairs /\ owner'[req[q].pair] = req[q].user
      BY <1>0, <1>1, <2>2, <2>3, <2>4, <2>6 DEF LoginAnswered, AnswersOK
    <3>2. \A q \in Requests : LoginAnswered(q)' => req'[q].pair # 0 /\ owner'[req'[q].pair] = req'[q].user
      BY <1>0, <1>1, <3>1 DEF AnswersOK
    <3>3. \A e \in calls' : (e.pc = "ok" => e.next # 0) /\ (e.tab = Gone => "dropped" \in history')
      BY <1>0, <1>4, <2>1, <2>8, <2>9 DEF AnswersOK
    <3> QED BY <1>0, <1>1, <1>4, <3>2, <3>3 DEF AnswersOK
  <2>13. FreshOK'
    <3>1. \A m \in Pairs : Unused(m) => m # c.pair BY DEF Unused
    <3>2. \A m \in Pairs : m # n /\ Unused(m) => Unused(m)'
      BY <1>1, <2>6, <2>8, <2>9, <3>1 DEF Unused
    <3>3. Unused(n)' BY <1>1, <2>2, <2>3, <2>4, <2>5, <2>6, <2>8, <2>9 DEF Unused
    <3>4. \A e \in calls : e.pc = "ok" => e.next \in Pairs /\ e.next # n
      BY <1>0, <2>2, <2>3, <2>4 DEF AnswersOK
    <3>5. ASSUME NEW e \in calls', e.pc = "ok"
          PROVE  Unused(e.next)' /\ \A f \in calls' : f.pc = "ok" /\ f.next = e.next => f = e
      <4>1. CASE e = d BY <2>8, <2>9, <3>3, <3>4, <4>1
      <4>2. CASE e # d
        <5>1. e \in calls /\ e.next \in Pairs /\ e.next # n BY <2>9, <3>4, <3>5, <4>2
        <5>2. Unused(e.next)' BY <1>0, <3>2, <3>5, <5>1 DEF FreshOK
        <5> QED BY <1>0, <2>8, <2>9, <3>5, <5>1, <5>2 DEF FreshOK
      <4> QED BY <4>1, <4>2
    <3>6. ASSUME NEW q \in Requests, LoginAnswered(q)'
          PROVE  /\ Unused(req[q].pair)'
                 /\ \A p \in Requests : LoginAnswered(p)' /\ req'[p].pair = req'[q].pair => p = q
                 /\ \A e \in calls' : e.pc = "ok" => e.next # req'[q].pair
      <4>1. LoginAnswered(q) BY <1>1, <3>6 DEF LoginAnswered
      <4>2. PICK m \in Pairs : m = req[q].pair /\ m # n
        BY <1>0, <2>2, <2>3, <2>4, <4>1 DEF AnswersOK
      <4>3. Unused(m)' BY <1>0, <3>2, <4>1, <4>2 DEF FreshOK
      <4>4. Unused(req[q].pair)' BY <1>1, <4>2, <4>3 DEF Unused
      <4>5. \A p \in Requests : LoginAnswered(p)' /\ req'[p].pair = req'[q].pair => p = q
        BY <1>0, <1>1, <4>1 DEF FreshOK, LoginAnswered
      <4>6. \A e \in calls' : e.pc = "ok" => e.next # req'[q].pair
        BY <1>0, <1>1, <2>8, <2>9, <4>1, <4>2 DEF FreshOK
      <4> QED BY <4>4, <4>5, <4>6
    <3> QED BY <3>5, <3>6 DEF FreshOK
  <2>14. CauseOK'
    <3>0. Caused' = Caused BY <1>4 DEF Caused
    <3>1. "forced" \in history' => Caused' BY <1>0, <1>4, <3>0 DEF CauseOK
    <3>2. \A e \in calls' : e.pc = "failed" => Caused' BY <1>0, <2>8, <2>9, <3>0 DEF CauseOK
    <3>3. ASSUME ~Caused', NEW e \in calls'
          PROVE  /\ e.pc = "sent" => session'[e.pair] = "active"
                 /\ \A f \in calls' : f.pair = e.pair => f = e
      <4>1. \A f \in calls : (f.pc = "sent" => session[f.pair] = "active")
                             /\ \A g \in calls : g.pair = f.pair => g = f
        BY <1>0, <3>0, <3>3 DEF CauseOK
      <4>2. e # d => e \in calls /\ e.pair # c.pair /\ e.pair \in Pairs /\ e.pair # n
        BY <2>2, <2>3, <2>4, <2>9, <4>1
      <4>3. e.pc = "sent" => session'[e.pair] = "active" BY <2>6, <2>8, <4>1, <4>2
      <4>4. ASSUME NEW f \in calls', f.pair = e.pair PROVE f = e BY <2>8, <2>9, <4>1, <4>2, <4>4
      <4> QED BY <4>3, <4>4
    <3> QED BY <3>1, <3>2, <3>3 DEF CauseOK
  <2>15. StoredPairAlive'
    <3> SUFFICES ASSUME stored.pair # 0, session'[stored.pair] # "active", "dropped" \notin history,
                        "trouble" \notin history
                 PROVE  \E e \in calls' : e.tab # Gone /\ e.pair = stored.pair
      BY <1>1, <1>4 DEF StoredPairAlive
    <3>1. stored.pair \in Pairs /\ stored.pair # n BY <2>2, <2>3, <2>4
    <3>2. CASE stored.pair = c.pair
      <4>1. c.tab # Gone BY <1>0 DEF AnswersOK
      <4> QED BY <2>8, <2>9, <3>2, <4>1
    <3>3. CASE stored.pair # c.pair
      <4>1. session[stored.pair] # "active" BY <2>6, <3>1, <3>3
      <4>2. PICK e \in calls : e.tab # Gone /\ e.pair = stored.pair BY <1>0, <4>1 DEF StoredPairAlive
      <4> QED BY <2>9, <3>3, <4>2
    <3> QED BY <3>2, <3>3
  <2>16. AccountOK'
    <3> SUFFICES ASSUME "crossed" \notin history' PROVE \E u \in MaybeUser : Account(u)'
      BY DEF AccountOK
    <3>1. PICK u \in MaybeUser : Account(u) BY <1>0, <1>4 DEF AccountOK
    <3>2. stored'.pair # 0 => owner'[stored'.pair] = u /\ stored'.user = u
      BY <1>1, <2>2, <2>3, <2>4, <2>6, <3>1 DEF Account
    <3>3. \A q \in Requests : req'[q].kind = "me" /\ req'[q].pair # 0 => owner'[req'[q].pair] = u
      BY <1>1, <2>2, <2>3, <2>4, <2>6, <3>1 DEF Account
    <3>4. ASSUME NEW e \in calls' PROVE owner'[e.pair] = u /\ (e.pc = "ok" => owner'[e.next] = u)
      <4>1. CASE e = d BY <1>2, <2>5, <2>6, <2>8, <3>1, <4>1 DEF Account
      <4>2. CASE e # d
        BY <1>0, <2>2, <2>3, <2>4, <2>6, <2>9, <3>1, <4>2 DEF Account, AnswersOK
      <4> QED BY <4>1, <4>2
    <3>5. Account(u)' BY <1>1, <3>1, <3>2, <3>3, <3>4 DEF Account, SignedIn
    <3> QED BY <3>5
  <2> QED BY <2>10, <2>11, <2>12, <2>13, <2>14, <2>15, <2>16 DEF IndInv
<1> QED BY <1>3, <1>4 DEF RotateSession

-----------------------------------------------------------------------------
\* A tab presents the stored pair, unless it is presenting one already.
LEMMA PresentStep ==
    ASSUME IndInv, NEW r \in Requests, ReceiveUnauthorized(r), stored.pair # 0 PROVE IndInv'
<1>0. TypeOK /\ IssuedOK /\ AnswersOK /\ FreshOK /\ CauseOK /\ StoredPairAlive /\ AccountOK BY DEF IndInv
<1> DEFINE new == [tab |-> TabOf[r], pair |-> stored.pair, pc |-> "sent", next |-> 0]
           contested == /\ ~Refreshing(TabOf[r])
                        /\ \/ session[stored.pair] = "rotated"
                           \/ \E c \in calls : c.tab # TabOf[r] /\ c.pair = stored.pair
<1>1. /\ req' = [req EXCEPT ![r].pc = "waiting"]
      /\ UNCHANGED <<stored, tab, leaving, session, owner, issued, expired, faults, ops>>
      /\ calls' = IF Refreshing(TabOf[r]) THEN calls ELSE calls \cup {new}
      /\ history' = history \cup Note("contested", contested)
  BY DEF ReceiveUnauthorized, server, bounds
<1>2. stored.pair \in Pairs /\ TabOf[r] \in Tabs /\ 0 \in MaybePair
  BY <1>0, StoredFacts, ReqFacts DEF MaybePair
<1>3. new \in Call /\ new.tab = TabOf[r] /\ new.pair = stored.pair /\ new.pc = "sent" /\ new.next = 0
  BY <1>2 DEF Call
<1>4. history' = history \/ history' = history \cup {"contested"} BY <1>1 DEF Note
<1>5. ~Caused' => ~contested BY <1>1 DEF Caused, Note
<1>6. /\ history' \subseteq History /\ (Caused => Caused')
      /\ "trouble" \in history' <=> "trouble" \in history
      /\ "dropped" \in history' <=> "dropped" \in history
      /\ "crossed" \in history' <=> "crossed" \in history
      /\ "forced" \in history' <=> "forced" \in history
  BY <1>0, <1>4 DEF Caused, TypeOK, History
<1>7. TabOf[r] # Gone BY <1>2, SessionConstants
<1>8. /\ req \in [Requests -> Request] /\ req' \in [Requests -> Request]
      /\ req'[r].pc = "waiting" /\ req'[r].kind = req[r].kind /\ req'[r].pair = req[r].pair
      /\ \A q \in Requests : q # r => req'[q] = req[q]
  BY <1>0, <1>1 DEF TypeOK, Request
<1>9. calls \subseteq calls' /\ calls' \subseteq calls \cup {new} BY <1>1
<1>10. ~contested /\ new \in calls' \ calls =>
         /\ session[stored.pair] # "rotated"
         /\ \A c \in calls : c.pair # stored.pair
  BY <1>1 DEF Refreshing
<1> HIDE DEF new, contested
<1>11. TypeOK'
  <2>1. calls' \subseteq Call BY <1>0, <1>3, <1>9 DEF TypeOK
  <2> QED BY <1>0, <1>1, <1>6, <1>8, <2>1 DEF TypeOK, History
<1>12. IssuedOK'
  <2>1. \A q \in Requests : req'[q].pair <= issued BY <1>0, <1>8 DEF IssuedOK
  <2>2. 0 <= issued BY <1>0, StoredFacts
  <2>3. \A c \in calls' : c.pair <= issued /\ c.next <= issued BY <1>0, <1>3, <1>9, <2>2 DEF IssuedOK
  <2> QED BY <1>0, <1>1, <2>1, <2>3 DEF IssuedOK
<1>13. AnswersOK'
  <2>1. ASSUME NEW q \in Requests
        PROVE  /\ req'[q].kind = "me" /\ req'[q].pc = "ok" => req'[q].pair # 0
               /\ req'[q].kind = "me" /\ req'[q].pc = "failed" => "trouble" \in history'
               /\ LoginAnswered(q)' => req'[q].pair # 0 /\ owner'[req'[q].pair] = req'[q].user
    BY <1>0, <1>1, <1>6, <1>8 DEF AnswersOK, LoginAnswered
  <2>2. \A c \in calls' : (c.pc = "ok" => c.next # 0) /\ (c.tab = Gone => "dropped" \in history')
    BY <1>0, <1>3, <1>6, <1>7, <1>9 DEF AnswersOK
  <2> QED BY <2>1, <2>2 DEF AnswersOK
<1>14. FreshOK'
  <2>1. \A n \in Pairs : Unused(n) => Unused(n)' BY <1>1, <1>3, <1>9 DEF Unused
  <2>2. \A q \in Requests : LoginAnswered(q)' => LoginAnswered(q) /\ req'[q] = req[q]
    BY <1>8 DEF LoginAnswered
  <2>3. \A c \in calls' : c.pc = "ok" => c \in calls BY <1>3, <1>9
  <2> QED BY <2>1, <2>2, <2>3, FreshKept
<1>15. CauseOK'
  <2>1. "forced" \in history' => Caused' BY <1>0, <1>6 DEF CauseOK
  <2>2. \A c \in calls' : c.pc = "failed" => Caused' BY <1>0, <1>3, <1>6, <1>9 DEF CauseOK
  <2>3. ASSUME ~Caused', NEW c \in calls'
        PROVE  /\ c.pc = "sent" => session'[c.pair] = "active"
               /\ \A d \in calls' : d.pair = c.pair => d = c
    <3>1. \A d \in calls : (d.pc = "sent" => session[d.pair] = "active")
                           /\ \A e \in calls : e.pair = d.pair => e = d
      BY <1>0, <1>6, <2>3 DEF CauseOK
    <3>2. new \in calls' \ calls =>
            session[new.pair] = "active" /\ \A d \in calls : d.pair # new.pair
      <4>1. stored.pair \in 1..issued
        BY <1>0, <1>2, StoredFacts, SessionConstants DEF IssuedOK, Pairs
      <4>2. session[stored.pair] \in {"active", "rotated"} BY <1>0, <1>2, <4>1 DEF IssuedOK, TypeOK
      <4> QED BY <1>3, <1>5, <1>10, <2>3, <4>2
    <3> QED BY <1>1, <1>9, <3>1, <3>2
  <2> QED BY <2>1, <2>2, <2>3 DEF CauseOK
<1>16. StoredPairAlive' BY <1>0, <1>1, <1>6, <1>9 DEF StoredPairAlive
<1>17. AccountOK'
  <2> SUFFICES ASSUME "crossed" \notin history' PROVE \E u \in MaybeUser : Account(u)'
    BY DEF AccountOK
  <2>1. PICK u \in MaybeUser : Account(u) BY <1>0, <1>6 DEF AccountOK
  <2>2. \A q \in Requests : req'[q].kind = "me" /\ req'[q].pair # 0 => owner'[req'[q].pair] = u
    BY <1>1, <1>8, <2>1 DEF Account
  <2>3. \A c \in calls' : owner'[c.pair] = u /\ (c.pc = "ok" => owner'[c.next] = u)
    BY <1>1, <1>3, <1>9, <2>1 DEF Account
  <2>4. Account(u)' BY <1>1, <2>1, <2>2, <2>3 DEF Account, SignedIn
  <2> QED BY <2>4
<1> QED BY <1>11, <1>12, <1>13, <1>14, <1>15, <1>16, <1>17 DEF IndInv

LEMMA UnauthorizedStep == ASSUME IndInv, NEW r \in Requests, ReceiveUnauthorized(r) PROVE IndInv'
<1>1. CASE stored.pair # 0 BY <1>1, PresentStep
<1>2. CASE stored.pair = 0
  <2>0. TypeOK /\ CauseOK /\ TabOf[r] \in Tabs BY ReqFacts DEF IndInv
  <2>1. /\ req' = [req EXCEPT ![r] = Idle] /\ ClearAuth(TabOf[r]) /\ calls' = calls
        /\ UNCHANGED <<session, owner, issued, expired, faults, ops>>
    BY <1>2 DEF ReceiveUnauthorized, server, bounds
  <2>2. stored' = Empty /\ tab' = [tab EXCEPT ![TabOf[r]] = Empty] /\ leaving' \subseteq Tabs
    BY <2>0, <2>1 DEF ClearAuth, TypeOK
  <2>3. history' = history BY <1>2, <2>1 DEF ClearAuth, Note
  <2>4. Idle \in Request BY SessionConstants DEF Idle, Request, MaybePair, MaybeUser
  <2>5. req' \in [Requests -> Request] /\ \A q \in Requests : req'[q] = req[q] \/ req'[q] = Idle
    BY <2>0, <2>1, <2>4 DEF TypeOK
  <2>6. Loose BY <2>0, <2>1, <2>2 DEF Loose, TypeOK
  <2>7. "forced" \in history' => Caused BY <2>0, <2>3 DEF CauseOK
  <2> QED BY <2>0, <2>1, <2>2, <2>3, <2>5, <2>6, <2>7, SignedOut
<1> QED BY <1>1, <1>2

\* The refresh was refused or failed: the login ends, for a cause.
LEMMA RefreshFailureStep ==
    ASSUME IndInv, NEW t \in Tabs, NEW c \in calls, ReceiveRefreshFailure(t, c) PROVE IndInv'
<1>0. TypeOK /\ CauseOK BY DEF IndInv
<1>1. /\ calls' = calls \ {c} /\ ClearAuth(t) /\ c.pc = "failed"
      /\ req' = [r \in Requests |-> IF r \in Waiting(t) THEN Idle ELSE req[r]]
      /\ UNCHANGED <<session, owner, issued, expired, faults, ops>>
  BY DEF ReceiveRefreshFailure, server, bounds
<1>2. stored' = Empty /\ tab' = [tab EXCEPT ![t] = Empty] /\ leaving' \subseteq Tabs
  BY <1>0, <1>1 DEF ClearAuth, TypeOK
<1>3. history' = history \/ history' = history \cup {"forced"} BY <1>1 DEF ClearAuth, Note
<1>4. Idle \in Request BY SessionConstants DEF Idle, Request, MaybePair, MaybeUser
<1>5. req' \in [Requests -> Request] /\ \A q \in Requests : req'[q] = req[q] \/ req'[q] = Idle
  BY <1>0, <1>1, <1>4 DEF TypeOK
<1>6. Loose BY <1>0, <1>1, <1>2 DEF Loose, TypeOK
<1>7. Caused BY <1>0, <1>1 DEF CauseOK
<1> QED BY <1>1, <1>2, <1>3, <1>5, <1>6, <1>7, SignedOut

\* The tab stores the pair that replaced the one it presented.
LEMMA RefreshStored ==
    ASSUME IndInv, NEW t \in Tabs, NEW c \in calls, ReceiveRefresh(t, c) PROVE IndInv'
<1>0. TypeOK /\ IssuedOK /\ AnswersOK /\ FreshOK /\ CauseOK /\ StoredPairAlive /\ AccountOK BY DEF IndInv
<1>1. /\ calls' = calls \ {c} /\ c.pc = "ok" /\ c.tab = t
      /\ stored' = [pair |-> c.next, user |-> owner[c.next]]
      /\ req' = [r \in Requests |-> IF r \in Waiting(t)
                                    THEN [req[r] EXCEPT !.pc = "sent", !.pair = c.next] ELSE req[r]]
      /\ UNCHANGED <<tab, leaving, session, owner, issued, expired, faults, ops, history>>
  BY DEF ReceiveRefresh, server, bounds
<1>2. c.next \in Pairs /\ c.next \in MaybePair /\ c.next # 0 /\ c.next <= issued
  BY <1>0, <1>1, CallFacts, StoredFacts DEF AnswersOK, IssuedOK
<1>3. owner[c.next] \in MaybeUser /\ session[c.next] = "active"
  BY <1>0, <1>1, <1>2 DEF TypeOK, FreshOK, Unused
<1>4. stored' \in Keys /\ stored'.pair = c.next /\ stored'.user = owner[c.next]
  BY <1>1, <1>2, <1>3 DEF Keys
<1>5. ASSUME NEW r \in Requests
      PROVE  /\ req'[r] \in Request
             /\ \/ req'[r] = req[r]
                \/ req'[r].kind = req[r].kind /\ req'[r].pc = "sent" /\ req'[r].pair = c.next
  <2>1. req[r] \in Request BY <1>0, ReqFacts
  <2> QED BY <1>1, <1>2, <2>1 DEF Request
<1>6. req' \in [Requests -> Request] BY <1>1, <1>5
<1>7. TypeOK' BY <1>0, <1>1, <1>4, <1>6 DEF TypeOK
<1>8. IssuedOK'
  <2>1. \A r \in Requests : req'[r].pair <= issued BY <1>0, <1>2, <1>5 DEF IssuedOK
  <2> QED BY <1>0, <1>1, <1>2, <1>4, <2>1 DEF IssuedOK
<1>8a. calls' = calls \ {c} /\ owner' = owner /\ history' = history BY <1>1
<1>9. AnswersOK'
  <2>1. ASSUME NEW q \in Requests
        PROVE  /\ req'[q].kind = "me" /\ req'[q].pc = "ok" => req'[q].pair # 0
               /\ req'[q].kind = "me" /\ req'[q].pc = "failed" => "trouble" \in history'
               /\ LoginAnswered(q)' => req'[q].pair # 0 /\ owner'[req'[q].pair] = req'[q].user
    BY <1>0, <1>5, <1>8a DEF AnswersOK, LoginAnswered
  <2>2. \A d \in calls' : (d.pc = "ok" => d.next # 0) /\ (d.tab = Gone => "dropped" \in history')
    BY <1>0, <1>8a DEF AnswersOK
  <2> QED BY <2>1, <2>2 DEF AnswersOK
<1>10. FreshOK'
  <2>0. PICK m : m = c.next OBVIOUS
  <2>1. \A n \in Pairs : n # m /\ Unused(n) => Unused(n)' BY <1>1, <1>4, <2>0 DEF Unused
  <2>2. \A q \in Requests : LoginAnswered(q)' => LoginAnswered(q) /\ req'[q] = req[q] /\ req[q].pair # m
    BY <1>0, <1>1, <1>5, <2>0 DEF LoginAnswered, FreshOK
  <2>3. \A d \in calls' : d.pc = "ok" => d \in calls /\ d.next # m BY <1>0, <1>1, <2>0 DEF FreshOK
  <2> QED BY <2>1, <2>2, <2>3, FreshTaken
<1>11. CauseOK' BY <1>0, <1>1 DEF CauseOK, Caused
<1>12. StoredPairAlive' BY <1>1, <1>3, <1>4 DEF StoredPairAlive
<1>13. AccountOK'
  <2> SUFFICES ASSUME "crossed" \notin history' PROVE \E u \in MaybeUser : Account(u)'
    BY DEF AccountOK
  <2>1. PICK u \in MaybeUser : Account(u) BY <1>0, <1>1 DEF AccountOK
  <2>2. owner[c.next] = u BY <1>1, <2>1 DEF Account
  <2>3. \A q \in Requests : req'[q].kind = "me" /\ req'[q].pair # 0 => owner'[req'[q].pair] = u
    BY <1>5, <1>8a, <2>1, <2>2 DEF Account
  <2>4. Account(u)' BY <1>1, <1>4, <2>1, <2>2, <2>3 DEF Account, SignedIn
  <2> QED BY <2>4
<1> QED BY <1>7, <1>8, <1>9, <1>10, <1>11, <1>12, <1>13 DEF IndInv

\* A login signs its tab in.
LEMMA ReceiveLoginStep == ASSUME IndInv, NEW r \in Requests, ReceiveLogin(r) PROVE IndInv'
<1>0. TypeOK /\ IssuedOK /\ AnswersOK /\ FreshOK /\ CauseOK /\ StoredPairAlive /\ AccountOK BY DEF IndInv
<1>1. UNCHANGED <<leaving, calls, session, owner, issued, expired, faults, ops>> /\ req[r].kind = "login"
  BY DEF ReceiveLogin, server, bounds
<1>2. Loose BY <1>0, <1>1 DEF Loose, TypeOK
<1>3. CASE req' = [req EXCEPT ![r] = Idle] /\ UNCHANGED <<stored, tab, history>>
  BY <1>1, <1>2, <1>3, IsOver DEF Troubled
<1>4. CASE /\ req[r].pc = "ok"
           /\ stored' = [pair |-> req[r].pair, user |-> req[r].user]
           /\ tab' = [tab EXCEPT ![TabOf[r]] = [pair |-> req[r].pair, user |-> req[r].user]]
           /\ req' = [req EXCEPT ![r] =
                         [kind |-> "me", pc |-> "sent", pair |-> req[r].pair, user |-> NoUser]]
           /\ history' = history \cup Note("crossed", Busy(r))
  <2> DEFINE t == TabOf[r]
  <2>0. PICK n, u : n = req[r].pair /\ u = req[r].user OBVIOUS
  <2>1. LoginAnswered(r) /\ t \in Tabs BY <1>0, <1>1, <1>4, ReqFacts DEF LoginAnswered
  <2>2. n \in Pairs /\ n \in MaybePair /\ n # 0 /\ n <= issued /\ u \in MaybeUser
    BY <1>0, <2>0, <2>1, ReqFacts, StoredFacts DEF AnswersOK, IssuedOK
  <2>3. owner[n] = u /\ session[n] = "active" BY <1>0, <2>0, <2>1 DEF AnswersOK, FreshOK, Unused
  <2>4. stored' \in Keys /\ stored'.pair = n /\ stored'.user = u BY <1>4, <2>0, <2>2 DEF Keys
  <2> HIDE DEF t
  <2>5. /\ tab' \in [Tabs -> Keys] /\ tab'[t].pair = n /\ tab'[t].user = u
        /\ \A s \in Tabs : s # t => tab'[s] = tab[s]
    BY <1>0, <1>4, <2>0, <2>1, <2>2 DEF TypeOK, Keys, t
  <2>6. /\ req' \in [Requests -> Request] /\ \A q \in Requests : q # r => req'[q] = req[q]
        /\ req'[r].kind = "me" /\ req'[r].pc = "sent" /\ req'[r].pair = n
    BY <1>0, <1>4, <2>0, <2>2 DEF TypeOK, Request, MaybeUser
  <2>7. /\ history' = history \/ history' = history \cup {"crossed"}
        /\ "crossed" \notin history' => ~Busy(r)
    BY <1>4 DEF Note
  <2>8. /\ history' \subseteq History /\ Caused' = Caused
        /\ "trouble" \in history' <=> "trouble" \in history
        /\ "dropped" \in history' <=> "dropped" \in history
        /\ "forced" \in history' <=> "forced" \in history
    BY <1>0, <2>7 DEF Caused, TypeOK, History
  <2>9. TypeOK' BY <1>0, <1>1, <2>4, <2>5, <2>6, <2>8 DEF TypeOK, History
  <2>10. IssuedOK'
    <3>1. \A q \in Requests : req'[q].pair <= issued BY <1>0, <2>2, <2>6 DEF IssuedOK
    <3> QED BY <1>0, <1>1, <2>2, <2>4, <3>1 DEF IssuedOK
  <2>11. AnswersOK'
    <3>1. ASSUME NEW q \in Requests
          PROVE  /\ req'[q].kind = "me" /\ req'[q].pc = "ok" => req'[q].pair # 0
                 /\ req'[q].kind = "me" /\ req'[q].pc = "failed" => "trouble" \in history'
                 /\ LoginAnswered(q)' => req'[q].pair # 0 /\ owner'[req'[q].pair] = req'[q].user
      <4>1. CASE q = r BY <2>6, <4>1 DEF LoginAnswered
      <4>2. CASE q # r BY <1>0, <1>1, <2>6, <2>8, <4>2 DEF AnswersOK, LoginAnswered
      <4> QED BY <4>1, <4>2
    <3>2. \A c \in calls' : (c.pc = "ok" => c.next # 0) /\ (c.tab = Gone => "dropped" \in history')
      BY <1>0, <1>1, <2>8 DEF AnswersOK
    <3> QED BY <3>1, <3>2 DEF AnswersOK
  <2>12. FreshOK'
    <3>1. \A m \in Pairs : m # n /\ Unused(m) => Unused(m)' BY <1>1, <2>4 DEF Unused
    <3>2. \A q \in Requests : LoginAnswered(q)' => LoginAnswered(q) /\ req'[q] = req[q] /\ req[q].pair # n
      BY <1>0, <2>0, <2>1, <2>6 DEF LoginAnswered, FreshOK
    <3>3. \A c \in calls' : c.pc = "ok" => c \in calls /\ c.next # n BY <1>0, <1>1, <2>0, <2>1 DEF FreshOK
    <3> QED BY <3>1, <3>2, <3>3, FreshTaken
  <2>13. CauseOK' BY <1>0, <1>1, <2>8 DEF CauseOK
  <2>14. StoredPairAlive' BY <1>1, <2>3, <2>4 DEF StoredPairAlive
  <2>15. AccountOK'
    <3> SUFFICES ASSUME "crossed" \notin history' PROVE Account(u)'
      BY <2>2 DEF AccountOK
    <3>1. /\ \A s \in Tabs : s # t => ~SignedIn(s)
          /\ \A q \in Requests : q # r => req[q].kind \notin {"me", "login"}
          /\ calls = {}
      BY <2>7 DEF Busy, t
    <3>2. \A s \in Tabs : SignedIn(s)' => tab'[s].user = u BY <2>5, <3>1 DEF SignedIn
    <3>3. \A q \in Requests : req'[q].kind = "me" /\ req'[q].pair # 0 => owner'[req'[q].pair] = u
      BY <1>1, <2>3, <2>6, <3>1
    <3> QED BY <1>1, <2>3, <2>4, <3>1, <3>2, <3>3 DEF Account
  <2> QED BY <2>9, <2>10, <2>11, <2>12, <2>13, <2>14, <2>15 DEF IndInv
<1> QED BY <1>3, <1>4 DEF ReceiveLogin

\* A page load starts from localStorage; its refreshes lose their reader.
LEMMA ReloadStep == ASSUME IndInv, NEW t \in Tabs, Reload(t) PROVE IndInv'
<1>0. TypeOK /\ IssuedOK /\ AnswersOK /\ FreshOK /\ CauseOK /\ StoredPairAlive /\ AccountOK BY DEF IndInv
<1> DEFINE mine == {c \in calls : c.tab = t}
           first == CHOOSE r \in Requests : TabOf[r] = t
           left == {[c EXCEPT !.tab = Gone] : c \in {d \in mine : d.pc \notin {"ok", "failed"}}}
<1>1. /\ UNCHANGED <<stored, session, owner, issued, expired, faults>>
      /\ tab' = [tab EXCEPT ![t] = stored] /\ leaving' = leaving \ {t}
      /\ calls' = (calls \ mine) \cup left
      /\ history' = history \cup Note("dropped", mine # {})
  BY DEF Reload, server
<1>2. Loose BY <1>0, <1>1, Counters DEF Reload, Loose, TypeOK
<1>3. req' = [r \in Requests |-> CASE TabOf[r] # t -> req[r]
                                   [] r = first /\ stored.pair # 0 -> Outgoing("me")
                                   [] OTHER -> Idle]
  BY DEF Reload
<1>4. /\ Outgoing("me") \in Request /\ Outgoing("me").kind = "me" /\ Outgoing("me").pc = "sent"
      /\ Outgoing("me").pair = stored.pair
      /\ Idle \in Request /\ Idle.kind = "none" /\ Idle.pair = 0
  BY OutgoingFacts, SessionConstants DEF Idle, Request, MaybePair, MaybeUser
<1>5. \A r \in Requests : req'[r] = req[r] \/ req'[r] = Outgoing("me") \/ req'[r] = Idle
  <2>1. ASSUME NEW r \in Requests PROVE req'[r] = req[r] \/ req'[r] = Outgoing("me") \/ req'[r] = Idle
    <3> HIDE DEF first
    <3>1. CASE TabOf[r] # t BY <1>3, <3>1
    <3>2. CASE TabOf[r] = t /\ r = first /\ stored.pair # 0 BY <1>3, <3>2
    <3>3. CASE TabOf[r] = t /\ ~(r = first /\ stored.pair # 0) BY <1>3, <3>3
    <3> QED BY <3>1, <3>2, <3>3
  <2> QED BY <2>1
<1>6. req' \in [Requests -> Request]
  <2>1. \A r \in Requests : req'[r] \in Request BY <1>0, <1>4, <1>5, ReqFacts
  <2> QED BY <1>3, <2>1
<1>7. \A e \in calls' : \E c \in calls :
        /\ e \in Call /\ e.pair = c.pair /\ e.next = c.next /\ e.pc = c.pc
        /\ e = c \/ (e.tab = Gone /\ e.pc \notin {"ok", "failed"} /\ "dropped" \in history')
  <2>1. ASSUME NEW e \in left
        PROVE  \E c \in calls : /\ e \in Call /\ e.pair = c.pair /\ e.next = c.next /\ e.pc = c.pc
                                /\ e.tab = Gone /\ e.pc \notin {"ok", "failed"} /\ "dropped" \in history'
    <3>1. PICK c \in mine : c.pc \notin {"ok", "failed"} /\ e = [c EXCEPT !.tab = Gone] BY <2>1
    <3>2. c \in calls /\ c \in Call BY <1>0, <3>1, CallFacts
    <3>3. /\ e \in Call /\ e.pair = c.pair /\ e.next = c.next /\ e.pc = c.pc /\ e.tab = Gone
      BY <3>1, <3>2 DEF Call
    <3>4. "dropped" \in history' BY <1>1, <3>1 DEF Note
    <3> QED BY <3>1, <3>2, <3>3, <3>4
  <2>2. calls' \subseteq calls \cup left BY <1>1
  <2>3. \A c \in calls : c \in Call BY <1>0, CallFacts
  <2> HIDE DEF left, mine
  <2> QED BY <2>1, <2>2, <2>3
<1>8. \/ calls' = calls /\ history' = history
      \/ history' = history \cup {"dropped"}
  <2>1. CASE mine = {}
    <3>1. left = {} BY <2>1
    <3> HIDE DEF left, mine
    <3> QED BY <1>1, <2>1, <3>1 DEF Note
  <2>2. CASE mine # {} BY <1>1, <2>2 DEF Note
  <2> QED BY <2>1, <2>2
<1>9. /\ history' \subseteq History /\ history \subseteq history' /\ (Caused => Caused')
      /\ "crossed" \in history' <=> "crossed" \in history
      /\ "forced" \in history' <=> "forced" \in history
  BY <1>0, <1>8 DEF Caused, TypeOK, History
<1> HIDE DEF mine, first, left
<1>10. tab' \in [Tabs -> Keys] /\ tab'[t] = stored /\ \A s \in Tabs : s # t => tab'[s] = tab[s]
  BY <1>0, <1>1 DEF TypeOK
<1>11. TypeOK'
  <2>1. calls' \subseteq Call BY <1>7
  <2> QED BY <1>0, <1>1, <1>2, <1>6, <1>9, <1>10, <2>1 DEF TypeOK, Loose, History
<1>12. IssuedOK'
  <2>1. \A r \in Requests : req'[r].pair <= issued
    BY <1>0, <1>4, <1>5, StoredFacts DEF IssuedOK
  <2>2. \A e \in calls' : e.pair <= issued /\ e.next <= issued BY <1>0, <1>7 DEF IssuedOK
  <2> QED BY <1>0, <1>1, <2>1, <2>2 DEF IssuedOK
<1>13. AnswersOK'
  <2>1. ASSUME NEW q \in Requests
        PROVE  /\ req'[q].kind = "me" /\ req'[q].pc = "ok" => req'[q].pair # 0
               /\ req'[q].kind = "me" /\ req'[q].pc = "failed" => "trouble" \in history'
               /\ LoginAnswered(q)' => req'[q].pair # 0 /\ owner'[req'[q].pair] = req'[q].user
    BY <1>0, <1>1, <1>4, <1>5, <1>9 DEF AnswersOK, LoginAnswered
  <2>2. \A c \in calls' : (c.pc = "ok" => c.next # 0) /\ (c.tab = Gone => "dropped" \in history')
    BY <1>0, <1>7, <1>9 DEF AnswersOK
  <2> QED BY <2>1, <2>2 DEF AnswersOK
<1>14. FreshOK'
  <2>1. \A n \in Pairs : Unused(n) => Unused(n)' BY <1>1, <1>7 DEF Unused
  <2>2. \A q \in Requests : LoginAnswered(q)' => LoginAnswered(q) /\ req'[q] = req[q]
    BY <1>4, <1>5 DEF LoginAnswered
  <2>3. \A c \in calls' : c.pc = "ok" => c \in calls BY <1>7
  <2> QED BY <2>1, <2>2, <2>3, FreshKept
<1>15. CauseOK'
  <2>1. "forced" \in history' => Caused' BY <1>0, <1>9 DEF CauseOK
  <2>2. \A e \in calls' : e.pc = "failed" => Caused' BY <1>0, <1>7, <1>9 DEF CauseOK
  <2>3. ~Caused' => calls' = calls /\ ~Caused BY <1>8, <1>9 DEF Caused
  <2> QED BY <1>0, <1>1, <2>1, <2>2, <2>3 DEF CauseOK
<1>16. StoredPairAlive'
  <2>1. "dropped" \notin history' => calls' = calls /\ history' = history BY <1>8
  <2> QED BY <1>0, <1>1, <1>9, <2>1 DEF StoredPairAlive
<1>17. AccountOK'
  <2> SUFFICES ASSUME "crossed" \notin history' PROVE \E u \in MaybeUser : Account(u)'
    BY DEF AccountOK
  <2>1. PICK u \in MaybeUser : Account(u) BY <1>0, <1>9 DEF AccountOK
  <2>2. \A s \in Tabs : SignedIn(s)' => tab'[s].user = u BY <1>10, <2>1 DEF Account, SignedIn
  <2>3. \A q \in Requests : req'[q].kind = "me" /\ req'[q].pair # 0 => owner'[req'[q].pair] = u
    BY <1>1, <1>4, <1>5, <2>1 DEF Account
  <2>4. \A e \in calls' : owner'[e.pair] = u /\ (e.pc = "ok" => owner'[e.next] = u)
    BY <1>1, <1>7, <2>1 DEF Account
  <2>5. Account(u)' BY <1>1, <2>1, <2>2, <2>3, <2>4 DEF Account
  <2> QED BY <2>5
<1> QED BY <1>11, <1>12, <1>13, <1>14, <1>15, <1>16, <1>17 DEF IndInv

-----------------------------------------------------------------------------
LEMMA InitHolds == ASSUME Init PROVE IndInv
<1>0. PICK u \in Users : u = CHOOSE v \in Users : TRUE BY SessionConstants
<1>1. /\ stored = [pair |-> 1, user |-> u] /\ tab = [t \in Tabs |-> stored] /\ leaving = {}
      /\ req = [r \in Requests |-> Idle] /\ calls = {}
      /\ session = [n \in Pairs |-> IF n = 1 THEN "active" ELSE "none"]
      /\ owner = [n \in Pairs |-> IF n = 1 THEN u ELSE NoUser]
      /\ issued = 1 /\ expired = {} /\ faults = 0 /\ ops = 0 /\ history = {}
  BY <1>0 DEF Init
<1>2. 1 \in Pairs /\ 1 \in MaybePair /\ 0 \in MaybePair BY SessionConstants DEF Pairs, MaybePair
<1>3. Idle \in Request /\ Idle.kind = "none" /\ Idle.pair = 0 BY <1>2 DEF Idle, Request, MaybeUser
<1>4. stored \in Keys /\ stored.pair = 1 /\ stored.user = u BY <1>0, <1>1, <1>2 DEF Keys, MaybeUser
<1>5. TypeOK
  <2>1. tab \in [Tabs -> Keys] /\ req \in [Requests -> Request] BY <1>1, <1>3, <1>4
  <2>2. session \in [Pairs -> {"none", "active", "rotated"}] /\ owner \in [Pairs -> MaybeUser]
    BY <1>0, <1>1 DEF MaybeUser
  <2>3. faults \in 0..MaxFaults /\ ops \in 0..MaxOps BY <1>1, SessionConstants
  <2> QED BY <1>1, <1>2, <1>4, <2>1, <2>2, <2>3 DEF TypeOK
<1>6. session[1] = "active" /\ owner[1] = u BY <1>1, <1>2
<1>7. \A r \in Requests : req[r] = Idle BY <1>1
<1>8. IssuedOK
  <2>1. \A n \in 1..issued : n = 1 BY <1>1
  <2> QED BY <1>1, <1>3, <1>4, <1>6, <1>7, <2>1 DEF IssuedOK
<1>9. AnswersOK /\ FreshOK /\ CauseOK
  BY <1>1, <1>3, <1>7 DEF AnswersOK, FreshOK, CauseOK, LoginAnswered
<1>10. StoredPairAlive BY <1>4, <1>6 DEF StoredPairAlive
<1>11. AccountOK
  <2>1. Account(u) BY <1>1, <1>3, <1>4, <1>6, <1>7 DEF Account, SignedIn
  <2> QED BY <1>0, <2>1 DEF AccountOK, MaybeUser
<1> QED BY <1>5, <1>8, <1>9, <1>10, <1>11 DEF IndInv

LEMMA StutterStep == ASSUME IndInv, UNCHANGED vars PROVE IndInv'
<1>1. UNCHANGED <<stored, tab, leaving, req, calls, session, owner, issued, expired, faults, ops, history>>
  BY DEF vars, server, bounds
<1>2. TypeOK' /\ IssuedOK' /\ StoredPairAlive' BY <1>1 DEF IndInv, TypeOK, IssuedOK, StoredPairAlive
<1>3. AnswersOK' /\ CauseOK' BY <1>1 DEF IndInv, AnswersOK, LoginAnswered, CauseOK, Caused
<1>4. FreshOK' BY <1>1 DEF IndInv, FreshOK, Unused, LoginAnswered
<1>5. AccountOK' BY <1>1 DEF IndInv, AccountOK, Account, SignedIn
<1> QED BY <1>2, <1>3, <1>4, <1>5 DEF IndInv

LEMMA InductiveStep == ASSUME IndInv, [Next]_vars PROVE IndInv'
<1>1. ASSUME NEW r \in Requests, NEW u \in Users, SubmitLogin(r, u) PROVE IndInv' BY <1>1, SubmitLoginStep
<1>2. ASSUME NEW r \in Requests, PageRequest(r) \/ RequestFails(r) PROVE IndInv'
  BY <1>2, PageRequestStep, RequestFailsStep
<1>3. ASSUME NEW r \in Requests, RequestStep(r) PROVE IndInv'
  BY <1>3, ServeStep, ServeLoginStep, ReceiveMeStep, ReceiveLoginStep, UnauthorizedStep DEF RequestStep
<1>4. ASSUME NEW t \in Tabs, Logout(t) \/ Reload(t) PROVE IndInv' BY <1>4, LogoutStep, ReloadStep
<1>5. ASSUME NEW c \in calls, RefreshStep(c) PROVE IndInv'
  BY <1>5, SelectStep, RotateStep, RefreshFailsStep, RefreshStored, RefreshFailureStep DEF RefreshStep
<1>6. CASE UNCHANGED vars BY <1>6, StutterStep
<1> QED BY <1>1, <1>2, <1>3, <1>4, <1>5, <1>6 DEF Next

\* localStorage, the tabs, their requests and the server's sessions hold existing
\* accounts and token pairs only, whatever is answered late or not at all.
THEOREM SessionTypeCorrect == Spec => []TypeOK
<1>1. Init => IndInv BY InitHolds
<1>2. IndInv /\ [Next]_vars => IndInv' BY InductiveStep
<1>3. IndInv => TypeOK BY DEF IndInv
<1> QED BY <1>1, <1>2, <1>3, PTL DEF Spec

\* However many tabs refresh on behalf of however many requests, a login ends by
\* itself only after a failed request, a refresh answer that a page load dropped,
\* or a refresh token that two pages presented.
THEOREM LogoutsAreCaused == Spec => []LogoutHasCause
<1>1. Init => IndInv BY InitHolds
<1>2. IndInv /\ [Next]_vars => IndInv' BY InductiveStep
<1>3. IndInv => LogoutHasCause BY DEF IndInv, CauseOK, Caused, LogoutHasCause
<1> QED BY <1>1, <1>2, <1>3, PTL DEF Spec

\* The refresh token in localStorage is one that the server accepts, or an answer
\* that replaces or removes it is under way, unless a request failed or an answer
\* was dropped.
THEOREM StoredPairIsAlive == Spec => []StoredPairAlive
<1>1. Init => IndInv BY InitHolds
<1>2. IndInv /\ [Next]_vars => IndInv' BY InductiveStep
<1>3. IndInv => StoredPairAlive BY DEF IndInv
<1> QED BY <1>1, <1>2, <1>3, PTL DEF Spec

\* A tab shows the user its requests act for, for any number of tabs, accounts and
\* logins, unless a login was answered while another tab was signed in or an older
\* answer that carries an account was outstanding.
THEOREM IdentityIsShared == Spec => []IdentityMatches
<1>1. Init => IndInv BY InitHolds
<1>2. IndInv /\ [Next]_vars => IndInv' BY InductiveStep
<1>3. IndInv => IdentityMatches BY DEF IndInv, AccountOK, Account, IdentityMatches
<1> QED BY <1>1, <1>2, <1>3, PTL DEF Spec

=============================================================================
