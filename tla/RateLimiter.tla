---------------------------- MODULE RateLimiter -----------------------------
(***************************************************************************)
(* The checks Send makes before it stores a notification: for every        *)
(* channel of the request the tenant, feature and channel settings, then   *)
(* two counters in Redis, one per tenant and second and one per tenant,    *)
(* channel and day.                                                        *)
(*                                                                         *)
(* A counter is a key without an expiry until the request that created it  *)
(* (INCR returned 1) has also run EXPIRE.  The two commands are separate,  *)
(* and Redis, the request's context or the process may fail in between.    *)
(*                                                                         *)
(* loadLimits may return any limits the channel's row has had: its cache   *)
(* and concurrent settings changes are a choice from RateOf and QuotaOf.   *)
(* The day of a daily key is read before the INCR and a request may stall  *)
(* in between, over midnight too.                                          *)
(***************************************************************************)
EXTENDS Naturals, FiniteSets

CONSTANTS
  Tenant,       \* tenants
  Channel,      \* channel names
  Request,      \* concurrent requests in Send
  RateOf,       \* limits per second a channel may have, defaults included
  QuotaOf,      \* daily quotas a channel may have, defaults included
  DayLength,    \* seconds in a day (86400)
  MaxDay,       \* bound: the clock stops at the end of this day
  MaxRequests,  \* bound: requests submitted
  MaxFaults,    \* bound: failed Redis commands and crashes
  None          \* no tenant, no channel

RateWindow == 1  \* time.Second

\* Names of counters: tenant, channel or None for the per-second one, and day.
Key == Tenant \X (Channel \cup {None}) \X (0..MaxDay)

ASSUME RateLimiterAssumption ==
  /\ RateOf  \in [Channel -> SUBSET (Nat \ {0})]
  /\ QuotaOf \in [Channel -> SUBSET (Nat \ {0})]
  /\ DayLength \in Nat \ {0}
  /\ MaxDay \in Nat
  /\ MaxRequests \in Nat
  /\ MaxFaults \in Nat
  /\ None \notin Tenant \cup Channel \cup Key

VARIABLES
  counter,   \* value of each key, 0 when Redis has no such key
  ttl,       \* seconds until it expires, 0 when it has no expiry
  second,    \* second of the day
  day,       \* the day
  pc,        \* where each request is
  tenant,    \* its tenant
  todo,      \* its channels still to check
  chan,      \* the channel being checked
  rate,      \* limits loadLimits returned for it
  quota,
  today,     \* the day it read for its daily key
  key,       \* the key AllowKey works on
  granted,   \* history: increments within the limit, per window or per day
  late,      \* history: daily keys used up, expired and made again after their day
  submitted, \* requests so far
  faults     \* faults so far

redis   == <<counter, ttl>>
clock   == <<second, day>>
request == <<pc, tenant, todo, chan, rate, quota, today, key>>
history == <<granted, late>>
vars    == <<redis, clock, request, history, submitted, faults>>

TypeOK ==
  /\ counter   \in [Key -> Nat]
  /\ ttl       \in [Key -> Nat]
  /\ second    \in 0..(DayLength - 1)
  /\ day       \in 0..MaxDay
  /\ pc        \in [Request -> {"idle", "check", "rate", "expire_rate", "day", "daily", "expire_daily"}]
  /\ tenant    \in [Request -> Tenant \cup {None}]
  /\ todo      \in [Request -> SUBSET Channel]
  /\ chan      \in [Request -> Channel \cup {None}]
  /\ rate      \in [Request -> Nat]
  /\ quota     \in [Request -> Nat]
  /\ today     \in [Request -> 0..MaxDay]
  /\ key       \in [Request -> Key \cup {None}]
  /\ granted   \in [Key -> Nat]
  /\ late      \subseteq Key
  /\ submitted \in 0..MaxRequests
  /\ faults    \in 0..MaxFaults

Init ==
  /\ counter   = [k \in Key |-> 0]
  /\ ttl       = [k \in Key |-> 0]
  /\ second    = 0
  /\ day       = 0
  /\ pc        = [r \in Request |-> "idle"]
  /\ tenant    = [r \in Request |-> None]
  /\ todo      = [r \in Request |-> {}]
  /\ chan      = [r \in Request |-> None]
  /\ rate      = [r \in Request |-> 0]
  /\ quota     = [r \in Request |-> 0]
  /\ today     = [r \in Request |-> 0]
  /\ key       = [r \in Request |-> None]
  /\ granted   = [k \in Key |-> 0]
  /\ late      = {}
  /\ submitted = 0
  /\ faults    = 0

RateKey(t)         == <<t, None, 0>>
DailyKey(t, ch, d) == <<t, ch, d>>
IsRateKey(k)       == k[2] = None

\* History: INCR makes a daily key again that had expired after its day.
MadeAgain(k) == {k} \cap {j \in Key : ~IsRateKey(j) /\ counter[j] = 0 /\ granted[j] > 0 /\ j[3] < day}

-----------------------------------------------------------------------------
\* Send is called with a non-empty list of channels.
Submit(r) ==
  /\ pc[r] = "idle"
  /\ submitted < MaxRequests
  /\ submitted' = submitted + 1
  /\ \E t \in Tenant, chs \in SUBSET Channel \ {{}} :
       /\ tenant' = [tenant EXCEPT ![r] = t]
       /\ todo'   = [todo EXCEPT ![r] = chs]
  /\ pc' = [pc EXCEPT ![r] = "check"]
  /\ UNCHANGED <<redis, clock, chan, rate, quota, today, key, history, faults>>

\* Send returns an error, or goes on to store the notification.
Leave(r) ==
  /\ pc'     = [pc     EXCEPT ![r] = "idle"]
  /\ tenant' = [tenant EXCEPT ![r] = None]
  /\ todo'   = [todo   EXCEPT ![r] = {}]
  /\ chan'   = [chan   EXCEPT ![r] = None]
  /\ rate'   = [rate   EXCEPT ![r] = 0]
  /\ quota'  = [quota  EXCEPT ![r] = 0]
  /\ today'  = [today  EXCEPT ![r] = 0]
  /\ key'    = [key    EXCEPT ![r] = None]

\* The next channel: its settings allow it and its limits are loaded.
CheckChannel(r) ==
  /\ pc[r] = "check"
  /\ \E ch \in todo[r] :
       /\ chan' = [chan EXCEPT ![r] = ch]
       /\ todo' = [todo EXCEPT ![r] = @ \ {ch}]
       /\ \E n \in RateOf[ch]  : rate'  = [rate EXCEPT ![r] = n]
       /\ \E n \in QuotaOf[ch] : quota' = [quota EXCEPT ![r] = n]
  /\ pc' = [pc EXCEPT ![r] = "rate"]
  /\ UNCHANGED <<redis, clock, tenant, today, key, history, submitted, faults>>

\* The tenant is not active, or a channel's feature or settings refuse it;
\* with no channel left the request is admitted.
EndChecks(r) ==
  /\ pc[r] = "check"
  /\ Leave(r)
  /\ UNCHANGED <<redis, clock, history, submitted, faults>>

\* AllowKey's INCR: EXPIRE comes next when the key is new, else the verdict.
Incr(r, k, limit, expire, next) ==
  /\ counter' = [counter EXCEPT ![k] = @ + 1]
  /\ granted' = [granted EXCEPT ![k] = IF counter[k] + 1 <= limit THEN @ + 1 ELSE @]
  /\ late'    = late \cup MadeAgain(k)
  /\ \/ /\ counter[k] = 0
        /\ pc'  = [pc EXCEPT ![r] = expire]
        /\ key' = [key EXCEPT ![r] = k]
        /\ UNCHANGED <<tenant, todo, chan, rate, quota, today>>
     \/ /\ counter[k] > 0 /\ counter[k] + 1 <= limit
        /\ pc' = [pc EXCEPT ![r] = next]
        /\ UNCHANGED <<tenant, todo, chan, rate, quota, today, key>>
     \/ /\ counter[k] > 0 /\ counter[k] + 1 > limit
        /\ Leave(r)

\* Mutant: the new key is left without an expiry.
ExpireNever(r, window, next) ==
  /\ pc'  = [pc EXCEPT ![r] = next]
  /\ key' = [key EXCEPT ![r] = None]
  /\ UNCHANGED <<redis, tenant, todo, chan, rate, quota, today>>

\* AllowKey's EXPIRE; the count is 1, so the verdict is yes.
Expire(r, window, next) ==
  /\ ttl' = [ttl EXCEPT ![key[r]] = IF counter[key[r]] > 0 THEN window ELSE @]
  /\ pc'  = [pc EXCEPT ![r] = next]
  /\ key' = [key EXCEPT ![r] = None]
  /\ UNCHANGED <<counter, tenant, todo, chan, rate, quota, today>>

IncrRate(r) ==
  /\ pc[r] = "rate"
  /\ Incr(r, RateKey(tenant[r]), rate[r], "expire_rate", "day")
  /\ UNCHANGED <<ttl, clock, submitted, faults>>

ExpireRate(r) ==
  /\ pc[r] = "expire_rate"
  /\ Expire(r, RateWindow, "day")
  /\ UNCHANGED <<clock, history, submitted, faults>>

\* time.Now() gives the day of the daily key.
ReadDay(r) ==
  /\ pc[r] = "day"
  /\ today' = [today EXCEPT ![r] = day]
  /\ pc' = [pc EXCEPT ![r] = "daily"]
  /\ UNCHANGED <<redis, clock, tenant, todo, chan, rate, quota, key, history, submitted, faults>>

IncrDaily(r) ==
  /\ pc[r] = "daily"
  /\ Incr(r, DailyKey(tenant[r], chan[r], today[r]), quota[r], "expire_daily", "check")
  /\ UNCHANGED <<ttl, clock, submitted, faults>>

\* Mutant: the daily key is given the window of the per-second key.
ExpireDailySoon(r) ==
  /\ pc[r] = "expire_daily"
  /\ Expire(r, RateWindow, "check")
  /\ UNCHANGED <<clock, history, submitted, faults>>

ExpireDaily(r) ==
  /\ pc[r] = "expire_daily"
  /\ Expire(r, DayLength, "check")
  /\ UNCHANGED <<clock, history, submitted, faults>>

-----------------------------------------------------------------------------
Fault == faults < MaxFaults /\ faults' = faults + 1

\* A Redis command fails or the request is cancelled; a failed INCR may have
\* been executed all the same.  AllowKey returns the error and Send refuses.
RedisFails(r) ==
  /\ pc[r] \in {"rate", "expire_rate", "daily", "expire_daily"}
  /\ Fault
  /\ \/ UNCHANGED <<counter, late>>
     \/ /\ pc[r] = "rate"
        /\ counter' = [counter EXCEPT ![RateKey(tenant[r])] = @ + 1]
        /\ UNCHANGED late
     \/ /\ pc[r] = "daily"
        /\ counter' = [counter EXCEPT ![DailyKey(tenant[r], chan[r], today[r])] = @ + 1]
        /\ late' = late \cup MadeAgain(DailyKey(tenant[r], chan[r], today[r]))
  /\ Leave(r)
  /\ UNCHANGED <<ttl, clock, granted, submitted>>

\* The API process dies with all its requests.
Crash ==
  /\ Fault
  /\ pc'     = [r \in Request |-> "idle"]
  /\ tenant' = [r \in Request |-> None]
  /\ todo'   = [r \in Request |-> {}]
  /\ chan'   = [r \in Request |-> None]
  /\ rate'   = [r \in Request |-> 0]
  /\ quota'  = [r \in Request |-> 0]
  /\ today'  = [r \in Request |-> 0]
  /\ key'    = [r \in Request |-> None]
  /\ UNCHANGED <<redis, clock, history, submitted>>

\* One second passes; keys whose expiry is reached disappear.
Tick ==
  /\ \/ second + 1 < DayLength /\ second' = second + 1 /\ UNCHANGED day
     \/ second + 1 = DayLength /\ second' = 0 /\ day < MaxDay /\ day' = day + 1
  /\ counter' = [k \in Key |-> IF ttl[k] = 1 THEN 0 ELSE counter[k]]
  /\ ttl'     = [k \in Key |-> IF ttl[k] > 0 THEN ttl[k] - 1 ELSE 0]
  /\ granted' = [k \in Key |-> IF IsRateKey(k) /\ ttl[k] = 1 THEN 0 ELSE granted[k]]
  /\ UNCHANGED <<late, request, submitted, faults>>

AllowStep(r) == IncrRate(r) \/ ExpireRate(r) \/ ReadDay(r) \/ IncrDaily(r) \/ ExpireDaily(r)

Next ==
  \/ \E r \in Request :
       Submit(r) \/ CheckChannel(r) \/ EndChecks(r) \/ AllowStep(r) \/ RedisFails(r)
  \/ Crash
  \/ Tick

Spec == Init /\ [][Next]_vars

-----------------------------------------------------------------------------
(***************************************************************************)
(* However many requests race, no more of them pass a counter than the     *)
(* largest limit it may have: per window of the per-second key, and per    *)
(* calendar day of a daily key, which expires 24 hours after it was first  *)
(* used and not at midnight.  The day's quota is exceeded in one case: a   *)
(* request read the day, stalled until the key of that day had expired,    *)
(* and its INCR made the key again (late).                                 *)
(***************************************************************************)
LimitRespected ==
  \A k \in Key : granted[k] > 0 =>
    IF IsRateKey(k)
      THEN \E ch \in Channel : \E n \in RateOf[ch] : granted[k] <= n
      ELSE k \in late \/ \E n \in QuotaOf[k[2]] : granted[k] <= n

(***************************************************************************)
(* A counter has an expiry, or the one request that created it is about to *)
(* set it, or a fault has happened.                                        *)
(***************************************************************************)
CountersExpire ==
  \A k \in Key : counter[k] > 0 /\ ttl[k] = 0 =>
    \/ faults > 0
    \/ \E r \in Request :
         /\ pc[r] \in {"expire_rate", "expire_daily"} /\ key[r] = k
         /\ \A q \in Request : key[q] = k => q = r

(***************************************************************************)
(* docs/security-review.md:86, "Redis-based fixed window rate limiter":    *)
(* a window has an end.  A counter that no request is working on expires.  *)
(***************************************************************************)
FixedWindow ==
  \A k \in Key : counter[k] > 0 /\ ttl[k] = 0 =>
    \E r \in Request : key[r] = k
=============================================================================
