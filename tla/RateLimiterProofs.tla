------------------------- MODULE RateLimiterProofs --------------------------
(***************************************************************************)
(* LimitRespected and CountersExpire for every number of tenants,          *)
(* channels, concurrent requests, limits and faults.                       *)
(***************************************************************************)
EXTENDS RateLimiter, TLAPS

Pending  == {"expire_rate", "expire_daily"}
Checking == {"rate", "day", "daily"} \cup Pending

\* What a request knows while it checks a channel.
RequestsOK ==
  \A r \in Request :
    /\ pc[r] # "idle" => tenant[r] \in Tenant
    /\ pc[r] \in Checking =>
         /\ chan[r] \in Channel
         /\ rate[r] \in RateOf[chan[r]]
         /\ quota[r] \in QuotaOf[chan[r]]
    /\ pc[r] \in Pending => key[r] \in Key
    /\ pc[r] = "expire_rate" => IsRateKey(key[r])
    /\ pc[r] = "daily" => today[r] <= day
    /\ pc[r] \notin Pending => key[r] = None

\* A key waiting for its EXPIRE exists, has no expiry and has one creator.
PendingOK ==
  \A r \in Request : pc[r] \in Pending =>
    /\ counter[key[r]] > 0 /\ ttl[key[r]] = 0
    /\ \A q \in Request : key[q] = key[r] => q = r

\* A daily key outlives its day: its count covers all the day's grants, until it
\* has expired after the day and, if it was made again, is late.
CountersOK ==
  \A k \in Key :
    /\ counter[k] = 0 => ttl[k] = 0
    /\ IsRateKey(k) => granted[k] <= counter[k]
    /\ ~IsRateKey(k) /\ k \notin late =>
         granted[k] <= counter[k] \/ (counter[k] = 0 /\ k[3] < day)
    /\ ~IsRateKey(k) /\ k[3] = day /\ ttl[k] > 0 => ttl[k] + second >= DayLength
    /\ ~IsRateKey(k) /\ k[3] > day => counter[k] = 0 /\ granted[k] = 0

IndInv ==
  TypeOK /\ RequestsOK /\ PendingOK /\ CountersOK /\ LimitRespected /\ CountersExpire

USE RateLimiterAssumption

\* The two kinds of keys are keys, and are told apart.
LEMMA KeyFacts ==
  /\ \A t \in Tenant : RateKey(t) \in Key /\ IsRateKey(RateKey(t))
  /\ \A t \in Tenant, ch \in Channel, d \in 0..MaxDay :
       /\ DailyKey(t, ch, d) \in Key /\ ~IsRateKey(DailyKey(t, ch, d))
       /\ DailyKey(t, ch, d)[2] = ch /\ DailyKey(t, ch, d)[3] = d
  /\ \A k \in Key : k[2] \in Channel \cup {None} /\ k[3] \in 0..MaxDay
  BY DEF Key, RateKey, DailyKey, IsRateKey

\* The invariant holds initially.
LEMMA InitInv == Init => IndInv
<1> SUFFICES ASSUME Init PROVE IndInv
  OBVIOUS
<1>1. TypeOK
  BY DEF Init, TypeOK
<1>2. RequestsOK /\ PendingOK
  BY DEF Init, RequestsOK, PendingOK, Pending, Checking
<1>3. CountersOK /\ LimitRespected /\ CountersExpire
  BY DEF Init, CountersOK, LimitRespected, CountersExpire
<1> QED
  BY <1>1, <1>2, <1>3 DEF IndInv

\* A request that works on no new key may leave.
LEMMA LeaveStep ==
  ASSUME NEW r \in Request, IndInv, Leave(r),
         pc[r] \notin Pending \/ faults' > 0,
         UNCHANGED <<ttl, clock, granted>>,
         counter' \in [Key -> Nat],
         \A k \in Key : counter'[k] >= counter[k],
         \A k \in Key : counter'[k] # counter[k] =>
           /\ faults' > 0 \/ counter[k] > 0
           /\ IsRateKey(k) \/ k[3] <= day
           /\ MadeAgain(k) \subseteq late',
         late \subseteq late',
         faults' >= faults, faults' \in Nat
  PROVE  RequestsOK' /\ PendingOK' /\ CountersOK' /\ LimitRespected' /\ CountersExpire'
<1> USE DEF IndInv
<1>0. UNCHANGED <<second, day>>
  BY DEF clock
<1>1. RequestsOK'
  BY <1>0 DEF RequestsOK, Leave, TypeOK, Pending, Checking, IsRateKey
<1>2. /\ \A q \in Request : q # r => pc'[q] = pc[q] /\ key'[q] = key[q]
      /\ pc'[r] = "idle" /\ key'[r] = None
  BY DEF Leave, TypeOK
<1>3. PendingOK'
  <2> SUFFICES ASSUME NEW q \in Request, pc'[q] \in Pending
               PROVE  /\ counter'[key'[q]] > 0 /\ ttl'[key'[q]] = 0
                      /\ \A p \in Request : key'[p] = key'[q] => p = q
    BY DEF PendingOK
  <2>1. q # r
    BY <1>2 DEF Pending
  <2>2. pc[q] \in Pending /\ key'[q] = key[q] /\ key[q] \in Key /\ key[q] # None
    BY <1>2, <2>1 DEF RequestsOK
  <2>3. counter[key[q]] > 0 /\ ttl[key[q]] = 0
    BY <2>2 DEF PendingOK
  <2>4. counter'[key[q]] > 0
    BY <2>2, <2>3 DEF TypeOK
  <2>5. \A p \in Request : key'[p] = key'[q] => p = q
    BY <1>2, <2>2 DEF PendingOK
  <2> QED
    BY <2>2, <2>3, <2>4, <2>5
<1>4. CountersOK'
  <2> SUFFICES ASSUME NEW k \in Key
               PROVE  /\ counter'[k] = 0 => ttl'[k] = 0
                      /\ IsRateKey(k) => granted'[k] <= counter'[k]
                      /\ ~IsRateKey(k) /\ k \notin late' =>
                           granted'[k] <= counter'[k] \/ (counter'[k] = 0 /\ k[3] < day')
                      /\ ~IsRateKey(k) /\ k[3] = day' /\ ttl'[k] > 0 =>
                           ttl'[k] + second' >= DayLength
                      /\ ~IsRateKey(k) /\ k[3] > day' => counter'[k] = 0 /\ granted'[k] = 0
    BY DEF CountersOK, IsRateKey
  <2>1. k[3] \in 0..MaxDay /\ counter[k] \in Nat /\ granted[k] \in Nat /\ day \in 0..MaxDay
    BY KeyFacts DEF TypeOK
  <2>2. CASE counter'[k] = counter[k]
    BY <1>0, <2>1, <2>2 DEF CountersOK
  <2>3. CASE counter'[k] # counter[k]
    <3>1. counter'[k] > counter[k] /\ counter'[k] \in Nat
      BY <2>1, <2>3
    <3>2. ~IsRateKey(k) /\ counter[k] = 0 /\ granted[k] > 0 /\ k[3] < day => k \in late'
      BY <2>3 DEF MadeAgain
    <3> QED
      BY <1>0, <2>1, <2>3, <3>1, <3>2 DEF CountersOK
  <2> QED
    BY <2>2, <2>3
<1>5. LimitRespected'
  BY DEF LimitRespected, IsRateKey
<1>6. CountersExpire'
  <2> SUFFICES ASSUME NEW k \in Key, counter'[k] > 0, ttl'[k] = 0, ~(faults' > 0)
               PROVE  \E q \in Request :
                        /\ pc'[q] \in Pending /\ key'[q] = k
                        /\ \A p \in Request : key'[p] = k => p = q
    BY DEF CountersExpire, Pending
  <2>1. counter[k] > 0 /\ ttl[k] = 0 /\ ~(faults > 0)
    BY DEF TypeOK
  <2>2. PICK q \in Request : /\ pc[q] \in Pending /\ key[q] = k
                             /\ \A p \in Request : key[p] = k => p = q
    BY <2>1 DEF CountersExpire, Pending
  <2>3. q # r
    BY <2>2
  <2> QED
    BY <1>2, <2>2, <2>3
<1> QED
  BY <1>1, <1>3, <1>4, <1>5, <1>6

\* AllowKey's INCR within a limit the key may have.
LEMMA IncrStep ==
  ASSUME NEW r \in Request, NEW k \in Key, NEW limit \in Nat \ {0},
         NEW expire \in Pending, NEW next,
         IndInv, Incr(r, k, limit, expire, next),
         pc[r] \in {"rate", "daily"}, next \in {"day", "check"},
         next = "check" \/ pc[r] = "rate",
         expire = "expire_rate" => IsRateKey(k),
         IsRateKey(k) \/ k[3] <= day,
         IF IsRateKey(k) THEN limit \in RateOf[chan[r]] ELSE limit \in QuotaOf[k[2]],
         UNCHANGED <<ttl, clock, faults>>
  PROVE  RequestsOK' /\ PendingOK' /\ CountersOK' /\ LimitRespected' /\ CountersExpire'
<1> USE DEF IndInv
<1>0. UNCHANGED <<second, day>>
  BY DEF clock
<1>1. /\ counter'[k] = counter[k] + 1
      /\ granted'[k] = IF counter[k] + 1 <= limit THEN granted[k] + 1 ELSE granted[k]
      /\ \A j \in Key : j # k => counter'[j] = counter[j] /\ granted'[j] = granted[j]
      /\ counter' \in [Key -> Nat] /\ granted' \in [Key -> Nat]
      /\ late \subseteq late'
      /\ ~IsRateKey(k) /\ counter[k] = 0 /\ granted[k] > 0 /\ k[3] < day => k \in late'
  BY DEF Incr, TypeOK, MadeAgain
<1>2. chan[r] \in Channel /\ tenant[r] \in Tenant /\ key[r] = None
  BY DEF RequestsOK, Pending, Checking
<1>3. CountersOK'
  <2> SUFFICES ASSUME NEW j \in Key
               PROVE  /\ counter'[j] = 0 => ttl'[j] = 0
                      /\ IsRateKey(j) => granted'[j] <= counter'[j]
                      /\ ~IsRateKey(j) /\ j \notin late' =>
                           granted'[j] <= counter'[j] \/ (counter'[j] = 0 /\ j[3] < day')
                      /\ ~IsRateKey(j) /\ j[3] = day' /\ ttl'[j] > 0 =>
                           ttl'[j] + second' >= DayLength
                      /\ ~IsRateKey(j) /\ j[3] > day' => counter'[j] = 0 /\ granted'[j] = 0
    BY DEF CountersOK, IsRateKey
  <2>1. j[3] \in 0..MaxDay /\ counter[j] \in Nat /\ granted[j] \in Nat /\ day \in 0..MaxDay
    BY KeyFacts DEF TypeOK
  <2>2. CASE j # k
    BY <1>0, <1>1, <2>1, <2>2 DEF CountersOK
  <2>3. CASE j = k
    BY <1>0, <1>1, <2>1, <2>3 DEF CountersOK
  <2> QED
    BY <2>2, <2>3
<1>4. LimitRespected'
  <2> SUFFICES ASSUME NEW j \in Key, granted'[j] > 0
               PROVE  IF IsRateKey(j)
                        THEN \E ch \in Channel : \E n \in RateOf[ch] : granted'[j] <= n
                        ELSE \/ j \in late'
                             \/ \E n \in QuotaOf[j[2]] : granted'[j] <= n
    BY DEF LimitRespected, IsRateKey
  <2>1. CASE granted'[j] = granted[j]
    BY <1>1, <2>1 DEF LimitRespected
  <2>2. CASE granted'[j] # granted[j]
    <3>1. j = k /\ granted'[k] = granted[k] + 1 /\ counter[k] + 1 <= limit
      BY <1>1, <2>2
    <3>2. counter[k] \in Nat /\ granted[k] \in Nat
      BY DEF TypeOK
    <3>3. granted[k] <= counter[k] \/ (~IsRateKey(k) /\ k \in late')
      BY <1>1, <3>2 DEF CountersOK
    <3>4. granted'[k] <= limit \/ (~IsRateKey(k) /\ k \in late')
      BY <3>1, <3>2, <3>3
    <3> QED
      BY <1>2, <3>1, <3>4
  <2> QED
    BY <2>1, <2>2
<1>5. /\ \A q \in Request : q # r => pc'[q] = pc[q] /\ key'[q] = key[q]
      /\ \/ counter[k] = 0 /\ pc'[r] = expire /\ key'[r] = k
         \/ counter[k] > 0 /\ pc'[r] \notin Pending /\ key'[r] = None
  BY <1>2 DEF Incr, Leave, TypeOK, Pending
<1>6. RequestsOK'
  <2>1. CASE Leave(r)
    BY <1>0, <2>1 DEF RequestsOK, Leave, TypeOK, Pending, Checking, IsRateKey
  <2>2. CASE UNCHANGED <<tenant, todo, chan, rate, quota, today>>
    <3>1. pc'[r] \in {expire, "day", "check", "idle"}
      BY DEF Incr, Leave, TypeOK
    <3>2. pc'[r] # "daily" /\ pc[r] \in Checking /\ pc[r] # "idle"
      BY <3>1 DEF Pending, Checking
    <3>3. ASSUME NEW q \in Request, q # r
          PROVE  /\ pc'[q] # "idle" => tenant'[q] \in Tenant
                 /\ pc'[q] \in Checking => /\ chan'[q] \in Channel
                                          /\ rate'[q] \in RateOf[chan'[q]]
                                          /\ quota'[q] \in QuotaOf[chan'[q]]
                 /\ pc'[q] \in Pending => key'[q] \in Key
                 /\ pc'[q] = "expire_rate" => IsRateKey(key'[q])
                 /\ pc'[q] = "daily" => today'[q] <= day'
                 /\ pc'[q] \notin Pending => key'[q] = None
      BY <1>0, <1>5, <2>2, <3>3 DEF RequestsOK, IsRateKey
    <3>4. /\ tenant'[r] \in Tenant /\ chan'[r] \in Channel
          /\ rate'[r] \in RateOf[chan'[r]] /\ quota'[r] \in QuotaOf[chan'[r]]
      BY <2>2, <3>2 DEF RequestsOK
    <3>5. /\ pc'[r] \in Pending => key'[r] \in Key
          /\ pc'[r] = "expire_rate" => IsRateKey(key'[r])
          /\ pc'[r] \notin Pending => key'[r] = None
      BY <1>5 DEF Pending, IsRateKey
    <3> QED
      BY <3>2, <3>3, <3>4, <3>5 DEF RequestsOK, IsRateKey
  <2> QED
    BY <2>1, <2>2 DEF Incr
<1>7. \A q \in Request : pc[q] \in Pending =>
        /\ q # r /\ key[q] \in Key /\ key[q] # None
        /\ counter[key[q]] > 0 /\ ttl[key[q]] = 0
        /\ counter'[key[q]] > 0 /\ ttl'[key[q]] = 0
  <2> SUFFICES ASSUME NEW q \in Request, pc[q] \in Pending
               PROVE  /\ q # r /\ key[q] \in Key /\ key[q] # None
                      /\ counter[key[q]] > 0 /\ ttl[key[q]] = 0
                      /\ counter'[key[q]] > 0 /\ ttl'[key[q]] = 0
    OBVIOUS
  <2>1. q # r /\ key[q] \in Key /\ key[q] # None
    BY DEF RequestsOK, Pending
  <2>2. counter[key[q]] > 0 /\ ttl[key[q]] = 0
    BY DEF PendingOK
  <2>3. counter'[key[q]] > 0
    BY <1>1, <2>1, <2>2 DEF TypeOK
  <2> QED
    BY <2>1, <2>2, <2>3
<1>8. \A q \in Request : pc[q] \notin Pending => key[q] = None
  BY DEF RequestsOK
<1>9. PendingOK'
  <2> SUFFICES ASSUME NEW q \in Request, pc'[q] \in Pending
               PROVE  /\ counter'[key'[q]] > 0 /\ ttl'[key'[q]] = 0
                      /\ \A p \in Request : key'[p] = key'[q] => p = q
    BY DEF PendingOK
  <2>1. CASE q = r
    <3>1. counter[k] = 0 /\ key'[r] = k
      BY <1>5, <2>1
    <3>2. ttl[k] = 0 /\ counter'[k] > 0
      BY <1>1, <3>1 DEF CountersOK
    <3>3. \A p \in Request : p # r => key'[p] # k
      BY <1>5, <1>7, <1>8, <3>1
    <3> QED
      BY <2>1, <3>1, <3>2, <3>3
  <2>2. CASE q # r
    <3>1. pc[q] \in Pending /\ key'[q] = key[q]
      BY <1>5, <2>2
    <3>2. key'[r] # key[q]
      BY <1>5, <1>7, <3>1
    <3>3. \A p \in Request : key'[p] = key'[q] => p = q
      BY <1>5, <3>1, <3>2 DEF PendingOK
    <3> QED
      BY <1>7, <3>1, <3>3
  <2> QED
    BY <2>1, <2>2
<1>10. CountersExpire'
  <2> SUFFICES ASSUME NEW j \in Key, counter'[j] > 0, ttl'[j] = 0, ~(faults' > 0)
               PROVE  \E q \in Request :
                        /\ pc'[q] \in Pending /\ key'[q] = j
                        /\ \A p \in Request : key'[p] = j => p = q
    BY DEF CountersExpire, Pending
  <2>1. CASE counter[j] > 0
    <3>1. PICK q \in Request : pc[q] \in Pending /\ key[q] = j
      BY <2>1 DEF CountersExpire, Pending
    <3>2. pc'[q] \in Pending /\ key'[q] = j
      BY <1>5, <1>7, <3>1
    <3> QED
      BY <1>9, <3>2 DEF PendingOK
  <2>2. CASE ~(counter[j] > 0)
    <3>1. j = k /\ counter[k] = 0
      BY <1>1, <2>2 DEF TypeOK
    <3>2. pc'[r] \in Pending /\ key'[r] = j
      BY <1>5, <3>1
    <3> QED
      BY <1>9, <3>2 DEF PendingOK
  <2> QED
    BY <2>1, <2>2
<1> QED
  BY <1>3, <1>4, <1>6, <1>9, <1>10

\* AllowKey's EXPIRE, with the window that fits the key.
LEMMA ExpireStep ==
  ASSUME NEW r \in Request, NEW window \in Nat \ {0}, NEW next \in {"day", "check"},
         IndInv, Expire(r, window, next), pc[r] \in Pending,
         pc[r] = "expire_rate" \/ window = DayLength,
         UNCHANGED <<clock, history, faults>>
  PROVE  RequestsOK' /\ PendingOK' /\ CountersOK' /\ LimitRespected' /\ CountersExpire'
<1> USE DEF IndInv
<1>0. UNCHANGED <<second, day, counter, granted, late, faults>>
  BY DEF clock, history, Expire
<1>1. PICK k \in Key : key[r] = k
  BY DEF RequestsOK
<1>2. counter[k] > 0 /\ ttl[k] = 0 /\ \A q \in Request : key[q] = k => q = r
  BY <1>1 DEF PendingOK
<1>3. /\ ttl'[k] = window
      /\ \A j \in Key : j # k => ttl'[j] = ttl[j]
      /\ pc'[r] = next /\ key'[r] = None
      /\ \A q \in Request : q # r => pc'[q] = pc[q] /\ key'[q] = key[q]
  BY <1>1, <1>2 DEF Expire, TypeOK
<1>4. RequestsOK'
  BY <1>0, <1>1 DEF RequestsOK, Expire, TypeOK, Pending, Checking, IsRateKey
<1>5. PendingOK'
  <2> SUFFICES ASSUME NEW q \in Request, pc'[q] \in Pending
               PROVE  /\ counter'[key'[q]] > 0 /\ ttl'[key'[q]] = 0
                      /\ \A p \in Request : key'[p] = key'[q] => p = q
    BY DEF PendingOK
  <2>1. q # r
    BY <1>3 DEF Pending
  <2>2. pc[q] \in Pending /\ key'[q] = key[q]
    BY <1>3, <2>1
  <2>3. key[q] \in Key /\ key[q] # None /\ key[q] # k
    BY <1>2, <2>1, <2>2 DEF RequestsOK
  <2>4. counter[key[q]] > 0 /\ ttl[key[q]] = 0
    BY <2>2 DEF PendingOK
  <2>5. \A p \in Request : key'[p] = key'[q] => p = q
    BY <1>3, <2>2, <2>3 DEF PendingOK
  <2> QED
    BY <1>0, <1>3, <2>2, <2>3, <2>4, <2>5
<1>6. IsRateKey(k) \/ window = DayLength
  BY <1>1 DEF RequestsOK
<1>7. CountersOK'
  BY <1>0, <1>2, <1>3, <1>6 DEF CountersOK, TypeOK, IsRateKey
<1>8. LimitRespected'
  BY <1>0 DEF LimitRespected, IsRateKey
<1>9. CountersExpire'
  <2> SUFFICES ASSUME NEW j \in Key, counter'[j] > 0, ttl'[j] = 0, ~(faults' > 0)
               PROVE  \E q \in Request :
                        /\ pc'[q] \in Pending /\ key'[q] = j
                        /\ \A p \in Request : key'[p] = j => p = q
    BY DEF CountersExpire, Pending
  <2>1. j # k /\ counter[j] > 0 /\ ttl[j] = 0
    BY <1>0, <1>3
  <2>2. PICK q \in Request : pc[q] \in Pending /\ key[q] = j
    BY <1>0, <2>1 DEF CountersExpire, Pending
  <2>3. q # r
    BY <1>1, <2>1, <2>2
  <2>4. pc'[q] \in Pending /\ key'[q] = j
    BY <1>3, <2>2, <2>3
  <2> QED
    BY <1>5, <2>4 DEF PendingOK
<1> QED
  BY <1>4, <1>5, <1>7, <1>8, <1>9

\* One second passes.
LEMMA TickStep ==
  ASSUME IndInv, Tick
  PROVE  RequestsOK' /\ PendingOK' /\ CountersOK' /\ LimitRespected' /\ CountersExpire'
<1> USE DEF IndInv
<1>0. UNCHANGED <<pc, tenant, todo, chan, rate, quota, today, key, late, faults>>
  BY DEF Tick, request
<1>1. \A k \in Key :
        /\ counter'[k] = IF ttl[k] = 1 THEN 0 ELSE counter[k]
        /\ ttl'[k] = IF ttl[k] > 0 THEN ttl[k] - 1 ELSE 0
        /\ granted'[k] = IF IsRateKey(k) /\ ttl[k] = 1 THEN 0 ELSE granted[k]
  BY DEF Tick
<1>2. RequestsOK'
  <2>1. day' >= day /\ day \in Nat /\ day' \in Nat /\ \A q \in Request : today[q] \in Nat
    BY DEF Tick, TypeOK
  <2> QED
    BY <1>0, <2>1 DEF RequestsOK, IsRateKey
<1>3. PendingOK'
  <2> SUFFICES ASSUME NEW q \in Request, pc[q] \in Pending
               PROVE  /\ counter'[key[q]] > 0 /\ ttl'[key[q]] = 0
                      /\ \A p \in Request : key[p] = key[q] => p = q
    BY <1>0 DEF PendingOK
  <2>1. key[q] \in Key /\ counter[key[q]] > 0 /\ ttl[key[q]] = 0
    BY DEF PendingOK, RequestsOK
  <2> QED
    BY <1>1, <2>1 DEF PendingOK
<1>4. CountersOK'
  <2> SUFFICES ASSUME NEW k \in Key
               PROVE  /\ counter'[k] = 0 => ttl'[k] = 0
                      /\ IsRateKey(k) => granted'[k] <= counter'[k]
                      /\ ~IsRateKey(k) /\ k \notin late =>
                           granted'[k] <= counter'[k] \/ (counter'[k] = 0 /\ k[3] < day')
                      /\ ~IsRateKey(k) /\ k[3] = day' /\ ttl'[k] > 0 =>
                           ttl'[k] + second' >= DayLength
                      /\ ~IsRateKey(k) /\ k[3] > day' => counter'[k] = 0 /\ granted'[k] = 0
    BY <1>0 DEF CountersOK, IsRateKey
  <2>1. k[3] \in 0..MaxDay
    BY KeyFacts
  <2>2. counter[k] \in Nat /\ ttl[k] \in Nat /\ granted[k] \in Nat
    BY DEF TypeOK
  <2>3. CASE second + 1 < DayLength /\ second' = second + 1 /\ day' = day
    <3>1. ~IsRateKey(k) /\ k[3] = day => ttl[k] # 1
      BY <2>1, <2>2, <2>3 DEF CountersOK, TypeOK
    <3>2. second \in Nat /\ day \in Nat
      BY DEF TypeOK
    <3>3. counter'[k] = 0 => ttl'[k] = 0
      BY <1>1, <2>2 DEF CountersOK
    <3>4. IsRateKey(k) => granted'[k] <= counter'[k]
      BY <1>1, <2>2 DEF CountersOK
    <3>5. ~IsRateKey(k) /\ k \notin late =>
            granted'[k] <= counter'[k] \/ (counter'[k] = 0 /\ k[3] < day')
      BY <1>1, <2>1, <2>2, <2>3, <3>1, <3>2 DEF CountersOK
    <3>6. ~IsRateKey(k) /\ k[3] = day' /\ ttl'[k] > 0 => ttl'[k] + second' >= DayLength
      BY <1>1, <2>1, <2>2, <2>3, <3>2 DEF CountersOK
    <3>7. ~IsRateKey(k) /\ k[3] > day' => counter'[k] = 0 /\ granted'[k] = 0
      BY <1>1, <2>1, <2>2, <2>3, <3>2 DEF CountersOK
    <3> QED
      BY <3>3, <3>4, <3>5, <3>6, <3>7
  <2>4. CASE second + 1 = DayLength /\ second' = 0 /\ day' = day + 1
    BY <1>1, <2>1, <2>2, <2>4 DEF CountersOK, TypeOK
  <2> QED
    BY <2>3, <2>4 DEF Tick
<1>5. LimitRespected'
  BY <1>0, <1>1 DEF LimitRespected, IsRateKey
<1>6. CountersExpire'
  <2> SUFFICES ASSUME NEW k \in Key, counter'[k] > 0, ttl'[k] = 0, ~(faults > 0)
               PROVE  \E q \in Request :
                        /\ pc[q] \in Pending /\ key[q] = k
                        /\ \A p \in Request : key[p] = k => p = q
    BY <1>0 DEF CountersExpire, Pending
  <2>1. counter[k] > 0 /\ ttl[k] = 0
    BY <1>1 DEF TypeOK
  <2> QED
    BY <2>1 DEF CountersExpire, Pending
<1> QED
  BY <1>2, <1>3, <1>4, <1>5, <1>6

\* The types of a request.
RequestTypes ==
  /\ pc     \in [Request -> {"idle", "check", "rate", "expire_rate", "day", "daily", "expire_daily"}]
  /\ tenant \in [Request -> Tenant \cup {None}]
  /\ todo   \in [Request -> SUBSET Channel]
  /\ chan   \in [Request -> Channel \cup {None}]
  /\ rate   \in [Request -> Nat]
  /\ quota  \in [Request -> Nat]
  /\ today  \in [Request -> 0..MaxDay]
  /\ key    \in [Request -> Key \cup {None}]

\* INCR keeps them.
LEMMA IncrType ==
  ASSUME NEW r \in Request, NEW k \in Key, NEW limit,
         NEW expire \in {"expire_rate", "expire_daily"}, NEW next \in {"day", "check"},
         RequestTypes, Incr(r, k, limit, expire, next)
  PROVE  RequestTypes'
<1>1. CASE Leave(r)
  BY <1>1 DEF Leave, RequestTypes
<1>2. CASE /\ pc'  = [pc EXCEPT ![r] = expire]
           /\ key' = [key EXCEPT ![r] = k]
           /\ UNCHANGED <<tenant, todo, chan, rate, quota, today>>
  BY <1>2 DEF RequestTypes
<1>3. CASE /\ pc' = [pc EXCEPT ![r] = next]
           /\ UNCHANGED <<tenant, todo, chan, rate, quota, today, key>>
  BY <1>3 DEF RequestTypes
<1> QED
  BY <1>1, <1>2, <1>3 DEF Incr

\* Every step keeps the types.
LEMMA TypeStep == IndInv /\ [Next]_vars => TypeOK'
<1> SUFFICES ASSUME IndInv, [Next]_vars PROVE TypeOK'
  OBVIOUS
<1> USE DEF IndInv
<1>1. ASSUME NEW r \in Request, Submit(r) PROVE TypeOK'
  BY <1>1 DEF Submit, TypeOK, redis, clock, history
<1>2. ASSUME NEW r \in Request, CheckChannel(r) PROVE TypeOK'
  BY <1>2 DEF CheckChannel, TypeOK, redis, clock, history
<1>3. ASSUME NEW r \in Request, EndChecks(r) PROVE TypeOK'
  BY <1>3 DEF EndChecks, Leave, TypeOK, redis, clock, history
<1>4. ASSUME NEW r \in Request, IncrRate(r) PROVE TypeOK'
  <2>1. tenant[r] \in Tenant /\ chan[r] \in Channel
    BY <1>4 DEF IncrRate, RequestsOK, Checking
  <2>2. PICK k \in Key : k = RateKey(tenant[r])
    BY <2>1, KeyFacts
  <2>4. Incr(r, k, rate[r], "expire_rate", "day")
    BY <1>4, <2>2 DEF IncrRate
  <2>5. counter' \in [Key -> Nat] /\ granted' \in [Key -> Nat] /\ late' \subseteq Key
    BY <2>4 DEF Incr, TypeOK, MadeAgain
  <2>6. RequestTypes'
    <3>1. RequestTypes
      BY DEF TypeOK, RequestTypes
    <3> QED
      BY <2>4, <3>1, IncrType
  <2> QED
    BY <1>4, <2>5, <2>6 DEF IncrRate, TypeOK, RequestTypes, clock
<1>5. ASSUME NEW r \in Request, ExpireRate(r) PROVE TypeOK'
  BY <1>5 DEF ExpireRate, Expire, TypeOK, RateWindow, clock, history
<1>6. ASSUME NEW r \in Request, IncrDaily(r) PROVE TypeOK'
  <2>1. tenant[r] \in Tenant /\ chan[r] \in Channel
    BY <1>6 DEF IncrDaily, RequestsOK, Checking
  <2>2. PICK k \in Key : k = DailyKey(tenant[r], chan[r], today[r])
    BY <2>1, KeyFacts DEF TypeOK
  <2>3. Incr(r, k, quota[r], "expire_daily", "check")
    BY <1>6, <2>2 DEF IncrDaily
  <2>4. counter' \in [Key -> Nat] /\ granted' \in [Key -> Nat] /\ late' \subseteq Key
    BY <2>3 DEF Incr, TypeOK, MadeAgain
  <2>5. RequestTypes'
    <3>1. RequestTypes
      BY DEF TypeOK, RequestTypes
    <3> QED
      BY <2>3, <3>1, IncrType
  <2> QED
    BY <1>6, <2>4, <2>5 DEF IncrDaily, TypeOK, RequestTypes, clock
<1>7. ASSUME NEW r \in Request, ExpireDaily(r) PROVE TypeOK'
  BY <1>7 DEF ExpireDaily, Expire, TypeOK, clock, history
<1>7a. ASSUME NEW r \in Request, ReadDay(r) PROVE TypeOK'
  BY <1>7a DEF ReadDay, TypeOK, redis, clock, history
<1>8. ASSUME NEW r \in Request, RedisFails(r) PROVE TypeOK'
  <2>1. counter' \in [Key -> Nat] /\ late' \subseteq Key
    BY <1>8 DEF RedisFails, TypeOK, MadeAgain
  <2> QED
    BY <1>8, <2>1 DEF RedisFails, Leave, Fault, TypeOK, clock, history
<1>9. CASE Crash
  BY <1>9 DEF Crash, Fault, TypeOK, redis, clock, history
<1>10. CASE Tick
  <2>1. second' \in 0..(DayLength - 1) /\ day' \in 0..MaxDay
    BY <1>10 DEF Tick, TypeOK
  <2>2. counter' \in [Key -> Nat] /\ ttl' \in [Key -> Nat] /\ granted' \in [Key -> Nat]
    BY <1>10 DEF Tick, TypeOK
  <2> QED
    BY <1>10, <2>1, <2>2 DEF Tick, TypeOK, request
<1>11. CASE UNCHANGED vars
  BY <1>11 DEF TypeOK, vars, redis, clock, request, history
<1> QED
  BY <1>1, <1>2, <1>3, <1>4, <1>5, <1>6, <1>7, <1>8, <1>9, <1>10, <1>11, <1>7a DEF Next, AllowStep

\* Every step keeps the rest of the invariant.
LEMMA NextStep ==
  ASSUME IndInv, [Next]_vars
  PROVE  RequestsOK' /\ PendingOK' /\ CountersOK' /\ LimitRespected' /\ CountersExpire'
<1> USE DEF IndInv
<1> DEFINE Rest == RequestsOK /\ PendingOK /\ CountersOK /\ LimitRespected /\ CountersExpire
<1>0. faults \in Nat
  BY DEF TypeOK
<1>1. ASSUME NEW r \in Request, Submit(r) PROVE Rest'
  <2>1. UNCHANGED <<counter, ttl, second, day, chan, rate, quota, today, key, granted, late, faults>>
    BY <1>1 DEF Submit, redis, clock, history
  <2>2. RequestsOK'
    BY <1>1, <2>1 DEF Submit, RequestsOK, TypeOK, Pending, Checking, IsRateKey
  <2>3. \A q \in Request : pc'[q] \in Pending <=> pc[q] \in Pending
    BY <1>1 DEF Submit, TypeOK, Pending
  <2>4. PendingOK'
    BY <2>1, <2>3 DEF PendingOK
  <2>5. CountersExpire'
    BY <2>1, <2>3 DEF CountersExpire, Pending
  <2> QED
    BY <2>1, <2>2, <2>4, <2>5 DEF CountersOK, LimitRespected, IsRateKey
<1>2. ASSUME NEW r \in Request, CheckChannel(r) PROVE Rest'
  <2>1. UNCHANGED <<counter, ttl, second, day, tenant, today, key, granted, late, faults>>
    BY <1>2 DEF CheckChannel, redis, clock, history
  <2>2. RequestsOK'
    BY <1>2, <2>1 DEF CheckChannel, RequestsOK, TypeOK, Pending, Checking, IsRateKey
  <2>3. \A q \in Request : pc'[q] \in Pending <=> pc[q] \in Pending
    BY <1>2 DEF CheckChannel, TypeOK, Pending
  <2>4. PendingOK'
    BY <2>1, <2>3 DEF PendingOK
  <2>5. CountersExpire'
    BY <2>1, <2>3 DEF CountersExpire, Pending
  <2> QED
    BY <2>1, <2>2, <2>4, <2>5 DEF CountersOK, LimitRespected, IsRateKey
<1>3. ASSUME NEW r \in Request, EndChecks(r) PROVE Rest'
  <2>1. pc[r] \notin Pending /\ Leave(r) /\ UNCHANGED <<counter, ttl, clock, granted, late, faults>>
    BY <1>3 DEF EndChecks, Pending, redis, history
  <2>2. counter' \in [Key -> Nat] /\ \A k \in Key : counter'[k] >= counter[k]
    BY <2>1 DEF TypeOK
  <2> QED
    BY <1>0, <2>1, <2>2, LeaveStep
<1>4. ASSUME NEW r \in Request, IncrRate(r) PROVE Rest'
  <2>1. tenant[r] \in Tenant /\ chan[r] \in Channel /\ rate[r] \in RateOf[chan[r]] /\ pc[r] = "rate"
    BY <1>4 DEF IncrRate, RequestsOK, Checking
  <2>2. PICK limit \in Nat \ {0} : limit = rate[r]
    BY <2>1
  <2>3. PICK k \in Key : k = RateKey(tenant[r])
    BY <2>1, KeyFacts
  <2>4. IsRateKey(k)
    BY <2>1, <2>3, KeyFacts
  <2>5. Incr(r, k, limit, "expire_rate", "day") /\ UNCHANGED <<ttl, clock, faults>>
    BY <1>4, <2>2, <2>3 DEF IncrRate
  <2>6. "expire_rate" \in Pending
    BY DEF Pending
  <2> QED
    BY <2>1, <2>2, <2>4, <2>5, <2>6, IncrStep
<1>5. ASSUME NEW r \in Request, ExpireRate(r) PROVE Rest'
  <2>1. /\ pc[r] = "expire_rate" /\ pc[r] \in Pending
        /\ Expire(r, RateWindow, "day") /\ UNCHANGED <<clock, history, faults>>
    BY <1>5 DEF ExpireRate, Pending, history
  <2>2. RateWindow \in Nat \ {0}
    BY DEF RateWindow
  <2> QED
    BY <2>1, <2>2, ExpireStep
<1>6. ASSUME NEW r \in Request, IncrDaily(r) PROVE Rest'
  <2>1. tenant[r] \in Tenant /\ chan[r] \in Channel /\ quota[r] \in QuotaOf[chan[r]] /\ pc[r] = "daily"
    BY <1>6 DEF IncrDaily, RequestsOK, Checking
  <2>2. PICK limit \in Nat \ {0} : limit = quota[r]
    BY <2>1
  <2>3. PICK k \in Key : k = DailyKey(tenant[r], chan[r], today[r])
    BY <2>1, KeyFacts DEF TypeOK
  <2>4. ~IsRateKey(k) /\ k[2] = chan[r] /\ k[3] <= day
    BY <2>1, <2>3, KeyFacts DEF TypeOK, RequestsOK
  <2>5. Incr(r, k, limit, "expire_daily", "check") /\ UNCHANGED <<ttl, clock, faults>>
    BY <1>6, <2>2, <2>3 DEF IncrDaily
  <2>6. "expire_daily" \in Pending
    BY DEF Pending
  <2> QED
    BY <2>1, <2>2, <2>4, <2>5, <2>6, IncrStep
<1>7. ASSUME NEW r \in Request, ExpireDaily(r) PROVE Rest'
  <2>1. /\ pc[r] \in Pending
        /\ Expire(r, DayLength, "check") /\ UNCHANGED <<clock, history, faults>>
    BY <1>7 DEF ExpireDaily, Pending, history
  <2> QED
    BY <2>1, ExpireStep
<1>7a. ASSUME NEW r \in Request, ReadDay(r) PROVE Rest'
  <2>1. UNCHANGED <<counter, ttl, second, day, tenant, chan, rate, quota, key, granted, late, faults>>
    BY <1>7a DEF ReadDay, redis, clock, history
  <2>2. RequestsOK'
    BY <1>7a, <2>1 DEF ReadDay, RequestsOK, TypeOK, Pending, Checking, IsRateKey
  <2>3. \A q \in Request : pc'[q] \in Pending <=> pc[q] \in Pending
    BY <1>7a DEF ReadDay, TypeOK, Pending
  <2>4. PendingOK'
    BY <2>1, <2>3 DEF PendingOK
  <2>5. CountersExpire'
    BY <2>1, <2>3 DEF CountersExpire, Pending
  <2> QED
    BY <2>1, <2>2, <2>4, <2>5 DEF CountersOK, LimitRespected, IsRateKey
<1>8. ASSUME NEW r \in Request, RedisFails(r) PROVE Rest'
  <2>1. /\ Leave(r) /\ faults' = faults + 1 /\ UNCHANGED <<ttl, clock, granted>>
        /\ pc[r] \in Checking
    BY <1>8 DEF RedisFails, Fault, history, Checking, Pending
  <2>2. tenant[r] \in Tenant /\ chan[r] \in Channel
    BY <2>1 DEF RequestsOK, Checking, Pending
  <2>3. \/ counter' = counter /\ late' = late
        \/ \E k \in Key : /\ counter' = [counter EXCEPT ![k] = @ + 1]
                          /\ IsRateKey(k) \/ k[3] <= day
                          /\ late \subseteq late' /\ MadeAgain(k) \subseteq late'
    <3>1. RateKey(tenant[r]) \in Key /\ IsRateKey(RateKey(tenant[r]))
      BY <2>2, KeyFacts
    <3>2. CASE counter' = counter /\ late' = late
      BY <3>2
    <3>3. CASE counter' = [counter EXCEPT ![RateKey(tenant[r])] = @ + 1] /\ late' = late
      <4>1. PICK k \in Key : k = RateKey(tenant[r]) /\ IsRateKey(k)
        BY <3>1
      <4>2. MadeAgain(k) = {}
        BY <4>1 DEF MadeAgain
      <4> QED
        BY <3>3, <4>1, <4>2
    <3>4. CASE /\ pc[r] = "daily"
               /\ counter' = [counter EXCEPT ![DailyKey(tenant[r], chan[r], today[r])] = @ + 1]
               /\ late' = late \cup MadeAgain(DailyKey(tenant[r], chan[r], today[r]))
      <4>1. PICK k \in Key : k = DailyKey(tenant[r], chan[r], today[r])
        BY <2>2, KeyFacts DEF TypeOK
      <4>2. k[3] <= day
        BY <2>2, <3>4, <4>1, KeyFacts DEF TypeOK, RequestsOK
      <4> QED
        BY <3>4, <4>1, <4>2
    <3> QED
      BY <1>8, <3>2, <3>3, <3>4 DEF RedisFails
  <2>4. counter' \in [Key -> Nat] /\ late \subseteq late' /\ \A k \in Key : counter'[k] >= counter[k]
    BY <2>3 DEF TypeOK
  <2>5. \A k \in Key : counter'[k] # counter[k] =>
          (IsRateKey(k) \/ k[3] <= day) /\ MadeAgain(k) \subseteq late'
    BY <2>3 DEF TypeOK
  <2>6. faults' > 0 /\ faults' >= faults /\ faults' \in Nat
    BY <1>0, <2>1
  <2> QED
    BY <2>1, <2>4, <2>5, <2>6, LeaveStep
<1>9. CASE Crash
  <2>1. UNCHANGED <<counter, ttl, second, day, granted, late>> /\ faults' > 0
    BY <1>0, <1>9 DEF Crash, Fault, redis, clock, history
  <2>2. RequestsOK' /\ PendingOK'
    BY <1>9 DEF Crash, RequestsOK, PendingOK, Pending, Checking
  <2> QED
    BY <2>1, <2>2 DEF CountersOK, LimitRespected, CountersExpire, IsRateKey
<1>10. CASE Tick
  BY <1>10, TickStep
<1>11. CASE UNCHANGED vars
  BY <1>11 DEF vars, redis, clock, request, history, RequestsOK, PendingOK, CountersOK,
     LimitRespected, CountersExpire, IsRateKey
<1> QED
  BY <1>1, <1>2, <1>3, <1>4, <1>5, <1>6, <1>7, <1>8, <1>9, <1>10, <1>11, <1>7a DEF Next, AllowStep

-----------------------------------------------------------------------------
\* The inductive invariant holds in every reachable state.
THEOREM Invariance == Spec => []IndInv
<1>1. IndInv /\ [Next]_vars => IndInv' BY TypeStep, NextStep DEF IndInv
<1> QED BY <1>1, InitInv, PTL DEF Spec

\* The counters, the clock and the requests' local state stay well formed.
THEOREM LimiterTypeCorrect == Spec => []TypeOK
<1>1. IndInv => TypeOK BY DEF IndInv
<1> QED BY <1>1, Invariance, PTL

\* Allow admits no more sends on one counter than its largest limit, for any
\* tenants, channels, limits and concurrent requests, and whatever fails; only a
\* daily key that a stalled request made again after its day admits more.
THEOREM LimitsHold == Spec => []LimitRespected
<1>1. IndInv => LimitRespected BY DEF IndInv
<1> QED BY <1>1, Invariance, PTL

\* Without a fault between INCR and EXPIRE every counter has an expiry or one
\* request about to set it: no tenant is blocked for good.
THEOREM CountersHaveExpiry == Spec => []CountersExpire
<1>1. IndInv => CountersExpire BY DEF IndInv
<1> QED BY <1>1, Invariance, PTL
=============================================================================
