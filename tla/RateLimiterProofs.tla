-------------------------- MODULE RateLimiterProofs --------------------------
(***************************************************************************)
(* Theorems about RateLimiter, for any limit, window and number of         *)
(* concurrent requests, and any faults or none.                            *)
(***************************************************************************)
EXTENDS RateLimiter, TLAPS

\* The types hold initially.
LEMMA TypeInit == Init => TypeOK
<1> SUFFICES ASSUME Init PROVE TypeOK
  OBVIOUS
<1>1. count \in 0..(Limit + 1) /\ ttl \in 0..Window
  BY LimiterAssumption DEF Init
<1>2. recent \in [Spans -> Nat] /\ request \in [Requests -> {"idle", "expire"}]
  BY DEF Init
<1>3. forgot \in BOOLEAN
  BY DEF Init
<1> QED BY <1>1, <1>2, <1>3 DEF TypeOK

\* Every step keeps them.
LEMMA TypeNext == TypeOK /\ [Next]_vars => TypeOK'
<1> SUFFICES ASSUME TypeOK, [Next]_vars PROVE TypeOK'
  OBVIOUS
<1> USE LimiterAssumption DEF TypeOK
<1>1. Incremented \in 0..(Limit + 1)
  BY DEF Incremented
<1>3. ASSUME NEW r \in Requests, Incr(r) PROVE TypeOK'
  <2>1. recent' \in [Spans -> Nat]
    BY <1>3 DEF Incr
  <2>2. count' \in 0..(Limit + 1) /\ ttl' \in 0..Window /\ forgot' \in BOOLEAN
    BY <1>3, <1>1 DEF Incr
  <2>3. request' \in [Requests -> {"idle", "expire"}]
    BY <1>3 DEF Incr
  <2> QED BY <2>1, <2>2, <2>3
<1>4. ASSUME NEW r \in Requests, ReplyLost(r) PROVE TypeOK'
  <2>1. forgot' \in BOOLEAN
    BY <1>4 DEF ReplyLost, Owes
  <2> QED BY <1>1, <1>4, <2>1 DEF ReplyLost
<1>5. ASSUME NEW r \in Requests, Expire(r) PROVE TypeOK'
  BY <1>5 DEF Expire
<1>6. ASSUME NEW r \in Requests, ExpireFails(r) PROVE TypeOK'
  <2>1. ttl' = Window \/ ttl' = ttl
    BY <1>6 DEF ExpireFails
  <2>2. forgot' = TRUE \/ forgot' = forgot
    BY <1>6 DEF ExpireFails
  <2>3. ttl' \in 0..Window
    BY <2>1
  <2>4. forgot' \in BOOLEAN
    BY <2>2
  <2>5. count' \in 0..(Limit + 1) /\ request' \in [Requests -> {"idle", "expire"}]
        /\ recent' \in [Spans -> Nat]
    BY <1>6 DEF ExpireFails
  <2> QED BY <2>3, <2>4, <2>5
<1>7. CASE Tick
  <2>1. recent' \in [Spans -> Nat]
    BY <1>7 DEF Tick, Spans
  <2>2. count' \in 0..(Limit + 1) /\ ttl' \in 0..Window
    BY <1>7 DEF Tick
  <2> QED BY <1>7, <2>1, <2>2 DEF Tick
<1>8. CASE UNCHANGED vars
  BY <1>8 DEF vars
<1> QED BY <1>3, <1>4, <1>5, <1>6, <1>7, <1>8 DEF Next

\* The counter and its expiry keep their ranges.
THEOREM LimiterTypes == Spec => []TypeOK
  BY TypeInit, TypeNext, PTL DEF Spec

\* Initially there is no counter.
LEMMA OwedInit == Init => ExpiryOwed
  BY DEF Init, ExpiryOwed

\* Who creates the counter owes the expiry, and only setting it, or being
\* lost, ends that.
LEMMA OwedNext == TypeOK /\ ExpiryOwed /\ [Next]_vars => ExpiryOwed'
<1> SUFFICES ASSUME TypeOK, ExpiryOwed, [Next]_vars PROVE ExpiryOwed'
  OBVIOUS
<1> USE LimiterAssumption DEF TypeOK, ExpiryOwed
<1>1. ASSUME NEW r \in Requests, Incr(r) PROVE ExpiryOwed'
  <2>1. CASE count = 0
    <3>1. request'[r] = "expire"
      BY <1>1, <2>1 DEF Incr, Incremented, Owes
    <3> QED BY <3>1
  <2>2. CASE count > 0
    <3>1. \A q \in Requests : request[q] = "expire" => request'[q] = "expire"
      BY <1>1 DEF Incr
    <3> QED BY <1>1, <2>2, <3>1 DEF Incr
  <2> QED BY <2>1, <2>2
<1>2. ASSUME NEW r \in Requests, ReplyLost(r) PROVE ExpiryOwed'
  <2>1. CASE count = 0
    <3>1. Incremented = 1
      BY <2>1 DEF Incremented
    <3>2. Owes(count')
      BY <1>2, <3>1 DEF ReplyLost, Owes
    <3>3. forgot'
      BY <1>2, <3>2 DEF ReplyLost
    <3> QED BY <3>3
  <2>2. CASE count > 0
    BY <1>2, <2>2 DEF ReplyLost
  <2> QED BY <2>1, <2>2
<1>3. ASSUME NEW r \in Requests, Expire(r) PROVE ExpiryOwed'
  BY <1>3 DEF Expire
<1>4. ASSUME NEW r \in Requests, ExpireFails(r) PROVE ExpiryOwed'
  BY <1>4 DEF ExpireFails
<1>5. CASE Tick
  <2>1. CASE ttl > 1
    BY <1>5, <2>1 DEF Tick
  <2>2. CASE ttl = 1
    BY <1>5, <2>2 DEF Tick
  <2>3. CASE ttl = 0
    BY <1>5, <2>3 DEF Tick
  <2> QED BY <2>1, <2>2, <2>3
<1>6. CASE UNCHANGED vars
  BY <1>6 DEF vars
<1> QED BY <1>1, <1>2, <1>3, <1>4, <1>5, <1>6 DEF Next

\* Whatever requests interleave between INCR and EXPIRE, a counter without an
\* expiry has a request about to set it, or that request was lost: nothing
\* but a fault makes a counter last (ratelimit.go 49-56).
THEOREM Owed == Spec => []ExpiryOwed
<1>1. TypeOK /\ ExpiryOwed /\ [Next]_vars => (TypeOK /\ ExpiryOwed)'
  BY TypeNext, OwedNext
<1> QED BY <1>1, TypeInit, OwedInit, PTL DEF Spec

-----------------------------------------------------------------------------
(* The burst.                                                              *)

\* What the counter has let through.
Admitted == IF count < Limit THEN count ELSE Limit

\* A longer span has let through no less.
Nested == \A m, n \in Spans : m <= n => recent[m] <= recent[n]

\* In a whole window there is what this counter has let through and at most
\* the limit of the one before, and since this one got its expiry only what
\* it has let through itself.
BurstInv ==
  /\ Nested
  /\ recent[Window] <= Limit + Admitted
  /\ ttl \in 1..(Window - 1) => recent[Window - ttl] <= Admitted

\* It holds initially.
LEMMA BurstInit == Init => BurstInv
BY LimiterAssumption DEF Init, BurstInv, Nested, Admitted, Spans

\* A request is let through, or not, but never takes anything away.
LEMMA CountStep ==
  ASSUME TypeOK, BurstInv, count' = Incremented, UNCHANGED ttl,
         \/ recent' = [n \in Spans |-> IF Allowed(count') THEN recent[n] + 1 ELSE recent[n]]
         \/ UNCHANGED recent
  PROVE  BurstInv'
<1> USE LimiterAssumption DEF TypeOK, Spans
<1>1. /\ Admitted \in Int /\ Admitted' \in Int /\ Admitted <= Admitted'
      /\ Allowed(count') => Admitted' = Admitted + 1
  BY DEF Admitted, Incremented, Allowed
<1>2. /\ \A n \in Spans : recent'[n] \in Int /\ recent'[n] - recent[n] <= Admitted' - Admitted
      /\ Nested'
  <2>1. CASE UNCHANGED recent
    BY <1>1, <2>1 DEF BurstInv, Nested
  <2>2. CASE Allowed(count') /\ recent' = [n \in Spans |-> recent[n] + 1]
    BY <1>1, <2>2 DEF BurstInv, Nested
  <2>3. CASE ~Allowed(count') /\ recent' = [n \in Spans |-> recent[n]]
    BY <1>1, <2>3 DEF BurstInv, Nested
  <2> QED BY <2>1, <2>2, <2>3
<1>3. \A n \in Spans, b \in Int :
        recent[n] <= b + Admitted => recent'[n] <= b + Admitted'
  BY <1>1, <1>2
<1>4. recent'[Window] <= Limit + Admitted'
  BY <1>3 DEF BurstInv
<1>5. ttl \in 1..(Window - 1) => recent'[Window - ttl] <= Admitted'
  <2> HAVE ttl \in 1..(Window - 1)
  <2>1. Window - ttl \in Spans /\ recent[Window - ttl] <= 0 + Admitted
    BY <1>1 DEF BurstInv
  <2>2. recent'[Window - ttl] <= 0 + Admitted'
    BY <1>3, <2>1
  <2> QED BY <1>1, <2>2
<1> QED BY <1>2, <1>4, <1>5 DEF BurstInv

\* The invariant is inductive.
LEMMA BurstNext == TypeOK /\ BurstInv /\ [Next]_vars => BurstInv'
<1> SUFFICES ASSUME TypeOK, BurstInv, [Next]_vars PROVE BurstInv'
  OBVIOUS
<1>1. ASSUME NEW r \in Requests, Incr(r) \/ ReplyLost(r) PROVE BurstInv'
  BY <1>1, CountStep, Zenon DEF Incr, ReplyLost
<1>2. ASSUME NEW r \in Requests, Expire(r) \/ ExpireFails(r) PROVE BurstInv'
  <2>1. UNCHANGED <<count, recent>> /\ (ttl' = Window \/ ttl' = ttl)
    BY <1>2, Zenon DEF Expire, ExpireFails
  <2> QED BY <2>1, LimiterAssumption DEF BurstInv, Nested, Admitted
<1>3. CASE Tick
  <2> USE LimiterAssumption DEF TypeOK, Spans
  <2>1. /\ recent' = [n \in Spans |-> IF n = 1 THEN 0 ELSE recent[n - 1]]
        /\ ttl' = (IF ttl = 0 THEN 0 ELSE ttl - 1)
        /\ count' = (IF ttl = 1 THEN 0 ELSE count)
    BY <1>3 DEF Tick
  <2>2. Nested' /\ recent'[Window] <= recent[Window]
    BY <2>1 DEF BurstInv, Nested
  <2>3. Admitted \in 0..Limit /\ Admitted' = (IF ttl = 1 THEN 0 ELSE Admitted)
    BY <2>1 DEF Admitted
  <2>4. \A w \in 1..Window : recent'[w] = IF w = 1 THEN 0 ELSE recent[w - 1]
    BY <2>1
  <2>5. CASE ttl = 1
    <3>1. recent'[Window] <= Limit
      <4>1. CASE Window = 1
        BY <2>4, <4>1
      <4>2. CASE Window > 1
        BY <2>3, <2>4, <2>5, <4>2 DEF BurstInv
      <4> QED BY <4>1, <4>2
    <3> QED BY <2>1, <2>2, <2>3, <2>5, <3>1 DEF BurstInv
  <2>6. CASE ttl # 1
    <3>1. recent'[Window] <= Limit + Admitted'
      <4>1. recent'[Window] \in Int /\ recent[Window] \in Int
        BY <2>4
      <4> QED BY <2>2, <2>3, <2>6, <4>1 DEF BurstInv
    <3>2. ttl' \in 1..(Window - 1) => recent'[Window - ttl'] <= Admitted'
      <4> HAVE ttl' \in 1..(Window - 1)
      <4>1. ttl' = ttl - 1 /\ ttl \in 2..Window
        BY <2>1, <2>6
      <4>2. CASE ttl = Window
        BY <2>3, <2>4, <2>6, <4>1, <4>2
      <4>3. CASE ttl < Window
        <5>1. recent'[Window - ttl'] = recent[Window - ttl]
          BY <2>4, <4>1, <4>3
        <5> QED BY <2>3, <2>6, <4>1, <4>3, <5>1 DEF BurstInv
      <4> QED BY <4>1, <4>2, <4>3
    <3> QED BY <2>2, <3>1, <3>2 DEF BurstInv
  <2> QED BY <2>5, <2>6
<1>4. CASE UNCHANGED vars
  BY <1>4 DEF vars, BurstInv, Nested, Admitted
<1> QED BY <1>1, <1>2, <1>3, <1>4, Zenon DEF Next

\* In no window of time does a key get more than twice its limit through,
\* whatever is lost and however late the expiry is set (ratelimit.go 41-61):
\* a counter lives for a window at least, so that two of them meet in one and
\* never three.
THEOREM BurstBounded == Spec => []Burst
<1>1. TypeOK /\ BurstInv => Burst
  BY LimiterAssumption DEF TypeOK, BurstInv, Admitted, Burst, Spans
<1>2. TypeOK /\ BurstInv /\ [Next]_vars => (TypeOK /\ BurstInv)'
  BY TypeNext, BurstNext
<1> QED BY <1>1, <1>2, TypeInit, BurstInit, PTL DEF Spec

-----------------------------------------------------------------------------
(* Without faults.                                                         *)

\* Nothing is lost when neither command can be.
LEMMA NoneForgot == Faults = {} => (Spec => []~forgot)
<1> SUFFICES ASSUME Faults = {} PROVE Spec => []~forgot
  OBVIOUS
<1>1. Init => ~forgot
  BY DEF Init
<1>2. ~forgot /\ [Next]_vars => ~forgot'
  <2> SUFFICES ASSUME ~forgot, [Next]_vars PROVE ~forgot'
    OBVIOUS
  <2>1. forgot' = forgot
    BY DEF Next, Incr, ReplyLost, Expire, ExpireFails, Tick, vars
  <2> QED BY <2>1
<1> QED BY <1>1, <1>2, PTL DEF Spec

\* The counter has an expiry, or a request is about to set it.
Remembered == count > 0 => ttl > 0 \/ \E r \in Requests : request[r] = "expire"

\* What locks a key out is a lost command, not requests that come between the
\* two of another one (ratelimit.go 49-60).
THEOREM FaultsOnly == Faults = {} => (Spec => []Remembered)
<1> SUFFICES ASSUME Faults = {} PROVE Spec => []Remembered
  OBVIOUS
<1>1. ExpiryOwed /\ ~forgot => Remembered
  BY DEF ExpiryOwed, Remembered
<1>2. Spec => []~forgot
  BY NoneForgot
<1> QED BY <1>1, <1>2, Owed, PTL
=============================================================================
