---------------------------- MODULE RateLimiter ----------------------------
(***************************************************************************)
(* RateLimiter.allow (ratelimit.go) for one key: a counter in Redis that   *)
(* INCR creates and increments, and that disappears a window after EXPIRE. *)
(* The two commands are sent one after the other; other requests come      *)
(* between them, and the second may not be sent at all.                    *)
(***************************************************************************)
EXTENDS Integers

CONSTANTS
  Requests,  \* ingest requests in flight at the same time
  Limit,     \* OBSERVA_INGEST_RATE_LIMIT, at least 1 (else no limiter runs)
  Window,    \* ticks of the clock in a window (1 s)
  Faults     \* which of FaultKinds the environment may commit

FaultKinds ==
  {"reply",   \* INCR takes effect, its reply is lost
   "expire"}  \* EXPIRE fails, the request is cancelled or the process dies

ASSUME LimiterAssumption ==
  /\ Limit \in Nat \ {0}
  /\ Window \in Nat \ {0}
  /\ Faults \subseteq FaultKinds

VARIABLES
  count,    \* the counter, 0 while there is no key; counts up to Limit + 1
  ttl,      \* ticks until the key disappears, 0 while it has no expiry
  request,  \* where a request is: "idle" or "expire" (it has read 1)
  forgot,   \* the key's first request will not send EXPIRE
  recent    \* recent[n]: requests let through in the last n ticks

vars == <<count, ttl, request, forgot, recent>>

Spans == 1..Window

Init ==
  /\ count = 0
  /\ ttl = 0
  /\ request = [r \in Requests |-> "idle"]
  /\ forgot = FALSE
  /\ recent = [n \in Spans |-> 0]

-----------------------------------------------------------------------------
\* Mutant of Allowed: off by one.
AllowedOneMore(n) == n <= Limit + 1

Allowed(n) == n <= Limit

\* The counter after INCR: beyond Limit its value makes no difference.
Incremented == IF count > Limit THEN count ELSE count + 1

\* Mutant of Owes: the window starts when the limit is reached.
OwesWhenFull(n) == n = Limit

\* The request that has read n has to set the expiry.
Owes(n) == n = 1

\* Mutant of Incr: every request sets the expiry anew.
IncrRefreshes(r) ==
  /\ request[r] = "idle"
  /\ count' = Incremented
  /\ ttl' = Window
  /\ recent' = [n \in Spans |-> IF Allowed(count') THEN recent[n] + 1 ELSE recent[n]]
  /\ UNCHANGED <<request, forgot>>

\* A request reads its number and is let through or answered 429, the first
\* one after it has set the expiry.
Incr(r) ==
  /\ request[r] = "idle"
  /\ count' = Incremented
  /\ request' = [request EXCEPT ![r] = IF Owes(count') THEN "expire" ELSE "idle"]
  /\ recent' = [n \in Spans |-> IF Allowed(count') THEN recent[n] + 1 ELSE recent[n]]
  /\ UNCHANGED <<ttl, forgot>>

\* The number is lost: go-redis sends the command again and the request reads
\* another one, or gives up and answers 503.
ReplyLost(r) ==
  /\ "reply" \in Faults
  /\ request[r] = "idle"
  /\ count' = Incremented
  /\ forgot' = (forgot \/ Owes(count'))
  /\ UNCHANGED <<ttl, request, recent>>

\* Mutant of Expire: milliseconds for seconds.
ExpireMillis(r) ==
  /\ request[r] = "expire"
  /\ ttl' = 1000 * Window
  /\ request' = [request EXCEPT ![r] = "idle"]
  /\ UNCHANGED <<count, forgot, recent>>

Expire(r) ==
  /\ request[r] = "expire"
  /\ ttl' = Window
  /\ request' = [request EXCEPT ![r] = "idle"]
  /\ UNCHANGED <<count, forgot, recent>>

\* The request is answered 503 or not at all, whether Redis has executed the
\* command or not.
ExpireFails(r) ==
  /\ "expire" \in Faults
  /\ request[r] = "expire"
  /\ request' = [request EXCEPT ![r] = "idle"]
  /\ \/ ttl' = Window /\ UNCHANGED forgot
     \/ forgot' = TRUE /\ UNCHANGED ttl
  /\ UNCHANGED <<count, recent>>

\* Time passes; Redis removes the key when its time has come.
Tick ==
  /\ recent' = [n \in Spans |-> IF n = 1 THEN 0 ELSE recent[n - 1]]
  /\ ttl' = IF ttl = 0 THEN 0 ELSE ttl - 1
  /\ count' = IF ttl = 1 THEN 0 ELSE count
  /\ UNCHANGED <<request, forgot>>

Next ==
  \/ \E r \in Requests :
       Incr(r) \/ ReplyLost(r) \/ Expire(r) \/ ExpireFails(r)
  \/ Tick

Fairness ==
  /\ \A r \in Requests : WF_vars(Expire(r) \/ ExpireFails(r))
  /\ WF_vars(Tick)

Spec == Init /\ [][Next]_vars /\ Fairness
-----------------------------------------------------------------------------
(* Properties.                                                             *)

TypeOK ==
  /\ count \in 0..(Limit + 1)
  /\ ttl \in 0..Window
  /\ request \in [Requests -> {"idle", "expire"}]
  /\ forgot \in BOOLEAN
  /\ recent \in [Spans -> Nat]

\* A window counts from its first request, so that two of them may meet in a
\* second, never three: at most twice the limit gets through in any window,
\* however late the expiry is set.
Burst == recent[Window] <= 2 * Limit

\* The counter always has an expiry or a request that is about to set it,
\* unless that request was lost after INCR.
ExpiryOwed ==
  count > 0 => ttl > 0 \/ forgot \/ \E r \in Requests : request[r] = "expire"

\* Whoever is over the limit gets through again, unless the expiry was lost.
RecoversOrForgot == count > Limit ~> (count = 0 \/ forgot)

\* README.md 87: a limit of POSTs per second.  Whoever is over it gets
\* through again.
Recovers == count > Limit ~> count = 0
=============================================================================
