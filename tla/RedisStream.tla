---------------------------- MODULE RedisStream ----------------------------
(***************************************************************************)
(* The Redis stream "observa:ingest" and its consumer group                *)
(* "observa-writers", as far as backend/internal/ingest/buffer.go uses     *)
(* them: XADD with MAXLEN ~, XAUTOCLAIM, XREADGROUP of a consumer's own    *)
(* pending entries (id "0"), XREADGROUP of new entries (id ">") and XACK.  *)
(*                                                                         *)
(* Redis gives entries increasing ids, so an entry is its position in the  *)
(* stream.  Trimming removes the oldest entries: those below "first".      *)
(* XACK takes an entry out of the pending entries list (PEL) and leaves it *)
(* in the stream.  Every command is atomic.                                *)
(***************************************************************************)
EXTENDS Integers, Sequences, FiniteSets, Functions

CONSTANTS
  Workers,     \* consumer names "worker-0", "worker-1", ... of the group
  NoOne,       \* the owner of an entry that is not pending
  MaxEntries,  \* bound of the model: how many entries are ever added
  MaxLen,      \* MAXLEN of XADD (1_000_000 in NewBuffer)
  ScanFactor   \* XAUTOCLAIM visits at most ScanFactor * COUNT entries (10)

ASSUME StreamAssumption ==
  /\ MaxEntries \in Nat
  /\ MaxLen \in Nat \ {0}
  /\ ScanFactor \in Nat \ {0}
  /\ NoOne \notin Workers

VARIABLES
  first,      \* the lowest entry the stream still holds
  added,      \* the last entry added
  delivered,  \* the group's last-delivered-id
  pel,        \* the consumer an entry is pending for, or NoOne
  stale       \* pending entries idle for stalePendingAfter (30 s) or longer

redisVars == <<first, added, delivered, pel, stale>>

Entries == 1..MaxEntries

Pending == {e \in Entries : pel[e] # NoOne}
Live(S) == {e \in S : e >= first}

\* The group is done with an entry: delivered once, and pending no longer.
Settled == {e \in Entries : e <= delivered /\ pel[e] = NoOne}

RedisInit ==
  /\ first = 1
  /\ added = 0
  /\ delivered = 0
  /\ pel = [e \in Entries |-> NoOne]
  /\ stale = {}

-----------------------------------------------------------------------------
(* What a command replies with.  Redis walks ids upwards and stops after   *)
(* COUNT of them.                                                          *)

\* The k lowest members of S, or all of them (a set of one set).
Lowest(S, k) ==
  {F \in SUBSET S : /\ Cardinality(F) <= k
                    /\ Cardinality(F) = k \/ F = S
                    /\ \A x \in F, y \in S \ F : x < y}

\* The enumeration of S in increasing order (a set of one sequence).
Ascending(S) ==
  {s \in [1..Cardinality(S) -> S] :
     /\ Range(s) = S
     /\ \A i, j \in DOMAIN s : i < j => s[i] < s[j]}

\* Mutant of DueReplies: MinIdle 0, pending entries of any age are claimed.
DueAnyAge(count) ==
  UNION {Lowest(scanned, count) : scanned \in Lowest(Pending, ScanFactor * count)}

\* XAUTOCLAIM from 0-0: of the entries visited, those to delete from the PEL
\* because the stream has dropped them and those idle long enough to claim.
DueReplies(count) ==
  UNION {Lowest({e \in scanned : e < first \/ e \in stale}, count) :
           scanned \in Lowest(Pending, ScanFactor * count)}

\* XREADGROUP with id "0": the consumer's own PEL, dropped entries included
\* (their values come back nil).
OwnReplies(w, count) == Lowest({e \in Pending : pel[e] = w}, count)

\* XREADGROUP with id ">": what the group has not delivered and the stream
\* still holds.
NewReplies(count) ==
  Lowest({e \in Entries : e > delivered /\ e >= first /\ e <= added}, count)

-----------------------------------------------------------------------------
(* The commands.                                                           *)

\* XADD MAXLEN ~: trimming removes whole nodes, so it may stop early, and it
\* never leaves fewer than MaxLen entries.
XAdd ==
  /\ added < MaxEntries
  /\ added' = added + 1
  /\ \E f \in first..(added + 1) :
       /\ f = first \/ added' - f + 1 >= MaxLen
       /\ first' = f
       /\ stale' = {e \in stale : e >= f}
  /\ UNCHANGED <<delivered, pel>>

XAutoClaim(w, due) ==
  /\ pel' = [e \in Entries |-> IF e \notin due THEN pel[e]
                               ELSE IF e < first THEN NoOne ELSE w]
  /\ stale' = stale \ due
  /\ UNCHANGED <<first, added, delivered>>

\* Reading the history resets the idle time of what it returns.
XReadOwn(own) ==
  /\ stale' = stale \ own
  /\ UNCHANGED <<first, added, delivered, pel>>

XReadNew(w, new) ==
  /\ pel' = [e \in Entries |-> IF e \in new THEN w ELSE pel[e]]
  /\ IF new = {} THEN delivered' = delivered
     ELSE delivered' \in new /\ \A e \in new : e <= delivered'
  /\ UNCHANGED <<first, added, stale>>

\* XACK does not ask whose the entry is.
XAck(acked) ==
  /\ pel' = [e \in Entries |-> IF e \in acked THEN NoOne ELSE pel[e]]
  /\ stale' = stale \ acked
  /\ UNCHANGED <<first, added, delivered>>

\* 30 s pass without a delivery of e.
GrowStale(e) ==
  /\ e \in Live(Pending) \ stale
  /\ stale' = stale \cup {e}
  /\ UNCHANGED <<first, added, delivered, pel>>
=============================================================================
