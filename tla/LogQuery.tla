------------------------------ MODULE LogQuery ------------------------------
(***************************************************************************)
(* What observad accepts as a log (model/log.go), what it understands of a *)
(* query (query/parse.go, model/query.go), and which logs its two stores   *)
(* find for it (store/clickhouse.go, store/memstore.go).  No state.        *)
(*                                                                         *)
(* Time is counted in ticks of a millisecond at least, which is what table *)
(* logs can tell apart.  A message is the set of words a search can look   *)
(* for in it; a parameter is what parsing makes of its text, spaces and    *)
(* capitals gone.                                                          *)
(***************************************************************************)
EXTENDS Integers, FiniteSets, FiniteSetsExt

CONSTANTS
  Services,      \* names of services
  Words,         \* what messages contain
  NoTime,        \* the zero time.Time: no bound
  Second,        \* ticks in a second
  MinuteLen,     \* ticks in a minute
  Hour,          \* how far ahead of the clock a log may be (an hour)
  DefaultLimit,  \* 100
  MaxLimit,      \* 1000
  TopN           \* services in the statistics (10)

ASSUME TextAssumption == "" \notin Services \cup Words

ASSUME QueryAssumption ==
  /\ NoTime \notin Int
  /\ Second \in Nat \ {0}
  /\ MinuteLen \in Nat \ {0} /\ MinuteLen % Second = 0
  /\ Hour \in Nat
  /\ DefaultLimit \in Nat \ {0}
  /\ MaxLimit \in Nat /\ MaxLimit >= DefaultLimit
  /\ TopN \in Nat

-----------------------------------------------------------------------------
(* Logs: [id, timestamp, level, service, message], id 0 for none.  In a    *)
(* request, fits tells whether message, service and attributes keep within *)
(* their limits.                                                           *)

Levels == {"debug", "info", "warn", "error", "fatal"}

\* Mutant of NormalizeLevel: an unknown level is kept.
NormalizeLevelKeep(raw) ==
  IF raw \in {"error", "err"} THEN "error" ELSE raw

NormalizeLevel(raw) ==
  CASE raw \in {"debug", "trace", "dbg"} -> "debug"
    [] raw \in {"warn", "warning"} -> "warn"
    [] raw \in {"error", "err"} -> "error"
    [] raw \in {"fatal", "crit", "critical", "panic", "emerg"} -> "fatal"
    [] OTHER -> "info"

\* Sanitize returns nil.
Sound(l) == l.message # {} /\ l.service # "" /\ l.fits

\* Mutant of Sanitize: a timestamp in the future stays.
SanitizeFuture(l, now, fresh) ==
  [id |-> IF l.id = 0 THEN fresh ELSE l.id,
   timestamp |-> IF l.timestamp = NoTime THEN now ELSE l.timestamp,
   level |-> NormalizeLevel(l.level), service |-> l.service, message |-> l.message]

\* What Sanitize and handleIngest leave of a sound log; fresh is a new uuid.
Sanitize(l, now, fresh) ==
  [id |-> IF l.id = 0 THEN fresh ELSE l.id,
   timestamp |-> IF l.timestamp = NoTime \/ l.timestamp > now + Hour
                 THEN now ELSE l.timestamp,
   level |-> IF l.level \in Levels THEN l.level ELSE NormalizeLevel(l.level),
   service |-> l.service,
   message |-> l.message]

-----------------------------------------------------------------------------
(* Queries: [from, to, levels, services, search, limit, offset, order].    *)
(* The parameters of a request have the same fields; from and to are       *)
(* [form, n] there, levels any words, and numeric tells whether limit and  *)
(* offset are numbers (0 when missing).                                    *)

\* What a search is for: nothing, or a word.
SearchText == Words \cup {""}

\* A bound of the range, as it is written in a request.
RequestTime == [form : {"none", "instant", "ago", "malformed"}, n : Int]

Clamp(q) ==
  [q EXCEPT !.limit = IF @ <= 0 THEN DefaultLimit
                      ELSE IF @ > MaxLimit THEN MaxLimit ELSE @,
            !.offset = IF @ < 0 THEN 0 ELSE @,
            !.order = IF @ = "asc" THEN @ ELSE "desc"]

\* Nothing, an instant, or a time that long ago, whatever its sign.
ParseTime(p, now) ==
  CASE p.form = "instant" -> p.n
    [] p.form = "ago" -> now - (IF p.n < 0 THEN -p.n ELSE p.n)
    [] OTHER -> NoTime

ParseFails(p, now) ==
  LET from == ParseTime(p.from, now)
      to == ParseTime(p.to, now)
  IN  \/ "malformed" \in {p.from.form, p.to.form}
      \/ from # NoTime /\ to # NoTime /\ from > to
      \/ ~(p.levels \subseteq Levels)
      \/ ~p.numeric

Parse(p, now) ==
  Clamp([from |-> ParseTime(p.from, now), to |-> ParseTime(p.to, now),
         levels |-> p.levels, services |-> p.services, search |-> p.search,
         limit |-> p.limit, offset |-> p.offset, order |-> p.order])

-----------------------------------------------------------------------------
(* Which logs a query selects.                                             *)

\* The last multiple of a unit that is not later than t.
RoundDown(t, unit) == t - (t % unit)

\* What clickhouse-go writes for a time.Time in the place of a ?: it binds
\* positional arguments in whole seconds.
Bind(t) == IF t = NoTime THEN t ELSE RoundDown(t, Second)

\* Mutant of Where: the upper bound is exclusive.
WhereBefore(l, q) ==
  /\ q.from # NoTime => l.timestamp >= Bind(q.from)
  /\ q.to # NoTime => l.timestamp < Bind(q.to)
  /\ q.levels # {} => l.level \in q.levels
  /\ q.services # {} => l.service \in q.services
  /\ q.search # "" => q.search \in l.message

\* buildWhere, on table logs.
Where(l, q) ==
  /\ q.from # NoTime => l.timestamp >= Bind(q.from)
  /\ q.to # NoTime => l.timestamp <= Bind(q.to)
  /\ q.levels # {} => l.level \in q.levels
  /\ q.services # {} => l.service \in q.services
  /\ q.search # "" => q.search \in l.message

\* matches, on the logs in memory: what makes it return false.
Matches(l, q) ==
  ~ \/ q.from # NoTime /\ l.timestamp < q.from
    \/ q.to # NoTime /\ l.timestamp > q.to
    \/ q.levels # {} /\ l.level \notin q.levels
    \/ q.services # {} /\ l.service \notin q.services
    \/ q.search # "" /\ q.search \notin l.message

\* toStartOfMinute.
Bucket(t) == RoundDown(t, MinuteLen)

\* The row of logs_by_minute that counts a log.
Cell(l) ==
  [bucket |-> Bucket(l.timestamp), level |-> l.level, service |-> l.service]

\* Mutant of RollupWhere: the lower bound is not rounded down.
RollupWhereExact(c, q) ==
  /\ q.from # NoTime => c.bucket >= Bind(q.from)
  /\ q.to # NoTime => c.bucket <= Bucket(Bind(q.to))
  /\ q.levels # {} => c.level \in q.levels
  /\ q.services # {} => c.service \in q.services

\* buildRollupWhere, on table logs_by_minute.
RollupWhere(c, q) ==
  /\ q.from # NoTime => c.bucket >= Bucket(Bind(q.from))
  /\ q.to # NoTime => c.bucket <= Bucket(Bind(q.to))
  /\ q.levels # {} => c.level \in q.levels
  /\ q.services # {} => c.service \in q.services

-----------------------------------------------------------------------------
(* Search.  rows is a function from the rows of a store to their logs.     *)

Lesser(a, b) == IF a < b THEN a ELSE b

Found(rows, q) == {r \in DOMAIN rows : Where(rows[r], q)}

Before(l, m, q) ==
  IF q.order = "asc" THEN l.timestamp < m.timestamp
                     ELSE l.timestamp > m.timestamp

\* Mutant of Heads: there is no ORDER BY.
HeadsUnordered(rows, S, q, n) ==
  {A \in SUBSET S : Cardinality(A) = Lesser(n, Cardinality(S))}

\* The sets that the first n rows of S may be: logs with the same timestamp
\* come in any order, in every query anew.
Heads(rows, S, q, n) ==
  {A \in SUBSET S : /\ Cardinality(A) = Lesser(n, Cardinality(S))
                    /\ \A a \in A, b \in S \ A : ~Before(rows[b], rows[a], q)}

\* The sets that the rows of a page may be.
Slices(rows, S, q) ==
  UNION {{T \ H : H \in {A \in Heads(rows, S, q, q.offset) : A \subseteq T}} :
           T \in Heads(rows, S, q, q.offset + q.limit)}

\* ClickHouse.Search: the total is read from the rows of the page.
ClickHouseSearch(rows, q) ==
  LET found == Found(rows, q)
  IN  {[logs |-> page, total |-> IF page = {} THEN 0 ELSE Cardinality(found)] :
         page \in Slices(rows, found, q)}

\* MemStore.Search.
MemSearch(rows, q) ==
  LET found == {r \in DOMAIN rows : Matches(rows[r], q)}
  IN  {[logs |-> page, total |-> Cardinality(found)] :
         page \in Slices(rows, found, q)}

-----------------------------------------------------------------------------
(* Statistics.  A table is a function from cells to counts.                *)

SumOver(table, cells) ==
  MapThenSumSet(LAMBDA c : table[c], {c \in cells : table[c] > 0})

\* GROUP BY level.
ByLevel(table) ==
  [v \in Levels |-> SumOver(table, {c \in DOMAIN table : c.level = v})]

\* GROUP BY service ORDER BY n DESC LIMIT 10: any choice among equals.
TopServices(table) ==
  LET n == [s \in {c.service : c \in {d \in DOMAIN table : table[d] > 0}} |->
              SumOver(table, {c \in DOMAIN table : c.service = s})]
  IN  {[s \in top |-> n[s]] :
         top \in {T \in SUBSET DOMAIN n :
                    /\ Cardinality(T) = Lesser(TopN, Cardinality(DOMAIN n))
                    /\ \A s \in T, u \in DOMAIN n \ T : n[s] >= n[u]}}

\* GROUP BY bucket, level.
Histogram(table) ==
  [b \in {[bucket |-> c.bucket, level |-> c.level] : c \in DOMAIN table} |->
     SumOver(table, {c \in DOMAIN table : c.bucket = b.bucket /\ c.level = b.level})]

Total(levels) == MapThenSumSet(LAMBDA v : levels[v], Levels)

\* The rows of logs a query selects, and those of memory, counted by cell.
RawTable(rows, q, cells) ==
  [c \in cells |-> Cardinality({r \in Found(rows, q) : Cell(rows[r]) = c})]
MemTable(rows, q, cells) ==
  [c \in cells |->
     Cardinality({r \in DOMAIN rows : Matches(rows[r], q) /\ Cell(rows[r]) = c})]

\* The rows of logs_by_minute a query selects.
RollupTable(rollup, q) ==
  [c \in DOMAIN rollup |-> IF RollupWhere(c, q) THEN rollup[c] ELSE 0]
=============================================================================
