------------------------------ MODULE ReadSide ------------------------------
(***************************************************************************)
(* The stores of observad between the write path and the API: what a posted *)
(* log becomes (handleIngest, Sanitize), what the writer's inserts leave in *)
(* tables logs and logs_by_minute or in memory, which store the process    *)
(* opens and with which retention (config.Load, openStore, ApplyRetention), *)
(* and the statistics, read in three queries while inserts go on.          *)
(*                                                                         *)
(* The way from a request to an insert is IngestPipeline's: here a writer   *)
(* may insert any batch of posted logs, again or for the first time.       *)
(***************************************************************************)
EXTENDS LogQuery, Sequences, Functions

CONSTANTS
  Requests,   \* bodies of POST /api/v1/logs, sequences of logs
  Params,     \* parameters of GET /api/v1/logs/stats
  Settings,   \* environments that observad may be started with
  Month,      \* retention of table logs in the schema, 30 days
  MaxNow,     \* bound of the model: the clock
  MaxAge,     \* bound of the model: how long before the start a log is from
  MaxEntries, \* bound of the model: logs posted
  MaxCalls    \* bound of the model: calls to a store

ASSUME ReadAssumption ==
  /\ Month \in Nat /\ 2 * Month >= MinuteLen
  /\ \A s \in Settings : s.retention.n \in Int
  /\ {MaxNow, MaxAge, MaxEntries, MaxCalls} \subseteq Nat

\* What binding leaves of a log of a request, and of a query string.
RequestLog ==
  [id : Int, timestamp : {t \in Int : t >= -MaxAge} \cup {NoTime}, level : STRING,
   service : Services \cup {""}, message : SUBSET Words, fits : BOOLEAN]
RequestQuery ==
  [from : RequestTime, to : RequestTime, levels : SUBSET STRING,
   services : SUBSET Services, search : SearchText,
   limit : Int, offset : Int, order : STRING, numeric : BOOLEAN]

ASSUME RequestAssumption ==
  Requests \subseteq Seq(RequestLog) /\ Params \subseteq RequestQuery

VARIABLES
  now,
  entries,   \* logs accepted, as Redis keeps them for the writer
  store,     \* the store of the process: "none" (down), "clickhouse", "memory"
  raw,       \* table logs, as FINAL shows it: a set of entries
  rollup,    \* table logs_by_minute: counts by cell
  mem,       \* MemStore.logs: a sequence of entries
  ttl,       \* time to live in tables logs and logs_by_minute
  stats,     \* the statistics request in flight
  calls,
  inserted,  \* history: per store, entries an insert has returned nil for
  sent,      \* history: how often an entry was in a batch for ClickHouse
  doomed,    \* history: entries that were ever older than the retention
  torn       \* history: a row of the rollup may expire before the logs it counts

tables == <<raw, rollup>>
history == <<inserted, sent, torn>>
vars == <<now, entries, store, tables, mem, ttl, stats, calls,
          history, doomed>>

\* When a log may be from, as long as the clock is at most t.
Instants(t) == (-MaxAge)..(t + Hour)

Cells == [bucket : {Bucket(t) : t \in Instants(MaxNow)},
          level : Levels, service : Services]

RawRows == [e \in raw |-> entries[e]]
MemRows == [i \in DOMAIN mem |-> entries[mem[i]]]

NoStats == [stage |-> "none"]

Call == calls < MaxCalls /\ calls' = calls + 1

Init ==
  /\ now = 0
  /\ entries = <<>>
  /\ store = "none"
  /\ raw = {}
  /\ rollup = [c \in Cells |-> 0]
  /\ mem = <<>>
  /\ ttl = [logs |-> Month, rollup |-> 3 * Month]
  /\ stats = NoStats
  /\ calls = 0
  /\ inserted = [clickhouse |-> {}, memory |-> {}]
  /\ sent = [e \in 1..MaxEntries |-> 0]
  /\ doomed = {}
  /\ torn = FALSE

-----------------------------------------------------------------------------
(* config.Load and main.openStore.                                         *)

\* A variable of the environment: [form |-> "unset" | "malformed" | "number", n].
Setting(v, default) == IF v.form = "unset" THEN default ELSE v.n

LoadFails(env) ==
  \/ "malformed" \in {env.batchSize.form, env.workers.form, env.retention.form}
  \/ Setting(env.batchSize, 10000) < 1
  \/ Setting(env.workers, 4) < 1

\* Two ALTERs, of which done are executed before one fails, with intervals in
\* whole seconds.
ApplyRetention(retention, done) ==
  ttl' = [logs |-> IF retention > 0 /\ done >= 1
                   THEN RoundDown(retention, Second) ELSE ttl.logs,
          rollup |-> IF retention > 0 /\ done >= 2
                     THEN RoundDown(3 * retention, Second) ELSE ttl.rollup]

\* ClickHouse answers the ping; a failing ApplyRetention is only a warning.
OpenClickHouse(env, done) ==
  /\ store' = "clickhouse"
  /\ ApplyRetention(Setting(env.retention, Month), done)
  /\ torn' = (torn \/ ttl'.rollup < ttl'.logs + MinuteLen)
  /\ UNCHANGED mem

\* It does not: the fallback, when it is allowed.
OpenMemory(env) ==
  /\ env.memstore
  /\ store' = "memory"
  /\ mem' = <<>>
  /\ UNCHANGED <<ttl, torn>>

Start(env) ==
  /\ store = "none"
  /\ ~LoadFails(env)
  /\ OpenMemory(env) \/ \E done \in 0..2 : OpenClickHouse(env, done)
  /\ UNCHANGED <<now, entries, tables, stats, calls, inserted, sent>>

\* The process ends, by a signal or a crash, and its memory with it.
Stop ==
  /\ store # "none"
  /\ store' = "none"
  /\ mem' = <<>>
  /\ stats' = NoStats
  /\ inserted' = [inserted EXCEPT !.memory = {}]
  /\ UNCHANGED <<now, entries, tables, ttl, calls, sent, torn>>

-----------------------------------------------------------------------------
(* handleIngest, and the store's InsertBatch.                              *)

\* S in increasing order (a set of one sequence).
InOrder(S) ==
  {s \in [1..Cardinality(S) -> S] :
     Range(s) = S /\ \A i, j \in DOMAIN s : i < j => s[i] < s[j]}

\* The sound logs of a request are pushed, the others reported in a 207; a
\* request without any sound log pushes nothing and is answered 207, too.
Post(request) ==
  /\ store # "none"
  /\ request # <<>>
  /\ \E good \in InOrder({i \in DOMAIN request : Sound(request[i])}) :
       /\ Len(entries) + Len(good) <= MaxEntries
       /\ entries' = entries \o
            [k \in DOMAIN good |-> Sanitize(request[good[k]], now, -(Len(entries) + k))]
  /\ UNCHANGED <<now, store, tables, mem, ttl, stats, calls, history>>

\* The statistics in flight stay comparable while the tables only grow.
StatsGoOn ==
  stats' = IF stats.stage = "none" THEN stats
           ELSE [stats EXCEPT !.calm = /\ @
                                       /\ raw \subseteq raw'
                                       /\ \A c \in Cells : rollup[c] <= rollup'[c]]

\* FINAL shows one row per id, the one inserted last.
Replace(rows) ==
  {e \in raw : \A f \in rows : entries[f].id # entries[e].id} \cup
  {e \in rows : \A f \in rows : entries[f].id = entries[e].id => f <= e}

\* The materialized view adds the counts of an inserted block.
Count(rows) ==
  rollup' = [c \in Cells |->
               rollup[c] + Cardinality({e \in rows : Cell(entries[e]) = c})]

Sending(batch) ==
  /\ store = "clickhouse"
  /\ Call
  /\ sent' = [e \in 1..MaxEntries |-> IF e \in batch THEN sent[e] + 1 ELSE sent[e]]
  /\ UNCHANGED <<now, entries, store, mem, ttl, torn>>

\* ClickHouse.InsertBatch returns nil.
InsertBatch(batch) ==
  /\ Sending(batch)
  /\ raw' = Replace(batch)
  /\ Count(batch)
  /\ inserted' = [inserted EXCEPT !.clickhouse = @ \cup batch]
  /\ StatsGoOn

\* It returns an error: a part of the rows may be in, and those counted or
\* not.
InsertFails(batch) ==
  /\ Sending(batch)
  /\ \E rows \in SUBSET batch : \E counted \in SUBSET rows :
       raw' = Replace(rows) /\ Count(counted)
  /\ StatsGoOn
  /\ UNCHANGED inserted

\* MemStore.InsertBatch: appended, whatever is there already.
MemInsert(batch) ==
  /\ store = "memory"
  /\ Call
  /\ \E logs \in InOrder(batch) : mem' = mem \o logs
  /\ inserted' = [inserted EXCEPT !.memory = @ \cup batch]
  /\ UNCHANGED <<now, entries, store, tables, ttl, stats, sent, torn>>

\* The TTL of table logs, by toDateTime(timestamp).
Outlived(l, age, time) == RoundDown(l.timestamp, Second) + age <= time

\* ClickHouse's merges drop rows that have outlived their TTL, some day.
Expire ==
  /\ \E old \in SUBSET {e \in raw : Outlived(entries[e], ttl.logs, now)},
        oldCells \in SUBSET {c \in Cells : rollup[c] > 0 /\ c.bucket + ttl.rollup <= now} :
       /\ old # {} \/ oldCells # {}
       /\ raw' = raw \ old
       /\ rollup' = [c \in Cells |-> IF c \in oldCells THEN 0 ELSE rollup[c]]
  /\ StatsGoOn
  /\ UNCHANGED <<now, entries, store, mem, ttl, calls, history>>

Tick ==
  /\ now < MaxNow
  /\ now' = now + 1
  /\ UNCHANGED <<entries, store, tables, mem, ttl, stats, calls, history>>

-----------------------------------------------------------------------------
(* handleStats.  before is history: what one query would have counted when *)
(* the request began.                                                      *)

unstats == <<now, entries, store, tables, mem, ttl, history>>

Source(q) == IF store = "memory" THEN MemTable(MemRows, q, Cells)
             ELSE IF q.search = "" THEN RollupTable(rollup, q)
             ELSE RawTable(RawRows, q, Cells)

AskStats(p) ==
  /\ store = "clickhouse"
  /\ stats = NoStats
  /\ Call
  /\ ~ParseFails(p, now)
  /\ LET q == Parse(p, now)
     IN  stats' = [stage |-> "levels", q |-> q, before |-> Source(q), calm |-> TRUE,
                   levels |-> <<>>, services |-> <<>>, histogram |-> <<>>]
  /\ UNCHANGED unstats

\* Stats of the memory store, under its lock: one table for the three figures.
MemStats(p) ==
  /\ store = "memory"
  /\ stats = NoStats
  /\ Call
  /\ ~ParseFails(p, now)
  /\ LET q == Parse(p, now)
         table == MemTable(MemRows, q, Cells)
     IN  \E top \in TopServices(table) :
           stats' = [stage |-> "done", q |-> q, before |-> table, calm |-> TRUE,
                     levels |-> ByLevel(table), services |-> top,
                     histogram |-> Histogram(table)]
  /\ UNCHANGED unstats

\* The next of the three queries, each of its own; one that fails ends the
\* request with a 500.
NextQuery(table) ==
  \/ /\ stats.stage = "levels"
     /\ stats' = [stats EXCEPT !.stage = "services", !.levels = ByLevel(table)]
  \/ /\ stats.stage = "services"
     /\ \E top \in TopServices(table) :
          stats' = [stats EXCEPT !.stage = "histogram", !.services = top]
  \/ /\ stats.stage = "histogram"
     /\ stats' = [stats EXCEPT !.stage = "done", !.histogram = Histogram(table)]

StatsFromRollup ==
  /\ stats.stage \in {"levels", "services", "histogram"}
  /\ stats.q.search = ""
  /\ NextQuery(RollupTable(rollup, stats.q)) \/ stats' = NoStats
  /\ UNCHANGED <<unstats, calls>>

\* Mutant of StatsFromRaw: the histogram query ignores the filters.
StatsFromRawUnfiltered ==
  /\ stats.stage \in {"levels", "services", "histogram"}
  /\ stats.q.search # ""
  /\ IF stats.stage = "histogram"
     THEN NextQuery([c \in Cells |-> Cardinality({e \in raw : Cell(entries[e]) = c})])
     ELSE NextQuery(RawTable(RawRows, stats.q, Cells))
  /\ UNCHANGED <<unstats, calls>>

StatsFromRaw ==
  /\ stats.stage \in {"levels", "services", "histogram"}
  /\ stats.q.search # ""
  /\ NextQuery(RawTable(RawRows, stats.q, Cells)) \/ stats' = NoStats
  /\ UNCHANGED <<unstats, calls>>

RespondStats ==
  /\ stats.stage = "done"
  /\ stats' = NoStats
  /\ UNCHANGED <<unstats, calls>>

-----------------------------------------------------------------------------
Batches == SUBSET DOMAIN entries \ {{}}

Step ==
  \/ \E env \in Settings : Start(env)
  \/ Stop
  \/ \E request \in Requests : Post(request)
  \/ \E batch \in Batches : InsertBatch(batch)
  \/ \E batch \in Batches : InsertFails(batch)
  \/ \E batch \in Batches : MemInsert(batch)
  \/ Expire
  \/ Tick
  \/ \E p \in Params : AskStats(p)
  \/ \E p \in Params : MemStats(p)
  \/ StatsFromRollup
  \/ StatsFromRaw
  \/ RespondStats

\* Every step brings the history up to date.
Next ==
  /\ Step
  /\ doomed' = doomed \cup
       {e \in DOMAIN entries' : Outlived(entries'[e], ttl'.logs, now')}

Spec == Init /\ [][Next]_vars
-----------------------------------------------------------------------------
(* Properties.                                                             *)

Log == [id : Int, timestamp : Int, level : Levels, service : Services,
        message : SUBSET Words]

TypeOK ==
  /\ now \in 0..MaxNow
  /\ entries \in Seq(Log) /\ Len(entries) <= MaxEntries
  /\ \A e \in DOMAIN entries : entries[e].timestamp \in Instants(now)
  /\ store \in {"none", "clickhouse", "memory"}
  /\ raw \subseteq DOMAIN entries
  /\ rollup \in [Cells -> Nat]
  /\ mem \in Seq(DOMAIN entries)
  /\ ttl \in [logs : Nat, rollup : Nat]
  /\ inserted \in [clickhouse : SUBSET DOMAIN entries, memory : SUBSET DOMAIN entries]
  /\ calls \in 0..MaxCalls
  /\ doomed \subseteq DOMAIN entries /\ torn \in BOOLEAN

\* The first whole second that is not before t.
NextSecond(t) == -RoundDown(-t, Second)

\* The narrowest request that finds a log: from its timestamp to the end of
\* its second.
Narrowest(l) ==
  [from |-> [form |-> "instant", n |-> l.timestamp],
   to |-> [form |-> "instant", n |-> NextSecond(l.timestamp)],
   levels |-> {l.level}, services |-> {l.service},
   search |-> CHOOSE w \in l.message : TRUE,
   limit |-> 0, offset |-> 0, order |-> "", numeric |-> TRUE]

Selected(q) ==
  IF store = "memory"
  THEN {MemRows[i] : i \in {j \in DOMAIN mem : Matches(MemRows[j], q)}}
  ELSE {RawRows[e] : e \in Found(RawRows, q)}

Promised == IF store = "memory" THEN inserted.memory
            ELSE inserted.clickhouse \ doomed

\* A log that was inserted can be found by its own timestamp, level, service
\* and words, whatever the client had written there: in ClickHouse until it
\* is older than the retention, in the fallback store (main.go 168-171) as
\* long as this process runs, unless another log came with the same id.  The
\* range must reach the next whole second: of an upper bound ClickHouse gets
\* no more (clickhouse.go 387).
Findable ==
  store # "none" =>
    \A e \in Promised :
      (\A f \in DOMAIN entries \ {e} : entries[f].id # entries[e].id) =>
        LET p == Narrowest(entries[e])
        IN  ~ParseFails(p, now) /\ entries[e] \in Selected(Parse(p, now))

\* l satisfies q but for less than a minute.
Near(l, q) ==
  /\ q.from # NoTime => l.timestamp > q.from - MinuteLen
  /\ q.to # NoTime => l.timestamp < q.to + MinuteLen
  /\ q.levels # {} => l.level \in q.levels
  /\ q.services # {} => l.service \in q.services

\* The statistics' total, read from logs_by_minute (clickhouse.go 412), is at
\* least the number of inserted logs a search with the same filters finds,
\* and counts only logs within a minute of the range, each as often as it was
\* sent.  The lower bound needs the rollup's retention to be a minute longer
\* than that of the logs: ApplyRetention's second statement may fail
\* (clickhouse.go 66-79), and three times a few seconds are too little.
RollupWithinMinute ==
  \A p \in Params :
    LET q == Parse(p, now)
        total == Total(ByLevel(RollupTable(rollup, q)))
    IN  ~ParseFails(p, now) /\ q.search = "" =>
          /\ torn \/ Cardinality({e \in Found(RawRows, q) :
                                     e \in inserted.clickhouse \ doomed}) <= total
          /\ total <= MapThenSumSet(LAMBDA e : sent[e],
                        {e \in DOMAIN entries : Near(entries[e], q)})

\* The three figures of one answer come from three queries (clickhouse.go
\* 192-373).  While the tables only grow, each lies between what held when
\* the request began and what holds now, and the histogram of a level is
\* never behind its total.
StatsBetween ==
  stats.stage = "done" /\ stats.calm =>
    LET table == Source(stats.q)
        service(t, s) == SumOver(t, {c \in Cells : c.service = s})
    IN  /\ \A v \in Levels :
             LET bars == SumOver(stats.histogram,
                           {b \in DOMAIN stats.histogram : b.level = v})
             IN  /\ ByLevel(stats.before)[v] <= stats.levels[v]
                 /\ stats.levels[v] <= bars
                 /\ store = "clickhouse" => bars <= ByLevel(table)[v]
        /\ \A s \in DOMAIN stats.services :
             /\ service(stats.before, s) <= stats.services[s]
             /\ store = "clickhouse" => stats.services[s] <= service(table, s)

\* Both stores can answer a search with the same rows, and with the same
\* total unless the page is empty (clickhouse.go 175).
SameAnswers(q) ==
  LET others == MemSearch(RawRows, q)
  IN  \A page \in ClickHouseSearch(RawRows, q) :
        \E other \in others :
          /\ other.logs = page.logs
          /\ page.logs # {} => other.total = page.total

\* memstore.go 121: matches mirrors ClickHouse WHERE filtering.
StoresAgree == \A p \in Params : ~ParseFails(p, now) => SameAnswers(Parse(p, now))

\* How far it does: over the same logs the two stores disagree only about logs
\* in the very second of a bound.  ClickHouse finds some that are before the
\* range, and misses some at its end; where both bounds are whole seconds, both
\* stores answer alike.
AgreeToTheSecond ==
  \A p \in Params :
    ~ParseFails(p, now) =>
      LET q == Parse(p, now)
          table == Found(RawRows, q)
          memory == {e \in raw : Matches(entries[e], q)}
          second(e) == RoundDown(entries[e].timestamp, Second)
      IN  /\ \A e \in table \ memory :
                 q.from # NoTime /\ second(e) = Bind(q.from) /\ entries[e].timestamp < q.from
          /\ \A e \in memory \ table :
                 q.to # NoTime /\ second(e) = Bind(q.to) /\ entries[e].timestamp > second(e)
          /\ Bind(q.from) = q.from /\ Bind(q.to) = q.to => SameAnswers(q)
=============================================================================
