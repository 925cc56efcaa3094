--------------------------- MODULE ReadSideProofs ---------------------------
(***************************************************************************)
(* Theorems about ReadSide, for all requests, parameters, settings and     *)
(* bounds: types, that inserted logs are found, where the two stores       *)
(* disagree, how far the rollup is from the logs, that three queries make  *)
(* one answer, and that there is one.                                      *)
(***************************************************************************)
EXTENDS ReadSide, LogQueryProofs, FiniteSetTheorems

-----------------------------------------------------------------------------
(* Sequences and sets.                                                     *)

\* An enumeration of a finite set is a sequence of its members.
LEMMA InOrderType ==
  ASSUME NEW S, IsFiniteSet(S), NEW s \in InOrder(S)
  PROVE  s \in Seq(S) /\ Range(s) = S
<1>1. Cardinality(S) \in Nat
  BY FS_CardinalityType
<1>2. s \in [1..Cardinality(S) -> S] /\ Range(s) = S
  BY DEF InOrder
<1> QED BY <1>1, <1>2

\* The positions of a sequence are a finite set.
LEMMA DomainFinite ==
  ASSUME NEW T, NEW s \in Seq(T), NEW R \in SUBSET DOMAIN s
  PROVE  IsFiniteSet(R) /\ Cardinality(R) \in Nat
<1>1. DOMAIN s = 1..Len(s) /\ Len(s) \in Nat
  OBVIOUS
<1>2. IsFiniteSet(1..Len(s))
  BY <1>1, FS_Interval
<1> QED BY <1>1, <1>2, FS_Subset, FS_CardinalityType

\* What appending does to the elements that are there.
LEMMA Appended ==
  ASSUME NEW T, NEW s \in Seq(T), NEW t \in Seq(T)
  PROVE  /\ s \o t \in Seq(T)
         /\ Len(s \o t) = Len(s) + Len(t)
         /\ DOMAIN s \subseteq DOMAIN (s \o t)
         /\ \A i \in DOMAIN s : (s \o t)[i] = s[i]
         /\ \A i \in DOMAIN (s \o t) \ DOMAIN s :
              i - Len(s) \in DOMAIN t /\ (s \o t)[i] = t[i - Len(s)]
         /\ Range(s \o t) = Range(s) \cup Range(t)
<1>1. /\ DOMAIN s = 1..Len(s) /\ DOMAIN t = 1..Len(t)
      /\ Len(s) \in Nat /\ Len(t) \in Nat
  OBVIOUS
<1>2. s \o t \in Seq(T) /\ Len(s \o t) = Len(s) + Len(t)
  OBVIOUS
<1>3. DOMAIN (s \o t) = 1..(Len(s) + Len(t))
  BY <1>2
<1>4. \A i \in 1..Len(s) : (s \o t)[i] = s[i]
  BY <1>1
<1>5. \A i \in (1..(Len(s) + Len(t))) \ (1..Len(s)) :
        i - Len(s) \in 1..Len(t) /\ (s \o t)[i] = t[i - Len(s)]
  BY <1>1
<1>6. ASSUME NEW j \in 1..Len(t)
      PROVE  Len(s) + j \in 1..(Len(s) + Len(t)) /\ (s \o t)[Len(s) + j] = t[j]
  BY <1>1
<1>7. Range(s \o t) = Range(s) \cup Range(t)
  <2>1. ASSUME NEW x \in Range(s \o t) PROVE x \in Range(s) \cup Range(t)
    <3>1. PICK i \in 1..(Len(s) + Len(t)) : x = (s \o t)[i]
      BY <1>3 DEF Range
    <3> QED BY <1>1, <1>4, <1>5, <3>1 DEF Range
  <2>2. ASSUME NEW x \in Range(s) PROVE x \in Range(s \o t)
    BY <1>1, <1>3, <1>4, <2>2 DEF Range
  <2>3. ASSUME NEW x \in Range(t) PROVE x \in Range(s \o t)
    BY <1>1, <1>3, <1>6, <2>3 DEF Range
  <2> QED BY <2>1, <2>2, <2>3
<1> QED BY <1>1, <1>2, <1>3, <1>4, <1>5, <1>7

-----------------------------------------------------------------------------
(* What is posted.                                                         *)

Worded(l) == l.message # {}

\* NormalizeLevel returns a level, whatever the client has written.
LEMMA LevelType == \A v : NormalizeLevel(v) \in Levels
  BY DEF NormalizeLevel, Levels

\* A sound log of a request becomes a log of the tables, not ahead of the
\* clock by more than an hour.
LEMMA SanitizeType ==
  ASSUME NEW l, Sound(l), NEW fresh \in Int, now \in Nat,
         l \in RequestLog
  PROVE  /\ Sanitize(l, now, fresh) \in Log
         /\ Worded(Sanitize(l, now, fresh))
         /\ Sanitize(l, now, fresh).timestamp \in Instants(now)
<1>1. /\ l.id \in Int /\ l.message \in SUBSET Words
      /\ l.timestamp \in {t \in Int : t >= -MaxAge} \cup {NoTime}
  BY DEF RequestLog
<1>2. l.service \in Services /\ l.message # {}
  <2>1. l.service \in Services \cup {""} /\ l.service # "" /\ l.message # {}
    BY Zenon DEF Sound, RequestLog
  <2> QED BY <2>1, Zenon
<1>3. Hour \in Nat /\ MaxAge \in Nat
  BY QueryAssumption, ReadAssumption
<1> DEFINE t == IF l.timestamp = NoTime \/ l.timestamp > now + Hour THEN now ELSE l.timestamp
           i == IF l.id = 0 THEN fresh ELSE l.id
           v == IF l.level \in Levels THEN l.level ELSE NormalizeLevel(l.level)
<1>4. t \in Instants(now) /\ t \in Int
  <2>1. CASE t = now
    BY <1>3, <2>1 DEF Instants
  <2>2. CASE t # now
    <3>1. l.timestamp # NoTime /\ ~(l.timestamp > now + Hour) /\ t = l.timestamp
      BY <2>2, Zenon
    <3>2. l.timestamp \in {u \in Int : u >= -MaxAge}
      BY <1>1, <3>1, Zenon
    <3> HIDE DEF t
    <3> QED BY <1>3, <3>1, <3>2 DEF Instants
  <2> QED BY <2>1, <2>2
<1>5. i \in Int
  BY <1>1
<1>6. v \in Levels
  BY LevelType
<1>7. Sanitize(l, now, fresh) =
        [id |-> i, timestamp |-> t, level |-> v, service |-> l.service, message |-> l.message]
  BY DEF Sanitize
<1> HIDE DEF t, i, v
<1>8. Sanitize(l, now, fresh).timestamp = t /\ Sanitize(l, now, fresh).message # {}
  BY <1>2, <1>7
<1>9. Sanitize(l, now, fresh) \in Log
  BY <1>1, <1>2, <1>4, <1>5, <1>6, <1>7 DEF Log
<1> QED BY <1>4, <1>8, <1>9 DEF Worded

\* handleIngest appends logs of the tables' types.
LEMMA PostType ==
  ASSUME TypeOK, NEW request \in Requests, Post(request)
  PROVE  \E new \in Seq(Log) :
           /\ entries' = entries \o new
           /\ Len(entries) + Len(new) <= MaxEntries
           /\ \A k \in DOMAIN new : Worded(new[k]) /\ new[k].timestamp \in Instants(now)
<1> DEFINE S == {i \in DOMAIN request : Sound(request[i])}
<1>1. request \in Seq(RequestLog)
  BY RequestAssumption, Zenon
<1>2. PICK good \in InOrder(S) :
        /\ Len(entries) + Len(good) <= MaxEntries
        /\ entries' = entries \o
             [k \in DOMAIN good |-> Sanitize(request[good[k]], now, -(Len(entries) + k))]
  BY Zenon DEF Post
<1> DEFINE new == [k \in DOMAIN good |->
                     Sanitize(request[good[k]], now, -(Len(entries) + k))]
<1>3. \A i \in S : request[i] \in RequestLog /\ Sound(request[i])
  BY <1>1
<1>4. IsFiniteSet(S)
  BY <1>1, DomainFinite
<1> HIDE DEF S
<1>5. good \in Seq(S)
  BY <1>4, InOrderType
<1>6. now \in Nat /\ Len(entries) \in Int
  BY ReadAssumption DEF TypeOK
<1>7. ASSUME NEW k \in DOMAIN good
      PROVE  new[k] \in Log /\ Worded(new[k]) /\ new[k].timestamp \in Instants(now)
  <2>1. good[k] \in S /\ k \in Int
    BY <1>5
  <2>2. -(Len(entries) + k) \in Int
    BY <1>6, <2>1
  <2>3. new[k] = Sanitize(request[good[k]], now, -(Len(entries) + k))
    OBVIOUS
  <2> HIDE DEF new
  <2>4. request[good[k]] \in RequestLog /\ Sound(request[good[k]])
    BY <1>3, <2>1
  <2>5. \A l \in RequestLog, fresh \in Int :
          Sound(l) => /\ Sanitize(l, now, fresh) \in Log
                      /\ Worded(Sanitize(l, now, fresh))
                      /\ Sanitize(l, now, fresh).timestamp \in Instants(now)
    BY <1>6, SanitizeType, Zenon
  <2> QED BY <2>2, <2>3, <2>4, <2>5
<1>8. new \in Seq(Log) /\ Len(new) = Len(good) /\ DOMAIN new = DOMAIN good
  <2>1. DOMAIN new = DOMAIN good
    OBVIOUS
  <2>2. DOMAIN good = 1..Len(good) /\ Len(good) \in Nat
    BY <1>5
  <2>3. new \in [1..Len(good) -> Log]
    BY <1>7, <2>1, <2>2
  <2> HIDE DEF new
  <2> QED BY <2>1, <2>2, <2>3
<1> HIDE DEF new
<1> QED BY <1>2, <1>7, <1>8 DEF new

-----------------------------------------------------------------------------
(* Types.                                                                  *)

\* TypeOK without the history of expiry, which every step updates alike.
Typed ==
  /\ now \in 0..MaxNow
  /\ entries \in Seq(Log) /\ Len(entries) <= MaxEntries
  /\ \A e \in DOMAIN entries : entries[e].timestamp \in Instants(now)
  /\ store \in {"none", "clickhouse", "memory"}
  /\ raw \subseteq DOMAIN entries
  /\ rollup \in [Cells -> Nat]
  /\ mem \in Seq(DOMAIN entries)
  /\ ttl \in [logs : Nat, rollup : Nat]
  /\ inserted \in [clickhouse : SUBSET DOMAIN entries, memory : SUBSET DOMAIN entries]
  /\ calls \in 0..MaxCalls
  /\ torn \in BOOLEAN

\* A statistics request changes neither store.
LEMMA StatsSteps ==
  ASSUME \/ \E p \in Params : AskStats(p)
         \/ \E p \in Params : MemStats(p)
         \/ StatsFromRollup
         \/ StatsFromRaw
         \/ RespondStats
  PROVE  UNCHANGED unstats /\ (Call \/ UNCHANGED calls)
BY Zenon DEF AskStats, MemStats, StatsFromRollup, StatsFromRaw, RespondStats

\* What is rounded down from a positive time is not negative.
LEMMA RoundDownNat ==
  ASSUME NEW t \in Nat
  PROVE  RoundDown(t, Second) \in Nat
<1>1. Second \in Nat \ {0}
  BY QueryAssumption
<1>2. Second * 0 <= RoundDown(t, Second)
  BY <1>1, RoundDownGreatest
<1>3. RoundDown(t, Second) \in Int
  BY <1>1, RoundDownFacts
<1> QED BY <1>1, <1>2, <1>3

\* config.Load yields a retention in whole ticks or fails.
LEMMA RetentionType ==
  ASSUME NEW env \in Settings, ttl \in [logs : Nat, rollup : Nat], NEW done,
         ApplyRetention(Setting(env.retention, Month), done)
  PROVE  ttl' \in [logs : Nat, rollup : Nat]
<1>1. Setting(env.retention, Month) \in Int
  BY ReadAssumption DEF Setting
<1> HIDE DEF Setting
<1> DEFINE r == Setting(env.retention, Month)
<1>2. r \in Int
  BY <1>1
<1> HIDE DEF r
<1>3. r > 0 => RoundDown(r, Second) \in Nat /\ RoundDown(3 * r, Second) \in Nat
  BY <1>2, RoundDownNat
<1>4. ttl' = [logs |-> IF r > 0 /\ done >= 1 THEN RoundDown(r, Second) ELSE ttl.logs,
              rollup |-> IF r > 0 /\ done >= 2 THEN RoundDown(3 * r, Second) ELSE ttl.rollup]
  BY Zenon DEF ApplyRetention, r
<1> QED BY <1>3, <1>4

\* The view adds natural numbers.
LEMMA CountType ==
  ASSUME Typed, NEW rows \in SUBSET DOMAIN entries, Count(rows)
  PROVE  rollup' \in [Cells -> Nat]
<1>1. \A c \in Cells : Cardinality({e \in rows : Cell(entries[e]) = c}) \in Nat
  <2> SUFFICES ASSUME NEW c \in Cells
               PROVE  Cardinality({e \in rows : Cell(entries[e]) = c}) \in Nat
    OBVIOUS
  <2> DEFINE R == {e \in rows : Cell(entries[e]) = c}
  <2>1. R \in SUBSET DOMAIN entries
    OBVIOUS
  <2>2. entries \in Seq(Log)
    BY DEF Typed
  <2> HIDE DEF R
  <2>3. Cardinality(R) \in Nat
    BY <2>1, <2>2, DomainFinite
  <2> QED BY <2>3 DEF R
<1>2. rollup \in [Cells -> Nat]
  BY DEF Typed
<1> QED BY <1>1, <1>2 DEF Count

\* FINAL shows rows that were there or come.
LEMMA ReplaceType ==
  ASSUME NEW rows
  PROVE  Replace(rows) \subseteq raw \cup rows
BY DEF Replace

LEMMA TypeInit == Init => TypeOK
<1> SUFFICES ASSUME Init PROVE TypeOK
  OBVIOUS
<1>1. Month \in Nat /\ MaxNow \in Nat /\ MaxEntries \in Nat /\ MaxCalls \in Nat
  BY ReadAssumption
<1>2. entries \in Seq(Log) /\ Len(entries) <= MaxEntries /\ DOMAIN entries = {}
  BY <1>1 DEF Init
<1>3. rollup \in [Cells -> Nat] /\ mem \in Seq(DOMAIN entries)
  BY DEF Init
<1>4. /\ now \in 0..MaxNow /\ calls \in 0..MaxCalls
      /\ store \in {"none", "clickhouse", "memory"}
  BY <1>1 DEF Init
<1>7. torn \in BOOLEAN
  BY Zenon DEF Init
<1>6. ttl \in [logs : Nat, rollup : Nat]
  <2>1. ttl = [logs |-> Month, rollup |-> 3 * Month] /\ 3 * Month \in Nat
    BY <1>1 DEF Init
  <2> QED BY <1>1, <2>1
<1>5. /\ raw \subseteq DOMAIN entries /\ doomed \subseteq DOMAIN entries
      /\ inserted \in [clickhouse : SUBSET DOMAIN entries, memory : SUBSET DOMAIN entries]
  BY DEF Init
<1> QED BY <1>2, <1>3, <1>4, <1>5, <1>6, <1>7 DEF TypeOK

LEMMA TypedStart ==
  ASSUME Typed, NEW env \in Settings, Start(env)
  PROVE  Typed'
<1>1. CASE OpenMemory(env)
  BY <1>1 DEF Start, OpenMemory, Typed, tables
<1>2. ASSUME NEW done \in 0..2, OpenClickHouse(env, done)
      PROVE  Typed'
  <2>1. ttl' \in [logs : Nat, rollup : Nat]
    BY <1>2, RetentionType DEF OpenClickHouse, Typed
  <2>2. torn' \in BOOLEAN /\ store' = "clickhouse" /\ UNCHANGED mem
    BY <1>2 DEF OpenClickHouse, Typed
  <2> QED BY <2>1, <2>2 DEF Start, Typed, tables
<1> QED BY <1>1, <1>2 DEF Start

LEMMA TypedPost ==
  ASSUME TypeOK, Typed, NEW request \in Requests, Post(request)
  PROVE  Typed' /\ DOMAIN entries \subseteq DOMAIN entries'
<1>1. PICK new \in Seq(Log) :
        /\ entries' = entries \o new
        /\ Len(entries) + Len(new) <= MaxEntries
        /\ \A k \in DOMAIN new : Worded(new[k]) /\ new[k].timestamp \in Instants(now)
  BY PostType
<1>2. UNCHANGED <<now, store, raw, rollup, mem, ttl, calls, inserted, torn>>
  BY Zenon DEF Post, tables, history
<1>3. /\ entries' \in Seq(Log)
      /\ Len(entries') = Len(entries) + Len(new)
      /\ DOMAIN entries \subseteq DOMAIN entries'
      /\ \A i \in DOMAIN entries : entries'[i] = entries[i]
      /\ \A i \in DOMAIN entries' \ DOMAIN entries :
           i - Len(entries) \in DOMAIN new /\ entries'[i] = new[i - Len(entries)]
  BY <1>1, Appended DEF Typed
<1>4. \A i \in DOMAIN entries' : entries'[i].timestamp \in Instants(now)
  BY <1>1, <1>3 DEF Typed
<1>5. mem \in Seq(DOMAIN entries')
  BY <1>3 DEF Typed
<1> QED BY <1>1, <1>2, <1>3, <1>4, <1>5 DEF Typed

LEMMA TypedStep ==
  ASSUME TypeOK, Typed, Step
  PROVE  Typed' /\ DOMAIN entries \subseteq DOMAIN entries'
<1>1. ASSUME NEW env \in Settings, Start(env)
      PROVE  Typed' /\ DOMAIN entries \subseteq DOMAIN entries'
  <2>1. Typed'
    BY <1>1, TypedStart
  <2> QED BY <1>1, <2>1 DEF Start
<1>2. CASE Stop
  <2>1. /\ UNCHANGED <<now, entries, raw, rollup, ttl, calls, torn>>
        /\ store' = "none" /\ mem' = <<>>
        /\ inserted' = [inserted EXCEPT !.memory = {}]
    BY <1>2, Zenon DEF Stop, tables
  <2>2. mem' \in Seq(DOMAIN entries)
    BY <2>1
  <2>3. inserted' \in [clickhouse : SUBSET DOMAIN entries, memory : SUBSET DOMAIN entries]
    BY <2>1 DEF Typed
  <2> QED BY <2>1, <2>2, <2>3 DEF Typed
<1>3. ASSUME NEW request \in Requests, Post(request)
      PROVE  Typed' /\ DOMAIN entries \subseteq DOMAIN entries'
  BY <1>3, TypedPost
<1>4. ASSUME NEW batch \in Batches, InsertBatch(batch)
      PROVE  Typed' /\ DOMAIN entries \subseteq DOMAIN entries'
  <2>1. /\ UNCHANGED <<now, entries, store, mem, ttl, torn>>
        /\ calls < MaxCalls /\ calls' = calls + 1
        /\ raw' = Replace(batch) /\ Count(batch)
        /\ inserted' = [inserted EXCEPT !.clickhouse = @ \cup batch]
    BY <1>4, Zenon DEF InsertBatch, Sending, Call
  <2>2. batch \in SUBSET DOMAIN entries
    BY DEF Batches
  <2>3. raw' \subseteq DOMAIN entries
    BY <2>1, <2>2, ReplaceType DEF Typed
  <2>4. rollup' \in [Cells -> Nat]
    BY <2>1, <2>2, CountType
  <2>5. inserted' \in [clickhouse : SUBSET DOMAIN entries, memory : SUBSET DOMAIN entries]
    BY <2>1, <2>2 DEF Typed
  <2>6. calls' \in 0..MaxCalls
    BY <2>1, ReadAssumption DEF Typed
  <2> QED BY <2>1, <2>3, <2>4, <2>5, <2>6 DEF Typed
<1>5. ASSUME NEW batch \in Batches, InsertFails(batch)
      PROVE  Typed' /\ DOMAIN entries \subseteq DOMAIN entries'
  <2>1. /\ UNCHANGED <<now, entries, store, mem, ttl, torn, inserted>>
        /\ calls < MaxCalls /\ calls' = calls + 1
    BY <1>5, Zenon DEF InsertFails, Sending, Call
  <2>2. PICK rows \in SUBSET batch : \E counted \in SUBSET rows :
          raw' = Replace(rows) /\ Count(counted)
    BY <1>5, Zenon DEF InsertFails
  <2>3. PICK counted \in SUBSET rows : raw' = Replace(rows) /\ Count(counted)
    BY <2>2
  <2>4. rows \in SUBSET DOMAIN entries /\ counted \in SUBSET DOMAIN entries
    BY <2>2, <2>3 DEF Batches
  <2>5. raw' \subseteq DOMAIN entries
    BY <2>3, <2>4, ReplaceType DEF Typed
  <2>6. rollup' \in [Cells -> Nat]
    BY <2>3, <2>4, CountType
  <2>7. calls' \in 0..MaxCalls
    BY <2>1, ReadAssumption DEF Typed
  <2> QED BY <2>1, <2>5, <2>6, <2>7 DEF Typed
<1>6. ASSUME NEW batch \in Batches, MemInsert(batch)
      PROVE  Typed' /\ DOMAIN entries \subseteq DOMAIN entries'
  <2>1. /\ UNCHANGED <<now, entries, store, raw, rollup, ttl, torn>>
        /\ calls < MaxCalls /\ calls' = calls + 1
        /\ inserted' = [inserted EXCEPT !.memory = @ \cup batch]
    BY <1>6, Zenon DEF MemInsert, Call, tables
  <2>2. PICK logs \in InOrder(batch) : mem' = mem \o logs
    BY <1>6, Zenon DEF MemInsert
  <2>3. batch \in SUBSET DOMAIN entries
    BY DEF Batches
  <2>4. logs \in Seq(batch)
    BY <2>3, DomainFinite, InOrderType DEF Typed
  <2>5. mem' \in Seq(DOMAIN entries)
    <3>1. logs \in Seq(DOMAIN entries)
      BY <2>3, <2>4
    <3>2. mem \in Seq(DOMAIN entries)
      BY DEF Typed
    <3> QED BY <2>2, <3>1, <3>2, Appended
  <2>6. inserted' \in [clickhouse : SUBSET DOMAIN entries, memory : SUBSET DOMAIN entries]
    BY <2>1, <2>3 DEF Typed
  <2>7. calls' \in 0..MaxCalls
    BY <2>1, ReadAssumption DEF Typed
  <2> QED BY <2>1, <2>5, <2>6, <2>7 DEF Typed
<1>7. CASE Expire
  <2>1. UNCHANGED <<now, entries, store, mem, ttl, calls, inserted, torn>>
    BY <1>7, Zenon DEF Expire, history
  <2>2. raw' \subseteq raw /\ rollup' \in [Cells -> Nat]
    BY <1>7 DEF Expire, Typed
  <2> QED BY <2>1, <2>2 DEF Typed
<1>8. CASE Tick
  <2>1. UNCHANGED <<entries, store, raw, rollup, mem, ttl, calls, inserted, torn>>
    BY <1>8, Zenon DEF Tick, tables, history
  <2>2. now < MaxNow /\ now' = now + 1
    BY <1>8 DEF Tick
  <2>3. now' \in 0..MaxNow /\ Instants(now) \subseteq Instants(now')
    BY <2>2, ReadAssumption, QueryAssumption DEF Typed, Instants
  <2>4. \A e \in DOMAIN entries : entries[e].timestamp \in Instants(now')
    BY <2>3 DEF Typed
  <2> QED BY <2>1, <2>3, <2>4 DEF Typed
<1>9. ASSUME UNCHANGED unstats, Call \/ UNCHANGED calls
      PROVE  Typed' /\ DOMAIN entries \subseteq DOMAIN entries'
  <2>1. calls' \in 0..MaxCalls
    BY <1>9, ReadAssumption DEF Typed, Call
  <2> QED BY <1>9, <2>1 DEF Typed, unstats, tables, history
<1> QED BY <1>1, <1>2, <1>3, <1>4, <1>5, <1>6, <1>7, <1>8, <1>9, StatsSteps, Zenon DEF Step

LEMMA TypeNext == TypeOK /\ [Next]_vars => TypeOK'
<1> SUFFICES ASSUME TypeOK, [Next]_vars PROVE TypeOK'
  OBVIOUS
<1>1. Typed /\ doomed \subseteq DOMAIN entries
  BY DEF TypeOK, Typed
<1>2. CASE UNCHANGED vars
  BY <1>2 DEF TypeOK, vars, tables, history
<1>3. CASE Next
  <2>1. Step
    BY <1>3 DEF Next
  <2>2. doomed' = doomed \cup
          {e \in DOMAIN entries' : Outlived(entries'[e], ttl'.logs, now')}
    BY <1>3 DEF Next
  <2>3. Typed' /\ DOMAIN entries \subseteq DOMAIN entries'
    BY <1>1, <2>1, TypedStep
  <2>4. doomed' \subseteq DOMAIN entries'
    BY <1>1, <2>2, <2>3
  <2> QED BY <2>3, <2>4 DEF TypeOK, Typed
<1> QED BY <1>2, <1>3

\* Every value keeps its type: above all, no log is ahead of the clock by
\* more than an hour (model/log.go 103) and no time to live is negative.
THEOREM ReadTypes == Spec => []TypeOK
<1> QED BY TypeInit, TypeNext, PTL DEF Spec

-----------------------------------------------------------------------------
(* The two stores.                                                         *)

\* The logs of the tables are logs as the filters take them.
LEMMA LogStored == Log = StoredLog
BY DEF Log, StoredLog

\* A request that is not refused becomes a query as the filters take it.
LEMMA ParseType ==
  ASSUME NEW p \in RequestQuery, NEW t \in Int, ~ParseFails(p, t)
  PROVE  Parse(p, t) \in ParsedQuery
<1>1. \A b \in RequestTime : ParseTime(b, t) \in Bound
  BY DEF RequestTime, ParseTime, Bound
<1>2. /\ p.from \in RequestTime /\ p.to \in RequestTime
      /\ p.services \in SUBSET Services /\ p.search \in SearchText
      /\ p.limit \in Int /\ p.offset \in Int /\ p.order \in STRING
  BY DEF RequestQuery
<1>3. p.levels \in SUBSET Levels
  BY DEF ParseFails
<1>4. DefaultLimit \in Int /\ MaxLimit \in Int
  BY QueryAssumption
<1> DEFINE r == [from |-> ParseTime(p.from, t), to |-> ParseTime(p.to, t),
                 levels |-> p.levels, services |-> p.services, search |-> p.search,
                 limit |-> p.limit, offset |-> p.offset, order |-> p.order]
           R == [from : Bound, to : Bound, levels : SUBSET Levels,
                 services : SUBSET Services, search : SearchText,
                 limit : Int, offset : Int, order : STRING]
<1>5. r \in R
  BY <1>1, <1>2, <1>3
<1>6. Parse(p, t) = Clamp(r)
  BY Zenon DEF Parse
<1> HIDE DEF r
<1>7. Clamp(r) \in ParsedQuery
  <2>1. r.limit \in Int /\ r.offset \in Int
    BY <1>5
  <2> DEFINE n == IF r.limit <= 0 THEN DefaultLimit
                  ELSE IF r.limit > MaxLimit THEN MaxLimit ELSE r.limit
             k == IF r.offset < 0 THEN 0 ELSE r.offset
             o == IF r.order = "asc" THEN r.order ELSE "desc"
  <2>2. n \in Int /\ k \in Int /\ o \in {"asc", "desc"}
    BY <1>4, <2>1
  <2>3. Clamp(r) = [r EXCEPT !.limit = n, !.offset = k, !.order = o]
    BY Zenon DEF Clamp
  <2> HIDE DEF n, k, o
  <2> QED BY <1>5, <2>2, <2>3 DEF ParsedQuery
<1> QED BY <1>6, <1>7

\* Where the filters agree, so do the answers.
LEMMA SameFoundSameAnswers ==
  ASSUME NEW q, Found(RawRows, q) = {r \in DOMAIN RawRows : Matches(RawRows[r], q)}
  PROVE  SameAnswers(q)
<1> SUFFICES ASSUME NEW page \in ClickHouseSearch(RawRows, q)
             PROVE  \E other \in MemSearch(RawRows, q) :
                      /\ other.logs = page.logs
                      /\ page.logs # {} => other.total = page.total
  BY DEF SameAnswers
<1> DEFINE found == Found(RawRows, q)
<1>1. PICK rows \in Slices(RawRows, found, q) :
        page = [logs |-> rows, total |-> IF rows = {} THEN 0 ELSE Cardinality(found)]
  BY DEF ClickHouseSearch
<1>2. found = {r \in DOMAIN RawRows : Matches(RawRows[r], q)}
  OBVIOUS
<1> HIDE DEF found
<1>3. [logs |-> rows, total |-> Cardinality(found)] \in MemSearch(RawRows, q)
  BY <1>2, Zenon DEF MemSearch
<1> QED BY <1>1, <1>3

LEMMA AgreeAlways == TypeOK => AgreeToTheSecond
<1> SUFFICES ASSUME TypeOK, NEW p \in Params, ~ParseFails(p, now), NEW q, q = Parse(p, now)
             PROVE
      LET table == Found(RawRows, q)
          memory == {e \in raw : Matches(entries[e], q)}
          second(e) == RoundDown(entries[e].timestamp, Second)
      IN  /\ \A e \in table \ memory :
                 q.from # NoTime /\ second(e) = Bind(q.from) /\ entries[e].timestamp < q.from
          /\ \A e \in memory \ table :
                 q.to # NoTime /\ second(e) = Bind(q.to) /\ entries[e].timestamp > second(e)
          /\ Bind(q.from) = q.from /\ Bind(q.to) = q.to => SameAnswers(q)
  BY Zenon DEF AgreeToTheSecond
<1> DEFINE table == Found(RawRows, q)
           memory == {e \in raw : Matches(entries[e], q)}
<1>1. q \in ParsedQuery
  <2>1. now \in Int
    BY ReadAssumption DEF TypeOK
  <2>2. p \in RequestQuery
    BY RequestAssumption, Zenon
  <2> QED BY <2>1, <2>2, ParseType
<1>2. /\ DOMAIN RawRows = raw
      /\ \A e \in raw : RawRows[e] = entries[e] /\ entries[e] \in StoredLog
  BY LogStored DEF TypeOK, RawRows
<1>3. /\ \A e \in table : e \in raw /\ Where(entries[e], q)
      /\ \A e \in raw : Where(entries[e], q) => e \in table
  BY <1>2 DEF Found
<1> HIDE DEF table
<1>4. ASSUME NEW e \in table \ memory
      PROVE  /\ q.from # NoTime
             /\ RoundDown(entries[e].timestamp, Second) = Bind(q.from)
             /\ entries[e].timestamp < q.from
  <2>1. e \in raw /\ Where(entries[e], q) /\ ~Matches(entries[e], q)
    BY <1>3
  <2> QED BY <1>1, <1>2, <2>1, FiltersDiffer
<1>5. ASSUME NEW e \in memory \ table
      PROVE  /\ q.to # NoTime
             /\ RoundDown(entries[e].timestamp, Second) = Bind(q.to)
             /\ entries[e].timestamp > RoundDown(entries[e].timestamp, Second)
  <2>1. e \in raw /\ ~Where(entries[e], q) /\ Matches(entries[e], q)
    BY <1>3
  <2>2. /\ q.to # NoTime
        /\ RoundDown(entries[e].timestamp, Second) = Bind(q.to)
        /\ entries[e].timestamp > Bind(q.to)
    BY <1>1, <1>2, <2>1, FiltersDiffer
  <2> QED BY <2>2
<1>6. ASSUME Bind(q.from) = q.from, Bind(q.to) = q.to
      PROVE  SameAnswers(q)
  <2>1. \A e \in raw : Matches(entries[e], q) <=> Where(entries[e], q)
    BY <1>1, <1>2, <1>6, FiltersDiffer DEF WholeSecond
  <2>2. table = {r \in DOMAIN RawRows : Matches(RawRows[r], q)}
    BY <1>2, <1>3, <2>1
  <2> QED BY <2>2, SameFoundSameAnswers DEF table
<1> QED BY <1>4, <1>5, <1>6, Zenon DEF table

\* Over the same logs the two stores disagree only about logs in the second of
\* a bound (memstore.go 121, clickhouse.go 375): where both bounds are whole
\* seconds, the memory store can give every page of results that ClickHouse
\* can, with the same total unless the page is empty.
THEOREM Agreement == Spec => []AgreeToTheSecond
<1> QED BY ReadTypes, AgreeAlways, PTL

-----------------------------------------------------------------------------
(* What was inserted is there.                                             *)

\* No other log came with e's id.
Alone(e) == \A f \in DOMAIN entries \ {e} : entries[f].id # entries[e].id

\* Logs have words to be found by; the memory store holds what it was given
\* in this life of the process, and ClickHouse every log that is alone with
\* its id and was never older than the retention.
Kept ==
  /\ \A e \in DOMAIN entries : Worded(entries[e])
  /\ store # "memory" => inserted.memory = {}
  /\ inserted.memory \subseteq Range(mem)
  /\ \A e \in inserted.clickhouse \ doomed : Alone(e) => e \in raw

\* FINAL drops no row but for another of its id.
LEMMA ReplaceKeeps ==
  ASSUME TypeOK, NEW rows \in SUBSET DOMAIN entries,
         NEW e \in DOMAIN entries, Alone(e), e \in raw \/ e \in rows
  PROVE  e \in Replace(rows)
<1>1. CASE e \in rows
  <2>1. \A f \in rows : entries[f].id = entries[e].id => f = e
    BY DEF Alone
  <2>2. e \in Nat
    BY DEF TypeOK
  <2> QED BY <1>1, <2>1, <2>2 DEF Replace
<1>2. CASE e \notin rows
  BY <1>2 DEF Alone, Replace
<1> QED BY <1>1, <1>2

LEMMA KeptInit == Init => Kept
<1> SUFFICES ASSUME Init PROVE Kept
  OBVIOUS
<1>1. DOMAIN entries = {} /\ inserted.memory = {} /\ inserted.clickhouse = {}
  BY DEF Init
<1> QED BY <1>1 DEF Kept

LEMMA KeptStep ==
  ASSUME TypeOK, TypeOK', Kept, Step, doomed \subseteq doomed',
         {e \in DOMAIN entries' : Outlived(entries'[e], ttl'.logs, now')}
           \subseteq doomed'
  PROVE  Kept'
<1>1. ASSUME NEW env \in Settings, Start(env)
      PROVE  Kept'
  <2>1. store = "none" /\ UNCHANGED <<entries, raw, inserted>>
    BY <1>1, Zenon DEF Start, tables
  <2>2. inserted.memory = {}
    BY <2>1 DEF Kept
  <2> QED BY <2>1, <2>2 DEF Kept, Alone
<1>2. CASE Stop
  <2>1. /\ UNCHANGED <<entries, raw>> /\ store' = "none"
        /\ inserted' = [inserted EXCEPT !.memory = {}]
    BY <1>2, Zenon DEF Stop, tables
  <2>2. inserted'.memory = {} /\ inserted'.clickhouse = inserted.clickhouse
    BY <2>1 DEF TypeOK
  <2> QED BY <2>1, <2>2 DEF Kept, Alone
<1>3. ASSUME NEW request \in Requests, Post(request)
      PROVE  Kept'
  <2>1. PICK new \in Seq(Log) :
          /\ entries' = entries \o new
          /\ Len(entries) + Len(new) <= MaxEntries
          /\ \A k \in DOMAIN new : Worded(new[k]) /\ new[k].timestamp \in Instants(now)
    BY <1>3, PostType
  <2>2. UNCHANGED <<store, raw, mem, inserted>>
    BY <1>3, Zenon DEF Post, tables, history
  <2>3. /\ DOMAIN entries \subseteq DOMAIN entries'
        /\ \A e \in DOMAIN entries : entries'[e] = entries[e]
        /\ \A e \in DOMAIN entries' \ DOMAIN entries :
             e - Len(entries) \in DOMAIN new /\ entries'[e] = new[e - Len(entries)]
    <3>1. entries \in Seq(Log)
      BY DEF TypeOK
    <3>2. entries' = entries \o new
      BY <2>1
    <3> QED BY <3>1, <3>2, Appended
  <2>4. \A e \in DOMAIN entries' : Worded(entries'[e])
    BY <2>1, <2>3 DEF Kept
  <2>5. ASSUME NEW e \in inserted.clickhouse \ doomed', Alone(e)'
        PROVE  e \in raw
    <3>1. e \in DOMAIN entries
      BY DEF TypeOK
    <3>2. Alone(e)
      BY <2>3, <2>5, <3>1 DEF Alone
    <3> QED BY <3>2 DEF Kept
  <2> QED BY <2>2, <2>4, <2>5 DEF Kept
<1>4. ASSUME NEW batch \in Batches, InsertBatch(batch)
      PROVE  Kept'
  <2>1. /\ UNCHANGED <<entries, store, mem>> /\ raw' = Replace(batch)
        /\ inserted' = [inserted EXCEPT !.clickhouse = @ \cup batch]
    BY <1>4, Zenon DEF InsertBatch, Sending
  <2>2. inserted'.memory = inserted.memory
        /\ inserted'.clickhouse = inserted.clickhouse \cup batch
    BY <2>1 DEF TypeOK
  <2>3. batch \in SUBSET DOMAIN entries
    BY DEF Batches
  <2>4. ASSUME NEW e \in inserted'.clickhouse \ doomed', Alone(e)
        PROVE  e \in raw'
    <3>1. e \in batch \/ e \in inserted.clickhouse \ doomed
      BY <2>2
    <3>2. e \in DOMAIN entries
      BY <2>3, <3>1 DEF TypeOK
    <3>3. e \in batch \/ e \in raw
      BY <2>4, <3>1 DEF Kept
    <3> QED BY <2>1, <2>3, <2>4, <3>2, <3>3, ReplaceKeeps
  <2> QED BY <2>1, <2>2, <2>4 DEF Kept, Alone
<1>5. ASSUME NEW batch \in Batches, InsertFails(batch)
      PROVE  Kept'
  <2>1. UNCHANGED <<entries, store, mem, inserted>>
    BY <1>5, Zenon DEF InsertFails, Sending
  <2>2. PICK rows \in SUBSET batch : raw' = Replace(rows)
    BY <1>5, Zenon DEF InsertFails
  <2>3. rows \in SUBSET DOMAIN entries
    BY DEF Batches
  <2>4. ASSUME NEW e \in inserted.clickhouse \ doomed', Alone(e)
        PROVE  e \in raw'
    <3>1. e \in DOMAIN entries /\ e \in raw
      BY <2>4 DEF TypeOK, Kept
    <3> QED BY <2>2, <2>3, <2>4, <3>1, ReplaceKeeps
  <2> QED BY <2>1, <2>4 DEF Kept, Alone
<1>6. ASSUME NEW batch \in Batches, MemInsert(batch)
      PROVE  Kept'
  <2>1. /\ store = "memory" /\ UNCHANGED <<entries, store, raw>>
        /\ inserted' = [inserted EXCEPT !.memory = @ \cup batch]
    BY <1>6, Zenon DEF MemInsert, tables
  <2>2. PICK logs \in InOrder(batch) : mem' = mem \o logs
    BY <1>6, Zenon DEF MemInsert
  <2>3. inserted'.memory = inserted.memory \cup batch
        /\ inserted'.clickhouse = inserted.clickhouse
    BY <2>1 DEF TypeOK
  <2>4. batch \in SUBSET DOMAIN entries
    BY DEF Batches
  <2>5. logs \in Seq(batch) /\ Range(logs) = batch
    BY <2>4, DomainFinite, InOrderType DEF TypeOK
  <2>6. Range(mem') = Range(mem) \cup batch
    <3>1. logs \in Seq(DOMAIN entries) /\ mem \in Seq(DOMAIN entries)
      BY <2>4, <2>5 DEF TypeOK
    <3> QED BY <2>2, <2>5, <3>1, Appended
  <2>7. inserted'.memory \subseteq Range(mem')
    BY <2>3, <2>6 DEF Kept
  <2> QED BY <2>1, <2>3, <2>7 DEF Kept, Alone
<1>7. CASE Expire
  <2>1. UNCHANGED <<now, entries, store, mem, ttl, inserted>>
    BY <1>7, Zenon DEF Expire, history
  <2>2. PICK old \in SUBSET {e \in raw : Outlived(entries[e], ttl.logs, now)} :
          raw' = raw \ old
    BY <1>7 DEF Expire
  <2>3. old \subseteq doomed'
    BY <2>1, <2>2 DEF TypeOK
  <2> QED BY <2>1, <2>2, <2>3 DEF Kept, Alone
<1>8. CASE Tick
  BY <1>8 DEF Tick, tables, history, Kept, Alone
<1>9. CASE UNCHANGED unstats
  BY <1>9 DEF unstats, tables, history, Kept, Alone
<1> QED BY <1>1, <1>2, <1>3, <1>4, <1>5, <1>6, <1>7, <1>8, <1>9, StatsSteps, Zenon DEF Step

LEMMA KeptNext == TypeOK /\ TypeOK' /\ Kept /\ [Next]_vars => Kept'
<1> SUFFICES ASSUME TypeOK, TypeOK', Kept, [Next]_vars PROVE Kept'
  OBVIOUS
<1>1. CASE UNCHANGED vars
  BY <1>1 DEF Kept, Alone, vars, tables, history
<1>2. CASE Next
  <2>1. Step /\ doomed' = doomed \cup
          {e \in DOMAIN entries' : Outlived(entries'[e], ttl'.logs, now')}
    BY <1>2, Zenon DEF Next
  <2>2. doomed \subseteq doomed'
        /\ {e \in DOMAIN entries' : Outlived(entries'[e], ttl'.logs, now')}
             \subseteq doomed'
    BY <2>1, Zenon
  <2> QED BY <2>1, <2>2, KeptStep
<1> QED BY <1>1, <1>2

\* The next whole second is one, and not before the time.
LEMMA NextSecondType ==
  ASSUME NEW t \in Int
  PROVE  NextSecond(t) \in Int /\ t <= NextSecond(t) /\ Bind(NextSecond(t)) = NextSecond(t)
<1> DEFINE a == (-t) \div Second
           n == NextSecond(t)
<1>1. Second \in Nat \ {0} /\ -t \in Int
  BY QueryAssumption
<1>2. /\ RoundDown(-t, Second) \in Int /\ RoundDown(-t, Second) <= -t
      /\ RoundDown(-t, Second) = Second * a /\ a \in Int
  BY <1>1, RoundDownFacts
<1> HIDE DEF a
<1>3. n = -RoundDown(-t, Second)
  BY DEF NextSecond
<1>4. n \in Int /\ t <= n /\ n = -(Second * a)
  BY <1>2, <1>3
<1> DEFINE b == -a
<1> HIDE DEF n
<1>5. n = Second * b /\ b \in Int
  <2>1. Second * b = -(Second * a)
    BY <1>1, <1>2, Z3
  <2> QED BY <1>2, <1>4, <2>1
<1> HIDE DEF b
<1>6. Second * b <= RoundDown(n, Second)
  <2>1. n \in Int /\ b \in Int /\ Second * b <= n
    BY <1>4, <1>5
  <2> QED BY <1>1, <2>1, RoundDownGreatest
<1>7. Bind(n) = RoundDown(n, Second) /\ Bind(n) \in Int /\ Bind(n) <= n
  BY <1>4, BindType
<1> QED BY <1>4, <1>5, <1>6, <1>7 DEF n

\* The narrowest request is not refused, and selects its log.
LEMMA Narrow ==
  ASSUME NEW l \in StoredLog, Worded(l), NEW t
  PROVE  /\ ~ParseFails(Narrowest(l), t)
         /\ Where(l, Parse(Narrowest(l), t))
         /\ Matches(l, Parse(Narrowest(l), t))
<1> DEFINE p == Narrowest(l)
           end == NextSecond(l.timestamp)
           q == Parse(p, t)
<1>1. /\ p.from.form = "instant" /\ p.from.n = l.timestamp
      /\ p.to.form = "instant" /\ p.to.n = end
      /\ p.levels = {l.level} /\ p.services = {l.service} /\ p.numeric
      /\ p.search = (CHOOSE w \in l.message : TRUE)
  BY Zenon DEF Narrowest
<1>2. p.search \in l.message
  BY <1>1, Zenon DEF Worded
<1>3. l.timestamp \in Int /\ l.level \in Levels
  BY DEF StoredLog
<1>10. /\ end \in Int /\ l.timestamp <= end /\ Bind(end) = end
       /\ Bind(l.timestamp) \in Int /\ Bind(l.timestamp) <= l.timestamp
  BY <1>3, NextSecondType, BindType
<1> HIDE DEF p, end
<1>4. ParseTime(p.from, t) = l.timestamp /\ ParseTime(p.to, t) = end
  BY <1>1 DEF ParseTime
<1>5. ~ParseFails(p, t)
  <2>1. "malformed" \notin {p.from.form, p.to.form}
    BY <1>1
  <2>2. ~(l.timestamp > end)
    BY <1>3, <1>10
  <2>3. p.levels \subseteq Levels
    BY <1>1, <1>3
  <2> QED BY <1>1, <1>4, <2>1, <2>2, <2>3, Zenon DEF ParseFails
<1>6. /\ q.from = l.timestamp /\ q.to = end
      /\ q.levels = {l.level} /\ q.services = {l.service} /\ q.search = p.search
  <2> DEFINE r == [from |-> ParseTime(p.from, t), to |-> ParseTime(p.to, t),
                   levels |-> p.levels, services |-> p.services, search |-> p.search,
                   limit |-> p.limit, offset |-> p.offset, order |-> p.order]
  <2>1. /\ r.from = l.timestamp /\ r.to = end
        /\ r.levels = {l.level} /\ r.services = {l.service} /\ r.search = p.search
    BY <1>1, <1>4
  <2>2. q = Clamp(r)
    BY Zenon DEF Parse
  <2>3. {"from", "to", "levels", "services", "search"} \subseteq DOMAIN r
    OBVIOUS
  <2> HIDE DEF q, r
  <2>4. /\ Clamp(r).from = r.from /\ Clamp(r).to = r.to /\ Clamp(r).levels = r.levels
        /\ Clamp(r).services = r.services /\ Clamp(r).search = r.search
    BY <2>3 DEF Clamp
  <2> QED BY <2>1, <2>2, <2>4
<1> HIDE DEF q
<1>7. l.timestamp >= Bind(l.timestamp) /\ l.timestamp <= Bind(end)
      /\ ~(l.timestamp < l.timestamp) /\ ~(l.timestamp > end)
  BY <1>3, <1>10
<1>8. Where(l, q)
  BY <1>2, <1>6, <1>7, Zenon DEF Where
<1>9. Matches(l, q)
  BY <1>2, <1>6, <1>7, Zenon DEF Matches
<1> QED BY <1>5, <1>8, <1>9 DEF p, q

LEMMA KeptFindable == TypeOK /\ Kept => Findable
<1> SUFFICES ASSUME TypeOK, Kept, store # "none", NEW e \in Promised, Alone(e)
             PROVE  /\ ~ParseFails(Narrowest(entries[e]), now)
                    /\ entries[e] \in Selected(Parse(Narrowest(entries[e]), now))
  BY Zenon DEF Findable, Alone
<1> DEFINE q == Parse(Narrowest(entries[e]), now)
<1>1. e \in DOMAIN entries
  BY DEF Promised, TypeOK
<1>2. entries[e] \in StoredLog /\ Worded(entries[e])
  BY <1>1, LogStored DEF TypeOK, Kept
<1>3. /\ ~ParseFails(Narrowest(entries[e]), now)
      /\ Where(entries[e], q) /\ Matches(entries[e], q)
  BY <1>2, Narrow
<1> HIDE DEF q
<1>4. CASE store = "memory"
  <2>1. PICK i \in DOMAIN mem : mem[i] = e
    BY <1>4 DEF Promised, Kept, Range
  <2>2. MemRows[i] = entries[e]
    BY <2>1 DEF MemRows
  <2> QED BY <1>3, <1>4, <2>2 DEF Selected, q
<1>5. CASE store # "memory"
  <2>1. e \in raw
    BY <1>5 DEF Promised, Kept
  <2>2. e \in DOMAIN RawRows /\ RawRows[e] = entries[e]
    BY <2>1 DEF RawRows
  <2> QED BY <1>3, <1>5, <2>2 DEF Selected, Found, q
<1> QED BY <1>3, <1>4, <1>5 DEF q

\* An inserted log that no other log shares its id with is found by its own
\* values: in ClickHouse until it is older than the retention (handlers.go
\* 55-64, clickhouse.go 375), in memory while the process runs (memstore.go
\* 21-28), whatever was posted, asked and configured.
THEOREM Retrieval == Spec => []Findable
<1>1. Init => Kept
  BY KeptInit
<1>2. TypeOK /\ TypeOK' /\ Kept /\ [Next]_vars => Kept'
  BY KeptNext
<1>3. TypeOK /\ Kept => Findable
  BY KeptFindable
<1> QED BY <1>1, <1>2, <1>3, ReadTypes, PTL DEF Spec

-----------------------------------------------------------------------------
(* What the rollup counts.                                                 *)

\* The cells of logs.
Keys(logs) == [e \in DOMAIN logs |-> Cell(logs[e])]

\* The entries of S in cell c, and how often those were sent.
In(S, c) == Group(S, Keys(entries), c)
Sends(c) == Sum(sent, In(DOMAIN entries, c))

\* What is older than the retention is in the history; the rollup is kept a
\* minute longer than the logs if not torn; a cell counts no log more often
\* than it was sent, and every inserted log that is not too old.
RollupInv ==
  /\ sent \in [1..MaxEntries -> Nat]
  /\ \A e \in DOMAIN entries : Outlived(entries[e], ttl.logs, now) => e \in doomed
  /\ torn \/ ttl.rollup >= ttl.logs + MinuteLen
  /\ \A c \in Cells : rollup[c] <= Sends(c)
  /\ torn \/ \A c \in Cells :
               Cardinality(In(inserted.clickhouse \ doomed, c)) <= rollup[c]

\* Every log has its cell.
LEMMA CellIn ==
  ASSUME TypeOK, NEW e \in DOMAIN entries
  PROVE  Cell(entries[e]) \in Cells
<1>1. entries[e] \in Log /\ entries[e].timestamp \in Instants(now)
  BY DEF TypeOK
<1>2. entries[e].timestamp \in Instants(MaxNow)
  <2>1. now \in Int /\ MaxNow \in Int /\ now <= MaxNow
    BY ReadAssumption DEF TypeOK
  <2>2. Hour \in Int /\ MaxAge \in Int
    BY ReadAssumption, QueryAssumption
  <2> QED BY <1>1, <2>1, <2>2 DEF Instants
<1>3. entries[e].level \in Levels /\ entries[e].service \in Services
  BY <1>1 DEF Log
<1> QED BY <1>2, <1>3 DEF Cell, Cells

\* The entries of a cell are finitely many, each with a count.
LEMMA GroupCounts ==
  ASSUME NEW logs \in Seq(Log), Len(logs) <= MaxEntries,
         NEW f \in [1..MaxEntries -> Nat], NEW S \in SUBSET DOMAIN logs, NEW c
  PROVE  /\ IsFiniteSet(S) /\ Counts(f, S)
         /\ IsFiniteSet(Group(S, Keys(logs), c)) /\ Counts(f, Group(S, Keys(logs), c))
         /\ Cardinality(Group(S, Keys(logs), c)) \in Nat
         /\ Sum(f, Group(S, Keys(logs), c)) \in Nat
<1>1. IsFiniteSet(S)
  BY DomainFinite
<1>2. DOMAIN logs \subseteq 1..MaxEntries
  <2>1. DOMAIN logs = 1..Len(logs) /\ Len(logs) \in Nat
    OBVIOUS
  <2> QED BY <2>1, ReadAssumption
<1>3. Counts(f, S)
  BY <1>2 DEF Counts
<1> QED BY <1>1, <1>3, GroupFinite, FS_CardinalityType

\* A cell has finitely many entries, each sent some number of times.
LEMMA InFinite ==
  ASSUME TypeOK, sent \in [1..MaxEntries -> Nat], NEW S \in SUBSET DOMAIN entries, NEW c
  PROVE  /\ IsFiniteSet(S) /\ Counts(sent, S)
         /\ IsFiniteSet(In(S, c)) /\ Counts(sent, In(S, c))
         /\ Cardinality(In(S, c)) \in Nat /\ Sum(sent, In(S, c)) \in Nat
BY GroupCounts DEF TypeOK, In

\* Of more entries there are more in a cell.
LEMMA InSubset ==
  ASSUME NEW S, IsFiniteSet(S), NEW T \in SUBSET S, NEW c
  PROVE  /\ In(T, c) \subseteq In(S, c)
         /\ Cardinality(In(T, c)) <= Cardinality(In(S, c))
         /\ Cardinality(In(T, c)) \in Nat /\ Cardinality(In(S, c)) \in Nat
<1>1. In(T, c) \in SUBSET In(S, c) /\ In(S, c) \in SUBSET S
  BY DEF In, Group
<1>2. IsFiniteSet(In(S, c)) /\ IsFiniteSet(In(T, c))
  BY <1>1, FS_Subset
<1> QED BY <1>1, <1>2, FS_Subset, FS_CardinalityType

\* Nothing has been sent at first.
LEMMA RollupInit == Init => RollupInv
<1> SUFFICES ASSUME Init PROVE RollupInv
  OBVIOUS
<1>1. DOMAIN entries = {} /\ inserted.clickhouse = {} /\ DOMAIN rollup = Cells
  BY DEF Init
<1>2. sent \in [1..MaxEntries -> Nat]
  BY DEF Init
<1>3. ttl.rollup >= ttl.logs + MinuteLen
  BY ReadAssumption, QueryAssumption DEF Init
<1>4. ASSUME NEW c \in Cells
      PROVE  rollup[c] <= Sends(c) /\ Cardinality(In(inserted.clickhouse \ doomed, c)) <= rollup[c]
  <2>1. In(DOMAIN entries, c) = {} /\ In(inserted.clickhouse \ doomed, c) = {}
    BY <1>1 DEF In, Group
  <2>2. rollup[c] = 0
    BY DEF Init
  <2> QED BY <2>1, <2>2, SumEmpty, FS_EmptySet DEF Sends
<1> QED BY <1>1, <1>2, <1>3, <1>4 DEF RollupInv

\* Nothing was counted, sent or inserted: only expiry may have come.
LEMMA RollupQuiet ==
  ASSUME TypeOK, TypeOK', RollupInv, UNCHANGED <<entries, rollup, sent, torn, ttl>>,
         inserted'.clickhouse = inserted.clickhouse, doomed \subseteq doomed',
         {e \in DOMAIN entries' : Outlived(entries'[e], ttl'.logs, now')}
           \subseteq doomed'
  PROVE  RollupInv'
<1>1. sent' \in [1..MaxEntries -> Nat]
      /\ (torn' \/ ttl'.rollup >= ttl'.logs + MinuteLen)
  BY DEF RollupInv
<1>2. \A c \in Cells : rollup'[c] <= Sends(c)'
  BY DEF RollupInv, Sends, In
<1>3. ASSUME ~torn, NEW c \in Cells
      PROVE  Cardinality(In(inserted.clickhouse \ doomed', c)) <= rollup[c]
  <2> DEFINE S == inserted.clickhouse \ doomed
             T == inserted.clickhouse \ doomed'
  <2>1. S \in SUBSET DOMAIN entries /\ T \in SUBSET S
    BY DEF TypeOK
  <2>2. IsFiniteSet(S)
    BY <2>1, DomainFinite DEF TypeOK
  <2>3. Cardinality(In(S, c)) <= rollup[c] /\ rollup[c] \in Nat
    BY <1>3 DEF RollupInv, TypeOK
  <2> HIDE DEF S, T
  <2>4. Cardinality(In(T, c)) <= rollup[c]
    BY <2>1, <2>2, <2>3, InSubset
  <2> QED BY <2>4 DEF T
<1>4. torn' \/ \A c \in Cells :
        Cardinality(In(inserted.clickhouse \ doomed, c)') <= rollup'[c]
  BY <1>3 DEF In
<1> QED BY <1>1, <1>2, <1>4 DEF RollupInv

\* The rollup is kept a minute longer than the logs, or torn.
LEMMA MinuteKept ==
  ASSUME TypeOK', NEW env \in Settings, NEW done \in 0..2, OpenClickHouse(env, done)
  PROVE  torn' \/ ttl'.rollup >= ttl'.logs + MinuteLen
<1>1. torn' = (torn \/ ttl'.rollup < ttl'.logs + MinuteLen)
  BY Zenon DEF OpenClickHouse
<1>2. ttl'.rollup \in Int /\ ttl'.logs + MinuteLen \in Int
  BY QueryAssumption DEF TypeOK
<1>3. ttl'.rollup < ttl'.logs + MinuteLen \/ ttl'.rollup >= ttl'.logs + MinuteLen
  BY <1>2
<1> QED BY <1>1, <1>3, Zenon

\* A start sets both retentions, or leaves the tables torn.
LEMMA RollupStart ==
  ASSUME TypeOK, TypeOK', RollupInv, NEW env \in Settings, Start(env),
         doomed \subseteq doomed',
         {e \in DOMAIN entries' : Outlived(entries'[e], ttl'.logs, now')}
           \subseteq doomed'
  PROVE  RollupInv'
<1>1. UNCHANGED <<entries, rollup, sent, inserted>>
  BY Zenon DEF Start, tables
<1>2. torn' \/ ttl'.rollup >= ttl'.logs + MinuteLen
  <2>1. CASE OpenMemory(env)
    BY <2>1 DEF OpenMemory, RollupInv
  <2>2. CASE \E done \in 0..2 : OpenClickHouse(env, done)
    BY <2>2, MinuteKept
  <2> QED BY <2>1, <2>2 DEF Start
<1>3. torn => torn'
  BY DEF Start, OpenMemory, OpenClickHouse
<1>4. sent' \in [1..MaxEntries -> Nat] /\ \A c \in Cells : rollup'[c] <= Sends(c)'
  BY <1>1 DEF RollupInv, Sends, In
<1>5. ASSUME ~torn, NEW c \in Cells
      PROVE  Cardinality(In(inserted.clickhouse \ doomed', c)) <= rollup[c]
  <2> DEFINE S == inserted.clickhouse \ doomed
             T == inserted.clickhouse \ doomed'
  <2>1. S \in SUBSET DOMAIN entries /\ T \in SUBSET S
    BY DEF TypeOK
  <2>2. IsFiniteSet(S)
    BY <2>1, DomainFinite DEF TypeOK
  <2>3. Cardinality(In(S, c)) <= rollup[c] /\ rollup[c] \in Nat
    BY <1>5 DEF RollupInv, TypeOK
  <2> HIDE DEF S, T
  <2>4. Cardinality(In(T, c)) <= rollup[c]
    BY <2>1, <2>2, <2>3, InSubset
  <2> QED BY <2>4 DEF T
<1>6. torn' \/ \A c \in Cells :
        Cardinality(In(inserted.clickhouse \ doomed, c)') <= rollup'[c]
  BY <1>1, <1>3, <1>5 DEF In
<1> QED BY <1>2, <1>4, <1>6 DEF RollupInv

\* A posted log was not sent yet.
LEMMA RollupPost ==
  ASSUME TypeOK, TypeOK', RollupInv, NEW request \in Requests, Post(request),
         doomed \subseteq doomed',
         {e \in DOMAIN entries' : Outlived(entries'[e], ttl'.logs, now')}
           \subseteq doomed'
  PROVE  RollupInv'
<1>1. UNCHANGED <<rollup, sent, inserted, ttl, torn>>
  BY Zenon DEF Post, tables, history
<1>2. DOMAIN entries \subseteq DOMAIN entries'
      /\ \A e \in DOMAIN entries : entries'[e] = entries[e]
  <2>1. PICK new \in Seq(Log) : entries' = entries \o new
    BY PostType
  <2> QED BY <2>1, Appended DEF TypeOK
<1>3. sent \in [1..MaxEntries -> Nat]
  BY DEF RollupInv
<1>4. ASSUME NEW c \in Cells
      PROVE  rollup[c] <= Sends(c)'
  <2> DEFINE A == In(DOMAIN entries, c)
             B == In(DOMAIN entries, c)'
  <2>1. A \in SUBSET B
    BY <1>2 DEF In, Group, Keys
  <2>2. IsFiniteSet(B) /\ Counts(sent, B) /\ Sum(sent, B) \in Nat /\ Sum(sent, A) \in Nat
    <3>1. entries' \in Seq(Log) /\ Len(entries') <= MaxEntries
      BY DEF TypeOK
    <3>2. B = Group(DOMAIN entries', Keys(entries'), c)
          /\ A = Group(DOMAIN entries, Keys(entries), c)
      BY DEF In
    <3>3. entries \in Seq(Log) /\ Len(entries) <= MaxEntries
      BY DEF TypeOK
    <3> HIDE DEF A, B
    <3> QED BY <1>3, <3>1, <3>2, <3>3, GroupCounts
  <2>3. rollup[c] <= Sum(sent, A) /\ rollup[c] \in Nat
    BY DEF RollupInv, Sends, TypeOK
  <2>4. Sends(c)' = Sum(sent, B)
    BY <1>1 DEF Sends
  <2> HIDE DEF A, B
  <2>5. Sum(sent, A) <= Sum(sent, B)
    BY <2>1, <2>2, SumSubset
  <2> QED BY <2>2, <2>3, <2>4, <2>5
<1>5. ASSUME ~torn, NEW c \in Cells
      PROVE  Cardinality(In(inserted.clickhouse \ doomed, c)') <= rollup[c]
  <2> DEFINE S == inserted.clickhouse \ doomed
             T == inserted.clickhouse \ doomed'
  <2>1. S \in SUBSET DOMAIN entries /\ T \in SUBSET S
    BY DEF TypeOK
  <2>2. IsFiniteSet(S)
    BY <2>1, DomainFinite DEF TypeOK
  <2>3. Cardinality(In(S, c)) <= rollup[c] /\ rollup[c] \in Nat
    BY <1>5 DEF RollupInv, TypeOK
  <2>4. In(inserted.clickhouse \ doomed, c)' = In(T, c)
    BY <1>1, <1>2, <2>1 DEF In, Group, Keys
  <2> HIDE DEF S, T
  <2>5. Cardinality(In(T, c)) <= rollup[c]
    BY <2>1, <2>2, <2>3, InSubset
  <2> QED BY <2>4, <2>5
<1>6. torn' \/ ttl'.rollup >= ttl'.logs + MinuteLen
  BY <1>1 DEF RollupInv
<1> QED BY <1>1, <1>3, <1>4, <1>5, <1>6 DEF RollupInv

\* What an insert counts it has sent, and what it returns nil for it counts.
LEMMA RollupInsert ==
  ASSUME TypeOK, TypeOK', RollupInv, UNCHANGED <<entries, ttl, torn>>,
         NEW batch \in SUBSET DOMAIN entries,
         sent' = [e \in 1..MaxEntries |-> IF e \in batch THEN sent[e] + 1 ELSE sent[e]],
         NEW counted \in SUBSET batch, Count(counted),
         inserted'.clickhouse = inserted.clickhouse
           \/ (counted = batch /\ inserted'.clickhouse = inserted.clickhouse \cup batch),
         doomed \subseteq doomed',
         {e \in DOMAIN entries' : Outlived(entries'[e], ttl'.logs, now')}
           \subseteq doomed'
  PROVE  RollupInv'
<1>1. sent \in [1..MaxEntries -> Nat]
  BY DEF RollupInv
<1>2. sent' \in [1..MaxEntries -> Nat]
  BY <1>1
<1>3. DOMAIN entries \subseteq 1..MaxEntries
  <2>1. DOMAIN entries = 1..Len(entries) /\ Len(entries) \in Nat /\ Len(entries) <= MaxEntries
    BY DEF TypeOK
  <2> QED BY <2>1, ReadAssumption
<1>4. ASSUME NEW c \in Cells
      PROVE  /\ rollup'[c] = rollup[c] + Cardinality(In(counted, c))
             /\ rollup[c] \in Nat /\ Cardinality(In(counted, c)) \in Nat
  <2>1. {e \in counted : Cell(entries[e]) = c} = In(counted, c)
    BY DEF In, Group, Keys
  <2>2. rollup'[c] = rollup[c] + Cardinality({e \in counted : Cell(entries[e]) = c})
    BY DEF Count
  <2>3. counted \in SUBSET DOMAIN entries
    OBVIOUS
  <2> QED BY <1>1, <2>1, <2>2, <2>3, InFinite DEF TypeOK
<1>5. ASSUME NEW c \in Cells
      PROVE  rollup'[c] <= Sends(c)'
  <2> DEFINE A == In(DOMAIN entries, c)
  <2>1. IsFiniteSet(A) /\ Counts(sent, A) /\ Sum(sent, A) \in Nat
    BY <1>1, InFinite
  <2>2. A \subseteq 1..MaxEntries
    BY <1>3 DEF In, Group
  <2>3. A \cap batch = In(batch, c)
    BY DEF In, Group
  <2>4. Sends(c)' = Sum(sent', A)
    BY DEF Sends, In
  <2>5. rollup[c] <= Sum(sent, A)
    BY DEF RollupInv, Sends
  <2>6. Bumped(sent, sent', A, batch)
    BY <2>2 DEF Bumped
  <2> HIDE DEF A
  <2>7. Sum(sent', A) = Sum(sent, A) + Cardinality(A \cap batch)
    BY <2>1, <2>6, SumBumped
  <2>8. IsFiniteSet(batch)
    BY <1>1, InFinite
  <2>9. Cardinality(In(counted, c)) <= Cardinality(In(batch, c))
        /\ Cardinality(In(batch, c)) \in Nat
    BY <2>8, InSubset
  <2>10. Sends(c)' = Sum(sent, A) + Cardinality(In(batch, c))
    BY <2>3, <2>4, <2>7
  <2> QED BY <1>4, <2>1, <2>5, <2>9, <2>10
<1>6. ASSUME ~torn, NEW c \in Cells
      PROVE  Cardinality(In(inserted.clickhouse \ doomed, c)') <= rollup'[c]
  <2> DEFINE S == inserted.clickhouse \ doomed
             T == inserted'.clickhouse \ doomed'
  <2>1. S \in SUBSET DOMAIN entries /\ T \in SUBSET DOMAIN entries
    BY DEF TypeOK
  <2>2. IsFiniteSet(S) /\ IsFiniteSet(T) /\ IsFiniteSet(batch)
    BY <2>1, DomainFinite DEF TypeOK
  <2>3. Cardinality(In(S, c)) <= rollup[c]
    BY <1>6 DEF RollupInv
  <2>4. In(inserted.clickhouse \ doomed, c)' = In(T, c)
    BY DEF In
  <2> HIDE DEF S
  <2>5. CASE T \subseteq S
    <3> HIDE DEF T
    <3>1. Cardinality(In(T, c)) <= Cardinality(In(S, c))
          /\ Cardinality(In(T, c)) \in Nat /\ Cardinality(In(S, c)) \in Nat
      BY <2>2, <2>5, InSubset
    <3> QED BY <1>4, <2>3, <2>4, <3>1
  <2>6. CASE counted = batch /\ T \subseteq S \cup batch
    <3> HIDE DEF T
    <3>1. In(T, c) \subseteq In(S, c) \cup In(batch, c)
      BY <2>6 DEF In, Group
    <3>2. /\ IsFiniteSet(In(S, c)) /\ IsFiniteSet(In(batch, c))
          /\ Cardinality(In(S, c)) \in Nat /\ Cardinality(In(batch, c)) \in Nat
      BY <1>1, <2>1, InFinite
    <3>3. /\ IsFiniteSet(In(S, c) \cup In(batch, c))
          /\ Cardinality(In(S, c) \cup In(batch, c))
               = Cardinality(In(S, c)) + Cardinality(In(batch, c))
                   - Cardinality(In(S, c) \cap In(batch, c))
      BY <3>2, FS_Union
    <3>4. Cardinality(In(S, c) \cap In(batch, c)) \in Nat
      BY <3>2, FS_Intersection, FS_CardinalityType
    <3>5. Cardinality(In(T, c)) <= Cardinality(In(S, c) \cup In(batch, c))
          /\ Cardinality(In(T, c)) \in Nat
      BY <3>1, <3>3, FS_Subset, FS_CardinalityType
    <3> QED BY <1>4, <2>3, <2>4, <2>6, <3>2, <3>3, <3>4, <3>5
  <2>7. T \subseteq S \/ (counted = batch /\ T \subseteq S \cup batch)
    BY DEF S
  <2> QED BY <2>5, <2>6, <2>7
<1>7. torn' \/ ttl'.rollup >= ttl'.logs + MinuteLen
  BY DEF RollupInv
<1> QED BY <1>2, <1>5, <1>6, <1>7 DEF RollupInv

\* A cell of the rollup expires after its logs.
LEMMA RollupExpire ==
  ASSUME TypeOK, TypeOK', RollupInv, Expire, doomed \subseteq doomed',
         {e \in DOMAIN entries' : Outlived(entries'[e], ttl'.logs, now')}
           \subseteq doomed'
  PROVE  RollupInv'
<1>1. UNCHANGED <<now, entries, ttl, inserted, sent, torn>>
  BY Zenon DEF Expire, history
<1>2. PICK oldCells \in SUBSET {c \in Cells : rollup[c] > 0 /\ c.bucket + ttl.rollup <= now} :
        rollup' = [c \in Cells |-> IF c \in oldCells THEN 0 ELSE rollup[c]]
  BY Zenon DEF Expire
<1>3. sent \in [1..MaxEntries -> Nat]
  BY DEF RollupInv
<1>4. \A c \in Cells : rollup'[c] = (IF c \in oldCells THEN 0 ELSE rollup[c]) /\ rollup[c] \in Nat
  BY <1>2 DEF TypeOK
<1>5. ASSUME NEW c \in Cells
      PROVE  rollup'[c] <= Sends(c)'
  <2>1. Sends(c)' = Sends(c)
    BY <1>1 DEF Sends, In
  <2>2. Sends(c) \in Nat
    BY <1>3, InFinite DEF Sends
  <2>3. rollup[c] <= Sends(c)
    BY DEF RollupInv
  <2> QED BY <1>4, <2>1, <2>2, <2>3
<1>6. ASSUME ~torn, NEW c \in Cells
      PROVE  Cardinality(In(inserted.clickhouse \ doomed, c)') <= rollup'[c]
  <2> DEFINE S == inserted.clickhouse \ doomed
             T == inserted.clickhouse \ doomed'
  <2>1. S \in SUBSET DOMAIN entries /\ T \in SUBSET S
    BY DEF TypeOK
  <2>2. IsFiniteSet(S)
    BY <2>1, DomainFinite DEF TypeOK
  <2>3. Cardinality(In(S, c)) <= rollup[c]
    BY <1>6 DEF RollupInv
  <2>4. In(inserted.clickhouse \ doomed, c)' = In(T, c)
    BY <1>1 DEF In
  <2>5. CASE c \notin oldCells
    <3> HIDE DEF S, T
    <3>1. Cardinality(In(T, c)) <= Cardinality(In(S, c))
          /\ Cardinality(In(T, c)) \in Nat /\ Cardinality(In(S, c)) \in Nat
      BY <2>1, <2>2, InSubset
    <3> QED BY <1>4, <2>3, <2>4, <2>5, <3>1
  <2>6. CASE c \in oldCells
    <3>1. ASSUME NEW e \in In(T, c)
          PROVE  FALSE
      <4>1. e \in DOMAIN entries /\ e \notin doomed' /\ Cell(entries[e]) = c
        BY <2>1, <3>1 DEF In, Group, Keys
      <4>2. entries[e].timestamp \in Int
        <5>1. entries[e] \in Log
          BY <4>1 DEF TypeOK
        <5> QED BY <5>1 DEF Log
      <4>3. /\ c.bucket = Bucket(entries[e].timestamp) /\ c.bucket \in Int
            /\ entries[e].timestamp < c.bucket + MinuteLen
        BY <4>1, <4>2, BucketType DEF Cell
      <4>4. c.bucket + ttl.rollup <= now
        BY <2>6
      <4>5. ttl.rollup >= ttl.logs + MinuteLen
        BY <1>6 DEF RollupInv
      <4>6. ttl.logs \in Nat /\ ttl.rollup \in Nat /\ now \in Int /\ MinuteLen \in Int
        BY ReadAssumption, QueryAssumption DEF TypeOK
      <4>7. RoundDown(entries[e].timestamp, Second) \in Int
            /\ RoundDown(entries[e].timestamp, Second) <= entries[e].timestamp
        BY <4>2, RoundDownFacts, QueryAssumption
      <4>8. RoundDown(entries[e].timestamp, Second) + ttl.logs <= now
        BY <4>2, <4>3, <4>4, <4>5, <4>6, <4>7
      <4>9. Outlived(entries[e], ttl.logs, now)
        BY <4>8 DEF Outlived
      <4> QED BY <1>1, <4>1, <4>9
    <3>2. In(T, c) = {}
      BY <3>1
    <3>3. Cardinality(In(T, c)) = 0
      BY <3>2, FS_EmptySet
    <3> QED BY <1>4, <2>4, <2>6, <3>3
  <2> QED BY <2>5, <2>6
<1>7. torn' \/ ttl'.rollup >= ttl'.logs + MinuteLen
  BY <1>1 DEF RollupInv
<1> QED BY <1>1, <1>3, <1>5, <1>6, <1>7 DEF RollupInv

\* Every step keeps the counts between what is there and what was sent.
LEMMA RollupStep ==
  ASSUME TypeOK, TypeOK', RollupInv, Step, doomed \subseteq doomed',
         {e \in DOMAIN entries' : Outlived(entries'[e], ttl'.logs, now')}
           \subseteq doomed'
  PROVE  RollupInv'
<1>1. ASSUME NEW env \in Settings, Start(env)
      PROVE  RollupInv'
  BY <1>1, RollupStart
<1>2. CASE Stop
  <2>1. /\ UNCHANGED <<entries, rollup, sent, torn, ttl>>
        /\ inserted' = [inserted EXCEPT !.memory = {}]
    BY <1>2, Zenon DEF Stop, tables
  <2>2. inserted'.clickhouse = inserted.clickhouse
    BY <2>1 DEF TypeOK
  <2> QED BY <2>1, <2>2, RollupQuiet
<1>3. ASSUME NEW request \in Requests, Post(request)
      PROVE  RollupInv'
  BY <1>3, RollupPost
<1>4. ASSUME NEW batch \in Batches, InsertBatch(batch)
      PROVE  RollupInv'
  <2>1. /\ UNCHANGED <<entries, ttl, torn>> /\ Count(batch)
        /\ sent' = [e \in 1..MaxEntries |-> IF e \in batch THEN sent[e] + 1 ELSE sent[e]]
        /\ inserted' = [inserted EXCEPT !.clickhouse = @ \cup batch]
    BY <1>4, Zenon DEF InsertBatch, Sending
  <2>2. batch \in SUBSET DOMAIN entries /\ batch \in SUBSET batch
    BY DEF Batches
  <2>3. inserted'.clickhouse = inserted.clickhouse \cup batch
    BY <2>1 DEF TypeOK
  <2> QED BY <2>1, <2>2, <2>3, RollupInsert
<1>5. ASSUME NEW batch \in Batches, InsertFails(batch)
      PROVE  RollupInv'
  <2>1. /\ UNCHANGED <<entries, ttl, torn, inserted>>
        /\ sent' = [e \in 1..MaxEntries |-> IF e \in batch THEN sent[e] + 1 ELSE sent[e]]
        /\ \E rows \in SUBSET batch : \E counted \in SUBSET rows : Count(counted)
    BY <1>5, Zenon DEF InsertFails, Sending
  <2>2. batch \in SUBSET DOMAIN entries
    BY DEF Batches
  <2>3. PICK counted \in SUBSET batch : Count(counted)
    BY <2>1
  <2> QED BY <2>1, <2>2, <2>3, RollupInsert
<1>6. ASSUME NEW batch \in Batches, MemInsert(batch)
      PROVE  RollupInv'
  <2>1. /\ UNCHANGED <<entries, rollup, sent, torn, ttl>>
        /\ inserted' = [inserted EXCEPT !.memory = @ \cup batch]
    BY <1>6, Zenon DEF MemInsert, tables
  <2>2. inserted'.clickhouse = inserted.clickhouse
    BY <2>1 DEF TypeOK
  <2> QED BY <2>1, <2>2, RollupQuiet
<1>7. CASE Expire
  BY <1>7, RollupExpire
<1>8. CASE Tick
  <2>1. UNCHANGED <<entries, rollup, sent, torn, ttl, inserted>>
    BY <1>8, Zenon DEF Tick, tables, history
  <2> QED BY <2>1, RollupQuiet
<1>9. CASE UNCHANGED unstats
  <2>1. UNCHANGED <<entries, rollup, sent, torn, ttl, inserted>>
    BY <1>9, Zenon DEF unstats, tables, history
  <2> QED BY <2>1, RollupQuiet
<1> QED BY <1>1, <1>2, <1>3, <1>4, <1>5, <1>6, <1>7, <1>8, <1>9, StatsSteps, Zenon DEF Step

\* The invariant is inductive.
LEMMA RollupNext == TypeOK /\ TypeOK' /\ RollupInv /\ [Next]_vars => RollupInv'
<1> SUFFICES ASSUME TypeOK, TypeOK', RollupInv, [Next]_vars PROVE RollupInv'
  OBVIOUS
<1>1. CASE UNCHANGED vars
  <2>1. UNCHANGED <<now, entries, rollup, sent, torn, ttl, inserted, doomed>>
    BY <1>1, Zenon DEF vars, tables, history
  <2> QED BY <2>1 DEF RollupInv, Sends, In
<1>2. CASE Next
  <2>1. Step /\ doomed' = doomed \cup
          {e \in DOMAIN entries' : Outlived(entries'[e], ttl'.logs, now')}
    BY <1>2, Zenon DEF Next
  <2>2. doomed \subseteq doomed'
        /\ {e \in DOMAIN entries' : Outlived(entries'[e], ttl'.logs, now')}
             \subseteq doomed'
    BY <2>1, Zenon
  <2> QED BY <2>1, <2>2, RollupStep
<1> QED BY <1>1, <1>2

\* The rollup counts finitely many cells: those of logs.
LEMMA RollupIsTable ==
  ASSUME TypeOK, RollupInv
  PROVE  rollup \in Tables(Cells)
<1> DEFINE K == {Keys(entries)[e] : e \in DOMAIN entries}
<1>1. rollup \in [Cells -> Nat] /\ sent \in [1..MaxEntries -> Nat]
  BY DEF TypeOK, RollupInv
<1>2. IsFiniteSet(K)
  <2>1. IsFiniteSet(DOMAIN entries)
    BY <1>1, InFinite
  <2> QED BY <2>1, FiniteImage
<1>3. Support(rollup) \in SUBSET K
  <2> SUFFICES ASSUME NEW c \in Cells, rollup[c] > 0, c \notin K PROVE FALSE
    BY <1>1 DEF Support
  <2>1. In(DOMAIN entries, c) = {}
    BY DEF In, Group
  <2>2. Sends(c) = 0
    BY <2>1, SumEmpty DEF Sends
  <2>3. rollup[c] <= Sends(c)
    BY DEF RollupInv
  <2> QED BY <1>1, <2>2, <2>3
<1> QED BY <1>1, <1>2, <1>3, FS_Subset DEF Tables

\* What a request selects of it is a table, too.
LEMMA SelectedTable ==
  ASSUME NEW cells, NEW table \in Tables(cells), NEW q
  PROVE  /\ RollupTable(table, q) \in Tables(cells)
         /\ \A c \in cells : RollupTable(table, q)[c] =
                               IF RollupWhere(c, q) THEN table[c] ELSE 0
<1>1. table \in [cells -> Nat] /\ IsFiniteSet(Support(table))
  BY DEF Tables
<1>2. /\ RollupTable(table, q) \in [cells -> Nat]
      /\ \A c \in cells : RollupTable(table, q)[c] =
                            IF RollupWhere(c, q) THEN table[c] ELSE 0
  BY <1>1 DEF RollupTable
<1>3. Support(RollupTable(table, q)) \in SUBSET Support(table)
  BY <1>1, <1>2 DEF Support
<1> QED BY <1>1, <1>2, <1>3, FS_Subset DEF Tables

\* The total counts every inserted log that the raw filter selects.
LEMMA TotalCovers ==
  ASSUME TypeOK, RollupInv, ~torn, NEW q \in ParsedQuery
  PROVE  Cardinality({e \in Found(RawRows, q) : e \in inserted.clickhouse \ doomed})
           <= SumOver(RollupTable(rollup, q), Cells)
<1> DEFINE S == {e \in Found(RawRows, q) : e \in inserted.clickhouse \ doomed}
           I == inserted.clickhouse \ doomed
           k == Keys(entries)
           t == RollupTable(rollup, q)
<1>1. /\ t \in Tables(Cells)
      /\ \A c \in Cells : t[c] = IF RollupWhere(c, q) THEN rollup[c] ELSE 0
  BY RollupIsTable, SelectedTable
<1>2. S \in SUBSET I /\ I \in SUBSET DOMAIN entries
  BY DEF TypeOK
<1>3. IsFiniteSet(I) /\ IsFiniteSet(S)
  BY <1>2, DomainFinite, FS_Subset DEF TypeOK
<1>4. ASSUME NEW e \in S
      PROVE  k[e] \in Cells /\ Cardinality(Group(S, k, k[e])) <= t[k[e]]
  <2>1. e \in DOMAIN entries /\ Where(entries[e], q)
    BY <1>2 DEF Found, RawRows
  <2>2. k[e] = Cell(entries[e]) /\ k[e] \in Cells
    BY <2>1, CellIn DEF Keys
  <2>3. entries[e] \in StoredLog
    BY <2>1, LogStored DEF TypeOK
  <2>4. RollupWhere(k[e], q)
    BY <2>1, <2>2, <2>3, RollupCovers
  <2>5. Cardinality(In(I, k[e])) <= rollup[k[e]] /\ rollup[k[e]] \in Nat
    BY <2>2 DEF RollupInv, TypeOK
  <2>6. t[k[e]] = rollup[k[e]]
    BY <1>1, <2>2, <2>4
  <2> DEFINE c == k[e]
  <2> HIDE DEF S, I, t
  <2>7. Cardinality(In(S, c)) <= Cardinality(In(I, c))
        /\ Cardinality(In(S, c)) \in Nat /\ Cardinality(In(I, c)) \in Nat
    BY <1>2, <1>3, InSubset
  <2>8. Cardinality(In(S, c)) <= t[c]
    BY <2>5, <2>6, <2>7
  <2> QED BY <2>2, <2>8 DEF In
<1> HIDE DEF S, t, k
<1>5. Cardinality(S) <= SumOver(t, Cells)
  BY <1>1, <1>3, <1>4, CountByKey
<1> QED BY <1>5 DEF S, t

\* And nothing that is a minute outside, nor anything more often than sent.
LEMMA TotalExceeds ==
  ASSUME TypeOK, RollupInv, NEW q \in ParsedQuery
  PROVE  SumOver(RollupTable(rollup, q), Cells)
           <= Sum(sent, {e \in DOMAIN entries : Near(entries[e], q)})
<1> DEFINE S == {e \in DOMAIN entries : Near(entries[e], q)}
           k == Keys(entries)
           t == RollupTable(rollup, q)
<1>1. /\ t \in Tables(Cells)
      /\ \A c \in Cells : t[c] = IF RollupWhere(c, q) THEN rollup[c] ELSE 0
  BY RollupIsTable, SelectedTable
<1>2. IsFiniteSet(S) /\ Counts(sent, S)
  <2>1. S \in SUBSET DOMAIN entries
    OBVIOUS
  <2> HIDE DEF S
  <2> QED BY <2>1, InFinite DEF RollupInv
<1>3. ASSUME NEW c \in Support(t)
      PROVE  t[c] <= Sum(sent, Group(S, k, c))
  <2>1. c \in Cells /\ t[c] > 0
    BY <1>1 DEF Support, Tables
  <2>2. RollupWhere(c, q) /\ t[c] = rollup[c]
    <3>1. ~(0 > 0)
      OBVIOUS
    <3>2. RollupWhere(c, q)
      BY <1>1, <2>1, <3>1, Zenon
    <3> QED BY <1>1, <2>1, <3>2, Zenon
  <2>3. ASSUME NEW e \in DOMAIN entries, k[e] = c
        PROVE  Near(entries[e], q)
    <3>1. entries[e] \in StoredLog /\ Cell(entries[e]) = c
      BY <2>3, LogStored DEF TypeOK, Keys
    <3>2. RollupWhere(Cell(entries[e]), q)
      BY <2>2, <3>1
    <3>3. /\ q.from # NoTime => entries[e].timestamp > q.from - MinuteLen
          /\ q.to # NoTime => entries[e].timestamp < q.to + MinuteLen
      BY <3>1, <3>2, RollupExceeds
    <3>4. /\ q.levels # {} => entries[e].level \in q.levels
          /\ q.services # {} => entries[e].service \in q.services
      BY <3>2 DEF RollupWhere, Cell
    <3> QED BY <3>3, <3>4, Zenon DEF Near
  <2>4. Group(S, k, c) = Group(DOMAIN entries, k, c)
    BY <2>3 DEF Group
  <2>5. rollup[c] <= Sends(c)
    BY <2>1 DEF RollupInv
  <2> QED BY <2>2, <2>4, <2>5 DEF Sends, In
<1> HIDE DEF S, t, k
<1>4. SumOver(t, Cells) <= Sum(sent, S)
  BY <1>1, <1>2, <1>3, SumByKey
<1> QED BY <1>4 DEF S, t

\* Summed up over the cells a query selects.
LEMMA MinuteHolds == TypeOK /\ RollupInv => RollupWithinMinute
<1> SUFFICES ASSUME TypeOK, RollupInv, NEW p \in Params, ~ParseFails(p, now)
             PROVE  LET q == Parse(p, now)
                        total == Total(ByLevel(RollupTable(rollup, q)))
                    IN  /\ torn \/ Cardinality({e \in Found(RawRows, q) :
                                      e \in inserted.clickhouse \ doomed}) <= total
                        /\ total <= MapThenSumSet(LAMBDA e : sent[e],
                                      {e \in DOMAIN entries : Near(entries[e], q)})
  BY Zenon DEF RollupWithinMinute
<1> DEFINE q == Parse(p, now)
           total == Total(ByLevel(RollupTable(rollup, q)))
           near == {e \in DOMAIN entries : Near(entries[e], q)}
<1>1. q \in ParsedQuery
  <2>1. now \in Int
    BY ReadAssumption DEF TypeOK
  <2>2. p \in RequestQuery
    BY RequestAssumption, Zenon
  <2> QED BY <2>1, <2>2, ParseType
<1> HIDE DEF q
<1>2. RollupTable(rollup, q) \in Tables(Cells)
  BY RollupIsTable, SelectedTable
<1>3. \A c \in Cells : c.level \in Levels
  BY DEF Cells
<1>4. total = SumOver(RollupTable(rollup, q), Cells)
  BY <1>2, <1>3, TotalIs
<1>5. total <= Sum(sent, near)
  BY <1>1, <1>4, TotalExceeds
<1>6. torn \/ Cardinality({e \in Found(RawRows, q) : e \in inserted.clickhouse \ doomed}) <= total
  BY <1>1, <1>4, TotalCovers
<1>7. Sum(sent, near) = MapThenSumSet(LAMBDA e : sent[e], near)
  BY Zenon DEF Sum
<1> QED BY <1>5, <1>6, <1>7, Zenon DEF q

\* The statistics' total (clickhouse.go 412) misses no inserted log that the
\* same filters find, and counts none that is a minute or more outside the range
\* or more often than it was sent.
THEOREM WithinMinute == Spec => []RollupWithinMinute
<1>1. Init => RollupInv
  BY RollupInit
<1>2. TypeOK /\ TypeOK' /\ RollupInv /\ [Next]_vars => RollupInv'
  BY RollupNext
<1>3. TypeOK /\ RollupInv => RollupWithinMinute
  BY MinuteHolds
<1> QED BY <1>1, <1>2, <1>3, ReadTypes, PTL DEF Spec

-----------------------------------------------------------------------------
(* An answer from three queries.                                           *)

\* Rows counted by cell.
LEMMA RowsTable ==
  ASSUME NEW cells, NEW rows, NEW R, IsFiniteSet(R)
  PROVE  [c \in cells |-> Cardinality({r \in R : Cell(rows[r]) = c})] \in Tables(cells)
<1> DEFINE k == [r \in R |-> Cell(rows[r])]
           K == {k[r] : r \in R}
           at(c) == {r \in R : Cell(rows[r]) = c}
           t == [c \in cells |-> Cardinality(at(c))]
<1>1. ASSUME NEW c
      PROVE  IsFiniteSet(at(c)) /\ Cardinality(at(c)) \in Nat
  <2>1. at(c) \in SUBSET R
    OBVIOUS
  <2> HIDE DEF at
  <2> QED BY <2>1, FS_Subset, FS_CardinalityType
<1>2. IsFiniteSet(K)
  <2> HIDE DEF k
  <2> QED BY FiniteImage
<1>3. Support(t) \in SUBSET K
  <2> SUFFICES ASSUME NEW c \in cells, t[c] > 0 PROVE c \in K
    BY DEF Support
  <2>1. Cardinality(at(c)) > 0
    OBVIOUS
  <2>2. at(c) # {}
    <3> HIDE DEF at
    <3> QED BY <2>1, FS_EmptySet
  <2> QED BY <2>2
<1>4. t \in [cells -> Nat]
  <2> HIDE DEF at
  <2> QED BY <1>1
<1>5. IsFiniteSet(Support(t))
  <2> HIDE DEF t, K
  <2> QED BY <1>2, <1>3, FS_Subset
<1> HIDE DEF at
<1>6. t \in Tables(cells)
  BY <1>4, <1>5 DEF Tables
<1> QED BY <1>6 DEF at

\* What ClickHouse's queries read, and what the memory store counts.
LEMMA SourceTable ==
  ASSUME TypeOK, RollupInv, NEW q
  PROVE  /\ Source(q) \in Tables(Cells)
         /\ MemTable(MemRows, q, Cells) \in Tables(Cells)
<1>1. RollupTable(rollup, q) \in Tables(Cells)
  BY RollupIsTable, SelectedTable
<1>2. RawTable(RawRows, q, Cells) \in Tables(Cells)
  <2>1. IsFiniteSet(Found(RawRows, q))
    <3>1. Found(RawRows, q) \in SUBSET DOMAIN entries
      BY DEF Found, RawRows, TypeOK
    <3> QED BY <3>1, DomainFinite DEF TypeOK
  <2> QED BY <2>1, RowsTable DEF RawTable
<1>3. MemTable(MemRows, q, Cells) \in Tables(Cells)
  <2> DEFINE R == {r \in DOMAIN MemRows : Matches(MemRows[r], q)}
  <2>1. IsFiniteSet(R)
    <3>1. R \in SUBSET DOMAIN mem
      BY DEF MemRows
    <3> HIDE DEF R
    <3> QED BY <3>1, DomainFinite DEF TypeOK
  <2>2. [c \in Cells |-> Cardinality({r \in R : Cell(MemRows[r]) = c})] \in Tables(Cells)
    <3> HIDE DEF R
    <3> QED BY <2>1, RowsTable
  <2>3. \A c : {r \in R : Cell(MemRows[r]) = c}
                 = {r \in DOMAIN MemRows : Matches(MemRows[r], q) /\ Cell(MemRows[r]) = c}
    OBVIOUS
  <2>4. MemTable(MemRows, q, Cells)
          = [c \in Cells |-> Cardinality({r \in R : Cell(MemRows[r]) = c})]
    <3> HIDE DEF R
    <3> QED BY <2>3 DEF MemTable
  <2> HIDE DEF R
  <2> QED BY <2>2, <2>4
<1> QED BY <1>1, <1>2, <1>3, Zenon DEF Source

\* So is every table the statistics are read from.
LEMMA SourceTables == TypeOK /\ RollupInv => \A q : Source(q) \in Tables(Cells)
BY SourceTable

\* Before and after a step.
LEMMA SourceTablesNext == TypeOK' /\ RollupInv' => (\A q : Source(q) \in Tables(Cells))'
BY SourceTables, PTL

\* As long as rows are neither replaced nor expire, ClickHouse's figures grow.
LEMMA SourceGrows ==
  ASSUME TypeOK, TypeOK', store = "clickhouse", store' = store, raw \subseteq raw',
         \A c \in Cells : rollup[c] <= rollup'[c],
         \A e \in raw : entries'[e] = entries[e],
         NEW q
  PROVE  Under(Source(q), Source(q)', Cells)
<1>1. ASSUME NEW c \in Cells
      PROVE  RollupTable(rollup, q)[c] <= RollupTable(rollup', q)[c]
  BY DEF RollupTable, TypeOK
<1>2. ASSUME NEW c \in Cells
      PROVE  RawTable(RawRows, q, Cells)[c] <= RawTable(RawRows', q, Cells)[c]
  <2> DEFINE A == {r \in Found(RawRows, q) : Cell(RawRows[r]) = c}
             B == {r \in Found(RawRows', q) : Cell(RawRows'[r]) = c}
  <2>1. A \in SUBSET B
    BY DEF Found, RawRows
  <2>2. IsFiniteSet(B)
    <3>1. B \in SUBSET DOMAIN entries'
      BY DEF Found, RawRows, TypeOK
    <3>2. entries' \in Seq(Log)
      BY DEF TypeOK
    <3> HIDE DEF B
    <3> QED BY <3>1, <3>2, DomainFinite
  <2>3. /\ RawTable(RawRows, q, Cells)[c] = Cardinality(A)
        /\ RawTable(RawRows', q, Cells)[c] = Cardinality(B)
    BY DEF RawTable
  <2> HIDE DEF A, B
  <2> QED BY <2>1, <2>2, <2>3, FS_Subset
<1>3. store # "memory" /\ store' # "memory"
  OBVIOUS
<1>4. \/ Source(q) = RollupTable(rollup, q) /\ Source(q)' = RollupTable(rollup', q)
      \/ Source(q) = RawTable(RawRows, q, Cells) /\ Source(q)' = RawTable(RawRows', q, Cells)
  BY <1>3, Zenon DEF Source
<1> QED BY <1>1, <1>2, <1>4, Zenon DEF Under

LevelCount(t, v) == SumOver(t, {c \in Cells : c.level = v})
ServiceCount(t, s) == SumOver(t, {c \in Cells : c.service = s})
Bars(h, v) == SumOver(h, {b \in DOMAIN h : b.level = v})

\* The figures of an answer are sums over its table.
LEMMA CountsOf ==
  ASSUME NEW t \in Tables(Cells)
  PROVE  /\ \A v \in Levels : /\ LevelCount(t, v) \in Nat
                              /\ ByLevel(t)[v] = LevelCount(t, v)
                              /\ Bars(Histogram(t), v) = LevelCount(t, v)
         /\ \A s : ServiceCount(t, s) \in Nat
         /\ \A top \in TopServices(t) : \A s \in DOMAIN top : top[s] = ServiceCount(t, s)
<1>1. DOMAIN t = Cells
  BY DEF Tables
<1>2. \A v : LevelCount(t, v) \in Nat
  BY SupportCounts DEF LevelCount
<1>3. \A s : ServiceCount(t, s) \in Nat
  BY SupportCounts DEF ServiceCount
<1>4. \A v \in Levels : ByLevel(t)[v] = LevelCount(t, v)
  BY <1>1 DEF ByLevel, LevelCount
<1>5. \A v \in Levels : Bars(Histogram(t), v) = ByLevel(t)[v]
  BY BarsAre DEF Bars
<1>6. ASSUME NEW top \in TopServices(t), NEW s \in DOMAIN top
      PROVE  top[s] = ServiceCount(t, s)
  <2> DEFINE n == [u \in {c.service : c \in {d \in DOMAIN t : t[d] > 0}} |->
                     SumOver(t, {c \in DOMAIN t : c.service = u})]
  <2>1. PICK T \in SUBSET DOMAIN n : top = [u \in T |-> n[u]]
    BY Zenon DEF TopServices
  <2>2. s \in DOMAIN n /\ top[s] = n[s]
    <3> HIDE DEF n
    <3> QED BY <2>1
  <2> QED BY <1>1, <2>2 DEF ServiceCount
<1> QED BY <1>2, <1>3, <1>4, <1>5, <1>6

\* They grow with it.
LEMMA CountsGrow ==
  ASSUME NEW t \in Tables(Cells), NEW u \in Tables(Cells), Under(t, u, Cells)
  PROVE  /\ \A v : LevelCount(t, v) <= LevelCount(u, v)
         /\ \A s : ServiceCount(t, s) <= ServiceCount(u, s)
<1>1. ASSUME NEW D \in SUBSET Cells PROVE SumOver(t, D) <= SumOver(u, D)
  <2>1. Under(t, u, D)
    BY DEF Under
  <2> QED BY <2>1, SumOverMonotone
<1> QED BY <1>1 DEF LevelCount, ServiceCount

Fields == {"stage", "q", "before", "calm", "levels", "services", "histogram"}

\* The figures of r are at least what held before, and the histogram's are
\* not behind the levels'.
Lower(r) ==
  /\ r.stage # "levels" =>
       \A v \in Levels : r.levels[v] \in Nat /\ LevelCount(r.before, v) <= r.levels[v]
  /\ r.stage \in {"histogram", "done"} =>
       \A s \in DOMAIN r.services :
         r.services[s] \in Nat /\ ServiceCount(r.before, s) <= r.services[s]
  /\ r.stage = "done" =>
       \A v \in Levels : Bars(r.histogram, v) \in Nat /\ r.levels[v] <= Bars(r.histogram, v)

\* They are at most what table t says.
Upper(r, t) ==
  /\ Under(r.before, t, Cells)
  /\ r.stage # "levels" => \A v \in Levels : r.levels[v] <= LevelCount(t, v)
  /\ r.stage \in {"histogram", "done"} =>
       \A s \in DOMAIN r.services : r.services[s] <= ServiceCount(t, s)
  /\ r.stage = "done" => \A v \in Levels : Bars(r.histogram, v) <= LevelCount(t, v)

\* Three queries for ClickHouse; memory answers at once.
StatsInv ==
  \/ stats = NoStats
  \/ /\ DOMAIN stats = Fields
     /\ stats.stage \in {"levels", "services", "histogram", "done"}
     /\ stats.before \in Tables(Cells)
     /\ store = "clickhouse" \/ (store = "memory" /\ stats.stage = "done")
     /\ stats.calm => Lower(stats) /\ (store = "clickhouse" => Upper(stats, Source(stats.q)))

\* An upper bound stays one when the table grows.
LEMMA UpperGrows ==
  ASSUME NEW r, r.before \in Tables(Cells), Lower(r),
         NEW t \in Tables(Cells), NEW u \in Tables(Cells), Under(t, u, Cells), Upper(r, t)
  PROVE  Upper(r, u)
<1>1. /\ \A v : LevelCount(t, v) <= LevelCount(u, v)
      /\ \A s : ServiceCount(t, s) <= ServiceCount(u, s)
  BY CountsGrow
<1>2. /\ \A v \in Levels : LevelCount(t, v) \in Nat /\ LevelCount(u, v) \in Nat
      /\ \A s : ServiceCount(t, s) \in Nat /\ ServiceCount(u, s) \in Nat
  BY CountsOf
<1>3. Under(r.before, u, Cells)
  <2>1. \A c \in Cells : r.before[c] \in Nat /\ t[c] \in Nat /\ u[c] \in Nat
    BY DEF Tables
  <2> QED BY <2>1 DEF Upper, Under
<1>4. r.stage # "levels" => \A v \in Levels : r.levels[v] <= LevelCount(u, v)
  BY <1>1, <1>2 DEF Lower, Upper
<1>5. r.stage \in {"histogram", "done"} =>
        \A s \in DOMAIN r.services : r.services[s] <= ServiceCount(u, s)
  BY <1>1, <1>2 DEF Lower, Upper
<1>6. r.stage = "done" => \A v \in Levels : Bars(r.histogram, v) <= LevelCount(u, v)
  BY <1>1, <1>2 DEF Lower, Upper
<1> QED BY <1>3, <1>4, <1>5, <1>6 DEF Upper

\* A request in flight stays as it is but for calm.
LEMMA GoesOn ==
  ASSUME DOMAIN stats = Fields, stats.stage # "none", StatsGoOn
  PROVE  /\ DOMAIN stats' = Fields /\ stats'.stage = stats.stage /\ stats'.q = stats.q
         /\ stats'.before = stats.before /\ stats'.levels = stats.levels
         /\ stats'.services = stats.services /\ stats'.histogram = stats.histogram
         /\ stats'.calm => /\ stats.calm /\ raw \subseteq raw'
                           /\ \A c \in Cells : rollup[c] <= rollup'[c]
<1> DEFINE b == /\ stats.calm
                /\ raw \subseteq raw'
                /\ \A c \in Cells : rollup[c] <= rollup'[c]
<1>1. stats' = [stats EXCEPT !.calm = b]
  BY Zenon DEF StatsGoOn
<1> HIDE DEF b
<1>2. /\ DOMAIN stats' = Fields /\ stats'.stage = stats.stage /\ stats'.q = stats.q
      /\ stats'.before = stats.before /\ stats'.levels = stats.levels
      /\ stats'.services = stats.services /\ stats'.histogram = stats.histogram
      /\ stats'.calm = b
  BY <1>1 DEF Fields
<1> QED BY <1>2, Zenon DEF b

\* While ClickHouse is open: its tables change, the request goes on.
LEMMA StatsKept ==
  ASSUME TypeOK, TypeOK', RollupInv, RollupInv', StatsInv, UNCHANGED store,
         \A e \in raw : entries'[e] = entries[e],
         \/ store = "clickhouse" /\ StatsGoOn
         \/ UNCHANGED stats /\ raw = raw' /\ rollup = rollup'
         \/ UNCHANGED stats /\ store # "clickhouse"
  PROVE  StatsInv'
<1>1. CASE stats = NoStats
  <2>1. stats.stage = "none"
    BY <1>1 DEF NoStats
  <2>2. stats' = stats
    BY <2>1, Zenon DEF StatsGoOn
  <2> QED BY <1>1, <2>2, Zenon DEF StatsInv, NoStats
<1>2. CASE stats # NoStats
  <2>1. /\ DOMAIN stats = Fields
        /\ stats.stage \in {"levels", "services", "histogram", "done"}
        /\ stats.before \in Tables(Cells)
        /\ store = "clickhouse" \/ (store = "memory" /\ stats.stage = "done")
        /\ stats.calm => Lower(stats) /\ (store = "clickhouse" => Upper(stats, Source(stats.q)))
    BY <1>2, Zenon DEF StatsInv
  <2>2. stats.stage # "none"
    BY <2>1
  <2>3. /\ DOMAIN stats' = Fields /\ stats'.stage = stats.stage /\ stats'.q = stats.q
        /\ stats'.before = stats.before /\ stats'.levels = stats.levels
        /\ stats'.services = stats.services /\ stats'.histogram = stats.histogram
        /\ stats'.calm => /\ stats.calm
                          /\ store = "clickhouse" =>
                               /\ raw \subseteq raw'
                               /\ \A c \in Cells : rollup[c] <= rollup'[c]
    <3>1. CASE store = "clickhouse" /\ StatsGoOn
      BY <2>1, <2>2, <3>1, GoesOn
    <3>2. CASE UNCHANGED stats /\ raw = raw' /\ rollup = rollup'
      <4>1. \A c \in Cells : rollup[c] <= rollup[c]
        BY DEF TypeOK
      <4> QED BY <2>1, <3>2, <4>1
    <3>3. CASE UNCHANGED stats /\ store # "clickhouse"
      BY <2>1, <3>3
    <3> QED BY <3>1, <3>2, <3>3
  <2>4. Lower(stats') <=> Lower(stats)
    BY <2>3 DEF Lower
  <2>5. ASSUME stats'.calm, store = "clickhouse"
        PROVE  Upper(stats, Source(stats.q))'
    <3> DEFINE t == Source(stats.q)
               u == Source(stats.q)'
    <3>1. t \in Tables(Cells) /\ u \in Tables(Cells)
      BY SourceTables, SourceTablesNext
    <3>2. Lower(stats) /\ Upper(stats, t)
      BY <2>1, <2>3, <2>5
    <3>3. Under(t, u, Cells)
      BY <2>3, <2>5, SourceGrows
    <3>4. Upper(stats, u)
      <4> HIDE DEF t, u
      <4> QED BY <2>1, <3>1, <3>2, <3>3, UpperGrows
    <3> HIDE DEF u
    <3>5. Upper(stats', u)
      BY <2>3, <3>4 DEF Upper
    <3> QED BY <3>5 DEF u
  <2> QED BY <2>1, <2>3, <2>4, <2>5 DEF StatsInv
<1> QED BY <1>1, <1>2

\* A request to ClickHouse begins.
LEMMA StatsAsk ==
  ASSUME TypeOK, RollupInv, NEW p \in Params, AskStats(p)
  PROVE  StatsInv'
<1>0. PICK q : q = Parse(p, now)
  OBVIOUS
<1>1. /\ store = "clickhouse" /\ UNCHANGED unstats
      /\ stats' = [stage |-> "levels", q |-> q, before |-> Source(q), calm |-> TRUE,
                   levels |-> <<>>, services |-> <<>>, histogram |-> <<>>]
  BY <1>0, Zenon DEF AskStats
<1>2. /\ DOMAIN stats' = Fields /\ stats'.stage = "levels"
      /\ stats'.before = Source(q) /\ stats'.q = q
  BY <1>1 DEF Fields
<1>3. Source(q) \in Tables(Cells)
  BY SourceTables
<1>4. store' = "clickhouse" /\ Source(q)' = Source(q)
  <2>1. UNCHANGED <<entries, store, raw, rollup, mem>>
    BY <1>1, Zenon DEF unstats, tables
  <2>2. RawRows' = RawRows /\ MemRows' = MemRows
    BY <2>1 DEF RawRows, MemRows
  <2> QED BY <1>1, <2>1, <2>2, Zenon DEF Source
<1>5. Under(Source(q), Source(q), Cells)
  BY <1>3 DEF Under, Tables
<1>6. Lower(stats)'
  BY <1>2 DEF Lower
<1>7. Upper(stats, Source(stats.q))'
  <2>1. Source(stats.q)' = Source(q)
    BY <1>2, <1>4
  <2> QED BY <1>2, <1>5, <2>1 DEF Upper
<1> QED BY <1>2, <1>3, <1>4, <1>6, <1>7 DEF StatsInv

\* The memory store answers in one step.
LEMMA StatsMem ==
  ASSUME TypeOK, RollupInv, NEW p \in Params, MemStats(p)
  PROVE  StatsInv'
<1> DEFINE q == Parse(p, now)
           t == MemTable(MemRows, q, Cells)
<1>1. store = "memory" /\ UNCHANGED unstats
  BY Zenon DEF MemStats
<1>2. PICK top \in TopServices(t) :
        stats' = [stage |-> "done", q |-> q, before |-> t, calm |-> TRUE,
                  levels |-> ByLevel(t), services |-> top, histogram |-> Histogram(t)]
  BY Zenon DEF MemStats
<1>3. t \in Tables(Cells)
  BY SourceTable
<1> HIDE DEF t
<1>4. /\ DOMAIN stats' = Fields /\ stats'.stage = "done" /\ stats'.before = t
      /\ stats'.levels = ByLevel(t) /\ stats'.services = top
      /\ stats'.histogram = Histogram(t)
  <2> HIDE DEF q
  <2> QED BY <1>2 DEF Fields
<1>5. Lower(stats)'
  <2>1. \A v \in Levels : /\ LevelCount(t, v) \in Nat
                          /\ ByLevel(t)[v] = LevelCount(t, v)
                          /\ Bars(Histogram(t), v) = LevelCount(t, v)
    BY <1>3, CountsOf
  <2>2. \A s \in DOMAIN top : top[s] = ServiceCount(t, s) /\ ServiceCount(t, s) \in Nat
    BY <1>2, <1>3, CountsOf
  <2>3. \A n \in Nat : n <= n
    OBVIOUS
  <2> QED BY <1>4, <2>1, <2>2, <2>3 DEF Lower
<1>6. store' = "memory"
  BY <1>1, Zenon DEF unstats
<1> QED BY <1>3, <1>4, <1>5, <1>6 DEF StatsInv

\* One of the three queries of ClickHouse is answered, or none.
LEMMA StatsQuery ==
  ASSUME TypeOK, RollupInv, StatsInv, stats.stage \in {"levels", "services", "histogram"},
         NEW t, t = Source(stats.q), NextQuery(t) \/ stats' = NoStats, UNCHANGED unstats
  PROVE  StatsInv'
<1>1. CASE stats' = NoStats
  BY <1>1, Zenon DEF StatsInv, NoStats
<1>2. CASE NextQuery(t)
  <2>1. /\ DOMAIN stats = Fields /\ stats.before \in Tables(Cells)
        /\ store = "clickhouse"
        /\ stats.calm => Lower(stats) /\ Upper(stats, t)
    <3>1. stats # NoStats
      BY DEF NoStats
    <3> QED BY <3>1 DEF StatsInv
  <2>2. t \in Tables(Cells)
    BY SourceTables
  <2>3. store' = "clickhouse" /\ \A q : Source(q)' = Source(q)
    <3>1. UNCHANGED <<entries, store, raw, rollup, mem>>
      BY Zenon DEF unstats, tables
    <3>2. RawRows' = RawRows /\ MemRows' = MemRows
      BY <3>1 DEF RawRows, MemRows
    <3> QED BY <2>1, <3>1, <3>2, Zenon DEF Source
  <2>4. /\ \A v \in Levels : LevelCount(t, v) \in Nat /\ LevelCount(stats.before, v) \in Nat
        /\ \A v \in Levels : ByLevel(t)[v] = LevelCount(t, v)
                             /\ Bars(Histogram(t), v) = LevelCount(t, v)
        /\ \A s : ServiceCount(t, s) \in Nat
    BY <2>1, <2>2, CountsOf
  <2>5. \A n \in Nat : n <= n
    OBVIOUS
  <2>6. /\ DOMAIN stats' = Fields /\ stats'.q = stats.q /\ stats'.before = stats.before
        /\ stats'.calm = stats.calm
    BY <1>2, <2>1 DEF NextQuery, Fields
  <2>7. ASSUME stats.calm
        PROVE  /\ Lower(stats) /\ Upper(stats, t)
               /\ \A v \in Levels : LevelCount(stats.before, v) <= LevelCount(t, v)
               /\ \A s : ServiceCount(stats.before, s) <= ServiceCount(t, s)
    <3>1. Lower(stats) /\ Upper(stats, t)
      BY <2>1, <2>7
    <3>2. Under(stats.before, t, Cells)
      BY <3>1 DEF Upper
    <3> QED BY <2>1, <2>2, <3>1, <3>2, CountsGrow
  <2>8. CASE stats.stage = "levels"
    <3>1. stats'.stage = "services" /\ stats'.levels = ByLevel(t)
      BY <1>2, <2>1, <2>8 DEF NextQuery, Fields
    <3>2. ASSUME stats.calm PROVE Lower(stats)' /\ Upper(stats', t)
      BY <2>4, <2>5, <2>6, <2>7, <3>1, <3>2 DEF Lower, Upper
    <3> QED BY <2>1, <2>3, <2>6, <3>1, <3>2 DEF StatsInv
  <2>9. CASE stats.stage = "services"
    <3>1. PICK top \in TopServices(t) :
            stats' = [stats EXCEPT !.stage = "histogram", !.services = top]
      BY <1>2, <2>9 DEF NextQuery
    <3>2. /\ stats'.stage = "histogram" /\ stats'.services = top
          /\ stats'.levels = stats.levels
      BY <2>1, <3>1 DEF Fields
    <3>3. \A s \in DOMAIN top : top[s] = ServiceCount(t, s)
      BY <2>2, CountsOf
    <3>4. ASSUME stats.calm PROVE Lower(stats)' /\ Upper(stats', t)
      <4>1. Lower(stats)'
        BY <2>4, <2>6, <2>7, <2>9, <3>2, <3>3, <3>4 DEF Lower
      <4>2. Upper(stats', t)
        BY <2>4, <2>5, <2>6, <2>7, <2>9, <3>2, <3>3, <3>4 DEF Upper
      <4> QED BY <4>1, <4>2
    <3> QED BY <2>1, <2>3, <2>6, <3>2, <3>4 DEF StatsInv
  <2>10. CASE stats.stage = "histogram"
    <3>1. /\ stats'.stage = "done" /\ stats'.histogram = Histogram(t)
          /\ stats'.levels = stats.levels /\ stats'.services = stats.services
      BY <1>2, <2>1, <2>10 DEF NextQuery, Fields
    <3>2. ASSUME stats.calm PROVE Lower(stats)' /\ Upper(stats', t)
      <4>1. Lower(stats)'
        BY <2>4, <2>6, <2>7, <2>10, <3>1, <3>2 DEF Lower, Upper
      <4>2. Upper(stats', t)
        BY <2>4, <2>5, <2>6, <2>7, <2>10, <3>1, <3>2 DEF Upper
      <4> QED BY <4>1, <4>2
    <3> QED BY <2>1, <2>3, <2>6, <3>1, <3>2 DEF StatsInv
  <2> QED BY <2>8, <2>9, <2>10
<1> QED BY <1>1, <1>2

\* At first nobody has asked.
LEMMA StatsInit == Init => StatsInv
BY DEF Init, StatsInv

\* Every step keeps the figures within their bounds.
LEMMA StatsStep ==
  ASSUME TypeOK, TypeOK', RollupInv, RollupInv', StatsInv, Step
  PROVE  StatsInv'
<1>1. ASSUME NEW env \in Settings, Start(env)
      PROVE  StatsInv'
  <2>1. store = "none" /\ UNCHANGED stats
    BY <1>1, Zenon DEF Start
  <2>2. stats = NoStats
    BY <2>1 DEF StatsInv
  <2> QED BY <2>1, <2>2, Zenon DEF StatsInv, NoStats
<1>2. CASE Stop
  BY <1>2, Zenon DEF Stop, StatsInv, NoStats
<1>3. ASSUME NEW request \in Requests, Post(request)
      PROVE  StatsInv'
  <2>1. UNCHANGED <<store, raw, rollup, stats>>
    BY <1>3, Zenon DEF Post, tables
  <2>2. PICK new \in Seq(Log) : entries' = entries \o new
    BY <1>3, PostType
  <2>3. \A e \in raw : entries'[e] = entries[e]
    BY <2>2, Appended DEF TypeOK
  <2> QED BY <2>1, <2>3, StatsKept
<1>4. ASSUME NEW batch \in Batches, InsertBatch(batch)
      PROVE  StatsInv'
  <2>1. store = "clickhouse" /\ StatsGoOn /\ UNCHANGED <<store, entries>>
    BY <1>4, Zenon DEF InsertBatch, Sending
  <2> QED BY <2>1, StatsKept
<1>5. ASSUME NEW batch \in Batches, InsertFails(batch)
      PROVE  StatsInv'
  <2>1. store = "clickhouse" /\ StatsGoOn /\ UNCHANGED <<store, entries>>
    BY <1>5, Zenon DEF InsertFails, Sending
  <2> QED BY <2>1, StatsKept
<1>6. ASSUME NEW batch \in Batches, MemInsert(batch)
      PROVE  StatsInv'
  <2>1. store = "memory" /\ UNCHANGED <<store, entries, stats>>
    BY <1>6, Zenon DEF MemInsert
  <2>2. store # "clickhouse"
    BY <2>1
  <2> QED BY <2>1, <2>2, StatsKept
<1>7. CASE Expire
  <2>1. StatsGoOn /\ UNCHANGED <<store, entries>>
    BY <1>7, Zenon DEF Expire
  <2>2. CASE store = "clickhouse"
    BY <2>1, <2>2, StatsKept
  <2>3. CASE store # "clickhouse"
    <3> SUFFICES ASSUME stats # NoStats PROVE StatsInv'
      <4>1. stats = NoStats => stats' = stats
        BY <2>1, Zenon DEF StatsGoOn, NoStats
      <4> QED BY <4>1, Zenon DEF StatsInv, NoStats
    <3>1. /\ DOMAIN stats = Fields /\ stats.stage = "done" /\ store = "memory"
          /\ stats.before \in Tables(Cells) /\ (stats.calm => Lower(stats))
      BY <2>3 DEF StatsInv
    <3>2. /\ DOMAIN stats' = Fields /\ stats'.stage = stats.stage
          /\ stats'.before = stats.before /\ stats'.levels = stats.levels
          /\ stats'.services = stats.services /\ stats'.histogram = stats.histogram
          /\ stats'.calm => stats.calm
      BY <2>1, <3>1, GoesOn
    <3>3. Lower(stats)' <=> Lower(stats)
      BY <3>2 DEF Lower
    <3>4. store' # "clickhouse"
      BY <2>1, <3>1
    <3> QED BY <2>1, <3>1, <3>2, <3>3, <3>4 DEF StatsInv
  <2> QED BY <2>2, <2>3
<1>8. CASE Tick
  <2>1. UNCHANGED <<store, entries, raw, rollup, stats>>
    BY <1>8, Zenon DEF Tick, tables
  <2> QED BY <2>1, StatsKept
<1>9. ASSUME NEW p \in Params, AskStats(p)
      PROVE  StatsInv'
  BY <1>9, StatsAsk
<1>10. ASSUME NEW p \in Params, MemStats(p)
       PROVE  StatsInv'
  BY <1>10, StatsMem
<1>11. ASSUME stats.stage \in {"levels", "services", "histogram"}
       PROVE  store # "memory"
  BY <1>11 DEF StatsInv, NoStats
<1>12. CASE StatsFromRollup
  <2> DEFINE t == RollupTable(rollup, stats.q)
  <2>1. /\ stats.stage \in {"levels", "services", "histogram"} /\ stats.q.search = ""
        /\ NextQuery(t) \/ stats' = NoStats
        /\ UNCHANGED unstats
    BY <1>12, Zenon DEF StatsFromRollup
  <2>2. t = Source(stats.q)
    BY <1>11, <2>1, Zenon DEF Source
  <2> HIDE DEF t
  <2> QED BY <2>1, <2>2, StatsQuery, Zenon
<1>13. CASE StatsFromRaw
  <2> DEFINE t == RawTable(RawRows, stats.q, Cells)
  <2>1. /\ stats.stage \in {"levels", "services", "histogram"} /\ stats.q.search # ""
        /\ NextQuery(t) \/ stats' = NoStats
        /\ UNCHANGED unstats
    BY <1>13, Zenon DEF StatsFromRaw
  <2>2. t = Source(stats.q)
    BY <1>11, <2>1, Zenon DEF Source
  <2> HIDE DEF t
  <2> QED BY <2>1, <2>2, StatsQuery, Zenon
<1>14. CASE RespondStats
  BY <1>14, Zenon DEF RespondStats, StatsInv, NoStats
<1> QED BY <1>1, <1>2, <1>3, <1>4, <1>5, <1>6, <1>7, <1>8, <1>9, <1>10, <1>12, <1>13,
           <1>14, Zenon DEF Step

\* The invariant is inductive.
LEMMA StatsNext ==
  TypeOK /\ TypeOK' /\ RollupInv /\ RollupInv' /\ StatsInv /\ [Next]_vars => StatsInv'
<1> SUFFICES ASSUME TypeOK, TypeOK', RollupInv, RollupInv', StatsInv, [Next]_vars
             PROVE  StatsInv'
  OBVIOUS
<1>1. CASE UNCHANGED vars
  <2>1. UNCHANGED <<store, entries, raw, rollup, stats>>
    BY <1>1, Zenon DEF vars, tables
  <2> QED BY <2>1, StatsKept
<1>2. CASE Next
  BY <1>2, StatsStep DEF Next
<1> QED BY <1>1, <1>2

\* At the end the figures have both bounds.
LEMMA BetweenHolds == TypeOK /\ RollupInv /\ StatsInv => StatsBetween
<1> SUFFICES ASSUME TypeOK, RollupInv, StatsInv, stats.stage = "done", stats.calm
             PROVE  /\ \A v \in Levels :
                         /\ ByLevel(stats.before)[v] <= stats.levels[v]
                         /\ stats.levels[v] <= Bars(stats.histogram, v)
                         /\ store = "clickhouse" =>
                              Bars(stats.histogram, v) <= ByLevel(Source(stats.q))[v]
                    /\ \A s \in DOMAIN stats.services :
                         /\ ServiceCount(stats.before, s) <= stats.services[s]
                         /\ store = "clickhouse" =>
                              stats.services[s] <= ServiceCount(Source(stats.q), s)
  BY Zenon DEF StatsBetween, Bars, ServiceCount
<1>1. /\ stats.before \in Tables(Cells) /\ Lower(stats)
      /\ store = "clickhouse" => Upper(stats, Source(stats.q))
  <2>1. stats # NoStats
    BY DEF NoStats
  <2> QED BY <2>1 DEF StatsInv
<1>2. Source(stats.q) \in Tables(Cells)
  BY SourceTables
<1>3. \A v \in Levels : /\ ByLevel(stats.before)[v] = LevelCount(stats.before, v)
                        /\ ByLevel(Source(stats.q))[v] = LevelCount(Source(stats.q), v)
  BY <1>1, <1>2, CountsOf
<1> QED BY <1>1, <1>3 DEF Lower, Upper

\* With the types, it always holds.
LEMMA RollupAlways == Spec => []RollupInv
<1>1. TypeOK /\ TypeOK' /\ RollupInv /\ [Next]_vars => RollupInv'
  BY RollupNext
<1> QED BY <1>1, RollupInit, ReadTypes, PTL DEF Spec

\* So do the figures' bounds.
LEMMA StatsAlways == Spec => []StatsInv
<1>1. TypeOK /\ TypeOK' /\ RollupInv /\ RollupInv' /\ StatsInv /\ [Next]_vars => StatsInv'
  BY StatsNext
<1> QED BY <1>1, StatsInit, RollupAlways, ReadTypes, PTL DEF Spec

\* Between the first and the last of an answer's three queries (clickhouse.go
\* 192-373) rows may arrive: while none leave, no figure is below what the
\* tables held at first or above what they hold now, and no bar is behind its total.
THEOREM StatsWithin == Spec => []StatsBetween
  BY ReadTypes, RollupAlways, StatsAlways, BetweenHolds, PTL

-----------------------------------------------------------------------------
(* There is an answer.                                                     *)

\* Every request that is not refused has an answer, from either store.
Answered ==
  \A p \in Params : ~ParseFails(p, now) =>
    LET q == Parse(p, now)
    IN  /\ ClickHouseSearch(RawRows, q) # {}
        /\ MemSearch(MemRows, q) # {}
        /\ TopServices(Source(q)) # {}

\* Clamp (query.go) leaves no page without a length.
LEMMA ClampType ==
  ASSUME NEW p \in RequestQuery, NEW t \in Int
  PROVE  Parse(p, t).limit \in 1..MaxLimit /\ Parse(p, t).offset \in Nat
<1> DEFINE r == [from |-> ParseTime(p.from, t), to |-> ParseTime(p.to, t),
                 levels |-> p.levels, services |-> p.services, search |-> p.search,
                 limit |-> p.limit, offset |-> p.offset, order |-> p.order]
           n == IF p.limit <= 0 THEN DefaultLimit
                ELSE IF p.limit > MaxLimit THEN MaxLimit ELSE p.limit
           k == IF p.offset < 0 THEN 0 ELSE p.offset
           o == IF p.order = "asc" THEN p.order ELSE "desc"
<1>1. p.limit \in Int /\ p.offset \in Int
  BY DEF RequestQuery
<1>2. n \in 1..MaxLimit /\ k \in Nat
  BY <1>1, QueryAssumption
<1>3. Parse(p, t) = [r EXCEPT !.limit = n, !.offset = k, !.order = o]
  <2>1. Parse(p, t) = Clamp(r)
    BY Zenon DEF Parse
  <2>2. r.limit = p.limit /\ r.offset = p.offset /\ r.order = p.order
    OBVIOUS
  <2>3. Clamp(r) = [r EXCEPT !.limit = n, !.offset = k, !.order = o]
    <3>1. Clamp(r) = [r EXCEPT !.limit = IF r.limit <= 0 THEN DefaultLimit
                                         ELSE IF r.limit > MaxLimit THEN MaxLimit
                                         ELSE r.limit,
                               !.offset = IF r.offset < 0 THEN 0 ELSE r.offset,
                               !.order = IF r.order = "asc" THEN r.order ELSE "desc"]
      BY Zenon DEF Clamp
    <3> QED BY <2>2, <3>1
  <2> QED BY <2>1, <2>3
<1>4. [r EXCEPT !.limit = n, !.offset = k, !.order = o].limit = n
      /\ [r EXCEPT !.limit = n, !.offset = k, !.order = o].offset = k
  <2> HIDE DEF n, k, o
  <2> QED OBVIOUS
<1> HIDE DEF n, k, o, r
<1> QED BY <1>2, <1>3, <1>4

\* The rows of both stores are finitely many and have times.
LEMMA AnsweredHolds == TypeOK /\ RollupInv => Answered
<1> SUFFICES ASSUME TypeOK, RollupInv, NEW p \in Params
             PROVE  /\ ClickHouseSearch(RawRows, Parse(p, now)) # {}
                    /\ MemSearch(MemRows, Parse(p, now)) # {}
                    /\ TopServices(Source(Parse(p, now))) # {}
  BY Zenon DEF Answered
<1>1. PICK q : q = Parse(p, now)
  OBVIOUS
<1>2. q.limit \in Nat /\ q.offset \in Nat
  <2>1. now \in Int
    BY ReadAssumption DEF TypeOK
  <2>2. p \in RequestQuery
    BY RequestAssumption, Zenon
  <2>3. q.limit \in 1..MaxLimit /\ q.offset \in Nat
    BY <1>1, <2>1, <2>2, ClampType
  <2> QED BY <2>3, QueryAssumption
<1>3. Slices(RawRows, Found(RawRows, q), q) # {}
  <2>1. Found(RawRows, q) \in SUBSET raw /\ raw \subseteq DOMAIN entries
    BY DEF Found, RawRows, TypeOK
  <2>2. IsFiniteSet(Found(RawRows, q))
    BY <2>1, DomainFinite, FS_Subset DEF TypeOK
  <2>3. Dated(RawRows, Found(RawRows, q))
    <3>1. \A e \in raw : RawRows[e] \in Log
      BY DEF RawRows, TypeOK
    <3> QED BY <2>1, <3>1 DEF Dated, Log
  <2> QED BY <1>2, <2>2, <2>3, SearchAnswers
<1>4. Slices(MemRows, {r \in DOMAIN MemRows : Matches(MemRows[r], q)}, q) # {}
  <2> DEFINE R == {r \in DOMAIN MemRows : Matches(MemRows[r], q)}
  <2>1. R \in SUBSET DOMAIN mem
    BY DEF MemRows
  <2>2. IsFiniteSet(R)
    <3> HIDE DEF R
    <3> QED BY <2>1, DomainFinite DEF TypeOK
  <2>3. Dated(MemRows, R)
    <3>1. \A i \in DOMAIN mem : MemRows[i] \in Log
      BY DEF MemRows, TypeOK
    <3> HIDE DEF R
    <3> QED BY <2>1, <3>1 DEF Dated, Log
  <2> HIDE DEF R
  <2>4. Slices(MemRows, R, q) # {}
    BY <1>2, <2>2, <2>3, SearchAnswers
  <2> QED BY <2>4 DEF R
<1>5. Source(q) \in Tables(Cells)
  BY SourceTables
<1>6. TopServices(Source(q)) # {}
  BY <1>5, ServicesAnswer
<1>7. ClickHouseSearch(RawRows, q) # {}
  <2>1. PICK page : page \in Slices(RawRows, Found(RawRows, q), q)
    BY <1>3
  <2> QED BY <2>1, Zenon DEF ClickHouseSearch
<1>8. MemSearch(MemRows, q) # {}
  <2>1. PICK page : page \in Slices(MemRows, {r \in DOMAIN MemRows : Matches(MemRows[r], q)}, q)
    BY <1>4
  <2> QED BY <2>1, Zenon DEF MemSearch
<1> QED BY <1>1, <1>6, <1>7, <1>8

\* Whatever is stored and whatever is asked for, a search has a page and
\* statistics have a list of services, in both stores (clickhouse.go 131-373,
\* memstore.go 39-120): what holds of all answers holds of some.
THEOREM AlwaysAnswered == Spec => []Answered
  BY ReadTypes, RollupAlways, AnsweredHolds, PTL
=============================================================================
