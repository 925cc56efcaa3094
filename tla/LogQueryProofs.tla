--------------------------- MODULE LogQueryProofs ---------------------------
(***************************************************************************)
(* What the filters of LogQuery have to do with each other, for every log  *)
(* and every query: the two stores differ on logs of the second of a bound *)
(* and on no others, the rollup covers what they select and less than a    *)
(* minute more.  What its pages have to do with each other, for any rows.  *)
(* What the sums over its tables of statistics count.  And that no search  *)
(* and no statistics are without an answer.                                *)
(***************************************************************************)
EXTENDS LogQuery, FiniteSetTheorems, WellFoundedInduction, TLAPS

\* Logs and queries as the stores see them.
StoredLog ==
  [id : Int, timestamp : Int, level : Levels, service : Services,
   message : SUBSET Words]
Bound == Int \cup {NoTime}
ParsedQuery ==
  [from : Bound, to : Bound, levels : SUBSET Levels, services : SUBSET Services,
   search : SearchText, limit : Int, offset : Int, order : {"asc", "desc"}]

-----------------------------------------------------------------------------
(* Seconds and minutes.                                                    *)

\* A multiple of m is at least m ahead of every smaller one.
LEMMA Multiples ==
  ASSUME NEW m \in Nat, NEW a \in Int, NEW b \in Int, a + 1 <= b
  PROVE  m * a + m <= m * b
<1>1. m * (b - a) >= m * 1
  BY Z3
<1> QED BY <1>1, Z3

\* RoundDown rounds by less than a unit to a multiple of it.
LEMMA RoundDownFacts ==
  ASSUME NEW m \in Nat \ {0}, NEW t \in Int
  PROVE  /\ RoundDown(t, m) \in Int
         /\ RoundDown(t, m) <= t
         /\ t < RoundDown(t, m) + m
         /\ RoundDown(t, m) = m * (t \div m)
         /\ t \div m \in Int
<1>1. t % m \in 0..(m - 1)
  OBVIOUS
<1>2. t = m * (t \div m) + (t % m) /\ t \div m \in Int
  OBVIOUS
<1> QED BY <1>1, <1>2 DEF RoundDown

\* The multiple is the greatest one.
LEMMA RoundDownGreatest ==
  ASSUME NEW m \in Nat \ {0}, NEW t \in Int, NEW a \in Int, m * a <= t
  PROVE  m * a <= RoundDown(t, m)
<1> DEFINE b == t \div m
<1>1. /\ RoundDown(t, m) \in Int /\ RoundDown(t, m) = m * b /\ b \in Int
      /\ t < RoundDown(t, m) + m
  BY RoundDownFacts
<1> HIDE DEF b
<1>2. CASE a <= b
  <2>1. CASE a = b
    BY <1>1, <2>1
  <2>2. CASE a + 1 <= b
    <3>1. m * a + m <= m * b
      BY <1>1, <2>2, Multiples
    <3> QED BY <1>1, <3>1
  <2> QED BY <1>1, <1>2, <2>1, <2>2
<1>3. CASE b + 1 <= a
  <2>1. m * b + m <= m * a
    BY <1>1, <1>3, Multiples
  <2>2. m * a \in Int
    OBVIOUS
  <2> QED BY <1>1, <2>1, <2>2
<1> QED BY <1>1, <1>2, <1>3

\* Rounding keeps the order of time.
LEMMA RoundDownMonotone ==
  ASSUME NEW m \in Nat \ {0}, NEW s \in Int, NEW t \in Int, s <= t
  PROVE  RoundDown(s, m) <= RoundDown(t, m)
<1>1. /\ RoundDown(s, m) \in Int /\ RoundDown(s, m) <= s
      /\ RoundDown(s, m) = m * (s \div m) /\ s \div m \in Int
  BY RoundDownFacts
<1>2. m * (s \div m) <= t
  BY <1>1
<1> QED BY <1>1, <1>2, RoundDownGreatest

\* toStartOfMinute rounds down, by less than a minute.
LEMMA BucketType ==
  ASSUME NEW t \in Int
  PROVE  /\ Bucket(t) \in Int
         /\ Bucket(t) <= t
         /\ t < Bucket(t) + MinuteLen
BY RoundDownFacts, QueryAssumption DEF Bucket

\* It keeps the order of time.
LEMMA BucketMonotone ==
  ASSUME NEW s \in Int, NEW t \in Int, s <= t
  PROVE  Bucket(s) <= Bucket(t)
BY RoundDownMonotone, QueryAssumption DEF Bucket

\* A bound that is there is bound as the beginning of its second.
LEMMA BindType ==
  ASSUME NEW t \in Int
  PROVE  /\ Bind(t) = RoundDown(t, Second)
         /\ Bind(t) \in Int
         /\ Bind(t) <= t
         /\ t < Bind(t) + Second
<1>1. t # NoTime
  BY QueryAssumption
<1> QED BY <1>1, RoundDownFacts, QueryAssumption DEF Bind

\* Binding keeps the order of time.
LEMMA BindMonotone ==
  ASSUME NEW s \in Int, NEW t \in Int, s <= t
  PROVE  Bind(s) <= Bind(t)
<1>1. Bind(s) = RoundDown(s, Second) /\ Bind(t) = RoundDown(t, Second)
  BY BindType
<1>2. RoundDown(s, Second) <= RoundDown(t, Second)
  BY RoundDownMonotone, QueryAssumption
<1> QED BY <1>1, <1>2

\* Binding what is bound changes nothing.
LEMMA BindTwice ==
  ASSUME NEW t \in Int
  PROVE  Bind(Bind(t)) = Bind(t)
<1>1. /\ Bind(t) \in Int /\ Second \in Nat \ {0}
      /\ Bind(t) = Second * (t \div Second) /\ t \div Second \in Int
  BY BindType, RoundDownFacts, QueryAssumption
<1> DEFINE a == t \div Second
           b == Bind(t)
<1>2. Second * a <= RoundDown(b, Second)
  <2>1. a \in Int /\ b \in Int /\ Second * a <= b
    BY <1>1
  <2> HIDE DEF a, b
  <2> QED BY <1>1, <2>1, RoundDownGreatest
<1> QED BY <1>1, <1>2, BindType

\* A second does not reach from one minute into another.
LEMMA BindBucket ==
  ASSUME NEW t \in Int
  PROVE  Bucket(Bind(t)) = Bucket(t)
<1>1. /\ MinuteLen \in Nat \ {0} /\ Second \in Nat \ {0}
      /\ MinuteLen % Second = 0
  BY QueryAssumption
<1> DEFINE k == MinuteLen \div Second
           a == t \div MinuteLen
<1>2. k \in Int /\ MinuteLen = Second * k
  <2>1. MinuteLen = Second * k + (MinuteLen % Second) /\ k \in Int
    BY <1>1
  <2> QED BY <1>1, <2>1
<1>3. a \in Int /\ Bucket(t) = MinuteLen * a /\ Bucket(t) <= t
  BY <1>1, RoundDownFacts DEF Bucket
<1> HIDE DEF k, a
<1>4. Bucket(t) = Second * (k * a)
  BY <1>1, <1>2, <1>3, Z3
<1>5. k * a \in Int
  BY <1>2, <1>3
<1>6. Second * (k * a) <= RoundDown(t, Second)
  BY <1>1, <1>3, <1>4, <1>5, RoundDownGreatest
<1>7. /\ Bind(t) \in Int /\ Bind(t) <= t /\ MinuteLen * a <= Bind(t)
  BY <1>3, <1>4, <1>6, BindType
<1>8. MinuteLen * a <= Bucket(Bind(t))
  BY <1>1, <1>3, <1>7, RoundDownGreatest DEF Bucket
<1>9. Bucket(Bind(t)) <= Bucket(t)
  BY <1>7, BucketMonotone
<1> QED BY <1>3, <1>7, <1>8, <1>9, BucketType

-----------------------------------------------------------------------------
(* The filters of the stores.                                              *)

\* A time at which a second begins.
WholeSecond(t) == t = NoTime \/ Bind(t) = t

\* matches (memstore.go 121) does not mirror the WHERE clause that buildWhere
\* makes (clickhouse.go 375), but all the difference is in the seconds of the
\* bounds.  What ClickHouse has too much is of the second of from and earlier
\* than it; what it lacks is of the second of to and later than its beginning.
\* For bounds that are whole seconds there is no difference.
THEOREM FiltersDiffer ==
  ASSUME NEW l \in StoredLog, NEW q \in ParsedQuery
  PROVE  /\ Where(l, q) /\ ~Matches(l, q) =>
              /\ q.from # NoTime
              /\ RoundDown(l.timestamp, Second) = Bind(q.from)
              /\ l.timestamp < q.from
         /\ Matches(l, q) /\ ~Where(l, q) =>
              /\ q.to # NoTime
              /\ RoundDown(l.timestamp, Second) = Bind(q.to)
              /\ l.timestamp > Bind(q.to)
         /\ WholeSecond(q.from) /\ WholeSecond(q.to) =>
              (Matches(l, q) <=> Where(l, q))
<1> DEFINE ts == l.timestamp
           FromIn == q.from # NoTime => ts >= Bind(q.from)
           ToIn == q.to # NoTime => ts <= Bind(q.to)
           Early == q.from # NoTime /\ ts < q.from
           Late == q.to # NoTime /\ ts > q.to
           Rest == /\ q.levels # {} => l.level \in q.levels
                   /\ q.services # {} => l.service \in q.services
                   /\ q.search # "" => q.search \in l.message
<1>1. (Where(l, q) <=> FromIn /\ ToIn /\ Rest) /\ (Matches(l, q) <=> ~Early /\ ~Late /\ Rest)
  BY Zenon DEF Where, Matches
<1>2. ts \in Int /\ (q.from # NoTime => q.from \in Int) /\ (q.to # NoTime => q.to \in Int)
  BY DEF StoredLog, ParsedQuery, Bound
<1> HIDE DEF ts, Rest
<1>3. RoundDown(ts, Second) \in Int /\ RoundDown(ts, Second) = Bind(ts) /\ Bind(ts) <= ts
  BY <1>2, BindType
\* With from, a log is early but found when it is of the second of from.
<1>4. ASSUME q.from # NoTime
      PROVE  /\ ~Early => FromIn
             /\ FromIn /\ Early => RoundDown(ts, Second) = Bind(q.from)
             /\ Bind(q.from) = q.from => (FromIn <=> ~Early)
  <2>1. /\ q.from \in Int /\ Bind(q.from) \in Int /\ Bind(q.from) <= q.from
        /\ Bind(q.from) = RoundDown(q.from, Second)
    BY <1>2, <1>4, BindType
  <2>2. ASSUME FromIn, Early PROVE RoundDown(ts, Second) = Bind(q.from)
    <3>1. Bind(ts) <= Bind(q.from)
      BY <1>2, <2>1, <2>2, BindMonotone
    <3>2. Bind(Bind(q.from)) <= Bind(ts)
      BY <1>2, <1>4, <2>1, <2>2, BindMonotone
    <3>3. Bind(Bind(q.from)) = Bind(q.from)
      BY <2>1, BindTwice
    <3> QED BY <1>3, <2>1, <3>1, <3>2, <3>3
  <2> QED BY <1>2, <2>1, <2>2
\* With to, a log is not late and yet not found when it is of the second of to.
<1>5. ASSUME q.to # NoTime
      PROVE  /\ ToIn => ~Late
             /\ ~Late /\ ~ToIn => RoundDown(ts, Second) = Bind(q.to) /\ ts > Bind(q.to)
             /\ Bind(q.to) = q.to => (ToIn <=> ~Late)
  <2>1. q.to \in Int /\ Bind(q.to) \in Int /\ Bind(q.to) <= q.to
    BY <1>2, <1>5, BindType
  <2>2. ASSUME ~Late, ~ToIn PROVE RoundDown(ts, Second) = Bind(q.to) /\ ts > Bind(q.to)
    <3>1. Bind(ts) <= Bind(q.to)
      BY <1>2, <1>5, <2>1, <2>2, BindMonotone
    <3>2. Bind(Bind(q.to)) <= Bind(ts)
      BY <1>2, <2>1, <2>2, BindMonotone
    <3>3. Bind(Bind(q.to)) = Bind(q.to)
      BY <2>1, BindTwice
    <3> QED BY <1>2, <1>3, <2>1, <2>2, <3>1, <3>2, <3>3
  <2> QED BY <1>2, <1>5, <2>1, <2>2
<1>6. q.from = NoTime => FromIn /\ ~Early
  OBVIOUS
<1>7. q.to = NoTime => ToIn /\ ~Late
  OBVIOUS
<1>8. Where(l, q) /\ ~Matches(l, q) => Early /\ FromIn
  BY <1>1, <1>5, <1>7
<1>9. Matches(l, q) /\ ~Where(l, q) => ~Late /\ ~ToIn
  BY <1>1, <1>4, <1>6
<1>10. WholeSecond(q.from) => (FromIn <=> ~Early)
  BY <1>4, <1>6 DEF WholeSecond
<1>11. WholeSecond(q.to) => (ToIn <=> ~Late)
  BY <1>5, <1>7 DEF WholeSecond
<1>12. WholeSecond(q.from) /\ WholeSecond(q.to) => (Matches(l, q) <=> Where(l, q))
  BY <1>1, <1>10, <1>11, Zenon
<1> QED BY <1>4, <1>5, <1>8, <1>9, <1>12 DEF ts

\* The rollup's filter misses no log that one of the other two filters selects
\* without a search word (clickhouse.go 412 and 375, memstore.go 122).
THEOREM RollupCovers ==
  ASSUME NEW l \in StoredLog, NEW q \in ParsedQuery, Where(l, q) \/ Matches(l, q)
  PROVE  RollupWhere(Cell(l), q)
<1>1. l.timestamp \in Int /\ q.from \in Bound /\ q.to \in Bound
  BY DEF StoredLog, ParsedQuery
<1>2. ASSUME q.from # NoTime PROVE Bucket(l.timestamp) >= Bucket(Bind(q.from))
  <2>1. q.from \in Int /\ Bind(q.from) \in Int /\ Bind(q.from) <= q.from
    BY <1>1, <1>2, BindType DEF Bound
  <2>2. Bind(q.from) <= l.timestamp
    <3>1. CASE Where(l, q)
      <4>1. l.timestamp >= Bind(q.from)
        BY <1>2, <3>1, Zenon DEF Where
      <4> QED BY <1>1, <2>1, <4>1
    <3>2. CASE Matches(l, q)
      <4>1. ~(l.timestamp < q.from)
        BY <1>2, <3>2, Zenon DEF Matches
      <4> QED BY <1>1, <2>1, <4>1
    <3> QED BY <3>1, <3>2
  <2> QED BY <1>1, <2>1, <2>2, BucketMonotone, BucketType
<1>3. ASSUME q.to # NoTime PROVE Bucket(l.timestamp) <= Bucket(Bind(q.to))
  <2>1. q.to \in Int /\ Bind(q.to) \in Int /\ Bind(q.to) <= q.to
    BY <1>1, <1>3, BindType DEF Bound
  <2>2. l.timestamp <= q.to
    <3>1. CASE Where(l, q)
      <4>1. l.timestamp <= Bind(q.to)
        BY <1>3, <3>1, Zenon DEF Where
      <4> QED BY <1>1, <2>1, <4>1
    <3>2. CASE Matches(l, q)
      <4>1. ~(l.timestamp > q.to)
        BY <1>3, <3>2, Zenon DEF Matches
      <4> QED BY <1>1, <2>1, <4>1
    <3> QED BY <3>1, <3>2
  <2> QED BY <1>1, <2>1, <2>2, BucketMonotone, BindBucket
<1>4. (q.levels # {} => l.level \in q.levels) /\ (q.services # {} => l.service \in q.services)
  <2>1. CASE Where(l, q)
    BY <2>1, Zenon DEF Where
  <2>2. CASE Matches(l, q)
    BY <2>2, Zenon DEF Matches
  <2> QED BY <2>1, <2>2
<1> QED BY <1>2, <1>3, <1>4 DEF RollupWhere, Cell

\* And what it selects is less than a minute outside the range.
THEOREM RollupExceeds ==
  ASSUME NEW l \in StoredLog, NEW q \in ParsedQuery, RollupWhere(Cell(l), q)
  PROVE  /\ q.from # NoTime => l.timestamp > q.from - MinuteLen
         /\ q.to # NoTime => l.timestamp < q.to + MinuteLen
<1>1. l.timestamp \in Int /\ MinuteLen \in Nat
  BY QueryAssumption DEF StoredLog
<1>2. ASSUME q.from # NoTime PROVE l.timestamp > q.from - MinuteLen
  <2>1. q.from \in Int
    BY <1>2 DEF ParsedQuery, Bound
  <2>2. Bucket(l.timestamp) >= Bucket(q.from)
    BY <1>2, <2>1, BindBucket DEF RollupWhere, Cell
  <2>3. /\ Bucket(l.timestamp) \in Int /\ Bucket(l.timestamp) <= l.timestamp
        /\ Bucket(q.from) \in Int /\ q.from < Bucket(q.from) + MinuteLen
    BY <1>1, <2>1, BucketType
  <2> QED BY <1>1, <2>1, <2>2, <2>3
<1>3. ASSUME q.to # NoTime PROVE l.timestamp < q.to + MinuteLen
  <2>1. q.to \in Int
    BY <1>3 DEF ParsedQuery, Bound
  <2>2. Bucket(l.timestamp) <= Bucket(q.to)
    BY <1>3, <2>1, BindBucket DEF RollupWhere, Cell
  <2>3. /\ Bucket(q.to) \in Int /\ Bucket(q.to) <= q.to /\ Bucket(l.timestamp) \in Int
        /\ l.timestamp < Bucket(l.timestamp) + MinuteLen
    BY <1>1, <2>1, BucketType
  <2> QED BY <1>1, <2>1, <2>2, <2>3
<1> QED BY <1>2, <1>3

-----------------------------------------------------------------------------
(* Pages.                                                                  *)

\* The first n rows of S are min(n, |S|) of them, and none of the rest comes
\* before them.
LEMMA HeadFacts ==
  ASSUME NEW rows, NEW S, IsFiniteSet(S), NEW q, NEW n \in Nat,
         NEW T \in Heads(rows, S, q, n)
  PROVE  /\ T \subseteq S /\ IsFiniteSet(T)
         /\ Cardinality(T) \in Nat /\ Cardinality(S) \in Nat
         /\ Cardinality(T) <= n
         /\ n <= Cardinality(S) => Cardinality(T) = n
         /\ Cardinality(S) <= n => T = S
         /\ \A a \in T, b \in S \ T : ~Before(rows[b], rows[a], q)
<1>1. /\ T \subseteq S
      /\ Cardinality(T) = Lesser(n, Cardinality(S))
      /\ \A a \in T, b \in S \ T : ~Before(rows[b], rows[a], q)
  BY DEF Heads
<1>2. IsFiniteSet(T) /\ Cardinality(T) \in Nat /\ Cardinality(S) \in Nat
  BY <1>1, FS_Subset, FS_CardinalityType
<1>3. Cardinality(S) = Cardinality(T) => T = S
  BY <1>1, FS_Subset
<1> QED BY <1>1, <1>2, <1>3 DEF Lesser

\* A page is what the first offset + limit rows have more than the first
\* offset of them.
LEMMA SliceFacts ==
  ASSUME NEW rows, NEW S, NEW q, NEW page \in Slices(rows, S, q)
  PROVE  /\ \E T \in Heads(rows, S, q, q.offset + q.limit) :
              \E H \in Heads(rows, S, q, q.offset) :
                H \subseteq T /\ page = T \ H
         /\ page \subseteq S
  BY DEF Slices, Heads

\* Only pages beyond the last row are empty.
LEMMA EmptyPage ==
  ASSUME NEW rows, NEW S, IsFiniteSet(S), NEW q,
         q.offset \in Nat, q.limit \in Nat \ {0},
         NEW page \in Slices(rows, S, q), page = {}
  PROVE  Cardinality(S) <= q.offset
<1>1. PICK T \in Heads(rows, S, q, q.offset + q.limit), H \in Heads(rows, S, q, q.offset) :
        H \subseteq T /\ page = T \ H
  BY SliceFacts
<1>2. T = H
  BY <1>1
<1>3. q.offset + q.limit \in Nat
  OBVIOUS
<1>4. /\ T \subseteq S /\ IsFiniteSet(T)
      /\ Cardinality(T) \in Nat /\ Cardinality(S) \in Nat
      /\ q.offset + q.limit <= Cardinality(S) => Cardinality(T) = q.offset + q.limit
      /\ Cardinality(S) <= q.offset + q.limit => T = S
  BY HeadFacts
<1>5. Cardinality(H) <= q.offset
  BY HeadFacts
<1> QED BY <1>2, <1>4, <1>5

\* Rows have times.
Dated(rows, S) == \A r \in S : rows[r].timestamp \in Int

\* Rows of both selections have one time.
Alike(rows, S, rowsN, SN) ==
  \A r \in S \cap SN : rows[r].timestamp = rowsN[r].timestamp

\* x is older than a page and newer than a row of the next one, if there is any.
Between(rows, page, rowsN, next, x) ==
  /\ \A r \in page : rows[r].timestamp > rows[x].timestamp
  /\ next = {} \/ \E r \in next : rowsN[r].timestamp < rowsN[x].timestamp

\* Disjoint sets are together as many as each is.
LEMMA Disjoint ==
  ASSUME NEW A, IsFiniteSet(A), NEW B, IsFiniteSet(B), A \cap B = {}
  PROVE  /\ IsFiniteSet(A \cup B)
         /\ Cardinality(A) \in Nat /\ Cardinality(B) \in Nat
         /\ Cardinality(A \cup B) = Cardinality(A) + Cardinality(B)
<1>1. Cardinality(A \cap B) = 0
  BY FS_EmptySet
<1>2. Cardinality(A) \in Nat /\ Cardinality(B) \in Nat
  BY FS_CardinalityType
<1>3. /\ IsFiniteSet(A \cup B)
      /\ Cardinality(A \cup B) = Cardinality(A) + Cardinality(B) - Cardinality(A \cap B)
  BY FS_Union
<1> QED BY <1>1, <1>2, <1>3

\* Two pages of rows newest first, the second one not beginning later than
\* the first one ends, of selections made in any order.  X are rows of both
\* selections that are skipped: not on the second page, but older than the
\* first page and newer than a row of the second.  They are no more than the
\* rows ahead of one of them that only the first selection has.  For all that
\* is up to the end of the first page is ahead of X, and there is room for no
\* more rows before the second page.
LEMMA PageAfter ==
  ASSUME NEW rows, NEW S, IsFiniteSet(S), NEW q,
         q.offset \in Nat, q.limit \in Nat \ {0}, q.order = "desc",
         NEW page \in Slices(rows, S, q), page # {},
         NEW rowsN, NEW SN, IsFiniteSet(SN), NEW qN,
         qN.offset \in Nat, qN.limit \in Nat \ {0}, qN.order = "desc",
         NEW next \in Slices(rowsN, SN, qN),
         qN.offset <= q.offset + q.limit,
         Dated(rows, S), Dated(rowsN, SN), Alike(rows, S, rowsN, SN),
         NEW X \in SUBSET ((S \cap SN) \ next),
         \A x \in X : Between(rows, page, rowsN, next, x),
         NEW N \in SUBSET S,
         \A r \in S \ SN, x \in X : rows[r].timestamp > rows[x].timestamp => r \in N
  PROVE  Cardinality(X) <= Cardinality(N)
<1>1. PICK T \in Heads(rows, S, q, q.offset + q.limit), H \in Heads(rows, S, q, q.offset) :
        H \subseteq T /\ page = T \ H
  BY SliceFacts
<1>2. PICK TN \in Heads(rowsN, SN, qN, qN.offset + qN.limit), HN \in Heads(rowsN, SN, qN, qN.offset) :
        HN \subseteq TN /\ next = TN \ HN
  BY SliceFacts
<1>3. /\ T \subseteq S /\ IsFiniteSet(T)
      /\ Cardinality(T) \in Nat /\ Cardinality(S) \in Nat
      /\ q.offset + q.limit <= Cardinality(S) => Cardinality(T) = q.offset + q.limit
      /\ Cardinality(S) <= q.offset + q.limit => T = S
      /\ \A c \in T, d \in S \ T : ~Before(rows[d], rows[c], q)
  BY HeadFacts
<1>4. H \subseteq S /\ \A c \in H, d \in S \ H : ~Before(rows[d], rows[c], q)
  BY HeadFacts
<1>5. /\ TN \subseteq SN /\ Cardinality(SN) \in Nat
      /\ Cardinality(SN) <= qN.offset + qN.limit => TN = SN
      /\ qN.offset + qN.limit <= Cardinality(SN) => Cardinality(TN) = qN.offset + qN.limit
      /\ \A c \in TN, d \in SN \ TN : ~Before(rowsN[d], rowsN[c], qN)
  BY HeadFacts
<1>6. /\ HN \subseteq SN /\ IsFiniteSet(HN) /\ Cardinality(HN) \in Nat
      /\ Cardinality(HN) <= qN.offset
      /\ \A c \in HN, d \in SN \ HN : ~Before(rowsN[d], rowsN[c], qN)
  BY HeadFacts
<1>7. /\ \A c, d \in S : ~Before(rows[d], rows[c], q) => rows[d].timestamp <= rows[c].timestamp
      /\ \A c, d \in SN : ~Before(rowsN[d], rowsN[c], qN) => rowsN[d].timestamp <= rowsN[c].timestamp
  BY DEF Before, Dated
<1>8. IsFiniteSet(N) /\ Cardinality(N) \in Nat /\ IsFiniteSet(X)
  BY FS_Subset, FS_CardinalityType
<1>9. CASE X = {}
  BY <1>8, <1>9, FS_EmptySet
\* A skipped row is before the second page.
<1>10. ASSUME NEW x \in X PROVE x \in HN
  <2>1. x \in SN /\ x \notin next /\ (next = {} \/ \E r \in next : rowsN[r].timestamp < rowsN[x].timestamp)
    BY DEF Between
  <2>2. CASE next = {}
    <3>1. TN = HN
      BY <1>2, <2>2
    <3>2. TN = SN
      BY <1>5, <1>6, <3>1
    <3> QED BY <2>1, <3>1, <3>2
  <2>3. ASSUME NEW r \in next, rowsN[r].timestamp < rowsN[x].timestamp
        PROVE  x \in HN
    <3>1. r \in TN /\ r \in SN
      BY <1>2, <1>5
    <3>2. x \in TN
      BY <1>5, <1>7, <2>1, <2>3, <3>1 DEF Dated
    <3> QED BY <1>2, <2>1, <3>2
  <2> QED BY <2>1, <2>2, <2>3
\* It comes after the first page, and so does no row up to the end of that.
<1>11. ASSUME NEW x \in X
       PROVE  x \notin T /\ \A r \in T : rows[r].timestamp > rows[x].timestamp
  <2>1. x \in S /\ \A r \in page : rows[r].timestamp > rows[x].timestamp
    BY DEF Between
  <2>2. PICK p \in page : rows[p].timestamp > rows[x].timestamp
    BY <2>1
  <2>3. p \in T /\ p \notin H /\ p \in S
    BY <1>1, <1>3
  <2>4. x \notin H
    BY <1>4, <1>7, <2>1, <2>2, <2>3 DEF Dated
  <2>5. x \notin T
    <3>1. x \notin page
      BY <2>1 DEF Dated
    <3> QED BY <1>1, <2>4, <3>1
  <2>6. ASSUME NEW r \in T PROVE rows[r].timestamp > rows[x].timestamp
    <3>1. CASE r \in page
      BY <2>1, <3>1
    <3>2. CASE r \in H
      <4>1. rows[p].timestamp <= rows[r].timestamp
        BY <1>4, <1>7, <2>3, <3>2
      <4> QED BY <1>3, <2>1, <2>2, <2>3, <4>1 DEF Dated
    <3> QED BY <1>1, <3>1, <3>2
  <2> QED BY <2>5, <2>6
<1>12. CASE X # {}
  <2>1. PICK x \in X : TRUE
    BY <1>12
  <2>2. /\ x \in S /\ x \in SN /\ x \in HN /\ x \notin T
        /\ \A r \in T : rows[r].timestamp > rows[x].timestamp
    BY <1>10, <1>11, <2>1
  <2>3. Cardinality(T) = q.offset + q.limit
    BY <1>3, <2>2
  <2> DEFINE B == T \cap SN
             O == T \ SN
  <2>4. O \subseteq N
    BY <1>3, <2>1, <2>2
  <2>5. ASSUME NEW r \in B PROVE r \in HN
    <3>1. rowsN[r].timestamp > rowsN[x].timestamp
      BY <1>3, <2>2 DEF Alike
    <3>2. rowsN[r].timestamp \in Int /\ rowsN[x].timestamp \in Int
      BY <2>2 DEF Dated
    <3> QED BY <1>6, <1>7, <2>2, <3>1, <3>2
  <2>6. B \cap X = {} /\ B \cup X \subseteq HN
    BY <1>10, <1>11, <2>5
  <2>7. B \cap O = {} /\ B \cup O = T
    OBVIOUS
  <2>8. IsFiniteSet(B) /\ IsFiniteSet(O)
    BY <1>3, <2>7, FS_Subset
  <2> HIDE DEF B, O
  <2>9. /\ Cardinality(B) \in Nat /\ Cardinality(O) \in Nat /\ Cardinality(X) \in Nat
        /\ IsFiniteSet(B \cup X)
        /\ Cardinality(B \cup X) = Cardinality(B) + Cardinality(X)
        /\ Cardinality(T) = Cardinality(B) + Cardinality(O)
    <3>1. Cardinality(B \cup O) = Cardinality(B) + Cardinality(O)
      BY <2>7, <2>8, Disjoint
    <3>2. Cardinality(T) = Cardinality(B) + Cardinality(O)
      BY <2>7, <3>1, Zenon
    <3>3. B \cap X = {} /\ IsFiniteSet(B) /\ IsFiniteSet(X) /\ IsFiniteSet(O)
      BY <1>8, <2>6, <2>8
    <3>4. /\ Cardinality(B) \in Nat /\ Cardinality(X) \in Nat
          /\ IsFiniteSet(B \cup X)
          /\ Cardinality(B \cup X) = Cardinality(B) + Cardinality(X)
      BY <3>3, Disjoint
    <3>5. Cardinality(O) \in Nat
      BY <3>3, FS_CardinalityType
    <3> QED BY <3>2, <3>4, <3>5
  <2>10. Cardinality(B \cup X) <= Cardinality(HN)
    BY <1>6, <2>6, FS_Subset
  <2>11. Cardinality(O) <= Cardinality(N)
    BY <1>8, <2>4, FS_Subset
  <2> QED BY <1>6, <1>8, <2>3, <2>9, <2>10, <2>11
<1> QED BY <1>9, <1>12

-----------------------------------------------------------------------------
(* Sums over finite sets, as MapThenSumSet computes them.                  *)

\* Whatever holds of {} and, if it holds of a set less any one element, of the
\* set, holds of every finite set.
LEMMA SetInduction ==
  ASSUME NEW S, IsFiniteSet(S), NEW Good, {} \in Good,
         \A T \in SUBSET S : T # {} /\ (\A x \in T : T \ {x} \in Good) => T \in Good
  PROVE  S \in Good
<1> DEFINE Bad == {T \in SUBSET S : T \notin Good}
           Less == StrictSubsetOrdering(S)
<1> SUFFICES ASSUME S \notin Good PROVE FALSE
  OBVIOUS
<1>1. Bad # {} /\ Bad \subseteq FiniteSubsetsOf(S)
  BY FS_FiniteSubsetsOfFinite
<1>2. IsWellFoundedOn(Less, FiniteSubsetsOf(S))
  BY FS_StrictSubsetOrderingWellFounded
<1>3. PICK T \in Bad : \A U \in Bad : ~ (<<U, T>> \in Less)
  <2> HIDE DEF Bad, Less
  <2> QED BY <1>1, <1>2, WFMin
<1>4. ASSUME NEW x \in T PROVE T \ {x} \in Good
  <2>1. T \ {x} \in SUBSET S /\ T \in SUBSET S /\ T \ {x} # T
    OBVIOUS
  <2>2. <<T \ {x}, T>> \in Less
    BY <2>1 DEF StrictSubsetOrdering
  <2> QED BY <1>3, <2>1, <2>2
<1> QED BY <1>3, <1>4

Sum(f, S) == MapThenSumSet(LAMBDA x : f[x], S)
Pick(S) == CHOOSE x \in S : TRUE

\* g is the function that the fold of MapThenSumSet over S defines.
Folded(f, S, g) ==
  g = [s \in SUBSET S |-> IF s = {} THEN 0 ELSE f[Pick(s)] + g[s \ {Pick(s)}]]

\* What the sum is by definition.
LEMMA SumIsFolded ==
  ASSUME NEW f, NEW S
  PROVE  Sum(f, S) = (CHOOSE g : Folded(f, S, g))[S]
BY Zenon DEF Sum, MapThenSumSet, MapThenFoldSet, Folded, Pick

\* The fold takes an element of the set.
LEMMA PickIn == ASSUME NEW S, S # {} PROVE Pick(S) \in S
BY DEF Pick

\* Its value at a subset.
LEMMA FoldedAt ==
  ASSUME NEW f, NEW S, NEW g, Folded(f, S, g), NEW T \in SUBSET S
  PROVE  g[T] = IF T = {} THEN 0 ELSE f[Pick(T)] + g[T \ {Pick(T)}]
<1> DEFINE F == [s \in SUBSET S |-> IF s = {} THEN 0 ELSE f[Pick(s)] + g[s \ {Pick(s)}]]
<1>1. g = F
  BY DEF Folded
<1>2. F[T] = IF T = {} THEN 0 ELSE f[Pick(T)] + g[T \ {Pick(T)}]
  OBVIOUS
<1> QED BY <1>1, <1>2, Zenon

\* Two such functions agree.
LEMMA FoldedUnique ==
  ASSUME NEW f, NEW S, NEW g, Folded(f, S, g),
         NEW T, NEW h, Folded(f, T, h),
         NEW U, IsFiniteSet(U), U \subseteq S, U \subseteq T
  PROVE  g[U] = h[U]
<1> DEFINE Good == {V \in SUBSET U : g[V] = h[V]}
<1>1. ASSUME NEW V \in SUBSET U
      PROVE  /\ g[V] = IF V = {} THEN 0 ELSE f[Pick(V)] + g[V \ {Pick(V)}]
             /\ h[V] = IF V = {} THEN 0 ELSE f[Pick(V)] + h[V \ {Pick(V)}]
  BY FoldedAt
<1>2. {} \in Good
  BY <1>1
<1>3. ASSUME NEW V \in SUBSET U, V # {}, \A x \in V : V \ {x} \in Good
      PROVE  V \in Good
  BY <1>1, <1>3, PickIn
<1>4. U \in Good
  <2> HIDE DEF Good
  <2> QED BY <1>2, <1>3, SetInduction
<1> QED BY <1>4


\* It gives the sums of all finite subsets.
LEMMA FoldedSum ==
  ASSUME NEW f, NEW S, NEW g, Folded(f, S, g), NEW T \in SUBSET S, IsFiniteSet(T)
  PROVE  g[T] = Sum(f, T)
<1> DEFINE h == [s \in SUBSET T |-> g[s]]
           k == CHOOSE k : Folded(f, T, k)
<1>1. ASSUME NEW s \in SUBSET T
      PROVE  h[s] = IF s = {} THEN 0 ELSE f[Pick(s)] + h[s \ {Pick(s)}]
  <2>1. s \in SUBSET S /\ s \ {Pick(s)} \in SUBSET T
    OBVIOUS
  <2>2. g[s] = IF s = {} THEN 0 ELSE f[Pick(s)] + g[s \ {Pick(s)}]
    BY <2>1, FoldedAt
  <2> QED BY <2>1, <2>2
<1>2. Folded(f, T, h)
  <2> DEFINE F == [s \in SUBSET T |-> IF s = {} THEN 0 ELSE f[Pick(s)] + h[s \ {Pick(s)}]]
  <2>1. \A s \in SUBSET T : h[s] = F[s]
    BY <1>1
  <2>2. h = F
    <3> SUFFICES \A s \in SUBSET T : g[s] = F[s]
      OBVIOUS
    <3> QED BY <2>1
  <2> QED BY <2>2, Zenon DEF Folded
<1>3. Folded(f, T, k)
  BY <1>2
<1>4. g[T] = k[T]
  <2> HIDE DEF k, h
  <2> QED BY <1>3, FoldedUnique
<1> QED BY <1>4, SumIsFolded

\* There is one for every finite set.
LEMMA FoldedExists ==
  ASSUME NEW f, NEW S, IsFiniteSet(S)
  PROVE  \E g : Folded(f, S, g)
<1> DEFINE Good == {T \in SUBSET S : \E g : Folded(f, T, g)}
<1>1. {} \in Good
  <2> DEFINE g == [s \in SUBSET {} |-> 0]
  <2>1. Folded(f, {}, g)
    BY DEF Folded
  <2> QED BY <2>1
<1>2. ASSUME NEW T \in SUBSET S, T # {}, \A x \in T : T \ {x} \in Good
      PROVE  T \in Good
  <2> DEFINE v(s) == IF s = {} THEN 0 ELSE f[Pick(s)] + Sum(f, s \ {Pick(s)})
             g == [s \in SUBSET T |-> v(s)]
  <2>1. ASSUME NEW s \in SUBSET T, s # {}
        PROVE  Sum(f, s \ {Pick(s)}) = v(s \ {Pick(s)})
    <3> DEFINE u == s \ {Pick(s)}
               w == T \ {Pick(s)}
    <3>1. Pick(s) \in T
      BY <2>1, PickIn
    <3>2. PICK h : Folded(f, w, h)
      BY <1>2, <3>1
    <3>3. u \in SUBSET w /\ u \ {Pick(u)} \in SUBSET w
      BY <2>1
    <3>4. IsFiniteSet(u) /\ IsFiniteSet(u \ {Pick(u)})
      BY <3>3, FS_Subset
    <3> HIDE DEF u, w
    <3>5. h[u] = Sum(f, u) /\ h[u \ {Pick(u)}] = Sum(f, u \ {Pick(u)})
      BY <3>2, <3>3, <3>4, FoldedSum
    <3>6. h[u] = IF u = {} THEN 0 ELSE f[Pick(u)] + h[u \ {Pick(u)}]
      BY <3>2, <3>3, FoldedAt
    <3>7. Sum(f, u) = v(u)
      BY <3>5, <3>6
    <3> QED BY <3>7 DEF u
  <2>2. Folded(f, T, g)
    <3> DEFINE F == [s \in SUBSET T |-> IF s = {} THEN 0 ELSE f[Pick(s)] + g[s \ {Pick(s)}]]
    <3>1. ASSUME NEW s \in SUBSET T PROVE v(s) = F[s]
      <4>1. CASE s = {}
        BY <4>1
      <4>2. CASE s # {}
        <5>1. g[s \ {Pick(s)}] = v(s \ {Pick(s)})
          OBVIOUS
        <5>2. F[s] = f[Pick(s)] + g[s \ {Pick(s)}]
          BY <4>2
        <5>3. v(s) = f[Pick(s)] + Sum(f, s \ {Pick(s)})
          BY <4>2
        <5> HIDE DEF v, F, g
        <5> QED BY <2>1, <4>2, <5>1, <5>2, <5>3
      <4> QED BY <4>1, <4>2
    <3>2. g = F
      <4> HIDE DEF v
      <4> QED BY <3>1
    <3> QED BY <3>2, Zenon DEF Folded
  <2> QED BY <2>2
<1>3. S \in Good
  <2> HIDE DEF Good
  <2> QED BY <1>1, <1>2, SetInduction
<1> QED BY <1>3

\* What MapThenSumSet computes.
LEMMA SumStep ==
  ASSUME NEW f, NEW S, IsFiniteSet(S)
  PROVE  Sum(f, S) = IF S = {} THEN 0 ELSE f[Pick(S)] + Sum(f, S \ {Pick(S)})
<1>1. PICK g : Folded(f, S, g)
  BY FoldedExists
<1>2. S \in SUBSET S /\ S \ {Pick(S)} \in SUBSET S /\ IsFiniteSet(S \ {Pick(S)})
  BY FS_Subset
<1>3. g[S] = Sum(f, S) /\ g[S \ {Pick(S)}] = Sum(f, S \ {Pick(S)})
  BY <1>1, <1>2, FoldedSum
<1>4. \A T \in SUBSET S : g[T] = IF T = {} THEN 0 ELSE f[Pick(T)] + g[T \ {Pick(T)}]
  BY <1>1, FoldedAt
<1> QED BY <1>2, <1>3, <1>4

\* Nothing sums up to zero.
LEMMA SumEmpty == ASSUME NEW f PROVE Sum(f, {}) = 0
BY SumStep, FS_EmptySet

\* f is a count for every element of S.
Counts(f, S) == \A x \in S : f[x] \in Nat

\* Counts sum up to a count.
LEMMA SumType ==
  ASSUME NEW f, NEW S, IsFiniteSet(S), Counts(f, S)
  PROVE  Sum(f, S) \in Nat
<1> DEFINE Good == {T \in SUBSET S : Sum(f, T) \in Nat}
<1>1. {} \in Good
  BY SumEmpty
<1>2. ASSUME NEW T \in SUBSET S, T # {}, \A x \in T : T \ {x} \in Good
      PROVE  T \in Good
  <2>1. IsFiniteSet(T)
    BY FS_Subset
  <2>2. Sum(f, T) = f[Pick(T)] + Sum(f, T \ {Pick(T)})
    BY <1>2, <2>1, SumStep
  <2>3. Pick(T) \in T /\ f[Pick(T)] \in Nat
    BY <1>2, PickIn DEF Counts
  <2> QED BY <1>2, <2>2, <2>3
<1>3. S \in Good
  <2> HIDE DEF Good
  <2> QED BY <1>1, <1>2, SetInduction
<1> QED BY <1>3

\* It does not matter which element comes first.
LEMMA SumRemove ==
  ASSUME NEW f, NEW S, IsFiniteSet(S), Counts(f, S), NEW e \in S
  PROVE  Sum(f, S) = f[e] + Sum(f, S \ {e})
<1> DEFINE Good == {T \in SUBSET S : \A x \in T : Sum(f, T) = f[x] + Sum(f, T \ {x})}
<1>1. {} \in Good
  OBVIOUS
<1>2. ASSUME NEW T \in SUBSET S, T # {}, \A x \in T : T \ {x} \in Good
      PROVE  T \in Good
  <2> SUFFICES ASSUME NEW x \in T PROVE Sum(f, T) = f[x] + Sum(f, T \ {x})
    OBVIOUS
  <2> DEFINE p == Pick(T)
  <2>1. IsFiniteSet(T)
    BY FS_Subset
  <2>2. Sum(f, T) = f[p] + Sum(f, T \ {p})
    BY <1>2, <2>1, SumStep
  <2>3. p \in T
    BY <1>2, PickIn
  <2> HIDE DEF p
  <2>4. CASE x # p
    <3>1. Sum(f, T \ {p}) = f[x] + Sum(f, (T \ {p}) \ {x})
      BY <1>2, <2>3, <2>4
    <3>2. Sum(f, T \ {x}) = f[p] + Sum(f, (T \ {x}) \ {p})
      BY <1>2, <2>3, <2>4
    <3>3. (T \ {p}) \ {x} = (T \ {x}) \ {p}
      OBVIOUS
    <3>4. IsFiniteSet((T \ {p}) \ {x}) /\ Counts(f, (T \ {p}) \ {x})
      BY FS_Subset DEF Counts
    <3>5. Sum(f, (T \ {p}) \ {x}) \in Nat
      BY <3>4, SumType
    <3>6. f[x] \in Nat /\ f[p] \in Nat
      BY <2>3 DEF Counts
    <3> QED BY <2>2, <3>1, <3>2, <3>3, <3>5, <3>6
  <2> QED BY <2>2, <2>4
<1>3. S \in Good
  <2> HIDE DEF Good
  <2> QED BY <1>1, <1>2, SetInduction
<1> QED BY <1>3

\* The sum over two disjoint sets.
LEMMA SumUnion ==
  ASSUME NEW f, NEW S, NEW T, IsFiniteSet(S), IsFiniteSet(T), S \cap T = {},
         Counts(f, S), Counts(f, T)
  PROVE  Sum(f, S \cup T) = Sum(f, S) + Sum(f, T)
<1> DEFINE Good == {U \in SUBSET S : Sum(f, U \cup T) = Sum(f, U) + Sum(f, T)}
<1>0. Sum(f, T) \in Nat
  BY SumType
<1>1. {} \in Good
  <2>1. {} \cup T = T
    OBVIOUS
  <2> QED BY <1>0, <2>1, SumEmpty
<1>2. ASSUME NEW U \in SUBSET S, U # {}, \A x \in U : U \ {x} \in Good
      PROVE  U \in Good
  <2>1. PICK x \in U : TRUE
    BY <1>2
  <2>2. (U \cup T) \ {x} = (U \ {x}) \cup T
    BY <2>1
  <2>3. IsFiniteSet(U) /\ IsFiniteSet(U \cup T) /\ IsFiniteSet(U \ {x})
    BY FS_Subset, FS_Union
  <2>4. Counts(f, U) /\ Counts(f, U \cup T) /\ Counts(f, U \ {x}) /\ f[x] \in Nat
    BY DEF Counts
  <2>5. Sum(f, U) = f[x] + Sum(f, U \ {x})
    BY <2>3, <2>4, SumRemove
  <2>6. Sum(f, U \cup T) = f[x] + Sum(f, (U \ {x}) \cup T)
    BY <2>2, <2>3, <2>4, SumRemove
  <2>7. Sum(f, (U \ {x}) \cup T) = Sum(f, U \ {x}) + Sum(f, T)
    BY <1>2
  <2>8. Sum(f, U \ {x}) \in Nat
    BY <2>3, <2>4, SumType
  <2> QED BY <1>0, <2>4, <2>5, <2>6, <2>7, <2>8
<1>3. S \in Good
  <2> HIDE DEF Good
  <2> QED BY <1>1, <1>2, SetInduction
<1> QED BY <1>3

\* Fewer terms sum up to no more.
LEMMA SumSubset ==
  ASSUME NEW f, NEW S, IsFiniteSet(S), Counts(f, S), NEW T \in SUBSET S
  PROVE  Sum(f, T) <= Sum(f, S)
<1>1. /\ IsFiniteSet(T) /\ IsFiniteSet(S \ T)
      /\ Counts(f, T) /\ Counts(f, S \ T)
      /\ T \cap (S \ T) = {} /\ S = T \cup (S \ T)
  BY FS_Subset DEF Counts
<1>2. Sum(f, S) = Sum(f, T) + Sum(f, S \ T)
  BY <1>1, SumUnion
<1> QED BY <1>1, <1>2, SumType

\* Sums follow their terms.
LEMMA SumMonotone ==
  ASSUME NEW f, NEW g, NEW S, IsFiniteSet(S), Counts(f, S), Counts(g, S),
         \A x \in S : f[x] <= g[x]
  PROVE  Sum(f, S) <= Sum(g, S)
<1> DEFINE Good == {T \in SUBSET S : Sum(f, T) <= Sum(g, T)}
<1>1. {} \in Good
  BY SumEmpty
<1>2. ASSUME NEW T \in SUBSET S, T # {}, \A x \in T : T \ {x} \in Good
      PROVE  T \in Good
  <2>1. PICK x \in T : TRUE
    BY <1>2
  <2>2. /\ IsFiniteSet(T) /\ IsFiniteSet(T \ {x})
        /\ Counts(f, T) /\ Counts(f, T \ {x}) /\ f[x] \in Nat
        /\ Counts(g, T) /\ Counts(g, T \ {x}) /\ g[x] \in Nat
    BY FS_Subset DEF Counts
  <2>3. Sum(f, T) = f[x] + Sum(f, T \ {x}) /\ Sum(g, T) = g[x] + Sum(g, T \ {x})
    BY <2>2, SumRemove
  <2>4. Sum(f, T \ {x}) \in Nat /\ Sum(g, T \ {x}) \in Nat
    BY <2>2, SumType
  <2>5. Sum(f, T \ {x}) <= Sum(g, T \ {x})
    BY <1>2
  <2> QED BY <2>2, <2>3, <2>4, <2>5
<1>3. S \in Good
  <2> HIDE DEF Good
  <2> QED BY <1>1, <1>2, SetInduction
<1> QED BY <1>3

\* The sum depends on the terms alone.
LEMMA SumSame ==
  ASSUME NEW f, NEW g, NEW S, IsFiniteSet(S), Counts(f, S),
         \A x \in S : f[x] = g[x]
  PROVE  Sum(f, S) = Sum(g, S)
<1>1. Counts(g, S) /\ (\A x \in S : f[x] <= g[x]) /\ (\A x \in S : g[x] <= f[x])
  BY DEF Counts
<1> QED BY <1>1, SumMonotone, SumType

\* Counting is summing ones.
LEMMA SumOnes ==
  ASSUME NEW f, NEW S, IsFiniteSet(S), \A x \in S : f[x] = 1
  PROVE  Sum(f, S) = Cardinality(S)
<1> DEFINE Good == {T \in SUBSET S : Sum(f, T) = Cardinality(T)}
<1>1. {} \in Good
  BY SumEmpty, FS_EmptySet
<1>2. ASSUME NEW T \in SUBSET S, T # {}, \A x \in T : T \ {x} \in Good
      PROVE  T \in Good
  <2>1. PICK x \in T : TRUE
    BY <1>2
  <2>2. IsFiniteSet(T) /\ Counts(f, T) /\ f[x] = 1
    BY FS_Subset DEF Counts
  <2>3. Sum(f, T) = 1 + Sum(f, T \ {x})
    BY <2>2, SumRemove
  <2>4. Cardinality(T \ {x}) = Cardinality(T) - 1 /\ Cardinality(T) \in Nat
    BY <2>2, FS_RemoveElement, FS_CardinalityType
  <2>5. Sum(f, T \ {x}) = Cardinality(T \ {x})
    BY <1>2
  <2> QED BY <2>3, <2>4, <2>5
<1>3. S \in Good
  <2> HIDE DEF Good
  <2> QED BY <1>1, <1>2, SetInduction
<1> QED BY <1>3

\* g is f and one more for each member of B.
Bumped(f, g, S, B) == \A x \in S : g[x] = IF x \in B THEN f[x] + 1 ELSE f[x]

\* One more for each of them is so many more in all.
LEMMA SumBumped ==
  ASSUME NEW f, NEW g, NEW S, IsFiniteSet(S), Counts(f, S), NEW B, Bumped(f, g, S, B)
  PROVE  Sum(g, S) = Sum(f, S) + Cardinality(S \cap B)
<1> DEFINE Good == {T \in SUBSET S : Sum(g, T) = Sum(f, T) + Cardinality(T \cap B)}
<1>1. {} \in Good
  <2>1. {} \cap B = {}
    OBVIOUS
  <2> QED BY <2>1, SumEmpty, FS_EmptySet
<1>2. ASSUME NEW T \in SUBSET S, T # {}, \A x \in T : T \ {x} \in Good
      PROVE  T \in Good
  <2>1. PICK x \in T : TRUE
    BY <1>2
  <2>2. /\ IsFiniteSet(T) /\ IsFiniteSet(T \ {x}) /\ IsFiniteSet(T \cap B)
        /\ Counts(f, T) /\ Counts(f, T \ {x}) /\ f[x] \in Nat
        /\ Counts(g, T)
    BY FS_Subset DEF Counts, Bumped
  <2>3. Sum(f, T) = f[x] + Sum(f, T \ {x}) /\ Sum(g, T) = g[x] + Sum(g, T \ {x})
    BY <2>2, SumRemove
  <2>4. Sum(f, T \ {x}) \in Nat
    BY <2>2, SumType
  <2>5. Sum(g, T \ {x}) = Sum(f, T \ {x}) + Cardinality((T \ {x}) \cap B)
    BY <1>2
  <2>6. (T \ {x}) \cap B = (T \cap B) \ {x}
    OBVIOUS
  <2>7. /\ Cardinality(T \cap B) \in Nat
        /\ Cardinality((T \cap B) \ {x}) =
             IF x \in T \cap B THEN Cardinality(T \cap B) - 1 ELSE Cardinality(T \cap B)
    BY <2>2, FS_RemoveElement, FS_CardinalityType
  <2>8. g[x] = IF x \in B THEN f[x] + 1 ELSE f[x]
    BY <2>1 DEF Bumped
  <2>9. Sum(g, T \ {x}) = Sum(f, T \ {x}) + Cardinality((T \cap B) \ {x})
    BY <2>5, <2>6
  <2>10. Sum(g, T) = Sum(f, T) + Cardinality(T \cap B)
    <3>1. CASE x \in B
      BY <2>2, <2>3, <2>4, <2>7, <2>8, <2>9, <3>1
    <3>2. CASE x \notin B
      BY <2>2, <2>3, <2>4, <2>7, <2>8, <2>9, <3>2
    <3> QED BY <3>1, <3>2
  <2> QED BY <2>10
<1>3. S \in Good
  <2> HIDE DEF Good
  <2> QED BY <1>1, <1>2, SetInduction
<1> QED BY <1>3

\* The keys of finitely many elements.
LEMMA FiniteImage ==
  ASSUME NEW S, IsFiniteSet(S), NEW k
  PROVE  IsFiniteSet({k[x] : x \in S})
<1> DEFINE K == {k[x] : x \in S}
           f == [x \in S |-> k[x]]
<1>1. f \in Surjection(S, K)
  BY DEF Surjection
<1> QED BY <1>1, FS_Surjection

\* The elements of S with key c.
Group(S, k, c) == {x \in S : k[x] = c}
Groups(f, S, k, K) == [c \in K |-> Sum(f, Group(S, k, c))]

\* A group has a sum.
LEMMA GroupFinite ==
  ASSUME NEW f, NEW S, IsFiniteSet(S), Counts(f, S), NEW k, NEW c
  PROVE  /\ IsFiniteSet(Group(S, k, c)) /\ Counts(f, Group(S, k, c))
         /\ Sum(f, Group(S, k, c)) \in Nat
<1>1. IsFiniteSet(Group(S, k, c)) /\ Counts(f, Group(S, k, c))
  BY FS_Subset DEF Group, Counts
<1> QED BY <1>1, SumType

\* A sum is the sum of the sums of its groups.
LEMMA Regroup ==
  ASSUME NEW f, NEW S, IsFiniteSet(S), Counts(f, S), NEW k, NEW K, IsFiniteSet(K),
         \A x \in S : k[x] \in K
  PROVE  Sum(Groups(f, S, k, K), K) = Sum(f, S)
<1> DEFINE G == Groups(f, S, k, K)
           Of(J) == {x \in S : k[x] \in J}
           Good == {J \in SUBSET K : Sum(G, J) = Sum(f, Of(J))}
<1>0. \A c \in K : G[c] = Sum(f, Group(S, k, c)) /\ G[c] \in Nat
  BY GroupFinite DEF Groups
<1> HIDE DEF G
<1>1. {} \in Good
  <2>1. Of({}) = {}
    OBVIOUS
  <2> QED BY <2>1, SumEmpty
<1>2. ASSUME NEW J \in SUBSET K, J # {}, \A c \in J : J \ {c} \in Good
      PROVE  J \in Good
  <2>1. PICK c \in J : TRUE
    BY <1>2
  <2>2. IsFiniteSet(J) /\ Counts(G, J)
    BY <1>0, FS_Subset DEF Counts
  <2>3. Sum(G, J) = Sum(f, Group(S, k, c)) + Sum(G, J \ {c})
    BY <1>0, <2>2, SumRemove
  <2>4. Sum(G, J \ {c}) = Sum(f, Of(J \ {c}))
    BY <1>2
  <2>5. /\ Of(J) = Group(S, k, c) \cup Of(J \ {c})
        /\ Group(S, k, c) \cap Of(J \ {c}) = {}
    BY DEF Group
  <2>6. IsFiniteSet(Of(J \ {c})) /\ Counts(f, Of(J \ {c}))
    BY FS_Subset DEF Counts
  <2> HIDE DEF Of
  <2>7. Sum(f, Of(J)) = Sum(f, Group(S, k, c)) + Sum(f, Of(J \ {c}))
    <3>1. IsFiniteSet(Group(S, k, c)) /\ Counts(f, Group(S, k, c))
      BY GroupFinite
    <3>2. Sum(f, Group(S, k, c) \cup Of(J \ {c}))
            = Sum(f, Group(S, k, c)) + Sum(f, Of(J \ {c}))
      BY <2>5, <2>6, <3>1, SumUnion
    <3> QED BY <2>5, <3>2
  <2> QED BY <2>3, <2>4, <2>7
<1>3. K \in Good
  <2> HIDE DEF Good
  <2> QED BY <1>1, <1>2, SetInduction
<1>4. Of(K) = S
  OBVIOUS
<1> HIDE DEF Of
<1> QED BY <1>3, <1>4 DEF G

\* One positive term makes a positive sum.
LEMMA SumPositive ==
  ASSUME NEW f, NEW S, IsFiniteSet(S), Counts(f, S), NEW x \in S, f[x] > 0
  PROVE  Sum(f, S) > 0
<1>1. IsFiniteSet(S \ {x}) /\ Counts(f, S \ {x}) /\ f[x] \in Nat
  BY FS_Subset DEF Counts
<1> QED BY <1>1, SumRemove, SumType

-----------------------------------------------------------------------------
(* Tables of statistics.                                                   *)

Support(table) == {c \in DOMAIN table : table[c] > 0}

\* A table counts some cells only: services are many, logs are finite.
Tables(cells) == {table \in [cells -> Nat] : IsFiniteSet(Support(table))}

\* SumOver leaves out what counts nothing.
LEMMA SumOverIs ==
  ASSUME NEW table, NEW D
  PROVE  SumOver(table, D) = Sum(table, {c \in D : table[c] > 0})
BY Zenon DEF SumOver, Sum

\* The cells that are summed up.
LEMMA SupportCounts ==
  ASSUME NEW cells, NEW table \in Tables(cells), NEW D \in SUBSET cells
  PROVE  /\ IsFiniteSet({c \in D : table[c] > 0})
         /\ Counts(table, {c \in D : table[c] > 0})
         /\ {c \in D : table[c] > 0} \in SUBSET Support(table)
         /\ SumOver(table, D) \in Nat
<1>1. table \in [cells -> Nat] /\ IsFiniteSet(Support(table))
  BY DEF Tables
<1>2. {c \in D : table[c] > 0} \in SUBSET Support(table)
  BY <1>1 DEF Support
<1>3. IsFiniteSet({c \in D : table[c] > 0})
  BY <1>1, <1>2, FS_Subset
<1>4. Counts(table, {c \in D : table[c] > 0})
  BY <1>1 DEF Counts
<1> QED BY <1>2, <1>3, <1>4, SumType, SumOverIs

Under(t, u, D) == \A c \in D : t[c] <= u[c]

\* Where nothing shrinks, no figure does.
LEMMA SumOverMonotone ==
  ASSUME NEW cells, NEW t \in Tables(cells), NEW u \in Tables(cells),
         NEW D \in SUBSET cells, Under(t, u, D)
  PROVE  SumOver(t, D) <= SumOver(u, D)
<1> DEFINE T == {c \in D : t[c] > 0}
           U == {c \in D : u[c] > 0}
<1>1. \A c \in cells : t[c] \in Nat /\ u[c] \in Nat
  BY DEF Tables
<1>2. IsFiniteSet(T) /\ IsFiniteSet(U) /\ Counts(t, T) /\ Counts(u, U)
  BY SupportCounts
<1>3. T \in SUBSET U /\ Counts(u, T) /\ \A c \in T : t[c] <= u[c]
  BY <1>1 DEF Under, Counts
<1>4. SumOver(t, D) = Sum(t, T) /\ SumOver(u, D) = Sum(u, U)
  BY SumOverIs
<1> HIDE DEF T, U
<1>5. Sum(t, T) <= Sum(u, T)
  BY <1>2, <1>3, SumMonotone
<1>6. Sum(u, T) <= Sum(u, U)
  BY <1>2, <1>3, SumSubset
<1>7. Sum(t, T) \in Nat /\ Sum(u, T) \in Nat /\ Sum(u, U) \in Nat
  BY <1>2, <1>3, SumType
<1> QED BY <1>4, <1>5, <1>6, <1>7

\* There are five levels.
LEMMA LevelsFinite == IsFiniteSet(Levels)
<1>1. /\ IsFiniteSet({"debug"}) /\ IsFiniteSet({"info"}) /\ IsFiniteSet({"warn"})
      /\ IsFiniteSet({"error"}) /\ IsFiniteSet({"fatal"})
  BY FS_Singleton
<1>2. IsFiniteSet({"debug"} \cup {"info"})
  BY <1>1, FS_Union
<1>3. IsFiniteSet(({"debug"} \cup {"info"}) \cup {"warn"})
  BY <1>1, <1>2, FS_Union
<1>4. IsFiniteSet((({"debug"} \cup {"info"}) \cup {"warn"}) \cup {"error"})
  BY <1>1, <1>3, FS_Union
<1>5. IsFiniteSet(((({"debug"} \cup {"info"}) \cup {"warn"}) \cup {"error"}) \cup {"fatal"})
  BY <1>1, <1>4, FS_Union
<1>6. Levels = ((({"debug"} \cup {"info"}) \cup {"warn"}) \cup {"error"}) \cup {"fatal"}
  BY DEF Levels
<1> QED BY <1>5, <1>6

\* The total of the levels is the total of the cells.
LEMMA TotalIs ==
  ASSUME NEW cells, NEW table \in Tables(cells), \A c \in cells : c.level \in Levels
  PROVE  Total(ByLevel(table)) = SumOver(table, cells)
<1> DEFINE S == {c \in cells : table[c] > 0}
           k == [c \in cells |-> c.level]
           L == ByLevel(table)
           G == Groups(table, S, k, Levels)
<1>1. IsFiniteSet(S) /\ Counts(table, S) /\ DOMAIN table = cells
  BY SupportCounts DEF Tables
<1>2. \A c \in S : k[c] \in Levels
  OBVIOUS
<1>3. ASSUME NEW v \in Levels
      PROVE  L[v] = G[v] /\ G[v] \in Nat
  <2>1. L[v] = SumOver(table, {c \in cells : c.level = v})
    BY <1>1 DEF ByLevel
  <2>2. {c \in {c \in cells : c.level = v} : table[c] > 0} = Group(S, k, v)
    BY DEF Group
  <2>3. L[v] = Sum(table, Group(S, k, v))
    BY <2>1, <2>2, SumOverIs
  <2> QED BY <1>1, <2>3, GroupFinite DEF Groups
<1>4. Total(L) = Sum(L, Levels)
  BY Zenon DEF Total, Sum
<1> HIDE DEF L, k, S
<1>5. Sum(G, Levels) = Sum(table, S)
  BY <1>1, <1>2, LevelsFinite, Regroup
<1> HIDE DEF G
<1>6. Sum(G, Levels) = Sum(L, Levels)
  BY <1>3, LevelsFinite, SumSame DEF Counts
<1> QED BY <1>4, <1>5, <1>6, SumOverIs DEF L, S

\* The bars of a level in the histogram are the count of the level.
LEMMA BarsAre ==
  ASSUME NEW cells, NEW table \in Tables(cells), NEW v \in Levels
  PROVE  SumOver(Histogram(table), {b \in DOMAIN Histogram(table) : b.level = v})
           = ByLevel(table)[v]
<1> DEFINE H == Histogram(table)
           bar(c) == [bucket |-> c.bucket, level |-> c.level]
           k == [c \in cells |-> bar(c)]
           S == {c \in {c \in cells : c.level = v} : table[c] > 0}
           K == {b \in {b \in DOMAIN H : b.level = v} : H[b] > 0}
           G == Groups(table, S, k, K)
<1>1. IsFiniteSet(S) /\ Counts(table, S) /\ DOMAIN table = cells
  BY SupportCounts DEF Tables
<1>2. DOMAIN H = {bar(c) : c \in cells}
  BY <1>1 DEF Histogram
<1>3. ASSUME NEW b \in DOMAIN H, b.level = v
      PROVE  H[b] = Sum(table, Group(S, k, b))
  <2>1. H[b] = SumOver(table, {c \in cells : c.bucket = b.bucket /\ c.level = b.level})
    BY <1>1 DEF Histogram
  <2>2. b = [bucket |-> b.bucket, level |-> b.level]
    BY <1>2
  <2>3. {c \in {c \in cells : c.bucket = b.bucket /\ c.level = b.level} : table[c] > 0}
          = Group(S, k, b)
    BY <1>3, <2>2 DEF Group
  <2> QED BY <2>1, <2>3, SumOverIs
<1>4. \A c \in S : k[c] \in DOMAIN H /\ k[c].level = v /\ c \in Group(S, k, k[c])
  BY <1>2 DEF Group
<1>5. \A c \in S : table[c] > 0
  OBVIOUS
<1>6. K = {k[c] : c \in S}
  <2>1. ASSUME NEW c \in S PROVE k[c] \in K
    <3> DEFINE g == Group(S, k, k[c])
    <3>1. IsFiniteSet(g) /\ Counts(table, g)
      BY <1>1, GroupFinite
    <3>2. Sum(table, g) > 0
      <4> HIDE DEF g, S, k
      <4> QED BY <1>4, <1>5, <3>1, SumPositive DEF g
    <3>3. H[k[c]] > 0
      BY <1>3, <1>4, <3>2
    <3> QED BY <1>4, <3>3
  <2>2. ASSUME NEW b \in K PROVE \E c \in S : b = k[c]
    <3>1. H[b] = Sum(table, Group(S, k, b)) /\ H[b] > 0
      BY <1>3
    <3>2. Group(S, k, b) # {}
      <4>1. Sum(table, {}) = 0
        BY SumEmpty
      <4>2. ~(0 > 0)
        OBVIOUS
      <4> HIDE DEF H, S, k, K
      <4> QED BY <3>1, <4>1, <4>2, Zenon
    <3> QED BY <3>2 DEF Group
  <2> HIDE DEF K, k, S
  <2> QED BY <2>1, <2>2
<1>7. IsFiniteSet(K) /\ \A c \in S : k[c] \in K
  <2> HIDE DEF K, k, S
  <2> QED BY <1>1, <1>6, FiniteImage
<1>8. \A b \in K : H[b] = G[b] /\ G[b] \in Nat
  <2> SUFFICES ASSUME NEW b \in K PROVE H[b] = G[b] /\ G[b] \in Nat
    OBVIOUS
  <2>1. H[b] = Sum(table, Group(S, k, b))
    BY <1>3
  <2>2. G[b] = Sum(table, Group(S, k, b))
    BY DEF Groups
  <2> QED BY <1>1, <2>1, <2>2, GroupFinite
<1>9. ByLevel(table)[v] = Sum(table, S)
  BY <1>1, SumOverIs DEF ByLevel
<1>10. SumOver(H, {b \in DOMAIN H : b.level = v}) = Sum(H, K)
  BY SumOverIs
<1> HIDE DEF H, k, S, K
<1>11. Sum(G, K) = Sum(table, S)
  BY <1>1, <1>7, Regroup
<1> HIDE DEF G
<1>12. Sum(G, K) = Sum(H, K)
  BY <1>7, <1>8, SumSame DEF Counts
<1> QED BY <1>9, <1>10, <1>11, <1>12 DEF H

\* A table that has at least as much in each cell as there are elements with
\* that key counts at least all elements.
LEMMA CountByKey ==
  ASSUME NEW cells, NEW table \in Tables(cells), NEW S, IsFiniteSet(S), NEW k,
         \A x \in S : k[x] \in cells /\ Cardinality(Group(S, k, k[x])) <= table[k[x]]
  PROVE  Cardinality(S) <= SumOver(table, cells)
<1> DEFINE ones == [x \in S |-> 1]
           K == {k[x] : x \in S}
           G == Groups(ones, S, k, K)
           T == {c \in cells : table[c] > 0}
<1>1. Counts(ones, S) /\ \A x \in S : ones[x] = 1
  BY DEF Counts
<1>2. IsFiniteSet(K) /\ \A x \in S : k[x] \in K
  BY FiniteImage
<1>3. table \in [cells -> Nat] /\ IsFiniteSet(T) /\ Counts(table, T)
  BY SupportCounts DEF Tables
<1>4. Cardinality(S) = Sum(ones, S)
  <2> HIDE DEF ones
  <2> QED BY <1>1, SumOnes
<1>5. Sum(G, K) = Sum(ones, S)
  <2> HIDE DEF ones, K
  <2> QED BY <1>1, <1>2, Regroup
<1>6. ASSUME NEW c \in K
      PROVE  G[c] \in Nat /\ G[c] <= table[c] /\ c \in T
  <2>1. PICK x \in S : c = k[x]
    OBVIOUS
  <2> DEFINE g == Group(S, k, c)
  <2>2. IsFiniteSet(g) /\ x \in g /\ g \subseteq S
    BY <2>1, FS_Subset DEF Group
  <2>3. \A y \in g : ones[y] = 1
    BY <2>2
  <2>4. Sum(ones, g) = Cardinality(g)
    <3> HIDE DEF g, ones
    <3> QED BY <2>2, <2>3, SumOnes
  <2>5. Cardinality(g) \in Nat /\ Cardinality(g) # 0
    BY <2>2, FS_CardinalityType, FS_EmptySet
  <2>6. G[c] = Sum(ones, g)
    BY DEF Groups
  <2>7. c \in cells /\ Cardinality(g) <= table[c]
    BY <2>1
  <2> HIDE DEF g, G
  <2> QED BY <1>3, <2>4, <2>5, <2>6, <2>7
<1> HIDE DEF G, K, T
<1>7. Counts(G, K) /\ Counts(table, K) /\ (\A c \in K : G[c] <= table[c]) /\ K \in SUBSET T
  BY <1>3, <1>6 DEF Counts
<1>8. Sum(G, K) <= Sum(table, K)
  BY <1>2, <1>7, SumMonotone
<1>9. Sum(table, K) <= Sum(table, T)
  BY <1>3, <1>7, SumSubset
<1>10. Sum(table, K) \in Nat /\ Sum(table, T) \in Nat /\ Sum(G, K) \in Nat
  BY <1>2, <1>3, <1>7, SumType
<1> QED BY <1>4, <1>5, <1>8, <1>9, <1>10, SumOverIs DEF T

\* A table that has at most as much in each cell as f has for its key counts
\* at most what f has in all.
LEMMA SumByKey ==
  ASSUME NEW cells, NEW table \in Tables(cells), NEW f, NEW S, IsFiniteSet(S),
         Counts(f, S), NEW k,
         \A c \in Support(table) : table[c] <= Sum(f, Group(S, k, c))
  PROVE  SumOver(table, cells) <= Sum(f, S)
<1> DEFINE K == {c \in cells : table[c] > 0}
           R == {x \in S : k[x] \in K}
           G == Groups(f, R, k, K)
<1>1. IsFiniteSet(K) /\ Counts(table, K) /\ K = Support(table)
  BY SupportCounts DEF Tables, Support
<1>2. /\ R \in SUBSET S /\ IsFiniteSet(R) /\ Counts(f, R)
      /\ \A x \in R : k[x] \in K
  BY FS_Subset DEF Counts
<1>3. ASSUME NEW c \in K
      PROVE  G[c] = Sum(f, Group(S, k, c))
  <2>1. Group(R, k, c) = Group(S, k, c)
    BY DEF Group
  <2> HIDE DEF R, K
  <2> QED BY <2>1 DEF Groups
<1> HIDE DEF K, R, G
<1>4. \A c \in K : G[c] \in Nat /\ table[c] <= G[c]
  BY <1>1, <1>3, GroupFinite
<1>5. Counts(G, K)
  BY <1>4 DEF Counts
<1>6. Sum(table, K) <= Sum(G, K)
  BY <1>1, <1>4, <1>5, SumMonotone
<1>7. Sum(G, K) = Sum(f, R)
  BY <1>1, <1>2, Regroup DEF G
<1>8. Sum(f, R) <= Sum(f, S)
  BY <1>2, SumSubset
<1>9. Sum(table, K) \in Nat /\ Sum(f, R) \in Nat /\ Sum(f, S) \in Nat
  BY <1>1, <1>2, SumType
<1> QED BY <1>6, <1>7, <1>8, <1>9, SumOverIs DEF K

-----------------------------------------------------------------------------
(* There is an answer, and pages of rows that stay fit together.           *)

\* A finite set of rows has one that no other comes after.
LEMMA LastRow ==
  ASSUME NEW rows, NEW S, IsFiniteSet(S), S # {}, Dated(rows, S), NEW q
  PROVE  \E x \in S : \A b \in S : ~Before(rows[x], rows[b], q)
<1> DEFINE Last(U, x) == \A b \in U : ~Before(rows[x], rows[b], q)
           Good == {U \in SUBSET S : U = {} \/ \E x \in U : Last(U, x)}
<1>1. {} \in Good
  OBVIOUS
<1>2. ASSUME NEW U \in SUBSET S, U # {}, \A x \in U : U \ {x} \in Good
      PROVE  U \in Good
  <2>1. PICK y \in U : TRUE
    BY <1>2
  <2>2. \A r \in U : rows[r].timestamp \in Int
    BY DEF Dated
  <2>3. CASE U \ {y} = {}
    <3>1. Last(U, y)
      BY <2>2, <2>3 DEF Before
    <3> QED BY <3>1
  <2>4. CASE U \ {y} # {}
    <3>1. PICK x \in U \ {y} : Last(U \ {y}, x)
      BY <1>2, <2>4
    <3>2. CASE Before(rows[x], rows[y], q)
      <4>1. Last(U, y)
        BY <2>2, <3>1, <3>2 DEF Before
      <4> QED BY <4>1
    <3>3. CASE ~Before(rows[x], rows[y], q)
      <4>1. Last(U, x)
        BY <3>1, <3>3
      <4> QED BY <4>1
    <3> QED BY <3>2, <3>3
  <2> QED BY <2>3, <2>4
<1>3. S \in Good
  <2> HIDE DEF Good
  <2> QED BY <1>1, <1>2, SetInduction
<1> QED BY <1>3

\* There is a choice of the first n rows: leave out a last one until n are left.
LEMMA HeadsExist ==
  ASSUME NEW rows, NEW S, IsFiniteSet(S), Dated(rows, S), NEW q, NEW n \in Nat
  PROVE  Heads(rows, S, q, n) # {}
<1> DEFINE Good == {U \in SUBSET S : Heads(rows, U, q, n) # {}}
<1>1. {} \in Good
  <2>1. {} \in Heads(rows, {}, q, n)
    BY FS_EmptySet DEF Heads, Lesser
  <2> QED BY <2>1
<1>2. ASSUME NEW U \in SUBSET S, U # {}, \A x \in U : U \ {x} \in Good
      PROVE  U \in Good
  <2>1. IsFiniteSet(U) /\ Cardinality(U) \in Nat /\ Dated(rows, U)
    BY FS_Subset, FS_CardinalityType DEF Dated
  <2>2. CASE Cardinality(U) <= n
    <3>1. U \in Heads(rows, U, q, n)
      BY <2>1, <2>2 DEF Heads, Lesser
    <3> QED BY <3>1
  <2>3. CASE Cardinality(U) > n
    <3>1. PICK x \in U : \A b \in U : ~Before(rows[x], rows[b], q)
      BY <1>2, <2>1, LastRow
    <3>2. Cardinality(U \ {x}) = Cardinality(U) - 1
      BY <2>1, <3>1, FS_RemoveElement
    <3>3. PICK A \in Heads(rows, U \ {x}, q, n) : TRUE
      BY <1>2
    <3>4. A \in Heads(rows, U, q, n)
      <4>1. Cardinality(A) = n
        BY <2>1, <2>3, <3>2, <3>3 DEF Heads, Lesser
      <4>2. Lesser(n, Cardinality(U)) = n
        BY <2>3 DEF Lesser
      <4>3. A \in SUBSET U /\ \A a \in A, b \in U \ A : ~Before(rows[b], rows[a], q)
        BY <3>1, <3>3 DEF Heads
      <4> QED BY <4>1, <4>2, <4>3 DEF Heads
    <3> QED BY <3>4
  <2> QED BY <2>1, <2>2, <2>3
<1>3. S \in Good
  <2> HIDE DEF Good
  <2> QED BY <1>1, <1>2, SetInduction
<1> QED BY <1>3

\* The first of the first are the first of all.
LEMMA HeadsWithin ==
  ASSUME NEW rows, NEW S, IsFiniteSet(S), NEW q, NEW m \in Nat, NEW n \in Nat, m <= n,
         NEW T \in Heads(rows, S, q, n), NEW H \in Heads(rows, T, q, m)
  PROVE  H \in Heads(rows, S, q, m) /\ H \subseteq T
<1>1. /\ T \in SUBSET S /\ Cardinality(T) = Lesser(n, Cardinality(S))
      /\ \A a \in T, b \in S \ T : ~Before(rows[b], rows[a], q)
  BY DEF Heads
<1>2. /\ H \in SUBSET T /\ Cardinality(H) = Lesser(m, Cardinality(T))
      /\ \A a \in H, b \in T \ H : ~Before(rows[b], rows[a], q)
  BY DEF Heads
<1>3. Cardinality(S) \in Nat
  BY FS_CardinalityType
<1>4. Cardinality(H) = Lesser(m, Cardinality(S))
  BY <1>1, <1>2, <1>3 DEF Lesser
<1>5. \A a \in H, b \in S \ H : ~Before(rows[b], rows[a], q)
  BY <1>1, <1>2
<1> QED BY <1>1, <1>2, <1>4, <1>5 DEF Heads

\* Whatever the offset, a search has a page (clickhouse.go 131-182, memstore.go
\* 39-69).
THEOREM SearchAnswers ==
  ASSUME NEW rows, NEW S, IsFiniteSet(S), Dated(rows, S), NEW q,
         q.offset \in Nat, q.limit \in Nat
  PROVE  Slices(rows, S, q) # {}
<1> DEFINE n == q.offset + q.limit
<1>1. n \in Nat /\ q.offset <= n
  OBVIOUS
<1> HIDE DEF n
<1>2. PICK T \in Heads(rows, S, q, n) : TRUE
  BY <1>1, HeadsExist
<1>3. IsFiniteSet(T) /\ Dated(rows, T)
  BY <1>1, HeadFacts DEF Dated
<1>4. PICK H \in Heads(rows, T, q, q.offset) : TRUE
  BY <1>3, HeadsExist
<1>5. H \in Heads(rows, S, q, q.offset) /\ H \subseteq T
  BY <1>1, HeadsWithin
<1>6. T \ H \in Slices(rows, S, q)
  BY <1>5 DEF Slices, n
<1> QED BY <1>6

\* No two rows of S have one timestamp.
Distinct(rows, S) == \A r, s \in S : rows[r].timestamp = rows[s].timestamp => r = s

\* Then the first n rows are always the same.
LEMMA HeadsUnique ==
  ASSUME NEW rows, NEW S, IsFiniteSet(S), Dated(rows, S), Distinct(rows, S), NEW q,
         NEW n \in Nat, NEW A \in Heads(rows, S, q, n), NEW B \in Heads(rows, S, q, n)
  PROVE  A = B
<1>1. A \in SUBSET S /\ B \in SUBSET S /\ Cardinality(A) = Cardinality(B)
  BY DEF Heads
<1>2. IsFiniteSet(A) /\ IsFiniteSet(B)
  BY <1>1, FS_Subset
<1>3. A \subseteq B \/ B \subseteq A => A = B
  BY <1>1, <1>2, FS_Subset
<1>4. ASSUME NEW a \in A \ B, NEW b \in B \ A PROVE FALSE
  <2>1. ~Before(rows[b], rows[a], q) /\ ~Before(rows[a], rows[b], q)
    BY <1>1 DEF Heads
  <2>2. rows[a].timestamp \in Int /\ rows[b].timestamp \in Int
    BY <1>1 DEF Dated
  <2>3. rows[a].timestamp = rows[b].timestamp
    BY <2>1, <2>2 DEF Before
  <2> QED BY <1>1, <2>3 DEF Distinct
<1> QED BY <1>3, <1>4

\* Paging through rows that stay and have different timestamps skips nothing
\* and repeats nothing: a page and the next one are disjoint, and together they
\* are a page of the length of both (LogsTable.tsx, the pager; ORDER BY and
\* LIMIT of clickhouse.go 147-148).
THEOREM PagesTile ==
  ASSUME NEW rows, NEW S, IsFiniteSet(S), Dated(rows, S), Distinct(rows, S),
         NEW q, q.offset \in Nat, q.limit \in Nat,
         NEW next, next.order = q.order, next.offset = q.offset + q.limit,
         next.limit \in Nat,
         NEW both, both.order = q.order, both.offset = q.offset,
         both.limit = q.limit + next.limit,
         NEW page \in Slices(rows, S, q), NEW page2 \in Slices(rows, S, next)
  PROVE  /\ page \cap page2 = {}
         /\ page \cup page2 \in Slices(rows, S, both)
<1>1. \A n : /\ Heads(rows, S, next, n) = Heads(rows, S, q, n)
             /\ Heads(rows, S, both, n) = Heads(rows, S, q, n)
  BY DEF Heads, Before
<1> DEFINE m == q.offset + q.limit
           n == m + next.limit
<1>2. m \in Nat /\ n \in Nat /\ n = both.offset + both.limit
  OBVIOUS
<1>3. PICK T \in Heads(rows, S, q, m), H \in Heads(rows, S, q, q.offset) :
        H \subseteq T /\ page = T \ H
  BY SliceFacts
<1>4. PICK V \in Heads(rows, S, q, n), U \in Heads(rows, S, q, m) :
        U \subseteq V /\ page2 = V \ U
  <2>1. \E V \in Heads(rows, S, next, next.offset + next.limit) :
          \E U \in Heads(rows, S, next, next.offset) : U \subseteq V /\ page2 = V \ U
    BY SliceFacts
  <2>2. next.offset = m /\ next.offset + next.limit = n
    OBVIOUS
  <2> HIDE DEF m, n
  <2> QED BY <1>1, <2>1, <2>2
<1> HIDE DEF m, n
<1>5. T = U
  BY <1>2, HeadsUnique
<1>6. page \cap page2 = {} /\ page \cup page2 = V \ H /\ H \subseteq V
  BY <1>3, <1>4, <1>5
<1>7. V \ H \in Slices(rows, S, both)
  BY <1>1, <1>2, <1>6 DEF Slices
<1> QED BY <1>6, <1>7

\* There is a choice of the TopN services (clickhouse.go 226, 317, memstore.go
\* 102-110).
THEOREM ServicesAnswer ==
  ASSUME NEW cells, NEW table \in Tables(cells)
  PROVE  TopServices(table) # {}
<1> DEFINE D == {c.service : c \in {d \in DOMAIN table : table[d] > 0}}
           n == [s \in D |-> SumOver(table, {c \in DOMAIN table : c.service = s})]
           rows == [s \in D |-> [timestamp |-> n[s]]]
           q == [order |-> "desc"]
           k == [c \in Support(table) |-> c.service]
<1>1. DOMAIN table = cells /\ IsFiniteSet(Support(table))
  BY DEF Tables
<1>2. IsFiniteSet(D)
  <2>1. D = {k[c] : c \in Support(table)}
    BY DEF Support
  <2> HIDE DEF D, k
  <2> QED BY <1>1, <2>1, FiniteImage
<1>3. \A s \in D : n[s] \in Nat
  <2> SUFFICES ASSUME NEW s \in D PROVE n[s] \in Nat
    OBVIOUS
  <2>1. {c \in DOMAIN table : c.service = s} \in SUBSET cells
    BY <1>1
  <2> HIDE DEF D
  <2> QED BY <2>1, SupportCounts
<1>4. \A a, b \in D : ~Before(rows[b], rows[a], q) => n[a] >= n[b]
  <2> SUFFICES ASSUME NEW a \in D, NEW b \in D, ~Before(rows[b], rows[a], q)
               PROVE  n[a] >= n[b]
    OBVIOUS
  <2>1. rows[a].timestamp = n[a] /\ rows[b].timestamp = n[b] /\ q.order = "desc"
    OBVIOUS
  <2>2. n[a] \in Nat /\ n[b] \in Nat
    BY <1>3
  <2> HIDE DEF n, rows, q, D
  <2> QED BY <2>1, <2>2 DEF Before
<1>5. Dated(rows, D)
  <2>1. \A s \in D : rows[s].timestamp = n[s]
    OBVIOUS
  <2> HIDE DEF rows, n, D
  <2> QED BY <1>3, <2>1 DEF Dated
<1>6. DOMAIN n = D
  OBVIOUS
<1>7. PICK T \in Heads(rows, D, q, TopN) : TRUE
  <2> HIDE DEF rows, D, q
  <2> QED BY <1>2, <1>5, HeadsExist, QueryAssumption
<1>8. /\ T \in SUBSET D /\ Cardinality(T) = Lesser(TopN, Cardinality(D))
      /\ \A s \in T, u \in D \ T : n[s] >= n[u]
  <2> HIDE DEF rows, D, q, n
  <2> QED BY <1>4 DEF Heads
<1>9. [s \in T |-> n[s]] \in TopServices(table)
  <2> HIDE DEF rows, q, k
  <2> QED BY <1>6, <1>8, Zenon DEF TopServices
<1> QED BY <1>9
=============================================================================
