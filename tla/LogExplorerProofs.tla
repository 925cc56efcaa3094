------------------------- MODULE LogExplorerProofs -------------------------
(***************************************************************************)
(* Theorems about LogExplorer, for all logs and filters, any limit of a    *)
(* page, any number of clicks and of failing requests, and any time that a *)
(* page stays fresh.                                                       *)
(***************************************************************************)
EXTENDS LogExplorer, LogQueryProofs

-----------------------------------------------------------------------------
(* The inductive invariant.                                                *)

Answers ==
  [logs : SUBSET DOMAIN Logs, total : Nat, at : Nat, asked : Filter, read : Nat,
   found : SUBSET DOMAIN Logs, seen : SUBSET DOMAIN Logs]
Queries ==
  [data : Answers \cup {NoData}, error : BOOLEAN,
   stage : {"idle", "sent", "answered"}, tries : {0, 1},
   asked : Filter \cup {NoKey}, answer : Answers \cup {NoData}]

Table(seen) == [id \in seen |-> Logs[id]]

\* d is what a search for k returned, at time t at the latest, over some of
\* the logs there.
AnswerTo(d, k, there, t) ==
  /\ d \in Answers
  /\ d.asked = k
  /\ d.seen \subseteq there
  /\ d.read <= t /\ d.at <= t
  /\ d.found = Found(Table(d.seen), Parse(k, d.read))
  /\ d.logs \in Slices(Table(d.seen), d.found, Parse(k, d.read))
  /\ d.total = IF d.logs = {} THEN 0 ELSE Cardinality(d.found)

\* A query's fetch is for its own key, and what it holds or is about to hold
\* is an answer to that.
Sincere(query, k, there, t) ==
  /\ query \in Queries
  /\ query.data # NoData => AnswerTo(query.data, k, there, t)
  /\ query.stage = "sent" => query.asked = k
  /\ query.stage = "answered" => AnswerTo(query.answer, k, there, t)

\* At rest without an error it holds one.
Settled(query) == query.stage = "idle" /\ ~query.error => query.data # NoData

TypeInv ==
  /\ now \in 0..MaxNow
  /\ present \subseteq DOMAIN Logs
  /\ url \in Filter /\ filters \in Filter
  /\ DOMAIN cache \subseteq Filter
  /\ clicks \in 0..MaxClicks /\ failures \in 0..MaxFailures

CacheInv ==
  /\ filters \in DOMAIN cache
  /\ \A k \in DOMAIN cache : Sincere(cache[k], k, present, now) /\ Settled(cache[k])
  /\ prev # NoKey => prev \in DOMAIN cache /\ cache[prev].data # NoData

ExplorerInv == TypeInv /\ CacheInv

-----------------------------------------------------------------------------
(* Queries.                                                                *)

\* A page is never taken for no page.
LEMMA AnswerIsData == NoData \notin Answers
BY DEF NoData, Answers

\* Time and logs that arrive take nothing from an answer.
LEMMA AnswerLasts ==
  ASSUME NEW d, NEW k, NEW A, NEW B, NEW t \in Int, NEW u \in Int,
         A \subseteq B, t <= u, AnswerTo(d, k, A, t)
  PROVE  AnswerTo(d, k, B, u)
<1>1. d.read \in Int /\ d.at \in Int
  BY DEF AnswerTo, Answers
<1>2. d.read <= u /\ d.at <= u
  BY <1>1 DEF AnswerTo
<1> QED BY <1>2 DEF AnswerTo

LEMMA SincereLasts ==
  ASSUME NEW query, NEW k, NEW A, NEW B, NEW t \in Int, NEW u \in Int,
         A \subseteq B, t <= u, Sincere(query, k, A, t)
  PROVE  Sincere(query, k, B, u)
BY AnswerLasts, Zenon DEF Sincere

LEMMA FreshIsSincere ==
  ASSUME NEW k, NEW A, NEW t
  PROVE  Sincere(Fresh, k, A, t)
<1>1. Fresh \in Queries
  BY DEF Fresh, Queries
<1> QED BY <1>1 DEF Fresh, Sincere

\* Fetching settles a query: one without data is fetched.
LEMMA FetchedIsSincere ==
  ASSUME NEW query, NEW k \in Filter, NEW A, NEW t, Sincere(query, k, A, t)
  PROVE  /\ Sincere(Fetched(query, k), k, A, t)
         /\ Settled(Fetched(query, k))
         /\ Fetched(query, k).data = query.data
<1>1. CASE Stale(query) /\ query.stage = "idle"
  <2> DEFINE e == query.error /\ query.data # NoData
             new == [query EXCEPT !.stage = "sent", !.tries = 0, !.asked = k, !.error = e]
  <2>1. Fetched(query, k) = new
    BY <1>1, Zenon DEF Fetched
  <2>2. e \in BOOLEAN
    OBVIOUS
  <2> HIDE DEF e
  <2>3. /\ new \in Queries /\ new.stage = "sent" /\ new.asked = k
        /\ new.data = query.data /\ new.answer = query.answer
    BY <2>2 DEF Sincere, Queries
  <2> HIDE DEF new
  <2>4. Sincere(new, k, A, t) /\ Settled(new)
    BY <2>3 DEF Sincere, Settled
  <2> QED BY <2>1, <2>3, <2>4
<1>2. CASE ~(Stale(query) /\ query.stage = "idle")
  <2>1. Fetched(query, k) = query
    BY <1>2 DEF Fetched
  <2>2. query.stage = "idle" => query.data # NoData
    BY <1>2 DEF Stale
  <2> QED BY <2>1, <2>2 DEF Settled
<1> QED BY <1>1, <1>2

-----------------------------------------------------------------------------
(* Steps.                                                                  *)

\* A query of the cache is replaced by one as sincere, or added, and with it
\* shown, or not.
LEMMA CacheStep ==
  ASSUME TypeInv, CacheInv, TypeInv',
         present \subseteq present', now <= now',
         NEW k \in Filter, NEW query, cache' = With(k, query),
         Sincere(query, k, present, now), Settled(query),
         k \in DOMAIN cache /\ cache[k].data # NoData => query.data # NoData,
         filters' \in DOMAIN cache \cup {k},
         prev' = prev \/ (prev' = k /\ query.data # NoData)
  PROVE  CacheInv'
<1>1. /\ DOMAIN cache' = DOMAIN cache \cup {k}
      /\ cache'[k] = query
      /\ \A x \in DOMAIN cache : x # k => cache'[x] = cache[x]
  BY DEF With
<1>2. now \in Int /\ now' \in Int
  BY DEF TypeInv
<1>3. \A x \in DOMAIN cache' : Sincere(cache'[x], x, present, now) /\ Settled(cache'[x])
  BY <1>1, Zenon DEF CacheInv
<1>4. \A x \in DOMAIN cache' : Sincere(cache'[x], x, present', now')
  BY <1>2, <1>3, SincereLasts
<1>5. \A x \in DOMAIN cache : cache[x].data # NoData => cache'[x].data # NoData
  BY <1>1, Zenon
<1>6. prev' # NoKey => prev' \in DOMAIN cache' /\ cache'[prev'].data # NoData
  BY <1>1, <1>5, Zenon DEF CacheInv
<1> QED BY <1>1, <1>3, <1>4, <1>6 DEF CacheInv

\* Nothing happens to the cache.
LEMMA CacheRests ==
  ASSUME TypeInv, CacheInv, TypeInv', present \subseteq present', now <= now',
         UNCHANGED <<filters, cache, prev>>
  PROVE  CacheInv'
<1>1. now \in Int /\ now' \in Int
  BY DEF TypeInv
<1>2. \A k \in DOMAIN cache : Sincere(cache[k], k, present', now')
  BY <1>1, SincereLasts DEF CacheInv
<1> QED BY <1>2 DEF CacheInv

-----------------------------------------------------------------------------
(* Types.                                                                  *)

LEMMA FilterFields ==
  ASSUME NEW f \in Filter
  PROVE  /\ f.offset \in Int /\ f.limit \in Nat \ {0} /\ f.levels \subseteq Levels
         /\ f.from \in RequestTime
BY DEF Filter

\* Filters with other values in some fields are filters.
LEMMA FilterChanges ==
  ASSUME NEW f \in Filter
  PROVE  /\ \A o \in Int : [f EXCEPT !.offset = o] \in Filter
         /\ \A b \in RequestTime : [f EXCEPT !.from = b] \in Filter
         /\ \A b \in RequestTime : [f EXCEPT !.from = b, !.offset = 0] \in Filter
         /\ \A L \in SUBSET Levels : [f EXCEPT !.levels = L, !.offset = 0] \in Filter
         /\ \A w \in SearchText : [f EXCEPT !.search = w, !.offset = 0] \in Filter
         /\ \A w \in SearchText :
              [f EXCEPT !.search = w, !.levels = {}, !.services = {}, !.offset = 0] \in Filter
<1>0. {} \in SUBSET Levels /\ {} \in SUBSET Services /\ 0 \in Int
  OBVIOUS
<1>1. \A o \in Int : [f EXCEPT !.offset = o] \in Filter
  BY DEF Filter
<1>2. \A b \in RequestTime : [f EXCEPT !.from = b] \in Filter
  BY DEF Filter
<1>3. ASSUME NEW b \in RequestTime
      PROVE  [f EXCEPT !.from = b, !.offset = 0] \in Filter
  BY <1>0 DEF Filter
<1>4. ASSUME NEW L \in SUBSET Levels
      PROVE  [f EXCEPT !.levels = L, !.offset = 0] \in Filter
  BY <1>0 DEF Filter
<1>5. ASSUME NEW w \in SearchText
      PROVE  [f EXCEPT !.search = w, !.offset = 0] \in Filter
  BY <1>0 DEF Filter
<1>6. ASSUME NEW w \in SearchText
      PROVE  [f EXCEPT !.search = w, !.levels = {}, !.services = {}, !.offset = 0] \in Filter
  BY <1>0 DEF Filter
<1> QED BY <1>1, <1>2, <1>3, <1>4, <1>5, <1>6

\* Filters stay filters through the URL.
LEMMA URLType ==
  ASSUME NEW f \in Filter
  PROVE  ToURL(f) \in Filter /\ FromURL(f) \in Filter
<1>1. ToURL(f) \in Filter
  <2>1. (IF f.offset > 0 THEN f.offset ELSE 0) \in Int
    BY FilterFields
  <2> QED BY <2>1, FilterChanges DEF ToURL
<1>2. FromURL(f) \in Filter
  <2>1. (IF f.from.form = "none" THEN DefaultFrom ELSE f.from) \in RequestTime
    BY FilterFields, ExplorerAssumption
  <2> QED BY <2>1, FilterChanges DEF FromURL
<1> QED BY <1>1, <1>2

\* What the user does.
Clicks ==
  \/ NextPage \/ PrevPage \/ Reset
  \/ \E from \in Presets : SetRange(from)
  \/ \E v \in Buttons : ToggleLevel(v)
  \/ \E word \in Searches : Submit(word)

\* Every click is one on filters.
LEMMA ClickedFilter ==
  ASSUME filters \in Filter, Clicks
  PROVE  \E f \in Filter : Click(f)
<1>1. ASSUME NextPage PROVE \E f \in Filter : Click(f)
  <2>1. filters.offset + filters.limit \in Int
    BY FilterFields
  <2> QED BY <1>1, <2>1, FilterChanges DEF NextPage
<1>2. ASSUME PrevPage PROVE \E f \in Filter : Click(f)
  <2>1. (IF filters.offset > filters.limit THEN filters.offset - filters.limit ELSE 0) \in Int
    BY FilterFields
  <2> QED BY <1>2, <2>1, FilterChanges DEF PrevPage
<1>3. ASSUME Reset PROVE \E f \in Filter : Click(f)
  <2>1. "" \in SearchText
    BY Zenon DEF SearchText
  <2> QED BY <1>3, <2>1, FilterChanges DEF Reset
<1>4. ASSUME NEW from \in Presets, SetRange(from) PROVE \E f \in Filter : Click(f)
  <2>1. from \in RequestTime
    BY ExplorerAssumption
  <2> QED BY <1>4, <2>1, FilterChanges DEF SetRange
<1>5. ASSUME NEW v \in Buttons, ToggleLevel(v) PROVE \E f \in Filter : Click(f)
  <2>1. (IF v \in filters.levels THEN filters.levels \ {v} ELSE filters.levels \cup {v})
          \in SUBSET Levels
    BY FilterFields, ExplorerAssumption
  <2> QED BY <1>5, <2>1, FilterChanges DEF ToggleLevel
<1>6. ASSUME NEW word \in Searches, Submit(word) PROVE \E f \in Filter : Click(f)
  <2>1. word \in SearchText
    BY ExplorerAssumption
  <2> QED BY <1>6, <2>1, FilterChanges DEF Submit
<1> QED BY <1>1, <1>2, <1>3, <1>4, <1>5, <1>6 DEF Clicks

\* Every step keeps the types that are not the cache's.
LEMMA TypeStep ==
  ASSUME TypeInv, CacheInv, [Next]_vars, DOMAIN cache' \subseteq Filter
  PROVE  /\ TypeInv'
         /\ present \subseteq present' /\ now <= now'
<1> USE ExplorerAssumption DEF TypeInv
<1>1. ASSUME Clicks PROVE TypeInv' /\ present \subseteq present' /\ now <= now'
  <2>1. PICK f \in Filter : Click(f)
    BY <1>1, ClickedFilter
  <2>2. ToURL(f) \in Filter
    BY URLType
  <2> QED BY <2>1, <2>2 DEF Click
<1>2. ASSUME Render PROVE TypeInv' /\ present \subseteq present' /\ now <= now'
  <2>1. FromURL(url) \in Filter
    BY URLType
  <2> QED BY <1>2, <2>1 DEF Render
<1>3. ASSUME Refocus PROVE TypeInv' /\ present \subseteq present' /\ now <= now'
  BY <1>3 DEF Refocus
<1>4. ASSUME NEW k \in DOMAIN cache, Fails(k)
      PROVE  TypeInv' /\ present \subseteq present' /\ now <= now'
  <2>1. /\ failures < MaxFailures /\ failures' = failures + 1
        /\ UNCHANGED <<now, present, url, filters, clicks>>
    BY <1>4, Zenon DEF Fails
  <2> QED BY <2>1
<1>5. ASSUME NEW k \in DOMAIN cache, Receive(k)
      PROVE  TypeInv' /\ present \subseteq present' /\ now <= now'
  <2>1. UNCHANGED <<now, present, url, filters, clicks, failures>>
    BY <1>5, Zenon DEF Receive
  <2> QED BY <2>1
<1>6. ASSUME NEW k \in DOMAIN cache, Answer(k)
      PROVE  TypeInv' /\ present \subseteq present' /\ now <= now'
  <2>1. UNCHANGED <<now, present, url, filters, clicks, failures>>
    BY <1>6, Zenon DEF Answer
  <2> QED BY <2>1
<1>7. ASSUME NEW id \in DOMAIN Logs \ present, Arrive(id)
      PROVE  TypeInv' /\ present \subseteq present' /\ now <= now'
  BY <1>7 DEF Arrive
<1>8. ASSUME Tick PROVE TypeInv' /\ present \subseteq present' /\ now <= now'
  BY <1>8 DEF Tick
<1>9. ASSUME UNCHANGED vars PROVE TypeInv' /\ present \subseteq present' /\ now <= now'
  BY <1>9 DEF vars
<1> QED
  BY <1>1, <1>2, <1>3, <1>4, <1>5, <1>6, <1>7, <1>8, <1>9, Zenon DEF Next, Clicks, Fetching

-----------------------------------------------------------------------------
(* The cache.                                                              *)

\* A new URL is rendered.
LEMMA RenderStep ==
  ASSUME TypeInv, CacheInv, Render
  PROVE  DOMAIN cache' \subseteq Filter /\ (TypeInv' => CacheInv')
<1> DEFINE k == FromURL(url)
           query == Fetched(Query(k), k)
<1>1. /\ filters' = k
      /\ cache' = With(k, query)
      /\ prev' = IF Query(k).data # NoData THEN k ELSE prev
      /\ UNCHANGED <<now, present>>
  BY Zenon DEF Render, Key
<1>2. k \in Filter
  BY URLType DEF TypeInv
<1>3. Sincere(Query(k), k, present, now)
  BY FreshIsSincere, Zenon DEF Query, CacheInv
<1>4. /\ Sincere(query, k, present, now) /\ Settled(query)
      /\ query.data = Query(k).data
  BY <1>2, <1>3, FetchedIsSincere
<1>5. k \in DOMAIN cache /\ cache[k].data # NoData => query.data # NoData
  BY <1>4, Zenon DEF Query
<1>6. prev' = prev \/ (prev' = k /\ query.data # NoData)
  BY <1>1, <1>4, Zenon
<1>7. DOMAIN cache' = DOMAIN cache \cup {k}
  BY <1>1, Zenon DEF With
<1> HIDE DEF k, query
<1>8. ASSUME TypeInv' PROVE CacheInv'
  <2>1. filters' \in DOMAIN cache \cup {k}
    BY <1>1
  <2>2. present \subseteq present' /\ now <= now'
    BY <1>1 DEF TypeInv
  <2> QED BY <1>1, <1>2, <1>4, <1>5, <1>6, <1>8, <2>1, <2>2, CacheStep
<1> QED BY <1>2, <1>7, <1>8 DEF TypeInv

\* The window is focused.
LEMMA RefocusStep ==
  ASSUME TypeInv, CacheInv, Refocus
  PROVE  DOMAIN cache' \subseteq Filter /\ (TypeInv' => CacheInv')
<1> DEFINE query == Fetched(cache[filters], filters)
<1>1. cache' = With(filters, query) /\ UNCHANGED <<now, present, filters, prev>>
  BY Zenon DEF Refocus, Key, Current, Query, CacheInv
<1>2. filters \in Filter /\ filters \in DOMAIN cache
  BY DEF TypeInv, CacheInv
<1>3. Sincere(cache[filters], filters, present, now)
  BY <1>2, Zenon DEF CacheInv
<1>4. /\ Sincere(query, filters, present, now) /\ Settled(query)
      /\ query.data = cache[filters].data
  BY <1>2, <1>3, FetchedIsSincere
<1>5. DOMAIN cache' = DOMAIN cache \cup {filters}
  BY <1>1, Zenon DEF With
<1> HIDE DEF query
<1>6. ASSUME TypeInv' PROVE CacheInv'
  <2>1. present \subseteq present' /\ now <= now' /\ filters' \in DOMAIN cache \cup {filters}
    BY <1>1, <1>2 DEF TypeInv
  <2> QED BY <1>1, <1>2, <1>4, <1>6, <2>1, CacheStep
<1> QED BY <1>2, <1>5, <1>6 DEF TypeInv

\* A query of the cache is replaced by one as sincere, and the filters stay.
LEMMA ReplaceStep ==
  ASSUME TypeInv, CacheInv, NEW k \in DOMAIN cache, NEW query,
         cache' = With(k, query), UNCHANGED <<now, present, filters>>,
         Sincere(query, k, present, now), Settled(query),
         cache[k].data # NoData => query.data # NoData,
         prev' = prev \/ (prev' = k /\ query.data # NoData)
  PROVE  DOMAIN cache' \subseteq Filter /\ (TypeInv' => CacheInv')
<1>1. k \in Filter /\ filters' \in DOMAIN cache \cup {k}
  BY DEF TypeInv, CacheInv
<1>2. present \subseteq present' /\ now <= now'
  BY DEF TypeInv
<1>3. DOMAIN cache' = DOMAIN cache \cup {k}
  BY Zenon DEF With
<1>4. ASSUME TypeInv' PROVE CacheInv'
  BY <1>1, <1>2, <1>4, CacheStep
<1> QED BY <1>1, <1>3, <1>4 DEF TypeInv

\* A request fails: it is sent again, or at rest with an error.
LEMMA FailsStep ==
  ASSUME TypeInv, CacheInv, NEW k \in DOMAIN cache, Fails(k)
  PROVE  DOMAIN cache' \subseteq Filter /\ (TypeInv' => CacheInv')
<1> DEFINE query == IF cache[k].tries = 0
                    THEN [cache[k] EXCEPT !.tries = 1]
                    ELSE [cache[k] EXCEPT !.stage = "idle", !.error = TRUE]
<1>1. /\ cache' = With(k, query) /\ UNCHANGED <<now, present, filters, prev>>
      /\ cache[k].stage = "sent"
  BY Zenon DEF Fails
<1>2. Sincere(cache[k], k, present, now)
  BY Zenon DEF CacheInv
<1>3. cache[k] \in Queries
  BY <1>2 DEF Sincere
<1>4. /\ query \in Queries /\ query.data = cache[k].data /\ query.asked = cache[k].asked
      /\ query.stage = "sent" \/ (query.stage = "idle" /\ query.error)
  BY <1>1, <1>3 DEF Queries
<1> HIDE DEF query
<1>5. Sincere(query, k, present, now) /\ Settled(query)
  BY <1>1, <1>2, <1>4 DEF Sincere, Settled
<1> QED BY <1>1, <1>4, <1>5, ReplaceStep

\* The answer becomes the data.
LEMMA ReceiveStep ==
  ASSUME TypeInv, CacheInv, NEW k \in DOMAIN cache, Receive(k)
  PROVE  DOMAIN cache' \subseteq Filter /\ (TypeInv' => CacheInv')
<1> DEFINE d == [cache[k].answer EXCEPT !.at = now]
           query == [cache[k] EXCEPT !.stage = "idle", !.error = FALSE,
                                     !.data = d, !.answer = NoData]
<1>1. /\ cache' = With(k, query) /\ UNCHANGED <<now, present, filters>>
      /\ cache[k].stage = "answered" /\ prev' \in {prev, k}
  BY Zenon DEF Receive
<1>2. Sincere(cache[k], k, present, now)
  BY Zenon DEF CacheInv
<1>3. AnswerTo(cache[k].answer, k, present, now) /\ cache[k] \in Queries
  BY <1>1, <1>2 DEF Sincere
<1>4. now \in Nat
  BY DEF TypeInv
<1>5. cache[k].answer \in Answers
  BY <1>3 DEF AnswerTo
<1>6. /\ d \in Answers /\ d.at = now /\ d.asked = cache[k].answer.asked
      /\ d.seen = cache[k].answer.seen /\ d.read = cache[k].answer.read
      /\ d.found = cache[k].answer.found /\ d.logs = cache[k].answer.logs
      /\ d.total = cache[k].answer.total
  BY <1>4, <1>5 DEF Answers
<1> HIDE DEF d
<1>7. AnswerTo(d, k, present, now)
  BY <1>3, <1>4, <1>6 DEF AnswerTo
<1>8. query \in Queries /\ query.data = d /\ query.stage = "idle"
  BY <1>3, <1>6 DEF Queries
<1>9. d # NoData
  BY <1>6, AnswerIsData
<1> HIDE DEF query
<1>10. Sincere(query, k, present, now) /\ Settled(query)
  BY <1>7, <1>8, <1>9 DEF Sincere, Settled
<1>11. prev' = prev \/ (prev' = k /\ query.data # NoData)
  BY <1>1, <1>8, <1>9
<1> QED BY <1>1, <1>8, <1>9, <1>10, <1>11, ReplaceStep

\* The server answers from its table as it is now.
LEMMA AnswerStep ==
  ASSUME TypeInv, CacheInv, NEW k \in DOMAIN cache, Answer(k)
  PROVE  DOMAIN cache' \subseteq Filter /\ (TypeInv' => CacheInv')
<1> DEFINE q == Parse(k, now)
           found == Found(Table(present), q)
<1>1. /\ Sincere(cache[k], k, present, now) /\ k \in Filter
      /\ cache[k].data = NoData \/ cache[k].data # NoData
  BY Zenon DEF CacheInv, TypeInv
<1>2. cache[k].asked = k /\ cache[k].stage = "sent" /\ cache[k] \in Queries
  BY <1>1 DEF Answer, Sincere
<1>3. Rows = Table(present)
  BY DEF Rows, Table
<1>4. PICK page \in ClickHouseSearch(Table(present), q) :
        cache' = With(k, [cache[k] EXCEPT !.stage = "answered",
                   !.answer = [logs |-> page.logs, total |-> page.total, at |-> now,
                               asked |-> k, read |-> now,
                               found |-> found, seen |-> present]])
  BY <1>2, <1>3, Zenon DEF Answer
<1>5. PICK slice \in Slices(Table(present), found, q) :
        page = [logs |-> slice, total |-> IF slice = {} THEN 0 ELSE Cardinality(found)]
  BY <1>4, Zenon DEF ClickHouseSearch
<1>6. found \subseteq present /\ present \subseteq DOMAIN Logs /\ now \in Nat
  BY DEF Found, Table, TypeInv
<1>7. Cardinality(found) \in Nat
  BY <1>6, ExplorerAssumption, FS_Subset, FS_CardinalityType
<1> HIDE DEF q
<1>8. slice \subseteq found
  BY <1>5, SliceFacts
<1> DEFINE a == [logs |-> page.logs, total |-> page.total, at |-> now, asked |-> k,
                 read |-> now, found |-> found, seen |-> present]
           query == [cache[k] EXCEPT !.stage = "answered", !.answer = a]
<1> HIDE DEF found
<1>9. page.logs = slice /\ page.total = IF slice = {} THEN 0 ELSE Cardinality(found)
  BY <1>5
<1>10. page.logs \subseteq DOMAIN Logs /\ page.total \in Nat /\ found \subseteq DOMAIN Logs
  BY <1>6, <1>7, <1>8, <1>9
<1>11. /\ a \in Answers /\ a.asked = k /\ a.seen = present /\ a.read = now /\ a.at = now
       /\ a.found = found /\ a.logs = page.logs /\ a.total = page.total
  BY <1>1, <1>6, <1>10 DEF Answers
<1>12. a.found = Found(Table(a.seen), Parse(k, a.read))
  BY <1>11 DEF q, found
<1>13. a.logs \in Slices(Table(a.seen), a.found, Parse(k, a.read))
  BY <1>5, <1>9, <1>11 DEF q
<1>14. cache' = With(k, query)
  BY <1>4
<1> HIDE DEF a
<1>15. AnswerTo(a, k, present, now)
  BY <1>6, <1>9, <1>11, <1>12, <1>13 DEF AnswerTo
<1>16. /\ query \in Queries /\ query.data = cache[k].data
       /\ query.stage = "answered" /\ query.answer = a
  BY <1>2, <1>11 DEF Queries
<1> HIDE DEF query
<1>17. Sincere(query, k, present, now) /\ Settled(query)
  BY <1>1, <1>15, <1>16 DEF Sincere, Settled
<1>18. UNCHANGED <<now, present, filters, prev>>
  BY Zenon DEF Answer
<1> QED BY <1>14, <1>16, <1>17, <1>18, ReplaceStep

\* The invariant is inductive.
LEMMA ExplorerNext == ExplorerInv /\ [Next]_vars => ExplorerInv'
<1> SUFFICES ASSUME TypeInv, CacheInv, [Next]_vars PROVE ExplorerInv'
  BY DEF ExplorerInv
<1>1. DOMAIN cache' \subseteq Filter => TypeInv' /\ present \subseteq present' /\ now <= now'
  BY TypeStep
<1>2. DOMAIN cache \subseteq Filter
  BY DEF TypeInv
<1>3. ASSUME Clicks PROVE ExplorerInv'
  <2>1. UNCHANGED <<filters, cache, prev>>
    BY <1>3, ClickedFilter, Zenon DEF TypeInv, Click
  <2> QED BY <1>1, <1>2, <2>1, CacheRests DEF ExplorerInv
<1>4. ASSUME Render PROVE ExplorerInv'
  BY <1>1, <1>4, RenderStep DEF ExplorerInv
<1>5. ASSUME Refocus PROVE ExplorerInv'
  BY <1>1, <1>5, RefocusStep DEF ExplorerInv
<1>6. ASSUME NEW k \in DOMAIN cache, Fails(k) PROVE ExplorerInv'
  BY <1>1, <1>6, FailsStep DEF ExplorerInv
<1>7. ASSUME NEW k \in DOMAIN cache, Receive(k) PROVE ExplorerInv'
  BY <1>1, <1>7, ReceiveStep DEF ExplorerInv
<1>8. ASSUME NEW k \in DOMAIN cache, Answer(k) PROVE ExplorerInv'
  BY <1>1, <1>8, AnswerStep DEF ExplorerInv
<1>9. ASSUME (\E id \in DOMAIN Logs \ present : Arrive(id)) \/ Tick \/ UNCHANGED vars
      PROVE  ExplorerInv'
  <2>1. UNCHANGED <<filters, cache, prev>>
    BY <1>9, Zenon DEF Arrive, Tick, vars
  <2> QED BY <1>1, <1>2, <2>1, CacheRests DEF ExplorerInv
<1> QED BY <1>3, <1>4, <1>5, <1>6, <1>7, <1>8, <1>9, Zenon DEF Next, Clicks, Fetching

\* It holds initially.
LEMMA ExplorerInit == Init => ExplorerInv
<1> SUFFICES ASSUME Init PROVE ExplorerInv
  OBVIOUS
<1> USE ExplorerAssumption
<1>1. url \in Filter /\ filters = FromURL(url)
  BY DEF Init
<1>2. filters \in Filter
  BY <1>1, URLType
<1> DEFINE query == Fetched(Fresh, filters)
<1>3. cache = [k \in {filters} |-> query]
  BY Zenon DEF Init, Key
<1>4. Sincere(Fresh, filters, present, now)
  BY FreshIsSincere
<1>5. Sincere(query, filters, present, now) /\ Settled(query)
  BY <1>2, <1>4, FetchedIsSincere
<1> HIDE DEF query
<1>6. CacheInv
  BY <1>3, <1>5, Zenon DEF CacheInv, Init
<1>7. TypeInv
  BY <1>1, <1>2, <1>3 DEF TypeInv, Init
<1> QED BY <1>6, <1>7 DEF ExplorerInv

\* It always holds.
LEMMA ExplorerInvariant == Spec => []ExplorerInv
BY ExplorerInit, ExplorerNext, PTL DEF Spec

-----------------------------------------------------------------------------
(* The properties.                                                         *)

\* The cache only ever holds answers to its keys, made of logs that are there.
LEMMA TypesHold == ExplorerInv => TypeOK
<1> SUFFICES ASSUME TypeInv, CacheInv PROVE TypeOK
  BY DEF ExplorerInv
<1>1. ASSUME NEW k \in DOMAIN cache
      PROVE  /\ cache[k].stage \in {"idle", "sent", "answered"}
             /\ cache[k].tries \in {0, 1}
             /\ cache[k].data.logs \subseteq present
             /\ cache[k].data.total \in 0..Cardinality(present)
  <2> DEFINE d == cache[k].data
  <2>1. Sincere(cache[k], k, present, now)
    BY Zenon DEF CacheInv
  <2>2. cache[k] \in Queries
    BY <2>1 DEF Sincere
  <2>3. IsFiniteSet(present) /\ Cardinality(present) \in Nat
    BY ExplorerAssumption, FS_Subset, FS_CardinalityType DEF TypeInv
  <2>4. CASE d = NoData
    BY <2>2, <2>3, <2>4 DEF Queries, NoData
  <2>5. CASE d # NoData
    <3>1. AnswerTo(d, k, present, now)
      BY <2>1, <2>5 DEF Sincere
    <3> HIDE DEF d
    <3>2. d.logs \subseteq d.found /\ d.found \subseteq present
      <4>1. d.logs \subseteq d.found
        BY <3>1, SliceFacts DEF AnswerTo
      <4>2. d.found \subseteq d.seen
        BY <3>1 DEF AnswerTo, Found, Table
      <4> QED BY <3>1, <4>1, <4>2 DEF AnswerTo
    <3>3. Cardinality(d.found) <= Cardinality(present) /\ Cardinality(d.found) \in Nat
      BY <2>3, <3>2, FS_Subset, FS_CardinalityType
    <3>4. d.logs \subseteq present /\ d.total \in 0..Cardinality(present)
      BY <2>3, <3>1, <3>2, <3>3 DEF AnswerTo
    <3> QED BY <2>2, <3>4 DEF Queries, d
  <2> QED BY <2>4, <2>5
<1> QED BY <1>1, Zenon DEF TypeOK, TypeInv, CacheInv, Key

\* At rest and without an error, the query of the filters has data of its own.
LEMMA HonestHolds == ExplorerInv => HonestTable
<1> SUFFICES ASSUME TypeInv, CacheInv, Current.stage = "idle", ~Current.error
             PROVE  Shown # NoData /\ Shown.asked = filters
  BY DEF ExplorerInv, HonestTable
<1>1. Current = cache[filters] /\ filters \in DOMAIN cache
  BY DEF CacheInv, Current, Query, Key
<1>2. Sincere(Current, filters, present, now) /\ Settled(Current)
  BY <1>1, Zenon DEF CacheInv
<1>3. Current.data # NoData
  BY <1>2, Zenon DEF Settled
<1>4. Shown = Current.data
  BY <1>3, Zenon DEF Shown
<1> QED BY <1>2, <1>3, <1>4, Zenon DEF Sincere, AnswerTo

\* What Parse makes of the filters of a query.
LEMMA ParsedFilter ==
  ASSUME NEW k \in Filter, NEW t \in Int
  PROVE  /\ Parse(k, t).offset = (IF k.offset < 0 THEN 0 ELSE k.offset)
         /\ Parse(k, t).limit \in Nat \ {0}
         /\ k.limit <= MaxLimit => Parse(k, t).limit = k.limit
         /\ Parse(k, t).order = k.order
         /\ Parse(k, t).from = ParseTime(k.from, t)
         /\ Parse(k, t).to = ParseTime(k.to, t)
         /\ Parse(k, t).levels = k.levels /\ Parse(k, t).services = k.services
         /\ Parse(k, t).search = k.search
<1> DEFINE r == [from |-> ParseTime(k.from, t), to |-> ParseTime(k.to, t),
                 levels |-> k.levels, services |-> k.services, search |-> k.search,
                 limit |-> k.limit, offset |-> k.offset, order |-> k.order]
           n == IF r.limit <= 0 THEN DefaultLimit
                ELSE IF r.limit > MaxLimit THEN MaxLimit ELSE r.limit
           j == IF r.offset < 0 THEN 0 ELSE r.offset
           o == IF r.order = "asc" THEN r.order ELSE "desc"
           c == [r EXCEPT !.limit = n, !.offset = j, !.order = o]
<1>1. k.limit \in Nat \ {0} /\ k.order \in {"asc", "desc"}
  BY Zenon DEF Filter
<1>2. Parse(k, t) = c
  BY Zenon DEF Parse, Clamp
<1>3. /\ c.from = r.from /\ c.to = r.to /\ c.levels = r.levels /\ c.services = r.services
      /\ c.search = r.search /\ c.limit = n /\ c.offset = j /\ c.order = o
  BY Zenon
<1>4. /\ r.from = ParseTime(k.from, t) /\ r.to = ParseTime(k.to, t)
      /\ r.levels = k.levels /\ r.services = k.services /\ r.search = k.search
      /\ r.limit = k.limit /\ r.offset = k.offset /\ r.order = k.order
  BY Zenon
<1> HIDE DEF c, r
<1>5. n \in Nat \ {0} /\ (k.limit <= MaxLimit => n = k.limit)
  BY <1>1, <1>4, QueryAssumption
<1>6. o = k.order
  BY <1>1, <1>4
<1>7. j = IF k.offset < 0 THEN 0 ELSE k.offset
  BY <1>4, Zenon
<1> HIDE DEF n, j, o
<1> QED BY <1>2, <1>3, <1>4, <1>5, <1>6, <1>7, Zenon

\* An empty page of a search that finds something lies beyond the last row,
\* and so, when it begins where pages begin, is not the first.
LEMMA WayBackHolds == ExplorerInv => WayBack
<1> DEFINE d == cache[filters].data
<1> SUFFICES ASSUME TypeInv, CacheInv, d # NoData, d.logs = {},
                    filters.offset % filters.limit = 0, d.found # {}
             PROVE  Page # 0
  BY Zenon DEF ExplorerInv, WayBack, Current, Query, Key, CacheInv
<1>1. AnswerTo(d, filters, present, now)
  BY Zenon DEF CacheInv, Sincere
<1>2. filters \in Filter /\ filters.offset \in Int /\ filters.limit \in Nat \ {0}
  BY FilterFields DEF TypeInv
<1> HIDE DEF d
<1> DEFINE q == Parse(filters, d.read)
           page == d.logs
<1>3. d.read \in Int /\ d.found \subseteq DOMAIN Logs
  BY <1>1 DEF AnswerTo, Answers
<1>4. IsFiniteSet(d.found) /\ Cardinality(d.found) \in Nat /\ Cardinality(d.found) # 0
  BY <1>3, ExplorerAssumption, FS_Subset, FS_CardinalityType, FS_EmptySet
<1>5. q.limit \in Nat \ {0} /\ q.offset = (IF filters.offset < 0 THEN 0 ELSE filters.offset)
  BY <1>2, <1>3, ParsedFilter
<1>6. q.offset \in Nat
  BY <1>2, <1>5
<1>7. page \in Slices(Table(d.seen), d.found, q)
  BY <1>1 DEF AnswerTo
<1> HIDE DEF q
<1>8. Cardinality(d.found) <= q.offset
  BY <1>4, <1>5, <1>6, <1>7, EmptyPage
<1>9. filters.offset > 0
  BY <1>2, <1>4, <1>5, <1>8
<1>10. filters.offset = filters.limit * (filters.offset \div filters.limit)
  BY <1>2
<1> QED BY <1>2, <1>9, <1>10 DEF Page

\* A bound parsed later is the same kind of bound, and not an earlier one.
LEMMA LaterBound ==
  ASSUME NEW p \in RequestTime, NEW s \in Int, NEW t \in Int, s <= t
  PROVE  /\ ParseTime(p, s) \in Bound /\ ParseTime(p, t) \in Bound
         /\ ParseTime(p, s) = NoTime <=> ParseTime(p, t) = NoTime
         /\ ParseTime(p, t) # NoTime => ParseTime(p, s) <= ParseTime(p, t)
<1>1. p.form \in {"none", "instant", "ago", "malformed"} /\ p.n \in Int
  BY DEF RequestTime
<1>2. CASE p.form = "instant"
  BY <1>1, <1>2, QueryAssumption DEF ParseTime, Bound
<1>3. CASE p.form = "ago"
  <2> DEFINE n == IF p.n < 0 THEN -p.n ELSE p.n
  <2>1. n \in Int
    BY <1>1
  <2>2. ParseTime(p, s) = s - n /\ ParseTime(p, t) = t - n
    BY <1>3 DEF ParseTime
  <2> HIDE DEF n
  <2> QED BY <2>1, <2>2, QueryAssumption DEF Bound
<1>4. CASE p.form \in {"none", "malformed"}
  BY <1>4 DEF ParseTime, Bound
<1> QED BY <1>1, <1>2, <1>3, <1>4

\* The same filters later still select what is newer than a log they select.
LEMMA LaterWhere ==
  ASSUME NEW q, NEW p, NEW l, NEW x,
         l.timestamp \in Int, x.timestamp \in Int, l.timestamp > x.timestamp,
         p.from \in Bound, p.to \in Bound, q.to \in Bound,
         q.to = NoTime <=> p.to = NoTime, p.to # NoTime => q.to <= p.to,
         q.levels = p.levels, q.services = p.services, q.search = p.search,
         Where(l, q), Where(x, p)
  PROVE  Where(l, p)
<1>1. /\ p.from # NoTime => p.from \in Int
      /\ p.to # NoTime => p.to \in Int
      /\ q.to # NoTime => q.to \in Int
  BY Zenon DEF Bound
<1>2. /\ p.from # NoTime => x.timestamp >= Bind(p.from)
      /\ q.to # NoTime => l.timestamp <= Bind(q.to)
  BY Zenon DEF Where
<1>3. p.from # NoTime => l.timestamp >= Bind(p.from)
  <2>1. p.from # NoTime => Bind(p.from) \in Int
    BY <1>1, BindType
  <2> QED BY <1>2, <2>1
<1>4. p.to # NoTime => l.timestamp <= Bind(p.to)
  <2>1. p.to # NoTime => Bind(p.to) \in Int /\ Bind(q.to) \in Int /\ Bind(q.to) <= Bind(p.to)
    BY <1>1, BindType, BindMonotone
  <2> QED BY <1>2, <2>1
<1>5. /\ p.levels # {} => l.level \in p.levels
      /\ p.services # {} => l.service \in p.services
      /\ p.search # "" => p.search \in l.message
  BY Zenon DEF Where
<1> QED BY <1>3, <1>4, <1>5, Zenon DEF Where

\* The answers of two pages in a row are such as PageAfter is about, and the
\* second one, if it was not read before the first, lacks nothing ahead of what
\* is skipped.
LEMMA NoGapHolds == ExplorerInv => NoGap
<1> SUFFICES ASSUME TypeInv, CacheInv, NEW k \in DOMAIN cache, NEW m \in DOMAIN cache
             PROVE  LET a == cache[k].data
                        b == cache[m].data
                    IN  /\ NoData \notin {a, b} /\ a.logs # {}
                        /\ b.asked = [a.asked EXCEPT !.offset = @ + a.asked.limit]
                        /\ a.asked.order = "desc" /\ a.asked.limit <= MaxLimit
                        => /\ a.seen \subseteq b.seen /\ a.read <= b.read => Skipped(a, b) = {}
                           /\ Cardinality(Skipped(a, b)) <= Cardinality(Newcomers(a, b))
  BY Zenon DEF ExplorerInv, NoGap
<1> DEFINE a == cache[k].data
           b == cache[m].data
<1> SUFFICES ASSUME NoData \notin {a, b}, a.logs # {},
                    b.asked = [a.asked EXCEPT !.offset = @ + a.asked.limit],
                    a.asked.order = "desc", a.asked.limit <= MaxLimit
             PROVE  /\ a.seen \subseteq b.seen /\ a.read <= b.read => Skipped(a, b) = {}
                    /\ Cardinality(Skipped(a, b)) <= Cardinality(Newcomers(a, b))
  OBVIOUS
<1>1. AnswerTo(a, k, present, now) /\ AnswerTo(b, m, present, now)
  BY Zenon DEF CacheInv, Sincere
<1> HIDE DEF a, b
<1>2. k \in Filter /\ m \in Filter /\ a.asked = k /\ b.asked = m
  BY <1>1, Zenon DEF TypeInv, AnswerTo
<1>3. k.offset \in Int /\ k.limit \in Nat \ {0} /\ k.from \in RequestTime /\ k.to \in RequestTime
  BY <1>2, FilterFields, Zenon DEF Filter
<1>4. m = [k EXCEPT !.offset = k.offset + k.limit]
  BY <1>2
<1>5. /\ m.offset = k.offset + k.limit /\ m.limit = k.limit /\ m.order = k.order
      /\ m.from = k.from /\ m.to = k.to /\ m.levels = k.levels
      /\ m.services = k.services /\ m.search = k.search
  BY <1>2, <1>4 DEF Filter
<1>6. /\ a.read \in Int /\ a.found \subseteq DOMAIN Logs /\ a.seen \subseteq DOMAIN Logs
      /\ b.read \in Int /\ b.found \subseteq DOMAIN Logs /\ b.seen \subseteq DOMAIN Logs
  BY <1>1 DEF AnswerTo, Answers
<1> DEFINE q == Parse(k, a.read)
           p == Parse(m, b.read)
           rows == Table(a.seen)
           rowsN == Table(b.seen)
<1>7. /\ q.offset = (IF k.offset < 0 THEN 0 ELSE k.offset) /\ q.limit = k.limit
      /\ q.order = k.order /\ q.from = ParseTime(k.from, a.read) /\ q.to = ParseTime(k.to, a.read)
      /\ q.levels = k.levels /\ q.services = k.services /\ q.search = k.search
  BY <1>2, <1>6, ParsedFilter
<1>8. /\ p.offset = (IF m.offset < 0 THEN 0 ELSE m.offset) /\ p.limit = m.limit
      /\ p.order = m.order /\ p.from = ParseTime(m.from, b.read) /\ p.to = ParseTime(m.to, b.read)
      /\ p.levels = m.levels /\ p.services = m.services /\ p.search = m.search
  BY <1>2, <1>5, <1>6, ParsedFilter
<1>9. a.found = Found(rows, q) /\ b.found = Found(rowsN, p)
  BY <1>1, Zenon DEF AnswerTo
<1>10. a.logs \in Slices(rows, a.found, q) /\ b.logs \in Slices(rowsN, b.found, p)
  BY <1>1, Zenon DEF AnswerTo
<1>11. IsFiniteSet(a.found) /\ IsFiniteSet(b.found)
  BY <1>6, ExplorerAssumption, FS_Subset
<1>12. /\ a.found \subseteq a.seen /\ \A r \in a.seen : rows[r] = Logs[r]
       /\ b.found \subseteq b.seen /\ \A r \in b.seen : rowsN[r] = Logs[r]
  BY <1>9 DEF Found, Table
<1>13. \A r \in DOMAIN Logs : Logs[r].timestamp \in Int
  BY ExplorerAssumption
<1>14. a.logs \subseteq a.found /\ b.logs \subseteq b.found
  BY <1>10, SliceFacts
<1> HIDE DEF q, p, rows, rowsN
<1>15. /\ \A r \in a.found : rows[r] = Logs[r] /\ rows[r].timestamp \in Int
       /\ \A r \in b.found : rowsN[r] = Logs[r] /\ rowsN[r].timestamp \in Int
  BY <1>6, <1>12, <1>13
\* What the second reading lacks of the first one it has not seen, or selected
\* by an earlier upper bound.
<1>16. ASSUME a.seen \subseteq b.seen, a.read <= b.read
       PROVE  Newcomers(a, b) = {}
  <2>1. /\ q.to \in Bound /\ p.to \in Bound /\ p.from \in Bound
        /\ q.to = NoTime <=> p.to = NoTime
        /\ p.to # NoTime => q.to <= p.to
    <3>1. ParseTime(k.from, b.read) \in Bound
      BY <1>3, <1>6, LaterBound
    <3>2. /\ ParseTime(k.to, a.read) \in Bound /\ ParseTime(k.to, b.read) \in Bound
          /\ ParseTime(k.to, a.read) = NoTime <=> ParseTime(k.to, b.read) = NoTime
          /\ ParseTime(k.to, b.read) # NoTime =>
               ParseTime(k.to, a.read) <= ParseTime(k.to, b.read)
      BY <1>3, <1>6, <1>16, LaterBound
    <3>3. q.to = ParseTime(k.to, a.read) /\ p.to = ParseTime(k.to, b.read)
          /\ p.from = ParseTime(k.from, b.read)
      BY <1>5, <1>7, <1>8, Zenon
    <3> QED BY <3>1, <3>2, <3>3
  <2>2. ASSUME NEW r \in a.found, NEW x \in b.found, Logs[r].timestamp > Logs[x].timestamp
        PROVE  r \in b.found
    <3>1. Where(rows[r], q) /\ Where(rowsN[x], p)
      BY <1>9, Zenon DEF Found
    <3>2. Where(Logs[r], q) /\ Where(Logs[x], p) /\ r \in b.seen
      BY <1>12, <1>16, <3>1
    <3>3. q.levels = p.levels /\ q.services = p.services /\ q.search = p.search
      BY <1>5, <1>7, <1>8, Zenon
    <3>4. Logs[r].timestamp \in Int /\ Logs[x].timestamp \in Int
      BY <1>6, <1>13
    <3>5. Where(Logs[r], p)
      BY <2>1, <2>2, <3>2, <3>3, <3>4, LaterWhere
    <3>6. r \in DOMAIN rowsN /\ rowsN[r] = Logs[r]
      BY <1>12, <3>2 DEF rowsN, Table
    <3> QED BY <1>9, <3>5, <3>6, Zenon DEF Found
  <2> QED BY <2>2 DEF Newcomers, Skipped
<1>17. /\ q.offset \in Nat /\ q.limit \in Nat \ {0} /\ q.order = "desc"
       /\ p.offset \in Nat /\ p.limit \in Nat \ {0} /\ p.order = "desc"
       /\ p.offset <= q.offset + q.limit
  <2>1. q.order = "desc" /\ p.order = "desc" /\ q.limit = k.limit /\ p.limit = k.limit
    BY <1>2, <1>5, <1>7, <1>8
  <2>2. p.offset = (IF k.offset + k.limit < 0 THEN 0 ELSE k.offset + k.limit)
    BY <1>5, <1>8, Zenon
  <2> QED BY <1>3, <1>7, <2>1, <2>2
<1>18. Cardinality(Skipped(a, b)) <= Cardinality(Newcomers(a, b))
  <2> DEFINE S == a.found
             SN == b.found
             page == a.logs
             next == b.logs
             X == Skipped(a, b)
             N == Newcomers(a, b)
  <2>1. /\ IsFiniteSet(S) /\ IsFiniteSet(SN) /\ page \in Slices(rows, S, q) /\ page # {}
        /\ next \in Slices(rowsN, SN, p)
    BY <1>10, <1>11
  <2>2. /\ Dated(rows, S) /\ Dated(rowsN, SN) /\ Alike(rows, S, rowsN, SN)
        /\ X \in SUBSET ((S \cap SN) \ next) /\ N \in SUBSET S
    BY <1>15 DEF Dated, Alike, Skipped, Newcomers
  <2>3. ASSUME NEW x \in X PROVE Between(rows, page, rowsN, next, x)
    <3>1. /\ \A r \in page : Logs[r].timestamp > Logs[x].timestamp
          /\ next = {} \/ \E r \in next : Logs[r].timestamp < Logs[x].timestamp
      BY DEF Skipped
    <3>2. rows[x] = Logs[x] /\ rowsN[x] = Logs[x]
      BY <1>15, <2>2
    <3>3. /\ \A r \in page : rows[r] = Logs[r]
          /\ \A r \in next : rowsN[r] = Logs[r]
      BY <1>14, <1>15
    <3> QED BY <3>1, <3>2, <3>3 DEF Between
  <2>4. ASSUME NEW r \in S \ SN, NEW x \in X, rows[r].timestamp > rows[x].timestamp
        PROVE  r \in N
    <3>1. rows[r] = Logs[r] /\ rows[x] = Logs[x]
      BY <1>15, <2>2
    <3> QED BY <2>4, <3>1 DEF Newcomers
  <2> HIDE DEF S, SN, page, next, X, N
  <2>5. Cardinality(X) <= Cardinality(N)
    BY <1>17, <2>1, <2>2, <2>3, <2>4, PageAfter
  <2> QED BY <2>5 DEF X, N
<1>19. ASSUME a.seen \subseteq b.seen, a.read <= b.read
       PROVE  Skipped(a, b) = {}
  <2>1. Cardinality(Newcomers(a, b)) = 0
    BY <1>16, <1>19, FS_EmptySet
  <2>2. IsFiniteSet(Skipped(a, b))
    <3>1. Skipped(a, b) \in SUBSET a.found
      BY DEF Skipped
    <3> QED BY <1>11, <3>1, FS_Subset
  <2>3. Cardinality(Skipped(a, b)) \in Nat /\ Cardinality(Skipped(a, b)) <= 0
    BY <1>18, <2>1, <2>2, FS_CardinalityType
  <2>4. Cardinality(Skipped(a, b)) = 0
    BY <2>3
  <2> QED BY <2>2, <2>4, FS_EmptySet
<1> QED BY <1>18, <1>19

\* No state of the browser mixes up pages: what is cached under a key, and what
\* is on its way to it, is the answer to that very key at some time past
\* (useSearch.ts 9), and its total is never more than what the table holds.
THEOREM ExplorerTypes == Spec => []TypeOK
BY ExplorerInvariant, TypesHold, PTL

\* Whenever nothing is fetched and no error shown, the table shows the answer to
\* the filters that panel and pager show (useSearch.ts 9-11), whatever was
\* clicked, answered late, failed or retried before.
THEOREM TableHonest == Spec => []HonestTable
BY ExplorerInvariant, HonestHolds, PTL

\* Going to the next page, not read before this one, skips no log that matched
\* all along and has another timestamp than the rows shown (LogsTable.tsx 186,
\* clickhouse.go 147): newest first, logs that arrive push the others to later
\* pages, and what leaves the range was behind them.  A next page that was read
\* before and is still cached (providers.tsx 12) skips no more logs than have
\* come in between.
THEOREM PagesMeet == Spec => []NoGap
BY ExplorerInvariant, NoGapHolds, PTL

\* Beyond the last page (clickhouse.go 175) the pager still leads back.
THEOREM AlwaysBack == Spec => []WayBack
BY ExplorerInvariant, WayBackHolds, PTL
=============================================================================
