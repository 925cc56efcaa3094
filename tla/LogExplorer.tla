----------------------------- MODULE LogExplorer -----------------------------
(***************************************************************************)
(* The log explorer of the web UI on the search API: the filters in the    *)
(* URL (useFilters.ts), the pages cached by TanStack Query (useSearch.ts,  *)
(* providers.tsx), the table with its Prev and Next (LogsTable.tsx), the   *)
(* filter panel (FilterPanel.tsx), and handleSearch on ClickHouse, while   *)
(* logs arrive and the range "the last hour" moves on.                     *)
(*                                                                         *)
(* Filters are the parameters of a search as in LogQuery, as the UI sends  *)
(* them all, with a limit above 0, and levels and an order that exist.     *)
(***************************************************************************)
EXTENDS LogQuery

CONSTANTS
  Logs,         \* the logs that may arrive: a function from ids to logs
  URLs,         \* the filters in the URLs that the page is opened with
  DefaultFrom,  \* DEFAULT_FILTERS.from
  Presets,      \* ranges offered by the panel
  Buttons,      \* levels the user toggles
  Searches,     \* words the user searches for
  StaleTime,    \* 15 s
  NoKey,
  MaxNow,       \* bound of the model: the clock
  MaxFailures,  \* bound of the model: requests that fail
  MaxClicks     \* bound of the model: clicks of the user

Filter ==
  [from : RequestTime, to : RequestTime, levels : SUBSET Levels,
   services : SUBSET Services, search : SearchText, limit : Nat \ {0},
   offset : Int, order : {"asc", "desc"}, numeric : {TRUE}]

ASSUME ExplorerAssumption ==
  /\ StaleTime \in Nat \ {0} /\ {MaxNow, MaxClicks, MaxFailures} \subseteq Nat
  /\ URLs \subseteq Filter
  /\ {DefaultFrom} \cup Presets \subseteq RequestTime
  /\ Buttons \subseteq Levels /\ Searches \subseteq SearchText
  /\ IsFiniteSet(DOMAIN Logs)
  /\ \A id \in DOMAIN Logs :
       Logs[id] \in [timestamp : Int, level : Levels, service : Services,
                     message : SUBSET Words]

VARIABLES
  now,
  present,  \* the ids of the logs in table logs
  url,      \* the filters in the URL as router.replace left it
  filters,  \* the filters of the last render
  cache,    \* TanStack's queries by key
  prev,     \* the key of the last query shown with data of its own
  clicks, failures

vars == <<now, present, url, filters, cache, prev, clicks, failures>>

-----------------------------------------------------------------------------
(* URL and key.                                                            *)

\* filtersToSearchParams, then filtersFromParams.
ToURL(f) == [f EXCEPT !.offset = IF @ > 0 THEN @ ELSE 0]
FromURL(u) == [u EXCEPT !.from = IF @.form = "none" THEN DefaultFrom ELSE @]

\* Mutant of Key: the page is not a part of it.
KeyWithoutOffset(f) == [f EXCEPT !.offset = 0]

Key(f) == f

-----------------------------------------------------------------------------
(* A query: its data, and the fetch under way, "idle", "sent" or           *)
(* "answered".  asked is the filters its function was made with.           *)

NoData == [total |-> 0, logs |-> {}]
Fresh == [data |-> NoData, error |-> FALSE, stage |-> "idle", tries |-> 0,
          asked |-> NoKey, answer |-> NoData]

Query(k) == IF k \in DOMAIN cache THEN cache[k] ELSE Fresh
With(k, query) ==
  [x \in DOMAIN cache \cup {k} |-> IF x = k THEN query ELSE cache[x]]

Stale(query) == query.data = NoData \/ now >= query.data.at + StaleTime

\* One fetch per query at a time; the error of a query without data is gone.
Fetched(query, f) ==
  IF Stale(query) /\ query.stage = "idle"
  THEN [query EXCEPT !.stage = "sent", !.tries = 0, !.asked = f,
                     !.error = @ /\ query.data # NoData]
  ELSE query

-----------------------------------------------------------------------------
(* The table.                                                              *)

Current == Query(Key(filters))

\* The page, or as long as it is pending the last one shown.
Shown ==
  CASE Current.data # NoData -> Current.data
    [] Current.data = NoData /\ ~Current.error /\ prev # NoKey -> cache[prev].data
    [] OTHER -> NoData

CeilDiv(a, b) == (a + b - 1) \div b
PageCount == IF Shown.total = 0 THEN 1 ELSE CeilDiv(Shown.total, filters.limit)

\* Mutant of Page: never more than the last page.
PageCapped == Lesser(filters.offset \div filters.limit, PageCount - 1)

Page == filters.offset \div filters.limit

Init ==
  /\ now = 0
  /\ present = {id \in DOMAIN Logs : Logs[id].timestamp < 0}
  /\ url \in URLs
  /\ filters = FromURL(url)
  /\ cache = [k \in {Key(filters)} |-> Fetched(Fresh, filters)]
  /\ prev = NoKey
  /\ clicks = 0
  /\ failures = 0

-----------------------------------------------------------------------------
(* The user.  Every handler starts from the filters of the last render.    *)

Click(f) ==
  /\ clicks < MaxClicks
  /\ clicks' = clicks + 1
  /\ url' = ToURL(f)
  /\ UNCHANGED <<now, present, filters, cache, prev, failures>>

NextPage ==
  Page < PageCount - 1 /\ Click([filters EXCEPT !.offset = @ + filters.limit])

PrevPage ==
  /\ Page # 0
  /\ Click([filters EXCEPT !.offset =
              IF @ > filters.limit THEN @ - filters.limit ELSE 0])

SetRange(from) == Click([filters EXCEPT !.from = from, !.offset = 0])

ToggleLevel(v) ==
  Click([filters EXCEPT !.levels = IF v \in @ THEN @ \ {v} ELSE @ \cup {v},
                        !.offset = 0])

\* The form cannot be submitted while the page is fetched.
Submit(word) ==
  /\ Current.stage = "idle"
  /\ Click([filters EXCEPT !.search = word, !.offset = 0])

\* Offered when there is something to reset.
Reset ==
  /\ filters.search # "" \/ filters.levels # {} \/ filters.services # {}
  /\ Click([filters EXCEPT !.search = "", !.levels = {}, !.services = {},
                           !.offset = 0])

-----------------------------------------------------------------------------
(* The browser.                                                            *)

\* The new URL is rendered: its query is fetched unless fresh.
Render ==
  /\ filters # FromURL(url)
  /\ filters' = FromURL(url)
  /\ LET k == Key(filters')
     IN  /\ cache' = With(k, Fetched(Query(k), filters'))
         /\ prev' = IF Query(k).data # NoData THEN k ELSE prev
  /\ UNCHANGED <<now, present, url, clicks, failures>>

\* Back to the window: refetchOnWindowFocus.
Refocus ==
  /\ cache' = With(Key(filters), Fetched(Current, filters))
  /\ UNCHANGED <<now, present, url, filters, prev, clicks, failures>>

\* Mutant of Fails: it tries again and again.
FailsAgain(k) ==
  /\ cache[k].stage = "sent"
  /\ cache' = With(k, [cache[k] EXCEPT !.tries = 1 - @])
  /\ UNCHANGED <<now, present, url, filters, prev, clicks, failures>>

\* Mutant of Fails: one retry too many.
FailsLate(k) ==
  /\ cache[k].stage = "sent"
  /\ failures < MaxFailures
  /\ failures' = failures + 1
  /\ cache' = With(k, IF cache[k].tries <= 1
                      THEN [cache[k] EXCEPT !.tries = @ + 1]
                      ELSE [cache[k] EXCEPT !.stage = "idle", !.error = TRUE])
  /\ UNCHANGED <<now, present, url, filters, prev, clicks>>

\* No connection, a status other than 200, an answer lost: one retry, then
\* the error.
Fails(k) ==
  /\ cache[k].stage = "sent"
  /\ failures < MaxFailures
  /\ failures' = failures + 1
  /\ cache' = With(k, IF cache[k].tries = 0
                      THEN [cache[k] EXCEPT !.tries = 1]
                      ELSE [cache[k] EXCEPT !.stage = "idle", !.error = TRUE])
  /\ UNCHANGED <<now, present, url, filters, prev, clicks>>

\* The answer arrives, whichever page is shown by now.
Receive(k) ==
  /\ cache[k].stage = "answered"
  /\ cache' = With(k, [cache[k] EXCEPT !.stage = "idle", !.error = FALSE,
                         !.data = [cache[k].answer EXCEPT !.at = now],
                         !.answer = NoData])
  /\ prev' = IF k = Key(filters) THEN k ELSE prev
  /\ UNCHANGED <<now, present, url, filters, clicks, failures>>

-----------------------------------------------------------------------------
(* The server.                                                             *)

Rows == [id \in present |-> Logs[id]]

\* handleSearch.  read, found and seen are history: when it looked, what
\* matched, what was there.
Answer(k) ==
  LET asked == cache[k].asked
      q == Parse(asked, now)
  IN  /\ cache[k].stage = "sent"
      /\ ~ParseFails(asked, now)
      /\ \E page \in ClickHouseSearch(Rows, q) :
           cache' = With(k, [cache[k] EXCEPT !.stage = "answered",
                      !.answer = [logs |-> page.logs, total |-> page.total, at |-> now,
                                  asked |-> asked, read |-> now,
                                  found |-> Found(Rows, q), seen |-> present]])
      /\ UNCHANGED <<now, present, url, filters, prev, clicks, failures>>

\* A log is inserted, perhaps long after its timestamp, or before it.
Arrive(id) ==
  /\ Logs[id].timestamp <= now + Hour
  /\ present' = present \cup {id}
  /\ UNCHANGED <<now, url, filters, cache, prev, clicks, failures>>

Tick ==
  /\ now < MaxNow
  /\ now' = now + 1
  /\ UNCHANGED <<present, url, filters, cache, prev, clicks, failures>>

Fetching == \E k \in DOMAIN cache : Fails(k) \/ Receive(k) \/ Answer(k)

Next ==
  \/ NextPage
  \/ PrevPage
  \/ \E from \in Presets : SetRange(from)
  \/ \E v \in Buttons : ToggleLevel(v)
  \/ \E word \in Searches : Submit(word)
  \/ Reset
  \/ Render
  \/ Refocus
  \/ Fetching
  \/ \E id \in DOMAIN Logs \ present : Arrive(id)
  \/ Tick

\* A URL is rendered, and a request answered or given up, some day.
Spec == Init /\ [][Next]_vars /\ WF_vars(Render) /\ WF_vars(Fetching)

-----------------------------------------------------------------------------
(* Properties.                                                             *)

TypeOK ==
  /\ now \in 0..MaxNow
  /\ present \subseteq DOMAIN Logs
  /\ {url, filters} \subseteq Filter
  /\ Key(filters) \in DOMAIN cache
  /\ prev # NoKey => prev \in DOMAIN cache /\ cache[prev].data # NoData
  /\ \A k \in DOMAIN cache :
       /\ cache[k].stage \in {"idle", "sent", "answered"}
       /\ cache[k].tries \in {0, 1}
       /\ cache[k].data.logs \subseteq present
       /\ cache[k].data.total \in 0..Cardinality(present)
  /\ clicks \in 0..MaxClicks /\ failures \in 0..MaxFailures

\* As soon as nothing is fetched and no error shown, the table holds what the
\* server answered to the very filters that panel and pager show, not the page
\* kept on screen meanwhile (useSearch.ts 9-11).
HonestTable ==
  Current.stage = "idle" /\ ~Current.error =>
    Shown # NoData /\ Shown.asked = filters

\* What is on neither of two pages in a row, a and then b, although it matched
\* both times and belongs between them.
Skipped(a, b) ==
  {id \in (a.found \cap b.found) \ b.logs :
     /\ \A r \in a.logs : Logs[r].timestamp > Logs[id].timestamp
     /\ b.logs = {} \/ \E r \in b.logs : Logs[r].timestamp < Logs[id].timestamp}

\* What only the first of the two readings found ahead of that.
Newcomers(a, b) ==
  {id \in a.found \ b.found :
     \E x \in Skipped(a, b) : Logs[id].timestamp > Logs[x].timestamp}

\* Going from a page with rows to the next one skips no log that matched all
\* along, although logs arrive and the range moves on between the two queries
\* (LogsTable.tsx 186, clickhouse.go 147), but for logs with the timestamp of a
\* row shown: newest first, with a limit that the server leaves (query.go 25).
\* A next page that is still in the cache may be the older one (providers.tsx
\* 12), and then logs can be skipped: but no more than have come in meanwhile.
NoGap ==
  \A k, m \in DOMAIN cache :
    LET a == cache[k].data
        b == cache[m].data
    IN  /\ NoData \notin {a, b} /\ a.logs # {}
        /\ b.asked = [a.asked EXCEPT !.offset = @ + a.asked.limit]
        /\ a.asked.order = "desc" /\ a.asked.limit <= MaxLimit
        => /\ a.seen \subseteq b.seen /\ a.read <= b.read => Skipped(a, b) = {}
           /\ Cardinality(Skipped(a, b)) <= Cardinality(Newcomers(a, b))

\* Beyond the last page the total is 0 (clickhouse.go 175) and the table says
\* that no logs match (LogsTable.tsx 101).  Whoever comes there by the pager,
\* because logs have left the range, can go back by it.
WayBack ==
  LET d == Current.data
  IN  d # NoData /\ d.logs = {} /\ filters.offset % filters.limit = 0 =>
        d.found = {} \/ Page # 0

\* What the URL asks for is rendered, and its query at rest, again and again:
\* whatever fails, and however often the window is focused.
Settles == []<>(filters = FromURL(url) /\ Current.stage = "idle")
=============================================================================
