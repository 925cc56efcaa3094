--------------------------- MODULE IngestPipeline ---------------------------
(***************************************************************************)
(* The write path of observad: POST /api/v1/logs pushes logs into a Redis  *)
(* stream (handlers.go, buffer.go), writer workers claim them in batches,  *)
(* insert a batch into ClickHouse, acknowledge it and broadcast it to the  *)
(* live tail (writer.go), and main.go starts, drains and restarts the      *)
(* process.  Redis and ClickHouse survive the process; everything else is  *)
(* lost with it.                                                           *)
(*                                                                         *)
(* A log is identified with its stream entry: two entries may carry the    *)
(* same log id (a pipeline sent twice), and are counted apart here.        *)
(***************************************************************************)
EXTENDS RedisStream

CONSTANTS
  Clients,    \* ingest requests that can be in flight at the same time
  MaxPush,    \* bound of the model: accepted logs per request (10_000)
  BatchSize,  \* OBSERVA_BATCH_SIZE
  MaxStops,   \* bound of the model: shutdowns and crashes in a behaviour
  MaxCount,   \* bound of the model: the rollup counts up to here
  Faults      \* which of FaultKinds the environment may commit

FaultKinds ==
  {"retry",   \* go-redis sends a pipeline again after a network error
   "claim",   \* a claim command fails
   "reply",   \* a command takes effect, its reply is lost, go-redis retries
   "insert",  \* InsertBatch fails
   "ack",     \* XACK fails
   "slow",    \* a worker sits on entries for 30 s
   "crash"}   \* the process dies

ASSUME PipelineAssumption ==
  /\ BatchSize \in Nat \ {0}
  /\ MaxPush \in Nat
  /\ MaxStops \in Nat
  /\ MaxCount \in Nat \ {0}
  /\ Faults \subseteq FaultKinds

VARIABLES
  request,   \* good logs of the client's request in flight, 0 for none
  sent,      \* the entries its pipeline has added
  accepted,  \* entries of requests answered 202 or 207
  pc,        \* where the worker is
  after,     \* where it goes once flush returns
  batch,     \* worker's batch
  batchIDs,  \* and the stream ids to acknowledge with it
  logs,      \* Claim's partial result between its commands
  ids,       \* and its stream ids
  stored,    \* table logs, as FINAL queries see it: a set of entries
  rollup,    \* table logs_by_minute: how often an entry was counted
  tailed,    \* entries broadcast to the live tail
  phase,     \* "up", "stopping" (signal received) or "down"
  stops      \* shutdowns and crashes so far

apiVars == <<request, sent, accepted>>
claimVars == <<logs, ids>>
batchVars == <<batch, batchIDs>>
storeVars == <<stored, rollup>>
procVars == <<phase, stops>>
vars == <<redisVars, apiVars, pc, after, batchVars, claimVars, storeVars,
          tailed, procVars>>

Commands == {"stale", "own", "new"}  \* the three commands of Claim, in order
PCs == Commands \cup {"loop", "idle", "insert", "ack", "tail", "exited"}

\* Mutant of Want: ask for a whole batch whatever is in hand.
WantWhole(w) == BatchSize

Want(w) == BatchSize - Len(batch[w])
Remaining(w) == Want(w) - Len(logs[w])

\* Entries a worker has in hand, claimed and not yet flushed.
Held(w) == Range(batchIDs[w]) \cup Range(ids[w])

Occurrences(e, s) == Cardinality({i \in DOMAIN s : s[i] = e})

CountUp(n, k) == IF n + k <= MaxCount THEN n + k ELSE MaxCount

Init ==
  /\ RedisInit
  /\ request = [c \in Clients |-> 0]
  /\ sent = [c \in Clients |-> {}]
  /\ accepted = {}
  /\ pc = [w \in Workers |-> "exited"]
  /\ after = [w \in Workers |-> "loop"]
  /\ batch = [w \in Workers |-> <<>>]
  /\ batchIDs = [w \in Workers |-> <<>>]
  /\ logs = [w \in Workers |-> <<>>]
  /\ ids = [w \in Workers |-> <<>>]
  /\ stored = {}
  /\ rollup = [e \in Entries |-> 0]
  /\ tailed = {}
  /\ phase = "down"
  /\ stops = 0

-----------------------------------------------------------------------------
(* handleIngest and Buffer.Push.                                           *)

\* A request arrives with n logs that pass Sanitize.
StartIngest(c, n) ==
  /\ phase = "up"
  /\ request[c] = 0
  /\ request' = [request EXCEPT ![c] = n]
  /\ UNCHANGED <<redisVars, sent, accepted, pc, after, batchVars, claimVars,
                 storeVars, tailed, procVars>>

\* Redis executes the pipeline's next XADD; commands of other connections
\* may come between two of them.
PushEntry(c) ==
  /\ Cardinality(sent[c]) < request[c]
  /\ XAdd
  /\ sent' = [sent EXCEPT ![c] = @ \cup {added'}]
  /\ UNCHANGED <<request, accepted, pc, after, batchVars, claimVars,
                 storeVars, tailed, procVars>>

EndRequest(c) ==
  /\ request' = [request EXCEPT ![c] = 0]
  /\ sent' = [sent EXCEPT ![c] = {}]
  /\ UNCHANGED <<redisVars, pc, after, batchVars, claimVars, storeVars,
                 tailed, procVars>>

\* pipe.Exec returns nil: 202, or 207 when Sanitize rejected some.
RespondAccepted(c) ==
  /\ request[c] > 0
  /\ Cardinality(sent[c]) = request[c]
  /\ accepted' = accepted \cup sent[c]
  /\ EndRequest(c)

\* pipe.Exec fails, possibly after Redis has executed a part or all: 503.  It
\* takes no broken Redis: the request's context ends when the client goes away.
PushFails(c) ==
  /\ request[c] > 0
  /\ EndRequest(c)
  /\ UNCHANGED accepted

\* go-redis sends the whole pipeline again; what was added stays.
PushRetry(c) ==
  /\ "retry" \in Faults
  /\ sent[c] # {}
  /\ sent' = [sent EXCEPT ![c] = {}]
  /\ UNCHANGED <<redisVars, request, accepted, pc, after, batchVars,
                 claimVars, storeVars, tailed, procVars>>

-----------------------------------------------------------------------------
(* Writer.worker: the loop and Buffer.Claim.                               *)

Cancelled == phase = "stopping"

\* Continue at p.  A command issued under a cancelled context fails before
\* it reaches Redis; the batch is empty then, so the worker just returns.
Goto(p) == IF p = "stale" /\ Cancelled THEN "exited" ELSE p

\* Mutant of Flush: acknowledge before the insert.
FlushAckFirst(w, p) ==
  IF batch[w] = <<>>
  THEN pc' = [pc EXCEPT ![w] = Goto(p)] /\ UNCHANGED after
  ELSE pc' = [pc EXCEPT ![w] = "ack"] /\ after' = [after EXCEPT ![w] = p]

\* Call flush and continue at p; an empty batch returns at once.
Flush(w, p) ==
  IF batch[w] = <<>>
  THEN /\ pc' = [pc EXCEPT ![w] = Goto(p)]
       /\ UNCHANGED after
  ELSE /\ pc' = [pc EXCEPT ![w] = "insert"]
       /\ after' = [after EXCEPT ![w] = p]

DropClaim(w) ==
  /\ logs' = [logs EXCEPT ![w] = <<>>]
  /\ ids' = [ids EXCEPT ![w] = <<>>]

\* Mutant of SeeDone: return without flush; the batch is a local variable.
SeeDoneReturn(w) ==
  /\ Cancelled
  /\ pc[w] \in {"loop", "idle"}
  /\ pc' = [pc EXCEPT ![w] = "exited"]
  /\ batch' = [batch EXCEPT ![w] = <<>>]
  /\ batchIDs' = [batchIDs EXCEPT ![w] = <<>>]
  /\ UNCHANGED <<redisVars, apiVars, after, claimVars, storeVars, tailed,
                 procVars>>

\* Both selects: ctx.Done flushes and leaves the loop.
SeeDone(w) ==
  /\ Cancelled
  /\ pc[w] \in {"loop", "idle"}
  /\ Flush(w, "exited")
  /\ UNCHANGED <<redisVars, apiVars, batchVars, claimVars, storeVars, tailed,
                 procVars>>

\* Mutant of Tick: the second select's ticker goes on waiting.
TickWaits(w) ==
  /\ pc[w] \in {"loop", "idle"}
  /\ Flush(w, IF pc[w] = "loop" THEN "stale" ELSE "idle")
  /\ UNCHANGED <<redisVars, apiVars, batchVars, claimVars, storeVars, tailed,
                 procVars>>

\* Both selects: the ticker flushes; the first goes on into Claim, the second
\* starts the loop again.
Tick(w) ==
  /\ pc[w] \in {"loop", "idle"}
  /\ Flush(w, IF pc[w] = "loop" THEN "stale" ELSE "loop")
  /\ UNCHANGED <<redisVars, apiVars, batchVars, claimVars, storeVars, tailed,
                 procVars>>

\* The second select: claimWait has passed.
WaitOver(w) ==
  /\ pc[w] = "idle"
  /\ pc' = [pc EXCEPT ![w] = "loop"]
  /\ UNCHANGED <<redisVars, apiVars, after, batchVars, claimVars, storeVars,
                 tailed, procVars>>

\* The first select's default, then Claim.  The branch for a full batch in
\* between is not taken: the batch is never full here (BatchBounded).
BeginClaim(w) ==
  /\ ~Cancelled
  /\ pc[w] = "loop"
  /\ pc' = [pc EXCEPT ![w] = "stale"]
  /\ UNCHANGED <<redisVars, apiVars, after, batchVars, claimVars, storeVars,
                 tailed, procVars>>

\* Claim returns l and i.  Without logs the ids are dropped and the worker
\* waits; otherwise both are appended and a full batch is flushed.
EndClaim(w, l, i) ==
  /\ DropClaim(w)
  /\ IF l = <<>>
     THEN /\ pc' = [pc EXCEPT ![w] = "idle"]
          /\ UNCHANGED <<batchVars, after>>
     ELSE /\ batch' = [batch EXCEPT ![w] = @ \o l]
          /\ batchIDs' = [batchIDs EXCEPT ![w] = @ \o i]
          /\ pc' = [pc EXCEPT ![w] = IF Len(batch[w] \o l) >= BatchSize
                                     THEN "insert" ELSE "loop"]
          /\ UNCHANGED after

\* Claim gives up under a cancelled context: flush and leave the loop.
AbandonClaim(w) ==
  /\ DropClaim(w)
  /\ Flush(w, "exited")
  /\ UNCHANGED batchVars

\* A command of Claim has replied with l and i: enough, or the next command.
Collect(w, l, i, next) ==
  LET allLogs == logs[w] \o l
      allIDs == ids[w] \o i
  IN  IF Len(allLogs) >= Want(w) \/ next = "done" THEN EndClaim(w, allLogs, allIDs)
      ELSE IF Cancelled THEN AbandonClaim(w)
      ELSE /\ pc' = [pc EXCEPT ![w] = next]
           /\ logs' = [logs EXCEPT ![w] = allLogs]
           /\ ids' = [ids EXCEPT ![w] = allIDs]
           /\ UNCHANGED <<batchVars, after>>

\* Mutant of ClaimStale: Claim does not call autoClaim.
SkipStale(w) ==
  /\ pc[w] = "stale"
  /\ Collect(w, <<>>, <<>>, "own")
  /\ UNCHANGED <<redisVars, apiVars, storeVars, tailed, procVars>>

\* autoClaim.  The cursor is ignored: every call starts from 0-0.
ClaimStale(w) ==
  /\ pc[w] = "stale"
  /\ \E due \in DueReplies(Want(w)) :
       /\ XAutoClaim(w, due)
       /\ \E l \in Ascending(Live(due)) : Collect(w, l, l, "own")
  /\ UNCHANGED <<apiVars, storeVars, tailed, procVars>>

\* readGroup "0".  Entries of the batch in hand are still in the PEL and come
\* back; entries the stream has dropped come back as ids without a log.
ReadOwn(w) ==
  /\ pc[w] = "own"
  /\ \E own \in OwnReplies(w, Remaining(w)) :
       /\ XReadOwn(own)
       /\ \E l \in Ascending(Live(own)), i \in Ascending(own) :
            Collect(w, l, i, "new")
  /\ UNCHANGED <<apiVars, storeVars, tailed, procVars>>

\* Mutant of ReadNew: XREADGROUP NOACK, nothing becomes pending.
ReadNewNoAck(w) ==
  /\ pc[w] = "new"
  /\ \E new \in NewReplies(Remaining(w)) :
       /\ IF new = {} THEN UNCHANGED delivered
          ELSE delivered' \in new /\ \A e \in new : e <= delivered'
       /\ \E l \in Ascending(new) : Collect(w, l, l, "done")
  /\ UNCHANGED <<first, added, pel, stale, apiVars, storeVars, tailed, procVars>>

\* readGroup ">".  An empty reply stands for the end of the blocking wait.
ReadNew(w) ==
  /\ pc[w] = "new"
  /\ \E new \in NewReplies(Remaining(w)) :
       /\ XReadNew(w, new)
       /\ \E l \in Ascending(new) : Collect(w, l, l, "done")
  /\ UNCHANGED <<apiVars, storeVars, tailed, procVars>>

\* A command fails: under a cancelled context the worker flushes and leaves,
\* otherwise it sleeps a second and starts the loop again.  What the commands
\* before it returned is dropped either way.
ClaimFails(w) ==
  /\ pc[w] \in Commands
  /\ \/ Cancelled /\ AbandonClaim(w)
     \/ /\ "claim" \in Faults
        /\ ~Cancelled
        /\ DropClaim(w)
        /\ pc' = [pc EXCEPT ![w] = "loop"]
        /\ UNCHANGED <<batchVars, after>>
  /\ UNCHANGED <<redisVars, apiVars, storeVars, tailed, procVars>>

\* A command takes effect but its reply is lost; go-redis sends it again,
\* unless the context has been cancelled (Ack runs under one of its own).
ReplyLost(w) ==
  /\ "reply" \in Faults
  /\ \/ /\ pc[w] = "stale"
        /\ \E due \in DueReplies(Want(w)) : XAutoClaim(w, due)
     \/ /\ pc[w] = "own"
        /\ \E own \in OwnReplies(w, Remaining(w)) : XReadOwn(own)
     \/ /\ pc[w] = "new"
        /\ \E new \in NewReplies(Remaining(w)) : XReadNew(w, new)
     \/ pc[w] = "ack" /\ XAck(Range(batchIDs[w]))
  /\ IF pc[w] # "ack" /\ Cancelled
     THEN AbandonClaim(w)
     ELSE UNCHANGED <<pc, after, batchVars, claimVars>>
  /\ UNCHANGED <<apiVars, storeVars, tailed, procVars>>

-----------------------------------------------------------------------------
(* Writer.worker: flush.                                                   *)

EndFlush(w) ==
  /\ batch' = [batch EXCEPT ![w] = <<>>]
  /\ batchIDs' = [batchIDs EXCEPT ![w] = <<>>]
  /\ pc' = [pc EXCEPT ![w] = Goto(after[w])]
  /\ after' = [after EXCEPT ![w] = "loop"]

\* InsertBatch: rows of table logs, which FINAL queries see once per id, and
\* the materialized view's counts, one per inserted row.
Insert(w) ==
  /\ pc[w] = "insert"
  /\ stored' = stored \cup Range(batch[w])
  /\ rollup' = [e \in Entries |-> CountUp(rollup[e], Occurrences(e, batch[w]))]
  /\ pc' = [pc EXCEPT ![w] = "ack"]
  /\ UNCHANGED <<redisVars, apiVars, after, batchVars, claimVars, tailed,
                 procVars>>

\* Mutant of InsertFails: the error is logged, the flush goes on.
InsertErrorIgnored(w) ==
  /\ "insert" \in Faults
  /\ pc[w] = "insert"
  /\ pc' = [pc EXCEPT ![w] = "ack"]
  /\ UNCHANGED <<redisVars, apiVars, after, batchVars, claimVars, storeVars,
                 tailed, procVars>>

\* InsertBatch returns an error.  ClickHouse may have committed the parts of
\* some day partitions, and the view's counts of some of those.
InsertFails(w) ==
  /\ "insert" \in Faults
  /\ pc[w] = "insert"
  /\ \E rows \in SUBSET Range(batch[w]) : \E counted \in SUBSET rows :
       /\ stored' = stored \cup rows
       /\ rollup' = [e \in Entries |->
                       IF e \in counted
                       THEN CountUp(rollup[e], Occurrences(e, batch[w]))
                       ELSE rollup[e]]
  /\ EndFlush(w)
  /\ UNCHANGED <<redisVars, apiVars, claimVars, tailed, procVars>>

Ack(w) ==
  /\ pc[w] = "ack"
  /\ XAck(Range(batchIDs[w]))
  /\ pc' = [pc EXCEPT ![w] = "tail"]
  /\ UNCHANGED <<apiVars, after, batchVars, claimVars, storeVars, tailed,
                 procVars>>

\* Mutant of AckFails: the error is logged, the flush goes on.
AckErrorIgnored(w) ==
  /\ "ack" \in Faults
  /\ pc[w] = "ack"
  /\ pc' = [pc EXCEPT ![w] = "tail"]
  /\ UNCHANGED <<redisVars, apiVars, after, batchVars, claimVars, storeVars,
                 tailed, procVars>>

\* The batch is forgotten without a broadcast.
AckFails(w) ==
  /\ "ack" \in Faults
  /\ pc[w] = "ack"
  /\ EndFlush(w)
  /\ UNCHANGED <<redisVars, apiVars, claimVars, storeVars, tailed, procVars>>

\* hub.Broadcast(batch).
Broadcast(w) ==
  /\ pc[w] = "tail"
  /\ tailed' = tailed \cup Range(batch[w])
  /\ EndFlush(w)
  /\ UNCHANGED <<redisVars, apiVars, claimVars, storeVars, procVars>>

-----------------------------------------------------------------------------
(* main.run: the life of the process.                                      *)

\* A worker's entry has waited for 30 s.  Unless the worker is that slow it
\* has nothing to do with the entry any more.
Age(e) ==
  /\ GrowStale(e)
  /\ "slow" \in Faults \/ \A w \in Workers : e \notin Held(w)
  /\ UNCHANGED <<apiVars, pc, after, batchVars, claimVars, storeVars, tailed,
                 procVars>>

\* observad starts with OBSERVA_WORKERS workers, maybe not as many as before.
Start(active) ==
  /\ phase = "down"
  /\ phase' = "up"
  /\ pc' = [w \in Workers |-> IF w \in active THEN "loop" ELSE "exited"]
  /\ UNCHANGED <<redisVars, apiVars, after, batchVars, claimVars, storeVars,
                 tailed, stops>>

\* SIGINT or SIGTERM cancels the context of the workers and stops the server
\* accepting requests; those in flight go on.
Signal ==
  /\ phase = "up"
  /\ stops < MaxStops
  /\ phase' = "stopping"
  /\ stops' = stops + 1
  /\ UNCHANGED <<redisVars, apiVars, pc, after, batchVars, claimVars,
                 storeVars, tailed>>

\* The server has drained, then the writer.
Exit ==
  /\ phase = "stopping"
  /\ \A c \in Clients : request[c] = 0
  /\ \A w \in Workers : pc[w] = "exited"
  /\ phase' = "down"
  /\ UNCHANGED <<redisVars, apiVars, pc, after, batchVars, claimVars,
                 storeVars, tailed, stops>>

\* The process dies with everything in memory: killed, or run returns on a
\* server error or when draining takes longer than 20 s.
Crash ==
  /\ "crash" \in Faults
  /\ phase # "down"
  /\ stops < MaxStops
  /\ phase' = "down"
  /\ stops' = stops + 1
  /\ request' = [c \in Clients |-> 0]
  /\ sent' = [c \in Clients |-> {}]
  /\ pc' = [w \in Workers |-> "exited"]
  /\ after' = [w \in Workers |-> "loop"]
  /\ batch' = [w \in Workers |-> <<>>]
  /\ batchIDs' = [w \in Workers |-> <<>>]
  /\ logs' = [w \in Workers |-> <<>>]
  /\ ids' = [w \in Workers |-> <<>>]
  /\ UNCHANGED <<redisVars, accepted, storeVars, tailed>>

-----------------------------------------------------------------------------
Ingest(c) ==
  \/ \E n \in 1..MaxPush : StartIngest(c, n)
  \/ PushEntry(c)
  \/ RespondAccepted(c)
  \/ PushFails(c)
  \/ PushRetry(c)

Work(w) ==
  \/ SeeDone(w)
  \/ Tick(w)
  \/ WaitOver(w)
  \/ BeginClaim(w)
  \/ ClaimStale(w)
  \/ ReadOwn(w)
  \/ ReadNew(w)
  \/ ClaimFails(w)
  \/ ReplyLost(w)
  \/ Insert(w)
  \/ InsertFails(w)
  \/ Ack(w)
  \/ AckFails(w)
  \/ Broadcast(w)

Next ==
  \/ \E c \in Clients : Ingest(c)
  \/ \E w \in Workers : Work(w)
  \/ \E e \in Entries : Age(e)
  \/ \E active \in SUBSET Workers \ {{}} : Start(active)
  \/ Signal
  \/ Exit
  \/ Crash

Spec == Init /\ [][Next]_vars
-----------------------------------------------------------------------------
(* Properties.                                                             *)

TypeOK ==
  /\ first \in Nat \ {0}
  /\ added \in 0..MaxEntries
  /\ delivered \in 0..MaxEntries
  /\ pel \in [Entries -> Workers \cup {NoOne}]
  /\ stale \subseteq Entries
  /\ request \in [Clients -> Nat]
  /\ sent \in [Clients -> SUBSET Entries]
  /\ accepted \subseteq Entries
  /\ pc \in [Workers -> PCs]
  /\ after \in [Workers -> {"loop", "stale", "exited"}]
  /\ batch \in [Workers -> Seq(Entries)]
  /\ batchIDs \in [Workers -> Seq(Entries)]
  /\ logs \in [Workers -> Seq(Entries)]
  /\ ids \in [Workers -> Seq(Entries)]
  /\ stored \subseteq Entries
  /\ rollup \in [Entries -> 0..MaxCount]
  /\ tailed \subseteq Entries
  /\ phase \in {"down", "up", "stopping"}
  /\ stops \in 0..MaxStops

\* A log the API has acknowledged (handlers.go answers 202 or 207) is in
\* table logs, or still where a worker will claim it, or the stream has
\* overflowed: MaxLen newer entries have been added since.
NoSilentLoss ==
  \A e \in accepted :
    \/ e \in stored
    \/ e >= first /\ (e > delivered \/ pel[e] \in Workers)
    \/ added - e >= MaxLen

\* What the group is done with has been inserted and counted, or the stream
\* dropped it: flush acknowledges only after InsertBatch has succeeded, and
\* acknowledges no id whose log it did not insert (writer.go 86-97).
SettledIsStored ==
  \A e \in Settled : e < first \/ (e \in stored /\ rollup[e] >= 1)

\* The live tail shows no log before it can be found by a search and will
\* not be delivered again (writer.go broadcasts after insert and ack).
TailedIsSettled == tailed \subseteq stored \cap Settled

\* A worker never claims more than a batch, and its batch is never full when
\* it tests for that (writer.go 128): the branch with the pause between two
\* attempts at inserting is never taken.
BatchBounded ==
  \A w \in Workers :
    /\ Len(batch[w]) + Len(logs[w]) <= BatchSize
    /\ pc[w] \in Commands \cup {"loop", "idle"} => Len(batch[w]) < BatchSize

\* As long as no worker sits on its entries for stalePendingAfter, no entry
\* is in the hands of two workers: XAUTOCLAIM takes only what was given up.
OneHolder ==
  \A v, w \in Workers : v # w => Held(v) \cap Held(w) = {}

\* Unless the insert fails or the process dies, a batch leaves a worker's
\* hands only with its logs in the table, on every way out of the loop at a
\* shutdown as well: batch and batchIDs are local and nobody else flushes them.
NoBatchDropped ==
  [][\A w \in Workers :
       batch[w] # <<>> /\ batch'[w] = <<>> /\ pc[w] # "insert" /\ phase' # "down" =>
         Range(batch[w]) \subseteq stored']_vars

\* Every acknowledged log is inserted sooner or later, whatever fails in
\* between, unless the stream drops it.
EventuallyStored ==
  \A e \in Entries : e \in accepted ~> (e \in stored \/ e < first)

\* Whatever was delivered to a worker is settled sooner or later, though the
\* worker that got it may never run again.
EventuallySettled == \A e \in Entries : pel[e] # NoOne ~> pel[e] = NoOne

\* The write path is an at-least-once delivery out of a bounded buffer: its
\* commands, inserts and failures are steps of LogDelivery or stutter.
Delivery == INSTANCE LogDelivery
  WITH Capacity <- MaxLen, pushed <- added, dropped <- 1..(first - 1),
       settled <- Settled
ImplementsDelivery == Delivery!Spec

\* 001_init.sql 9-10: deduplication makes inserting a log again idempotent.
\* It would have to hold of the rollup, too, which the stats are read from.
CountedOnce == \A e \in Entries : rollup[e] <= 1

-----------------------------------------------------------------------------
(* Fairness.  The process is restarted when it is down (docker-compose.yml *)
(* restart: unless-stopped); its goroutines, its requests and the clock    *)
(* go on; the ticker's case of a select is taken soon after the ticker     *)
(* fired; and an insert or an acknowledgement that is tried again and      *)
(* again succeeds at last.  The claim commands must not fail for ever: the *)
(* runs of FairSpec leave "claim" and "reply" out of Faults.               *)
Proceed(w) ==
  \/ SeeDone(w)
  \/ WaitOver(w)
  \/ BeginClaim(w)
  \/ ClaimStale(w)
  \/ ReadOwn(w)
  \/ ReadNew(w)
  \/ Broadcast(w)

Fairness ==
  /\ \A c \in Clients : WF_vars(PushEntry(c) \/ RespondAccepted(c) \/ PushFails(c))
  /\ \A w \in Workers :
       /\ WF_vars(Proceed(w))
       /\ SF_vars(Tick(w))
       /\ SF_vars(Insert(w))
       /\ SF_vars(Ack(w))
  /\ \A e \in Entries : WF_vars(Age(e))
  /\ WF_vars(Exit)
  /\ WF_vars(\E active \in SUBSET Workers \ {{}} : Start(active))

FairSpec == Spec /\ Fairness
=============================================================================
