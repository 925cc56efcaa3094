------------------------------ MODULE TailHub ------------------------------
(***************************************************************************)
(* The live tail inside observad: realtime.Hub (hub.go) fans logs out to   *)
(* subscribers under a sync.RWMutex, and handleTail (websocket.go) serves  *)
(* one websocket connection from one subscription.  Writer workers call    *)
(* Broadcast concurrently, each as a reader of the lock; subscribing and   *)
(* cancelling take it as a writer.                                         *)
(*                                                                         *)
(* A log is <<b, n>>, the n-th log that worker b has broadcast.            *)
(***************************************************************************)
EXTENDS Integers, Sequences, FiniteSets, Functions

CONSTANTS
  Workers,   \* the goroutines that call Broadcast
  Tails,     \* websocket connections that may exist at the same time
  Services, Levels,
  Empty,     \* an empty field of a filter
  Filters,   \* bound of the model: the filters that clients ask for
  Nobody,    \* no tail: the lock is free, no subscriber picked, no log held
  Capacity,  \* of a subscriber's channel (256)
  MaxBatch,  \* bound of the model: logs per Broadcast
  MaxLogs    \* bound of the model: logs that are broadcast

ASSUME TailAssumption ==
  /\ Empty \notin Services \cup Levels
  /\ Filters \subseteq [service : Services \cup {Empty}, level : Levels \cup {Empty}]
  /\ Nobody \notin Tails
  /\ Nobody \notin Workers \X Nat
  /\ Capacity \in Nat \ {0}
  /\ MaxBatch \in Nat \ {0}
  /\ MaxLogs \in Nat

VARIABLES
  readers,   \* workers that hold the lock for reading
  queued,    \* workers that wait because a writer has called Lock
  writer,    \* the tail that has called Lock, holds it once readers = {}
  subs,      \* tails in Hub.subs
  open,      \* tails whose channel is not closed
  chan,      \* the channel's content
  filter,    \* the subscription's filter
  out,       \* logs handed to Broadcast so far
  pos,       \* how many of them are dealt with
  visited,   \* subscribers the current log has been offered to
  target,    \* the subscriber range has picked, before the send
  handler,   \* where handleTail is
  holding,   \* the log WriteJSON is writing
  peer,      \* tails whose client is still there
  since,     \* pos of every worker when the tail subscribed
  got,       \* logs written to the client
  missed     \* logs dropped because the channel was full

lockVars == <<readers, queued, writer>>
subVars == <<subs, open, filter, since>>
castVars == <<out, pos, visited, target>>
connVars == <<handler, holding, peer, got>>
vars == <<lockVars, subVars, chan, castVars, connVars, missed>>

Kinds == [service : Services, level : Levels]
NoFilter == [service |-> Empty, level |-> Empty]

\* Filter.allows
Allows(f, kind) ==
  /\ f.service \in {Empty, kind.service}
  /\ f.level \in {Empty, kind.level}

Casting(b) == pos[b] < Len(out[b])
Current(b) == <<b, pos[b] + 1>>
KindOf(l) == out[l[1]][l[2]]

\* Every log broadcast so far.
Out == UNION {{b} \X DOMAIN out[b] : b \in Workers}

Init ==
  /\ readers = {} /\ queued = {} /\ writer = Nobody
  /\ subs = {} /\ open = {}
  /\ chan = [t \in Tails |-> <<>>]
  /\ filter = [t \in Tails |-> NoFilter]
  /\ out = [b \in Workers |-> <<>>]
  /\ pos = [b \in Workers |-> 0]
  /\ visited = [b \in Workers |-> {}]
  /\ target = [b \in Workers |-> Nobody]
  /\ handler = [t \in Tails |-> "none"]
  /\ holding = [t \in Tails |-> Nobody]
  /\ peer = {}
  /\ since = [t \in Tails |-> pos]
  /\ got = [t \in Tails |-> <<>>]
  /\ missed = [t \in Tails |-> {}]

-----------------------------------------------------------------------------
(* sync.RWMutex: Lock keeps new readers out and waits for those inside;    *)
(* Unlock lets in the readers that came meanwhile.                         *)

RLock(b) ==
  /\ IF writer = Nobody
     THEN readers' = readers \cup {b} /\ UNCHANGED queued
     ELSE queued' = queued \cup {b} /\ UNCHANGED readers
  /\ UNCHANGED writer

RUnlock(b) ==
  /\ readers' = readers \ {b}
  /\ UNCHANGED <<queued, writer>>

Holds(t) == writer = t /\ readers = {}

Unlock ==
  /\ writer' = Nobody
  /\ readers' = queued
  /\ queued' = {}

-----------------------------------------------------------------------------
(* Hub.Broadcast.                                                          *)

Broadcast(b, batch) ==
  /\ ~Casting(b)
  /\ Cardinality(Out) + Len(batch) <= MaxLogs
  /\ out' = [out EXCEPT ![b] = @ \o batch]
  /\ RLock(b)
  /\ UNCHANGED <<subVars, chan, pos, visited, target, connVars, missed>>

\* range h.subs yields its subscribers in any order.
Pick(b, t) ==
  /\ b \in readers
  /\ target[b] = Nobody
  /\ t \in subs \ visited[b]
  /\ target' = [target EXCEPT ![b] = t]
  /\ UNCHANGED <<lockVars, subVars, chan, out, pos, visited, connVars, missed>>

\* Mutant of Send: a full channel blocks the sender.
SendBlocks(b) ==
  LET t == target[b]
  IN  /\ t # Nobody
      /\ \/ /\ ~Allows(filter[t], KindOf(Current(b)))
            /\ UNCHANGED chan
         \/ /\ Len(chan[t]) < Capacity
            /\ chan' = [chan EXCEPT ![t] = Append(@, Current(b))]
      /\ visited' = [visited EXCEPT ![b] = @ \cup {t}]
      /\ target' = [target EXCEPT ![b] = Nobody]
      /\ UNCHANGED <<lockVars, subVars, missed, out, pos, connVars>>

\* Mutant of Send: a full channel ends the broadcast.
SendGivesUp(b) ==
  /\ target[b] # Nobody
  /\ target' = [target EXCEPT ![b] = Nobody]
  /\ IF Len(chan[target[b]]) < Capacity
     THEN /\ chan' = [chan EXCEPT ![target[b]] = Append(@, Current(b))]
          /\ visited' = [visited EXCEPT ![b] = @ \cup {target[b]}]
          /\ UNCHANGED <<lockVars, pos, missed>>
     ELSE /\ missed' = [missed EXCEPT ![target[b]] = @ \cup {Current(b)}]
          /\ visited' = [visited EXCEPT ![b] = {}]
          /\ pos' = [pos EXCEPT ![b] = Len(out[b])]
          /\ RUnlock(b)
          /\ UNCHANGED chan
  /\ UNCHANGED <<subVars, out, connVars>>

\* A log the filter rejects is passed over, one for which the channel has no
\* room is dropped.
Send(b) ==
  LET t == target[b]
      l == Current(b)
  IN  /\ t # Nobody
      /\ IF ~Allows(filter[t], KindOf(l)) THEN UNCHANGED <<chan, missed>>
         ELSE IF Len(chan[t]) < Capacity
         THEN chan' = [chan EXCEPT ![t] = Append(@, l)] /\ UNCHANGED missed
         ELSE missed' = [missed EXCEPT ![t] = @ \cup {l}] /\ UNCHANGED chan
      /\ visited' = [visited EXCEPT ![b] = @ \cup {t}]
      /\ target' = [target EXCEPT ![b] = Nobody]
      /\ UNCHANGED <<lockVars, subVars, out, pos, connVars>>

\* Mutant of NextLog: RUnlock is forgotten.
NextLogLocked(b) ==
  /\ b \in readers
  /\ target[b] = Nobody
  /\ subs \subseteq visited[b]
  /\ pos' = [pos EXCEPT ![b] = @ + 1]
  /\ visited' = [visited EXCEPT ![b] = {}]
  /\ UNCHANGED <<lockVars, subVars, chan, out, target, connVars, missed>>

\* On to the next log, or out of the critical section after the last.
NextLog(b) ==
  /\ b \in readers
  /\ target[b] = Nobody
  /\ subs \subseteq visited[b]
  /\ pos' = [pos EXCEPT ![b] = @ + 1]
  /\ visited' = [visited EXCEPT ![b] = {}]
  /\ IF pos'[b] = Len(out[b]) THEN RUnlock(b) ELSE UNCHANGED lockVars
  /\ UNCHANGED <<subVars, chan, out, target, connVars, missed>>

-----------------------------------------------------------------------------
(* Hub.Subscribe and the function it returns.                              *)

Lock(t) ==
  /\ handler[t] \in {"subscribe", "cancel"}
  /\ writer = Nobody
  /\ writer' = t
  /\ UNCHANGED <<readers, queued, subVars, chan, castVars, connVars, missed>>

Subscribe(t) ==
  /\ Holds(t)
  /\ handler[t] = "subscribe"
  /\ subs' = subs \cup {t}
  /\ open' = open \cup {t}
  /\ chan' = [chan EXCEPT ![t] = <<>>]
  /\ since' = [since EXCEPT ![t] = pos]
  /\ missed' = [missed EXCEPT ![t] = {}]
  /\ handler' = [handler EXCEPT ![t] = "select"]
  /\ Unlock
  /\ UNCHANGED <<filter, castVars, holding, peer, got>>

\* Mutant of Unsubscribe: it does not take the lock.
UnsubscribeUnlocked(t) ==
  /\ handler[t] = "cancel"
  /\ subs' = subs \ {t}
  /\ open' = open \ {t}
  /\ handler' = [handler EXCEPT ![t] = "none"]
  /\ peer' = peer \ {t}
  /\ UNCHANGED <<lockVars, filter, since, chan, castVars, holding, got, missed>>

\* The deferred cancel, then conn.Close.
Unsubscribe(t) ==
  /\ Holds(t)
  /\ handler[t] = "cancel"
  /\ subs' = subs \ {t}
  /\ open' = open \ {t}
  /\ handler' = [handler EXCEPT ![t] = "none"]
  /\ peer' = peer \ {t}
  /\ Unlock
  /\ UNCHANGED <<filter, since, chan, castVars, holding, got, missed>>

-----------------------------------------------------------------------------
(* handleTail.                                                             *)

\* A client passes checkAPIKey and the upgrade.
Dial(t, f) ==
  /\ handler[t] = "none"
  /\ handler' = [handler EXCEPT ![t] = "subscribe"]
  /\ filter' = [filter EXCEPT ![t] = f]
  /\ peer' = peer \cup {t}
  /\ got' = [got EXCEPT ![t] = <<>>]
  /\ UNCHANGED <<lockVars, subs, open, since, chan, castVars, holding, missed>>

\* The client goes away: ReadMessage fails and closes the channel "closed".
HangUp(t) ==
  /\ t \in peer
  /\ peer' = peer \ {t}
  /\ UNCHANGED <<lockVars, subVars, chan, castVars, handler, holding, got, missed>>

\* Mutant of SeeClosed: cancel is not deferred.
SeeClosedNoCancel(t) ==
  /\ handler[t] = "select"
  /\ t \notin peer
  /\ handler' = [handler EXCEPT ![t] = "none"]
  /\ UNCHANGED <<lockVars, subVars, chan, castVars, holding, peer, got, missed>>

SeeClosed(t) ==
  /\ handler[t] = "select"
  /\ t \notin peer
  /\ handler' = [handler EXCEPT ![t] = "cancel"]
  /\ UNCHANGED <<lockVars, subVars, chan, castVars, holding, peer, got, missed>>

Receive(t) ==
  /\ handler[t] = "select"
  /\ chan[t] # <<>>
  /\ chan' = [chan EXCEPT ![t] = Tail(@)]
  /\ holding' = [holding EXCEPT ![t] = Head(chan[t])]
  /\ handler' = [handler EXCEPT ![t] = "write"]
  /\ UNCHANGED <<lockVars, subVars, castVars, peer, got, missed>>

Ping(t) ==
  /\ handler[t] = "select"
  /\ handler' = [handler EXCEPT ![t] = "write"]
  /\ UNCHANGED <<lockVars, subVars, chan, castVars, holding, peer, got, missed>>

\* A write returns, wherever the client is: the kernel buffers it.
WriteDone(t) ==
  /\ handler[t] = "write"
  /\ got' = IF holding[t] = Nobody THEN got
            ELSE [got EXCEPT ![t] = Append(@, holding[t])]
  /\ holding' = [holding EXCEPT ![t] = Nobody]
  /\ handler' = [handler EXCEPT ![t] = "select"]
  /\ UNCHANGED <<lockVars, subVars, chan, castVars, peer, missed>>

\* Mutant of WriteFails: the log goes back into the channel.
WriteRetries(t) ==
  /\ handler[t] = "write"
  /\ chan' = IF holding[t] = Nobody THEN chan
             ELSE [chan EXCEPT ![t] = Append(@, holding[t])]
  /\ holding' = [holding EXCEPT ![t] = Nobody]
  /\ handler' = [handler EXCEPT ![t] = "select"]
  /\ UNCHANGED <<lockVars, subVars, castVars, peer, got, missed>>

\* The connection is broken, or the client has read nothing for wsWriteWait.
WriteFails(t) ==
  /\ handler[t] = "write"
  /\ holding' = [holding EXCEPT ![t] = Nobody]
  /\ handler' = [handler EXCEPT ![t] = "cancel"]
  /\ UNCHANGED <<lockVars, subVars, chan, castVars, peer, got, missed>>

-----------------------------------------------------------------------------
Batches == UNION {[1..n -> Kinds] : n \in 1..MaxBatch}

Cast(b) ==
  \/ \E batch \in Batches : Broadcast(b, batch)
  \/ \E t \in Tails : Pick(b, t)
  \/ Send(b)
  \/ NextLog(b)

Serve(t) ==
  \/ \E f \in Filters : Dial(t, f)
  \/ Lock(t)
  \/ Subscribe(t)
  \/ Unsubscribe(t)
  \/ HangUp(t)
  \/ SeeClosed(t)
  \/ Receive(t)
  \/ Ping(t)
  \/ WriteDone(t)
  \/ WriteFails(t)

Next == (\E b \in Workers : Cast(b)) \/ (\E t \in Tails : Serve(t))

Spec == Init /\ [][Next]_vars
-----------------------------------------------------------------------------
(* Properties.                                                             *)

Logs == Workers \X (1..MaxLogs)

TypeOK ==
  /\ readers \subseteq Workers
  /\ queued \subseteq Workers
  /\ writer \in Tails \cup {Nobody}
  /\ subs \subseteq Tails
  /\ open \subseteq Tails
  /\ chan \in [Tails -> Seq(Logs)]
  /\ filter \in [Tails -> Filters \cup {NoFilter}]
  /\ out \in [Workers -> Seq(Kinds)]
  /\ pos \in [Workers -> 0..MaxLogs]
  /\ visited \in [Workers -> SUBSET Tails]
  /\ target \in [Workers -> Tails \cup {Nobody}]
  /\ handler \in [Tails -> {"none", "subscribe", "select", "write", "cancel"}]
  /\ holding \in [Tails -> Logs \cup {Nobody}]
  /\ peer \subseteq Tails
  /\ since \in [Tails -> [Workers -> 0..MaxLogs]]
  /\ got \in [Tails -> Seq(Logs)]
  /\ missed \in [Tails -> SUBSET Logs]

\* Broadcast never sends on a closed channel, which would panic and take the
\* process down: the lock keeps cancel out between range and send.
NoSendOnClosed == \A b \in Workers : target[b] # Nobody => target[b] \in open

\* What a tail has got, is being written and has queued, in that order.
Stream(t) ==
  got[t] \o (IF holding[t] = Nobody THEN <<>> ELSE <<holding[t]>>) \o chan[t]

\* A client sees the logs of a worker in the order the worker stored them,
\* none twice, whatever other workers broadcast in between.
InOrder ==
  \A t \in subs :
    LET s == Stream(t)
    IN  \A i, j \in DOMAIN s : i < j /\ s[i][1] = s[j][1] => s[i][2] < s[j][2]

\* While it is served a subscriber misses only what its own channel had no
\* room for: a slow one costs the others nothing.
NothingSkipped ==
  \A t \in subs, b \in Workers : handler[t] # "cancel" =>
    \A n \in (since[t][b] + 1)..pos[b] :
      Allows(filter[t], out[b][n]) =>
        <<b, n>> \in Range(Stream(t)) \cup missed[t]

\* hub.go 64: Broadcast drops messages for slow subscribers instead of
\* blocking.  It returns though no client ever reads.
BroadcastReturns == \A b \in Workers : Casting(b) ~> ~Casting(b)

-----------------------------------------------------------------------------
(* Fairness.  A goroutine that can run does, and the one that has called   *)
(* Lock is next: RWMutex lets no reader past it.  That is all Broadcast    *)
(* needs.  Handlers need more: each gets the lock though others compete (a *)
(* mutex in starvation mode is first come, first served), a write ends (it *)
(* has a deadline), and select picks a ready case sooner or later.         *)
HubFairness ==
  /\ \A b \in Workers :
       WF_vars((\E t \in Tails : Pick(b, t)) \/ Send(b) \/ NextLog(b))
  /\ \A t \in Tails : WF_vars(Subscribe(t) \/ Unsubscribe(t))

HandlerFairness(t) ==
  /\ SF_vars(Lock(t))
  /\ WF_vars(WriteDone(t) \/ WriteFails(t))
  /\ SF_vars(SeeClosed(t))

HubSpec == Spec /\ HubFairness

\* The subscription of a client that went away does not stay behind, whatever
\* other clients and their handlers do.
Unsubscribed ==
  \A t \in Tails :
    HandlerFairness(t) => ((t \in subs /\ t \notin peer) ~> t \notin subs)
=============================================================================
