--------------------------- MODULE OneHolderProofs ---------------------------
(***************************************************************************)
(* Two more theorems about IngestPipeline: as long as no worker is slow,   *)
(* no entry is in the hands of two workers, and a batch is not dropped.    *)
(***************************************************************************)
EXTENDS IngestPipelineProofs

-----------------------------------------------------------------------------
(* Hands.                                                                  *)

\* Only what was delivered waits, and so can become stale.
StaleInv == \A e \in stale : e <= delivered

\* What a worker holds is pending for it or settled, and not yet stale.
Holding ==
  \A w \in Workers : \A e \in Held(w) :
    /\ e <= delivered
    /\ pel[e] \in {w, NoOne}
    /\ e \notin stale

\* What is in a worker's hands are entries.
LEMMA HeldType ==
  ASSUME TypeOK, NEW w \in Workers
  PROVE  Held(w) \subseteq Entries
<1>1. batchIDs[w] \in Seq(Entries) /\ ids[w] \in Seq(Entries)
  BY DEF TypeOK
<1> QED BY <1>1, RangeType DEF Held

\* A worker that keeps or empties its hands holds nothing new.
LEMMA KeptHeld ==
  ASSUME NEW v \in Workers, KeepHand(v)
  PROVE  Held(v)' \subseteq Held(v)
  BY RangeEmpty DEF KeepHand, Held

\* Collect adds to the caller's hands what the command has replied with.
LEMMA CollectHeld ==
  ASSUME TypeOK, TypeOK', NEW w \in Workers, NEW l, NEW i \in Seq(Entries),
         NEW next, Collect(w, l, i, next)
  PROVE  /\ Held(w)' \subseteq Held(w) \cup Range(i)
         /\ \A v \in Workers \ {w} : Held(v)' = Held(v)
<1> DEFINE ii == ids[w] \o i
           ll == logs[w] \o l
<1>1. batchIDs \in [Workers -> Seq(Entries)] /\ ids \in [Workers -> Seq(Entries)]
  BY DEF TypeOK
<1>2. ii \in Seq(Entries) /\ Range(ii) = Range(ids[w]) \cup Range(i)
  BY <1>1, RangeConcat
<1> HIDE DEF ii, ll
<1>3. Range(batchIDs[w] \o ii) = Range(batchIDs[w]) \cup Range(ii)
  <2>1. batchIDs[w] \in Seq(Entries)
    BY <1>1
  <2> QED BY <2>1, <1>2, RangeConcat
<1>4. \/ EndClaim(w, ll, ii)
      \/ AbandonClaim(w)
      \/ ids' = [ids EXCEPT ![w] = ii] /\ UNCHANGED batchIDs
  BY DEF Collect, batchVars, ii, ll
<1>5. /\ \/ batchIDs' = batchIDs
         \/ batchIDs' = [batchIDs EXCEPT ![w] = @ \o ii]
      /\ \/ ids' = [ids EXCEPT ![w] = <<>>]
         \/ ids' = [ids EXCEPT ![w] = ii]
  BY <1>4 DEF EndClaim, AbandonClaim, DropClaim, batchVars
<1>6. /\ batchIDs'[w] \in {batchIDs[w], batchIDs[w] \o ii}
      /\ ids'[w] \in {<<>>, ii}
      /\ \A v \in Workers \ {w} : batchIDs'[v] = batchIDs[v] /\ ids'[v] = ids[v]
  BY <1>1, <1>5
<1> QED BY <1>2, <1>3, <1>6, RangeEmpty DEF Held

\* A step that is no claim leaves nobody with more than he had.
LEMMA OthersHeld ==
  ASSUME TypeOK, [Next]_vars,
         \A w \in Workers : ~ClaimStale(w) /\ ~ReadOwn(w) /\ ~ReadNew(w),
         NEW v \in Workers
  PROVE  Held(v)' \subseteq Held(v)
<1> USE DEF apiVars, claimVars, batchVars
<1>1. ASSUME NEW w \in Workers, Work(w) PROVE KeepHand(v)
  <2> USE DEF KeepHand
  <2>1. CASE SeeDone(w) \/ Tick(w) \/ WaitOver(w) \/ BeginClaim(w) \/ Insert(w) \/ Ack(w)
    BY <2>1 DEF SeeDone, Tick, WaitOver, BeginClaim, Insert, Ack
  <2>2. CASE ClaimFails(w)
    BY <2>2 DEF ClaimFails, AbandonClaim, DropClaim, TypeOK
  <2>3. CASE ReplyLost(w)
    BY <2>3 DEF ReplyLost, AbandonClaim, DropClaim, TypeOK
  <2>4. CASE InsertFails(w) \/ AckFails(w) \/ Broadcast(w)
    BY <2>4 DEF InsertFails, AckFails, Broadcast, EndFlush, TypeOK
  <2> QED BY <1>1, <2>1, <2>2, <2>3, <2>4 DEF Work
<1>2. ASSUME NEW c \in Clients, Ingest(c) PROVE KeepHand(v)
  BY <1>2 DEF Ingest, StartIngest, PushEntry, RespondAccepted, PushFails,
              PushRetry, EndRequest, KeepHand
<1>3. ASSUME NEW e \in Entries, Age(e) PROVE KeepHand(v)
  BY <1>3 DEF Age, KeepHand
<1>4. ASSUME NEW active \in SUBSET Workers, Start(active) PROVE KeepHand(v)
  BY <1>4 DEF Start, KeepHand
<1>5. ASSUME Signal \/ Exit \/ Crash \/ UNCHANGED vars PROVE KeepHand(v)
  BY <1>5 DEF Signal, Exit, Crash, vars, KeepHand
<1> QED BY <1>1, <1>2, <1>3, <1>4, <1>5, KeptHeld DEF Next

-----------------------------------------------------------------------------
(* The stream.                                                             *)

\* XAUTOCLAIM takes what the stream has dropped and what is stale.
LEMMA DueAged ==
  ASSUME NEW count, NEW due \in DueReplies(count)
  PROVE  \A e \in due : e < first \/ e \in stale
<1>1. PICK scanned \in Lowest(Pending, ScanFactor * count) :
        due \in Lowest({e \in scanned : e < first \/ e \in stale}, count)
  BY DEF DueReplies
<1> QED BY <1>1 DEF Lowest

\* Without slow workers nothing that is held becomes stale.
LEMMA NewlyStale ==
  ASSUME [Next]_vars, "slow" \notin Faults, NEW e \in stale' \ stale,
         NEW w \in Workers
  PROVE  e \notin Held(w)
<1> USE DEF redisVars
<1>1. ASSUME NEW v \in Workers, Work(v) PROVE stale' \subseteq stale
  BY <1>1 DEF Work, SeeDone, Tick, WaitOver, BeginClaim, ClaimStale, ReadOwn,
              ReadNew, ClaimFails, ReplyLost, Insert, InsertFails, Ack, AckFails,
              Broadcast, XAutoClaim, XReadOwn, XReadNew, XAck
<1>2. ASSUME NEW c \in Clients, Ingest(c) PROVE stale' \subseteq stale
  BY <1>2 DEF Ingest, StartIngest, PushEntry, RespondAccepted, PushFails,
              PushRetry, EndRequest, XAdd
<1>3. ASSUME NEW active \in SUBSET Workers, Start(active) PROVE stale' = stale
  BY <1>3 DEF Start
<1>4. ASSUME Signal \/ Exit \/ Crash \/ UNCHANGED vars PROVE stale' = stale
  BY <1>4 DEF Signal, Exit, Crash, vars
<1>5. ~(stale' \subseteq stale)
  OBVIOUS
<1>6. PICK f \in Entries : Age(f)
  BY <1>1, <1>2, <1>3, <1>4, <1>5 DEF Next
<1>7. stale' = stale \cup {f} /\ \A v \in Workers : f \notin Held(v)
  BY <1>6 DEF Age, GrowStale
<1> QED BY <1>7

\* What a worker holds stays pending for it, or is settled, in every step.
LEMMA HeldStays ==
  ASSUME TypeOK, TypeOK', StreamInv, Holding, [Next]_vars, "slow" \notin Faults,
         NEW w \in Workers, NEW e \in Held(w)
  PROVE  e <= delivered' /\ pel'[e] \in {w, NoOne} /\ e \notin stale'
<1>1. e \in Entries /\ e \in Int
  BY HeldType DEF Entries
<1>2. e <= delivered /\ pel[e] \in {w, NoOne} /\ e \notin stale
  BY DEF Holding
<1>3. e \notin stale'
  BY <1>2, NewlyStale
<1>4. StreamStep
  BY NextStreamStep
<1>5. delivered \in Int /\ delivered' \in Int /\ delivered' >= delivered
  <2>1. delivered' >= delivered
    BY <1>4, StreamForward
  <2> QED BY <2>1 DEF TypeOK
<1>6. ASSUME NEW v \in Workers, NEW due \in DueReplies(Want(v)), XAutoClaim(v, due)
      PROVE  pel'[e] \in {w, NoOne}
  BY <1>1, <1>2, <1>6, DueAged DEF XAutoClaim
<1>7. ASSUME NEW v \in Workers, NEW new \in NewReplies(Remaining(v)), XReadNew(v, new)
      PROVE  pel'[e] \in {w, NoOne}
  <2>1. e \notin new
    <3>1. \A x \in new : x > delivered
      BY ReplyType
    <3> QED BY <3>1, <1>1, <1>2, <1>5
  <2> QED BY <2>1, <1>1, <1>2, <1>7 DEF XReadNew
<1>8. ASSUME NEW acked, XAck(acked) PROVE pel'[e] \in {w, NoOne}
  BY <1>1, <1>2, <1>8 DEF XAck
<1>9. ASSUME UNCHANGED pel PROVE pel'[e] \in {w, NoOne}
  BY <1>2, <1>9
<1>10. pel'[e] \in {w, NoOne}
  BY <1>4, <1>6, <1>7, <1>8, <1>9 DEF StreamStep, redisVars, XAdd, XReadOwn, GrowStale
<1> QED BY <1>1, <1>2, <1>3, <1>5, <1>10

-----------------------------------------------------------------------------
(* One holder.                                                             *)

\* A claim adds to the hands of w only what nobody else holds.
LEMMA ClaimKeeps ==
  ASSUME TypeOK, TypeOK', StreamInv, Holding, OneHolder, [Next]_vars,
         "slow" \notin Faults, NEW w \in Workers, NEW T \in SUBSET Entries,
         Held(w)' \subseteq Held(w) \cup T,
         \A v \in Workers \ {w} : Held(v)' \subseteq Held(v),
         \A e \in T : /\ e <= delivered' /\ pel'[e] \in {w, NoOne} /\ e \notin stale'
                      /\ \A v \in Workers \ {w} : e \notin Held(v)
  PROVE  Holding' /\ OneHolder'
<1>1. Holding'
  <2> SUFFICES ASSUME NEW v \in Workers, NEW e \in Held(v)'
               PROVE  e <= delivered' /\ pel'[e] \in {v, NoOne} /\ e \notin stale'
    BY DEF Holding
  <2>1. CASE e \in Held(v)
    BY <2>1, HeldStays
  <2>2. CASE e \notin Held(v)
    BY <2>2
  <2> QED BY <2>1, <2>2
<1>2. OneHolder'
  <2> SUFFICES ASSUME NEW u \in Workers, NEW v \in Workers, u # v,
                      NEW e, e \in Held(u)', e \in Held(v)'
               PROVE  FALSE
    BY DEF OneHolder
  <2>1. e \notin Held(u) \/ e \notin Held(v)
    BY DEF OneHolder
  <2> QED BY <2>1
<1> QED BY <1>1, <1>2

\* Every step keeps the entries of a worker its own.
LEMMA HoldingNext ==
  ASSUME TypeOK, TypeOK', StreamInv, StaleInv, Holding, OneHolder, [Next]_vars,
         "slow" \notin Faults
  PROVE  Holding' /\ OneHolder'
<1>1. ASSUME NEW w \in Workers, ClaimStale(w) PROVE Holding' /\ OneHolder'
  <2>1. PICK due \in DueReplies(Want(w)) :
          /\ XAutoClaim(w, due)
          /\ \E l \in Ascending(Live(due)) : Collect(w, l, l, "own")
    BY <1>1 DEF ClaimStale
  <2>2. PICK l \in Ascending(Live(due)) : Collect(w, l, l, "own")
    BY <2>1
  <2>3. due \subseteq Pending /\ Live(due) \in SUBSET Entries
    BY ReplyType DEF Live
  <2>4. l \in Seq(Entries) /\ Range(l) = Live(due)
    BY <2>3, AscendingType
  <2>5. /\ Held(w)' \subseteq Held(w) \cup Live(due)
        /\ \A v \in Workers \ {w} : Held(v)' \subseteq Held(v)
    BY <2>2, <2>4, CollectHeld
  <2>6. ASSUME NEW e \in Live(due)
        PROVE  /\ e <= delivered' /\ pel'[e] \in {w, NoOne} /\ e \notin stale'
               /\ \A v \in Workers \ {w} : e \notin Held(v)
    <3>1. e \in due /\ e >= first /\ e \in Entries
      BY <2>3 DEF Live
    <3>2. e \in Int /\ first \in Int
      BY <3>1 DEF Entries, TypeOK
    <3>3. e \in stale
      BY <3>1, <3>2, DueAged
    <3> QED BY <2>1, <2>3, <3>1, <3>2, <3>3 DEF XAutoClaim, Pending, StreamInv, Holding
  <2> QED BY <2>3, <2>5, <2>6, ClaimKeeps
<1>2. ASSUME NEW w \in Workers, ReadOwn(w) PROVE Holding' /\ OneHolder'
  <2>1. PICK own \in OwnReplies(w, Remaining(w)) :
          /\ XReadOwn(own)
          /\ \E l \in Ascending(Live(own)), i \in Ascending(own) :
               Collect(w, l, i, "new")
    BY <1>2 DEF ReadOwn
  <2>2. PICK l \in Ascending(Live(own)), i \in Ascending(own) : Collect(w, l, i, "new")
    BY <2>1
  <2>3. own \subseteq Pending /\ own \in SUBSET Entries
    BY ReplyType
  <2>4. i \in Seq(Entries) /\ Range(i) = own
    BY <2>3, AscendingType
  <2>5. /\ Held(w)' \subseteq Held(w) \cup own
        /\ \A v \in Workers \ {w} : Held(v)' \subseteq Held(v)
    BY <2>2, <2>4, CollectHeld
  <2>6. \A e \in own : pel[e] = w /\ e \in Entries
    BY <2>3 DEF OwnReplies, Lowest
  <2>7. ASSUME NEW e \in own
        PROVE  /\ e <= delivered' /\ pel'[e] \in {w, NoOne} /\ e \notin stale'
               /\ \A v \in Workers \ {w} : e \notin Held(v)
    <3>1. pel[e] = w /\ e \in Entries /\ w # NoOne
      BY <2>6, StreamAssumption
    <3> QED BY <2>1, <3>1 DEF XReadOwn, StreamInv, Holding
  <2> QED BY <2>3, <2>5, <2>7, ClaimKeeps
<1>3. ASSUME NEW w \in Workers, ReadNew(w) PROVE Holding' /\ OneHolder'
  <2>1. PICK new \in NewReplies(Remaining(w)) :
          XReadNew(w, new) /\ \E l \in Ascending(new) : Collect(w, l, l, "done")
    BY <1>3 DEF ReadNew
  <2>2. PICK l \in Ascending(new) : Collect(w, l, l, "done")
    BY <2>1
  <2>3. new \in SUBSET Entries /\ \A e \in new : e > delivered
    BY ReplyType
  <2>4. l \in Seq(Entries) /\ Range(l) = new
    BY <2>3, AscendingType
  <2>5. /\ Held(w)' \subseteq Held(w) \cup new
        /\ \A v \in Workers \ {w} : Held(v)' \subseteq Held(v)
    BY <2>2, <2>4, CollectHeld
  <2>6. ASSUME NEW e \in new
        PROVE  /\ e <= delivered' /\ pel'[e] \in {w, NoOne} /\ e \notin stale'
               /\ \A v \in Workers \ {w} : e \notin Held(v)
    <3>1. e \in Entries /\ e \in Int /\ delivered \in Int /\ e > delivered
      BY <2>3 DEF Entries, TypeOK
    <3>2. pel'[e] = w /\ e <= delivered' /\ stale' = stale
      BY <2>1, <3>1 DEF XReadNew
    <3>3. e \notin stale
      BY <3>1 DEF StaleInv
    <3> QED BY <3>1, <3>2, <3>3 DEF Holding
  <2> QED BY <2>3, <2>5, <2>6, ClaimKeeps
<1>4. CASE \A w \in Workers : ~ClaimStale(w) /\ ~ReadOwn(w) /\ ~ReadNew(w)
  <2>1. \A v \in Workers : Held(v)' \subseteq Held(v)
    BY <1>4, OthersHeld
  <2>2. Holding'
    BY <2>1, HeldStays DEF Holding
  <2>3. OneHolder'
    BY <2>1 DEF OneHolder
  <2> QED BY <2>2, <2>3
<1> QED BY <1>1, <1>2, <1>3, <1>4

\* What grows stale is pending, and what is pending was delivered.
LEMMA StaleNext ==
  ASSUME TypeOK, TypeOK', StreamInv, StaleInv, [Next]_vars
  PROVE  StaleInv'
<1>1. StreamStep
  BY NextStreamStep
<1>2. delivered \in Int /\ delivered' \in Int /\ delivered' >= delivered
  <2>1. delivered' >= delivered
    BY <1>1, StreamForward
  <2> QED BY <2>1 DEF TypeOK
<1>3. \A e \in stale' : e \in stale \/ e \in Pending
  BY <1>1 DEF StreamStep, redisVars, XAdd, XAutoClaim, XReadOwn, XReadNew, XAck,
              GrowStale, Live
<1>4. \A e \in stale' : e \in Int /\ e <= delivered
  BY <1>3 DEF Pending, StreamInv, StaleInv, TypeOK, Entries
<1> QED BY <1>2, <1>4 DEF StaleInv

\* Without slow workers no entry is in the hands of two of them: an entry is
\* delivered to one, and only what has been let go of is claimed again.
THEOREM Exclusive ==
  ASSUME "slow" \notin Faults
  PROVE  Spec => []OneHolder
<1> DEFINE Hands == StaleInv /\ Holding /\ OneHolder
<1>1. Init => Hands
  BY RangeEmpty DEF Init, RedisInit, StaleInv, Holding, OneHolder, Held
<1>2. IInv /\ IInv' /\ Hands /\ [Next]_vars => Hands'
  BY HoldingNext, StaleNext DEF IInv
<1>3. Hands => OneHolder
  OBVIOUS
<1> HIDE DEF Hands
<1> QED BY <1>1, <1>2, <1>3, InvCorrect, PTL DEF Spec

-----------------------------------------------------------------------------
(* No batch dropped.                                                       *)

\* What is appended to stays non-empty.
LEMMA ConcatNonEmpty ==
  ASSUME NEW s \in Seq(Entries), NEW t \in Seq(Entries), s # <<>>
  PROVE  s \o t # <<>>
<1>1. Len(s) \in Nat /\ Len(t) \in Nat /\ Len(s) # 0
  BY LenEmpty
<1>2. Len(s \o t) = Len(s) + Len(t) /\ s \o t \in Seq(Entries)
  OBVIOUS
<1> QED BY <1>1, <1>2, LenEmpty

\* A step of a worker that empties a batch without a crash has inserted it.
LEMMA NoBatchDroppedNext ==
  ASSUME TypeOK, FlushInv, [Next]_vars, phase' # "down",
         NEW w \in Workers, batch[w] # <<>>, batch'[w] = <<>>, pc[w] # "insert"
  PROVE  Range(batch[w]) \subseteq stored'
<1> USE DEF batchVars
<1>1. ASSUME NEW v \in Workers, Work(v)
      PROVE  pc[w] \in {"ack", "tail"}
  <2>1. CASE SeeDone(v) \/ Tick(v) \/ WaitOver(v) \/ BeginClaim(v) \/ Insert(v) \/ Ack(v)
    BY <2>1 DEF SeeDone, Tick, WaitOver, BeginClaim, Insert, Ack
  <2>2. CASE ClaimFails(v) \/ ReplyLost(v)
    BY <2>2 DEF ClaimFails, ReplyLost, AbandonClaim
  <2>3. CASE InsertFails(v) \/ AckFails(v) \/ Broadcast(v)
    BY <2>3 DEF InsertFails, AckFails, Broadcast, EndFlush, TypeOK
  <2>4. ASSUME NEW l \in Seq(Entries), NEW i, NEW next, Collect(v, l, i, next)
        PROVE  FALSE
    <3>1. \/ batch' = batch
          \/ batch' = [batch EXCEPT ![v] = @ \o (logs[v] \o l)]
      BY <2>4 DEF Collect, EndClaim, AbandonClaim
    <3>2. batch[w] \in Seq(Entries) /\ logs[v] \o l \in Seq(Entries)
      BY DEF TypeOK
    <3>3. batch[w] \o (logs[v] \o l) # <<>>
      BY <3>2, ConcatNonEmpty
    <3> QED BY <3>1, <3>3 DEF TypeOK
  <2>5. CASE ClaimStale(v) \/ ReadOwn(v) \/ ReadNew(v)
    <3>1. \E S \in SUBSET Entries : \E l \in Ascending(S) : \E i, next : Collect(v, l, i, next)
      BY <2>5, ReplyType DEF ClaimStale, ReadOwn, ReadNew, Live
    <3> QED BY <2>4, <3>1, AscendingType
  <2> QED BY <1>1, <2>1, <2>2, <2>3, <2>5 DEF Work
<1>2. ASSUME NEW c \in Clients, Ingest(c) PROVE batch' = batch
  BY <1>2 DEF Ingest, StartIngest, PushEntry, RespondAccepted, PushFails,
              PushRetry, EndRequest
<1>3. ASSUME NEW e \in Entries, Age(e) PROVE batch' = batch
  BY <1>3 DEF Age
<1>4. ASSUME NEW active \in SUBSET Workers, Start(active) PROVE batch' = batch
  BY <1>4 DEF Start
<1>5. ASSUME Signal \/ Exit \/ UNCHANGED vars PROVE batch' = batch
  BY <1>5 DEF Signal, Exit, vars
<1>6. ~Crash
  BY DEF Crash
<1>7. pc[w] \in {"ack", "tail"}
  BY <1>1, <1>2, <1>3, <1>4, <1>5, <1>6 DEF Next
<1>8. stored \subseteq stored'
  BY NextStoreStep DEF StoreStep, storeVars
<1> QED BY <1>7, <1>8 DEF FlushInv

\* A batch leaves a worker's hands only with its logs in the table, unless
\* the insert has failed or the process dies.
THEOREM NoDrop == Spec => NoBatchDropped
<1>1. IInv /\ [Next]_vars =>
        [\A w \in Workers :
           batch[w] # <<>> /\ batch'[w] = <<>> /\ pc[w] # "insert" /\ phase' # "down" =>
             Range(batch[w]) \subseteq stored']_vars
  BY NoBatchDroppedNext DEF IInv
<1> QED BY <1>1, InvCorrect, PTL DEF Spec, NoBatchDropped
=============================================================================
