------------------------ MODULE IngestPipelineProofs ------------------------
(***************************************************************************)
(* Theorems about IngestPipeline, for any number of workers, clients and   *)
(* entries, any batch size and stream length, and any faults.              *)
(***************************************************************************)
EXTENDS IngestPipeline, FiniteSetTheorems, SequenceTheorems, TLAPS

-----------------------------------------------------------------------------
(* Sequences and replies.                                                  *)

\* Concatenating two batches keeps the entries of both.
LEMMA RangeConcat ==
  ASSUME NEW S, NEW s \in Seq(S), NEW t \in Seq(S)
  PROVE  /\ s \o t \in Seq(S)
         /\ Len(s \o t) = Len(s) + Len(t)
         /\ Range(s \o t) = Range(s) \cup Range(t)
<1>1. s \o t \in Seq(S) /\ Len(s \o t) = Len(s) + Len(t)
  OBVIOUS
<1>2. Range(s \o t) \subseteq Range(s) \cup Range(t)
  <2> SUFFICES ASSUME NEW i \in 1..(Len(s) + Len(t))
               PROVE  (s \o t)[i] \in Range(s) \cup Range(t)
    BY <1>1 DEF Range
  <2>1. CASE i <= Len(s)
    BY <2>1 DEF Range
  <2>2. CASE i > Len(s)
    <3>1. (s \o t)[i] = t[i - Len(s)] /\ i - Len(s) \in 1..Len(t)
      BY <2>2
    <3> QED BY <3>1 DEF Range
  <2> QED BY <2>1, <2>2
<1>3. Range(s) \subseteq Range(s \o t)
  BY <1>1 DEF Range
<1>4. Range(t) \subseteq Range(s \o t)
  <2> SUFFICES ASSUME NEW i \in 1..Len(t)
               PROVE  t[i] \in Range(s \o t)
    BY DEF Range
  <2>1. Len(s) + i \in 1..Len(s \o t) /\ (s \o t)[Len(s) + i] = t[i]
    BY <1>1
  <2> QED BY <2>1, <1>1 DEF Range
<1> QED BY <1>1, <1>2, <1>3, <1>4

\* An empty batch has no entries.
LEMMA RangeEmpty == Range(<<>>) = {}
  BY DEF Range

\* The entries of a sequence are of the sequence's type.
LEMMA RangeType ==
  ASSUME NEW S, NEW s \in Seq(S)
  PROVE  Range(s) \subseteq S
  BY DEF Range

\* Sets of entries are finite.
LEMMA EntriesFinite ==
  ASSUME NEW S \in SUBSET Entries
  PROVE  IsFiniteSet(S) /\ Cardinality(S) \in Nat
<1>1. IsFiniteSet(Entries)
  BY FS_Interval, StreamAssumption DEF Entries
<1> QED BY <1>1, FS_Subset, FS_CardinalityType

\* What the enumeration of a reply is.
LEMMA AscendingType ==
  ASSUME NEW S \in SUBSET Entries, NEW s \in Ascending(S)
  PROVE  /\ s \in Seq(Entries)
         /\ Range(s) = S
         /\ Len(s) = Cardinality(S)
<1>1. Cardinality(S) \in Nat
  BY EntriesFinite
<1>2. s \in [1..Cardinality(S) -> S] /\ Range(s) = S
  BY DEF Ascending
<1>3. s \in Seq(S)
  BY <1>1, <1>2
<1> QED BY <1>1, <1>2, <1>3

\* What a reply contains.
LEMMA ReplyType ==
  /\ \A count : \A due \in DueReplies(count) :
       /\ due \subseteq Pending
       /\ due \in SUBSET Entries
       /\ Cardinality(due) <= count
  /\ \A w, count : \A own \in OwnReplies(w, count) :
       /\ own \subseteq Pending
       /\ own \in SUBSET Entries
       /\ Cardinality(own) <= count
  /\ \A count : \A new \in NewReplies(count) :
       /\ \A e \in new : e > delivered /\ e >= first /\ e <= added
       /\ \A e \in Entries \ new, x \in new :
            e > delivered /\ e >= first /\ e <= added => x < e
       /\ new \in SUBSET Entries
       /\ Cardinality(new) <= count
<1>1. \A S, k : \A F \in Lowest(S, k) :
        F \subseteq S /\ Cardinality(F) <= k /\ \A x \in F, y \in S \ F : x < y
  BY DEF Lowest
<1>2. Pending \subseteq Entries
  BY DEF Pending
<1>3. ASSUME NEW count, NEW due \in DueReplies(count)
      PROVE  /\ due \subseteq Pending
             /\ due \in SUBSET Entries
             /\ Cardinality(due) <= count
  <2>1. PICK scanned \in Lowest(Pending, ScanFactor * count) :
          due \in Lowest({e \in scanned : e < first \/ e \in stale}, count)
    BY DEF DueReplies
  <2>2. scanned \subseteq Pending
    BY <1>1
  <2>3. due \subseteq {e \in scanned : e < first \/ e \in stale}
        /\ Cardinality(due) <= count
    BY <1>1, <2>1
  <2> QED BY <1>2, <2>2, <2>3
<1>4. ASSUME NEW w, NEW count, NEW own \in OwnReplies(w, count)
      PROVE  /\ own \subseteq Pending
             /\ own \in SUBSET Entries
             /\ Cardinality(own) <= count
  <2>1. own \subseteq {e \in Pending : pel[e] = w} /\ Cardinality(own) <= count
    BY <1>1 DEF OwnReplies
  <2> QED BY <1>2, <2>1
<1>5. ASSUME NEW count, NEW new \in NewReplies(count)
      PROVE  /\ \A e \in new : e > delivered /\ e >= first /\ e <= added
             /\ \A e \in Entries \ new, x \in new :
                  e > delivered /\ e >= first /\ e <= added => x < e
             /\ new \in SUBSET Entries
             /\ Cardinality(new) <= count
  <2> DEFINE S == {e \in Entries : e > delivered /\ e >= first /\ e <= added}
  <2>1. /\ new \subseteq S
        /\ Cardinality(new) <= count
        /\ \A x \in new, y \in S \ new : x < y
    BY <1>1 DEF NewReplies
  <2> QED BY <2>1
<1> QED BY <1>3, <1>4, <1>5

\* A log of the batch occurs in it.
LEMMA Occurs ==
  ASSUME NEW s \in Seq(Entries), NEW e
  PROVE  /\ Occurrences(e, s) \in Nat
         /\ e \in Range(s) => Occurrences(e, s) >= 1
<1> DEFINE I == {i \in DOMAIN s : s[i] = e}
<1>1. IsFiniteSet(I) /\ Cardinality(I) \in Nat
  <2>1. IsFiniteSet(1..Len(s))
    BY FS_Interval
  <2> QED BY <2>1, FS_Subset, FS_CardinalityType
<1>2. ASSUME e \in Range(s) PROVE Cardinality(I) >= 1
  <2>1. I # {}
    BY <1>2 DEF Range
  <2> HIDE DEF I
  <2>2. Cardinality(I) # 0
    BY <2>1, <1>1, FS_EmptySet
  <2> QED BY <2>2, <1>1
<1> QED BY <1>1, <1>2 DEF Occurrences

\* Counting keeps the bound of the model, and counts.
LEMMA CountUpType ==
  ASSUME NEW n \in 0..MaxCount, NEW k \in Nat
  PROVE  /\ CountUp(n, k) \in 0..MaxCount
         /\ CountUp(n, k) >= n
         /\ k >= 1 => CountUp(n, k) >= 1
  BY PipelineAssumption DEF CountUp

-----------------------------------------------------------------------------
(* Types.                                                                  *)

\* Collect keeps the types of what a worker has in hand.
LEMMA CollectType ==
  ASSUME TypeOK, NEW w \in Workers, NEW l \in Seq(Entries),
         NEW i \in Seq(Entries), NEW next \in Commands \cup {"done"},
         Collect(w, l, i, next)
  PROVE  /\ pc' \in [Workers -> PCs]
         /\ after' \in [Workers -> {"loop", "stale", "exited"}]
         /\ batch' \in [Workers -> Seq(Entries)]
         /\ batchIDs' \in [Workers -> Seq(Entries)]
         /\ logs' \in [Workers -> Seq(Entries)]
         /\ ids' \in [Workers -> Seq(Entries)]
<1> DEFINE ll == logs[w] \o l
           ii == ids[w] \o i
<1>1. ll \in Seq(Entries) /\ ii \in Seq(Entries)
  BY RangeConcat DEF TypeOK
<1>2. batch[w] \o ll \in Seq(Entries) /\ batchIDs[w] \o ii \in Seq(Entries)
  BY <1>1, RangeConcat DEF TypeOK
<1>3. <<>> \in Seq(Entries)
  OBVIOUS
<1> HIDE DEF ll, ii
<1>4. CASE EndClaim(w, ll, ii)
  BY <1>2, <1>3, <1>4 DEF TypeOK, EndClaim, DropClaim, batchVars, PCs, Commands
<1>5. CASE AbandonClaim(w)
  BY <1>3, <1>5 DEF TypeOK, AbandonClaim, Flush, Goto, DropClaim, batchVars, PCs, Commands
<1>6. CASE /\ next # "done"
           /\ pc' = [pc EXCEPT ![w] = next]
           /\ logs' = [logs EXCEPT ![w] = ll]
           /\ ids' = [ids EXCEPT ![w] = ii]
           /\ UNCHANGED <<batchVars, after>>
  BY <1>1, <1>6 DEF TypeOK, batchVars, PCs, Commands
<1>7. \/ EndClaim(w, ll, ii)
      \/ AbandonClaim(w)
      \/ /\ next # "done"
         /\ pc' = [pc EXCEPT ![w] = next]
         /\ logs' = [logs EXCEPT ![w] = ll]
         /\ ids' = [ids EXCEPT ![w] = ii]
         /\ UNCHANGED <<batchVars, after>>
  BY DEF Collect, ll, ii
<1> QED BY <1>4, <1>5, <1>6, <1>7

\* The stream's commands keep the types of its variables.
RedisTypeOK ==
  /\ first \in Nat \ {0}
  /\ added \in 0..MaxEntries
  /\ delivered \in 0..MaxEntries
  /\ pel \in [Entries -> Workers \cup {NoOne}]
  /\ stale \subseteq Entries

\* Adding an entry keeps the types and returns an id of the stream.
LEMMA XAddType ==
  ASSUME RedisTypeOK, XAdd
  PROVE  RedisTypeOK' /\ added' \in Entries
<1>1. added' \in Entries /\ added' \in 0..MaxEntries
  BY StreamAssumption DEF RedisTypeOK, XAdd, Entries
<1>2. PICK f \in first..(added + 1) :
        first' = f /\ stale' = {e \in stale : e >= f}
  BY DEF XAdd
<1>3. first' \in Nat \ {0} /\ stale' \subseteq Entries
  BY <1>2 DEF RedisTypeOK
<1> QED BY <1>1, <1>3 DEF RedisTypeOK, XAdd

\* Delivering new entries keeps the types.
LEMMA XReadNewType ==
  ASSUME RedisTypeOK, NEW w \in Workers, NEW new \in SUBSET Entries,
         XReadNew(w, new)
  PROVE  RedisTypeOK'
<1>1. CASE new = {}
  BY <1>1 DEF RedisTypeOK, XReadNew
<1>2. CASE new # {}
  <2>1. delivered' \in new
    BY <1>2 DEF XReadNew
  <2>2. delivered' \in 0..MaxEntries
    BY <2>1, StreamAssumption DEF Entries
  <2> QED BY <2>2 DEF RedisTypeOK, XReadNew
<1> QED BY <1>1, <1>2

\* The types hold before observad is started for the first time.
LEMMA TypeInit == Init => TypeOK
<1> SUFFICES ASSUME Init PROVE TypeOK
  OBVIOUS
<1>1. <<>> \in Seq(Entries)
  OBVIOUS
<1> QED BY <1>1, StreamAssumption, PipelineAssumption
           DEF Init, RedisInit, TypeOK, PCs, Commands, Entries

\* Every action keeps the types.
LEMMA TypeNext == TypeOK /\ [Next]_vars => TypeOK'
<1> SUFFICES ASSUME TypeOK, [Next]_vars PROVE TypeOK'
  OBVIOUS
<1> USE DEF redisVars, apiVars, claimVars, batchVars, storeVars, procVars
<1>1. ASSUME NEW c \in Clients, Ingest(c) PROVE TypeOK'
  <2>1. ASSUME NEW n \in 1..MaxPush, StartIngest(c, n) PROVE TypeOK'
    BY <2>1, PipelineAssumption DEF TypeOK, StartIngest
  <2>2. CASE PushEntry(c)
    <3>1. RedisTypeOK' /\ added' \in Entries
      BY <2>2, XAddType DEF TypeOK, RedisTypeOK, PushEntry
    <3>2. sent' \in [Clients -> SUBSET Entries]
      BY <2>2, <3>1 DEF TypeOK, PushEntry
    <3> QED BY <2>2, <3>1, <3>2 DEF TypeOK, RedisTypeOK, PushEntry
  <2>3. CASE RespondAccepted(c)
    BY <2>3 DEF TypeOK, RespondAccepted, EndRequest
  <2>4. CASE PushFails(c)
    BY <2>4 DEF TypeOK, PushFails, EndRequest
  <2>5. CASE PushRetry(c)
    BY <2>5 DEF TypeOK, PushRetry
  <2> QED BY <1>1, <2>1, <2>2, <2>3, <2>4, <2>5 DEF Ingest
<1>2. ASSUME NEW w \in Workers, Work(w) PROVE TypeOK'
  <2> USE DEF PCs, Commands
  <2>0. <<>> \in Seq(Entries)
    OBVIOUS
  <2>1. CASE SeeDone(w)
    BY <2>1 DEF TypeOK, SeeDone, Flush, Goto
  <2>2. CASE Tick(w)
    BY <2>2 DEF TypeOK, Tick, Flush, Goto
  <2>3. CASE WaitOver(w)
    BY <2>3 DEF TypeOK, WaitOver
  <2>4. CASE BeginClaim(w)
    BY <2>4 DEF TypeOK, BeginClaim
  <2>5. CASE ClaimStale(w)
    <3>1. PICK due \in DueReplies(Want(w)) :
            /\ XAutoClaim(w, due)
            /\ \E l \in Ascending(Live(due)) : Collect(w, l, l, "own")
      BY <2>5 DEF ClaimStale
    <3>2. PICK l \in Ascending(Live(due)) : Collect(w, l, l, "own")
      BY <3>1
    <3>3. Live(due) \in SUBSET Entries /\ due \in SUBSET Entries
      BY ReplyType DEF Live
    <3>4. l \in Seq(Entries)
      BY <3>3, AscendingType
    <3>5. pel' \in [Entries -> Workers \cup {NoOne}] /\ stale' \subseteq Entries
          /\ UNCHANGED <<first, added, delivered>>
      BY <3>1 DEF TypeOK, XAutoClaim
    <3> QED BY <2>5, <3>2, <3>4, <3>5, CollectType DEF TypeOK, ClaimStale
  <2>6. CASE ReadOwn(w)
    <3>1. PICK own \in OwnReplies(w, Remaining(w)) :
            /\ XReadOwn(own)
            /\ \E l \in Ascending(Live(own)), i \in Ascending(own) :
                 Collect(w, l, i, "new")
      BY <2>6 DEF ReadOwn
    <3>2. PICK l \in Ascending(Live(own)), i \in Ascending(own) :
            Collect(w, l, i, "new")
      BY <3>1
    <3>3. Live(own) \in SUBSET Entries /\ own \in SUBSET Entries
      BY ReplyType DEF Live
    <3>4. l \in Seq(Entries) /\ i \in Seq(Entries)
      BY <3>3, AscendingType
    <3>5. stale' \subseteq Entries /\ UNCHANGED <<first, added, delivered, pel>>
      BY <3>1 DEF TypeOK, XReadOwn
    <3> QED BY <2>6, <3>2, <3>4, <3>5, CollectType DEF TypeOK, ReadOwn
  <2>7. CASE ReadNew(w)
    <3>1. PICK new \in NewReplies(Remaining(w)) :
            /\ XReadNew(w, new)
            /\ \E l \in Ascending(new) : Collect(w, l, l, "done")
      BY <2>7 DEF ReadNew
    <3>2. PICK l \in Ascending(new) : Collect(w, l, l, "done")
      BY <3>1
    <3>3. new \in SUBSET Entries
      BY ReplyType
    <3>4. l \in Seq(Entries)
      BY <3>3, AscendingType
    <3>5. RedisTypeOK'
      BY <3>1, <3>3, XReadNewType DEF TypeOK, RedisTypeOK
    <3> QED BY <2>7, <3>2, <3>4, <3>5, CollectType DEF TypeOK, RedisTypeOK, ReadNew
  <2>8. CASE ClaimFails(w)
    <3>1. CASE AbandonClaim(w)
      BY <2>0, <2>8, <3>1 DEF TypeOK, ClaimFails, AbandonClaim, DropClaim, Flush, Goto
    <3>2. CASE /\ DropClaim(w)
               /\ pc' = [pc EXCEPT ![w] = "loop"]
               /\ UNCHANGED <<batchVars, after>>
      BY <2>0, <2>8, <3>2 DEF TypeOK, ClaimFails, DropClaim
    <3> QED BY <2>8, <3>1, <3>2 DEF ClaimFails
  <2>9. CASE ReplyLost(w)
    <3>1. RedisTypeOK'
      <4>1. ASSUME NEW due \in DueReplies(Want(w)), XAutoClaim(w, due)
            PROVE  pel' \in [Entries -> Workers \cup {NoOne}]
                   /\ stale' \subseteq Entries /\ UNCHANGED <<first, added, delivered>>
        BY <4>1 DEF TypeOK, XAutoClaim
      <4>2. ASSUME NEW own \in OwnReplies(w, Remaining(w)), XReadOwn(own)
            PROVE  stale' \subseteq Entries /\ UNCHANGED <<first, added, delivered, pel>>
        BY <4>2 DEF TypeOK, XReadOwn
      <4>3. ASSUME NEW new \in NewReplies(Remaining(w)), XReadNew(w, new)
            PROVE  RedisTypeOK'
        <5>1. new \in SUBSET Entries
          BY ReplyType
        <5> QED BY <4>3, <5>1, XReadNewType DEF TypeOK, RedisTypeOK
      <4>4. ASSUME XAck(Range(batchIDs[w]))
            PROVE  pel' \in [Entries -> Workers \cup {NoOne}]
                   /\ stale' \subseteq Entries /\ UNCHANGED <<first, added, delivered>>
        BY <4>4 DEF TypeOK, XAck
      <4> QED BY <2>9, <4>1, <4>2, <4>3, <4>4 DEF TypeOK, RedisTypeOK, ReplyLost
    <3>2. /\ pc' \in [Workers -> PCs]
          /\ after' \in [Workers -> {"loop", "stale", "exited"}]
          /\ batch' \in [Workers -> Seq(Entries)]
          /\ batchIDs' \in [Workers -> Seq(Entries)]
          /\ logs' \in [Workers -> Seq(Entries)]
          /\ ids' \in [Workers -> Seq(Entries)]
      <4>1. CASE AbandonClaim(w)
        BY <2>0, <4>1 DEF TypeOK, AbandonClaim, DropClaim, Flush, Goto
      <4>2. CASE UNCHANGED <<pc, after, batchVars, claimVars>>
        BY <4>2 DEF TypeOK
      <4> QED BY <2>9, <4>1, <4>2 DEF ReplyLost
    <3> QED BY <2>9, <3>1, <3>2 DEF TypeOK, RedisTypeOK, ReplyLost
  <2>10. CASE Insert(w)
    <3>1. rollup' \in [Entries -> 0..MaxCount]
      BY <2>10, Occurs, CountUpType DEF TypeOK, Insert
    <3>2. stored' \subseteq Entries
      BY <2>10, RangeType DEF TypeOK, Insert
    <3> QED BY <2>10, <3>1, <3>2 DEF TypeOK, Insert
  <2>11. CASE InsertFails(w)
    <3>1. PICK rows \in SUBSET Range(batch[w]) : \E counted \in SUBSET rows :
            /\ stored' = stored \cup rows
            /\ rollup' = [e \in Entries |->
                 IF e \in counted
                 THEN CountUp(rollup[e], Occurrences(e, batch[w]))
                 ELSE rollup[e]]
      BY <2>11 DEF InsertFails
    <3>2. PICK counted \in SUBSET rows :
            /\ stored' = stored \cup rows
            /\ rollup' = [e \in Entries |->
                 IF e \in counted
                 THEN CountUp(rollup[e], Occurrences(e, batch[w]))
                 ELSE rollup[e]]
      BY <3>1
    <3>3. rollup' \in [Entries -> 0..MaxCount]
      BY <3>2, Occurs, CountUpType DEF TypeOK
    <3>4. stored' \subseteq Entries
      BY <3>2, RangeType DEF TypeOK
    <3> QED BY <2>0, <2>11, <3>3, <3>4 DEF TypeOK, InsertFails, EndFlush, Goto
  <2>12. CASE Ack(w)
    BY <2>12 DEF TypeOK, Ack, XAck
  <2>13. CASE AckFails(w)
    BY <2>0, <2>13 DEF TypeOK, AckFails, EndFlush, Goto
  <2>14. CASE Broadcast(w)
    BY <2>0, <2>14, RangeType DEF TypeOK, Broadcast, EndFlush, Goto
  <2> QED BY <1>2, <2>1, <2>2, <2>3, <2>4, <2>5, <2>6, <2>7, <2>8, <2>9, <2>10,
             <2>11, <2>12, <2>13, <2>14 DEF Work
<1>3. ASSUME NEW e \in Entries, Age(e) PROVE TypeOK'
  BY <1>3 DEF TypeOK, Age, GrowStale
<1>4. ASSUME NEW active \in SUBSET Workers, Start(active) PROVE TypeOK'
  BY <1>4 DEF TypeOK, Start, PCs, Commands
<1>5. CASE Signal
  BY <1>5, PipelineAssumption DEF TypeOK, Signal
<1>6. CASE Exit
  BY <1>6 DEF TypeOK, Exit
<1>7. CASE Crash
  <2>1. <<>> \in Seq(Entries)
    OBVIOUS
  <2> QED BY <1>7, <2>1, PipelineAssumption DEF TypeOK, Crash, PCs, Commands
<1>8. CASE UNCHANGED vars
  BY <1>8 DEF TypeOK, vars
<1> QED BY <1>1, <1>2, <1>3, <1>4, <1>5, <1>6, <1>7, <1>8 DEF Next

\* The variables keep their types in every behaviour.
THEOREM TypeCorrect == Spec => []TypeOK
<1> QED BY TypeInit, TypeNext, PTL DEF Spec

-----------------------------------------------------------------------------
(* The inductive invariant.                                                *)

\* The stream: what is pending was delivered, what was delivered was added,
\* and trimming has left MaxLen entries.
StreamInv ==
  /\ first <= added + 1
  /\ first > 1 => added - first + 1 >= MaxLen
  /\ delivered <= added
  /\ \A e \in Entries : pel[e] # NoOne => e <= delivered

\* What a worker has in hand was delivered, and an id comes with its log
\* unless the stream has dropped the entry.
Hand(w) ==
  /\ Range(batch[w]) \subseteq Range(batchIDs[w])
  /\ Range(logs[w]) \subseteq Range(ids[w])
  /\ \A e \in Range(batchIDs[w]) :
       e <= delivered /\ (e < first \/ e \in Range(batch[w]))
  /\ \A e \in Range(ids[w]) :
       e <= delivered /\ (e < first \/ e \in Range(logs[w]))

HandInv == \A w \in Workers : Hand(w)

\* Past InsertBatch the batch is in the table, past XACK it is settled.
FlushInv ==
  \A w \in Workers :
    /\ pc[w] \in {"ack", "tail"} =>
         \A e \in Range(batch[w]) : e \in stored /\ rollup[e] >= 1
    /\ pc[w] = "tail" => Range(batch[w]) \subseteq Settled

\* Entries the API and the table know of have been added.
ApiInv ==
  /\ \A e \in accepted : e <= added
  /\ \A c \in Clients : \A e \in sent[c] : e <= added
  /\ \A e \in stored : e <= delivered

IInv ==
  /\ TypeOK
  /\ StreamInv
  /\ HandInv
  /\ FlushInv
  /\ ApiInv
  /\ SettledIsStored
  /\ TailedIsSettled

\* The inductive invariant holds initially: the stream is empty and no
\* worker has anything in hand.
LEMMA InvInit == Init => IInv
<1> SUFFICES ASSUME Init PROVE IInv
  OBVIOUS
<1> USE DEF Init, RedisInit
<1>1. TypeOK
  BY TypeInit
<1>2. StreamInv
  BY StreamAssumption DEF StreamInv
<1>3. HandInv
  BY RangeEmpty DEF HandInv, Hand
<1>4. FlushInv
  BY DEF FlushInv
<1>5. ApiInv
  BY DEF ApiInv
<1>6. Settled = {}
  BY DEF Settled, Entries
<1> QED BY <1>1, <1>2, <1>3, <1>4, <1>5, <1>6
        DEF IInv, SettledIsStored, TailedIsSettled

\* What a step may do to the stream.
StreamStep ==
  \/ UNCHANGED redisVars
  \/ XAdd
  \/ \E w \in Workers : \E due \in DueReplies(Want(w)) : XAutoClaim(w, due)
  \/ \E w \in Workers : \E own \in OwnReplies(w, Remaining(w)) : XReadOwn(own)
  \/ \E w \in Workers : \E new \in NewReplies(Remaining(w)) : XReadNew(w, new)
  \/ \E w \in Workers : pc[w] = "ack" /\ XAck(Range(batchIDs[w]))
  \/ \E e \in Entries : GrowStale(e)

\* Every step of the system is such a step of the stream: no other code
\* touches it.
LEMMA NextStreamStep == [Next]_vars => StreamStep
<1> SUFFICES ASSUME [Next]_vars PROVE StreamStep
  OBVIOUS
<1>1. ASSUME NEW c \in Clients, Ingest(c) PROVE StreamStep
  BY <1>1 DEF Ingest, StartIngest, PushEntry, RespondAccepted, PushFails,
              PushRetry, EndRequest, StreamStep
<1>2. ASSUME NEW w \in Workers, Work(w) PROVE StreamStep
  <2>1. CASE UNCHANGED redisVars
    BY <2>1 DEF StreamStep
  <2>2. CASE ClaimStale(w)
    BY <2>2 DEF ClaimStale, StreamStep
  <2>3. CASE ReadOwn(w)
    BY <2>3 DEF ReadOwn, StreamStep
  <2>4. CASE ReadNew(w)
    BY <2>4 DEF ReadNew, StreamStep
  <2>5. CASE ReplyLost(w)
    BY <2>5 DEF ReplyLost, StreamStep
  <2>6. CASE Ack(w)
    BY <2>6 DEF Ack, StreamStep
  <2>7. CASE SeeDone(w) \/ Tick(w) \/ WaitOver(w) \/ BeginClaim(w)
             \/ ClaimFails(w) \/ Insert(w) \/ InsertFails(w) \/ AckFails(w)
             \/ Broadcast(w)
    BY <2>7, <2>1 DEF SeeDone, Tick, WaitOver, BeginClaim, ClaimFails, Insert,
                      InsertFails, AckFails, Broadcast
  <2> QED BY <1>2, <2>2, <2>3, <2>4, <2>5, <2>6, <2>7 DEF Work
<1>3. ASSUME NEW e \in Entries, Age(e) PROVE StreamStep
  BY <1>3 DEF Age, StreamStep
<1>4. ASSUME NEW active \in SUBSET Workers, Start(active) PROVE StreamStep
  BY <1>4 DEF Start, StreamStep
<1>5. CASE Signal \/ Exit \/ Crash
  BY <1>5 DEF Signal, Exit, Crash, StreamStep
<1>6. CASE UNCHANGED vars
  BY <1>6 DEF vars, StreamStep
<1> QED BY <1>1, <1>2, <1>3, <1>4, <1>5, <1>6 DEF Next

\* The stream only moves forwards, and what it settles was either trimmed or
\* in the hands of a worker that acknowledges it.
LEMMA StreamForward ==
  ASSUME TypeOK, StreamInv, StreamStep, TypeOK'
  PROVE  /\ StreamInv'
         /\ first' >= first /\ delivered' >= delivered /\ added' >= added
         /\ Settled \subseteq Settled'
         /\ \A e \in Settled' \ Settled :
              \/ e < first
              \/ \E w \in Workers : pc[w] = "ack" /\ e \in Range(batchIDs[w])
<1> USE DEF TypeOK, StreamInv
<1>1. CASE UNCHANGED redisVars
  BY <1>1 DEF redisVars, Settled
<1>2. CASE XAdd
  <2>1. PICK f \in first..(added + 1) :
          (f = first \/ added' - f + 1 >= MaxLen) /\ first' = f
    BY <1>2 DEF XAdd
  <2>2. added' = added + 1 /\ UNCHANGED <<delivered, pel>>
    BY <1>2 DEF XAdd
  <2> QED BY <2>1, <2>2, StreamAssumption DEF Settled
<1>3. ASSUME NEW w \in Workers, NEW due \in DueReplies(Want(w)), XAutoClaim(w, due)
      PROVE  /\ \A e \in Entries : pel'[e] # NoOne => e <= delivered
             /\ UNCHANGED <<first, added, delivered>>
             /\ Settled \subseteq Settled'
             /\ \A e \in Settled' \ Settled : e < first
  <2>1. \A e \in due : e \in Entries /\ pel[e] # NoOne
    BY ReplyType DEF Pending
  <2> QED BY <1>3, <2>1, StreamAssumption DEF XAutoClaim, Settled
<1>4. ASSUME NEW w \in Workers, NEW own \in OwnReplies(w, Remaining(w)), XReadOwn(own)
      PROVE  UNCHANGED <<first, added, delivered, pel>>
  BY <1>4 DEF XReadOwn
<1>5. ASSUME NEW w \in Workers, NEW new \in NewReplies(Remaining(w)), XReadNew(w, new)
      PROVE  /\ \A e \in Entries : pel'[e] # NoOne => e <= delivered'
             /\ UNCHANGED <<first, added>>
             /\ delivered' >= delivered /\ delivered' <= added
             /\ Settled \subseteq Settled'
             /\ \A e \in Settled' \ Settled : e < first
  <2>1. /\ \A e \in new : e > delivered /\ e >= first /\ e <= added
        /\ \A e \in Entries \ new, x \in new :
             e > delivered /\ e >= first /\ e <= added => x < e
        /\ new \in SUBSET Entries
    BY ReplyType
  <2>2. UNCHANGED <<first, added>>
        /\ pel' = [e \in Entries |-> IF e \in new THEN w ELSE pel[e]]
    BY <1>5 DEF XReadNew
  <2>3. CASE new = {}
    BY <1>5, <2>2, <2>3 DEF XReadNew, Settled
  <2>4. CASE new # {}
    <3>1. delivered' \in new /\ \A e \in new : e <= delivered'
      BY <1>5, <2>4 DEF XReadNew
    <3>2. delivered' >= delivered /\ delivered' <= added
      BY <3>1, <2>1 DEF Entries
    <3>3. \A e \in Entries : pel'[e] # NoOne => e <= delivered'
      BY <2>2, <3>1, <3>2 DEF Entries
    <3>4. Settled \subseteq Settled'
      BY <2>1, <2>2, <3>2 DEF Entries, Settled
    <3>5. ASSUME NEW e \in Settled' \ Settled PROVE e < first
      <4>1. e \in Entries /\ e <= delivered' /\ pel'[e] = NoOne
        BY DEF Settled
      <4>2. e \notin new
        BY <4>1, <2>2, StreamAssumption
      <4>3. pel[e] = NoOne /\ e > delivered
        BY <4>1, <4>2, <2>2 DEF Entries, Settled
      <4>4. ~(e >= first)
        BY <4>1, <4>2, <4>3, <2>1, <3>1, <3>2 DEF Entries
      <4> QED BY <4>1, <4>4 DEF Entries
    <3> QED BY <2>2, <3>2, <3>3, <3>4, <3>5
  <2> QED BY <2>3, <2>4
<1>6. ASSUME NEW w \in Workers, pc[w] = "ack", XAck(Range(batchIDs[w]))
      PROVE  /\ \A e \in Entries : pel'[e] # NoOne => e <= delivered
             /\ UNCHANGED <<first, added, delivered>>
             /\ Settled \subseteq Settled'
             /\ \A e \in Settled' \ Settled : e \in Range(batchIDs[w])
  BY <1>6 DEF XAck, Settled
<1>7. ASSUME NEW e \in Entries, GrowStale(e)
      PROVE  UNCHANGED <<first, added, delivered, pel>>
  BY <1>7 DEF GrowStale
<1>8. CASE \E w \in Workers : \E due \in DueReplies(Want(w)) : XAutoClaim(w, due)
  <2>1. PICK w \in Workers : \E due \in DueReplies(Want(w)) : XAutoClaim(w, due)
    BY <1>8
  <2>2. PICK due \in DueReplies(Want(w)) : XAutoClaim(w, due)
    BY <2>1
  <2>3. /\ \A e \in Entries : pel'[e] # NoOne => e <= delivered
        /\ UNCHANGED <<first, added, delivered>>
        /\ Settled \subseteq Settled'
        /\ \A e \in Settled' \ Settled : e < first
    BY <1>3, <2>2
  <2>4. StreamInv' /\ first' >= first /\ delivered' >= delivered /\ added' >= added
    BY <2>3
  <2>5. Settled \subseteq Settled' /\ \A e \in Settled' \ Settled : e < first
    BY <2>3 DEF Settled
  <2> HIDE DEF TypeOK, StreamInv
  <2> QED BY <2>4, <2>5
<1>9. CASE \E w \in Workers : \E own \in OwnReplies(w, Remaining(w)) : XReadOwn(own)
  <2>1. PICK w \in Workers : \E own \in OwnReplies(w, Remaining(w)) : XReadOwn(own)
    BY <1>9
  <2>2. PICK own \in OwnReplies(w, Remaining(w)) : XReadOwn(own)
    BY <2>1
  <2>3. UNCHANGED <<first, added, delivered, pel>>
    BY <1>4, <2>2
  <2>4. StreamInv' /\ first' >= first /\ delivered' >= delivered /\ added' >= added
    BY <2>3
  <2>5. Settled \subseteq Settled' /\ \A e \in Settled' \ Settled : e < first
    BY <2>3 DEF Settled
  <2> HIDE DEF TypeOK, StreamInv
  <2> QED BY <2>4, <2>5
<1>10. CASE \E w \in Workers : \E new \in NewReplies(Remaining(w)) : XReadNew(w, new)
  <2>1. PICK w \in Workers : \E new \in NewReplies(Remaining(w)) : XReadNew(w, new)
    BY <1>10
  <2>2. PICK new \in NewReplies(Remaining(w)) : XReadNew(w, new)
    BY <2>1
  <2>3. /\ \A e \in Entries : pel'[e] # NoOne => e <= delivered'
        /\ UNCHANGED <<first, added>>
        /\ delivered' >= delivered /\ delivered' <= added
        /\ Settled \subseteq Settled'
        /\ \A e \in Settled' \ Settled : e < first
    BY <1>5, <2>2
  <2>4. StreamInv' /\ first' >= first /\ delivered' >= delivered /\ added' >= added
    BY <2>3
  <2>5. Settled \subseteq Settled' /\ \A e \in Settled' \ Settled : e < first
    BY <2>3 DEF Settled
  <2> HIDE DEF TypeOK, StreamInv
  <2> QED BY <2>4, <2>5
<1>11. CASE \E w \in Workers : pc[w] = "ack" /\ XAck(Range(batchIDs[w]))
  <2>1. PICK w \in Workers : pc[w] = "ack" /\ XAck(Range(batchIDs[w]))
    BY <1>11
  <2>3. /\ \A e \in Entries : pel'[e] # NoOne => e <= delivered
        /\ UNCHANGED <<first, added, delivered>>
        /\ Settled \subseteq Settled'
        /\ \A e \in Settled' \ Settled : e \in Range(batchIDs[w])
    BY <1>6, <2>1
  <2>4. StreamInv' /\ first' >= first /\ delivered' >= delivered /\ added' >= added
    BY <2>3
  <2> HIDE DEF TypeOK, StreamInv
  <2> QED BY <2>1, <2>3, <2>4
<1>12. CASE \E e \in Entries : GrowStale(e)
  <2>1. PICK e \in Entries : GrowStale(e)
    BY <1>12
  <2>3. UNCHANGED <<first, added, delivered, pel>>
    BY <1>7, <2>1
  <2> QED BY <2>1, <2>3 DEF Settled
<1> QED BY <1>1, <1>2, <1>8, <1>9, <1>10, <1>11, <1>12 DEF StreamStep

\* The tables only grow, and only Insert and InsertFails write to them.
StoreStep ==
  \/ UNCHANGED storeVars
  \/ \E w \in Workers :
       /\ pc[w] = "insert"
       /\ UNCHANGED redisVars
       /\ stored \subseteq stored'
       /\ stored' \subseteq stored \cup Range(batch[w])
       /\ \A e \in Entries : rollup[e] >= 1 => rollup'[e] >= 1

\* Every step of the system is such a step of the tables: only an insert
\* writes them, and nothing takes a log out again.
LEMMA NextStoreStep == TypeOK /\ [Next]_vars => StoreStep
<1> SUFFICES ASSUME TypeOK, [Next]_vars PROVE StoreStep
  OBVIOUS
<1>1. ASSUME NEW c \in Clients, Ingest(c) PROVE UNCHANGED storeVars
  BY <1>1 DEF Ingest, StartIngest, PushEntry, RespondAccepted, PushFails,
              PushRetry, EndRequest
<1>2. ASSUME NEW w \in Workers, Insert(w) PROVE StoreStep
  <2>1. ASSUME NEW e \in Entries, rollup[e] >= 1 PROVE rollup'[e] >= 1
    <3>1. Occurrences(e, batch[w]) \in Nat /\ rollup[e] \in 0..MaxCount
      BY Occurs DEF TypeOK
    <3>2. CountUp(rollup[e], Occurrences(e, batch[w])) >= rollup[e]
          /\ CountUp(rollup[e], Occurrences(e, batch[w])) \in 0..MaxCount
      BY <3>1, CountUpType
    <3> QED BY <1>2, <2>1, <3>1, <3>2, PipelineAssumption DEF Insert
  <2> QED BY <1>2, <2>1 DEF Insert, StoreStep
<1>3. ASSUME NEW w \in Workers, InsertFails(w) PROVE StoreStep
  <2>1. PICK rows \in SUBSET Range(batch[w]) : \E counted \in SUBSET rows :
          /\ stored' = stored \cup rows
          /\ rollup' = [e \in Entries |->
               IF e \in counted
               THEN CountUp(rollup[e], Occurrences(e, batch[w]))
               ELSE rollup[e]]
    BY <1>3 DEF InsertFails
  <2>2. ASSUME NEW e \in Entries, rollup[e] >= 1 PROVE rollup'[e] >= 1
    <3>1. Occurrences(e, batch[w]) \in Nat /\ rollup[e] \in 0..MaxCount
      BY Occurs DEF TypeOK
    <3>2. CountUp(rollup[e], Occurrences(e, batch[w])) >= rollup[e]
          /\ CountUp(rollup[e], Occurrences(e, batch[w])) \in 0..MaxCount
      BY <3>1, CountUpType
    <3> QED BY <2>1, <2>2, <3>1, <3>2, PipelineAssumption
  <2> QED BY <1>3, <2>1, <2>2 DEF InsertFails, StoreStep
<1>4. ASSUME NEW w \in Workers, Work(w), ~Insert(w), ~InsertFails(w)
      PROVE  UNCHANGED storeVars
  BY <1>4 DEF Work, SeeDone, Tick, WaitOver, BeginClaim, ClaimStale, ReadOwn,
              ReadNew, ClaimFails, ReplyLost, Ack, AckFails, Broadcast
<1>5. ASSUME NEW e \in Entries, Age(e) PROVE UNCHANGED storeVars
  BY <1>5 DEF Age
<1>6. ASSUME NEW active \in SUBSET Workers, Start(active) PROVE UNCHANGED storeVars
  BY <1>6 DEF Start
<1>7. CASE Signal \/ Exit \/ Crash \/ UNCHANGED vars
  BY <1>7 DEF Signal, Exit, Crash, vars, StoreStep
<1> QED BY <1>1, <1>2, <1>3, <1>4, <1>5, <1>6, <1>7 DEF Next, StoreStep

\* What a worker has in hand stays delivered while the stream moves forwards.
LEMMA HandForward ==
  ASSUME TypeOK, TypeOK', HandInv, first' >= first, delivered' >= delivered,
         NEW v \in Workers
  PROVE  /\ \A e \in Range(batchIDs[v]) :
              e <= delivered' /\ (e < first' \/ e \in Range(batch[v]))
         /\ \A e \in Range(ids[v]) :
              e <= delivered' /\ (e < first' \/ e \in Range(logs[v]))
         /\ Range(batch[v]) \subseteq Range(batchIDs[v])
         /\ Range(logs[v]) \subseteq Range(ids[v])
<1>1. first \in Int /\ first' \in Int /\ delivered \in Int /\ delivered' \in Int
  BY DEF TypeOK
<1>2. batchIDs[v] \in Seq(Entries) /\ ids[v] \in Seq(Entries)
  BY DEF TypeOK
<1>3. Range(batchIDs[v]) \subseteq Entries /\ Range(ids[v]) \subseteq Entries
  BY <1>2, RangeType
<1>4. Hand(v)
  BY DEF HandInv
<1>5. ASSUME NEW e \in Range(batchIDs[v])
      PROVE  e <= delivered' /\ (e < first' \/ e \in Range(batch[v]))
  <2>1. e \in Int
    BY <1>3 DEF Entries
  <2>2. e <= delivered /\ (e < first \/ e \in Range(batch[v]))
    BY <1>4 DEF Hand
  <2> QED BY <1>1, <2>1, <2>2
<1>6. ASSUME NEW e \in Range(ids[v])
      PROVE  e <= delivered' /\ (e < first' \/ e \in Range(logs[v]))
  <2>1. e \in Int
    BY <1>3 DEF Entries
  <2>2. e <= delivered /\ (e < first \/ e \in Range(logs[v]))
    BY <1>4 DEF Hand
  <2> QED BY <1>1, <2>1, <2>2
<1> QED BY <1>4, <1>5, <1>6 DEF Hand

\* Collect appends what was delivered, each id with its log or dropped.
LEMMA CollectHand ==
  ASSUME TypeOK, TypeOK', HandInv, NEW w \in Workers,
         NEW l \in Seq(Entries), NEW i \in Seq(Entries),
         NEW next \in Commands \cup {"done"}, Collect(w, l, i, next),
         first' >= first, delivered' >= delivered,
         Range(l) \subseteq Range(i),
         \A e \in Range(i) : e <= delivered' /\ (e < first' \/ e \in Range(l))
  PROVE  HandInv'
<1> DEFINE ll == logs[w] \o l
           ii == ids[w] \o i
<1>1. /\ batch \in [Workers -> Seq(Entries)] /\ batchIDs \in [Workers -> Seq(Entries)]
      /\ logs \in [Workers -> Seq(Entries)] /\ ids \in [Workers -> Seq(Entries)]
  BY DEF TypeOK
<1>2. /\ ll \in Seq(Entries) /\ ii \in Seq(Entries)
      /\ Range(ll) = Range(logs[w]) \cup Range(l)
      /\ Range(ii) = Range(ids[w]) \cup Range(i)
  BY <1>1, RangeConcat
<1> HIDE DEF ll, ii
<1>3. \A v \in Workers :
        /\ \A e \in Range(batchIDs[v]) :
             e <= delivered' /\ (e < first' \/ e \in Range(batch[v]))
        /\ \A e \in Range(ids[v]) :
             e <= delivered' /\ (e < first' \/ e \in Range(logs[v]))
        /\ Range(batch[v]) \subseteq Range(batchIDs[v])
        /\ Range(logs[v]) \subseteq Range(ids[v])
  BY HandForward
<1>4. /\ Range(ll) \subseteq Range(ii)
      /\ \A e \in Range(ii) : e <= delivered' /\ (e < first' \/ e \in Range(ll))
  BY <1>2, <1>3
<1>5. /\ Range(batch[w] \o ll) = Range(batch[w]) \cup Range(ll)
      /\ Range(batchIDs[w] \o ii) = Range(batchIDs[w]) \cup Range(ii)
  <2>1. batch[w] \in Seq(Entries) /\ batchIDs[w] \in Seq(Entries)
    BY <1>1
  <2> QED BY <2>1, <1>2, RangeConcat
<1>6. CASE EndClaim(w, ll, ii)
  <2>1. CASE ll = <<>>
    BY <1>1, <1>3, <1>6, <2>1, RangeEmpty
       DEF EndClaim, DropClaim, batchVars, HandInv, Hand
  <2>2. CASE ll # <<>>
    <3>1. /\ batch' = [batch EXCEPT ![w] = @ \o ll]
          /\ batchIDs' = [batchIDs EXCEPT ![w] = @ \o ii]
          /\ logs' = [logs EXCEPT ![w] = <<>>]
          /\ ids' = [ids EXCEPT ![w] = <<>>]
      BY <1>6, <2>2 DEF EndClaim, DropClaim
    <3>2. Hand(w)'
      <4>1. /\ batch'[w] = batch[w] \o ll /\ batchIDs'[w] = batchIDs[w] \o ii
            /\ logs'[w] = <<>> /\ ids'[w] = <<>>
        BY <1>1, <3>1
      <4> QED BY <4>1, <1>3, <1>4, <1>5, RangeEmpty DEF Hand
    <3>3. ASSUME NEW v \in Workers, v # w PROVE Hand(v)'
      <4>1. /\ batch'[v] = batch[v] /\ batchIDs'[v] = batchIDs[v]
            /\ logs'[v] = logs[v] /\ ids'[v] = ids[v]
        BY <1>1, <3>1, <3>3
      <4> QED BY <4>1, <1>3 DEF Hand
    <3> QED BY <3>2, <3>3 DEF HandInv
  <2> QED BY <2>1, <2>2
<1>7. CASE AbandonClaim(w)
  BY <1>1, <1>3, <1>7, RangeEmpty DEF AbandonClaim, DropClaim, batchVars, HandInv, Hand
<1>8. CASE /\ logs' = [logs EXCEPT ![w] = ll]
           /\ ids' = [ids EXCEPT ![w] = ii]
           /\ UNCHANGED <<batchVars, after>>
  <2>1. /\ logs'[w] = ll /\ ids'[w] = ii
        /\ batch' = batch /\ batchIDs' = batchIDs
        /\ \A v \in Workers : v # w => logs'[v] = logs[v] /\ ids'[v] = ids[v]
    BY <1>1, <1>8 DEF batchVars
  <2> QED BY <2>1, <1>3, <1>4 DEF HandInv, Hand
<1>9. \/ EndClaim(w, ll, ii)
       \/ AbandonClaim(w)
       \/ /\ logs' = [logs EXCEPT ![w] = ll]
          /\ ids' = [ids EXCEPT ![w] = ii]
          /\ UNCHANGED <<batchVars, after>>
  BY DEF Collect, ll, ii
<1> QED BY <1>6, <1>7, <1>8, <1>9

\* A worker's hand stays as it is, or some of it is emptied.
KeepHand(v) ==
  /\ \/ batch'[v] = batch[v] /\ batchIDs'[v] = batchIDs[v]
     \/ batch'[v] = <<>> /\ batchIDs'[v] = <<>>
  /\ \/ logs'[v] = logs[v] /\ ids'[v] = ids[v]
     \/ logs'[v] = <<>> /\ ids'[v] = <<>>

\* A step after which every worker still holds what it held, or has
\* dropped its batch or its partial claim, keeps HandInv.
LEMMA KeepHandInv ==
  ASSUME TypeOK, TypeOK', HandInv, first' >= first, delivered' >= delivered,
         \A v \in Workers : KeepHand(v)
  PROVE  HandInv'
<1> SUFFICES ASSUME NEW v \in Workers PROVE Hand(v)'
  BY DEF HandInv
<1> QED BY HandForward, RangeEmpty DEF KeepHand, Hand

\* Every step keeps HandInv: whatever a worker has in hand was delivered,
\* and each of its ids carries its log unless the stream has dropped it.
LEMMA HandNext ==
  ASSUME TypeOK, TypeOK', StreamInv, HandInv, [Next]_vars,
         first' >= first, delivered' >= delivered
  PROVE  HandInv'
<1> USE DEF apiVars, claimVars, batchVars
<1>0. \A e \in Pending : e \in Entries /\ e <= delivered
  BY DEF StreamInv, Pending
<1>1. ASSUME NEW w \in Workers, ClaimStale(w) PROVE HandInv'
  <2>1. PICK due \in DueReplies(Want(w)) :
          \E l \in Ascending(Live(due)) :
            XAutoClaim(w, due) /\ Collect(w, l, l, "own")
    BY <1>1 DEF ClaimStale
  <2>2. PICK l \in Ascending(Live(due)) :
          XAutoClaim(w, due) /\ Collect(w, l, l, "own")
    BY <2>1
  <2>3. Live(due) \subseteq Pending /\ Live(due) \in SUBSET Entries
    BY ReplyType DEF Live
  <2>4. l \in Seq(Entries) /\ Range(l) = Live(due)
    BY <2>3, AscendingType
  <2>5. delivered' = delivered
    BY <2>2 DEF XAutoClaim
  <2> QED BY <1>0, <2>2, <2>3, <2>4, <2>5, CollectHand DEF Commands
<1>2. ASSUME NEW w \in Workers, ReadOwn(w) PROVE HandInv'
  <2>1. PICK own \in OwnReplies(w, Remaining(w)) :
          \E l \in Ascending(Live(own)), i \in Ascending(own) :
            XReadOwn(own) /\ Collect(w, l, i, "new")
    BY <1>2 DEF ReadOwn
  <2>2. PICK l \in Ascending(Live(own)), i \in Ascending(own) :
          XReadOwn(own) /\ Collect(w, l, i, "new")
    BY <2>1
  <2>3. own \subseteq Pending /\ own \in SUBSET Entries /\ Live(own) \in SUBSET Entries
    BY ReplyType DEF Live
  <2>4. /\ l \in Seq(Entries) /\ Range(l) = Live(own)
        /\ i \in Seq(Entries) /\ Range(i) = own
    BY <2>3, AscendingType
  <2>5. delivered' = delivered /\ first' = first
    BY <2>2 DEF XReadOwn
  <2>6. \A e \in own : e <= delivered' /\ (e < first' \/ e \in Live(own))
    <3> SUFFICES ASSUME NEW e \in own
                 PROVE  e <= delivered' /\ (e < first' \/ e \in Live(own))
      OBVIOUS
    <3>1. e \in Int /\ first \in Int
      BY <2>3 DEF Entries, TypeOK
    <3> QED BY <1>0, <2>3, <2>5, <3>1 DEF Live
  <2>7. Live(own) \subseteq own
    BY DEF Live
  <2> QED BY <2>2, <2>4, <2>6, <2>7, CollectHand DEF Commands
<1>3. ASSUME NEW w \in Workers, ReadNew(w) PROVE HandInv'
  <2>1. PICK new \in NewReplies(Remaining(w)) :
          \E l \in Ascending(new) : XReadNew(w, new) /\ Collect(w, l, l, "done")
    BY <1>3 DEF ReadNew
  <2>2. PICK l \in Ascending(new) : XReadNew(w, new) /\ Collect(w, l, l, "done")
    BY <2>1
  <2>3. new \in SUBSET Entries
    BY ReplyType
  <2>4. l \in Seq(Entries) /\ Range(l) = new
    BY <2>3, AscendingType
  <2>5. \A e \in new : e <= delivered'
    BY <2>2 DEF XReadNew
  <2> QED BY <2>2, <2>4, <2>5, CollectHand
<1>4. ASSUME NEW w \in Workers, Work(w),
             ~ClaimStale(w), ~ReadOwn(w), ~ReadNew(w), NEW v \in Workers
      PROVE  KeepHand(v)
  <2> USE DEF KeepHand
  <2>1. CASE SeeDone(w) \/ Tick(w) \/ WaitOver(w) \/ BeginClaim(w) \/ Insert(w) \/ Ack(w)
    BY <2>1 DEF SeeDone, Tick, WaitOver, BeginClaim, Insert, Ack
  <2>2. CASE ClaimFails(w)
    BY <2>2 DEF ClaimFails, AbandonClaim, DropClaim, TypeOK
  <2>3. CASE ReplyLost(w)
    BY <2>3 DEF ReplyLost, AbandonClaim, DropClaim, TypeOK
  <2>4. CASE InsertFails(w) \/ AckFails(w) \/ Broadcast(w)
    BY <2>4 DEF InsertFails, AckFails, Broadcast, EndFlush, TypeOK
  <2> QED BY <1>4, <2>1, <2>2, <2>3, <2>4 DEF Work
<1>5. ASSUME NEW c \in Clients, Ingest(c), NEW v \in Workers PROVE KeepHand(v)
  BY <1>5 DEF Ingest, StartIngest, PushEntry, RespondAccepted, PushFails,
              PushRetry, EndRequest, KeepHand
<1>6. ASSUME NEW e \in Entries, Age(e), NEW v \in Workers PROVE KeepHand(v)
  BY <1>6 DEF Age, KeepHand
<1>7. ASSUME NEW active \in SUBSET Workers, Start(active), NEW v \in Workers
      PROVE  KeepHand(v)
  BY <1>7 DEF Start, KeepHand
<1>8. ASSUME Signal \/ Exit \/ Crash \/ UNCHANGED vars, NEW v \in Workers
      PROVE  KeepHand(v)
  BY <1>8 DEF Signal, Exit, Crash, vars, KeepHand
<1> QED BY <1>1, <1>2, <1>3, <1>4, <1>5, <1>6, <1>7, <1>8, KeepHandInv DEF Next

\* Where flush is: a worker gets past InsertBatch by Insert and past XACK by
\* Ack, with the batch it had.
FlushStep(v) ==
  \/ pc'[v] \notin {"ack", "tail"}
  \/ pc'[v] = pc[v] /\ batch'[v] = batch[v]
  \/ Insert(v)
  \/ Ack(v)

\* Every step moves a worker through its flush in such a way.
LEMMA NextFlushStep ==
  ASSUME TypeOK, [Next]_vars, NEW v \in Workers
  PROVE  FlushStep(v)
<1> USE DEF FlushStep, claimVars, batchVars
<1>1. ASSUME NEW w \in Workers, Work(w) PROVE FlushStep(v)
  <2>1. CASE SeeDone(w) \/ Tick(w) \/ WaitOver(w) \/ BeginClaim(w)
    BY <2>1 DEF SeeDone, Tick, WaitOver, BeginClaim, Flush, Goto, TypeOK
  <2>2. ASSUME NEW l, NEW i, NEW next \in {"own", "new", "done"}, Collect(w, l, i, next)
        PROVE  FlushStep(v)
    <3>1. CASE EndClaim(w, logs[w] \o l, ids[w] \o i)
      BY <3>1 DEF EndClaim, TypeOK
    <3>2. CASE AbandonClaim(w)
      BY <3>2 DEF AbandonClaim, Flush, Goto, TypeOK
    <3>3. CASE next # "done" /\ pc' = [pc EXCEPT ![w] = next] /\ UNCHANGED batchVars
      BY <3>3 DEF TypeOK
    <3> QED BY <2>2, <3>1, <3>2, <3>3 DEF Collect
  <2>3. CASE ClaimStale(w)
    BY <2>2, <2>3 DEF ClaimStale
  <2>4. CASE ReadOwn(w)
    BY <2>2, <2>4 DEF ReadOwn
  <2>5. CASE ReadNew(w)
    BY <2>2, <2>5 DEF ReadNew
  <2>6. CASE ClaimFails(w)
    BY <2>6 DEF ClaimFails, AbandonClaim, Flush, Goto, TypeOK
  <2>7. CASE ReplyLost(w)
    BY <2>7 DEF ReplyLost, AbandonClaim, Flush, Goto, TypeOK
  <2>8. CASE Insert(w)
    BY <2>8 DEF Insert, TypeOK
  <2>9. CASE Ack(w)
    BY <2>9 DEF Ack, TypeOK
  <2>10. CASE InsertFails(w) \/ AckFails(w) \/ Broadcast(w)
    BY <2>10 DEF InsertFails, AckFails, Broadcast, EndFlush, Goto, TypeOK
  <2> QED BY <1>1, <2>1, <2>3, <2>4, <2>5, <2>6, <2>7, <2>8, <2>9, <2>10 DEF Work
<1>2. ASSUME NEW c \in Clients, Ingest(c) PROVE FlushStep(v)
  BY <1>2 DEF Ingest, StartIngest, PushEntry, RespondAccepted, PushFails,
              PushRetry, EndRequest
<1>3. ASSUME NEW e \in Entries, Age(e) PROVE FlushStep(v)
  BY <1>3 DEF Age
<1>4. ASSUME NEW active \in SUBSET Workers, Start(active) PROVE FlushStep(v)
  BY <1>4 DEF Start
<1>5. ASSUME Signal \/ Exit \/ Crash \/ UNCHANGED vars PROVE FlushStep(v)
  BY <1>5 DEF Signal, Exit, Crash, vars
<1> QED BY <1>1, <1>2, <1>3, <1>4, <1>5 DEF Next

\* What the API knows of: only Ingest touches it, and Crash empties it.
LEMMA ApiNext ==
  ASSUME TypeOK, TypeOK', ApiInv, [Next]_vars, added' >= added
  PROVE  /\ \A e \in accepted' : e <= added'
         /\ \A c \in Clients : \A e \in sent'[c] : e <= added'
<1>1. added \in Int /\ added' \in Int /\ Entries \subseteq Int
  BY DEF TypeOK, Entries
<1>2. /\ \A e \in accepted : e <= added'
      /\ \A c \in Clients : \A e \in sent[c] : e <= added'
  BY <1>1 DEF TypeOK, ApiInv
<1>3. CASE UNCHANGED apiVars
  BY <1>2, <1>3 DEF apiVars
<1>4. ASSUME NEW c \in Clients, Ingest(c)
      PROVE  /\ \A e \in accepted' : e <= added'
             /\ \A d \in Clients : \A e \in sent'[d] : e <= added'
  <2>1. ASSUME NEW n \in 1..MaxPush, StartIngest(c, n)
        PROVE  UNCHANGED <<accepted, sent>>
    BY <2>1 DEF StartIngest
  <2>2. CASE PushEntry(c)
    BY <1>1, <1>2, <2>2 DEF PushEntry, TypeOK
  <2>3. CASE RespondAccepted(c)
    BY <1>2, <2>3 DEF RespondAccepted, EndRequest, TypeOK
  <2>4. CASE PushFails(c)
    BY <1>2, <2>4 DEF PushFails, EndRequest, TypeOK
  <2>5. CASE PushRetry(c)
    BY <1>2, <2>5 DEF PushRetry, TypeOK
  <2> QED BY <1>2, <1>4, <2>1, <2>2, <2>3, <2>4, <2>5 DEF Ingest
<1>5. ASSUME NEW w \in Workers, Work(w) PROVE UNCHANGED apiVars
  BY <1>5 DEF Work, SeeDone, Tick, WaitOver, BeginClaim, ClaimStale, ReadOwn,
              ReadNew, ClaimFails, ReplyLost, Insert, InsertFails, Ack, AckFails,
              Broadcast
<1>6. ASSUME NEW e \in Entries, Age(e) PROVE UNCHANGED apiVars
  BY <1>6 DEF Age
<1>7. ASSUME NEW active \in SUBSET Workers, Start(active) PROVE UNCHANGED apiVars
  BY <1>7 DEF Start
<1>8. CASE Crash
  BY <1>2, <1>8 DEF Crash
<1>9. ASSUME Signal \/ Exit \/ UNCHANGED vars PROVE UNCHANGED apiVars
  BY <1>9 DEF Signal, Exit, vars
<1> QED BY <1>3, <1>4, <1>5, <1>6, <1>7, <1>8, <1>9 DEF Next

\* What the tail has shown: only Broadcast adds to it.
LEMMA TailedNext ==
  ASSUME [Next]_vars
  PROVE  \/ tailed' = tailed
         \/ \E w \in Workers : pc[w] = "tail" /\ tailed' = tailed \cup Range(batch[w])
<1>1. ASSUME NEW c \in Clients, Ingest(c) PROVE tailed' = tailed
  BY <1>1 DEF Ingest, StartIngest, PushEntry, RespondAccepted, PushFails,
              PushRetry, EndRequest
<1>2. ASSUME NEW w \in Workers, Work(w), ~Broadcast(w) PROVE tailed' = tailed
  BY <1>2 DEF Work, SeeDone, Tick, WaitOver, BeginClaim, ClaimStale, ReadOwn,
              ReadNew, ClaimFails, ReplyLost, Insert, InsertFails, Ack, AckFails
<1>3. ASSUME NEW w \in Workers, Broadcast(w)
      PROVE  pc[w] = "tail" /\ tailed' = tailed \cup Range(batch[w])
  BY <1>3 DEF Broadcast
<1>4. ASSUME NEW e \in Entries, Age(e) PROVE tailed' = tailed
  BY <1>4 DEF Age
<1>5. ASSUME NEW active \in SUBSET Workers, Start(active) PROVE tailed' = tailed
  BY <1>5 DEF Start
<1>6. CASE Signal \/ Exit \/ Crash \/ UNCHANGED vars
  BY <1>6 DEF Signal, Exit, Crash, vars
<1> QED BY <1>1, <1>2, <1>3, <1>4, <1>5, <1>6 DEF Next

\* Every step keeps the invariant.
LEMMA InvNext == IInv /\ [Next]_vars => IInv'
<1> SUFFICES ASSUME IInv, [Next]_vars PROVE IInv'
  OBVIOUS
<1>1. /\ TypeOK /\ StreamInv /\ HandInv /\ FlushInv /\ ApiInv
      /\ SettledIsStored /\ TailedIsSettled
  BY DEF IInv
<1>2. TypeOK'
  BY <1>1, TypeNext
<1>3. StreamStep /\ StoreStep
  BY <1>1, NextStreamStep, NextStoreStep
<1>4. /\ StreamInv'
      /\ first' >= first /\ delivered' >= delivered /\ added' >= added
      /\ Settled \subseteq Settled'
      /\ \A e \in Settled' \ Settled :
           \/ e < first
           \/ \E w \in Workers : pc[w] = "ack" /\ e \in Range(batchIDs[w])
  BY <1>1, <1>2, <1>3, StreamForward
<1>5. HandInv'
  BY <1>1, <1>2, <1>4, HandNext
<1>6. stored \subseteq stored' /\ \A e \in Entries : rollup[e] >= 1 => rollup'[e] >= 1
  BY <1>3 DEF StoreStep, storeVars
<1>7. \A w \in Workers : /\ Range(batch[w]) \subseteq Range(batchIDs[w])
                         /\ Range(batchIDs[w]) \subseteq Entries
  BY <1>1, RangeType DEF TypeOK, HandInv, Hand
<1>8. FlushInv'
  <2> SUFFICES ASSUME NEW v \in Workers
               PROVE  /\ pc'[v] \in {"ack", "tail"} =>
                           \A e \in Range(batch'[v]) : e \in stored' /\ rollup'[e] >= 1
                      /\ pc'[v] = "tail" => Range(batch'[v]) \subseteq Settled'
    BY DEF FlushInv
  <2>1. CASE pc'[v] = pc[v] /\ batch'[v] = batch[v]
    BY <1>1, <1>4, <1>6, <1>7, <2>1 DEF FlushInv
  <2>2. CASE Insert(v)
    <3>1. pc'[v] = "ack" /\ batch'[v] = batch[v] /\ batch[v] \in Seq(Entries)
      BY <1>1, <2>2 DEF Insert, TypeOK, batchVars
    <3>2. ASSUME NEW e \in Range(batch[v]) PROVE e \in stored' /\ rollup'[e] >= 1
      <4>1. e \in Entries /\ e \in stored'
        BY <1>7, <2>2 DEF Insert
      <4>2. Occurrences(e, batch[v]) \in Nat /\ Occurrences(e, batch[v]) >= 1
        BY <3>1, Occurs
      <4>3. CountUp(rollup[e], Occurrences(e, batch[v])) >= 1
        BY <1>1, <4>1, <4>2, CountUpType DEF TypeOK
      <4> QED BY <2>2, <4>1, <4>3 DEF Insert
    <3> QED BY <3>1, <3>2
  <2>3. CASE Ack(v)
    <3>1. pc[v] = "ack" /\ batch'[v] = batch[v]
      BY <2>3 DEF Ack, batchVars
    <3>2. \A e \in Range(batch[v]) : e \in stored' /\ rollup'[e] >= 1
      BY <1>1, <1>6, <1>7, <3>1 DEF FlushInv
    <3>3. Range(batch[v]) \subseteq Settled'
      <4>1. \A e \in Range(batchIDs[v]) : e \in Entries /\ e <= delivered
        BY <1>1, <1>7 DEF HandInv, Hand
      <4> QED BY <1>7, <2>3, <4>1 DEF Ack, XAck, Settled
    <3> QED BY <3>1, <3>2, <3>3
  <2> QED BY <1>1, NextFlushStep, <2>1, <2>2, <2>3 DEF FlushStep
<1>9. ApiInv'
  <2>1. ASSUME NEW e \in stored' PROVE e <= delivered'
    <3>1. e \in Int /\ delivered \in Int /\ delivered' \in Int
      BY <1>1, <1>2 DEF TypeOK, Entries
    <3>2. e <= delivered
      BY <1>1, <1>3, <1>7 DEF StoreStep, storeVars, ApiInv, HandInv, Hand
    <3> QED BY <1>4, <3>1, <3>2
  <2> QED BY <1>1, <1>2, <1>4, <2>1, ApiNext DEF ApiInv
<1>10. SettledIsStored'
  <2> SUFFICES ASSUME NEW e \in Settled'
               PROVE  e < first' \/ (e \in stored' /\ rollup'[e] >= 1)
    BY DEF SettledIsStored
  <2>1. e \in Entries /\ e \in Int /\ first \in Int /\ first' \in Int
    BY <1>1, <1>2 DEF Settled, TypeOK, Entries
  <2>2. e < first \/ (e \in stored /\ rollup[e] >= 1)
    <3>1. CASE e \in Settled
      BY <1>1, <3>1 DEF SettledIsStored
    <3>2. ASSUME NEW w \in Workers, pc[w] = "ack", e \in Range(batchIDs[w])
          PROVE  e < first \/ (e \in stored /\ rollup[e] >= 1)
      BY <1>1, <3>2 DEF HandInv, Hand, FlushInv
    <3> QED BY <1>4, <3>1, <3>2
  <2> QED BY <1>4, <1>6, <2>1, <2>2
<1>11. TailedIsSettled'
  <2>1. \A w \in Workers : pc[w] = "tail" => Range(batch[w]) \subseteq stored \cap Settled
    BY <1>1 DEF FlushInv
  <2>2. tailed' \subseteq stored \cap Settled
    BY <1>1, <2>1, TailedNext DEF TailedIsSettled
  <2> QED BY <1>4, <1>6, <2>2 DEF TailedIsSettled
<1> QED BY <1>2, <1>4, <1>5, <1>8, <1>9, <1>10, <1>11 DEF IInv

\* The inductive invariant holds in every reachable state.
LEMMA InvCorrect == Spec => []IInv
  BY InvInit, InvNext, PTL DEF Spec

\* Whatever is settled was inserted and counted, or the stream dropped it.
THEOREM SettledStored == Spec => []SettledIsStored
<1>1. IInv => SettledIsStored
  BY DEF IInv
<1> QED BY <1>1, InvCorrect, PTL

\* The live tail shows only logs that are in the table and settled.
THEOREM TailedSettled == Spec => []TailedIsSettled
<1>1. IInv => TailedIsSettled
  BY DEF IInv
<1> QED BY <1>1, InvCorrect, PTL

\* No acknowledged log is lost but to an overflow of the stream.
THEOREM NoLoss == Spec => []NoSilentLoss
<1>1. IInv => NoSilentLoss
  <2> SUFFICES ASSUME IInv, NEW e \in accepted
               PROVE  \/ e \in stored
                      \/ e >= first /\ (e > delivered \/ pel[e] \in Workers)
                      \/ added - e >= MaxLen
    BY DEF NoSilentLoss
  <2>0. TypeOK /\ e \in Entries
    BY DEF IInv, TypeOK
  <2>1. /\ pel[e] \in Workers \cup {NoOne}
        /\ first \in Int /\ added \in Int /\ delivered \in Int
    BY <2>0 DEF TypeOK
  <2> e \in Int /\ e >= 1
    BY <2>0 DEF Entries
  <2>2. CASE e < first
    <3>1. added - first + 1 >= MaxLen
      BY <2>1, <2>2 DEF IInv, StreamInv
    <3> QED BY <2>1, <2>2, <3>1, StreamAssumption
  <2>3. CASE e >= first /\ e <= delivered /\ pel[e] = NoOne
    BY <2>0, <2>1, <2>3 DEF IInv, SettledIsStored, Settled
  <2> QED BY <2>1, <2>2, <2>3
<1> QED BY <1>1, InvCorrect, PTL

-----------------------------------------------------------------------------
(* The pipeline implements LogDelivery.                                    *)

\* A step that leaves the stream's ends, the API's answers, the table and the
\* tail alone settles only what may be settled.
LEMMA QuietStep ==
  ASSUME IInv, IInv', Settled \subseteq Settled',
         UNCHANGED <<first, added, accepted, stored, tailed>>
  PROVE  Delivery!Settle
<1>1. ASSUME NEW e \in Settled' PROVE e \in stored \cup 1..(first - 1)
  <2>1. e < first' \/ e \in stored'
    BY DEF IInv, SettledIsStored
  <2>2. e \in Int /\ e >= 1
    BY DEF Settled, Entries
  <2>3. first \in Int
    BY DEF IInv, TypeOK
  <2> QED BY <2>1, <2>2, <2>3
<1> QED BY <1>1 DEF Delivery!Settle

\* What the stream drops when its lowest entry moves from a to b.
LEMMA DroppedBetween ==
  ASSUME NEW a \in Int, NEW b \in Int, a <= b
  PROVE  /\ 1..(a - 1) \subseteq 1..(b - 1)
         /\ \A e \in (1..(b - 1)) \ (1..(a - 1)) : e \in Int /\ e < b /\ a # b
  OBVIOUS

\* Every step of the write path is a step of the at-least-once delivery or
\* leaves all that the delivery speaks of unchanged.
LEMMA DeliveryNext == IInv /\ [Next]_vars => [Delivery!Next]_(Delivery!vars)
<1> SUFFICES ASSUME IInv, [Next]_vars PROVE Delivery!Next \/ UNCHANGED Delivery!vars
  OBVIOUS
<1>1. IInv' /\ TypeOK /\ TypeOK' /\ StreamInv /\ StreamStep
  BY InvNext, NextStreamStep DEF IInv
<1>2. Settled \subseteq Settled'
  BY <1>1, StreamForward
<1>3. ASSUME UNCHANGED <<first, added, accepted, stored, tailed>>
      PROVE  Delivery!Next
  BY <1>1, <1>2, <1>3, QuietStep DEF Delivery!Next
<1>4. ASSUME NEW c \in Clients, Ingest(c) PROVE Delivery!Next
  <2>1. CASE PushEntry(c)
    <3>1. /\ UNCHANGED <<delivered, pel, accepted, stored, tailed>>
          /\ added' = added + 1
          /\ \E f \in first..(added + 1) :
               (f = first \/ added' - f + 1 >= MaxLen) /\ first' = f
      BY <2>1 DEF PushEntry, XAdd, storeVars
    <3>2. /\ first \in Int /\ added \in Int /\ first' \in Int /\ first' >= first
          /\ added' \in Int
      <4>1. first \in Int /\ added \in Int /\ first' \in Int /\ added' \in Int
        BY <1>1 DEF TypeOK
      <4>2. first' >= first
        BY <1>1, StreamForward
      <4> QED BY <4>1, <4>2
    <3>3. Settled' = Settled
      BY <3>1 DEF Settled
    <3>4. /\ 1..(first - 1) \subseteq 1..(first' - 1)
          /\ \A e \in (1..(first' - 1)) \ (1..(first - 1)) :
               e \in Int /\ e < first' /\ first # first'
      BY <3>2, DroppedBetween
    <3>5. ASSUME NEW e \in (1..(first' - 1)) \ (1..(first - 1))
          PROVE  added' - e >= MaxLen
      <4>1. e \in Int /\ e < first' /\ first # first'
        BY <3>4
      <4>2. added' - first' + 1 >= MaxLen
        BY <3>1, <4>1
      <4> QED BY <3>1, <3>2, <4>1, <4>2, StreamAssumption
    <3> QED BY <3>1, <3>3, <3>4, <3>5 DEF Delivery!Push, Delivery!Next
  <2>2. CASE RespondAccepted(c)
    <3>1. /\ UNCHANGED <<redisVars, stored, tailed>>
          /\ accepted' = accepted \cup sent[c]
      BY <2>2 DEF RespondAccepted, EndRequest, storeVars
    <3>2. sent[c] \subseteq 1..added
      BY <1>1 DEF IInv, ApiInv, TypeOK, Entries
    <3>3. Settled' = Settled /\ first' = first /\ added' = added
      BY <3>1 DEF Settled, redisVars
    <3> QED BY <3>1, <3>2, <3>3 DEF Delivery!Accept, Delivery!Next
  <2>3. CASE (\E n \in 1..MaxPush : StartIngest(c, n)) \/ PushFails(c) \/ PushRetry(c)
    BY <1>3, <2>3 DEF StartIngest, PushFails, EndRequest, PushRetry, redisVars, storeVars
  <2> QED BY <1>4, <2>1, <2>2, <2>3 DEF Ingest
<1>5. ASSUME NEW w \in Workers, Insert(w) \/ InsertFails(w) PROVE Delivery!Next
  <2>1. /\ UNCHANGED <<redisVars, accepted, tailed>>
        /\ stored \subseteq stored'
        /\ stored' \ stored \subseteq Range(batch[w])
    BY <1>5 DEF Insert, InsertFails, apiVars
  <2>2. Range(batch[w]) \subseteq 1..added
    <3>1. ASSUME NEW e \in Range(batch[w]) PROVE e \in 1..added
      <4>1. e \in Entries
        BY <1>1, RangeType DEF TypeOK
      <4>2. e <= delivered
        BY DEF IInv, HandInv, Hand
      <4>3. delivered <= added /\ delivered \in Int /\ added \in Int
        BY <1>1 DEF StreamInv, TypeOK
      <4> QED BY <4>1, <4>2, <4>3 DEF Entries
    <3> QED BY <3>1
  <2>3. Settled' = Settled /\ first' = first /\ added' = added
    BY <2>1 DEF Settled, redisVars
  <2> QED BY <2>1, <2>2, <2>3 DEF Delivery!Store, Delivery!Next
<1>6. ASSUME NEW w \in Workers, Broadcast(w) PROVE Delivery!Next
  <2>1. /\ UNCHANGED <<redisVars, accepted, stored>>
        /\ tailed' = tailed \cup Range(batch[w])
        /\ pc[w] = "tail"
    BY <1>6 DEF Broadcast, apiVars, storeVars
  <2>2. Range(batch[w]) \subseteq stored \cap Settled
    BY <2>1 DEF IInv, FlushInv
  <2>3. Settled' = Settled /\ first' = first /\ added' = added
    BY <2>1 DEF Settled, redisVars
  <2> QED BY <2>1, <2>2, <2>3 DEF Delivery!Show, Delivery!Next
<1>7. ASSUME NEW w \in Workers, Work(w), ~Insert(w), ~InsertFails(w), ~Broadcast(w)
      PROVE  Delivery!Next
  <2>1. UNCHANGED <<apiVars, storeVars, tailed>>
    BY <1>7 DEF Work, SeeDone, Tick, WaitOver, BeginClaim, ClaimStale, ReadOwn,
                ReadNew, ClaimFails, ReplyLost, Ack, AckFails
  <2>2. UNCHANGED <<first, added>>
    BY <1>7 DEF Work, SeeDone, Tick, WaitOver, BeginClaim, ClaimStale, ReadOwn,
                ReadNew, ClaimFails, ReplyLost, Ack, AckFails, redisVars,
                XAutoClaim, XReadOwn, XReadNew, XAck
  <2> QED BY <1>3, <2>1, <2>2 DEF apiVars, storeVars
<1>8. ASSUME NEW e \in Entries, Age(e) PROVE Delivery!Next
  BY <1>3, <1>8 DEF Age, GrowStale, apiVars, storeVars
<1>9. ASSUME NEW active \in SUBSET Workers, Start(active) PROVE Delivery!Next
  BY <1>3, <1>9 DEF Start, redisVars, apiVars, storeVars
<1>10. CASE Signal \/ Exit \/ Crash \/ UNCHANGED vars
  BY <1>3, <1>10 DEF Signal, Exit, Crash, vars, redisVars, apiVars, storeVars
<1> QED BY <1>4, <1>5, <1>6, <1>7, <1>8, <1>9, <1>10 DEF Next

\* The write path delivers at least once out of a bounded buffer.
THEOREM Refinement == Spec => ImplementsDelivery
<1>1. Init => Delivery!Init
  <2> SUFFICES ASSUME Init PROVE Delivery!Init
    OBVIOUS
  <2>1. Settled = {}
    BY DEF Init, RedisInit, Settled, Entries
  <2>2. 1..(first - 1) = {}
    BY DEF Init, RedisInit
  <2> QED BY <2>1, <2>2 DEF Init, RedisInit, Delivery!Init
<1> QED BY <1>1, InvCorrect, DeliveryNext, PTL
        DEF Spec, ImplementsDelivery, Delivery!Spec

-----------------------------------------------------------------------------
(* A batch is bounded.                                                     *)

\* A worker has partial results only between the commands of Claim, and none
\* that is not running has a batch.
Room(w) ==
  /\ Len(batch[w]) + Len(logs[w]) <= BatchSize
  /\ pc[w] \in Commands \cup {"loop", "idle"} => Len(batch[w]) < BatchSize
  /\ pc[w] \notin {"own", "new"} => logs[w] = <<>>
  /\ pc[w] = "exited" => batch[w] = <<>>

RoomInv ==
  /\ \A w \in Workers : Room(w)
  /\ phase = "down" => \A w \in Workers : pc[w] = "exited"

\* A sequence is empty exactly when its length is zero.
LEMMA LenEmpty == \A s \in Seq(Entries) : Len(s) \in Nat /\ (s = <<>> <=> Len(s) = 0)
  OBVIOUS

\* Collect never takes more than the worker asked for.
LEMMA CollectRoom ==
  ASSUME TypeOK, NEW w \in Workers, Room(w), pc[w] \in Commands,
         NEW l \in Seq(Entries), NEW i, NEW next \in {"own", "new", "done"},
         Len(l) <= Remaining(w), Collect(w, l, i, next)
  PROVE  Room(w)' /\ \A v \in Workers : v # w => (Room(v) => Room(v)')
<1> DEFINE ll == logs[w] \o l
           bb == batch[w] \o ll
<1>1. /\ batch \in [Workers -> Seq(Entries)] /\ logs \in [Workers -> Seq(Entries)]
      /\ pc \in [Workers -> PCs]
      /\ BatchSize \in Nat \ {0}
  BY PipelineAssumption DEF TypeOK
<1>2. /\ ll \in Seq(Entries) /\ Len(ll) = Len(logs[w]) + Len(l)
      /\ Len(ll) \in Nat /\ Len(batch[w]) \in Nat
  BY <1>1, RangeConcat, LenEmpty
<1>3. bb \in Seq(Entries) /\ Len(bb) = Len(batch[w]) + Len(ll) /\ Len(bb) \in Nat
  BY <1>1, <1>2, RangeConcat, LenEmpty
<1>4. Len(bb) <= BatchSize /\ Len(batch[w]) < BatchSize
  BY <1>1, <1>2, <1>3, LenEmpty DEF Remaining, Want, Room
<1> HIDE DEF ll, bb
<1>5. CASE EndClaim(w, ll, ids[w] \o i)
  <2>1. CASE ll = <<>>
    BY <1>1, <1>2, <1>4, <1>5, <2>1, LenEmpty
       DEF EndClaim, DropClaim, batchVars, Room, Commands
  <2>2. CASE ll # <<>>
    <3>1. /\ batch' = [batch EXCEPT ![w] = bb]
          /\ logs' = [logs EXCEPT ![w] = <<>>]
          /\ pc' = [pc EXCEPT ![w] = IF Len(bb) >= BatchSize THEN "insert" ELSE "loop"]
      BY <1>5, <2>2 DEF EndClaim, DropClaim, bb
    <3>2. Len(<<>>) = 0
      OBVIOUS
    <3> QED BY <1>1, <1>3, <1>4, <3>1, <3>2 DEF Room, Commands
  <2> QED BY <2>1, <2>2
<1>6. CASE AbandonClaim(w)
  <2>1. /\ batch' = batch
        /\ logs' = [logs EXCEPT ![w] = <<>>]
        /\ pc' = [pc EXCEPT ![w] = IF batch[w] = <<>> THEN "exited" ELSE "insert"]
    BY <1>6 DEF AbandonClaim, DropClaim, Flush, Goto, batchVars
  <2> QED BY <1>1, <1>2, <1>4, <2>1, LenEmpty DEF Room, Commands
<1>7. CASE /\ Len(ll) < Want(w) /\ next \in {"own", "new"}
           /\ pc' = [pc EXCEPT ![w] = next]
           /\ logs' = [logs EXCEPT ![w] = ll]
           /\ batch' = batch
  BY <1>1, <1>2, <1>3, <1>4, <1>7 DEF Room, Commands
<1>8. Want(w) \in Int
  BY <1>1, <1>2 DEF Want
<1>9. \/ EndClaim(w, ll, ids[w] \o i)
      \/ AbandonClaim(w)
      \/ /\ Len(ll) < Want(w) /\ next \in {"own", "new"}
         /\ pc' = [pc EXCEPT ![w] = next]
         /\ logs' = [logs EXCEPT ![w] = ll]
         /\ batch' = batch
  BY <1>2, <1>8 DEF Collect, ll, batchVars
<1> QED BY <1>5, <1>6, <1>7, <1>9

\* The rest of what workers do keeps room for the next claim.
LEMMA RoomNext == TypeOK /\ RoomInv /\ [Next]_vars => RoomInv'
<1> SUFFICES ASSUME TypeOK, RoomInv, [Next]_vars PROVE RoomInv'
  OBVIOUS
<1> USE DEF claimVars, batchVars
<1>1. /\ batch \in [Workers -> Seq(Entries)] /\ logs \in [Workers -> Seq(Entries)]
      /\ pc \in [Workers -> PCs] /\ after \in [Workers -> {"loop", "stale", "exited"}]
      /\ BatchSize \in Nat \ {0}
  BY PipelineAssumption DEF TypeOK
<1>2. \A w \in Workers : Len(logs[w]) \in Nat /\ Len(batch[w]) \in Nat
  BY <1>1, LenEmpty
<1>3. Len(<<>>) = 0 /\ \A w \in Workers : logs[w] = <<>> <=> Len(logs[w]) = 0
  BY <1>1, LenEmpty
<1>4. ASSUME NEW w \in Workers, Work(w)
      PROVE  (\A v \in Workers : Room(v)') /\ phase' = phase /\ phase # "down"
  <2>0. Room(w)
    BY DEF RoomInv
  <2>1. phase' = phase /\ pc[w] # "exited" /\ phase # "down"
    BY <1>4 DEF Work, SeeDone, Tick, WaitOver, BeginClaim, ClaimStale, ReadOwn,
                ReadNew, ClaimFails, ReplyLost, Insert, InsertFails, Ack, AckFails,
                Broadcast, procVars, Commands, RoomInv
  <2> SUFFICES Room(w)' /\ \A v \in Workers : v # w => (Room(v) => Room(v)')
    BY <2>1 DEF RoomInv
  <2>2. ASSUME NEW p \in {"exited", "stale", "loop"}, Flush(w, p),
               pc[w] \in {"loop", "idle"}, UNCHANGED <<batch, logs>>
        PROVE  Room(w)' /\ \A v \in Workers : v # w => (Room(v) => Room(v)')
    <3>1. \/ batch[w] = <<>> /\ pc' = [pc EXCEPT ![w] = Goto(p)]
          \/ pc' = [pc EXCEPT ![w] = "insert"]
      BY <2>2 DEF Flush
    <3> QED BY <1>1, <1>3, <2>0, <2>2, <3>1 DEF Room, Goto, Commands
  <2>3. CASE SeeDone(w)
    BY <2>2, <2>3 DEF SeeDone
  <2>4. CASE Tick(w)
    BY <2>2, <2>4 DEF Tick
  <2>5. CASE WaitOver(w) \/ BeginClaim(w)
    BY <1>1, <2>0, <2>5 DEF WaitOver, BeginClaim, Room, Commands
  <2>6. CASE ClaimStale(w)
    <3>1. PICK due \in DueReplies(Want(w)) :
            \E l \in Ascending(Live(due)) : Collect(w, l, l, "own")
      BY <2>6 DEF ClaimStale
    <3>2. PICK l \in Ascending(Live(due)) : Collect(w, l, l, "own")
      BY <3>1
    <3>3. /\ due \in SUBSET Entries /\ Cardinality(due) <= Want(w)
          /\ Live(due) \in SUBSET due /\ Live(due) \in SUBSET Entries
      BY ReplyType DEF Live
    <3>4. Cardinality(Live(due)) <= Cardinality(due) /\ Cardinality(due) \in Nat
      BY <3>3, FS_Subset, EntriesFinite
    <3>5. l \in Seq(Entries) /\ Len(l) = Cardinality(Live(due)) /\ Len(l) \in Nat
      BY <3>3, AscendingType, LenEmpty
    <3>6. pc[w] = "stale" /\ Len(logs[w]) = 0
      BY <1>3, <2>0, <2>6 DEF ClaimStale, Room
    <3>7. Want(w) \in Int
      BY <1>1, <1>2 DEF Want
    <3>8. Len(l) <= Remaining(w)
      BY <3>3, <3>4, <3>5, <3>6, <3>7 DEF Remaining
    <3> QED BY <2>0, <3>2, <3>5, <3>6, <3>8, CollectRoom DEF Commands
  <2>7. CASE ReadOwn(w)
    <3>1. PICK own \in OwnReplies(w, Remaining(w)) :
            \E l \in Ascending(Live(own)), i \in Ascending(own) : Collect(w, l, i, "new")
      BY <2>7 DEF ReadOwn
    <3>2. PICK l \in Ascending(Live(own)), i \in Ascending(own) : Collect(w, l, i, "new")
      BY <3>1
    <3>3. /\ own \in SUBSET Entries /\ Cardinality(own) <= Remaining(w)
          /\ Live(own) \in SUBSET own /\ Live(own) \in SUBSET Entries
      BY ReplyType DEF Live
    <3>4. Cardinality(Live(own)) <= Cardinality(own) /\ Cardinality(own) \in Nat
      BY <3>3, FS_Subset, EntriesFinite
    <3>5. l \in Seq(Entries) /\ Len(l) = Cardinality(Live(own)) /\ Len(l) \in Nat
      BY <3>3, AscendingType, LenEmpty
    <3>6. Remaining(w) \in Int
      BY <1>1, <1>2 DEF Want, Remaining
    <3>7. Len(l) <= Remaining(w) /\ pc[w] = "own"
      BY <2>7, <3>3, <3>4, <3>5, <3>6 DEF ReadOwn
    <3> QED BY <2>0, <3>2, <3>5, <3>7, CollectRoom DEF Commands
  <2>8. CASE ReadNew(w)
    <3>1. PICK new \in NewReplies(Remaining(w)) :
            \E l \in Ascending(new) : Collect(w, l, l, "done")
      BY <2>8 DEF ReadNew
    <3>2. PICK l \in Ascending(new) : Collect(w, l, l, "done")
      BY <3>1
    <3>3. new \in SUBSET Entries /\ Cardinality(new) <= Remaining(w)
      BY ReplyType
    <3>4. l \in Seq(Entries) /\ Len(l) = Cardinality(new)
      BY <3>3, AscendingType
    <3>5. pc[w] = "new"
      BY <2>8 DEF ReadNew
    <3> QED BY <2>0, <3>2, <3>3, <3>4, <3>5, CollectRoom DEF Commands
  <2>9. ASSUME AbandonClaim(w), pc[w] \in Commands
        PROVE  Room(w)' /\ \A v \in Workers : v # w => (Room(v) => Room(v)')
    <3>1. /\ batch' = batch
          /\ logs' = [logs EXCEPT ![w] = <<>>]
          /\ pc' = [pc EXCEPT ![w] = IF batch[w] = <<>> THEN "exited" ELSE "insert"]
      BY <2>9 DEF AbandonClaim, DropClaim, Flush, Goto
    <3> QED BY <1>1, <1>2, <1>3, <2>0, <2>9, <3>1 DEF Room, Commands
  <2>10. CASE ClaimFails(w)
    <3>1. CASE /\ logs' = [logs EXCEPT ![w] = <<>>]
               /\ pc' = [pc EXCEPT ![w] = "loop"]
               /\ batch' = batch /\ pc[w] \in Commands
      BY <1>1, <1>2, <1>3, <2>0, <3>1 DEF Room, Commands
    <3> QED BY <2>9, <2>10, <3>1 DEF ClaimFails, DropClaim
  <2>11. CASE ReplyLost(w)
    <3>1. \/ AbandonClaim(w) /\ pc[w] \in Commands
          \/ UNCHANGED <<pc, batch, logs>>
      BY <2>11 DEF ReplyLost, Commands
    <3>2. CASE UNCHANGED <<pc, batch, logs>>
      BY <2>0, <3>2 DEF Room
    <3> QED BY <2>9, <3>1, <3>2
  <2>12. CASE Insert(w) \/ Ack(w)
    BY <1>1, <2>0, <2>12 DEF Insert, Ack, Room, Commands
  <2>13. CASE InsertFails(w) \/ AckFails(w) \/ Broadcast(w)
    <3>1. /\ batch' = [batch EXCEPT ![w] = <<>>]
          /\ logs' = logs
          /\ pc' = [pc EXCEPT ![w] = Goto(after[w])]
          /\ pc[w] \in {"insert", "ack", "tail"}
      BY <2>13 DEF InsertFails, AckFails, Broadcast, EndFlush
    <3>2. Goto(after[w]) \in {"loop", "stale", "exited"} /\ logs[w] = <<>>
      BY <1>1, <2>0, <3>1 DEF Goto, Room
    <3> QED BY <1>1, <1>3, <3>1, <3>2 DEF Room, Commands
  <2> QED BY <1>4, <2>3, <2>4, <2>5, <2>6, <2>7, <2>8, <2>10, <2>11, <2>12, <2>13
          DEF Work
<1>5. ASSUME UNCHANGED <<pc, batch, logs>>,
             phase' = "down" => \A w \in Workers : pc[w] = "exited"
      PROVE  RoomInv'
  BY <1>5 DEF RoomInv, Room
<1>6. ASSUME NEW c \in Clients, Ingest(c) PROVE RoomInv'
  <2>1. UNCHANGED <<pc, batch, logs, phase>>
    BY <1>6 DEF Ingest, StartIngest, PushEntry, RespondAccepted, PushFails,
                PushRetry, EndRequest, procVars
  <2> QED BY <1>5, <2>1 DEF RoomInv
<1>7. ASSUME NEW e \in Entries, Age(e) PROVE RoomInv'
  BY <1>5, <1>7 DEF Age, procVars, RoomInv
<1>8. ASSUME NEW active \in SUBSET Workers, Start(active) PROVE RoomInv'
  <2>1. /\ UNCHANGED <<batch, logs>> /\ phase' = "up"
        /\ \A w \in Workers : pc'[w] \in {"loop", "exited"} /\ pc[w] = "exited"
    BY <1>8 DEF Start, RoomInv
  <2> QED BY <1>1, <1>3, <2>1 DEF RoomInv, Room, Commands
<1>9. CASE Signal \/ Exit \/ UNCHANGED vars
  BY <1>5, <1>9 DEF Signal, Exit, vars, procVars, RoomInv
<1>10. CASE Crash
  <2>1. \A w \in Workers : pc'[w] = "exited" /\ batch'[w] = <<>> /\ logs'[w] = <<>>
    BY <1>10 DEF Crash
  <2>2. ASSUME NEW w \in Workers PROVE Room(w)'
    <3>1. Len(batch'[w]) = 0 /\ Len(logs'[w]) = 0 /\ 0 < BatchSize
      BY <1>1, <1>3, <2>1
    <3> QED BY <1>1, <2>1, <3>1 DEF Room, Commands
  <2> QED BY <2>1, <2>2 DEF RoomInv
<1>11. ASSUME NEW w \in Workers, Work(w) PROVE RoomInv'
  BY <1>4, <1>11 DEF RoomInv
<1> QED BY <1>6, <1>7, <1>8, <1>9, <1>10, <1>11 DEF Next

\* No worker holds more than a batch, nor finds a full one in its loop.
THEOREM Bounded == Spec => []BatchBounded
<1>1. Init => RoomInv
  <2>1. Len(<<>>) = 0
    OBVIOUS
  <2> QED BY <2>1, PipelineAssumption DEF Init, RoomInv, Room, Commands
<1>2. RoomInv => BatchBounded
  BY DEF RoomInv, Room, BatchBounded
<1> QED BY <1>1, <1>2, RoomNext, TypeCorrect, PTL DEF Spec
=============================================================================
