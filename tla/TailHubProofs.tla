---------------------------- MODULE TailHubProofs ----------------------------
(***************************************************************************)
(* Theorems about TailHub, for any number of workers, tails and logs and   *)
(* any capacity of the channels.                                           *)
(***************************************************************************)
EXTENDS TailHub, FiniteSetTheorems, TLAPS

\* A subscriber's channel is open, and a worker that has picked a subscriber
\* to send to is inside the lock, so that its channel stays open.
PickInv ==
  /\ subs \subseteq open
  /\ target \in [Workers -> Tails \cup {Nobody}]
  /\ \A b \in Workers : target[b] # Nobody => b \in readers /\ target[b] \in open

\* It holds initially: nobody sends and nobody is subscribed.
LEMMA PickInit == Init => PickInv
  BY DEF Init, PickInv

\* Steps of Broadcast keep it: only the worker itself leaves the lock, and
\* only between two sends.
LEMMA PickCast ==
  ASSUME PickInv, NEW b \in Workers, Cast(b)
  PROVE  PickInv'
<1> USE DEF PickInv
<1>1. CASE \E batch \in Batches : Broadcast(b, batch)
  BY <1>1 DEF Broadcast, RLock, subVars, connVars
<1>2. ASSUME NEW t \in Tails, Pick(b, t) PROVE PickInv'
  BY <1>2 DEF Pick, lockVars, subVars, connVars
<1>3. CASE Send(b)
  BY <1>3 DEF Send, lockVars, subVars, connVars
<1>4. CASE NextLog(b)
  BY <1>4 DEF NextLog, RUnlock, lockVars, subVars, connVars
<1> QED BY <1>1, <1>2, <1>3, <1>4 DEF Cast

\* Steps of a handler keep it: a channel is closed, and a subscriber comes,
\* only when nobody is inside the lock.
LEMMA PickServe ==
  ASSUME PickInv, NEW t \in Tails, Serve(t)
  PROVE  PickInv'
<1> USE DEF PickInv
<1>1. CASE Subscribe(t)
  BY <1>1 DEF Subscribe, Holds, Unlock, castVars
<1>2. CASE Unsubscribe(t)
  BY <1>2 DEF Unsubscribe, Holds, Unlock, castVars
<1>3. CASE Lock(t)
  BY <1>3 DEF Lock, subVars, castVars
<1>4. CASE \E f \in Filters : Dial(t, f)
  BY <1>4 DEF Dial, lockVars, castVars
<1>5. CASE \/ HangUp(t) \/ SeeClosed(t) \/ Receive(t) \/ Ping(t)
           \/ WriteDone(t) \/ WriteFails(t)
  BY <1>5 DEF HangUp, SeeClosed, Receive, Ping, WriteDone, WriteFails,
     lockVars, subVars, castVars
<1> QED BY <1>1, <1>2, <1>3, <1>4, <1>5 DEF Serve

\* The invariant is inductive.
LEMMA PickNext == PickInv /\ [Next]_vars => PickInv'
<1> SUFFICES ASSUME PickInv, [Next]_vars PROVE PickInv'
  OBVIOUS
<1>1. CASE Next
  BY <1>1, PickCast, PickServe DEF Next
<1>2. CASE UNCHANGED vars
  BY <1>2 DEF PickInv, vars, lockVars, subVars, castVars
<1> QED BY <1>1, <1>2

\* However many workers broadcast while tails come and go, Broadcast never
\* sends on a channel that unsubscribe has closed (hub.go 60, 73-76).
THEOREM SendsOnOpen == Spec => []NoSendOnClosed
<1>1. PickInv => NoSendOnClosed
  BY DEF PickInv, NoSendOnClosed
<1> QED BY <1>1, PickInit, PickNext, PTL DEF Spec

-----------------------------------------------------------------------------
(* Order.                                                                  *)

Log == Workers \X Nat

\* No log of a worker stands before one the worker has broadcast earlier.
Ordered(s) ==
  \A i, j \in DOMAIN s : i < j /\ s[i][1] = s[j][1] => s[i][2] < s[j][2]

\* Worker l[1] has offered l to tail t.
Offered(t, l) ==
  \/ l[2] <= pos[l[1]]
  \/ l[2] = pos[l[1]] + 1 /\ t \in visited[l[1]]

\* The types the proof needs.
TailTypes ==
  /\ subs \subseteq Tails
  /\ chan \in [Tails -> Seq(Log)]
  /\ got \in [Tails -> Seq(Log)]
  /\ holding \in [Tails -> Log \cup {Nobody}]
  /\ handler \in [Tails -> {"none", "subscribe", "select", "write", "cancel"}]
  /\ pos \in [Workers -> Nat]
  /\ visited \in [Workers -> SUBSET Tails]
  /\ target \in [Workers -> Tails \cup {Nobody}]

\* A handler holds a log only while it writes, a new one has written nothing,
\* and only those in their loop or on their way out are subscribed.
HandlerInv ==
  \A t \in Tails :
    /\ handler[t] # "write" => holding[t] = Nobody
    /\ handler[t] = "subscribe" => got[t] = <<>>
    /\ t \in subs => handler[t] \in {"select", "write", "cancel"}

\* A worker sends its log to a subscriber that it has not offered it to.
TargetInv == \A b \in Workers : target[b] # Nobody => target[b] \notin visited[b]

StreamInv ==
  \A t \in subs : /\ Ordered(Stream(t))
                  /\ \A i \in DOMAIN Stream(t) : Offered(t, Stream(t)[i])

OrderInv == TailTypes /\ HandlerInv /\ TargetInv /\ StreamInv

\* What a subscriber's stream is made of.
LEMMA StreamType ==
  ASSUME TailTypes, NEW t \in Tails
  PROVE  Stream(t) \in Seq(Log)
<1>1. got[t] \in Seq(Log) /\ chan[t] \in Seq(Log) /\ holding[t] \in Log \cup {Nobody}
  BY DEF TailTypes
<1>2. (IF holding[t] = Nobody THEN <<>> ELSE <<holding[t]>>) \in Seq(Log)
  BY <1>1
<1> QED BY <1>1, <1>2 DEF Stream

\* A log goes at the end of the channel.
LEMMA AppendLast ==
  ASSUME NEW s \in Seq(Log), NEW u \in Seq(Log), NEW c \in Seq(Log), NEW l \in Log
  PROVE  s \o u \o Append(c, l) = Append(s \o u \o c, l)
  OBVIOUS

\* The handler takes the channel's first log.
LEMMA MoveHead ==
  ASSUME NEW s \in Seq(Log), NEW c \in Seq(Log), c # <<>>
  PROVE  s \o <<Head(c)>> \o Tail(c) = s \o <<>> \o c
  OBVIOUS

\* The log that was being written is written.
LEMMA MoveWritten ==
  ASSUME NEW s \in Seq(Log), NEW c \in Seq(Log), NEW l \in Log
  PROVE  Append(s, l) \o <<>> \o c = s \o <<l>> \o c
  OBVIOUS

\* A log that comes after all others of its worker keeps the order.
LEMMA OrderedAppend ==
  ASSUME NEW s \in Seq(Log), NEW l \in Log, Ordered(s),
         \A i \in DOMAIN s : s[i][1] = l[1] => s[i][2] < l[2]
  PROVE  Ordered(Append(s, l))
  BY DEF Ordered

\* Without the log that could not be written the order is the same.
LEMMA OrderedWithout ==
  ASSUME NEW s \in Seq(Log), NEW c \in Seq(Log), NEW l \in Log, Ordered(s \o <<l>> \o c)
  PROVE  /\ Ordered(s \o <<>> \o c)
         /\ \A i \in DOMAIN (s \o <<>> \o c) :
              \E j \in DOMAIN (s \o <<l>> \o c) :
                (s \o <<>> \o c)[i] = (s \o <<l>> \o c)[j]
<1> DEFINE full == s \o <<l>> \o c
           less == s \o <<>> \o c
           at(i) == IF i <= Len(s) THEN i ELSE i + 1
<1>1. full \in Seq(Log) /\ less \in Seq(Log) /\ Len(full) = Len(s) + 1 + Len(c)
      /\ Len(less) = Len(s) + Len(c)
  OBVIOUS
<1>2. \A i \in 1..Len(less) : at(i) \in 1..Len(full) /\ less[i] = full[at(i)]
  <2> SUFFICES ASSUME NEW i \in 1..Len(less)
               PROVE  at(i) \in 1..Len(full) /\ less[i] = full[at(i)]
    OBVIOUS
  <2>1. CASE i <= Len(s)
    BY <2>1, <1>1
  <2>2. CASE i > Len(s)
    BY <2>2, <1>1
  <2> QED BY <2>1, <2>2
<1>3. DOMAIN less = 1..Len(less) /\ DOMAIN full = 1..Len(full)
  BY <1>1
<1>4. \A i, j \in 1..Len(less) : i < j => at(i) < at(j)
  BY <1>1
<1>5. Ordered(full)
  OBVIOUS
<1> HIDE DEF full, less, at
<1>6. Ordered(less)
  BY <1>2, <1>3, <1>4, <1>5 DEF Ordered
<1> QED BY <1>2, <1>3, <1>6 DEF full, less

\* A stream that no step has touched keeps what holds of it: a worker goes on
\* only to later logs, and it forgets whom it has visited only then.
LEMMA StreamKept ==
  ASSUME TailTypes, NEW t \in Tails, Stream(t)' = Stream(t),
         Ordered(Stream(t)), \A i \in DOMAIN Stream(t) : Offered(t, Stream(t)[i]),
         \A b \in Workers :
           \/ pos'[b] = pos[b] /\ visited[b] \subseteq visited'[b]
           \/ pos'[b] = pos[b] + 1
  PROVE  /\ Ordered(Stream(t)')
         /\ \A i \in DOMAIN Stream(t)' : Offered(t, Stream(t)[i])'
<1>1. ASSUME NEW i \in DOMAIN Stream(t) PROVE Offered(t, Stream(t)[i])'
  <2>1. Stream(t) \in Seq(Log)
    BY StreamType
  <2>2. PICK b \in Workers, n \in Nat : Stream(t)[i] = <<b, n>>
    BY <2>1 DEF Log
  <2>3. Offered(t, <<b, n>>)
    BY <2>2
  <2>4. pos[b] \in Nat
    BY DEF TailTypes
  <2>5. \/ n <= pos'[b]
        \/ n = pos'[b] + 1 /\ t \in visited'[b]
    BY <2>3, <2>4 DEF Offered
  <2> QED BY <2>2, <2>5 DEF Offered
<1> QED BY <1>1

\* The same of all subscribers at once.
LEMMA StreamsKept ==
  ASSUME TailTypes, StreamInv, subs' \subseteq subs,
         \A t \in subs' : Stream(t)' = Stream(t),
         \A b \in Workers :
           \/ pos'[b] = pos[b] /\ visited[b] \subseteq visited'[b]
           \/ pos'[b] = pos[b] + 1
  PROVE  StreamInv'
<1>1. ASSUME NEW t \in subs'
      PROVE  /\ Ordered(Stream(t)')
             /\ \A i \in DOMAIN Stream(t)' : Offered(t, Stream(t)[i])'
  <2>1. t \in subs /\ t \in Tails
    BY DEF TailTypes
  <2>2. Stream(t)' = Stream(t)
    OBVIOUS
  <2>3. Ordered(Stream(t)) /\ \A i \in DOMAIN Stream(t) : Offered(t, Stream(t)[i])
    BY <2>1 DEF StreamInv
  <2> QED BY <2>1, <2>2, <2>3, StreamKept
<1> QED BY <1>1 DEF StreamInv, Ordered

\* A log sent to t stands at the end of its stream, after all others of the
\* worker that sends it, and of that worker t has now been offered all.
LEMMA SendKeeps ==
  ASSUME OrderInv, NEW b \in Workers, Send(b), NEW u \in subs
  PROVE  /\ Ordered(Stream(u)')
         /\ \A i \in DOMAIN Stream(u)' : Offered(u, Stream(u)[i])'
<1> USE DEF OrderInv
<1> DEFINE l == Current(b)
<1>1. /\ target[b] \in Tails
      /\ target[b] \notin visited[b]
      /\ UNCHANGED <<subs, got, holding, pos>>
  BY DEF Send, TailTypes, TargetInv, subVars, connVars
<1>2. visited' = [visited EXCEPT ![b] = @ \cup {target[b]}]
  BY DEF Send
<1>3. l = <<b, pos[b] + 1>> /\ l \in Log /\ pos[b] \in Nat
  BY DEF Current, Log, TailTypes
<1>4. chan' = chan \/ chan' = [chan EXCEPT ![target[b]] = Append(@, l)]
  BY DEF Send
<1>5. \A d \in Workers : pos'[d] = pos[d] /\ visited[d] \subseteq visited'[d]
  BY <1>1, <1>2 DEF TailTypes
<1>6. u \in Tails /\ Stream(u) \in Seq(Log)
  BY StreamType DEF TailTypes
<1>7. Ordered(Stream(u)) /\ \A i \in DOMAIN Stream(u) : Offered(u, Stream(u)[i])
  BY DEF StreamInv
<1>8. CASE chan'[u] = chan[u]
  <2>1. Stream(u)' = Stream(u)
    BY <1>8, <1>1 DEF Stream
  <2> QED BY <2>1, <1>5, <1>6, <1>7, StreamKept
<1>9. CASE chan'[u] # chan[u]
  <2>1. u = target[b] /\ chan'[u] = Append(chan[u], l)
    BY <1>9, <1>4, <1>6 DEF TailTypes
  <2>2. Stream(u)' = Append(Stream(u), l)
    <3> DEFINE mid == IF holding[u] = Nobody THEN <<>> ELSE <<holding[u]>>
    <3>1. got[u] \in Seq(Log) /\ chan[u] \in Seq(Log) /\ mid \in Seq(Log)
      BY <1>6 DEF TailTypes
    <3>2. Stream(u) = got[u] \o mid \o chan[u]
      BY DEF Stream
    <3>3. got'[u] = got[u] /\ holding'[u] = holding[u] /\ mid' = mid
      BY <1>1
    <3>4. Stream(u)' = got'[u] \o mid' \o chan'[u]
      BY DEF Stream
    <3>5. Stream(u)' = got[u] \o mid \o Append(chan[u], l)
      BY <3>3, <3>4, <2>1
    <3>6. l \in Log
      BY <1>3
    <3> HIDE DEF mid, l
    <3>7. got[u] \o mid \o Append(chan[u], l) = Append(got[u] \o mid \o chan[u], l)
      BY <3>1, <3>6, AppendLast
    <3> QED BY <3>2, <3>5, <3>7
  <2>3. ASSUME NEW i \in DOMAIN Stream(u)
        PROVE  /\ Offered(u, Stream(u)[i])'
               /\ Stream(u)[i][1] = b => Stream(u)[i][2] < pos[b] + 1
    <3>1. PICK d \in Workers, n \in Nat : Stream(u)[i] = <<d, n>>
      BY <1>6 DEF Log
    <3>2. Stream(u)'[i] = Stream(u)[i]
      BY <1>3, <1>6, <2>2
    <3>3. Offered(u, <<d, n>>)
      BY <1>7, <3>1
    <3>4. n <= pos'[d] \/ (n = pos'[d] + 1 /\ u \in visited'[d])
      BY <3>3, <1>5 DEF Offered
    <3>5. d = b => n < pos[b] + 1
      BY <3>3, <1>1, <1>3, <2>1 DEF Offered
    <3> QED BY <3>1, <3>2, <3>4, <3>5 DEF Offered
  <2>4. Ordered(Append(Stream(u), l))
    <3>1. \A i \in DOMAIN Stream(u) : Stream(u)[i][1] = l[1] => Stream(u)[i][2] < l[2]
      BY <1>3, <2>3
    <3> HIDE DEF l
    <3> QED BY <1>3, <1>6, <1>7, <3>1, OrderedAppend
  <2>5. Offered(u, l)'
    <3>1. pos'[b] = pos[b] /\ u \in visited'[b] /\ Current(b)' = Current(b)
      BY <1>1, <1>2, <2>1 DEF TailTypes, Current
    <3> QED BY <3>1, <1>3 DEF Offered
  <2>6. \A i \in DOMAIN Stream(u)' :
          i \in DOMAIN Stream(u) \/ Stream(u)'[i] = l
    BY <1>3, <1>6, <2>2
  <2>7. Current(b)' = l
    BY <1>1 DEF Current
  <2> QED BY <2>2, <2>3, <2>4, <2>5, <2>6, <2>7 DEF Offered
<1> QED BY <1>8, <1>9

\* The steps of Broadcast keep the order.
LEMMA OrderCast ==
  ASSUME OrderInv, NEW b \in Workers, Cast(b)
  PROVE  OrderInv'
<1> USE DEF OrderInv
<1>1. ASSUME UNCHANGED <<subs, chan, got, holding, handler>>
      PROVE  /\ HandlerInv'
             /\ \A t \in subs' : Stream(t)' = Stream(t)
  BY <1>1 DEF HandlerInv, Stream
<1>2. CASE \E batch \in Batches : Broadcast(b, batch)
  <2>1. UNCHANGED <<subs, chan, got, holding, handler, pos, visited, target>>
    BY <1>2 DEF Broadcast, subVars, connVars
  <2>2. StreamInv'
    BY <1>1, <2>1, StreamsKept
  <2> QED BY <1>1, <2>1, <2>2 DEF TailTypes, TargetInv
<1>3. ASSUME NEW t \in Tails, Pick(b, t) PROVE OrderInv'
  <2>1. UNCHANGED <<subs, chan, got, holding, handler, pos, visited>>
    BY <1>3 DEF Pick, subVars, connVars
  <2>2. StreamInv'
    BY <1>1, <2>1, StreamsKept
  <2>3. t \notin visited[b] /\ target' = [target EXCEPT ![b] = t]
    BY <1>3 DEF Pick
  <2> QED BY <1>1, <2>1, <2>2, <2>3 DEF TailTypes, TargetInv
<1>4. CASE Send(b)
  <2>1. /\ UNCHANGED <<subs, got, holding, handler, pos>>
        /\ visited' = [visited EXCEPT ![b] = @ \cup {target[b]}]
        /\ target' = [target EXCEPT ![b] = Nobody]
        /\ target[b] \in Tails
        /\ chan' = chan \/ chan' = [chan EXCEPT ![target[b]] = Append(@, Current(b))]
    BY <1>4 DEF Send, TailTypes, subVars, connVars
  <2>2. Current(b) \in Log
    BY DEF Current, Log, TailTypes
  <2>3. TailTypes'
    <3>1. Append(chan[target[b]], Current(b)) \in Seq(Log)
      BY <2>1, <2>2 DEF TailTypes
    <3>2. chan' \in [Tails -> Seq(Log)]
      BY <2>1, <3>1 DEF TailTypes
    <3> QED BY <2>1, <3>2 DEF TailTypes
  <2>4. HandlerInv'
    BY <2>1 DEF HandlerInv
  <2>5. TargetInv'
    BY <2>1 DEF TargetInv, TailTypes
  <2>6. StreamInv'
    BY <1>4, <2>1, SendKeeps DEF StreamInv, Ordered
  <2> QED BY <2>3, <2>4, <2>5, <2>6
<1>5. CASE NextLog(b)
  <2>1. /\ UNCHANGED <<subs, chan, got, holding, handler, target>>
        /\ pos' = [pos EXCEPT ![b] = @ + 1]
        /\ visited' = [visited EXCEPT ![b] = {}]
        /\ target[b] = Nobody
    BY <1>5 DEF NextLog, subVars, connVars
  <2>2. StreamInv'
    BY <1>1, <2>1, StreamsKept DEF TailTypes
  <2> QED BY <1>1, <2>1, <2>2 DEF TailTypes, TargetInv
<1> QED BY <1>2, <1>3, <1>4, <1>5 DEF Cast

\* What the handler moves from its channel to the client stays in its place.
LEMMA ServeStream ==
  ASSUME OrderInv, NEW t \in Tails, Receive(t) \/ WriteDone(t)
  PROVE  \A u \in Tails : Stream(u)' = Stream(u)
<1> USE DEF OrderInv
<1> SUFFICES ASSUME NEW u \in Tails PROVE Stream(u)' = Stream(u)
  OBVIOUS
<1>1. CASE Receive(t)
  <2>1. /\ chan[t] # <<>> /\ got' = got
        /\ chan' = [chan EXCEPT ![t] = Tail(@)]
        /\ holding' = [holding EXCEPT ![t] = Head(chan[t])]
        /\ holding[t] = Nobody
    BY <1>1 DEF Receive, HandlerInv
  <2>2. /\ got[t] \in Seq(Log) /\ chan[t] \in Seq(Log)
        /\ Head(chan[t]) \in Log /\ Head(chan[t]) # Nobody
    BY <2>1, TailAssumption DEF TailTypes, Log
  <2>3. CASE u = t
    <3>1. Stream(t) = got[t] \o <<>> \o chan[t]
      BY <2>1 DEF Stream
    <3>2. holding'[t] = Head(chan[t]) /\ chan'[t] = Tail(chan[t]) /\ got'[t] = got[t]
      BY <2>1 DEF TailTypes
    <3>3. Stream(t)' = got[t] \o <<Head(chan[t])>> \o Tail(chan[t])
      BY <2>2, <3>2 DEF Stream
    <3> QED BY <2>1, <2>2, <2>3, <3>1, <3>3, MoveHead
  <2>4. CASE u # t
    <3>1. holding'[u] = holding[u] /\ chan'[u] = chan[u] /\ got'[u] = got[u]
      BY <2>1, <2>4 DEF TailTypes
    <3> QED BY <3>1 DEF Stream
  <2> QED BY <2>3, <2>4
<1>2. CASE WriteDone(t)
  <2>1. /\ chan' = chan
        /\ holding' = [holding EXCEPT ![t] = Nobody]
        /\ got' = IF holding[t] = Nobody THEN got
                  ELSE [got EXCEPT ![t] = Append(@, holding[t])]
    BY <1>2 DEF WriteDone
  <2>2. got[t] \in Seq(Log) /\ chan[t] \in Seq(Log) /\ holding[t] \in Log \cup {Nobody}
    BY DEF TailTypes
  <2>3. CASE u = t /\ holding[t] # Nobody
    <3>1. Stream(t) = got[t] \o <<holding[t]>> \o chan[t]
      BY <2>3 DEF Stream
    <3>2. holding'[t] = Nobody /\ chan'[t] = chan[t] /\ got'[t] = Append(got[t], holding[t])
      BY <2>1, <2>3 DEF TailTypes
    <3>3. Stream(t)' = Append(got[t], holding[t]) \o <<>> \o chan[t]
      BY <3>2 DEF Stream
    <3> QED BY <2>2, <2>3, <3>1, <3>3, MoveWritten
  <2>4. CASE u # t \/ holding[t] = Nobody
    <3>1. holding'[u] = holding[u] /\ chan'[u] = chan[u] /\ got'[u] = got[u]
      BY <2>1, <2>4 DEF TailTypes
    <3> QED BY <3>1 DEF Stream
  <2> QED BY <2>3, <2>4
<1> QED BY <1>1, <1>2

\* A log that cannot be written is left out.
LEMMA FailKeeps ==
  ASSUME OrderInv, NEW t \in Tails, WriteFails(t), NEW u \in subs
  PROVE  /\ Ordered(Stream(u)')
         /\ \A i \in DOMAIN Stream(u)' : Offered(u, Stream(u)[i])'
<1> USE DEF OrderInv
<1>1. /\ UNCHANGED <<chan, got, pos, visited>>
      /\ holding' = [holding EXCEPT ![t] = Nobody]
  BY DEF WriteFails, castVars
<1>2. u \in Tails /\ Ordered(Stream(u)) /\ \A i \in DOMAIN Stream(u) : Offered(u, Stream(u)[i])
  BY DEF TailTypes, StreamInv
<1>3. CASE u # t \/ holding[t] = Nobody
  <2>1. holding'[u] = holding[u] /\ chan'[u] = chan[u] /\ got'[u] = got[u]
    BY <1>1, <1>2, <1>3 DEF TailTypes
  <2>2. Stream(u)' = Stream(u)
    BY <2>1 DEF Stream
  <2> QED BY <1>1, <1>2, <2>2, StreamKept
<1>4. CASE u = t /\ holding[t] # Nobody
  <2>1. got[t] \in Seq(Log) /\ chan[t] \in Seq(Log) /\ holding[t] \in Log
    BY <1>4 DEF TailTypes
  <2>2. Stream(t) = got[t] \o <<holding[t]>> \o chan[t]
    BY <1>4 DEF Stream
  <2>3. Stream(t)' = got[t] \o <<>> \o chan[t]
    BY <1>1, <1>4 DEF Stream, TailTypes
  <2>4. Ordered(got[t] \o <<holding[t]>> \o chan[t])
    BY <1>2, <1>4, <2>2
  <2> DEFINE full == got[t] \o <<holding[t]>> \o chan[t]
             less == got[t] \o <<>> \o chan[t]
  <2>5. Ordered(less) /\ \A i \in DOMAIN less : \E j \in DOMAIN full : less[i] = full[j]
    BY <2>1, <2>4, OrderedWithout
  <2> HIDE DEF full, less
  <2>6. Stream(t) = full /\ Stream(t)' = less
    BY <2>2, <2>3 DEF full, less
  <2>7. ASSUME NEW i \in DOMAIN Stream(t)' PROVE Offered(t, Stream(t)[i])'
    <3>1. PICK j \in DOMAIN Stream(t) : Stream(t)'[i] = Stream(t)[j]
      BY <2>5, <2>6
    <3>2. Offered(t, Stream(t)[j])
      BY <1>2, <1>4
    <3> QED BY <1>1, <3>1, <3>2 DEF Offered
  <2> QED BY <1>4, <2>5, <2>6, <2>7
<1> QED BY <1>3, <1>4

\* The steps of a handler and its client keep the order.
LEMMA OrderServe ==
  ASSUME OrderInv, NEW t \in Tails, Serve(t)
  PROVE  OrderInv'
<1> USE DEF OrderInv
<1>1. UNCHANGED <<pos, visited, target>>
  BY DEF Serve, Dial, Lock, Subscribe, Unsubscribe, HangUp, SeeClosed, Receive,
         Ping, WriteDone, WriteFails, castVars
<1>2. TargetInv'
  BY <1>1 DEF TargetInv
<1>3. ASSUME UNCHANGED <<chan, got, holding>>
      PROVE  \A u \in subs' : Stream(u)' = Stream(u)
  BY <1>3 DEF Stream
<1>4. CASE \E f \in Filters : Dial(t, f)
  <2>1. /\ UNCHANGED <<subs, chan, holding>>
        /\ got' = [got EXCEPT ![t] = <<>>]
        /\ handler[t] = "none"
        /\ handler' = [handler EXCEPT ![t] = "subscribe"]
    BY <1>4 DEF Dial
  <2>2. TailTypes' /\ HandlerInv'
    BY <1>1, <2>1 DEF TailTypes, HandlerInv
  <2>3. \A u \in subs' : got'[u] = got[u]
    BY <2>1 DEF HandlerInv, TailTypes
  <2>4. \A u \in subs' : Stream(u)' = Stream(u)
    BY <2>1, <2>3 DEF Stream
  <2> QED BY <1>1, <1>2, <2>1, <2>2, <2>4, StreamsKept
<1>5. CASE Subscribe(t)
  <2>1. /\ UNCHANGED <<got, holding>>
        /\ chan' = [chan EXCEPT ![t] = <<>>]
        /\ subs' = subs \cup {t}
        /\ handler[t] = "subscribe"
        /\ handler' = [handler EXCEPT ![t] = "select"]
    BY <1>5 DEF Subscribe
  <2>2. TailTypes' /\ HandlerInv'
    BY <1>1, <2>1 DEF TailTypes, HandlerInv
  <2>3. Stream(t)' = <<>>
    <3>1. got'[t] = <<>> /\ holding'[t] = Nobody /\ chan'[t] = <<>>
      BY <2>1 DEF HandlerInv, TailTypes
    <3> QED BY <3>1 DEF Stream
  <2>4. ASSUME NEW u \in subs', u # t
        PROVE  /\ Ordered(Stream(u)')
               /\ \A i \in DOMAIN Stream(u)' : Offered(u, Stream(u)[i])'
    <3>1. u \in subs /\ u \in Tails
      BY <2>1, <2>4 DEF TailTypes
    <3>2. chan'[u] = chan[u] /\ got'[u] = got[u] /\ holding'[u] = holding[u]
      BY <2>1, <2>4, <3>1 DEF TailTypes
    <3>3. Stream(u)' = Stream(u)
      BY <3>2 DEF Stream
    <3>4. Ordered(Stream(u)) /\ \A i \in DOMAIN Stream(u) : Offered(u, Stream(u)[i])
      BY <3>1 DEF StreamInv
    <3> QED BY <1>1, <3>1, <3>3, <3>4, StreamKept
  <2>5. Ordered(<<>>) /\ DOMAIN <<>> = {}
    BY DEF Ordered
  <2>6. StreamInv'
    BY <2>3, <2>4, <2>5 DEF StreamInv, Ordered
  <2> QED BY <1>2, <2>2, <2>6
<1>6. CASE Unsubscribe(t)
  <2>1. /\ UNCHANGED <<chan, got, holding>>
        /\ subs' = subs \ {t}
        /\ handler' = [handler EXCEPT ![t] = "none"]
        /\ handler[t] = "cancel"
    BY <1>6 DEF Unsubscribe
  <2>2. TailTypes' /\ HandlerInv'
    BY <1>1, <2>1 DEF TailTypes, HandlerInv
  <2> QED BY <1>1, <1>2, <1>3, <2>1, <2>2, StreamsKept
<1>7. CASE Lock(t) \/ HangUp(t) \/ SeeClosed(t) \/ Ping(t)
  <2>1. UNCHANGED <<subs, chan, got, holding>>
    BY <1>7 DEF Lock, HangUp, SeeClosed, Ping, subVars, connVars
  <2>2. \/ handler' = handler
        \/ /\ handler[t] = "select"
           /\ handler' = [handler EXCEPT ![t] = "cancel"]
        \/ /\ handler[t] = "select"
           /\ handler' = [handler EXCEPT ![t] = "write"]
    BY <1>7 DEF Lock, HangUp, SeeClosed, Ping, connVars
  <2>3. TailTypes' /\ HandlerInv'
    BY <1>1, <2>1, <2>2 DEF TailTypes, HandlerInv
  <2> QED BY <1>1, <1>2, <1>3, <2>1, <2>3, StreamsKept
<1>8. CASE Receive(t)
  <2>1. /\ subs' = subs /\ got' = got
        /\ chan' = [chan EXCEPT ![t] = Tail(@)]
        /\ holding' = [holding EXCEPT ![t] = Head(chan[t])]
        /\ handler[t] = "select" /\ chan[t] # <<>>
        /\ handler' = [handler EXCEPT ![t] = "write"]
    BY <1>8 DEF Receive, subVars
  <2>2. Head(chan[t]) \in Log /\ Tail(chan[t]) \in Seq(Log)
    BY <2>1 DEF TailTypes
  <2>3. TailTypes' /\ HandlerInv'
    BY <1>1, <2>1, <2>2 DEF TailTypes, HandlerInv
  <2>4. \A u \in subs' : Stream(u)' = Stream(u)
    BY <1>8, <2>1, ServeStream DEF TailTypes
  <2> QED BY <1>1, <1>2, <2>1, <2>3, <2>4, StreamsKept
<1>9. CASE WriteDone(t)
  <2>1. /\ subs' = subs /\ chan' = chan
        /\ got' = IF holding[t] = Nobody THEN got
                  ELSE [got EXCEPT ![t] = Append(@, holding[t])]
        /\ holding' = [holding EXCEPT ![t] = Nobody]
        /\ handler[t] = "write"
        /\ handler' = [handler EXCEPT ![t] = "select"]
    BY <1>9 DEF WriteDone, subVars
  <2>2. holding[t] # Nobody => Append(got[t], holding[t]) \in Seq(Log)
    BY DEF TailTypes
  <2>3. got' \in [Tails -> Seq(Log)]
    BY <2>1, <2>2 DEF TailTypes
  <2>4. TailTypes'
    BY <1>1, <2>1, <2>3 DEF TailTypes
  <2>5. HandlerInv'
    BY <2>1 DEF TailTypes, HandlerInv
  <2>6. \A u \in subs' : Stream(u)' = Stream(u)
    BY <1>9, <2>1, ServeStream DEF TailTypes
  <2> QED BY <1>1, <1>2, <2>1, <2>4, <2>5, <2>6, StreamsKept
<1>10. CASE WriteFails(t)
  <2>1. /\ UNCHANGED <<subs, chan, got>>
        /\ holding' = [holding EXCEPT ![t] = Nobody]
        /\ handler[t] = "write"
        /\ handler' = [handler EXCEPT ![t] = "cancel"]
    BY <1>10 DEF WriteFails, subVars
  <2>2. TailTypes' /\ HandlerInv'
    BY <1>1, <2>1 DEF TailTypes, HandlerInv
  <2>3. StreamInv'
    BY <1>10, <2>1, FailKeeps DEF StreamInv, Ordered
  <2> QED BY <1>2, <2>2, <2>3
<1> QED BY <1>4, <1>5, <1>6, <1>7, <1>8, <1>9, <1>10 DEF Serve

\* The order is kept from the beginning.
LEMMA OrderInit == Init => OrderInv
<1> SUFFICES ASSUME Init PROVE OrderInv
  OBVIOUS
<1>1. TailTypes
  BY DEF Init, TailTypes
<1>2. HandlerInv /\ TargetInv /\ StreamInv
  BY DEF Init, HandlerInv, TargetInv, StreamInv
<1> QED BY <1>1, <1>2 DEF OrderInv

\* Every step keeps it.
LEMMA OrderNext == OrderInv /\ [Next]_vars => OrderInv'
<1> SUFFICES ASSUME OrderInv, [Next]_vars PROVE OrderInv'
  OBVIOUS
<1>1. CASE Next
  BY <1>1, OrderCast, OrderServe DEF Next
<1>2. CASE UNCHANGED vars
  <2>1. UNCHANGED <<subs, chan, got, holding, handler, pos, visited, target>>
    BY <1>2 DEF vars, subVars, castVars, connVars
  <2>2. \A t \in subs' : Stream(t)' = Stream(t)
    BY <2>1 DEF Stream
  <2>3. StreamInv'
    BY <2>1, <2>2, StreamsKept DEF OrderInv
  <2> QED BY <2>1, <2>3 DEF OrderInv, TailTypes, HandlerInv, TargetInv
<1> QED BY <1>1, <1>2

\* A client gets the logs of a worker in the order the worker has stored
\* them and none of them twice, though several workers broadcast at a time,
\* channels overflow and writes fail (hub.go 66-77, websocket.go 67-72).
THEOREM TailOrder == Spec => []InOrder
<1>1. OrderInv => InOrder
  BY DEF OrderInv, StreamInv, InOrder, Ordered
<1> QED BY <1>1, OrderInit, OrderNext, PTL DEF Spec

-----------------------------------------------------------------------------
(* A subscriber that is served misses only logs that its own channel had   *)
(* no room for.                                                            *)

\* The types the proof needs besides TailTypes.
CastTypes ==
  /\ out \in [Workers -> Seq(Kinds)]
  /\ filter \in [Tails -> Filters \cup {NoFilter}]
  /\ since \in [Tails -> [Workers -> Nat]]
  /\ missed \in [Tails -> SUBSET Log]

\* Whoever is inside the lock, or waits for it, has a log to broadcast, and
\* only inside it has the current log been offered to anyone.
BusyInv ==
  /\ readers \cap queued = {}
  /\ \A b \in Workers :
       /\ pos[b] <= Len(out[b])
       /\ b \in readers \cup queued => pos[b] < Len(out[b])
       /\ visited[b] # {} => b \in readers

\* The n-th log of b has been offered to t since it subscribed, and is one it
\* asked for.
Due(t, b, n) ==
  /\ since[t][b] < n
  /\ Offered(t, <<b, n>>)
  /\ Allows(filter[t], out[b][n])

Accounted(t) == Range(Stream(t)) \cup missed[t]

SkipInv ==
  \A t \in subs : handler[t] # "cancel" =>
    \A b \in Workers, n \in Nat : Due(t, b, n) => <<b, n>> \in Accounted(t)

HubInv == OrderInv /\ PickInv /\ CastTypes /\ BusyInv /\ SkipInv

-----------------------------------------------------------------------------
(* Types.                                                                  *)

LEMMA BatchType == \A batch \in Batches : batch \in Seq(Kinds) /\ Len(batch) > 0
<1> SUFFICES ASSUME NEW n \in 1..MaxBatch, NEW batch \in [1..n -> Kinds]
             PROVE  batch \in Seq(Kinds) /\ Len(batch) > 0
  BY DEF Batches
<1>1. n \in Nat /\ n > 0
  BY TailAssumption
<1> QED BY <1>1

LEMMA CastTypesCast ==
  ASSUME TailTypes, CastTypes, NEW b \in Workers, Cast(b)
  PROVE  CastTypes'
<1>1. CASE \E batch \in Batches : Broadcast(b, batch)
  <2>1. PICK batch \in Batches : out' = [out EXCEPT ![b] = @ \o batch]
    BY <1>1 DEF Broadcast
  <2>2. UNCHANGED <<filter, since, missed>>
    BY <1>1 DEF Broadcast, subVars
  <2>3. out[b] \in Seq(Kinds) /\ batch \in Seq(Kinds)
    BY BatchType DEF CastTypes
  <2>4. out[b] \o batch \in Seq(Kinds)
    BY <2>3
  <2> QED BY <2>1, <2>2, <2>4 DEF CastTypes
<1>2. CASE \E t \in Tails : Pick(b, t)
  BY <1>2 DEF Pick, subVars, CastTypes
<1>3. CASE Send(b)
  <2>1. UNCHANGED <<out, filter, since>>
    BY <1>3 DEF Send, subVars
  <2>2. Current(b) \in Log
    BY DEF Current, Log, TailTypes
  <2>3. missed' = missed \/ missed' = [missed EXCEPT ![target[b]] = @ \cup {Current(b)}]
    BY <1>3 DEF Send
  <2>4. target[b] \in Tails
    BY <1>3 DEF Send, TailTypes
  <2>5. missed[target[b]] \cup {Current(b)} \in SUBSET Log
    BY <2>2, <2>4 DEF CastTypes
  <2>6. missed' \in [Tails -> SUBSET Log]
    BY <2>3, <2>5 DEF CastTypes
  <2> QED BY <2>1, <2>6 DEF CastTypes
<1>4. CASE NextLog(b)
  BY <1>4 DEF NextLog, subVars, CastTypes
<1> QED BY <1>1, <1>2, <1>3, <1>4 DEF Cast

LEMMA CastTypesServe ==
  ASSUME TailTypes, CastTypes, NEW t \in Tails, Serve(t)
  PROVE  CastTypes'
<1>1. CASE Subscribe(t)
  <2>1. /\ UNCHANGED <<out, filter>>
        /\ since' = [since EXCEPT ![t] = pos]
        /\ missed' = [missed EXCEPT ![t] = {}]
    BY <1>1 DEF Subscribe, castVars
  <2> QED BY <2>1 DEF CastTypes, TailTypes
<1>2. ASSUME NEW f \in Filters, Dial(t, f)
      PROVE  CastTypes'
  BY <1>2 DEF Dial, castVars, CastTypes
<1>3. CASE \/ Lock(t) \/ Unsubscribe(t) \/ HangUp(t) \/ SeeClosed(t)
           \/ Receive(t) \/ Ping(t) \/ WriteDone(t) \/ WriteFails(t)
  <2>1. UNCHANGED <<out, filter, since, missed>>
    BY <1>3 DEF Lock, Unsubscribe, HangUp, SeeClosed, Receive, Ping, WriteDone,
       WriteFails, subVars, castVars
  <2> QED BY <2>1 DEF CastTypes
<1> QED BY <1>1, <1>2, <1>3 DEF Serve

-----------------------------------------------------------------------------
(* The lock.                                                               *)

\* A worker enters with logs to broadcast and leaves after the last one.
LEMMA BusyCast ==
  ASSUME TailTypes, CastTypes, PickInv, BusyInv, NEW b \in Workers, Cast(b)
  PROVE  BusyInv'
<1>0. \A d \in Workers : pos[d] \in Nat /\ Len(out[d]) \in Nat
  BY DEF TailTypes, CastTypes
<1>1. ASSUME NEW batch \in Batches, Broadcast(b, batch)
      PROVE  BusyInv'
  <2>1. /\ pos' = pos /\ visited' = visited
        /\ out' = [out EXCEPT ![b] = @ \o batch]
        /\ ~(pos[b] < Len(out[b]))
    BY <1>1 DEF Broadcast, Casting
  <2>2. \/ readers' = readers \cup {b} /\ queued' = queued
        \/ queued' = queued \cup {b} /\ readers' = readers
    BY <1>1 DEF Broadcast, RLock
  <2>3. b \notin readers \cup queued
    BY <2>1 DEF BusyInv
  <2>4. Len(out'[b]) = Len(out[b]) + Len(batch) /\ Len(batch) \in Nat /\ Len(batch) > 0
    <3>1. out[b] \in Seq(Kinds) /\ batch \in Seq(Kinds) /\ Len(batch) > 0
      BY BatchType DEF CastTypes
    <3>2. out'[b] = out[b] \o batch
      BY <2>1 DEF CastTypes
    <3> QED BY <3>1, <3>2
  <2>5. \A d \in Workers \ {b} : out'[d] = out[d]
    BY <2>1 DEF CastTypes
  <2>6. pos[b] < Len(out'[b])
    BY <1>0, <2>4 DEF BusyInv
  <2>7. readers' \cap queued' = {}
    BY <2>2, <2>3 DEF BusyInv
  <2> QED BY <1>0, <2>1, <2>2, <2>5, <2>6, <2>7 DEF BusyInv
<1>2. ASSUME NEW t \in Tails, Pick(b, t)
      PROVE  BusyInv'
  BY <1>2 DEF Pick, lockVars, BusyInv
<1>3. CASE Send(b)
  <2>1. /\ UNCHANGED <<readers, queued, out, pos>>
        /\ visited' = [visited EXCEPT ![b] = @ \cup {target[b]}]
        /\ b \in readers
    BY <1>3 DEF Send, lockVars, PickInv
  <2> QED BY <2>1 DEF BusyInv
<1>4. CASE NextLog(b)
  <2>1. /\ b \in readers /\ out' = out
        /\ pos' = [pos EXCEPT ![b] = @ + 1]
        /\ visited' = [visited EXCEPT ![b] = {}]
    BY <1>4 DEF NextLog
  <2>2. IF pos'[b] = Len(out[b]) THEN readers' = readers \ {b} /\ queued' = queued
        ELSE UNCHANGED <<readers, queued>>
    BY <1>4 DEF NextLog, RUnlock, lockVars
  <2>3. pos'[b] = pos[b] + 1 /\ visited'[b] = {}
        /\ \A d \in Workers \ {b} : pos'[d] = pos[d] /\ visited'[d] = visited[d]
    BY <2>1 DEF TailTypes
  <2>4. pos[b] < Len(out[b]) /\ b \notin queued
    BY <2>1 DEF BusyInv
  <2>5. pos'[b] <= Len(out[b])
        /\ (b \in readers' \cup queued' => pos'[b] < Len(out[b]))
    BY <1>0, <2>2, <2>3, <2>4
  <2>6. readers' \subseteq readers /\ queued' = queued
        /\ \A d \in readers \ {b} : d \in readers'
    BY <2>2
  <2> QED BY <2>1, <2>3, <2>5, <2>6 DEF BusyInv
<1> QED BY <1>1, <1>2, <1>3, <1>4 DEF Cast

\* The lock passes from a writer to the readers that came meanwhile.
LEMMA BusyServe ==
  ASSUME BusyInv, NEW t \in Tails, Serve(t)
  PROVE  BusyInv'
<1>1. UNCHANGED <<out, pos, visited>>
  BY DEF Serve, Dial, Lock, Subscribe, Unsubscribe, HangUp, SeeClosed, Receive,
         Ping, WriteDone, WriteFails, castVars
<1>2. CASE Subscribe(t) \/ Unsubscribe(t)
  <2>1. readers = {} /\ readers' = queued /\ queued' = {}
    BY <1>2 DEF Subscribe, Unsubscribe, Holds, Unlock
  <2> QED BY <1>1, <2>1 DEF BusyInv
<1>3. CASE ~(Subscribe(t) \/ Unsubscribe(t))
  <2>1. UNCHANGED <<readers, queued>>
    BY <1>3 DEF Serve, Dial, Lock, HangUp, SeeClosed, Receive, Ping, WriteDone,
       WriteFails, lockVars
  <2> QED BY <1>1, <2>1 DEF BusyInv
<1> QED BY <1>2, <1>3

-----------------------------------------------------------------------------
(* What is accounted for.                                                  *)

\* The end of a sequence is in its range.
LEMMA RangeGrows ==
  ASSUME NEW s \in Seq(Log), NEW c \in Seq(Log), NEW l \in Log
  PROVE  /\ Range(s \o c) \subseteq Range(s \o Append(c, l))
         /\ l \in Range(s \o Append(c, l))
<1> DEFINE x == s \o c
           y == s \o Append(c, l)
<1>1. /\ x \in Seq(Log) /\ y \in Seq(Log)
      /\ Len(x) = Len(s) + Len(c) /\ Len(y) = Len(x) + 1
      /\ y[Len(x) + 1] = l
      /\ \A i \in 1..Len(x) : y[i] = x[i]
  OBVIOUS
<1> HIDE DEF x, y
<1>2. DOMAIN x = 1..Len(x) /\ DOMAIN y = 1..Len(y) /\ Len(x) \in Nat
  BY <1>1
<1>3. ASSUME NEW e \in Range(x) PROVE e \in Range(y)
  <2>1. PICK i \in 1..Len(x) : e = x[i]
    BY <1>2 DEF Range
  <2>2. i \in DOMAIN y /\ y[i] = e
    BY <1>1, <1>2, <2>1
  <2> QED BY <2>2 DEF Range
<1>4. l \in Range(y)
  <2>1. Len(x) + 1 \in DOMAIN y
    BY <1>1, <1>2
  <2> QED BY <1>1, <2>1 DEF Range
<1> QED BY <1>3, <1>4 DEF x, y

\* What has been offered is among what the worker has got to broadcast.
LEMMA OfferedIn ==
  ASSUME TailTypes, CastTypes, BusyInv, NEW t \in Tails, NEW b \in Workers,
         NEW n \in Nat, Offered(t, <<b, n>>)
  PROVE  n <= Len(out[b]) /\ (n > pos[b] => b \in readers)
<1>1. pos[b] \in Nat /\ Len(out[b]) \in Nat
  BY DEF TailTypes, CastTypes
<1>2. n <= pos[b] \/ (n = pos[b] + 1 /\ t \in visited[b])
  BY DEF Offered
<1> QED BY <1>1, <1>2 DEF BusyInv

\* A tail that is due no more logs and has lost none stays accounted for.
LEMMA SkipKept ==
  ASSUME SkipInv, NEW t \in subs, handler[t] # "cancel",
         Accounted(t) \subseteq Accounted(t)',
         \A b \in Workers, n \in Nat : Due(t, b, n)' => Due(t, b, n)
  PROVE  \A b \in Workers, n \in Nat : Due(t, b, n)' => <<b, n>> \in Accounted(t)'
BY DEF SkipInv

\* A new log is not due yet, the current one comes due when it is sent,
\* rejected or dropped, and goes into the stream or is missed.
LEMMA SkipCast ==
  ASSUME HubInv, NEW b \in Workers, Cast(b)
  PROVE  SkipInv'
<1> USE DEF HubInv, OrderInv
<1>0. /\ \A d \in Workers : pos[d] \in Nat /\ Len(out[d]) \in Nat
      /\ subs \subseteq Tails
  BY DEF TailTypes, CastTypes
<1>1. UNCHANGED <<subs, since, filter, handler, got, holding>>
  BY DEF Cast, Broadcast, Pick, Send, NextLog, subVars, connVars
<1>2. ASSUME UNCHANGED <<chan, missed>>, NEW t \in Tails
      PROVE  Accounted(t)' = Accounted(t)
  BY <1>1, <1>2 DEF Accounted, Stream
<1> SUFFICES ASSUME NEW t \in subs, handler[t] # "cancel"
             PROVE  \A d \in Workers, n \in Nat :
                        Due(t, d, n)' => <<d, n>> \in Accounted(t)'
  BY <1>1 DEF SkipInv, Due, Accounted, Offered
<1>4. t \in Tails
  BY <1>0
<1>5. ASSUME NEW batch \in Batches, Broadcast(b, batch)
      PROVE  \A d \in Workers, n \in Nat : Due(t, d, n)' => Due(t, d, n)
  <2>1. /\ UNCHANGED <<pos, visited>>
        /\ out' = [out EXCEPT ![b] = @ \o batch]
    BY <1>5 DEF Broadcast
  <2>2. ASSUME NEW d \in Workers, NEW n \in Nat, Due(t, d, n)'
        PROVE  Due(t, d, n)
    <3>1. Offered(t, <<d, n>>) /\ since[t][d] < n /\ Allows(filter[t], out'[d][n])
      BY <1>1, <2>1, <2>2 DEF Due, Offered, Allows
    <3>2. n <= Len(out[d])
      BY <1>4, <3>1, OfferedIn
    <3>3. since[t][d] \in Nat
      BY <1>4 DEF CastTypes
    <3>4. n \in 1..Len(out[d])
      BY <1>0, <3>1, <3>2, <3>3
    <3>5. out'[d][n] = out[d][n]
      <4>1. out[d] \in Seq(Kinds) /\ batch \in Seq(Kinds)
        BY BatchType DEF CastTypes
      <4>2. (out[d] \o batch)[n] = out[d][n]
        BY <3>4, <4>1
      <4>3. out'[d] = out[d] \o batch \/ out'[d] = out[d]
        BY <2>1 DEF CastTypes
      <4> QED BY <4>2, <4>3
    <3> QED BY <3>1, <3>5 DEF Due
  <2> QED BY <2>2
<1>6. CASE \E batch \in Batches : Broadcast(b, batch)
  <2>1. UNCHANGED <<chan, missed>>
    BY <1>6 DEF Broadcast
  <2>2. \A d \in Workers, n \in Nat : Due(t, d, n)' => Due(t, d, n)
    BY <1>5, <1>6
  <2>3. Accounted(t)' = Accounted(t)
    BY <1>2, <1>4, <2>1
  <2> QED BY <2>2, <2>3, SkipKept
<1>7. CASE \E u \in Tails : Pick(b, u)
  <2>1. UNCHANGED <<chan, missed, out, pos, visited>>
    BY <1>7 DEF Pick
  <2>2. \A d \in Workers, n \in Nat : Due(t, d, n)' => Due(t, d, n)
    BY <1>1, <2>1 DEF Due, Offered, Allows
  <2>3. Accounted(t)' = Accounted(t)
    BY <1>2, <1>4, <2>1
  <2> QED BY <2>2, <2>3, SkipKept
<1>8. CASE NextLog(b)
  <2>1. /\ UNCHANGED <<chan, missed, out>>
        /\ pos' = [pos EXCEPT ![b] = @ + 1]
        /\ visited' = [visited EXCEPT ![b] = {}]
        /\ t \in visited[b]
    BY <1>8 DEF NextLog
  <2>2. ASSUME NEW d \in Workers, NEW n \in Nat, Due(t, d, n)'
        PROVE  Due(t, d, n)
    <3>1. since[t][d] < n /\ Allows(filter[t], out[d][n])
      BY <1>1, <2>1, <2>2 DEF Due, Allows
    <3>2. n <= pos'[d] \/ (n = pos'[d] + 1 /\ t \in visited'[d])
      BY <2>2 DEF Due, Offered
    <3>3. n <= pos[d] \/ (n = pos[d] + 1 /\ t \in visited[d])
      BY <1>0, <2>1, <3>2 DEF TailTypes
    <3> QED BY <3>1, <3>3 DEF Due, Offered
  <2>3. Accounted(t)' = Accounted(t)
    BY <1>2, <1>4, <2>1
  <2> QED BY <2>2, <2>3, SkipKept
<1>9. CASE Send(b)
  <2> DEFINE l == Current(b)
  <2>1. /\ UNCHANGED <<pos, out>> /\ target[b] \in Tails
        /\ visited' = [visited EXCEPT ![b] = @ \cup {target[b]}]
    BY <1>9 DEF Send, TailTypes
  <2>2. \/ ~Allows(filter[target[b]], KindOf(l)) /\ UNCHANGED <<chan, missed>>
        \/ chan' = [chan EXCEPT ![target[b]] = Append(@, l)] /\ UNCHANGED missed
        \/ missed' = [missed EXCEPT ![target[b]] = @ \cup {l}] /\ UNCHANGED chan
    BY <1>9 DEF Send
  <2>3. l \in Log /\ l = <<b, pos[b] + 1>> /\ KindOf(l) = out[b][pos[b] + 1]
    BY <1>0 DEF Current, Log, KindOf
  <2>4. /\ Accounted(t) \subseteq Accounted(t)'
        /\ t = target[b] /\ Allows(filter[t], KindOf(l)) => l \in Accounted(t)'
    <3> DEFINE mid == IF holding[t] = Nobody THEN <<>> ELSE <<holding[t]>>
               s == got[t] \o mid
    <3>1. s \in Seq(Log) /\ chan[t] \in Seq(Log)
      <4>1. mid \in Seq(Log) /\ got[t] \in Seq(Log)
        BY <1>4 DEF TailTypes
      <4> HIDE DEF mid
      <4> QED BY <1>4, <4>1 DEF TailTypes
    <3>2. Stream(t) = s \o chan[t] /\ Stream(t)' = s \o chan'[t]
      BY <1>1 DEF Stream
    <3> HIDE DEF s, l
    <3>3. \/ chan'[t] = chan[t] /\ missed'[t] = missed[t]
             /\ ~(t = target[b] /\ Allows(filter[t], KindOf(l)))
          \/ chan'[t] = Append(chan[t], l) /\ missed'[t] = missed[t]
          \/ chan'[t] = chan[t] /\ missed'[t] = missed[t] \cup {l}
      BY <1>4, <2>2 DEF TailTypes, CastTypes
    <3>4. /\ Range(s \o chan[t]) \subseteq Range(s \o Append(chan[t], l))
          /\ l \in Range(s \o Append(chan[t], l))
      BY <2>3, <3>1, RangeGrows
    <3> QED BY <3>2, <3>3, <3>4 DEF Accounted
  <2>5. ASSUME NEW d \in Workers, NEW n \in Nat, Due(t, d, n)'
        PROVE  <<d, n>> \in Accounted(t)'
    <3>1. since[t][d] < n /\ Allows(filter[t], out[d][n])
      BY <1>1, <2>1, <2>5 DEF Due, Allows
    <3>2. n <= pos[d] \/ (n = pos[d] + 1 /\ t \in visited'[d])
      BY <2>1, <2>5 DEF Due, Offered
    <3>3. CASE Offered(t, <<d, n>>)
      <4>1. <<d, n>> \in Accounted(t)
        BY <3>1, <3>3 DEF SkipInv, Due
      <4> QED BY <2>4, <4>1
    <3>4. CASE ~Offered(t, <<d, n>>)
      <4>1. n = pos[d] + 1 /\ t \in visited'[d] /\ t \notin visited[d]
        BY <3>2, <3>4 DEF Offered
      <4>2. d = b /\ t = target[b]
        BY <2>1, <4>1 DEF TailTypes
      <4>3. <<d, n>> = l /\ Allows(filter[t], KindOf(l))
        BY <2>3, <3>1, <4>1, <4>2
      <4> QED BY <2>4, <4>2, <4>3
    <3> QED BY <3>3, <3>4
  <2> QED BY <2>5
<1> QED BY <1>6, <1>7, <1>8, <1>9 DEF Cast

\* A subscriber starts with nothing due; afterwards its handler only moves
\* logs from the channel to the client, until a write fails.
LEMMA SkipServe ==
  ASSUME HubInv, NEW t \in Tails, Serve(t)
  PROVE  SkipInv'
<1> USE DEF HubInv, OrderInv
<1>1. UNCHANGED <<out, pos, visited>>
  BY DEF Serve, Dial, Lock, Subscribe, Unsubscribe, HangUp, SeeClosed, Receive,
         Ping, WriteDone, WriteFails, castVars
<1>2. subs \subseteq Tails
  BY DEF TailTypes
<1> SUFFICES ASSUME NEW u \in subs', handler'[u] # "cancel"
             PROVE  \A d \in Workers, n \in Nat :
                        Due(u, d, n)' => <<d, n>> \in Accounted(u)'
  BY DEF SkipInv, Due, Accounted, Offered
<1>4. CASE Subscribe(t) /\ u = t
  <2>1. since' = [since EXCEPT ![t] = pos] /\ readers = {}
    BY <1>4 DEF Subscribe, Holds
  <2>2. ASSUME NEW d \in Workers, NEW n \in Nat, Due(u, d, n)'
        PROVE  FALSE
    <3>1. pos[d] < n
      BY <1>4, <2>1, <2>2 DEF Due, CastTypes
    <3>2. Offered(u, <<d, n>>)
      BY <1>1, <2>2 DEF Due, Offered
    <3> QED BY <1>4, <2>1, <3>1, <3>2, OfferedIn
  <2> QED BY <2>2
<1>5. CASE ~(Subscribe(t) /\ u = t)
  <2>1. u \in subs
    BY <1>5 DEF Serve, Dial, Lock, Subscribe, Unsubscribe, HangUp, SeeClosed, Receive,
       Ping, WriteDone, WriteFails, subVars
  <2>2. u \in Tails
    BY <1>2, <2>1
  <2>3. UNCHANGED <<since, missed>> \/ Subscribe(t)
    BY DEF Serve, Dial, Lock, Unsubscribe, HangUp, SeeClosed, Receive,
       Ping, WriteDone, WriteFails, subVars
  <2>4. since'[u] = since[u] /\ missed'[u] = missed[u]
    BY <1>5, <2>2, <2>3 DEF Subscribe, CastTypes
  <2>5. filter'[u] = filter[u] /\ handler[u] # "cancel" /\ Stream(u)' = Stream(u)
    <3>1. CASE \E f \in Filters : Dial(t, f)
      <4>1. PICK f \in Filters : Dial(t, f)
        BY <3>1
      <4>2. u # t
        BY <2>1, <2>2, <4>1 DEF Dial, HandlerInv
      <4>3. /\ filter' = [filter EXCEPT ![t] = f]
            /\ handler' = [handler EXCEPT ![t] = "subscribe"]
            /\ got' = [got EXCEPT ![t] = <<>>]
            /\ UNCHANGED <<chan, holding>>
        BY <4>1 DEF Dial
      <4>4. filter'[u] = filter[u] /\ handler'[u] = handler[u] /\ got'[u] = got[u]
        BY <2>2, <4>2, <4>3 DEF CastTypes, TailTypes
      <4> QED BY <4>3, <4>4 DEF Stream
    <3>2. CASE Subscribe(t)
      <4>1. u # t
        BY <1>5, <3>2
      <4>2. /\ UNCHANGED <<filter, got, holding>>
            /\ chan' = [chan EXCEPT ![t] = <<>>]
            /\ handler' = [handler EXCEPT ![t] = "select"]
        BY <3>2 DEF Subscribe
      <4>3. handler'[u] = handler[u] /\ chan'[u] = chan[u]
        BY <2>2, <4>1, <4>2 DEF TailTypes
      <4> QED BY <4>2, <4>3 DEF Stream
    <3>3. CASE Receive(t) \/ WriteDone(t)
      <4>1. Stream(u)' = Stream(u)
        BY <2>2, <3>3, ServeStream
      <4>2. filter' = filter
        BY <3>3 DEF Receive, WriteDone, subVars
      <4>3. handler[t] # "cancel" /\ \E h : handler' = [handler EXCEPT ![t] = h]
        BY <3>3 DEF Receive, WriteDone
      <4>4. handler[u] # "cancel"
        BY <2>2, <4>3 DEF TailTypes
      <4> QED BY <4>1, <4>2, <4>4
    <3>4. CASE WriteFails(t)
      <4>1. /\ filter' = filter /\ chan' = chan /\ got' = got
            /\ holding' = [holding EXCEPT ![t] = Nobody]
            /\ handler' = [handler EXCEPT ![t] = "cancel"]
        BY <3>4 DEF WriteFails, subVars
      <4>2. u # t
        BY <2>2, <4>1 DEF TailTypes
      <4>3. /\ handler'[u] = handler[u] /\ holding'[u] = holding[u]
            /\ chan'[u] = chan[u] /\ got'[u] = got[u]
        BY <2>2, <4>1, <4>2 DEF TailTypes
      <4>4. Stream(u)' = Stream(u)
        BY <4>3 DEF Stream
      <4> QED BY <4>1, <4>3, <4>4
    <3>5. CASE Lock(t) \/ Unsubscribe(t) \/ HangUp(t) \/ SeeClosed(t) \/ Ping(t)
      <4>1. UNCHANGED <<filter, chan, got, holding>>
        BY <3>5 DEF Lock, Unsubscribe, HangUp, SeeClosed, Ping, subVars, connVars
      <4>2. \/ handler' = handler
            \/ handler[t] # "cancel" /\ \E h : handler' = [handler EXCEPT ![t] = h]
            \/ subs' = subs \ {t} /\ \E h : handler' = [handler EXCEPT ![t] = h]
        BY <3>5 DEF Lock, Unsubscribe, HangUp, SeeClosed, Ping, connVars
      <4>3. handler[u] # "cancel"
        BY <2>2, <4>2 DEF TailTypes
      <4> QED BY <4>1, <4>3 DEF Stream
    <3> QED BY <3>1, <3>2, <3>3, <3>4, <3>5 DEF Serve
  <2>6. Accounted(u)' = Accounted(u)
    BY <2>4, <2>5 DEF Accounted
  <2>7. \A d \in Workers, n \in Nat : Due(u, d, n)' => Due(u, d, n)
    BY <1>1, <2>4, <2>5 DEF Due, Offered, Allows
  <2> QED BY <2>1, <2>5, <2>6, <2>7, SkipKept
<1> QED BY <1>4, <1>5

-----------------------------------------------------------------------------
LEMMA HubInit == Init => HubInv
<1> SUFFICES ASSUME Init PROVE HubInv
  OBVIOUS
<1>1. CastTypes
  BY DEF Init, CastTypes
<1>2. BusyInv /\ SkipInv
  BY DEF Init, BusyInv, SkipInv
<1> QED BY <1>1, <1>2, OrderInit, PickInit DEF HubInv

LEMMA HubNext == HubInv /\ [Next]_vars => HubInv'
<1> SUFFICES ASSUME HubInv, [Next]_vars PROVE HubInv'
  OBVIOUS
<1>1. OrderInv' /\ PickInv'
  BY OrderNext, PickNext DEF HubInv
<1>2. ASSUME NEW b \in Workers, Cast(b)
      PROVE  CastTypes' /\ BusyInv' /\ SkipInv'
  BY <1>2, CastTypesCast, BusyCast, SkipCast DEF HubInv, OrderInv
<1>3. ASSUME NEW t \in Tails, Serve(t)
      PROVE  CastTypes' /\ BusyInv' /\ SkipInv'
  BY <1>3, CastTypesServe, BusyServe, SkipServe DEF HubInv, OrderInv
<1>4. CASE UNCHANGED vars
  <2>1. CastTypes' /\ BusyInv'
    BY <1>4 DEF HubInv, CastTypes, BusyInv, vars, lockVars, subVars, castVars
  <2>2. SkipInv'
    <3>1. UNCHANGED <<subs, handler, since, filter, out, pos, visited, chan, got,
                      holding, missed>>
      BY <1>4 DEF vars, subVars, castVars, connVars
    <3>2. ASSUME NEW t \in subs, handler[t] # "cancel"
          PROVE  \A b \in Workers, n \in Nat : Due(t, b, n)' => <<b, n>> \in Accounted(t)'
      <4>1. \A b \in Workers, n \in Nat : Due(t, b, n)' => Due(t, b, n)
        BY <3>1 DEF Due, Offered, Allows
      <4>2. Stream(t)' = Stream(t)
        BY <3>1 DEF Stream
      <4>3. Accounted(t)' = Accounted(t)
        BY <3>1, <4>2 DEF Accounted
      <4> QED BY <3>2, <4>1, <4>3, SkipKept DEF HubInv
    <3> QED BY <3>1, <3>2 DEF SkipInv, Due, Accounted, Offered
  <2> QED BY <1>1, <2>1, <2>2 DEF HubInv
<1> QED BY <1>1, <1>2, <1>3, <1>4 DEF HubInv, Next

\* However many workers broadcast to however many tails, and whoever is slow:
\* while it is served a subscriber misses no log but those its own channel had
\* no room for (hub.go 66-77).
THEOREM Complete == Spec => []NothingSkipped
<1>1. HubInv => NothingSkipped
  <2> SUFFICES ASSUME HubInv, NEW t \in subs, NEW b \in Workers, handler[t] # "cancel",
                      NEW n \in (since[t][b] + 1)..pos[b], Allows(filter[t], out[b][n])
               PROVE  <<b, n>> \in Range(Stream(t)) \cup missed[t]
    BY DEF NothingSkipped
  <2>1. since[t][b] \in Nat /\ pos[b] \in Nat
    BY DEF HubInv, OrderInv, TailTypes, CastTypes
  <2>2. n \in Nat /\ since[t][b] < n /\ n <= pos[b]
    BY <2>1
  <2>3. Due(t, b, n)
    BY <2>2 DEF Due, Offered
  <2> QED BY <2>2, <2>3 DEF HubInv, SkipInv, Accounted
<1> QED BY <1>1, HubInit, HubNext, PTL DEF Spec

-----------------------------------------------------------------------------
(* All types.                                                              *)

\* Broadcast's bound is on the logs of all workers together.
OutInv == IsFiniteSet(Out) /\ Cardinality(Out) <= MaxLogs

\* With the types it is inductive.
BoundedInv == TypeOK /\ OutInv

\* So no worker has broadcast more.
LEMMA OutBound ==
  ASSUME CastTypes, OutInv, NEW b \in Workers
  PROVE  Len(out[b]) \in Nat /\ Len(out[b]) <= MaxLogs
<1> DEFINE own == {b} \X DOMAIN out[b]
<1>1. out[b] \in Seq(Kinds)
  BY DEF CastTypes
<1>2. DOMAIN out[b] = 1..Len(out[b]) /\ Len(out[b]) \in Nat
  BY <1>1
<1>3. IsFiniteSet(DOMAIN out[b]) /\ Cardinality(DOMAIN out[b]) = Len(out[b])
  BY <1>2, FS_Interval
<1>4. IsFiniteSet({b}) /\ Cardinality({b}) = 1
  BY FS_Singleton
<1>5. Cardinality(own) = Len(out[b])
  <2>1. Cardinality(own) = 1 * Len(out[b])
    BY <1>3, <1>4, FS_Product
  <2> HIDE DEF own
  <2> QED BY <1>2, <2>1
<1>6. own \subseteq Out
  BY DEF Out
<1>7. Cardinality(own) <= Cardinality(Out) /\ Cardinality(Out) \in Nat
  BY <1>6, FS_Subset, FS_CardinalityType DEF OutInv
<1> QED BY <1>2, <1>5, <1>7, TailAssumption DEF OutInv

\* A batch adds as many logs as it has.
LEMMA OutGrows ==
  ASSUME CastTypes, OutInv, NEW b \in Workers, NEW batch \in Batches, Broadcast(b, batch)
  PROVE  OutInv'
<1> DEFINE new == {b} \X ((Len(out[b]) + 1)..(Len(out[b]) + Len(batch)))
<1>1. out[b] \in Seq(Kinds) /\ batch \in Seq(Kinds)
  BY BatchType DEF CastTypes
<1>2. /\ Cardinality(Out) + Len(batch) <= MaxLogs
      /\ out' = [out EXCEPT ![b] = @ \o batch]
  BY DEF Broadcast
<1>3. Len(out[b]) \in Nat /\ Len(batch) \in Nat /\ Cardinality(Out) \in Nat
  BY <1>1, FS_CardinalityType DEF OutInv
<1>4. DOMAIN out'[b] = DOMAIN out[b]
                         \cup ((Len(out[b]) + 1)..(Len(out[b]) + Len(batch)))
  <2>1. out'[b] = out[b] \o batch
    BY <1>2 DEF CastTypes
  <2>2. /\ DOMAIN out'[b] = 1..(Len(out[b]) + Len(batch))
        /\ DOMAIN out[b] = 1..Len(out[b])
    BY <1>1, <2>1
  <2> QED BY <1>3, <2>2
<1>5. \A d \in Workers \ {b} : out'[d] = out[d]
  BY <1>2 DEF CastTypes
<1>6. Out' = Out \cup new
  BY <1>4, <1>5 DEF Out
<1>7. IsFiniteSet(new) /\ Cardinality(new) = Len(batch)
  <2> DEFINE more == (Len(out[b]) + 1)..(Len(out[b]) + Len(batch))
  <2>1. IsFiniteSet(more) /\ Cardinality(more) = Len(batch)
    <3>1. \A m, n \in Nat : /\ IsFiniteSet((m + 1)..(m + n))
                            /\ Cardinality((m + 1)..(m + n)) = n
      BY FS_Interval
    <3> QED BY <1>3, <3>1
  <2>2. IsFiniteSet({b}) /\ Cardinality({b}) = 1
    BY FS_Singleton
  <2> HIDE DEF more
  <2>3. IsFiniteSet({b} \X more) /\ Cardinality({b} \X more) = 1 * Len(batch)
    BY <2>1, <2>2, FS_Product
  <2> QED BY <1>3, <2>3 DEF more
<1> HIDE DEF new
<1>8. /\ IsFiniteSet(Out \cup new)
      /\ Cardinality(Out \cup new) = Cardinality(Out) + Cardinality(new)
                                       - Cardinality(Out \cap new)
      /\ Cardinality(Out \cap new) \in Nat
  BY <1>7, FS_Union, FS_Subset, FS_CardinalityType, FS_Intersection DEF OutInv
<1>9. IsFiniteSet(Out') /\ Cardinality(Out') <= MaxLogs
  BY <1>2, <1>3, <1>6, <1>7, <1>8, TailAssumption
<1> QED BY <1>9 DEF OutInv

\* A worker sends a log it has handed to Broadcast, and goes on to no other.
LEMMA BoundedCast ==
  ASSUME HubInv, BoundedInv, NEW b \in Workers, Cast(b)
  PROVE  BoundedInv'
<1> USE DEF BoundedInv
<1>1. TailTypes /\ CastTypes /\ BusyInv /\ PickInv
  BY DEF HubInv, OrderInv
<1>2. ASSUME NEW batch \in Batches, Broadcast(b, batch)
      PROVE  BoundedInv'
  <2>1. OutInv'
    BY <1>1, <1>2, OutGrows
  <2>2. /\ out' = [out EXCEPT ![b] = @ \o batch]
        /\ writer' = writer
        /\ readers' \in {readers, readers \cup {b}}
        /\ queued' \in {queued, queued \cup {b}}
        /\ UNCHANGED <<subs, open, filter, since, chan, pos, visited, target,
                       handler, holding, peer, got, missed>>
    BY <1>2 DEF Broadcast, RLock, subVars, connVars
  <2>3. out' \in [Workers -> Seq(Kinds)]
    <3>1. out[b] \in Seq(Kinds) /\ batch \in Seq(Kinds)
      BY BatchType DEF TypeOK
    <3>2. out[b] \o batch \in Seq(Kinds)
      BY <3>1
    <3> QED BY <2>2, <3>2 DEF TypeOK
  <2> QED BY <2>1, <2>2, <2>3 DEF TypeOK
<1>3. ASSUME UNCHANGED <<out, writer, queued, subs, open, filter, since,
                         handler, holding, peer, got>>,
             readers' \subseteq readers,
             chan' \in [Tails -> Seq(Logs)],
             missed' \in [Tails -> SUBSET Logs],
             pos' \in [Workers -> 0..MaxLogs],
             visited' \in [Workers -> SUBSET Tails],
             target' \in [Workers -> Tails \cup {Nobody}]
      PROVE  BoundedInv'
  <2>1. Out' = Out
    BY <1>3 DEF Out
  <2>2. OutInv'
    BY <2>1 DEF OutInv
  <2>3. TypeOK'
    BY <1>3 DEF TypeOK
  <2> QED BY <2>2, <2>3
<1>4. b \in readers => Current(b) \in Logs /\ pos[b] + 1 \in 0..MaxLogs
  <2>1. Len(out[b]) \in Nat /\ Len(out[b]) <= MaxLogs /\ pos[b] \in Nat
    BY <1>1, OutBound DEF TailTypes
  <2>2. b \in readers => pos[b] < Len(out[b])
    BY <1>1 DEF BusyInv
  <2> QED BY <2>1, <2>2, TailAssumption DEF Current, Logs
<1>5. ASSUME NEW t \in Tails, Pick(b, t)
      PROVE  BoundedInv'
  <2>1. /\ UNCHANGED <<out, writer, queued, readers, subs, open, filter, since,
                       handler, holding, peer, got, chan, missed, pos, visited>>
        /\ target' = [target EXCEPT ![b] = t]
    BY <1>5 DEF Pick, lockVars, subVars, connVars
  <2> QED BY <1>3, <2>1 DEF TypeOK
<1>6. CASE Send(b)
  <2> DEFINE t == target[b]
             l == Current(b)
  <2>1. /\ UNCHANGED <<out, writer, queued, readers, subs, open, filter, since,
                       handler, holding, peer, got, pos>>
        /\ visited' = [visited EXCEPT ![b] = @ \cup {t}]
        /\ target' = [target EXCEPT ![b] = Nobody]
        /\ chan' = chan \/ chan' = [chan EXCEPT ![t] = Append(@, l)]
        /\ missed' = missed \/ missed' = [missed EXCEPT ![t] = @ \cup {l}]
        /\ t # Nobody
    BY <1>6 DEF Send, lockVars, subVars, connVars
  <2>2. t \in Tails /\ l \in Logs
    BY <1>1, <1>4, <2>1 DEF PickInv
  <2> HIDE DEF t, l
  <2>3. chan' \in [Tails -> Seq(Logs)]
    <3>1. Append(chan[t], l) \in Seq(Logs)
      BY <2>2 DEF TypeOK
    <3> QED BY <2>1, <3>1 DEF TypeOK
  <2>4. missed' \in [Tails -> SUBSET Logs]
    <3>1. missed[t] \cup {l} \in SUBSET Logs
      BY <2>2 DEF TypeOK
    <3> QED BY <2>1, <3>1 DEF TypeOK
  <2>5. visited' \in [Workers -> SUBSET Tails]
        /\ target' \in [Workers -> Tails \cup {Nobody}]
    BY <2>1, <2>2 DEF TypeOK
  <2> QED BY <1>3, <2>1, <2>3, <2>4, <2>5 DEF TypeOK
<1>7. CASE NextLog(b)
  <2>1. /\ UNCHANGED <<out, writer, queued, subs, open, filter, since,
                       handler, holding, peer, got, chan, missed, target>>
        /\ b \in readers /\ readers' \subseteq readers
        /\ pos' = [pos EXCEPT ![b] = @ + 1]
        /\ visited' = [visited EXCEPT ![b] = {}]
    BY <1>7 DEF NextLog, RUnlock, lockVars, subVars, connVars
  <2> QED BY <1>3, <1>4, <2>1 DEF TypeOK
<1> QED BY <1>2, <1>5, <1>6, <1>7 DEF Cast

\* What a handler moves is what it has.
LEMMA BoundedServe ==
  ASSUME HubInv, BoundedInv, NEW t \in Tails, Serve(t)
  PROVE  BoundedInv'
<1> USE DEF BoundedInv
<1>1. UNCHANGED <<out, pos, visited, target>>
  BY DEF Serve, Dial, Lock, Subscribe, Unsubscribe, HangUp, SeeClosed, Receive,
         Ping, WriteDone, WriteFails, castVars
<1>2. OutInv'
  BY <1>1 DEF OutInv, Out
<1>3. CASE Subscribe(t)
  BY <1>1, <1>2, <1>3 DEF Subscribe, Unlock, TypeOK
<1>4. CASE Unsubscribe(t)
  BY <1>1, <1>2, <1>4 DEF Unsubscribe, Unlock, TypeOK
<1>5. CASE Lock(t)
  BY <1>1, <1>2, <1>5 DEF Lock, subVars, connVars, TypeOK
<1>6. ASSUME NEW f \in Filters, Dial(t, f)
      PROVE  BoundedInv'
  BY <1>1, <1>2, <1>6 DEF Dial, lockVars, TypeOK
<1>7. CASE HangUp(t) \/ SeeClosed(t) \/ Ping(t)
  BY <1>1, <1>2, <1>7 DEF HangUp, SeeClosed, Ping, lockVars, subVars, TypeOK
<1>8. CASE Receive(t)
  <2>1. chan[t] \in Seq(Logs) /\ chan[t] # <<>>
    BY <1>8 DEF Receive, TypeOK
  <2>2. Head(chan[t]) \in Logs /\ Tail(chan[t]) \in Seq(Logs)
    BY <2>1
  <2> QED BY <1>1, <1>2, <1>8, <2>2 DEF Receive, lockVars, subVars, TypeOK
<1>9. CASE WriteDone(t)
  <2>1. got' \in [Tails -> Seq(Logs)]
    <3>1. CASE holding[t] = Nobody
      BY <1>9, <3>1 DEF WriteDone, TypeOK
    <3>2. CASE holding[t] # Nobody
      <4>1. got[t] \in Seq(Logs) /\ holding[t] \in Logs
        BY <3>2 DEF TypeOK
      <4>2. Append(got[t], holding[t]) \in Seq(Logs)
        BY <4>1
      <4> QED BY <1>9, <3>2, <4>2 DEF WriteDone, TypeOK
    <3> QED BY <3>1, <3>2
  <2> QED BY <1>1, <1>2, <1>9, <2>1 DEF WriteDone, lockVars, subVars, TypeOK
<1>10. CASE WriteFails(t)
  BY <1>1, <1>2, <1>10 DEF WriteFails, lockVars, subVars, TypeOK
<1> QED BY <1>3, <1>4, <1>5, <1>6, <1>7, <1>8, <1>9, <1>10 DEF Serve

\* It holds initially: nothing has been broadcast.
LEMMA BoundedInit == Init => BoundedInv
<1> SUFFICES ASSUME Init PROVE BoundedInv
  OBVIOUS
<1>1. Out = {}
  BY DEF Init, Out
<1>2. OutInv
  BY <1>1, FS_EmptySet, TailAssumption DEF OutInv
<1>3. TypeOK
  BY TailAssumption DEF Init, TypeOK
<1> QED BY <1>2, <1>3 DEF BoundedInv

\* The invariant is inductive.
LEMMA BoundedNext == HubInv /\ BoundedInv /\ [Next]_vars => BoundedInv'
<1> SUFFICES ASSUME HubInv, BoundedInv, [Next]_vars PROVE BoundedInv'
  OBVIOUS
<1>1. CASE Next
  BY <1>1, BoundedCast, BoundedServe DEF Next
<1>2. CASE UNCHANGED vars
  BY <1>2 DEF BoundedInv, TypeOK, OutInv, Out, vars, lockVars, subVars, castVars, connVars
<1> QED BY <1>1, <1>2

\* Every log in a channel, at a handler or written is one that a worker has
\* handed to Broadcast, and no worker runs past its last one.
THEOREM HubTypes == Spec => []TypeOK
<1>1. BoundedInv => TypeOK
  BY DEF BoundedInv
<1> QED BY <1>1, BoundedInit, BoundedNext, HubInit, HubNext, PTL DEF Spec
=============================================================================
