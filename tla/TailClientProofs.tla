-------------------------- MODULE TailClientProofs --------------------------
(***************************************************************************)
(* Theorems about TailClient, for any number of sockets and changes of the *)
(* options, in whatever order React, sockets and timers run.               *)
(***************************************************************************)
EXTENDS TailClient, TLAPS

-----------------------------------------------------------------------------
(* Types.                                                                  *)

\* What connect leaves behind.
LEMMA ConnectType ==
  ASSUME NEW o, NEW gone, NEW sock, Connect(o, gone, sock)
  PROVE  \/ socket' = sock /\ made' = made /\ wsRef' = wsRef
         \/ /\ o.enabled /\ ~gone
            /\ \E s \in Sockets : /\ sock[s] = "closed"
                                  /\ socket' = [sock EXCEPT ![s] = "connecting"]
                                  /\ made' = [made EXCEPT ![s] = o]
                                  /\ wsRef' = s
  BY DEF Connect

\* And of which type.
LEMMA ConnectKeepsType ==
  ASSUME TypeOK, NEW o \in Options, NEW gone,
         NEW sock \in [Sockets -> {"connecting", "open", "closing", "closed"}],
         Connect(o, gone, sock)
  PROVE  /\ socket' \in [Sockets -> {"connecting", "open", "closing", "closed"}]
         /\ made' \in [Sockets -> Options \cup {None}]
         /\ wsRef' \in Sockets \cup {None}
  BY ConnectType DEF TypeOK

\* The sockets after a cleanup.
LEMMA ClosingType ==
  ASSUME TypeOK
  PROVE  Closing \in [Sockets -> {"connecting", "open", "closing", "closed"}]
  BY DEF TypeOK, Closing

\* The types hold initially: EnabledAtMount holds booleans.
LEMMA TypeInit == Init => TypeOK
<1> SUFFICES ASSUME Init PROVE TypeOK
  OBVIOUS
<1>1. options \in Options
  BY ClientAssumption DEF Init, Options
<1>2. lines \in 0..MaxLines /\ changes \in 0..MaxChanges
  BY ClientAssumption DEF Init
<1>3. /\ socket \in [Sockets -> {"connecting", "open", "closing", "closed"}]
      /\ made \in [Sockets -> Options \cup {None}]
  BY DEF Init
<1> QED BY <1>1, <1>2, <1>3 DEF Init, TypeOK

\* Every step keeps the types.
LEMMA TypeNext == TypeOK /\ [Next]_vars => TypeOK'
<1> SUFFICES ASSUME TypeOK, [Next]_vars PROVE TypeOK'
  OBVIOUS
<1> USE ClientAssumption
<1>1. ASSUME NEW o \in Options, Change(o) PROVE
        /\ mounted' \in BOOLEAN /\ options' \in Options /\ changes' \in 0..MaxChanges
        /\ ran' \in Options \cup {None} /\ unmounted' \in BOOLEAN
        /\ wsRef' \in Sockets \cup {None} /\ retry' \in Options \cup {None}
        /\ socket' \in [Sockets -> {"connecting", "open", "closing", "closed"}]
        /\ made' \in [Sockets -> Options \cup {None}]
  BY <1>1 DEF TypeOK, Change, refVars, sockVars
<1>2. CASE Toggle
  <2>1. [options EXCEPT !.enabled = ~@] \in Options
    BY DEF TypeOK, Options
  <2>2. lines' \in 0..MaxLines /\ connected' \in BOOLEAN /\ error' \in BOOLEAN
    BY <1>2 DEF Toggle, TypeOK
  <2> QED BY <1>1, <1>2, <2>1, <2>2 DEF Toggle, TypeOK
<1>3. ASSUME NEW q \in Queries, SetQuery(q) PROVE TypeOK'
  <2>1. [options EXCEPT !.query = q] \in Options
    BY DEF TypeOK, Options
  <2>2. UNCHANGED stateVars
    BY <1>3 DEF SetQuery
  <2> QED BY <1>1, <1>3, <2>1, <2>2 DEF SetQuery, TypeOK, stateVars
<1>4. CASE Clear
  BY <1>4 DEF Clear, TypeOK, refVars, sockVars
<1>5. CASE RunEffect
  <2>1. /\ ran' = options /\ UNCHANGED <<mounted, options, changes, stateVars>>
        /\ unmounted' \in BOOLEAN /\ retry' \in Options \cup {None}
    BY <1>5 DEF RunEffect, TypeOK
  <2>2. options \in Options
    BY DEF TypeOK
  <2>3. \/ Connect(options, unmounted, socket)
        \/ Connect(options, TRUE, Closing)
    BY <1>5 DEF RunEffect
  <2>4. socket \in [Sockets -> {"connecting", "open", "closing", "closed"}]
    BY DEF TypeOK
  <2>5. /\ socket' \in [Sockets -> {"connecting", "open", "closing", "closed"}]
        /\ made' \in [Sockets -> Options \cup {None}]
        /\ wsRef' \in Sockets \cup {None}
    BY <2>2, <2>3, <2>4, ConnectKeepsType, ClosingType
  <2> QED BY <2>1, <2>5 DEF TypeOK, stateVars
<1>6. CASE Unmount
  BY <1>6, ClosingType DEF Unmount, TypeOK, stateVars
<1>7. CASE TimerFires
  <2>1. retry \in Options /\ Connect(retry, unmounted, socket)
    BY <1>7 DEF TimerFires, TypeOK
  <2>2. socket \in [Sockets -> {"connecting", "open", "closing", "closed"}]
    BY DEF TypeOK
  <2>3. /\ socket' \in [Sockets -> {"connecting", "open", "closing", "closed"}]
        /\ made' \in [Sockets -> Options \cup {None}]
        /\ wsRef' \in Sockets \cup {None}
    BY <2>1, <2>2, ConnectKeepsType
  <2> QED BY <1>7, <2>3 DEF TimerFires, TypeOK, stateVars
<1>8. ASSUME NEW s \in Sockets, OnOpen(s) PROVE TypeOK'
  BY <1>8 DEF OnOpen, TypeOK, refVars
<1>9. ASSUME NEW s \in Sockets, OnMessage(s) PROVE TypeOK'
  BY <1>9 DEF OnMessage, TypeOK, refVars, sockVars
<1>10. ASSUME NEW s \in Sockets, NEW code, OnClose(s, code) PROVE TypeOK'
  <2>1. retry' = retry \/ (retry' = made[s] /\ made[s] \in Options \cup {None})
    BY <1>10 DEF OnClose, TypeOK
  <2>2. connected' \in BOOLEAN /\ error' \in BOOLEAN
    BY <1>10 DEF OnClose, TypeOK
  <2>3. socket' \in [Sockets -> {"connecting", "open", "closing", "closed"}]
    BY <1>10 DEF OnClose, TypeOK
  <2> QED BY <1>10, <2>1, <2>2, <2>3 DEF OnClose, TypeOK
<1>11. CASE UNCHANGED vars
  BY <1>11 DEF TypeOK, vars, refVars, sockVars, stateVars
<1> QED BY <1>2, <1>3, <1>4, <1>5, <1>6, <1>7, <1>8, <1>9, <1>10, <1>11 DEF Next

\* Every variable of the hook and the panel keeps its type: in particular no
\* more than MAX_TAIL_LINES lines are kept (useTail.ts 51-54).
THEOREM ClientTypes == Spec => []TypeOK
  BY TypeInit, TypeNext, PTL DEF Spec

-----------------------------------------------------------------------------
(* The connection.                                                         *)

\* Before the first effect there is nothing, and the hook closes a socket
\* only in a cleanup.
QuietInv ==
  /\ ran = None => ~unmounted /\ retry = None /\ ~error
  /\ \A s \in Sockets : Live(s) => ran # None
  /\ \A s \in Sockets : socket[s] = "closing" => unmounted

ClientInv == TypeOK /\ QuietInv /\ OneConnection /\ HonestState

\* No connection, no effect, no error.
LEMMA ClientInit == Init => ClientInv
  BY TypeInit DEF Init, ClientInv, QuietInv, OneConnection, HonestState, Live

\* A connect without another connection keeps what holds of the one.
LEMMA ConnectAlone ==
  ASSUME TypeOK, NEW o \in Options, NEW gone,
         NEW sock \in [Sockets -> {"connecting", "open", "closing", "closed"}],
         \A s \in Sockets : sock[s] \notin {"connecting", "open"},
         Connect(o, gone, sock)
  PROVE  /\ \A s \in Sockets : socket'[s] \in {"connecting", "open"} =>
              /\ wsRef' = s /\ made'[s] = o /\ o.enabled /\ ~gone
              /\ socket'[s] = "connecting"
         /\ \A s \in Sockets : socket'[s] = "closing" => sock[s] = "closing"
  BY ConnectType DEF TypeOK

\* Every step keeps the invariant.
LEMMA ClientNext == ClientInv /\ [Next]_vars => ClientInv'
<1> SUFFICES ASSUME ClientInv, [Next]_vars PROVE ClientInv'
  OBVIOUS
<1> USE ClientAssumption DEF ClientInv
<1>1. TypeOK'
  BY TypeNext
<1>2. None \notin Sockets /\ None \notin Options
  BY DEF Options
<1>3. ASSUME UNCHANGED <<ran, unmounted, wsRef, retry, socket, made, connected, error>>
      PROVE  ClientInv'
  BY <1>1, <1>3 DEF QuietInv, OneConnection, HonestState, Live
<1>4. CASE Toggle \/ (\E q \in Queries : SetQuery(q)) \/ Clear \/ UNCHANGED vars
  BY <1>3, <1>4 DEF Toggle, SetQuery, Clear, Change, vars, refVars, sockVars, stateVars
<1>5. CASE RunEffect
  <2>1. /\ ran # options /\ ran' = options /\ options \in Options
        /\ UNCHANGED <<connected, error>>
    BY <1>5 DEF RunEffect, TypeOK, stateVars
  <2>2. CASE ran = None
    <3>1. /\ UNCHANGED <<unmounted, retry>> /\ ~unmounted /\ retry = None /\ ~error
          /\ Connect(options, unmounted, socket)
      BY <1>5, <2>2 DEF RunEffect, QuietInv
    <3>2. /\ socket \in [Sockets -> {"connecting", "open", "closing", "closed"}]
          /\ \A s \in Sockets : socket[s] \notin {"connecting", "open"}
      BY <2>2 DEF TypeOK, QuietInv, Live
    <3>3. /\ \A s \in Sockets : socket'[s] \in {"connecting", "open"} =>
               wsRef' = s /\ made'[s] = options /\ socket'[s] = "connecting"
          /\ \A s \in Sockets : socket'[s] = "closing" => socket[s] = "closing"
      BY <2>1, <3>1, <3>2, ConnectAlone
    <3>4. QuietInv' /\ OneConnection'
      BY <1>2, <2>1, <3>1, <3>3 DEF QuietInv, OneConnection, Live
    <3>5. ~connected
      BY <3>1, <3>2 DEF HonestState
    <3>6. HonestState'
      BY <2>1, <3>1, <3>3, <3>5 DEF HonestState
    <3> QED BY <1>1, <3>4, <3>6
  <2>3. CASE ran # None
    <3>1. unmounted' = TRUE /\ retry' = None /\ Connect(options, TRUE, Closing)
      BY <1>5, <2>3 DEF RunEffect
    <3>2. \A s \in Sockets : Closing[s] \notin {"connecting", "open"}
      BY DEF Closing, OneConnection, Live, TypeOK
    <3>3. \A s \in Sockets : socket'[s] \notin {"connecting", "open"}
      BY <2>1, <3>1, <3>2, ClosingType, ConnectAlone
    <3> QED BY <1>1, <1>2, <2>1, <3>1, <3>3 DEF QuietInv, OneConnection, HonestState, Live
  <2> QED BY <2>2, <2>3
<1>6. CASE Unmount
  <2>1. unmounted' = TRUE /\ retry' = None /\ socket' = Closing /\ UNCHANGED ran /\ ran # None
    BY <1>6 DEF Unmount
  <2>2. \A s \in Sockets : Closing[s] \notin {"connecting", "open"}
    BY DEF Closing, OneConnection, Live, TypeOK
  <2> QED BY <1>1, <2>1, <2>2 DEF QuietInv, OneConnection, HonestState, Live
<1>7. CASE TimerFires
  <2>1. /\ retry # None /\ retry = ran /\ ~unmounted /\ retry \in Options
        /\ retry' = None /\ Connect(retry, unmounted, socket)
        /\ UNCHANGED <<ran, unmounted, connected, error>>
    BY <1>7 DEF TimerFires, OneConnection, TypeOK, stateVars
  <2>2. /\ socket \in [Sockets -> {"connecting", "open", "closing", "closed"}]
        /\ \A s \in Sockets : socket[s] \notin {"connecting", "open"}
    BY <2>1 DEF TypeOK, OneConnection, Live
  <2>3. /\ \A s \in Sockets : socket'[s] \in {"connecting", "open"} =>
             wsRef' = s /\ made'[s] = retry /\ socket'[s] = "connecting"
        /\ \A s \in Sockets : socket'[s] = "closing" => socket[s] = "closing"
    BY <2>1, <2>2, ConnectAlone
  <2>4. QuietInv' /\ OneConnection'
    BY <2>1, <2>3 DEF QuietInv, OneConnection, Live
  <2>5. ~connected
    BY <2>1, <2>2 DEF HonestState
  <2>6. HonestState'
    BY <2>1, <2>3, <2>5 DEF HonestState
  <2> QED BY <1>1, <2>4, <2>6
<1>8. ASSUME NEW s \in Sockets, OnOpen(s) PROVE ClientInv'
  <2>1. Live(s) /\ ~unmounted /\ ran # None
    BY <1>8 DEF OnOpen, Live, OneConnection, QuietInv
  <2>2. /\ socket' = [socket EXCEPT ![s] = "open"] /\ connected' = TRUE /\ error' = FALSE
        /\ UNCHANGED <<ran, unmounted, wsRef, retry, made>>
    BY <1>8, <2>1 DEF OnOpen, refVars
  <2>3. socket'[s] = "open" /\ \A r \in Sockets : r # s => socket'[r] = socket[r]
    BY <2>2 DEF TypeOK
  <2>4. QuietInv' /\ OneConnection'
    BY <2>1, <2>2, <2>3 DEF QuietInv, OneConnection, Live
  <2> QED BY <1>1, <2>2, <2>3, <2>4 DEF HonestState
<1>9. ASSUME NEW s \in Sockets, OnMessage(s) PROVE ClientInv'
  BY <1>3, <1>9 DEF OnMessage, refVars, sockVars
<1>10. ASSUME NEW s \in Sockets, NEW code \in {1000, 1006}, OnClose(s, code)
       PROVE  ClientInv'
  <2>1. /\ socket' = [socket EXCEPT ![s] = "closed"]
        /\ UNCHANGED <<ran, unmounted, wsRef, made>>
        /\ socket[s] # "closed"
    BY <1>10 DEF OnClose
  <2>2. socket'[s] = "closed" /\ \A r \in Sockets : r # s => socket'[r] = socket[r]
    BY <2>1 DEF TypeOK
  <2>3. CASE unmounted
    <3>1. UNCHANGED <<connected, error, retry>>
      BY <1>10, <2>3 DEF OnClose
    <3> QED BY <1>1, <2>1, <2>2, <2>3, <3>1 DEF QuietInv, OneConnection, HonestState, Live
  <2>4. CASE ~unmounted
    <3>1. Live(s) /\ made[s] = ran /\ retry = None /\ ran # None
      BY <2>1, <2>4 DEF QuietInv, OneConnection, Live, TypeOK
    <3>2. \A r \in Sockets : socket'[r] \notin {"connecting", "open"}
      BY <2>2, <3>1 DEF OneConnection, Live
    <3>3. /\ connected' = FALSE
          /\ \/ made[s].enabled /\ error' = TRUE /\ retry' = made[s]
             \/ UNCHANGED <<error, retry>>
      BY <1>10, <2>4 DEF OnClose, Retries
    <3>4. QuietInv' /\ OneConnection'
      BY <2>1, <2>2, <2>4, <3>1, <3>2, <3>3 DEF QuietInv, OneConnection, Live
    <3>5. HonestState'
      BY <2>1, <3>1, <3>2, <3>3, <2>4 DEF HonestState
    <3> QED BY <1>1, <3>4, <3>5
  <2> QED BY <2>3, <2>4
<1> QED BY <1>4, <1>5, <1>6, <1>7, <1>8, <1>9, <1>10 DEF Next

\* However effects, cleanups, callbacks and timers interleave, there is never
\* more than one connection or pending retry, it is for the options of the
\* effect that runs, and a cleanup leaves none behind (useTail.ts 59-86).
THEOREM SingleConnection == Spec => []OneConnection
<1>1. ClientInv => OneConnection
  BY DEF ClientInv
<1> QED BY <1>1, ClientInit, ClientNext, PTL DEF Spec

\* Until its cleanup the hook shows a connection just when it has one.
THEOREM Honest == Spec => []HonestState
<1>1. ClientInv => HonestState
  BY DEF ClientInv
<1> QED BY <1>1, ClientInit, ClientNext, PTL DEF Spec
=============================================================================
