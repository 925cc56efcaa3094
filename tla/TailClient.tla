----------------------------- MODULE TailClient -----------------------------
(***************************************************************************)
(* The live tail in the browser: the hook useTail (useTail.ts) and the     *)
(* panel that drives it (TailPanel.tsx).  A render hands the hook its      *)
(* options; React runs the hook's effect after a render that changed them, *)
(* the cleanup of the effect before it first.  Each effect, socket and     *)
(* timer keeps the options it was created with.  How long a retry waits is *)
(* left out.                                                               *)
(***************************************************************************)
EXTENDS Integers

CONSTANTS
  Sockets,        \* WebSocket objects that can exist at the same time
  Queries,        \* choices of service and level
  None,           \* no socket, no options
  EnabledAtMount, \* the option "enabled" of the first render
  MaxLines,       \* MAX_TAIL_LINES (500)
  MaxChanges      \* bound of the model: how often the options change

ASSUME ClientAssumption ==
  /\ None \notin Sockets \cup [enabled : BOOLEAN, query : Queries]
  /\ EnabledAtMount \subseteq BOOLEAN
  /\ MaxLines \in Nat \ {0}
  /\ MaxChanges \in Nat

VARIABLES
  mounted,    \* the component is on the page
  options,    \* of the last render
  changes,    \* how often they have changed
  ran,        \* options of the effect that ran last
  unmounted,  \* the ref of this name: a cleanup has run
  wsRef,      \* the last socket created
  retry,      \* options of the connect that the timer will call
  socket,     \* readyState of a socket
  made,       \* options of the connect that made it
  connected, lines, error  \* the hook's state, the log lines as their number

stateVars == <<connected, lines, error>>
refVars == <<ran, unmounted, wsRef, retry>>
sockVars == <<socket, made>>
vars == <<mounted, options, changes, refVars, sockVars, stateVars>>

Options == [enabled : BOOLEAN, query : Queries]

Live(s) == socket[s] \in {"connecting", "open"}

Init ==
  /\ mounted = TRUE
  /\ options \in [enabled : EnabledAtMount, query : Queries]
  /\ changes = 0
  /\ ran = None
  /\ unmounted = FALSE
  /\ wsRef = None
  /\ retry = None
  /\ socket = [s \in Sockets |-> "closed"]
  /\ made = [s \in Sockets |-> None]
  /\ connected = FALSE /\ lines = 0 /\ error = FALSE

-----------------------------------------------------------------------------
(* The panel.                                                              *)

Change(o) ==
  /\ mounted
  /\ changes < MaxChanges
  /\ options' = o
  /\ changes' = changes + 1
  /\ UNCHANGED <<mounted, refVars, sockVars>>

\* The button clears the lines when it stops the tail.
Toggle ==
  /\ Change([options EXCEPT !.enabled = ~@])
  /\ lines' = IF options.enabled THEN 0 ELSE lines
  /\ UNCHANGED <<connected, error>>

\* The inputs are locked while the tail is on, the address bar is not.
SetQuery(q) ==
  /\ q # options.query
  /\ Change([options EXCEPT !.query = q])
  /\ UNCHANGED stateVars

Clear ==
  /\ mounted
  /\ lines' = 0
  /\ UNCHANGED <<mounted, options, changes, refVars, sockVars, connected, error>>

-----------------------------------------------------------------------------
(* The hook.  "sock" is the sockets after what was closed before.          *)

\* connect of the effect with options o.
Connect(o, gone, sock) ==
  IF o.enabled /\ ~gone
  THEN \E s \in Sockets :
         /\ sock[s] = "closed"
         /\ socket' = [sock EXCEPT ![s] = "connecting"]
         /\ made' = [made EXCEPT ![s] = o]
         /\ wsRef' = s
  ELSE socket' = sock /\ UNCHANGED <<made, wsRef>>

\* wsRef.current?.close(1000)
Closing ==
  [s \in Sockets |-> IF s = wsRef /\ Live(s) THEN "closing" ELSE socket[s]]

\* Mutant of RunEffect: the effect resets unmounted.
RunEffectAfresh ==
  /\ mounted
  /\ ran # options
  /\ ran' = options
  /\ unmounted' = FALSE
  /\ retry' = IF ran = None THEN retry ELSE None
  /\ Connect(options, FALSE, IF ran = None THEN socket ELSE Closing)
  /\ UNCHANGED <<mounted, options, changes, stateVars>>

\* The options have changed: the old effect's cleanup, then the new effect.
RunEffect ==
  /\ mounted
  /\ ran # options
  /\ ran' = options
  /\ IF ran = None
     THEN /\ UNCHANGED <<unmounted, retry>>
          /\ Connect(options, unmounted, socket)
     ELSE /\ unmounted' = TRUE
          /\ retry' = None
          /\ Connect(options, TRUE, Closing)
  /\ UNCHANGED <<mounted, options, changes, stateVars>>

\* The user leaves the page: the cleanup alone.
Unmount ==
  /\ mounted
  /\ ran # None
  /\ mounted' = FALSE
  /\ unmounted' = TRUE
  /\ retry' = None
  /\ socket' = Closing
  /\ UNCHANGED <<options, changes, ran, wsRef, made, stateVars>>

TimerFires ==
  /\ retry # None
  /\ retry' = None
  /\ Connect(retry, unmounted, socket)
  /\ UNCHANGED <<mounted, options, changes, ran, unmounted, stateVars>>

OnOpen(s) ==
  /\ socket[s] = "connecting"
  /\ socket' = [socket EXCEPT ![s] = IF unmounted THEN "closing" ELSE "open"]
  /\ IF unmounted THEN UNCHANGED <<connected, error>>
     ELSE connected' = TRUE /\ error' = FALSE
  /\ UNCHANGED <<mounted, options, changes, refVars, made, lines>>

\* Mutant of OnMessage: without slice.
OnMessageKeepAll(s) ==
  /\ socket[s] = "open"
  /\ lines' = IF unmounted THEN lines ELSE lines + 1
  /\ UNCHANGED <<mounted, options, changes, refVars, sockVars, connected, error>>

OnMessage(s) ==
  /\ socket[s] = "open"
  /\ lines' = IF unmounted \/ lines = MaxLines THEN lines ELSE lines + 1
  /\ UNCHANGED <<mounted, options, changes, refVars, sockVars, connected, error>>

\* Mutant of Retries: a connection that was never open is given up.
RetriesIfOpened(s, code) == code # 1000 /\ made[s].enabled /\ socket[s] = "open"

Retries(s, code) == code # 1000 /\ made[s].enabled

\* Mutant of OnClose: the retry is scheduled, the state is not told.
OnCloseSilent(s, code) ==
  /\ socket[s] # "closed"
  /\ code = 1000 => socket[s] = "closing"
  /\ socket' = [socket EXCEPT ![s] = "closed"]
  /\ retry' = IF ~unmounted /\ Retries(s, code) THEN made[s] ELSE retry
  /\ UNCHANGED <<mounted, options, changes, ran, unmounted, wsRef, made, stateVars>>

\* The connection is gone.  observad hangs up without a close frame, so the
\* code is 1000 only where the hook itself has closed the socket.
OnClose(s, code) ==
  /\ socket[s] # "closed"
  /\ code = 1000 => socket[s] = "closing"
  /\ socket' = [socket EXCEPT ![s] = "closed"]
  /\ IF unmounted THEN UNCHANGED <<connected, error, retry>>
     ELSE /\ connected' = FALSE
          /\ IF Retries(s, code) THEN error' = TRUE /\ retry' = made[s]
             ELSE UNCHANGED <<error, retry>>
  /\ UNCHANGED <<mounted, options, changes, ran, unmounted, wsRef, made, lines>>

-----------------------------------------------------------------------------
Next ==
  \/ Toggle
  \/ \E q \in Queries : SetQuery(q)
  \/ Clear
  \/ RunEffect
  \/ Unmount
  \/ TimerFires
  \/ \E s \in Sockets :
       \/ OnOpen(s)
       \/ OnMessage(s)
       \/ \E code \in {1000, 1006} : OnClose(s, code)

\* React runs effects, timers fire, and a server that is tried again and
\* again answers at last.
Fairness ==
  /\ WF_vars(RunEffect)
  /\ WF_vars(TimerFires)
  /\ SF_vars(\E s \in Sockets : OnOpen(s))

Spec == Init /\ [][Next]_vars /\ Fairness
-----------------------------------------------------------------------------
(* Properties.                                                             *)

TypeOK ==
  /\ mounted \in BOOLEAN
  /\ options \in Options
  /\ changes \in 0..MaxChanges
  /\ ran \in Options \cup {None}
  /\ unmounted \in BOOLEAN
  /\ wsRef \in Sockets \cup {None}
  /\ retry \in Options \cup {None}
  /\ socket \in [Sockets -> {"connecting", "open", "closing", "closed"}]
  /\ made \in [Sockets -> Options \cup {None}]
  /\ connected \in BOOLEAN
  /\ lines \in 0..MaxLines
  /\ error \in BOOLEAN

\* There is one connection or one pending retry, never two, it asks for what
\* the effect that runs now asks for, and none is left after a cleanup.
OneConnection ==
  /\ \A s \in Sockets : Live(s) =>
       wsRef = s /\ made[s] = ran /\ retry = None /\ ~unmounted
  /\ retry # None => retry = ran /\ ~unmounted

\* Until its cleanup the hook reports a connection only while it has one, and
\* an error only while it has none.
HonestState ==
  ~unmounted =>
    /\ connected <=> \E s \in Sockets : socket[s] = "open"
    /\ error => ~connected /\ ran # None /\ ran.enabled

\* An effect that is to be connected gets connected, again after every loss
\* and every failed attempt, unless its cleanup comes first.
Reconnects == (ran # None /\ ran.enabled /\ ~unmounted) ~> (connected \/ unmounted)

\* TailPanel.tsx 101: press Start live tail to stream logs.
StartConnects == options.enabled ~> (connected \/ ~options.enabled \/ ~mounted)
=============================================================================
