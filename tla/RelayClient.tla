------------------------------ MODULE RelayClient ------------------------------
(******************************************************************************)
(* The relay client of an agent, internal/relay/client.go: Connect, the       *)
(* readLoop, pingLoop and queryLoop goroutines it starts, reconnect with its  *)
(* exponential backoff, and Stop, called by another goroutine at any moment.  *)
(*                                                                            *)
(* Session s is the chain of goroutines that connection s leads to: its       *)
(* readLoop, then the reconnect that readLoop starts as it returns.  Session  *)
(* 0 is the first Connect, called by the discovery callback.                  *)
(******************************************************************************)
EXTENDS Integers, FiniteSets

CONSTANTS
  MaxConns,    \* bound: connections dialled successfully
  MaxRetries   \* bound: consecutive attempts that are counted

ASSUME BoundsAssumption == MaxConns \in Nat \ {0} /\ MaxRetries \in Nat \ {0}

Conns    == 1..MaxConns
Sessions == 0..MaxConns
Loops    == Conns \X {"ping", "query"}

VARIABLES
  conn,      \* c.conn, 0 when nil
  stopped,   \* c.stopped, guarded by c.mu
  done,      \* c.done is closed
  stopper,   \* progress of Stop
  retries,   \* c.maxRetries, which counts the attempts
  sleep,     \* seconds the last backoff sleeps
  session,   \* where each session is
  dialled,   \* the connection a session is registering, 0 if none
  loop,      \* where the ping and query loops of each connection are
  used,      \* connections dialled so far, but for those that did not register
  up,        \* connections whose link works
  closed,    \* connections closed by this client
  failures   \* history: attempts since the connection was last lost

clientVars == <<conn, stopped, done, stopper>>
retryVars  == <<retries, sleep, failures>>
linkVars   == <<used, up, closed>>
vars       == <<clientVars, retryVars, linkVars, session, dialled, loop>>

Reader    == {"select", "reading"}
Reconnect == {"failed", "starting", "sleeping", "woken", "dialing", "registering"}
Active    == Reader \cup Reconnect

--------------------------------------------------------------------------------
(* The backoff.                                                               *)

(* time.Second is 10^9 ns; these are the positions of its one bits. *)
SecondBits == {9, 11, 14, 15, 17, 19, 20, 23, 24, 25, 27, 28, 29}

(* Deviation, not part of Spec: nextBackoff without the maximum. *)
BackoffUncapped(n) == 2 ^ (n - 1)

(* The seconds nextBackoff makes time.Sleep wait at the n-th attempt:         *)
(* 10^9 << (n - 1) in 64 bits, at most 30.  A negative or zero product is not *)
(* above the maximum, and Sleep returns at once.  Above n = 5 a positive      *)
(* product exceeds 30 s: it is 32 s at least, or its lowest bit is beyond 44. *)
Backoff(n) ==
  LET word == {b + n - 1 : b \in SecondBits} \cap (0..63)
  IN  IF word = {} \/ 63 \in word THEN 0
      ELSE IF n <= 5 THEN 2 ^ (n - 1) ELSE 30

(* "1s -> 2s -> 4s -> 8s -> 16s -> 30s (max)", docs/architecture.md:120. *)
Schedule(n) == IF n <= 5 THEN 2 ^ (n - 1) ELSE 30

--------------------------------------------------------------------------------
Goto(s, l) == [session EXCEPT ![s] = l]

(* c.mu is held across steps only while Send writes to a slow link. *)
MuFree == \A l \in Loops : loop[l] # "sending"

TypeOK ==
  /\ conn \in 0..MaxConns
  /\ stopped \in BOOLEAN /\ done \in BOOLEAN
  /\ stopper \in {"idle", "flagged", "closing", "finished"}
  /\ retries \in 0..MaxRetries
  /\ sleep \in 0..30
  /\ failures \in 0..MaxRetries
  /\ session \in [Sessions -> Active \cup {"none", "ended"}]
  /\ dialled \in [Sessions -> 0..MaxConns]
  /\ loop \in [Loops -> {"none", "waiting", "ready", "sending", "ended"}]
  /\ used \in 0..MaxConns
  /\ up \subseteq Conns /\ closed \subseteq Conns

Init ==
  /\ conn = 0
  /\ stopped = FALSE /\ done = FALSE
  /\ stopper = "idle"
  /\ retries = 0 /\ sleep = 0 /\ failures = 0
  /\ session = [s \in Sessions |-> IF s = 0 THEN "dialing" ELSE "none"]
  /\ dialled = [s \in Sessions |-> 0]
  /\ loop = [l \in Loops |-> "none"]
  /\ used = 0
  /\ up = {} /\ closed = {}

--------------------------------------------------------------------------------
(* Deviations: plausible bugs of single operators, none of them part of Spec. *)

(* Connect forgets to reset the counter. *)
KeepRetries == retries

(* Connect starts the goroutines before it stores the connection. *)
EstablishedStale(s) ==
  LET k == dialled[s] IN
  /\ session[s] = "registering"
  /\ retries' = 0
  /\ session' = [session EXCEPT ![s] = "ended", ![k] = "select"]
  /\ loop' = [loop EXCEPT ![<<k, "ping">>] = "waiting", ![<<k, "query">>] = "ready"]
  /\ dialled' = [dialled EXCEPT ![s] = 0]
  /\ UNCHANGED <<clientVars, sleep, failures, linkVars>>

(* reconnect goes round once more after Connect succeeded. *)
EstablishedNoReturn(s) ==
  LET k == dialled[s] IN
  /\ session[s] = "registering"
  /\ conn' = k
  /\ retries' = 0
  /\ session' = [session EXCEPT ![s] = IF s = 0 THEN "ended" ELSE "woken",
                                ![k] = "select"]
  /\ loop' = [loop EXCEPT ![<<k, "ping">>] = "waiting", ![<<k, "query">>] = "ready"]
  /\ dialled' = [dialled EXCEPT ![s] = 0]
  /\ UNCHANGED <<stopped, done, stopper, sleep, failures, linkVars>>

(* reconnect returns on the first error of Connect. *)
ConnectFailsReturns(s) == session' = Goto(s, "ended") /\ UNCHANGED retryVars

(* Stop leaves the connection open. *)
CloseNothing == closed

--------------------------------------------------------------------------------
(* Connect.                                                                   *)

DialOk(s) ==
  /\ session[s] = "dialing"
  /\ used < MaxConns
  /\ used' = used + 1
  /\ up' = up \cup {used'}
  /\ dialled' = [dialled EXCEPT ![s] = used']
  /\ session' = Goto(s, "registering")
  /\ UNCHANGED <<clientVars, retryVars, closed, loop>>

(* Registered: the client's fields are set and the three goroutines start.    *)
(* queryLoop sends before it waits.                                           *)
ResetRetries == 0

Established(s) ==
  LET k == dialled[s] IN
  /\ session[s] = "registering"
  /\ conn' = k
  /\ retries' = ResetRetries
  /\ session' = [session EXCEPT ![s] = "ended", ![k] = "select"]
  /\ loop' = [loop EXCEPT ![<<k, "ping">>] = "waiting", ![<<k, "query">>] = "ready"]
  /\ dialled' = [dialled EXCEPT ![s] = 0]
  /\ UNCHANGED <<stopped, done, stopper, sleep, failures, linkVars>>

(* The counters stop at the bound of the model. *)
Count(n) == IF n < MaxRetries THEN n + 1 ELSE n

(* The next round of reconnect's loop: nextBackoff, then Sleep. *)
NextBackoff(s) ==
  /\ retries' = Count(retries)
  /\ failures' = Count(failures)
  /\ sleep' = Backoff(retries')
  /\ session' = Goto(s, "sleeping")

(* Connect returns an error: the first one gives up, reconnect goes round.    *)
ConnectFails(s) ==
  IF s = 0 THEN session' = Goto(s, "ended") /\ UNCHANGED retryVars
           ELSE NextBackoff(s)

DialFails(s) ==
  /\ session[s] = "dialing"
  /\ ConnectFails(s)
  /\ UNCHANGED <<clientVars, linkVars, dialled, loop>>

(* The register message or its answer is lost: Connect closes the connection, *)
(* which nobody else has seen; the model uses its number again.               *)
RegisterFails(s) ==
  /\ session[s] = "registering"
  /\ used' = used - 1
  /\ up' = up \ {dialled[s]}
  /\ dialled' = [dialled EXCEPT ![s] = 0]
  /\ ConnectFails(s)
  /\ UNCHANGED <<clientVars, closed, loop>>

--------------------------------------------------------------------------------
(* readLoop.                                                                  *)

Select(s) ==
  /\ session[s] = "select"
  /\ session' = Goto(s, IF done THEN "ended" ELSE "reading")
  /\ UNCHANGED <<clientVars, retryVars, linkVars, dialled, loop>>

(* A message, given to its callback; a ping is answered. *)
ReadMessage(s) ==
  /\ session[s] = "reading"
  /\ conn \in up \ closed
  /\ session' = Goto(s, "select")
  /\ UNCHANGED <<clientVars, retryVars, linkVars, dialled, loop>>

(* Read, or the answer to a ping, fails. *)
ReadFails(s) ==
  /\ session[s] = "reading"
  /\ conn \notin up \ closed
  /\ session' = Goto(s, "failed")
  /\ UNCHANGED <<clientVars, retryVars, linkVars, dialled, loop>>

(* Unless stopped, readLoop starts reconnect and returns. *)
Lost(s) ==
  /\ session[s] = "failed"
  /\ MuFree
  /\ session' = Goto(s, IF stopped THEN "ended" ELSE "starting")
  /\ failures' = 0
  /\ UNCHANGED <<clientVars, retries, sleep, linkVars, dialled, loop>>

--------------------------------------------------------------------------------
(* reconnect.                                                                 *)

StartReconnect(s) ==
  /\ session[s] = "starting"
  /\ MuFree
  /\ IF stopped THEN session' = Goto(s, "ended") /\ UNCHANGED retryVars
                    ELSE NextBackoff(s)
  /\ UNCHANGED <<clientVars, linkVars, dialled, loop>>

Wake(s) ==
  /\ session[s] = "sleeping"
  /\ session' = Goto(s, "woken")
  /\ UNCHANGED <<clientVars, retryVars, linkVars, dialled, loop>>

Recheck(s) ==
  /\ session[s] = "woken"
  /\ MuFree
  /\ session' = Goto(s, IF stopped THEN "ended" ELSE "dialing")
  /\ UNCHANGED <<clientVars, retryVars, linkVars, dialled, loop>>

--------------------------------------------------------------------------------
(* pingLoop and queryLoop.                                                    *)

Move(l, from, to) ==
  /\ loop[l] = from
  /\ loop' = [loop EXCEPT ![l] = to]
  /\ UNCHANGED <<clientVars, retryVars, linkVars, session, dialled>>

Tick(l)     == Move(l, "waiting", "ready")
SendLock(l) == MuFree /\ Move(l, "ready", "sending")
Sent(l)     == Move(l, "sending", "waiting")   \* an error is not looked at
Quit(l)     == done /\ Move(l, "waiting", "ended")

--------------------------------------------------------------------------------
(* Stop, in three steps: only the first is under c.mu.                        *)

SetStopped ==
  /\ stopper = "idle"
  /\ MuFree
  /\ stopped' = TRUE
  /\ stopper' = "flagged"
  /\ UNCHANGED <<conn, done, retryVars, linkVars, session, dialled, loop>>

CloseDone ==
  /\ stopper = "flagged"
  /\ done' = TRUE
  /\ stopper' = "closing"
  /\ UNCHANGED <<conn, stopped, retryVars, linkVars, session, dialled, loop>>

CloseCurrent == IF conn = 0 THEN closed ELSE closed \cup {conn}

CloseConn ==
  /\ stopper = "closing"
  /\ closed' = CloseCurrent
  /\ stopper' = "finished"
  /\ UNCHANGED <<conn, stopped, done, retryVars, used, up, session, dialled, loop>>

--------------------------------------------------------------------------------
(* Environment: the relay or the network drops a connection. *)
LinkDown(k) ==
  /\ k \in up
  /\ up' = up \ {k}
  /\ UNCHANGED <<clientVars, retryVars, used, closed, session, dialled, loop>>

Session(s) ==
  \/ DialOk(s) \/ DialFails(s) \/ Established(s) \/ RegisterFails(s)
  \/ Select(s) \/ ReadMessage(s) \/ ReadFails(s) \/ Lost(s)
  \/ StartReconnect(s) \/ Wake(s) \/ Recheck(s)

Stop == SetStopped \/ CloseDone \/ CloseConn

Next ==
  \/ \E s \in Sessions : Session(s)
  \/ \E l \in Loops : Tick(l) \/ SendLock(l) \/ Sent(l) \/ Quit(l)
  \/ Stop
  \/ \E k \in Conns : LinkDown(k)

Spec == Init /\ [][Next]_vars

(* The steps of a session that wait for c.mu. *)
Locking(s) == Lost(s) \/ StartReconnect(s) \/ Recheck(s)

(* Goroutines run; a dial, a handshake and a write end with a result, and so  *)
(* does a read whose connection is gone.  sync.Mutex does not starve a        *)
(* waiter: strong fairness for the session that waits (there is one at most,  *)
(* SingleSession).  A select with two ready cases picks at random: a loop     *)
(* whose done channel is closed takes that case in the end.                   *)
Fairness ==
  /\ \A s \in Sessions :
       /\ WF_vars(DialOk(s) \/ DialFails(s))
       /\ WF_vars(Established(s) \/ RegisterFails(s))
       /\ WF_vars(Select(s)) /\ WF_vars(ReadFails(s)) /\ WF_vars(Wake(s))
  /\ SF_vars(\E s \in Sessions : Locking(s))
  /\ \A l \in Loops : WF_vars(SendLock(l)) /\ WF_vars(Sent(l)) /\ SF_vars(Quit(l))
  /\ WF_vars(CloseDone) /\ WF_vars(CloseConn)

FairSpec == Spec /\ Fairness

(* The relay answers again in the end: of infinitely many attempts one works. *)
RelayAnswers ==
  /\ SF_vars(\E s \in Sessions : DialOk(s))
  /\ SF_vars(\E s \in Sessions : Established(s))

HealingSpec == FairSpec /\ RelayAnswers

--------------------------------------------------------------------------------
(* Never two goroutines that read the connection, dial or touch the retry     *)
(* counter: readLoop hands over to reconnect, and Connect to a new readLoop.  *)
SingleSession ==
  \A s, t \in Sessions : session[s] \in Active /\ session[t] \in Active => s = t

(* readLoop reads c.conn anew for every message; it is the connection it was  *)
(* started for all the same, so that a late loop never steals a newer one.    *)
ReaderOnOwnConn ==
  \A s \in Sessions : session[s] \in Reader => conn = s /\ s \in 1..used

(* Every attempt since the connection was lost waits as documented.           *)
BackoffFollowsSchedule ==
  \A s \in Sessions : session[s] = "sleeping" => sleep = Schedule(failures)

AllQuit ==
  /\ \A s \in Sessions : session[s] \notin Active
  /\ \A l \in Loops : loop[l] \in {"none", "ended"}

(* After Stop every goroutine of the client ends, also those of a Connect     *)
(* that was under way, and of connections long replaced.                      *)
StopQuits == stopper = "finished" ~> AllQuit

(* A lost connection is replaced, unless the client is stopped: readLoop      *)
(* never returns without a successor.  (The last connection of the model has  *)
(* none.)                                                                     *)
Reconnects ==
  \A k \in 1..(MaxConns - 1) : session[k] = "failed" ~> conn # k \/ stopped

================================================================================
