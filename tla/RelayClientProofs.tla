--------------------------- MODULE RelayClientProofs ---------------------------
(******************************************************************************)
(* Proofs about RelayClient, for any number of connections and attempts: its  *)
(* sessions follow each other, its backoff, and that it keeps the promise of  *)
(* RelayUplink.                                                               *)
(******************************************************************************)
EXTENDS RelayClient, TLAPS

(* The types the proof needs. *)
TInv ==
  /\ session \in [Sessions -> Active \cup {"none", "ended"}]
  /\ dialled \in [Sessions -> 0..MaxConns]
  /\ used \in 0..MaxConns

(* The active session is that of the newest connection; while it registers a  *)
(* connection, that is the newest and its session has not begun.              *)
Newest ==
  \A s \in Sessions : session[s] \in Active =>
    IF session[s] = "registering"
    THEN /\ s + 1 = used /\ dialled[s] = used
         /\ session[used] \notin Active
    ELSE s = used

CInv == TInv /\ SingleSession /\ Newest /\ ReaderOnOwnConn

(* The first Connect is alone. *)
LEMMA InitCInv == Init => CInv
BY BoundsAssumption
DEF Init, CInv, TInv, SingleSession, Newest, ReaderOnOwnConn, Sessions, Active,
    Reader, Reconnect

(* A step of a session that neither begins nor ends a registration keeps its  *)
(* place, or ends.                                                            *)
LEMMA Walk ==
  ASSUME CInv, NEW s \in Sessions, NEW l,
         session[s] \in Active \ {"registering"},
         l \in (Active \cup {"ended"}) \ {"registering"},
         l \in Reader => session[s] \in Reader,
         session' = [session EXCEPT ![s] = l],
         UNCHANGED <<conn, used, dialled>>
  PROVE  CInv'
<1> USE DEF Sessions, Active, Reader, Reconnect
<1>1. TInv'
  BY DEF CInv, TInv
<1>2. SingleSession'
  BY DEF CInv, TInv, SingleSession
<1>3. Newest'
  BY DEF CInv, TInv, SingleSession, Newest
<1>4. ReaderOnOwnConn'
  BY DEF CInv, TInv, ReaderOnOwnConn
<1> QED
  BY <1>1, <1>2, <1>3, <1>4 DEF CInv

(* Every step keeps one session, on its own connection. *)
LEMMA NextCInv == CInv /\ [Next]_vars => CInv'
<1> SUFFICES ASSUME CInv, [Next]_vars PROVE CInv'
  OBVIOUS
<1> USE BoundsAssumption
<1>1. ASSUME UNCHANGED <<session, dialled, used, conn>> PROVE CInv'
  BY <1>1 DEF CInv, TInv, SingleSession, Newest, ReaderOnOwnConn
<1>2. ASSUME NEW s \in Sessions, DialOk(s) PROVE CInv'
  <2>1. /\ session[s] = "dialing" /\ used < MaxConns /\ used' = used + 1
        /\ dialled' = [dialled EXCEPT ![s] = used + 1]
        /\ session' = [session EXCEPT ![s] = "registering"]
        /\ conn' = conn
    BY <1>2 DEF DialOk, Goto, clientVars
  <2>2. s = used /\ used \in 0..MaxConns /\ s + 1 \in Sessions
    <3>1. s = used
      BY <2>1 DEF CInv, Newest, Active, Reconnect
    <3>2. used \in 0..MaxConns
      BY DEF CInv, TInv
    <3> QED
      BY <2>1, <3>1, <3>2 DEF Sessions
  <2>3. \A t \in Sessions \ {s} : session[t] \notin Active
    BY <2>1 DEF CInv, SingleSession, Active, Reconnect
  <2>4. \A t \in Sessions : session'[t] \in Active => t = s
    BY <2>1, <2>3 DEF CInv, TInv
  <2>5. TInv'
    BY <2>1, <2>2 DEF CInv, TInv, Sessions, Active, Reconnect
  <2>6. SingleSession' /\ ReaderOnOwnConn'
    BY <2>1, <2>4 DEF SingleSession, ReaderOnOwnConn, Reader, Active, CInv, TInv
  <2>7. Newest'
    <3>1. session'[s] = "registering" /\ dialled'[s] = used' /\ s + 1 = used'
      BY <2>1, <2>2 DEF CInv, TInv
    <3>2. session'[used'] \notin Active
      BY <2>1, <2>2, <2>4
    <3> QED
      BY <3>1, <3>2, <2>4 DEF Newest
  <2> QED
    BY <2>5, <2>6, <2>7 DEF CInv
<1>3. ASSUME NEW s \in Sessions, Established(s) PROVE CInv'
  <2>1. /\ session[s] = "registering" /\ conn' = dialled[s] /\ used' = used
        /\ session' = [session EXCEPT ![s] = "ended", ![dialled[s]] = "select"]
        /\ dialled' = [dialled EXCEPT ![s] = 0]
    BY <1>3 DEF Established, linkVars
  <2>2. s + 1 = used /\ dialled[s] = used /\ used \in Sessions /\ used \in 1..MaxConns
    BY <2>1 DEF CInv, TInv, Newest, Active, Reconnect, Sessions
  <2>3. \A t \in Sessions \ {s} : session[t] \notin Active
    BY <2>1 DEF CInv, SingleSession, Active, Reconnect
  <2>4. /\ session'[used] = "select"
        /\ \A t \in Sessions \ {used} : session'[t] = IF t = s THEN "ended" ELSE session[t]
        /\ session' \in [Sessions -> Active \cup {"none", "ended"}]
    <3>1. s # used
      BY <2>2 DEF Sessions
    <3>2. session' = [session EXCEPT ![s] = "ended", ![used] = "select"]
      BY <2>1, <2>2
    <3> QED
      BY <3>1, <3>2, <2>2 DEF CInv, TInv, Active, Reader
  <2>5. \A t \in Sessions : session'[t] \in Active => t = used
    BY <2>4, <2>3 DEF Active, Reader, Reconnect
  <2>6. TInv'
    BY <2>1, <2>4 DEF CInv, TInv
  <2> QED
    BY <2>1, <2>2, <2>4, <2>5, <2>6
    DEF CInv, SingleSession, Newest, ReaderOnOwnConn, Active, Reader, Reconnect
<1>4. ASSUME NEW s \in Sessions, RegisterFails(s) PROVE CInv'
  <2>1. /\ session[s] = "registering" /\ conn' = conn /\ used' = used - 1
        /\ dialled' = [dialled EXCEPT ![s] = 0]
        /\ \E l \in {"ended", "sleeping"} : session' = [session EXCEPT ![s] = l]
    BY <1>4 DEF RegisterFails, ConnectFails, NextBackoff, Goto, clientVars
  <2>2. s + 1 = used /\ used \in 0..MaxConns
    BY <2>1 DEF CInv, TInv, Newest, Active, Reconnect
  <2>3. \A t \in Sessions \ {s} : session[t] \notin Active
    BY <2>1 DEF CInv, SingleSession, Active, Reconnect
  <2>4. \A t \in Sessions : session'[t] \in Active => t = s /\ session'[t] = "sleeping"
    BY <2>1, <2>3 DEF CInv, TInv, Active, Reader, Reconnect
  <2>5. TInv'
    <3>1. used' \in 0..MaxConns
      BY <2>1, <2>2 DEF Sessions
    <3>2. dialled' \in [Sessions -> 0..MaxConns]
      BY <2>1 DEF CInv, TInv
    <3>3. session' \in [Sessions -> Active \cup {"none", "ended"}]
      BY <2>1 DEF CInv, TInv, Active, Reconnect
    <3> QED
      BY <3>1, <3>2, <3>3 DEF TInv
  <2>6. SingleSession' /\ ReaderOnOwnConn'
    BY <2>4 DEF SingleSession, ReaderOnOwnConn, Reader, Active
  <2>7. Newest'
    BY <2>1, <2>2, <2>4 DEF Newest, Sessions
  <2> QED
    BY <2>5, <2>6, <2>7 DEF CInv
<1>5. ASSUME NEW s \in Sessions,
             \/ DialFails(s) \/ Select(s) \/ ReadMessage(s) \/ ReadFails(s)
             \/ Lost(s) \/ StartReconnect(s) \/ Wake(s) \/ Recheck(s)
      PROVE  CInv'
  <2> USE DEF Goto, clientVars, linkVars, Active, Reader, Reconnect
  <2>1. CASE DialFails(s)
    <3>1. \E l \in {"ended", "sleeping"} : session' = [session EXCEPT ![s] = l]
      BY <2>1 DEF DialFails, ConnectFails, NextBackoff
    <3> QED
      BY <2>1, <3>1, Walk DEF DialFails
  <2>2. CASE Select(s)
    BY <2>2, Walk DEF Select
  <2>3. CASE ReadMessage(s)
    BY <2>3, Walk DEF ReadMessage
  <2>4. CASE ReadFails(s)
    BY <2>4, Walk DEF ReadFails
  <2>5. CASE Lost(s)
    BY <2>5, Walk DEF Lost
  <2>6. CASE StartReconnect(s)
    <3>1. \E l \in {"ended", "sleeping"} : session' = [session EXCEPT ![s] = l]
      BY <2>6 DEF StartReconnect, NextBackoff
    <3> QED
      BY <2>6, <3>1, Walk DEF StartReconnect
  <2>7. CASE Wake(s)
    BY <2>7, Walk DEF Wake
  <2>8. CASE Recheck(s)
    BY <2>8, Walk DEF Recheck
  <2> QED
    BY <1>5, <2>1, <2>2, <2>3, <2>4, <2>5, <2>6, <2>7, <2>8
<1>6. ASSUME \/ \E l \in Loops : Tick(l) \/ SendLock(l) \/ Sent(l) \/ Quit(l)
             \/ Stop
             \/ \E k \in Conns : LinkDown(k)
             \/ UNCHANGED vars
      PROVE  UNCHANGED <<session, dialled, used, conn>>
  BY <1>6 DEF Tick, SendLock, Sent, Quit, Move, Stop, SetStopped, CloseDone,
              CloseConn, LinkDown, vars, clientVars, linkVars
<1> QED
  BY <1>1, <1>2, <1>3, <1>4, <1>5, <1>6 DEF Next, Session

(* CInv is an invariant of the client. *)
LEMMA CInvariant == Spec => []CInv
BY InitCInv, NextCInv, PTL DEF Spec

(* At no time do two goroutines read, dial or count attempts. *)
THEOREM OneSession == Spec => []SingleSession
<1>1. CInv => SingleSession
  BY DEF CInv
<1> QED
  BY <1>1, CInvariant, PTL

(* Whatever readLoop reads comes from the connection it was started for. *)
THEOREM ReadsOwnConn == Spec => []ReaderOnOwnConn
<1>1. CInv => ReaderOnOwnConn
  BY DEF CInv
<1> QED
  BY <1>1, CInvariant, PTL

--------------------------------------------------------------------------------
(* The backoff.  Between a lost connection and the next one the counter of    *)
(* the code is the number of attempts; a reader has none behind it.           *)

(* Sleeps are of 30 seconds at most. *)
LEMMA BackoffBound ==
  ASSUME NEW n \in Nat \ {0}
  PROVE  Backoff(n) \in 0..30
<1> DEFINE k == n - 1
<1>1. CASE n > 5
  BY <1>1 DEF Backoff
<1>2. CASE n <= 5
  <2>1. k = 0 \/ k = 1 \/ k = 2 \/ k = 3 \/ k = 4
    BY <1>2
  <2>2. 2 ^ 0 = 1 /\ 2 ^ 1 = 2 /\ 2 ^ 2 = 4 /\ 2 ^ 3 = 8 /\ 2 ^ 4 = 16
    OBVIOUS
  <2>3. Backoff(n) = 0 \/ Backoff(n) = 2 ^ k
    BY <1>2 DEF Backoff
  <2> HIDE DEF k
  <2>4. 2 ^ k \in {1, 2, 4, 8, 16}
    BY <2>1, <2>2, Zenon
  <2> QED
    BY <2>3, <2>4
<1> QED
  BY <1>1, <1>2

(* Up to the 34th attempt the product neither overflows nor vanishes. *)
LEMMA BackoffScheduled ==
  ASSUME NEW n \in 1..34
  PROVE  Backoff(n) = Schedule(n)
<1> DEFINE word == {b + n - 1 : b \in SecondBits} \cap (0..63)
<1>1. 9 + n - 1 \in word
  BY DEF SecondBits
<1>2. 63 \notin word
  BY DEF SecondBits
<1>3. word # {}
  BY <1>1
<1> HIDE DEF word
<1>4. Backoff(n) = IF word = {} \/ 63 \in word THEN 0
                   ELSE IF n <= 5 THEN 2 ^ (n - 1) ELSE 30
  BY DEF Backoff, word
<1> QED
  BY <1>2, <1>3, <1>4, Zenon DEF Schedule

(* Attempts are counted from one, up to the bound. *)
LEMMA CountRange ==
  ASSUME NEW n \in 0..MaxRetries
  PROVE  Count(n) \in 1..MaxRetries
BY BoundsAssumption DEF Count

(* TypeOK in two parts, because no prover does numbers and Booleans at once. *)
Flags == stopped \in BOOLEAN /\ done \in BOOLEAN

Types ==
  /\ conn \in 0..MaxConns
  /\ stopper \in {"idle", "flagged", "closing", "finished"}
  /\ retries \in 0..MaxRetries
  /\ sleep \in 0..30
  /\ failures \in 0..MaxRetries
  /\ session \in [Sessions -> Active \cup {"none", "ended"}]
  /\ dialled \in [Sessions -> 0..MaxConns]
  /\ loop \in [Loops -> {"none", "waiting", "ready", "sending", "ended"}]
  /\ used \in 0..MaxConns
  /\ up \subseteq Conns /\ closed \subseteq Conns

LEMMA TypeParts == TypeOK <=> Flags /\ Types
BY DEF TypeOK, Flags, Types

(* The types hold at the start. *)
LEMMA InitTypeOK == Init => TypeOK
<1>1. Init => Flags
  BY DEF Init, Flags
<1>2. Init => Types
  BY BoundsAssumption DEF Init, Types, Sessions, Active, Reader, Reconnect
<1> QED
  BY <1>1, <1>2, TypeParts

(* Only Stop touches the flags, and only to raise them. *)
LEMMA FlagsStable == Flags /\ [Next]_vars => Flags'
<1> SUFFICES ASSUME Flags, [Next]_vars PROVE Flags'
  OBVIOUS
<1>1. UNCHANGED <<stopped, done>> \/ SetStopped \/ CloseDone
  BY DEF Next, Session, DialOk, DialFails, Established, RegisterFails, Select,
         ReadMessage, ReadFails, Lost, StartReconnect, Wake, Recheck, Tick, SendLock,
         Sent, Quit, Move, Stop, CloseConn, LinkDown, vars, clientVars
<1>2. CASE UNCHANGED <<stopped, done>>
  BY <1>2 DEF Flags
<1>3. CASE SetStopped
  BY <1>3 DEF SetStopped, Flags
<1>4. CASE CloseDone
  BY <1>4 DEF CloseDone, Flags
<1> QED
  BY <1>1, <1>2, <1>3, <1>4

(* The next round of reconnect's loop keeps the types of what it sets. *)
LEMMA NextBackoffType ==
  ASSUME Types, NEW s \in Sessions, NextBackoff(s)
  PROVE  /\ retries' \in 1..MaxRetries /\ failures' \in 1..MaxRetries
         /\ sleep' \in 0..30 /\ sleep' = Backoff(retries')
         /\ session' = [session EXCEPT ![s] = "sleeping"]
<1>1. retries' \in 1..MaxRetries /\ failures' \in 1..MaxRetries
  BY CountRange DEF NextBackoff, Types
<1>2. retries' \in Nat \ {0}
  BY <1>1, BoundsAssumption
<1> QED
  BY <1>1, <1>2, BackoffBound DEF NextBackoff, Goto

(* Every step keeps the types. *)
LEMMA NextTypes == CInv /\ Types /\ [Next]_vars => Types'
<1> SUFFICES ASSUME CInv, Types, [Next]_vars PROVE Types'
  OBVIOUS
<1>1. CASE UNCHANGED vars
  BY <1>1 DEF vars, clientVars, retryVars, linkVars, Types
(* A session that moves on, and touches no more than the history. *)
<1>2. ASSUME NEW s \in Sessions, NEW l \in Active \cup {"ended"},
             session' = [session EXCEPT ![s] = l], UNCHANGED <<dialled, loop>>,
             UNCHANGED <<conn, stopper>>, UNCHANGED linkVars,
             UNCHANGED <<retries, sleep>>, failures' \in {failures, 0}
      PROVE  Types'
  BY <1>2, BoundsAssumption DEF Types, linkVars
<1>3. ASSUME NEW s \in Sessions, DialOk(s) PROVE Types'
  <2>1. used' \in 0..MaxConns /\ used' \in Conns
    BY <1>3, BoundsAssumption DEF DialOk, Types, Conns
  <2>2. session' \in [Sessions -> Active \cup {"none", "ended"}]
    BY <1>3 DEF DialOk, Goto, Types, Active, Reconnect
  <2>3. dialled' \in [Sessions -> 0..MaxConns] /\ up' \subseteq Conns
    BY <1>3, <2>1 DEF DialOk, Types
  <2> QED
    BY <1>3, <2>1, <2>2, <2>3 DEF DialOk, Types, clientVars, retryVars
<1>4. ASSUME NEW s \in Sessions, ConnectFails(s)
      PROVE  /\ retries' \in 0..MaxRetries /\ failures' \in 0..MaxRetries
             /\ sleep' \in 0..30
             /\ session' \in [Sessions -> Active \cup {"none", "ended"}]
  <2>1. CASE s = 0
    BY <1>4, <2>1 DEF ConnectFails, Goto, Types, retryVars
  <2>2. CASE s # 0
    <3>1. NextBackoff(s)
      BY <1>4, <2>2 DEF ConnectFails
    <3>2. session' \in [Sessions -> Active \cup {"none", "ended"}]
      BY <3>1, NextBackoffType DEF Types, Active, Reconnect
    <3>3. 1..MaxRetries \subseteq 0..MaxRetries
      BY BoundsAssumption
    <3> QED
      BY <3>1, <3>2, <3>3, NextBackoffType
  <2> QED
    BY <2>1, <2>2
<1>5. ASSUME NEW s \in Sessions, DialFails(s) PROVE Types'
  <2>1. /\ ConnectFails(s)
        /\ UNCHANGED <<conn, stopper, used, up, closed, dialled, loop>>
    BY <1>5 DEF DialFails, clientVars, linkVars
  <2> QED
    BY <2>1, <1>4 DEF Types
<1>6. ASSUME NEW s \in Sessions, RegisterFails(s) PROVE Types'
  <2>1. /\ ConnectFails(s) /\ session[s] = "registering"
        /\ used' = used - 1 /\ up' \subseteq up
        /\ dialled' = [dialled EXCEPT ![s] = 0]
        /\ UNCHANGED <<conn, stopper, closed, loop>>
    BY <1>6 DEF RegisterFails, clientVars
  <2>2. used' \in 0..MaxConns
    <3>1. s + 1 = used
      BY <2>1 DEF CInv, Newest, Active, Reconnect
    <3> QED
      BY <2>1, <3>1, BoundsAssumption DEF Types, Sessions
  <2>3. dialled' \in [Sessions -> 0..MaxConns]
    BY <2>1, BoundsAssumption DEF Types
  <2> QED
    BY <2>1, <2>2, <2>3, <1>4 DEF Types
<1>7. ASSUME NEW s \in Sessions, Established(s) PROVE Types'
  <2> DEFINE k == dialled[s]
  <2>1. /\ session[s] = "registering" /\ conn' = k /\ retries' = 0
        /\ session' = [session EXCEPT ![s] = "ended", ![k] = "select"]
        /\ loop' = [loop EXCEPT ![<<k, "ping">>] = "waiting", ![<<k, "query">>] = "ready"]
        /\ dialled' = [dialled EXCEPT ![s] = 0]
        /\ UNCHANGED <<stopper, sleep, failures, used, up, closed>>
    BY <1>7 DEF Established, ResetRetries, linkVars
  <2>2. retries' \in 0..MaxRetries /\ conn' \in 0..MaxConns
    BY <2>1, BoundsAssumption DEF Types
  <2>3. session' \in [Sessions -> Active \cup {"none", "ended"}]
    BY <2>1 DEF Types, Active, Reader
  <2>4. loop' \in [Loops -> {"none", "waiting", "ready", "sending", "ended"}]
    BY <2>1 DEF Types
  <2>5. dialled' \in [Sessions -> 0..MaxConns]
    BY <2>1, BoundsAssumption DEF Types
  <2> QED
    BY <2>1, <2>2, <2>3, <2>4, <2>5 DEF Types
<1>8. ASSUME NEW s \in Sessions,
             \/ Select(s) \/ ReadMessage(s) \/ ReadFails(s) \/ Lost(s)
             \/ Wake(s) \/ Recheck(s)
      PROVE  Types'
  <2>1. /\ \E l \in Active \cup {"ended"} : session' = [session EXCEPT ![s] = l]
        /\ UNCHANGED <<dialled, loop>> /\ UNCHANGED <<conn, stopper>>
        /\ UNCHANGED linkVars /\ UNCHANGED <<retries, sleep>>
        /\ failures' \in {failures, 0}
    BY <1>8
    DEF Select, ReadMessage, ReadFails, Lost, Wake, Recheck, Goto, clientVars,
        retryVars, Active, Reader, Reconnect
  <2> QED
    BY <2>1, <1>2
<1>9. ASSUME NEW s \in Sessions, StartReconnect(s) PROVE Types'
  <2>1. UNCHANGED <<conn, stopper>> /\ UNCHANGED linkVars /\ UNCHANGED <<dialled, loop>>
    BY <1>9 DEF StartReconnect, clientVars
  <2>2. CASE stopped
    <3>1. session' = [session EXCEPT ![s] = "ended"] /\ UNCHANGED retryVars
      BY <2>2, <1>9 DEF StartReconnect, Goto
    <3> QED
      BY <2>1, <3>1, <1>2 DEF retryVars
  <2>3. CASE ~stopped
    <3>1. NextBackoff(s)
      BY <2>3, <1>9 DEF StartReconnect
    <3>2. session' \in [Sessions -> Active \cup {"none", "ended"}]
      BY <3>1, NextBackoffType DEF Types, Active, Reconnect
    <3>3. 1..MaxRetries \subseteq 0..MaxRetries
      BY BoundsAssumption
    <3> QED
      BY <2>1, <3>1, <3>2, <3>3, NextBackoffType DEF Types, linkVars
  <2> QED
    BY <2>2, <2>3
<1>10. ASSUME NEW l \in Loops, Tick(l) \/ SendLock(l) \/ Sent(l) \/ Quit(l)
       PROVE  Types'
  BY <1>10
  DEF Tick, SendLock, Sent, Quit, Move, Types, clientVars, retryVars, linkVars
<1>11. CASE Stop
  <2>1. /\ stopper' \in {"flagged", "closing", "finished"}
        /\ closed' = closed \/ closed' = CloseCurrent
        /\ UNCHANGED <<conn, retries, sleep, failures, used, up, session, dialled, loop>>
    BY <1>11 DEF Stop, SetStopped, CloseDone, CloseConn, retryVars, linkVars
  <2>2. conn # 0 => conn \in Conns
    BY BoundsAssumption DEF Conns, Types
  <2>3. CloseCurrent \subseteq Conns
    BY <2>2 DEF CloseCurrent, Types
  <2>4. closed' \subseteq Conns
    BY <2>1, <2>3 DEF Types
  <2> QED
    BY <2>1, <2>4 DEF Types
<1>12. ASSUME NEW k \in Conns, LinkDown(k) PROVE Types'
  BY <1>12 DEF LinkDown, Types, clientVars, retryVars
<1> QED
  BY <1>1, <1>3, <1>5, <1>6, <1>7, <1>8, <1>9, <1>10, <1>11, <1>12
  DEF Next, Session

(* Every variable keeps its type; in particular no sleep is longer than 30 s, *)
(* whatever the shift of nextBackoff does.                                    *)
THEOREM TypeCorrect == Spec => []TypeOK
<1>1. CInv /\ TypeOK /\ [Next]_vars => TypeOK'
  <2> SUFFICES ASSUME CInv, TypeOK, [Next]_vars PROVE TypeOK'
    OBVIOUS
  <2>1. Flags' /\ Types'
    BY FlagsStable, NextTypes, TypeParts
  <2> QED
    BY <2>1 DEF TypeOK, Flags, Types
<1> QED
  BY <1>1, CInvariant, InitTypeOK, PTL DEF Spec

(* The counter of the code, the attempts and the sleep of the active session. *)
Counted ==
  \A s \in Sessions :
    /\ session[s] \in Reader \cup {"failed"} => retries = 0
    /\ session[s] \in Reconnect \ {"failed"} => retries = failures
    /\ session[s] = "sleeping" => retries >= 1 /\ sleep = Backoff(retries)

(* A step that leaves the counters alone and no reader for a reconnection. *)
LEMMA CountedWalk ==
  ASSUME CInv, Counted, NEW s \in Sessions, NEW l,
         session' = [session EXCEPT ![s] = l],
         UNCHANGED retryVars,
         \/ l = "ended"
         \/ session[s] \in Reader /\ l \in Reader \cup {"failed"}
         \/ session[s] \in Reconnect \ {"failed"} /\ l \in {"woken", "dialing", "registering"}
  PROVE  Counted'
BY DEF CInv, TInv, Counted, Reader, Reconnect, retryVars

(* A next round: the session sleeps, and it is the only active one. *)
LEMMA CountedSleep ==
  ASSUME CInv, Types, Counted, NEW s \in Sessions, NextBackoff(s),
         session[s] \in Reconnect \ {"failed"}
  PROVE  Counted'
<1>1. /\ retries' \in 1..MaxRetries /\ sleep' = Backoff(retries')
      /\ session' = [session EXCEPT ![s] = "sleeping"]
  BY NextBackoffType
<1>2. retries' = failures'
  BY DEF NextBackoff, Counted
<1>3. \A t \in Sessions \ {s} : session[t] \notin Active
  BY DEF CInv, SingleSession, Active
<1>4. \A t \in Sessions : session'[t] \in Active => t = s /\ session'[t] = "sleeping"
  BY <1>1, <1>3 DEF CInv, TInv
<1>5. retries' >= 1
  BY <1>1, BoundsAssumption
<1> QED
  BY <1>1, <1>2, <1>4, <1>5 DEF Counted, Active, Reader, Reconnect

(* Nothing has been attempted at the start. *)
LEMMA InitCounted == Init => Counted
BY DEF Init, Counted, Reader, Reconnect

(* Every step keeps the count. *)
LEMMA NextCounted == CInv /\ Types /\ Counted /\ [Next]_vars => Counted'
<1> SUFFICES ASSUME CInv, Types, Counted, [Next]_vars PROVE Counted'
  OBVIOUS
<1>1. ASSUME UNCHANGED <<session, retryVars>> PROVE Counted'
  BY <1>1 DEF Counted, retryVars
<1>2. ASSUME NEW s \in Sessions, Established(s) PROVE Counted'
  <2>1. /\ session[s] = "registering" /\ retries' = 0
        /\ session' = [session EXCEPT ![s] = "ended", ![dialled[s]] = "select"]
    BY <1>2 DEF Established, ResetRetries
  <2>2. \A t \in Sessions \ {s} : session[t] \notin Active
    BY <2>1 DEF CInv, SingleSession, Active, Reconnect
  <2>3. \A t \in Sessions : session'[t] \in Active => session'[t] = "select"
    BY <2>1, <2>2 DEF CInv, TInv, Active, Reader, Reconnect
  <2> QED
    BY <2>1, <2>3 DEF Counted, Active, Reader, Reconnect
<1>3. ASSUME NEW s \in Sessions, session[s] \in Reconnect \ {"failed"}, ConnectFails(s)
      PROVE  Counted'
  BY <1>3, CountedSleep, CountedWalk DEF ConnectFails, Goto
<1>4. ASSUME NEW s \in Sessions, DialFails(s) \/ RegisterFails(s) PROVE Counted'
  BY <1>3, <1>4 DEF DialFails, RegisterFails, Reconnect
<1>5. ASSUME NEW s \in Sessions, StartReconnect(s) PROVE Counted'
  BY <1>5, CountedSleep, CountedWalk DEF StartReconnect, Goto, Reconnect
<1>6. ASSUME NEW s \in Sessions, Lost(s) PROVE Counted'
  <2>1. /\ session[s] = "failed" /\ failures' = 0 /\ retries' = retries
        /\ \E l \in {"ended", "starting"} : session' = [session EXCEPT ![s] = l]
    BY <1>6 DEF Lost, Goto
  <2>2. \A t \in Sessions \ {s} : session[t] \notin Active
    BY <2>1 DEF CInv, SingleSession, Active, Reconnect
  <2>3. \A t \in Sessions : session'[t] \in Active => session'[t] = "starting"
    BY <2>1, <2>2 DEF CInv, TInv, Active, Reader, Reconnect
  <2>4. retries = 0
    BY <2>1 DEF Counted
  <2> QED
    BY <2>1, <2>3, <2>4 DEF Counted, Active, Reader, Reconnect
<1>7. ASSUME NEW s \in Sessions,
             \/ DialOk(s) \/ Select(s) \/ ReadMessage(s) \/ ReadFails(s)
             \/ Wake(s) \/ Recheck(s)
      PROVE  Counted'
  <2> USE DEF Goto, Reader, Reconnect
  <2>1. CASE DialOk(s)
    BY <2>1, CountedWalk DEF DialOk
  <2>2. CASE Select(s)
    BY <2>2, CountedWalk DEF Select
  <2>3. CASE ReadMessage(s)
    BY <2>3, CountedWalk DEF ReadMessage
  <2>4. CASE ReadFails(s)
    BY <2>4, CountedWalk DEF ReadFails
  <2>5. CASE Wake(s)
    BY <2>5, CountedWalk DEF Wake
  <2>6. CASE Recheck(s)
    BY <2>6, CountedWalk DEF Recheck
  <2> QED
    BY <1>7, <2>1, <2>2, <2>3, <2>4, <2>5, <2>6
<1>8. ASSUME \/ \E l \in Loops : Tick(l) \/ SendLock(l) \/ Sent(l) \/ Quit(l)
             \/ Stop
             \/ \E k \in Conns : LinkDown(k)
             \/ UNCHANGED vars
      PROVE  UNCHANGED <<session, retryVars>>
  BY <1>8 DEF Tick, SendLock, Sent, Quit, Move, Stop, SetStopped, CloseDone,
              CloseConn, LinkDown, vars, retryVars
<1> QED
  BY <1>1, <1>2, <1>4, <1>5, <1>6, <1>7, <1>8 DEF Next, Session

(* The client waits as documented, at each of up to 34 attempts in a row and  *)
(* after any number of lost connections; the 35th wait would overflow.        *)
THEOREM BackoffDocumented ==
  ASSUME MaxRetries <= 34
  PROVE  Spec => []BackoffFollowsSchedule
<1>1. CInv /\ TypeOK /\ Counted => BackoffFollowsSchedule
  <2> SUFFICES ASSUME CInv, TypeOK, Counted, NEW s \in Sessions, session[s] = "sleeping"
               PROVE  sleep = Schedule(failures)
    BY DEF BackoffFollowsSchedule
  <2>1. retries = failures /\ retries >= 1 /\ sleep = Backoff(retries)
    BY DEF Counted, Reconnect
  <2>2. retries \in 1..34
    BY <2>1, BoundsAssumption DEF TypeOK
  <2> QED
    BY <2>1, <2>2, BackoffScheduled
<1>2. Spec => []Counted
  BY CInvariant, TypeCorrect, TypeParts, InitCounted, NextCounted, PTL DEF Spec
<1> QED
  BY <1>1, <1>2, CInvariant, TypeCorrect, PTL

(* Beyond that nextBackoff leaves the schedule of docs/architecture.md:120:   *)
(* at the 35th attempt the product is negative, which passes the test against *)
(* the maximum, and from the 56th on it is zero.  The client dials at once.   *)
THEOREM BackoffOverflows ==
  /\ Backoff(35) = 0 /\ Schedule(35) = 30
  /\ \A n \in Nat : n >= 56 => Backoff(n) = 0 /\ Schedule(n) = 30
<1> DEFINE word(n) == {b + n - 1 : b \in SecondBits} \cap (0..63)
<1>1. 63 \in word(35)
  BY DEF SecondBits
<1>2. ASSUME NEW n \in Nat, n >= 56 PROVE word(n) = {}
  BY <1>2 DEF SecondBits
<1>3. ASSUME NEW n \in Nat PROVE word(n) = {} \/ 63 \in word(n) => Backoff(n) = 0
  BY DEF Backoff
<1>4. ASSUME NEW n \in Nat, n > 5 PROVE Schedule(n) = 30
  BY <1>4 DEF Schedule
<1> HIDE DEF word
<1> QED
  BY <1>1, <1>2, <1>3, <1>4

--------------------------------------------------------------------------------
(* What the client promises to its agent, RelayUplink: its phase is that of   *)
(* the session that is active.                                                *)

Down == {"failed", "starting", "sleeping", "woken", "dialing"}

PhaseOf(l) ==
  IF l \in {"dialing", "registering"} THEN "connecting"
  ELSE IF l \in Reader THEN "online"
  ELSE IF l \in Active THEN "offline"
  ELSE "over"

Phase ==
  IF \E s \in Sessions : session[s] \in Active
  THEN PhaseOf(session[CHOOSE s \in Sessions : session[s] \in Active])
  ELSE "over"

Uplink == INSTANCE RelayUplink WITH phase <- Phase

(* The connections the relay registered are counted by conn. *)
Numbered ==
  conn = IF \E s \in Sessions : session[s] = "registering" THEN used - 1 ELSE used

(* Stop sets the flag before it does anything else. *)
StoppedFirst ==
  stopped \in BOOLEAN /\ (done => stopped) /\ (stopper # "idle" => stopped)

(* Nothing is active any more: the agent stopped the client, or the very      *)
(* first Connect failed.                                                      *)
EndsWhenStopped ==
  (\A s \in Sessions : session[s] \notin Active) => stopped \/ conn = 0

(* Only the newest connection works, and none while there is no reader. *)
Links ==
  /\ up \subseteq 1..used /\ closed \subseteq 1..conn
  /\ up \ closed \subseteq {used}
  /\ \A s \in Sessions : session[s] \in Down => up \ closed = {}

UInv == Numbered /\ StoppedFirst /\ EndsWhenStopped /\ Links

(* The first Connect dials. *)
LEMMA InitUInv == Init => UInv
BY BoundsAssumption
DEF Init, UInv, Numbered, StoppedFirst, EndsWhenStopped, Links, Sessions, Active,
    Reconnect, Down

(* A step of the active session that leaves the links and Stop alone. *)
LEMMA WalkUInv ==
  ASSUME CInv, UInv, NEW s \in Sessions, NEW l,
         session[s] \in Active \ {"registering"}, l # "registering",
         session' = [session EXCEPT ![s] = l],
         UNCHANGED <<conn, used, up, closed, stopped, done, stopper>>,
         l \in Down => up \ closed = {},
         l \notin Active => stopped \/ conn = 0
  PROVE  UInv'
<1>1. \A t \in Sessions \ {s} : session[t] \notin Active
  BY DEF CInv, SingleSession
<1>2. session'[s] = l /\ \A t \in Sessions \ {s} : session'[t] = session[t]
  BY DEF CInv, TInv
<1>3. \A t \in Sessions : session[t] # "registering" /\ session'[t] # "registering"
  BY <1>1, <1>2 DEF Active, Reconnect
<1>4. Numbered' /\ StoppedFirst'
  BY <1>3 DEF UInv, Numbered, StoppedFirst
<1>5. EndsWhenStopped'
  BY <1>2 DEF EndsWhenStopped
<1>6. Links'
  BY <1>1, <1>2 DEF UInv, Links, Down, Active, Reconnect
<1> QED
  BY <1>4, <1>5, <1>6 DEF UInv

(* One step of the induction. *)
LEMMA NextUInv == CInv /\ UInv /\ [Next]_vars => UInv'
<1> SUFFICES ASSUME CInv, UInv, [Next]_vars PROVE UInv'
  OBVIOUS
<1> USE BoundsAssumption
<1>1. ASSUME NEW s \in Sessions, DialOk(s) PROVE UInv'
  <2>1. /\ session[s] = "dialing" /\ used' = used + 1 /\ up' = up \cup {used + 1}
        /\ session' = [session EXCEPT ![s] = "registering"]
        /\ UNCHANGED <<conn, stopped, done, stopper, closed>>
    BY <1>1 DEF DialOk, Goto, clientVars
  <2>2. \A t \in Sessions \ {s} : session[t] \notin Active
    BY <2>1 DEF CInv, SingleSession, Active, Reconnect
  <2>3. /\ session'[s] = "registering"
        /\ \A t \in Sessions \ {s} : session'[t] = session[t]
        /\ used \in Nat
    BY <2>1 DEF CInv, TInv
  <2>4. conn = used /\ up \ closed = {}
    BY <2>1, <2>2 DEF UInv, Numbered, Links, Down, Active, Reconnect
  <2>5. Numbered'
    BY <2>1, <2>3, <2>4 DEF Numbered
  <2>6. StoppedFirst' /\ EndsWhenStopped'
    BY <2>1, <2>3 DEF UInv, StoppedFirst, EndsWhenStopped, Active, Reconnect
  <2>7. up' \subseteq 1..used' /\ closed' \subseteq 1..conn' /\ up' \ closed' \subseteq {used'}
    BY <2>1, <2>3, <2>4 DEF UInv, Links
  <2>8. Links'
    BY <2>2, <2>3, <2>7 DEF Links, Down, Active, Reconnect
  <2> QED
    BY <2>5, <2>6, <2>8 DEF UInv
<1>2. ASSUME NEW s \in Sessions, Established(s) PROVE UInv'
  <2>1. /\ session[s] = "registering" /\ conn' = dialled[s]
        /\ session' = [session EXCEPT ![s] = "ended", ![dialled[s]] = "select"]
        /\ UNCHANGED <<used, up, closed, stopped, done, stopper>>
    BY <1>2 DEF Established, linkVars
  <2>2. /\ s + 1 = used /\ dialled[s] = used /\ used \in Sessions /\ used \in Nat
        /\ s # used
    BY <2>1 DEF CInv, TInv, Newest, Active, Reconnect, Sessions
  <2>3. \A t \in Sessions \ {s} : session[t] \notin Active
    BY <2>1 DEF CInv, SingleSession, Active, Reconnect
  <2>4. /\ session'[used] = "select" /\ session'[s] = "ended"
        /\ \A t \in Sessions \ {s, used} : session'[t] = session[t]
    BY <2>1, <2>2 DEF CInv, TInv
  <2>5. Numbered'
    BY <2>1, <2>2, <2>3, <2>4 DEF Numbered, Active, Reconnect
  <2>6. StoppedFirst'
    BY <2>1 DEF UInv, StoppedFirst
  <2>7. EndsWhenStopped'
    BY <2>2, <2>4 DEF EndsWhenStopped, Active, Reader
  <2>8. conn = used - 1
    BY <2>1 DEF UInv, Numbered
  <2>9. Links'
    <3>1. \A t \in Sessions : session'[t] \notin Down
      BY <2>3, <2>4 DEF Down, Active, Reconnect
    <3>2. up' \subseteq 1..used' /\ closed' \subseteq 1..conn' /\ up' \ closed' \subseteq {used'}
      BY <2>1, <2>2, <2>8 DEF UInv, Links
    <3> QED
      BY <3>1, <3>2 DEF Links
  <2> QED
    BY <2>5, <2>6, <2>7, <2>9 DEF UInv
<1>3. ASSUME NEW s \in Sessions, RegisterFails(s) PROVE UInv'
  <2>1. /\ session[s] = "registering" /\ used' = used - 1 /\ up' = up \ {dialled[s]}
        /\ UNCHANGED <<conn, closed, stopped, done, stopper>>
        /\ session' = [session EXCEPT ![s] = IF s = 0 THEN "ended" ELSE "sleeping"]
    BY <1>3 DEF RegisterFails, ConnectFails, NextBackoff, Goto, clientVars
  <2>2. s + 1 = used /\ dialled[s] = used /\ used \in Nat
    BY <2>1 DEF CInv, TInv, Newest, Active, Reconnect
  <2>3. \A t \in Sessions \ {s} : session[t] \notin Active
    BY <2>1 DEF CInv, SingleSession, Active, Reconnect
  <2>4. /\ session'[s] = IF s = 0 THEN "ended" ELSE "sleeping"
        /\ \A t \in Sessions \ {s} : session'[t] = session[t]
    BY <2>1 DEF CInv, TInv
  <2>5. conn = used - 1
    BY <2>1 DEF UInv, Numbered
  <2>6. Numbered'
    BY <2>1, <2>3, <2>4, <2>5 DEF Numbered, Active, Reconnect
  <2>7. StoppedFirst'
    BY <2>1 DEF UInv, StoppedFirst
  <2>8. EndsWhenStopped'
    BY <2>1, <2>2, <2>4, <2>5 DEF EndsWhenStopped, Active, Reconnect
  <2>9. up' \ closed' = {} /\ up' \subseteq 1..used' /\ closed' \subseteq 1..conn'
    BY <2>1, <2>2 DEF UInv, Links
  <2>10. Links'
    BY <2>9 DEF Links
  <2> QED
    BY <2>6, <2>7, <2>8, <2>10 DEF UInv
<1>4. ASSUME NEW s \in Sessions,
             \/ DialFails(s) \/ Select(s) \/ ReadMessage(s) \/ ReadFails(s)
             \/ Lost(s) \/ StartReconnect(s) \/ Wake(s) \/ Recheck(s)
      PROVE  UInv'
  <2> USE DEF Goto, clientVars, linkVars, Active, Reader, Reconnect, Down
  <2>1. CASE DialFails(s)
    <3>1. /\ session[s] = "dialing"
          /\ session' = [session EXCEPT ![s] = IF s = 0 THEN "ended" ELSE "sleeping"]
          /\ UNCHANGED <<conn, used, up, closed, stopped, done, stopper>>
      BY <2>1 DEF DialFails, ConnectFails, NextBackoff
    <3>2. up \ closed = {}
      BY <3>1 DEF UInv, Links
    <3>3. s = used
      BY <3>1 DEF CInv, Newest
    <3>4. s = 0 => conn = 0
      <4>1. \A t \in Sessions : session[t] # "registering"
        BY <3>1 DEF CInv, SingleSession
      <4> QED
        BY <3>3, <4>1 DEF UInv, Numbered
    <3> QED
      BY <3>1, <3>2, <3>4, WalkUInv
  <2>2. CASE Select(s)
    BY <2>2, WalkUInv DEF Select, UInv, StoppedFirst
  <2>3. CASE ReadMessage(s)
    BY <2>3, WalkUInv DEF ReadMessage
  <2>4. CASE ReadFails(s)
    <3>1. /\ session[s] = "reading" /\ conn \notin up \ closed
          /\ session' = [session EXCEPT ![s] = "failed"]
          /\ UNCHANGED <<conn, used, up, closed, stopped, done, stopper>>
      BY <2>4 DEF ReadFails
    <3>2. conn = used
      <4>1. conn = s /\ s = used
        BY <3>1 DEF CInv, ReaderOnOwnConn, Newest
      <4> QED
        BY <4>1
    <3>3. up \ closed = {}
      BY <3>1, <3>2 DEF UInv, Links
    <3> QED
      BY <3>1, <3>3, WalkUInv
  <2>5. CASE Lost(s)
    BY <2>5, WalkUInv DEF Lost, UInv, Links
  <2>6. CASE StartReconnect(s)
    BY <2>6, WalkUInv DEF StartReconnect, NextBackoff, UInv, Links
  <2>7. CASE Wake(s)
    BY <2>7, WalkUInv DEF Wake, UInv, Links
  <2>8. CASE Recheck(s)
    BY <2>8, WalkUInv DEF Recheck, UInv, Links
  <2> QED
    BY <1>4, <2>1, <2>2, <2>3, <2>4, <2>5, <2>6, <2>7, <2>8
<1>5. CASE Stop
  <2>1. CASE SetStopped \/ CloseDone
    BY <2>1 DEF SetStopped, CloseDone, linkVars, UInv, Numbered, StoppedFirst,
                EndsWhenStopped, Links
  <2>2. CASE CloseConn
    <3>1. /\ closed \subseteq closed' /\ UNCHANGED <<conn, used, up, session, done, stopped>>
          /\ closed' \subseteq closed \cup {conn} /\ (conn = 0 => closed' = closed)
          /\ stopper = "closing"
      BY <2>2 DEF CloseConn, CloseCurrent
    <3>2. conn \in Nat /\ (conn # 0 => conn \in 1..conn)
      BY DEF CInv, TInv, Newest, UInv, Numbered, Active, Reconnect, Sessions
    <3>3. closed' \subseteq 1..conn'
      BY <3>1, <3>2 DEF UInv, Links
    <3> QED
      BY <3>1, <3>3 DEF UInv, Numbered, StoppedFirst, EndsWhenStopped, Links
  <2> QED
    BY <1>5, <2>1, <2>2 DEF Stop
<1>6. ASSUME NEW k \in Conns, LinkDown(k) PROVE UInv'
  BY <1>6 DEF LinkDown, clientVars, UInv, Numbered, StoppedFirst, EndsWhenStopped, Links
<1>7. ASSUME \/ \E l \in Loops : Tick(l) \/ SendLock(l) \/ Sent(l) \/ Quit(l)
             \/ UNCHANGED vars
      PROVE  UInv'
  <2>1. UNCHANGED <<clientVars, linkVars, session>>
    BY <1>7 DEF Tick, SendLock, Sent, Quit, Move, vars
  <2> QED
    BY <2>1 DEF clientVars, linkVars, UInv, Numbered, StoppedFirst, EndsWhenStopped, Links
<1> QED
  BY <1>1, <1>2, <1>3, <1>4, <1>5, <1>6, <1>7 DEF Next, Session

(* UInv is an invariant of the client. *)
LEMMA UInvariant == Spec => []UInv
BY InitUInv, NextUInv, CInvariant, PTL DEF Spec

(* However often the link is lost, in whatever state of an attempt Stop comes *)
(* and however many attempts fail: the client has no session left only when   *)
(* it was stopped, or its very first Connect failed.                          *)
THEOREM NeverGivesUp == Spec => []EndsWhenStopped
<1>1. UInv => EndsWhenStopped
  BY DEF UInv
<1> QED
  BY <1>1, UInvariant, PTL

OneLive == \A j, k \in up \ closed : j = k

(* reconnect never closes the connection it replaces.  It need not: that one  *)
(* is gone before the next is dialled, so that no two connections of a client *)
(* work at the same time.                                                     *)
THEOREM OneLiveConnection == Spec => []OneLive
<1>1. UInv => OneLive
  BY DEF UInv, Links, OneLive
<1> QED
  BY <1>1, UInvariant, PTL

(* The phase is that of the active session, there is no other. *)
LEMMA PhaseIs ==
  ASSUME CInv, NEW s \in Sessions, session[s] \in Active
  PROVE  Phase = PhaseOf(session[s])
<1> DEFINE c == CHOOSE t \in Sessions : session[t] \in Active
<1>1. c \in Sessions /\ session[c] \in Active
  OBVIOUS
<1>2. c = s
  BY <1>1 DEF CInv, SingleSession
<1> QED
  BY <1>2 DEF Phase

PhaseOfActive ==
  \A s \in Sessions : session[s] \in Active => Phase = PhaseOf(session[s])

(* The same of the next state. *)
LEMMA PhasePrimed == CInv' => PhaseOfActive'
<1>1. CInv => PhaseOfActive
  BY PhaseIs DEF PhaseOfActive
<1> QED
  BY <1>1, PTL

(* A step of the active session is one of its phase. *)
LEMMA PhaseWalk ==
  ASSUME CInv, CInv', NEW s \in Sessions, NEW l, session[s] \in Active,
         session' = [session EXCEPT ![s] = l]
  PROVE  Phase = PhaseOf(session[s]) /\ Phase' = PhaseOf(l)
<1>1. Phase = PhaseOf(session[s])
  BY PhaseIs
<1>2. session'[s] = l /\ \A t \in Sessions \ {s} : session'[t] \notin Active
  BY DEF CInv, TInv, SingleSession
<1>3. CASE l \in Active
  BY <1>1, <1>2, <1>3, PhasePrimed DEF PhaseOfActive
<1>4. CASE l \notin Active
  <2>1. Phase' = "over"
    BY <1>2, <1>4 DEF Phase
  <2> QED
    BY <1>1, <1>4, <2>1 DEF PhaseOf, Active, Reader, Reconnect
<1> QED
  BY <1>3, <1>4

(* The phases of the states of a session. *)
LEMMA PhaseValues ==
  /\ PhaseOf("dialing") = "connecting" /\ PhaseOf("registering") = "connecting"
  /\ \A l \in Reader : PhaseOf(l) = "online"
  /\ \A l \in {"failed", "starting", "sleeping", "woken"} : PhaseOf(l) = "offline"
  /\ PhaseOf("ended") = "over"
BY DEF PhaseOf, Active, Reader, Reconnect

(* At first the first Connect dials. *)
LEMMA InitUplink == Init => Uplink!Init
<1> SUFFICES ASSUME Init PROVE Uplink!Init
  OBVIOUS
<1>1. 0 \in Sessions /\ session[0] = "dialing"
  BY BoundsAssumption DEF Init, Sessions
<1>2. Phase = "connecting"
  BY <1>1, InitCInv, PhaseIs, PhaseValues DEF Active, Reconnect
<1> QED
  BY <1>2 DEF Init, Uplink!Init

(* Every step of the client is one of the promise, or changes nothing of it. *)
LEMMA StepUplink ==
  CInv /\ CInv' /\ UInv /\ [Next]_vars => [Uplink!Next]_(Uplink!vars)
<1> SUFFICES ASSUME CInv, CInv', UInv, [Next]_vars
             PROVE  [Uplink!Next]_(Uplink!vars)
  OBVIOUS
<1> DEFINE Same == UNCHANGED <<Phase, conn, stopped>>
<1>0. ASSUME Same PROVE [Uplink!Next]_(Uplink!vars)
  BY <1>0 DEF Uplink!vars
<1>1. ASSUME NEW s \in Sessions, Established(s) PROVE Uplink!Register
  <2>1. /\ session[s] = "registering" /\ conn' = dialled[s]
        /\ session' = [session EXCEPT ![s] = "ended", ![dialled[s]] = "select"]
        /\ stopped' = stopped
    BY <1>1 DEF Established
  <2>2. dialled[s] = used /\ used \in Sessions /\ used \in Nat
    BY <2>1 DEF CInv, TInv, Newest, Active, Reconnect, Sessions
  <2>3. session'[used] = "select"
    BY <2>1, <2>2 DEF CInv, TInv
  <2>4. Phase = "connecting"
    BY <2>1, PhaseIs, PhaseValues DEF Active, Reconnect
  <2>5. Phase' = "online"
    BY <2>2, <2>3, PhasePrimed, PhaseValues DEF PhaseOfActive, Active, Reader
  <2>6. conn' = conn + 1
    BY <2>1, <2>2 DEF UInv, Numbered
  <2> QED
    BY <2>1, <2>4, <2>5, <2>6 DEF Uplink!Register
<1>2. ASSUME NEW s \in Sessions, DialFails(s) \/ RegisterFails(s) PROVE Uplink!Fail
  <2>1. /\ session[s] \in {"dialing", "registering"}
        /\ session' = [session EXCEPT ![s] = IF s = 0 THEN "ended" ELSE "sleeping"]
        /\ UNCHANGED <<conn, stopped>>
    BY <1>2 DEF DialFails, RegisterFails, ConnectFails, NextBackoff, Goto, clientVars
  <2>2. s = conn
    <3>1. \A t \in Sessions \ {s} : session[t] # "registering"
      BY <2>1 DEF CInv, SingleSession, Active, Reconnect
    <3>2. CASE session[s] = "dialing"
      BY <3>1, <3>2 DEF CInv, Newest, Active, Reconnect, UInv, Numbered
    <3>3. CASE session[s] = "registering"
      <4>1. s + 1 = used /\ conn = used - 1 /\ s \in Nat
        BY <3>3 DEF CInv, Newest, Active, Reconnect, UInv, Numbered, Sessions
      <4> QED
        BY <4>1
    <3> QED
      BY <2>1, <3>2, <3>3
  <2>3. Phase = "connecting"
    BY <2>1, PhaseIs, PhaseValues DEF Active, Reconnect
  <2>4. Phase' = IF s = 0 THEN "over" ELSE "offline"
    BY <2>1, PhaseWalk, PhaseValues DEF Active, Reconnect
  <2> QED
    BY <2>1, <2>2, <2>3, <2>4 DEF Uplink!Fail
<1>3. ASSUME NEW s \in Sessions, ReadFails(s) PROVE Uplink!Lose
  <2>1. /\ session[s] = "reading" /\ session' = [session EXCEPT ![s] = "failed"]
        /\ UNCHANGED <<conn, stopped>>
    BY <1>3 DEF ReadFails, Goto, clientVars
  <2>2. Phase = "online" /\ Phase' = "offline"
    BY <2>1, PhaseWalk, PhaseValues DEF Active, Reader
  <2> QED
    BY <2>1, <2>2 DEF Uplink!Lose
<1>4. ASSUME NEW s \in Sessions, Recheck(s) PROVE Uplink!Retry \/ Uplink!Finish
  <2>1. /\ session[s] = "woken"
        /\ session' = [session EXCEPT ![s] = IF stopped THEN "ended" ELSE "dialing"]
        /\ UNCHANGED <<conn, stopped>>
    BY <1>4 DEF Recheck, Goto, clientVars
  <2>2. Phase = "offline" /\ Phase' = IF stopped THEN "over" ELSE "connecting"
    BY <2>1, PhaseWalk, PhaseValues DEF Active, Reconnect
  <2> QED
    BY <2>1, <2>2 DEF Uplink!Retry, Uplink!Finish
<1>5. ASSUME NEW s \in Sessions, Select(s) PROVE Uplink!Finish \/ Same
  <2>1. /\ session[s] = "select"
        /\ session' = [session EXCEPT ![s] = IF done THEN "ended" ELSE "reading"]
        /\ UNCHANGED <<conn, stopped>>
    BY <1>5 DEF Select, Goto, clientVars
  <2>2. Phase = "online" /\ Phase' = IF done THEN "over" ELSE "online"
    BY <2>1, PhaseWalk, PhaseValues DEF Active, Reader
  <2>3. done => stopped
    BY DEF UInv, StoppedFirst
  <2> QED
    BY <2>1, <2>2, <2>3 DEF Uplink!Finish
<1>6. ASSUME NEW s \in Sessions, Lost(s) \/ StartReconnect(s)
      PROVE  Uplink!Finish \/ Same
  <2>1. /\ session[s] \in {"failed", "starting"}
        /\ \E l \in {"ended", "starting", "sleeping"} :
             session' = [session EXCEPT ![s] = l] /\ (l = "ended" => stopped)
        /\ UNCHANGED <<conn, stopped>>
    BY <1>6 DEF Lost, StartReconnect, NextBackoff, Goto, clientVars
  <2>2. PICK l \in {"ended", "starting", "sleeping"} :
          session' = [session EXCEPT ![s] = l] /\ (l = "ended" => stopped)
    BY <2>1
  <2>3. Phase = "offline" /\ Phase' = IF l = "ended" THEN "over" ELSE "offline"
    BY <2>1, <2>2, PhaseWalk, PhaseValues DEF Active, Reconnect
  <2> QED
    BY <2>1, <2>2, <2>3 DEF Uplink!Finish
<1>7. ASSUME NEW s \in Sessions, DialOk(s) \/ ReadMessage(s) \/ Wake(s) PROVE Same
  <2>1. CASE DialOk(s)
    BY <2>1, PhaseWalk, PhaseValues DEF DialOk, Goto, clientVars, Active, Reconnect
  <2>2. CASE ReadMessage(s)
    <3>1. /\ session[s] = "reading" /\ session' = [session EXCEPT ![s] = "select"]
          /\ UNCHANGED <<conn, stopped>>
      BY <2>2 DEF ReadMessage, Goto, clientVars
    <3>2. Phase = PhaseOf("reading") /\ Phase' = PhaseOf("select")
      BY <3>1, PhaseWalk DEF Active, Reader
    <3>3. Phase = "online" /\ Phase' = "online"
      BY <3>2, PhaseValues DEF Reader
    <3> QED
      BY <3>1, <3>3
  <2>3. CASE Wake(s)
    BY <2>3, PhaseWalk, PhaseValues DEF Wake, Goto, clientVars, Active, Reconnect
  <2> QED
    BY <1>7, <2>1, <2>2, <2>3
<1>8. ASSUME \/ \E l \in Loops : Tick(l) \/ SendLock(l) \/ Sent(l) \/ Quit(l)
             \/ CloseDone \/ CloseConn
             \/ \E k \in Conns : LinkDown(k)
             \/ UNCHANGED vars
      PROVE  Same
  <2>1. UNCHANGED <<session, conn, stopped>>
    BY <1>8 DEF Tick, SendLock, Sent, Quit, Move, CloseDone, CloseConn, LinkDown,
                clientVars, vars
  <2> QED
    BY <2>1 DEF Phase
<1>9. ASSUME SetStopped PROVE Uplink!Stop
  BY <1>9 DEF SetStopped, Phase, Uplink!Stop
<1> HIDE DEF Same
<1> QED
  BY <1>0, <1>1, <1>2, <1>3, <1>4, <1>5, <1>6, <1>7, <1>8, <1>9
  DEF Next, Session, Stop, Uplink!Next

(* The client keeps the promise: its connections come one after the other,    *)
(* an attempt begins only while it is not stopped, and it ends for no other   *)
(* reason than Stop, or a first attempt that failed.                          *)
THEOREM ImplementsUplink == Spec => Uplink!Spec
BY InitUplink, StepUplink, CInvariant, UInvariant, PTL DEF Spec, Uplink!Spec

================================================================================
