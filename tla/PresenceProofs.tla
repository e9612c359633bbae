----------------------------- MODULE PresenceProofs ----------------------------
(******************************************************************************)
(* Proofs about Presence: its type invariant, that the timer spares the       *)
(* peers that answer, that peers that are gone stay away from the maps the    *)
(* timer and the relay keep, and that nothing ever prunes the third one.      *)
(******************************************************************************)
EXTENDS Presence, TLAPS

--------------------------------------------------------------------------------
(* Every state is of its type, for any peers and connections. *)
LEMMA TypeInit == Init => TypeOK
BY DEF Init, TypeOK, Ticking

LEMMA TypeStep == TypeOK /\ [Next]_vars => TypeOK'
<1> SUFFICES ASSUME TypeOK, [Next]_vars PROVE TypeOK'
  OBVIOUS
<1> USE DEF TypeOK, browseVars, presenceVars, entryVars
<1>1. ASSUME NEW p \in Peers
      PROVE  /\ Renewed(p) \in [Peers -> 0..Stale \cup {None}]
             /\ \A q \in Peers : q = p \/ online[q] # None => Renewed(p)[q] # None
  BY NoneAssumption DEF Renewed, Stale
<1>2. ASSUME Older
       PROVE  /\ online' \in [Peers -> 0..Stale \cup {None}]
              /\ \A q \in Peers : online[q] # None => online'[q] # None
  BY <1>2, NoneAssumption DEF Older, Stale
<1>3. CASE Discovery
  <2>1. Pause(round) \in 0..2
    BY DEF Pause
  <2>2. CASE BrowsePeers
    BY <1>2, <2>2 DEF BrowsePeers, Tick
  <2>3. CASE BrowseRelays
    BY <1>2, <2>1, <2>3 DEF BrowseRelays, BrowseAll, Tick, Ticking
  <2>4. CASE Wait
    BY <1>2, <2>4 DEF Wait, BrowseAll, Tick, Ticking
  <2> QED
    BY <1>3, <2>2, <2>3, <2>4 DEF Discovery
<1>4. CASE MarkOnline
  BY <1>1, <1>4 DEF MarkOnline
<1>5. ASSUME NEW stale \in SUBSET Peers, CleanupStalePeers(stale) PROVE TypeOK'
  BY <1>5 DEF CleanupStalePeers
<1>6. ASSUME NEW p \in Peers, Found(p) \/ Answer(p) PROVE TypeOK'
  BY <1>6 DEF Found, Answer
<1>7. ASSUME NEW p \in Peers, Starts(p) \/ Ends(p) \/ Joins(p) \/ Leaves(p)
      PROVE  TypeOK'
  BY <1>7 DEF Starts, Ends, Joins, Leaves
<1>8. ASSUME NEW p \in Peers, NEW c \in Conns, HandleWS(p, c) PROVE TypeOK'
  <2>1. ASSUME NEW s \in {"none", "reading", "closing"},
               handler' = [handler EXCEPT ![p][c] = s]
        PROVE  handler' \in [Peers -> [Conns -> {"none", "reading", "closing"}]]
    BY <2>1
  <2>2. ASSUME NEW shown \in SUBSET {p}, Accept(p, c, shown) PROVE TypeOK'
    BY <1>1, <2>1, <2>2 DEF Accept
  <2>3. CASE RemoveOnline(p, c)
    BY <2>1, <2>3 DEF RemoveOnline
  <2>4. CASE OnGoodbye(p, c)
    BY <2>1, <2>4 DEF OnGoodbye
  <2> QED
    BY <1>8, <2>2, <2>3, <2>4 DEF HandleWS
<1>9. CASE RelayList
  BY <1>9 DEF RelayList
<1>10. CASE UNCHANGED vars
  BY <1>10 DEF vars
<1>11. CASE ConnectRelay
  BY <1>11, <1>2 DEF ConnectRelay, Tick
<1>12. ASSUME NEW p \in Peers, OpenConn(p) \/ StoreProfile(p) PROVE TypeOK'
  BY <1>12 DEF OpenConn, StoreProfile
<1> QED
  BY <1>3, <1>4, <1>5, <1>6, <1>7, <1>8, <1>9, <1>10, <1>11, <1>12 DEF Next

(* All sets and maps keep their types, and nobody answers between browses. *)
THEOREM TypeCorrect == Spec => []TypeOK
BY TypeInit, TypeStep, PTL DEF Spec

--------------------------------------------------------------------------------
(* The inductive invariant.  How old the entry of a peer can be that answered *)
(* the last browse, at each stage of discovery, if no relay kept it waiting;  *)
(* an answer is as new as the browse that it came to.                         *)
Bound == IF browse = "relays" THEN 1 ELSE IF browse = "pause" THEN 4 - pause ELSE 4

Fresh(p)   == online[p] # None /\ p \notin silent => online[p] <= Bound
Current(p) == online[p] # None /\ browse = "peers" /\ p \in found => online[p] = 0

AgeInv == TypeOK /\ pause <= 2 /\ \A p \in Peers : Fresh(p) /\ Current(p)

LEMMA AgeStep == AgeInv /\ TypeOK' /\ [Next]_vars => AgeInv'
<1> SUFFICES ASSUME AgeInv, TypeOK', [Next]_vars PROVE AgeInv'
  OBVIOUS
<1>0. ASSUME NEW p \in Peers, online[p] # None
      PROVE  online[p] \in 0..Stale /\ 0 <= Bound
  BY <1>0 DEF AgeInv, TypeOK, Bound
<1>1. ASSUME UNCHANGED <<browse, pause, silent>>,
             \A p \in Peers : online'[p] \in {None, 0, online[p]},
             \A p \in Peers : p \in found' \ found => online'[p] \in {None, 0}
      PROVE  AgeInv'
  <2>1. Bound' = Bound /\ Bound \in Nat
    BY <1>1 DEF Bound, AgeInv, TypeOK
  <2> QED
    BY <1>1, <2>1 DEF AgeInv, Fresh, Current
<1>2. CASE Discovery
  <2>1. ASSUME NEW p \in Peers, Older, online'[p] # None
        PROVE  online[p] # None /\ online'[p] <= online[p] + 1 /\ online[p] \in Nat
               /\ online'[p] \in Nat
    BY <2>1, NoneAssumption DEF Older, AgeInv, TypeOK, Stale
  <2>2. CASE BrowsePeers
    BY <2>1, <2>2 DEF BrowsePeers, Tick, AgeInv, Bound, Fresh, Current
  <2>3. CASE BrowseRelays
    <3>1. Pause(round) \in 0..2
      BY DEF Pause
    <3> QED
      BY <2>1, <2>3, <3>1
         DEF BrowseRelays, BrowseAll, Tick, AgeInv, Bound, Fresh, Current
  <2>4. CASE Wait
    <3>1. pause \in 1..2
      BY <2>4 DEF Wait, AgeInv, TypeOK
    <3> QED
      BY <2>1, <2>4, <3>1 DEF Wait, BrowseAll, Tick, AgeInv, Bound, Fresh, Current
  <2> QED
    BY <1>2, <2>2, <2>3, <2>4 DEF Discovery
<1>3. CASE MarkOnline
  BY <1>1, <1>3 DEF MarkOnline, Renewed, AgeInv, TypeOK, browseVars
<1>4. ASSUME NEW stale \in SUBSET Peers, CleanupStalePeers(stale) PROVE AgeInv'
  BY <1>1, <1>4 DEF CleanupStalePeers, browseVars
<1>5. ASSUME NEW p \in Peers,
             \/ Found(p) \/ Answer(p) \/ Starts(p) \/ Ends(p) \/ Joins(p) \/ Leaves(p)
      PROVE  AgeInv'
  BY <1>1, <1>5
     DEF Found, Answer, Starts, Ends, Joins, Leaves, browseVars, presenceVars, entryVars
<1>6. ASSUME NEW p \in Peers, NEW c \in Conns, HandleWS(p, c) PROVE AgeInv'
  <2>1. online' = Renewed(p) \/ online' = [online EXCEPT ![p] = None] \/ online' = online
    BY <1>6 DEF HandleWS, Accept, RemoveOnline, OnGoodbye, entryVars
  <2>2. UNCHANGED <<browse, pause, silent, found>>
    BY <1>6 DEF HandleWS, Accept, RemoveOnline, OnGoodbye, browseVars
  <2>3. \A q \in Peers : online'[q] \in {None, 0, online[q]}
    BY <2>1 DEF Renewed, AgeInv, TypeOK
  <2> QED
    BY <1>1, <2>2, <2>3
<1>7. CASE RelayList
  BY <1>1, <1>7 DEF RelayList, browseVars, presenceVars, entryVars
<1>8. CASE UNCHANGED vars
  BY <1>1, <1>8 DEF vars, browseVars, presenceVars, entryVars
<1>9. CASE ConnectRelay
  BY <1>9 DEF ConnectRelay, Tick, AgeInv, Fresh, Current
<1>10. ASSUME NEW p \in Peers, OpenConn(p) \/ StoreProfile(p) PROVE AgeInv'
  BY <1>1, <1>10 DEF OpenConn, StoreProfile, browseVars, presenceVars, entryVars
<1> QED
  BY <1>2, <1>3, <1>4, <1>5, <1>6, <1>7, <1>8, <1>9, <1>10 DEF Next

(* The invariant holds in every state. *)
THEOREM AgesBounded == Spec => []AgeInv
<1>1. Init => AgeInv
  BY TypeInit DEF AgeInv, Init, Fresh, Current
<1> QED
  BY <1>1, AgeStep, TypeCorrect, PTL DEF Spec

(* The timer never takes a peer for stale that answered the last browse, if   *)
(* no relay kept discovery waiting since, for any number of peers and         *)
(* connections.  (StartDiscovery, cleanupStalePeers.)                         *)
THEOREM AnsweringIsSpared == Spec => TimerSparesAnswering
<1>1. AgeInv /\ [Next]_vars =>
        [\A p \in Peers :
           (\E stale \in SUBSET Peers : p \in stale /\ CleanupStalePeers(stale))
             => p \in silent]_vars
  <2> SUFFICES ASSUME AgeInv, NEW p \in Peers, NEW stale \in SUBSET Peers,
                      p \in stale, CleanupStalePeers(stale)
               PROVE  p \in silent
    OBVIOUS
  <2>1. online[p] \in MayBeStale..Stale
    BY DEF CleanupStalePeers
  <2>2. online[p] # None /\ online[p] > 4
    BY <2>1, NoneAssumption DEF MayBeStale, Stale
  <2>3. Bound <= 4
    BY DEF AgeInv, TypeOK, Bound
  <2> QED
    BY <2>1, <2>2, <2>3 DEF AgeInv, Fresh, Bound, TypeOK, MayBeStale, Stale
<1> QED
  BY <1>1, AgesBounded, PTL DEF Spec, TimerSparesAnswering

--------------------------------------------------------------------------------
(* What becomes of peers that are gone.                                       *)

(* A peer that does not run, all of whose connections were cleaned up. *)
Unconnected(p) == p \notin up /\ \A c \in Conns : handler[p][c] = "none"

(* Neither is an answer of it under way, nor has the relay it registered. *)
Quiet(p) == Unconnected(p) /\ p \notin heard /\ marking # p /\ p \notin members

StaysAway ==
  \A p \in Peers : Quiet(p) /\ p \notin up' =>
    /\ Quiet(p)'
    /\ online[p] = None => online'[p] = None
    /\ p \in relayed' => p \in relayed

StaysListed ==
  \A p \in Peers : Unconnected(p) /\ p \in lan /\ p \notin up' =>
    Unconnected(p)' /\ p \in lan'

(* Only a peer that runs gets a connection. *)
LEMMA StepUnconnected ==
  ASSUME TypeOK, Next, NEW p \in Peers, Unconnected(p), p \notin up'
  PROVE  Unconnected(p)'
<1>1. ASSUME NEW q \in Peers, NEW c \in Conns, HandleWS(q, c)
      PROVE  \A d \in Conns : handler'[p][d] = "none"
  <2>1. q # p
    BY <1>1 DEF HandleWS, Accept, RemoveOnline, OnGoodbye, Unconnected
  <2> QED
    BY <1>1, <2>1 DEF HandleWS, Accept, RemoveOnline, OnGoodbye, Unconnected, TypeOK
<1>2. CASE handler' = handler
  BY <1>2 DEF Unconnected
<1> QED
  BY <1>1, <1>2
  DEF Next, Discovery, BrowsePeers, BrowseRelays, Wait, ConnectRelay, Tick,
      MarkOnline, CleanupStalePeers, Found, Answer, Starts, Ends, Joins, Leaves,
      OpenConn, StoreProfile, RelayList, Unconnected

(* A peer that is gone does not come back by itself: when the last of its     *)
(* answers and connections has been dealt with, no other answer, list or      *)
(* connection puts it into the online map again, or into what the relay told. *)
(* Before that, a late one does.                                              *)
THEOREM GoneStaysAway == Spec => [][StaysAway]_vars
<1>1. TypeOK /\ [Next]_vars => [StaysAway]_vars
  <2> SUFFICES ASSUME TypeOK, Next, NEW p \in Peers, Quiet(p), p \notin up'
               PROVE  /\ Quiet(p)'
                      /\ online[p] = None => online'[p] = None
                      /\ p \in relayed' => p \in relayed
    BY DEF StaysAway
  <2> DEFINE Goal == /\ p \notin heard' /\ marking' # p /\ p \notin members'
                     /\ online[p] = None => online'[p] = None
                     /\ p \in relayed' => p \in relayed
  <2> USE DEF presenceVars, entryVars, browseVars
  <2>1. p \notin up /\ p \notin heard /\ marking # p /\ p \notin members
    BY DEF Quiet, Unconnected
  <2>2. ASSUME Discovery \/ ConnectRelay PROVE Goal
    <3>1. /\ UNCHANGED <<relayed, heard, marking, members>>
          /\ Older
      BY <2>2 DEF Discovery, BrowsePeers, BrowseRelays, Wait, ConnectRelay, Tick
    <3>2. online[p] = None => online'[p] = None
      BY <3>1, NoneAssumption DEF Older, Stale
    <3> QED
      BY <2>1, <3>1, <3>2
  <2>3. ASSUME MarkOnline PROVE Goal
    BY <2>1, <2>3, NoneAssumption DEF MarkOnline, Renewed, TypeOK
  <2>4. ASSUME NEW stale \in SUBSET Peers, CleanupStalePeers(stale) PROVE Goal
    BY <2>1, <2>4 DEF CleanupStalePeers
  <2>5. ASSUME NEW q \in Peers, Found(q) \/ Answer(q) PROVE Goal
    BY <2>1, <2>5 DEF Found, Answer
  <2>6. ASSUME NEW q \in Peers, Starts(q) \/ Ends(q) \/ Joins(q) \/ Leaves(q) PROVE Goal
    BY <2>1, <2>6 DEF Starts, Ends, Joins, Leaves
  <2>7. ASSUME NEW q \in Peers, OpenConn(q) \/ StoreProfile(q) PROVE Goal
    BY <2>1, <2>7 DEF OpenConn, StoreProfile
  <2>8. ASSUME NEW q \in Peers, NEW c \in Conns, HandleWS(q, c) PROVE Goal
    <3>1. q # p
      BY <2>8 DEF HandleWS, Accept, RemoveOnline, OnGoodbye, Quiet, Unconnected
    <3> QED
      BY <2>1, <2>8, <3>1
      DEF HandleWS, Accept, RemoveOnline, OnGoodbye, Renewed, TypeOK
  <2>9. ASSUME RelayList PROVE Goal
    BY <2>1, <2>9 DEF RelayList
  <2> HIDE DEF Goal
  <2>10. Goal
    BY <2>2, <2>3, <2>4, <2>5, <2>6, <2>7, <2>8, <2>9 DEF Next
  <2>11. Unconnected(p)'
    BY StepUnconnected DEF Quiet
  <2> QED
    BY <2>10, <2>11 DEF Goal, Quiet
<1> QED
  BY <1>1, TypeCorrect, PTL DEF Spec

(* The timer prunes the map of p2p only: a peer that ends without a           *)
(* connection to the agent stays in lanOnline until it runs again, however    *)
(* long that takes, and GetOnlinePeers names it.                              *)
THEOREM LanNeverPruned == Spec => [][StaysListed]_vars
<1>1. TypeOK /\ [Next]_vars => [StaysListed]_vars
  <2> SUFFICES ASSUME TypeOK, Next, NEW p \in Peers, Unconnected(p), p \in lan,
                      p \notin up'
               PROVE  Unconnected(p)' /\ p \in lan'
    BY DEF StaysListed
  <2>1. ASSUME NEW q \in Peers, NEW c \in Conns, HandleWS(q, c) PROVE p \in lan'
    <3>1. q = p => ~OnGoodbye(q, c)
      BY DEF OnGoodbye, Unconnected
    <3> QED
      BY <2>1, <3>1 DEF HandleWS, Accept, RemoveOnline, OnGoodbye
  <2>2. ASSUME NEW q \in Peers, Found(q) PROVE p \in lan'
    BY <2>2 DEF Found
  <2>3. p \in lan'
    BY <2>1, <2>2
    DEF Next, Discovery, BrowsePeers, BrowseRelays, Wait, ConnectRelay, Tick,
        MarkOnline, CleanupStalePeers, Answer, Starts, Ends, Joins, Leaves,
        OpenConn, StoreProfile, RelayList, presenceVars
  <2> QED
    BY <2>3, StepUnconnected
<1> QED
  BY <1>1, TypeCorrect, PTL DEF Spec

================================================================================
