--------------------------- MODULE RelayServerProofs ---------------------------
(******************************************************************************)
(* Proofs about RelayServer, for every value of its constants: the registry,  *)
(* the order and the addressees of messages, the refinement of                *)
(* ChannelMulticast, and what a panic or a slow reader does to the relay.     *)
(******************************************************************************)
EXTENDS RelayServer, TLAPS

USE DEF Joining

--------------------------------------------------------------------------------
(* Types.  TypeOK is not inductive by itself: a handler indexes the registry  *)
(* with its owner and works on its message only where both are there.         *)

Working == {"joining", "adding", "leaving", "snapshot", "rlock", "relaying"}

Identified == \A c \in Conns : pc[c] \notin {"idle", "gone"} => owner[c] \in Agents

Carries ==
  \A c \in Conns : pc[c] \in Working =>
    msg[c] \in Msg /\ msg[c].src = c /\ msg[c].seq = sent[c]

TInv == TypeOK /\ Identified /\ Carries

(* Reading a channel message numbers it, and concerns one handler only. *)
LEMMA TakeMessage ==
  ASSUME TypeOK, NEW c \in Conns, NEW ch \in Channels, Take(c, ch)
  PROVE  /\ pc[c] = "serving"
         /\ msg' \in [Conns -> Msg \cup {None}]
         /\ sent' \in [Conns -> Nat]
         /\ msg'[c] \in Msg
         /\ msg'[c].src = c /\ msg'[c].seq = sent'[c] /\ msg'[c].ch = ch
         /\ sent'[c] = sent[c] + 1
         /\ \A d \in Conns \ {c} : msg'[d] = msg[d] /\ sent'[d] = sent[d]
<1>1. sent[c] \in Nat
  BY DEF TypeOK
<1>2. MsgOn(c, ch) \in Msg
  BY <1>1 DEF MsgOn, Msg
<1>3. /\ MsgOn(c, ch).src = c
      /\ MsgOn(c, ch).seq = sent[c] + 1
      /\ MsgOn(c, ch).ch = ch
  BY DEF MsgOn
<1>4. /\ pc[c] = "serving"
      /\ msg' = [msg EXCEPT ![c] = MsgOn(c, ch)]
      /\ sent' = [sent EXCEPT ![c] = sent[c] + 1]
  BY DEF Take
<1> QED
  BY <1>1, <1>2, <1>3, <1>4 DEF TypeOK

(* The variables have their types at the start. *)
LEMMA InitTInv == Init => TInv
BY ConstantsAssumption
DEF Init, TInv, TypeOK, Identified, Carries, PCs, Serving, Working

(* Every step keeps the types. *)
LEMMA NextTInv == TInv /\ [Next]_vars => TInv'
<1> SUFFICES ASSUME TInv, [Next]_vars PROVE TInv'
  OBVIOUS
<1> USE ConstantsAssumption
        DEF TInv, TypeOK, Identified, Carries, PCs, Serving, Working, Goto,
            registryVars, indexVars, relayVars
<1>1. CASE UNCHANGED vars
  BY <1>1 DEF vars
<1>2. ASSUME NEW c \in Conns, NEW a \in Agents, Handshake(c, a) PROVE TInv'
  BY <1>2 DEF Handshake
<1>3. ASSUME NEW c \in Conns, HandshakeFails(c) PROVE TInv'
  BY <1>3 DEF HandshakeFails
<1>4. ASSUME NEW c \in Conns, Register(c) PROVE TInv'
  <2>1. owner[c] \in Agents
    BY <1>4 DEF Register
  <2>2. agents' \in [Agents -> Conns \cup {None}] /\ done' \in SUBSET Conns
    BY <1>4, <2>1 DEF Register, Supersede, Registered
  <2> QED
    BY <1>4, <2>1, <2>2 DEF Register
<1>5. ASSUME NEW c \in Conns, RegisterPanics(c) PROVE TInv'
  BY <1>5 DEF RegisterPanics
<1>6. ASSUME NEW c \in Conns, Count(c) PROVE TInv'
  BY <1>6 DEF Count
<1>7. ASSUME NEW c \in Conns, LinkDown(c) PROVE TInv'
  BY <1>7 DEF LinkDown
<1>8. ASSUME NEW c \in Conns, Unwind(c) PROVE TInv'
  BY <1>8 DEF Unwind
<1>9. ASSUME NEW c \in Conns, Deregister(c) PROVE TInv'
  BY <1>9 DEF Deregister, Unregister
<1>10. ASSUME NEW c \in Conns, CleanIndex(c) PROVE TInv'
  BY <1>10 DEF CleanIndex, Without
<1>11. ASSUME NEW c \in Conns, Query(c) PROVE TInv'
  BY <1>11 DEF Query
<1>12. ASSUME NEW c \in Conns, Answer(c) PROVE TInv'
  BY <1>12 DEF Answer
<1>13. ASSUME NEW c \in Conns, NEW ch \in Channels, Read(c, ch) PROVE TInv'
  BY <1>13, TakeMessage DEF Read
<1>14. ASSUME NEW c \in Conns, NEW ch \in Channels, NEW ms \in SUBSET Agents,
              ReadCreated(c, ch, ms)
       PROVE  TInv'
  BY <1>14, TakeMessage DEF ReadCreated
<1>15. ASSUME NEW c \in Conns, NEW m \in Agents, JoinMember(c, m) PROVE TInv'
  BY <1>15 DEF JoinMember, Msg
<1>16. ASSUME NEW c \in Conns, JoinDone(c) PROVE TInv'
  BY <1>16 DEF JoinDone
<1>17. ASSUME NEW c \in Conns, NEW ch \in Channels, ReadLeft(c, ch) PROVE TInv'
  <2>1. Take(c, ch)
    BY <1>17 DEF ReadLeft
  <2>2. owner[c] \in Agents
    BY <2>1, TakeMessage
  <2>3. index' \in [Channels -> SUBSET Agents]
    BY <1>17 DEF ReadLeft, Without
  <2>4. left' \in [Channels -> SUBSET Agents]
    BY <1>17, <2>2 DEF ReadLeft
  <2>5. /\ pc' = [pc EXCEPT ![c] = "leaving"]
        /\ UNCHANGED <<owner, up, agents, done, joined, announced, todo,
                       sending, wire>>
    BY <1>17 DEF ReadLeft
  <2> QED
    BY <2>1, <2>2, <2>3, <2>4, <2>5, TakeMessage
<1>18. ASSUME NEW c \in Conns, ForgetChannel(c) PROVE TInv'
  BY <1>18 DEF ForgetChannel
<1>19. ASSUME NEW c \in Conns, Snapshot(c) PROVE TInv'
  BY <1>19 DEF Snapshot, Targets, Msg
<1>20. ASSUME NEW c \in Conns, RLock(c) PROVE TInv'
  BY <1>20 DEF RLock
<1>21. ASSUME NEW c \in Conns, NEW a \in Agents, Forward(c, a) PROVE TInv'
  BY <1>21 DEF Forward
<1>22. ASSUME NEW c \in Conns, RelayDone(c) PROVE TInv'
  BY <1>22 DEF RelayDone
<1>23. ASSUME NEW d \in Conns, NEW m \in sending[d], Write(d, m) PROVE TInv'
  BY <1>23 DEF Write
<1>24. ASSUME NEW d \in Conns, NEW m \in sending[d], WriteFails(d, m) PROVE TInv'
  BY <1>24 DEF WriteFails
<1>25. ASSUME NEW c \in Conns, JoinRLock(c) PROVE TInv'
  BY <1>25 DEF JoinRLock
<1> QED
  BY <1>1, <1>2, <1>3, <1>4, <1>5, <1>6, <1>7, <1>8, <1>9, <1>10, <1>11, <1>12,
     <1>13, <1>14, <1>15, <1>16, <1>17, <1>18, <1>19, <1>20, <1>21, <1>22,
     <1>23, <1>24, <1>25
  DEF Next, Handler, Sender, Peer

(* Every variable keeps its type, whatever the number of agents, connections  *)
(* and channels: in particular no handler looks up a connection without owner.*)
THEOREM TypeCorrect == Spec => []TypeOK
<1>1. Spec => []TInv
  BY InitTInv, NextTInv, PTL DEF Spec
<1>2. TInv => TypeOK
  BY DEF TInv
<1> QED
  BY <1>1, <1>2, PTL

--------------------------------------------------------------------------------
(* The registry.  A connection that is not registered yet cannot have been    *)
(* superseded: only the registry leads to a done channel, or the own cleanup. *)

NotSuperseded == \A c \in Conns : pc[c] \in {"idle", "registering"} => c \notin done

RInv == RegistryServes /\ LiveRegistered /\ NotSuperseded

(* What all steps but those of connecting and disconnecting do to the         *)
(* registry: nothing, and handlers that serve go on serving.                  *)
RegistryFrame ==
  /\ UNCHANGED <<owner, agents, done>>
  /\ \A d \in Conns : pc'[d] = pc[d] \/ (pc[d] \in Serving /\ pc'[d] \in Serving)

ServeStep(c) ==
  \/ Count(c) \/ Query(c) \/ Answer(c) \/ JoinRLock(c) \/ JoinDone(c) \/ ForgetChannel(c)
  \/ Snapshot(c) \/ RLock(c) \/ RelayDone(c) \/ LinkDown(c)
  \/ \E a \in Agents : JoinMember(c, a) \/ Forward(c, a)
  \/ \E ch \in Channels :
       Read(c, ch) \/ ReadLeft(c, ch) \/ \E ms \in SUBSET Agents : ReadCreated(c, ch, ms)
  \/ \E m \in sending[c] : Write(c, m) \/ WriteFails(c, m)

(* The steps of a serving handler leave the registry as it is. *)
LEMMA ServeFrame ==
  ASSUME TInv, NEW c \in Conns, ServeStep(c)
  PROVE  RegistryFrame
<1> USE DEF TInv, TypeOK, RegistryFrame, Serving, Goto, registryVars
<1>1. CASE Count(c) \/ Query(c) \/ Answer(c)
  BY <1>1 DEF Count, Query, Answer
<1>2. CASE JoinRLock(c) \/ JoinDone(c) \/ ForgetChannel(c) \/ Snapshot(c)
  BY <1>2 DEF JoinRLock, JoinDone, ForgetChannel, Snapshot, indexVars, relayVars
<1>3. CASE RLock(c) \/ RelayDone(c) \/ LinkDown(c)
  BY <1>3 DEF RLock, RelayDone, LinkDown
<1>4. ASSUME NEW a \in Agents, JoinMember(c, a) \/ Forward(c, a)
      PROVE  RegistryFrame
  BY <1>4 DEF JoinMember, Forward
<1>5. ASSUME NEW ch \in Channels, Read(c, ch) \/ ReadLeft(c, ch)
      PROVE  RegistryFrame
  BY <1>5, TakeMessage DEF Read, ReadLeft
<1>6. ASSUME NEW ch \in Channels, NEW ms \in SUBSET Agents, ReadCreated(c, ch, ms)
      PROVE  RegistryFrame
  BY <1>6, TakeMessage DEF ReadCreated
<1>7. ASSUME NEW m \in sending[c], Write(c, m) \/ WriteFails(c, m)
      PROVE  RegistryFrame
  BY <1>7 DEF Write, WriteFails
<1> QED
  BY <1>1, <1>2, <1>3, <1>4, <1>5, <1>6, <1>7, ServeStep(c) DEF ServeStep

(* Every other step is one of the connection's beginning or end. *)
LEMMA NextCases ==
  ASSUME NEW c \in Conns, Handler(c) \/ Sender(c) \/ Peer(c)
  PROVE  \/ ServeStep(c)
         \/ \E a \in Agents : Handshake(c, a)
         \/ HandshakeFails(c) \/ Register(c) \/ RegisterPanics(c)
         \/ Unwind(c) \/ Deregister(c) \/ CleanIndex(c)
BY DEF Handler, Sender, Peer, ServeStep

(* The registry is empty at the start. *)
LEMMA InitRInv == Init => RInv
BY ConstantsAssumption
DEF Init, RInv, RegistryServes, LiveRegistered, NotSuperseded, Registered, Serving

(* Every step keeps the registry sound. *)
LEMMA NextRInv == TInv /\ RInv /\ [Next]_vars => RInv'
<1> SUFFICES ASSUME TInv, RInv, [Next]_vars PROVE RInv'
  OBVIOUS
<1> USE ConstantsAssumption
<1>1. CASE UNCHANGED vars
  BY <1>1 DEF vars, registryVars, RInv, RegistryServes, LiveRegistered,
              NotSuperseded, Registered
<1>2. ASSUME RegistryFrame PROVE RInv'
  <2>1. /\ owner' = owner /\ agents' = agents /\ done' = done
        /\ \A d \in Conns :
             pc'[d] = pc[d] \/ (pc[d] \in Serving /\ pc'[d] \in Serving)
    BY <1>2 DEF RegistryFrame
  <2>2. agents \in [Agents -> Conns \cup {None}]
    BY DEF TInv, TypeOK
  <2>3. RegistryServes'
    BY <2>1, <2>2 DEF RInv, RegistryServes, Registered, Serving
  <2>4. LiveRegistered' /\ NotSuperseded'
    BY <2>1 DEF RInv, LiveRegistered, NotSuperseded, Serving
  <2> QED
    BY <2>3, <2>4 DEF RInv
<1>3. ASSUME NEW c \in Conns, NEW a \in Agents, Handshake(c, a) PROVE RInv'
  <2>1. /\ pc[c] = "idle" /\ pc' = [pc EXCEPT ![c] = "registering"]
        /\ owner' = [owner EXCEPT ![c] = a]
        /\ UNCHANGED <<agents, done>>
    BY <1>3 DEF Handshake, Goto, registryVars
  <2>2. pc \in [Conns -> PCs] /\ owner \in [Conns -> Agents \cup {None}]
    BY DEF TInv, TypeOK
  <2>3. \A b \in Agents : agents[b] # c
    BY <2>1 DEF RInv, RegistryServes, Registered, Serving
  <2>4. RegistryServes' /\ LiveRegistered'
    BY <2>1, <2>2, <2>3
    DEF RInv, RegistryServes, LiveRegistered, Registered, Serving
  <2>5. NotSuperseded'
    BY <2>1, <2>2 DEF RInv, NotSuperseded
  <2> QED
    BY <2>4, <2>5 DEF RInv
<1>4. ASSUME NEW c \in Conns, HandshakeFails(c) PROVE RInv'
  BY <1>4 DEF HandshakeFails, Goto, registryVars, TInv, TypeOK, RInv,
              RegistryServes, LiveRegistered, NotSuperseded, Registered, Serving
<1>5. ASSUME NEW c \in Conns, Register(c) PROVE RInv'
  <2> DEFINE a == owner[c]
  <2>1. a \in Agents
    BY <1>5 DEF Register, TInv, Identified
  <2>2. /\ pc[c] = "registering" /\ pc' = [pc EXCEPT ![c] = "counting"]
        /\ agents' = [agents EXCEPT ![a] = c]
        /\ done' = IF agents[a] # None THEN done \cup {agents[a]} ELSE done
        /\ owner' = owner
    BY <1>5 DEF Register, Goto, Supersede, Registered
  <2>3. /\ pc \in [Conns -> PCs] /\ agents \in [Agents -> Conns \cup {None}]
        /\ done \in SUBSET Conns
    BY DEF TInv, TypeOK
  <2>4. c \notin done' /\ \A b \in Agents : agents[b] # c
    BY <2>1, <2>2, <2>3 DEF RInv, RegistryServes, NotSuperseded, Registered, Serving
  <2>5. RegistryServes'
    <3> SUFFICES ASSUME NEW b \in Agents, agents'[b] # None
                 PROVE  LET d == agents'[b]
                        IN  /\ owner'[d] = b
                            /\ pc'[d] \in Serving \cup {"deregister"}
                            /\ d \in done' <=> pc'[d] = "deregister"
      BY DEF RegistryServes, Registered
    <3>1. CASE b = a
      BY <3>1, <2>1, <2>2, <2>3, <2>4 DEF Serving
    <3>2. CASE b # a
      BY <3>2, <2>1, <2>2, <2>3, <2>4 DEF RInv, RegistryServes, Registered, Serving
    <3> QED
      BY <3>1, <3>2
  <2>6. LiveRegistered'
    BY <2>1, <2>2, <2>3, <2>4 DEF RInv, LiveRegistered, TInv, Identified, Serving
  <2>7. NotSuperseded'
    BY <2>1, <2>2, <2>3, <2>4 DEF RInv, NotSuperseded, RegistryServes, Registered, Serving
  <2> QED
    BY <2>5, <2>6, <2>7 DEF RInv
<1>6. ASSUME NEW c \in Conns, RegisterPanics(c) PROVE RInv'
  BY <1>6 DEF RegisterPanics, Goto, registryVars, TInv, TypeOK, RInv,
              RegistryServes, LiveRegistered, NotSuperseded, Registered, Serving
<1>7. ASSUME NEW c \in Conns, Unwind(c) PROVE RInv'
  <2>1. /\ pc[c] = "serving"
        /\ pc' = [pc EXCEPT ![c] = IF c \in done THEN "panicked" ELSE "deregister"]
        /\ done' = done \cup {c}
        /\ UNCHANGED <<owner, agents>>
    BY <1>7 DEF Unwind, Goto
  <2> QED
    BY <2>1 DEF TInv, TypeOK, RInv, RegistryServes, LiveRegistered,
                NotSuperseded, Registered, Serving
<1>8. ASSUME NEW c \in Conns, Deregister(c) PROVE RInv'
  <2>1. owner[c] \in Agents
    BY <1>8 DEF Deregister, TInv, Identified
  <2>2. /\ pc[c] = "deregister" /\ pc' = [pc EXCEPT ![c] = "clean"]
        /\ \A b \in Agents :
             agents'[b] = IF b = owner[c] /\ agents[b] = c THEN None ELSE agents[b]
        /\ UNCHANGED <<owner, done>>
    BY <1>8, <2>1 DEF Deregister, Goto, Unregister, TInv, TypeOK
  <2>3. pc \in [Conns -> PCs]
    BY DEF TInv, TypeOK
  <2>4. RegistryServes'
    BY <2>2, <2>3 DEF RInv, RegistryServes, Registered, Serving
  <2>5. \A d \in Conns : pc[d] \in Serving => owner[d] \in Agents
    BY DEF TInv, Identified, Serving
  <2>6. LiveRegistered'
    BY <2>2, <2>3, <2>5 DEF RInv, LiveRegistered, Serving
  <2>7. NotSuperseded'
    BY <2>2, <2>3 DEF RInv, NotSuperseded
  <2> QED
    BY <2>4, <2>6, <2>7 DEF RInv
<1>9. ASSUME NEW c \in Conns, CleanIndex(c) PROVE RInv'
  <2>1. /\ pc[c] = "clean" /\ pc' = [pc EXCEPT ![c] = "gone"]
        /\ UNCHANGED <<owner, agents, done>>
    BY <1>9 DEF CleanIndex, Goto, registryVars
  <2> QED
    BY <2>1 DEF TInv, TypeOK, RInv, RegistryServes, LiveRegistered,
                NotSuperseded, Registered, Serving
<1> QED
  BY <1>1, <1>2, <1>3, <1>4, <1>5, <1>6, <1>7, <1>8, <1>9, NextCases, ServeFrame
  DEF Next

(* RInv is an invariant of the relay. *)
LEMMA RInvariant == Spec => []RInv
<1>1. Spec => []TInv
  BY InitTInv, NextTInv, PTL DEF Spec
<1> QED
  BY <1>1, InitRInv, NextRInv, PTL DEF Spec

(* The registry never names a connection whose handler has ended. *)
THEOREM RegistrySound == Spec => []RegistryServes
<1>1. RInv => RegistryServes
  BY DEF RInv
<1> QED
  BY <1>1, RInvariant, PTL

(* A handler that was not superseded is the one its agent is reached through. *)
THEOREM ServingRegistered == Spec => []LiveRegistered
<1>1. RInv => LiveRegistered
  BY DEF RInv
<1> QED
  BY <1>1, RInvariant, PTL

--------------------------------------------------------------------------------
(* Delivery in order.  PerSenderFIFO speaks of what has been written; the     *)
(* inductive invariant adds what is under way.  A connection gets a message   *)
(* into its (single) send goroutine only while the message's handler still    *)
(* has it on its list, and that handler reads no other message before.        *)

(* Message n of connection c has been written to d, or is being written. *)
Holds(d, c, n) ==
  \/ \E m \in sending[d] : m.src = c /\ m.seq = n
  \/ \E i \in 1..Len(wire[d]) : wire[d][i].src = c /\ wire[d][i].seq = n

IdleEmpty == \A d \in Conns : pc[d] = "idle" => sending[d] = {} /\ wire[d] = <<>>

OneSend == \A d \in Conns : \A m, n \in sending[d] : m = n

SendingNewest ==
  \A d \in Conns : \A m \in sending[d] :
    /\ m.seq <= sent[m.src]
    /\ \A i \in 1..Len(wire[d]) : wire[d][i].src = m.src => wire[d][i].seq < m.seq

WireWasSent ==
  \A d \in Conns : \A i \in 1..Len(wire[d]) : wire[d][i].seq <= sent[wire[d][i].src]

(* The message a handler works on has reached a connection only if its agent  *)
(* is off the list of targets.                                                *)
OffTheList ==
  \A c \in Conns : pc[c] \in Working =>
    \A d \in Conns : Holds(d, c, sent[c]) =>
      pc[c] = "relaying" /\ owner[d] \notin todo[c]

OInv ==
  /\ IdleEmpty /\ OneSend /\ SendingNewest /\ WireWasSent /\ OffTheList
  /\ PerSenderFIFO

(* What all steps but those of reading, forwarding and writing do to messages *)
(* under way: nothing, and a handler with a list keeps list and message.      *)
OrderFrame ==
  /\ UNCHANGED <<sending, wire, sent>>
  /\ \A c \in Conns : pc'[c] \in Working =>
       \/ pc'[c] = pc[c] /\ todo'[c] \subseteq todo[c]
       \/ pc[c] \in Working /\ pc[c] # "relaying"
  /\ \A d \in Conns : owner'[d] = owner[d] \/ pc[d] = "idle"
  /\ \A d \in Conns : pc'[d] = "idle" => pc[d] = "idle"

(* The fields of the messages under way and written. *)
LEMMA MsgFields == ASSUME NEW m \in Msg
                   PROVE  m.src \in Conns /\ m.seq \in Nat /\ m.ch \in Channels
BY DEF Msg

(* What is being sent, and what was written, are messages. *)
LEMMA MessageTypes ==
  ASSUME TInv, NEW d \in Conns
  PROVE  /\ Len(wire[d]) \in Nat
         /\ \A m \in sending[d] : m \in Msg /\ m.src \in Conns /\ m.seq \in Nat
         /\ \A i \in 1..Len(wire[d]) :
              wire[d][i] \in Msg /\ wire[d][i].src \in Conns /\ wire[d][i].seq \in Nat
<1>1. wire[d] \in Seq(Msg) /\ sending[d] \in SUBSET Msg
  BY DEF TInv, TypeOK
<1>2. Len(wire[d]) \in Nat /\ \A i \in 1..Len(wire[d]) : wire[d][i] \in Msg
  BY <1>1
<1> QED
  BY <1>1, <1>2, MsgFields

(* Nothing is sent at the start. *)
LEMMA InitOInv == Init => OInv
BY DEF Init, OInv, IdleEmpty, OneSend, SendingNewest, WireWasSent, OffTheList,
       PerSenderFIFO, Working

(* A step that touches neither sends nor writes keeps the order. *)
LEMMA OrderFrameStep ==
  ASSUME TInv, OInv, OrderFrame
  PROVE  OInv'
<1>1. /\ sending' = sending /\ wire' = wire /\ sent' = sent
      /\ \A d \in Conns : owner'[d] = owner[d] \/ pc[d] = "idle"
      /\ \A d \in Conns : pc'[d] = "idle" => pc[d] = "idle"
  BY DEF OrderFrame
<1>2. IdleEmpty'
  BY <1>1 DEF OInv, IdleEmpty
<1>3. OneSend' /\ SendingNewest' /\ WireWasSent' /\ PerSenderFIFO'
  BY <1>1 DEF OInv, OneSend, SendingNewest, WireWasSent, PerSenderFIFO
<1>4. OffTheList'
  <2> SUFFICES ASSUME NEW c \in Conns, pc'[c] \in Working,
                      NEW d \in Conns, Holds(d, c, sent[c])'
               PROVE  pc'[c] = "relaying" /\ owner'[d] \notin todo'[c]
    BY <1>1 DEF OffTheList
  <2>1. Holds(d, c, sent[c])
    BY <1>1 DEF Holds
  <2>2. pc[d] # "idle"
    BY <2>1 DEF Holds, OInv, IdleEmpty
  <2>3. pc[c] \in Working => pc[c] = "relaying" /\ owner[d] \notin todo[c]
    BY <2>1 DEF OInv, OffTheList
  <2>4. pc'[c] = pc[c] /\ todo'[c] \subseteq todo[c]
    BY <2>3 DEF OrderFrame
  <2> QED
    BY <1>1, <2>2, <2>3, <2>4
<1> QED
  BY <1>2, <1>3, <1>4 DEF OInv

(* A new number has not been seen anywhere. *)
LEMMA TakeStep ==
  ASSUME TInv, OInv, NEW c \in Conns, NEW ch \in Channels, Take(c, ch),
         UNCHANGED <<owner, sending, wire>>,
         \A d \in Conns \ {c} : pc'[d] = pc[d] /\ todo'[d] = todo[d],
         pc'[c] # "idle"
  PROVE  OInv'
<1>1. /\ pc[c] = "serving"
      /\ sent'[c] = sent[c] + 1
      /\ \A d \in Conns \ {c} : sent'[d] = sent[d]
      /\ \A d \in Conns : sent[d] \in Nat
  BY TakeMessage DEF TInv, TypeOK
<1>2. /\ \A d \in Conns : \A m \in sending[d] : m.src \in Conns /\ m.seq \in Nat
      /\ \A d \in Conns : \A i \in 1..Len(wire[d]) :
           wire[d][i].src \in Conns /\ wire[d][i].seq \in Nat
  BY MessageTypes
<1>3. IdleEmpty'
  BY <1>1 DEF OInv, IdleEmpty
<1>4. OneSend' /\ PerSenderFIFO'
  BY DEF OInv, OneSend, PerSenderFIFO
<1>5. \A e \in Conns : sent[e] <= sent'[e] /\ sent'[e] \in Nat
  BY <1>1
<1>6. SendingNewest'
  BY <1>1, <1>2, <1>5 DEF OInv, SendingNewest
<1>7. WireWasSent'
  BY <1>1, <1>2, <1>5 DEF OInv, WireWasSent
<1>8. OffTheList'
  <2> SUFFICES ASSUME NEW e \in Conns, pc'[e] \in Working,
                      NEW d \in Conns, Holds(d, e, sent[e])'
               PROVE  pc'[e] = "relaying" /\ owner'[d] \notin todo'[e]
    BY DEF OffTheList
  <2>1. Holds(d, e, sent'[e])
    BY DEF Holds
  <2>2. CASE e = c
    BY <1>1, <1>2, <2>1, <2>2 DEF Holds, OInv, SendingNewest, WireWasSent
  <2>3. CASE e # c
    BY <1>1, <2>1, <2>3 DEF OInv, OffTheList
  <2> QED
    BY <2>2, <2>3
<1> QED
  BY <1>3, <1>4, <1>6, <1>7, <1>8 DEF OInv

(* Forwarding: the target is registered, so its owner is the list's entry. *)
LEMMA ForwardStep ==
  ASSUME TInv, RInv, OInv, NEW c \in Conns, NEW a \in Agents, Forward(c, a)
  PROVE  OInv'
<1>1. /\ pc[c] = "relaying" /\ a \in todo[c]
      /\ \A d \in Conns : sending'[d] = IF d = agents[a] THEN sending[d] \cup {msg[c]}
                                                         ELSE sending[d]
      /\ todo' = [todo EXCEPT ![c] = todo[c] \ {a}]
      /\ UNCHANGED <<pc, owner, wire, sent>>
  BY DEF Forward
<1>2. \A d \in Conns : d = agents[a] => sending[d] = {} /\ owner[d] = a /\ pc[d] # "idle"
  BY ConstantsAssumption
  DEF Forward, MuFree, Registered, RInv, RegistryServes, Serving
<1>3. msg[c].src = c /\ msg[c].seq = sent[c] /\ sent[c] \in Nat
  BY <1>1 DEF TInv, TypeOK, Carries, Working
<1>4. \A d \in Conns : todo'[d] \subseteq todo[d]
  BY <1>1 DEF TInv, TypeOK
<1>5. \A d \in Conns : d = agents[a] => ~Holds(d, c, sent[c])
  BY <1>1, <1>2 DEF OInv, OffTheList, Working
<1>6. IdleEmpty' /\ OneSend'
  <2>1. \A d \in Conns : sending'[d] = sending[d]
                        \/ (pc[d] # "idle" /\ sending'[d] = {msg[c]})
    BY <1>1, <1>2
  <2> QED
    BY <1>1, <2>1 DEF OInv, IdleEmpty, OneSend
<1>7. WireWasSent' /\ PerSenderFIFO'
  BY <1>1 DEF OInv, WireWasSent, PerSenderFIFO
<1>8. SendingNewest'
  <2> SUFFICES ASSUME NEW d \in Conns, NEW m \in sending'[d]
               PROVE  /\ m.seq <= sent[m.src]
                      /\ \A i \in 1..Len(wire[d]) :
                           wire[d][i].src = m.src => wire[d][i].seq < m.seq
    BY <1>1 DEF SendingNewest
  <2>1. CASE m \in sending[d]
    BY <2>1 DEF OInv, SendingNewest
  <2>2. CASE m \notin sending[d]
    <3>1. d = agents[a] /\ m = msg[c]
      BY <1>1, <2>2
    <3>2. \A i \in 1..Len(wire[d]) : wire[d][i].seq \in Nat
      BY MessageTypes
    <3>3. \A i \in 1..Len(wire[d]) : wire[d][i].src = c => wire[d][i].seq # sent[c]
      BY <3>1, <1>5 DEF Holds
    <3>4. \A i \in 1..Len(wire[d]) : wire[d][i].src = c => wire[d][i].seq <= sent[c]
      BY DEF OInv, WireWasSent
    <3> QED
      BY <1>3, <3>1, <3>2, <3>3, <3>4
  <2> QED
    BY <2>1, <2>2
<1>9. OffTheList'
  <2> SUFFICES ASSUME NEW e \in Conns, pc[e] \in Working,
                      NEW d \in Conns, Holds(d, e, sent[e])'
               PROVE  pc[e] = "relaying" /\ owner[d] \notin todo'[e]
    BY <1>1 DEF OffTheList
  <2>1. CASE Holds(d, e, sent[e])
    BY <2>1, <1>4 DEF OInv, OffTheList
  <2>2. CASE ~Holds(d, e, sent[e])
    <3>1. d = agents[a] /\ e = c
      BY <2>2, <1>1, <1>3 DEF Holds
    <3> QED
      BY <3>1, <1>1, <1>2 DEF TInv, TypeOK
  <2> QED
    BY <2>1, <2>2
<1> QED
  BY <1>6, <1>7, <1>8, <1>9 DEF OInv

(* Writing: the message under way becomes the last of the wire. *)
LEMMA WriteStep ==
  ASSUME TInv, OInv, NEW d \in Conns, NEW m \in sending[d], Write(d, m)
  PROVE  OInv'
<1> DEFINE n == Len(wire[d])
<1>1. /\ wire' = [wire EXCEPT ![d] = Append(wire[d], m)]
      /\ sending' = [sending EXCEPT ![d] = sending[d] \ {m}]
      /\ UNCHANGED <<pc, owner, todo, sent>>
  BY DEF Write
<1>2. /\ wire[d] \in Seq(Msg) /\ n \in Nat
      /\ m \in Msg /\ m.src \in Conns /\ m.seq \in Nat
      /\ \A e \in Conns \ {d} : wire'[e] = wire[e] /\ sending'[e] = sending[e]
  BY <1>1, MessageTypes DEF TInv, TypeOK
<1>3. /\ Len(wire'[d]) = n + 1
      /\ \A i \in 1..n : wire'[d][i] = wire[d][i]
      /\ wire'[d][n + 1] = m
  BY <1>1, <1>2 DEF TInv, TypeOK
<1>4. sending'[d] = {}
  BY <1>1 DEF TInv, TypeOK, OInv, OneSend
<1>5. IdleEmpty' /\ OneSend'
  BY <1>1, <1>2, <1>4 DEF OInv, IdleEmpty, OneSend
<1>6. SendingNewest'
  BY <1>1, <1>2, <1>4 DEF OInv, SendingNewest
<1>7. m.seq <= sent[m.src] /\ \A i \in 1..n : wire[d][i].src = m.src => wire[d][i].seq < m.seq
  BY DEF OInv, SendingNewest
<1>8. WireWasSent'
  <2> SUFFICES ASSUME NEW e \in Conns, NEW i \in 1..Len(wire'[e])
               PROVE  wire'[e][i].seq <= sent[wire'[e][i].src]
    BY <1>1 DEF WireWasSent
  <2>1. CASE e # d
    BY <2>1, <1>2 DEF OInv, WireWasSent
  <2>2. CASE e = d /\ i = n + 1
    BY <2>2, <1>3, <1>7
  <2>3. CASE e = d /\ i # n + 1
    <3>1. i \in 1..n
      BY <2>3, <1>2, <1>3
    <3> QED
      BY <3>1, <2>3, <1>3 DEF OInv, WireWasSent
  <2> QED
    BY <2>1, <2>2, <2>3
<1>9. PerSenderFIFO'
  <2> SUFFICES ASSUME NEW e \in Conns, NEW i \in 1..Len(wire'[e]), NEW j \in 1..Len(wire'[e]),
                      i < j, wire'[e][i].src = wire'[e][j].src
               PROVE  wire'[e][i].seq < wire'[e][j].seq
    BY DEF PerSenderFIFO
  <2>1. CASE e # d
    BY <2>1, <1>2 DEF OInv, PerSenderFIFO
  <2>2. CASE e = d /\ j = n + 1
    <3>1. i \in 1..n
      BY <2>2, <1>2, <1>3
    <3> QED
      BY <3>1, <2>2, <1>3, <1>7
  <2>3. CASE e = d /\ j # n + 1
    <3>1. i \in 1..n /\ j \in 1..n
      BY <2>3, <1>2, <1>3
    <3> QED
      BY <3>1, <2>3, <1>3 DEF OInv, PerSenderFIFO
  <2> QED
    BY <2>1, <2>2, <2>3
<1>10. OffTheList'
  <2> SUFFICES ASSUME NEW c \in Conns, pc[c] \in Working,
                      NEW e \in Conns, Holds(e, c, sent[c])'
               PROVE  pc[c] = "relaying" /\ owner[e] \notin todo[c]
    BY <1>1 DEF OffTheList
  <2>1. Holds(e, c, sent[c])
    <3>1. CASE e # d
      BY <3>1, <1>1, <1>2 DEF Holds
    <3>2. CASE e = d
      <4>1. PICK i \in 1..(n + 1) : wire'[d][i].src = c /\ wire'[d][i].seq = sent[c]
        BY <3>2, <1>1, <1>3, <1>4 DEF Holds
      <4>2. CASE i = n + 1
        BY <4>1, <4>2, <3>2, <1>3 DEF Holds
      <4>3. CASE i # n + 1
        <5>1. i \in 1..n
          BY <4>3, <1>2
        <5> QED
          BY <5>1, <4>1, <3>2, <1>3 DEF Holds
      <4> QED
        BY <4>2, <4>3
    <3> QED
      BY <3>1, <3>2
  <2> QED
    BY <2>1 DEF OInv, OffTheList
<1> QED
  BY <1>5, <1>6, <1>8, <1>9, <1>10 DEF OInv

(* A send that fails only takes a message away. *)
LEMMA WriteFailsStep ==
  ASSUME TInv, OInv, NEW d \in Conns, NEW m \in sending[d], WriteFails(d, m)
  PROVE  OInv'
<1>1. /\ \A e \in Conns : sending'[e] \subseteq sending[e]
      /\ UNCHANGED <<pc, owner, todo, sent, wire>>
  BY DEF WriteFails, TInv, TypeOK
<1>2. IdleEmpty' /\ OneSend' /\ SendingNewest' /\ WireWasSent' /\ PerSenderFIFO'
  BY <1>1 DEF OInv, IdleEmpty, OneSend, SendingNewest, WireWasSent, PerSenderFIFO
<1>3. OffTheList'
  <2>1. \A c, e \in Conns : Holds(e, c, sent[c])' => Holds(e, c, sent[c])
    BY <1>1 DEF Holds
  <2> QED
    BY <1>1, <2>1 DEF OInv, OffTheList
<1> QED
  BY <1>2, <1>3 DEF OInv

(* The steps that neither read a channel message nor touch a send. *)
QuietStep(c) ==
  \/ \E a \in Agents : Handshake(c, a) \/ JoinMember(c, a)
  \/ HandshakeFails(c) \/ Register(c) \/ RegisterPanics(c) \/ Count(c)
  \/ LinkDown(c) \/ Unwind(c) \/ Deregister(c) \/ CleanIndex(c)
  \/ Query(c) \/ Answer(c) \/ JoinRLock(c) \/ JoinDone(c) \/ ForgetChannel(c)
  \/ Snapshot(c) \/ RLock(c) \/ RelayDone(c)

(* The steps that concern the order, and the others. *)
LEMMA OrderCases ==
  ASSUME NEW c \in Conns, Handler(c) \/ Sender(c) \/ Peer(c)
  PROVE  \/ QuietStep(c)
         \/ \E ch \in Channels :
              \/ Read(c, ch) \/ ReadLeft(c, ch)
              \/ \E ms \in SUBSET Agents : ReadCreated(c, ch, ms)
         \/ \E a \in Agents : Forward(c, a)
         \/ \E m \in sending[c] : Write(c, m) \/ WriteFails(c, m)
BY DEF Handler, Sender, Peer, QuietStep

(* The other steps touch neither sends nor writes. *)
LEMMA QuietFrame ==
  ASSUME TInv, NEW c \in Conns, QuietStep(c)
  PROVE  OrderFrame
<1> USE DEF TInv, TypeOK, OrderFrame, Working, Goto, registryVars, indexVars, relayVars
<1>1. ASSUME NEW a \in Agents, Handshake(c, a) PROVE OrderFrame
  BY <1>1 DEF Handshake
<1>2. ASSUME NEW a \in Agents, JoinMember(c, a) PROVE OrderFrame
  BY <1>2 DEF JoinMember
<1>3. CASE HandshakeFails(c) \/ RegisterPanics(c) \/ Count(c)
  BY <1>3 DEF HandshakeFails, RegisterPanics, Count
<1>4. CASE Register(c)
  BY <1>4 DEF Register
<1>5. CASE LinkDown(c) \/ Unwind(c)
  BY <1>5 DEF LinkDown, Unwind
<1>6. CASE Deregister(c) \/ CleanIndex(c)
  BY <1>6 DEF Deregister, CleanIndex
<1>7. CASE Query(c) \/ Answer(c) \/ JoinRLock(c) \/ JoinDone(c)
  BY <1>7 DEF Query, Answer, JoinRLock, JoinDone
<1>8. CASE ForgetChannel(c) \/ Snapshot(c)
  BY <1>8 DEF ForgetChannel, Snapshot
<1>9. CASE RLock(c) \/ RelayDone(c)
  BY <1>9 DEF RLock, RelayDone
<1> QED
  BY <1>1, <1>2, <1>3, <1>4, <1>5, <1>6, <1>7, <1>8, <1>9 DEF QuietStep

(* Every step keeps the order. *)
LEMMA NextOInv == TInv /\ RInv /\ OInv /\ [Next]_vars => OInv'
<1> SUFFICES ASSUME TInv, RInv, OInv, [Next]_vars PROVE OInv'
  OBVIOUS
<1>1. CASE UNCHANGED vars
  <2>1. OrderFrame
    BY <1>1 DEF OrderFrame, vars, relayVars
  <2> QED
    BY <2>1, OrderFrameStep
<1>2. ASSUME NEW c \in Conns, NEW ch \in Channels,
             \/ Read(c, ch) \/ ReadLeft(c, ch)
             \/ \E ms \in SUBSET Agents : ReadCreated(c, ch, ms)
      PROVE  OInv'
  <2>1. Take(c, ch)
    BY <1>2 DEF Read, ReadLeft, ReadCreated
  <2>2. /\ UNCHANGED <<owner, sending, wire>>
        /\ \A d \in Conns \ {c} : pc'[d] = pc[d] /\ todo'[d] = todo[d]
        /\ pc'[c] # "idle"
    <3>1. CASE Read(c, ch)
      BY <3>1 DEF Read, Goto, TInv, TypeOK
    <3>2. CASE ReadLeft(c, ch)
      BY <3>2 DEF ReadLeft, Goto, TInv, TypeOK
    <3>3. ASSUME NEW ms \in SUBSET Agents, ReadCreated(c, ch, ms)
          PROVE  /\ UNCHANGED <<owner, sending, wire>>
                 /\ \A d \in Conns \ {c} : pc'[d] = pc[d] /\ todo'[d] = todo[d]
                 /\ pc'[c] # "idle"
      BY <3>3 DEF ReadCreated, Goto, TInv, TypeOK
    <3> QED
      BY <1>2, <3>1, <3>2, <3>3
  <2> QED
    BY <2>1, <2>2, TakeStep
<1>3. ASSUME NEW c \in Conns, QuietStep(c) PROVE OInv'
  BY <1>3, QuietFrame, OrderFrameStep
<1> QED
  BY <1>1, <1>2, <1>3, OrderCases, ForwardStep, WriteStep, WriteFailsStep DEF Next

(* OInv is an invariant of the relay. *)
LEMMA OInvariant == Spec => []OInv
<1>1. Spec => []TInv
  BY InitTInv, NextTInv, PTL DEF Spec
<1> QED
  BY <1>1, RInvariant, InitOInv, NextOInv, PTL DEF Spec

(* Per-sender order, for any number of handlers and send goroutines. *)
THEOREM DeliveryInOrder == Spec => []PerSenderFIFO
<1>1. OInv => PerSenderFIFO
  BY DEF OInv
<1> QED
  BY <1>1, OInvariant, PTL

--------------------------------------------------------------------------------
(* Membership.  What a handler has copied or is about to write stays within   *)
(* the members the channel was created with; a member that left is out of the *)
(* index for good, as a channel is created only once.                         *)

IdleAnonymous == \A c \in Conns : pc[c] = "idle" => owner[c] = None

LeftAnnounced == \A ch \in Channels : left[ch] \subseteq announced[ch]

JoiningList ==
  \A c \in Conns : Joining(c) =>
    todo[c] \subseteq announced[msg[c].ch] \ left[msg[c].ch]

TargetList ==
  \A c \in Conns : pc[c] \in {"rlock", "relaying"} =>
    todo[c] \subseteq announced[msg[c].ch] \ {owner[c]}

Counted == \A c \in Conns : pc[c] \in Working => sent[c] >= 1

(* m may be given to d: it is one of its channel's members, and not the one   *)
(* m came from, who is known.                                                 *)
Proper(d, m) ==
  /\ owner[d] \in announced[m.ch]
  /\ owner[d] # owner[m.src]
  /\ pc[m.src] # "idle"
  /\ m.seq >= 1

SendingProper == \A d \in Conns : \A m \in sending[d] : Proper(d, m)

WireProper == \A d \in Conns : \A i \in 1..Len(wire[d]) : Proper(d, wire[d][i])

MInv ==
  /\ IdleAnonymous /\ LeftAnnounced /\ IndexWithinRoster
  /\ JoiningList /\ TargetList /\ Counted
  /\ SendingProper /\ WireProper

(* There is no channel at the start. *)
LEMMA InitMInv == Init => MInv
BY DEF Init, MInv, IdleAnonymous, LeftAnnounced, IndexWithinRoster, JoiningList,
       TargetList, Counted, SendingProper, WireProper, Working

(* Proper is stable, because channels keep their members and connections      *)
(* their owners.                                                              *)
LEMMA ProperStable ==
  ASSUME TInv, MInv,
         \A ch \in Channels : announced[ch] \subseteq announced'[ch],
         \A d \in Conns : owner'[d] = owner[d] \/ pc[d] = "idle",
         \A d \in Conns : pc'[d] = "idle" => pc[d] = "idle",
         NEW d \in Conns, NEW m \in Msg, Proper(d, m)
  PROVE  Proper(d, m)'
<1>1. m.src \in Conns /\ m.ch \in Channels
  BY MsgFields
<1>2. owner[d] \in Agents
  BY <1>1 DEF Proper, TInv, TypeOK
<1>3. pc[d] # "idle"
  BY <1>2, ConstantsAssumption DEF MInv, IdleAnonymous
<1> QED
  BY <1>1, <1>3 DEF Proper

(* What a quiet step leaves of all this. *)
MemberFrame ==
  /\ UNCHANGED <<sending, wire, announced, left, sent, msg>>
  /\ \A ch \in Channels : index'[ch] \subseteq announced[ch] \ left[ch]
  /\ \A c \in Conns :
       /\ Joining(c)' => Joining(c) /\ todo'[c] \subseteq todo[c]
       /\ pc'[c] \in {"rlock", "relaying"} =>
            /\ todo'[c] \subseteq announced[msg[c].ch] \ {owner[c]}
            /\ owner'[c] = owner[c]
       /\ pc'[c] \in Working => pc[c] \in Working
       /\ owner'[c] = owner[c] \/ pc[c] = "idle"
       /\ pc'[c] = "idle" => pc[c] = "idle" /\ owner'[c] = owner[c]

(* A step that creates and leaves no channel keeps to the members. *)
LEMMA MemberFrameStep ==
  ASSUME TInv, MInv, MemberFrame
  PROVE  MInv'
<1>1. /\ UNCHANGED <<sending, wire, announced, left, sent, msg>>
      /\ \A d \in Conns : owner'[d] = owner[d] \/ pc[d] = "idle"
      /\ \A d \in Conns : pc'[d] = "idle" => pc[d] = "idle"
      /\ \A ch \in Channels : announced[ch] \subseteq announced'[ch]
  BY DEF MemberFrame
<1>2. IdleAnonymous' /\ LeftAnnounced' /\ Counted'
  BY <1>1 DEF MemberFrame, MInv, IdleAnonymous, LeftAnnounced, Counted
<1>3. IndexWithinRoster'
  BY <1>1 DEF MemberFrame, IndexWithinRoster
<1>4. JoiningList' /\ TargetList'
  BY DEF MemberFrame, MInv, JoiningList, TargetList
<1>5. SendingProper'
  BY <1>1, ProperStable, MessageTypes DEF MInv, SendingProper
<1>6. WireProper'
  BY <1>1, ProperStable, MessageTypes DEF MInv, WireProper
<1> QED
  BY <1>2, <1>3, <1>4, <1>5, <1>6 DEF MInv

(* The quiet steps create and leave no channel. *)
LEMMA QuietMemberFrame ==
  ASSUME TInv, MInv, NEW c \in Conns, QuietStep(c)
  PROVE  MemberFrame
<1>0. /\ \A ch \in Channels : index[ch] \subseteq announced[ch] \ left[ch]
      /\ \A d \in Conns : pc[d] \in {"rlock", "relaying"} =>
           todo[d] \subseteq announced[msg[d].ch] \ {owner[d]}
  BY DEF MInv, IndexWithinRoster, TargetList
<1> USE DEF TInv, TypeOK, MemberFrame, Working, Goto, registryVars, indexVars, relayVars
<1>1. ASSUME NEW a \in Agents, Handshake(c, a) PROVE MemberFrame
  BY <1>0, <1>1 DEF Handshake
<1>2. ASSUME NEW a \in Agents, JoinMember(c, a) PROVE MemberFrame
  <2>1. /\ pc[c] = "adding" /\ a \in todo[c] /\ pc' = [pc EXCEPT ![c] = "joining"]
        /\ index' = [index EXCEPT ![msg[c].ch] = index[msg[c].ch] \cup {a}]
        /\ todo' = [todo EXCEPT ![c] = todo[c] \ {a}]
        /\ UNCHANGED <<owner, sending, wire, announced, left, sent, msg>>
    BY <1>2 DEF JoinMember
  <2>2. a \in announced[msg[c].ch] \ left[msg[c].ch]
    BY <2>1 DEF MInv, JoiningList
  <2>3. \A ch \in Channels : index'[ch] \subseteq announced[ch] \ left[ch]
    BY <1>0, <2>1, <2>2
  <2>4. \A d \in Conns : todo'[d] \subseteq todo[d]
    BY <2>1
  <2>5. pc'[c] = "joining" /\ \A d \in Conns : d # c => pc'[d] = pc[d]
    BY <2>1
  <2> QED
    BY <1>0, <2>1, <2>3, <2>4, <2>5
<1>3. CASE HandshakeFails(c) \/ RegisterPanics(c) \/ Count(c)
  BY <1>0, <1>3 DEF HandshakeFails, RegisterPanics, Count
<1>4. CASE Register(c)
  BY <1>0, <1>4 DEF Register
<1>5. CASE LinkDown(c) \/ Unwind(c)
  BY <1>0, <1>5 DEF LinkDown, Unwind
<1>6. CASE Deregister(c)
  BY <1>0, <1>6 DEF Deregister
<1>7. CASE CleanIndex(c)
  <2>1. \A ch \in Channels : index'[ch] \subseteq index[ch]
    BY <1>7 DEF CleanIndex, Without
  <2> QED
    BY <1>0, <1>7, <2>1 DEF CleanIndex
<1>8. CASE Query(c) \/ Answer(c) \/ JoinRLock(c) \/ JoinDone(c)
  BY <1>0, <1>8 DEF Query, Answer, JoinRLock, JoinDone
<1>9. CASE ForgetChannel(c)
  BY <1>0, <1>9 DEF ForgetChannel
<1>10. CASE Snapshot(c)
  <2>1. /\ pc[c] = "snapshot" /\ pc' = [pc EXCEPT ![c] = "rlock"]
        /\ todo' = [todo EXCEPT ![c] = index[msg[c].ch] \ {owner[c]}]
        /\ UNCHANGED <<owner, sending, wire, index, announced, left, sent, msg>>
    BY <1>10 DEF Snapshot, Targets
  <2>2. msg[c].ch \in Channels
    BY <2>1, MsgFields DEF Carries
  <2>3. todo'[c] \subseteq announced[msg[c].ch] \ {owner[c]}
    BY <1>0, <2>1, <2>2
  <2> QED
    BY <1>0, <2>1, <2>3
<1>11. CASE RLock(c) \/ RelayDone(c)
  BY <1>0, <1>11 DEF RLock, RelayDone
<1> QED
  BY <1>1, <1>2, <1>3, <1>4, <1>5, <1>6, <1>7, <1>8, <1>9, <1>10, <1>11 DEF QuietStep

(* Reading a message: its number is positive; nothing else is disturbed, but  *)
(* a new channel gets its members and a leaving member goes on record.        *)
LEMMA TakeMember ==
  ASSUME TInv, MInv, NEW c \in Conns, NEW ch \in Channels,
         \/ Read(c, ch) \/ ReadLeft(c, ch)
         \/ \E ms \in SUBSET Agents : ReadCreated(c, ch, ms)
  PROVE  MInv'
<1>1. Take(c, ch)
  BY DEF Read, ReadLeft, ReadCreated
<1>2. /\ pc[c] = "serving" /\ sent'[c] >= 1 /\ msg'[c].ch = ch
      /\ \A d \in Conns \ {c} : msg'[d] = msg[d] /\ sent'[d] = sent[d]
  BY <1>1, TakeMessage DEF TInv, TypeOK
<1>3. pc \in [Conns -> PCs] /\ todo \in [Conns -> SUBSET Agents]
  BY DEF TInv, TypeOK
<1>4. CASE Read(c, ch)
  <2>1. /\ pc' = [pc EXCEPT ![c] = "snapshot"]
        /\ UNCHANGED <<owner, index, announced, left, todo, sending, wire>>
    BY <1>4 DEF Read, Goto, indexVars
  <2>2. IdleAnonymous' /\ LeftAnnounced' /\ IndexWithinRoster' /\ Counted'
    BY <1>2, <1>3, <2>1
    DEF MInv, IdleAnonymous, LeftAnnounced, IndexWithinRoster, Counted
  <2>3. JoiningList' /\ TargetList'
    BY <1>2, <1>3, <2>1 DEF MInv, JoiningList, TargetList
  <2>4. SendingProper' /\ WireProper'
    BY <1>2, <1>3, <2>1, ProperStable, MessageTypes DEF MInv, SendingProper, WireProper
  <2> QED
    BY <2>2, <2>3, <2>4 DEF MInv
<1>5. CASE ReadLeft(c, ch)
  <2>1. /\ pc' = [pc EXCEPT ![c] = "leaving"]
        /\ \A x \in Channels : index'[x] = IF x = ch THEN index[x] \ {owner[c]} ELSE index[x]
        /\ \A x \in Channels : left'[x] = IF x = ch THEN left[x] \cup {owner[c]} ELSE left[x]
        /\ UNCHANGED <<owner, announced, todo, sending, wire>>
    BY <1>5 DEF ReadLeft, Goto, Without, TInv, TypeOK
  <2>2. owner[c] \in announced[ch] /\ \A d \in Conns : Joining(d) => msg[d].ch # ch
    BY <1>5 DEF ReadLeft, Knows
  <2>3. IdleAnonymous' /\ Counted'
    BY <1>2, <1>3, <2>1 DEF MInv, IdleAnonymous, Counted, Working
  <2>4. LeftAnnounced' /\ IndexWithinRoster'
    <3>1. \A x \in Channels : left'[x] \subseteq announced'[x]
      BY <2>1, <2>2 DEF MInv, LeftAnnounced
    <3>2. \A x \in Channels : index'[x] \subseteq announced'[x] \ left'[x]
      BY <2>1 DEF MInv, IndexWithinRoster
    <3> QED
      BY <3>1, <3>2 DEF LeftAnnounced, IndexWithinRoster
  <2>5. JoiningList' /\ TargetList'
    <3>1. \A d \in Conns : pc'[d] \in {"joining", "adding", "rlock", "relaying"} =>
            d # c /\ pc[d] = pc'[d] /\ todo'[d] = todo[d] /\ msg'[d] = msg[d]
      BY <1>2, <1>3, <2>1
    <3>2. \A d \in Conns : Joining(d) =>
            msg[d].ch \in Channels /\ left'[msg[d].ch] = left[msg[d].ch]
      BY <2>1, <2>2, MsgFields DEF TInv, Carries, Working
    <3> QED
      BY <2>1, <3>1, <3>2 DEF MInv, JoiningList, TargetList
  <2>6. SendingProper' /\ WireProper'
    BY <1>2, <1>3, <2>1, ProperStable, MessageTypes DEF MInv, SendingProper, WireProper
  <2> QED
    BY <2>3, <2>4, <2>5, <2>6 DEF MInv
<1>6. ASSUME NEW ms \in SUBSET Agents, ReadCreated(c, ch, ms) PROVE MInv'
  <2>1. /\ pc' = [pc EXCEPT ![c] = "joining"]
        /\ announced[ch] = {}
        /\ \A x \in Channels : announced'[x] = IF x = ch THEN ms ELSE announced[x]
        /\ todo' = [todo EXCEPT ![c] = ms]
        /\ UNCHANGED <<owner, index, left, sending, wire>>
    BY <1>6 DEF ReadCreated, Goto, TInv, TypeOK
  <2>2. left[ch] = {}
    BY <2>1 DEF MInv, LeftAnnounced
  <2>3. \A x \in Channels : announced[x] \subseteq announced'[x]
    BY <2>1
  <2>4. IdleAnonymous' /\ LeftAnnounced' /\ IndexWithinRoster' /\ Counted'
    BY <1>2, <1>3, <2>1, <2>2, <2>3
    DEF MInv, IdleAnonymous, LeftAnnounced, IndexWithinRoster, Counted
  <2>5. \A d \in Conns : pc[d] \in Working => msg[d].ch \in Channels
    BY MsgFields DEF TInv, Carries
  <2>6. JoiningList'
    <3> SUFFICES ASSUME NEW d \in Conns, Joining(d)'
                 PROVE  todo'[d] \subseteq announced'[msg'[d].ch] \ left[msg'[d].ch]
      BY <2>1 DEF JoiningList
    <3>1. CASE d = c
      BY <3>1, <1>2, <1>3, <2>1, <2>2
    <3>2. CASE d # c
      <4>1. Joining(d) /\ todo'[d] = todo[d] /\ msg'[d] = msg[d]
        BY <3>2, <1>2, <1>3, <2>1
      <4>2. todo[d] \subseteq announced[msg[d].ch] \ left[msg[d].ch]
        BY <4>1 DEF MInv, JoiningList
      <4>3. msg[d].ch \in Channels
        BY <4>1, <2>5 DEF Working
      <4> QED
        BY <4>1, <4>2, <4>3, <2>3
    <3> QED
      BY <3>1, <3>2
  <2>7. TargetList'
    <3> SUFFICES ASSUME NEW d \in Conns, pc'[d] \in {"rlock", "relaying"}
                 PROVE  todo'[d] \subseteq announced'[msg'[d].ch] \ {owner[d]}
      BY <2>1 DEF TargetList
    <3>1. d # c /\ pc[d] \in {"rlock", "relaying"} /\ todo'[d] = todo[d] /\ msg'[d] = msg[d]
      BY <1>2, <1>3, <2>1
    <3>2. todo[d] \subseteq announced[msg[d].ch] \ {owner[d]}
      BY <3>1 DEF MInv, TargetList
    <3>3. msg[d].ch \in Channels
      BY <3>1, <2>5 DEF Working
    <3> QED
      BY <3>1, <3>2, <3>3, <2>3
  <2>8. SendingProper' /\ WireProper'
    BY <1>2, <1>3, <2>1, <2>3, ProperStable, MessageTypes
    DEF MInv, SendingProper, WireProper
  <2> QED
    BY <2>4, <2>6, <2>7, <2>8 DEF MInv
<1> QED
  BY <1>4, <1>5, <1>6

(* Only members are sent to. *)
LEMMA ForwardMember ==
  ASSUME TInv, RInv, MInv, NEW c \in Conns, NEW a \in Agents, Forward(c, a)
  PROVE  MInv'
<1>1. /\ pc[c] = "relaying" /\ a \in todo[c]
      /\ \A d \in Conns : sending'[d] = IF d = agents[a] THEN sending[d] \cup {msg[c]}
                                                         ELSE sending[d]
      /\ todo' = [todo EXCEPT ![c] = todo[c] \ {a}]
      /\ UNCHANGED <<pc, owner, wire, sent, msg, index, announced, left>>
  BY DEF Forward, indexVars
<1>2. \A d \in Conns : todo'[d] \subseteq todo[d]
  BY <1>1 DEF TInv, TypeOK
<1>3. IdleAnonymous' /\ LeftAnnounced' /\ IndexWithinRoster' /\ Counted' /\ WireProper'
  BY <1>1 DEF MInv, IdleAnonymous, LeftAnnounced, IndexWithinRoster, Counted,
              WireProper, Proper
<1>4. JoiningList' /\ TargetList'
  BY <1>1, <1>2 DEF MInv, JoiningList, TargetList
<1>5. \A d \in Conns : d = agents[a] => owner[d] = a
  BY ConstantsAssumption DEF RInv, RegistryServes, Registered
<1>6. /\ msg[c].src = c /\ msg[c].seq = sent[c] /\ sent[c] >= 1
      /\ a \in announced[msg[c].ch] /\ a # owner[c]
  BY <1>1 DEF TInv, Carries, Working, MInv, Counted, TargetList
<1>7. SendingProper'
  <2> SUFFICES ASSUME NEW d \in Conns, NEW m \in sending'[d]
               PROVE  Proper(d, m)
    BY <1>1 DEF SendingProper, Proper
  <2>1. CASE m \in sending[d]
    BY <2>1 DEF MInv, SendingProper
  <2>2. CASE m \notin sending[d]
    <3>1. d = agents[a] /\ m = msg[c]
      BY <2>2, <1>1
    <3> QED
      BY <3>1, <1>1, <1>5, <1>6 DEF Proper
  <2> QED
    BY <2>1, <2>2
<1> QED
  BY <1>3, <1>4, <1>7 DEF MInv

(* Only what is being sent is written. *)
LEMMA WriteMember ==
  ASSUME TInv, MInv, NEW d \in Conns, NEW m \in sending[d],
         Write(d, m) \/ WriteFails(d, m)
  PROVE  MInv'
<1>1. UNCHANGED <<pc, owner, sent, msg, todo, index, announced, left>>
  BY DEF Write, WriteFails, indexVars
<1>2. IdleAnonymous' /\ LeftAnnounced' /\ IndexWithinRoster' /\ Counted'
      /\ JoiningList' /\ TargetList'
  BY <1>1 DEF MInv, IdleAnonymous, LeftAnnounced, IndexWithinRoster, Counted,
              JoiningList, TargetList
<1>3. \A e \in Conns : sending'[e] \subseteq sending[e]
  BY DEF Write, WriteFails, TInv, TypeOK
<1>4. SendingProper'
  BY <1>1, <1>3 DEF MInv, SendingProper, Proper
<1>5. WireProper'
  <2>1. CASE WriteFails(d, m)
    BY <2>1, <1>1 DEF WriteFails, MInv, WireProper, Proper
  <2>2. CASE Write(d, m)
    <3> SUFFICES ASSUME NEW e \in Conns, NEW i \in 1..Len(wire'[e])
                 PROVE  Proper(e, wire'[e][i])
      BY <1>1 DEF WireProper, Proper
    <3>1. CASE e # d
      BY <3>1, <2>2 DEF Write, TInv, TypeOK, MInv, WireProper
    <3>2. CASE e = d
      <4>1. /\ wire[d] \in Seq(Msg) /\ m \in Msg /\ wire'[d] = Append(wire[d], m)
        BY <2>2 DEF Write, TInv, TypeOK
      <4>2. \/ i \in 1..Len(wire[d]) /\ wire'[d][i] = wire[d][i]
            \/ wire'[d][i] = m
        BY <4>1, <3>2
      <4> QED
        BY <4>2, <3>2 DEF MInv, WireProper, SendingProper
    <3> QED
      BY <3>1, <3>2
  <2> QED
    BY <2>1, <2>2
<1> QED
  BY <1>2, <1>4, <1>5 DEF MInv

(* Every step keeps to the members. *)
LEMMA NextMInv == TInv /\ RInv /\ MInv /\ [Next]_vars => MInv'
<1> SUFFICES ASSUME TInv, RInv, MInv, [Next]_vars PROVE MInv'
  OBVIOUS
<1>1. CASE UNCHANGED vars
  <2>1. MemberFrame
    BY <1>1 DEF MemberFrame, vars, indexVars, relayVars, MInv, IndexWithinRoster, TargetList
  <2> QED
    BY <2>1, MemberFrameStep
<1>2. ASSUME NEW c \in Conns, QuietStep(c) PROVE MInv'
  BY <1>2, QuietMemberFrame, MemberFrameStep
<1> QED
  BY <1>1, <1>2, OrderCases, TakeMember, ForwardMember, WriteMember DEF Next

(* MInv is an invariant of the relay. *)
LEMMA MInvariant == Spec => []MInv
<1>1. Spec => []TInv
  BY InitTInv, NextTInv, PTL DEF Spec
<1> QED
  BY <1>1, RInvariant, InitMInv, NextMInv, PTL DEF Spec

(* Messages reach members of their channel only, and not their sender. *)
THEOREM MembersOnly == Spec => []DeliveredToMembers
<1>1. MInv => DeliveredToMembers
  BY DEF MInv, WireProper, Proper, DeliveredToMembers
<1> QED
  BY <1>1, MInvariant, PTL

(* The index is within the members that did not leave. *)
THEOREM LeaversStayOut == Spec => []IndexWithinRoster
<1>1. MInv => IndexWithinRoster
  BY DEF MInv
<1> QED
  BY <1>1, MInvariant, PTL

--------------------------------------------------------------------------------
(* Reachability.  While a channel is being created, the members its handler   *)
(* has not got to are out of the index too; with them RosterReachable becomes *)
(* inductive.  A member joins on a connection the registry names, so on one   *)
(* that is not gone, and only once, so that no earlier one of it is gone.     *)

OneJoining == \A c, d \in Conns : Joining(c) /\ Joining(d) => c = d

JoinedAnnounced == \A c \in Conns : \A ch \in joined[c] : owner[c] \in announced[ch]

JoinedVisited ==
  \A c, d \in Conns :
    Joining(c) /\ msg[c].ch \in joined[d] => owner[d] \notin todo[c]

(* The handler that creates ch has not got to a yet. *)
Awaits(a, ch) ==
  \E c \in Conns : Joining(c) /\ msg[c].ch = ch /\ a \in todo[c]

IndexExact ==
  \A ch \in Channels : \A a \in announced[ch] \ left[ch] :
    a \notin index[ch] <=> Awaits(a, ch) \/ \E c \in Conns : LostOn(c, a, ch)

JInv == OneJoining /\ JoinedAnnounced /\ JoinedVisited /\ IndexExact

(* There is no channel at the start. *)
LEMMA InitJInv == Init => JInv
BY DEF Init, JInv, OneJoining, JoinedAnnounced, JoinedVisited, IndexExact

(* What most steps leave of all this. *)
JoinFrame ==
  /\ UNCHANGED <<owner, index, announced, left>>
  /\ \A c \in Conns :
       /\ Joining(c)' => Joining(c)
       /\ Joining(c) =>
            /\ msg'[c] = msg[c] /\ todo'[c] = todo[c]
            /\ Joining(c)' \/ todo[c] = {}
       /\ pc'[c] = "gone" <=> pc[c] = "gone"
       /\ joined'[c] \subseteq joined[c]
       /\ pc[c] = "gone" => joined'[c] = joined[c]

(* Such a step keeps the index exact. *)
LEMMA JoinFrameStep ==
  ASSUME JInv, JoinFrame
  PROVE  JInv'
<1>1. /\ owner' = owner /\ index' = index /\ announced' = announced /\ left' = left
      /\ \A c \in Conns :
           /\ Joining(c)' =>
                Joining(c) /\ msg'[c] = msg[c] /\ todo'[c] = todo[c]
           /\ joined'[c] \subseteq joined[c]
  BY DEF JoinFrame
<1>2. OneJoining' /\ JoinedAnnounced' /\ JoinedVisited'
  BY <1>1 DEF JInv, OneJoining, JoinedAnnounced, JoinedVisited
<1>3. \A a, ch : Awaits(a, ch)' <=> Awaits(a, ch)
  BY DEF JoinFrame, Awaits
<1>4. \A c \in Conns : \A a, ch : LostOn(c, a, ch)' <=> LostOn(c, a, ch)
  BY DEF JoinFrame, LostOn
<1>5. IndexExact'
  BY <1>1, <1>3, <1>4 DEF JInv, IndexExact
<1> QED
  BY <1>2, <1>5 DEF JInv

(* The steps that concern who has joined or is gone, and the others. *)
JoinStep(c) ==
  \/ \E a \in Agents : Handshake(c, a) \/ JoinMember(c, a)
  \/ HandshakeFails(c) \/ CleanIndex(c)
  \/ \E ch \in Channels :
       ReadLeft(c, ch) \/ \E ms \in SUBSET Agents : ReadCreated(c, ch, ms)

(* The others leave it alone. *)
LEMMA JoinCases ==
  ASSUME TInv, NEW c \in Conns, Handler(c) \/ Sender(c) \/ Peer(c), ~JoinStep(c)
  PROVE  JoinFrame
<1> USE DEF TInv, TypeOK, JoinFrame, Goto, registryVars, indexVars, relayVars
<1>1. CASE Register(c) \/ RegisterPanics(c) \/ Count(c)
  BY <1>1 DEF Register, RegisterPanics, Count
<1>2. CASE LinkDown(c) \/ Unwind(c)
  BY <1>2 DEF LinkDown, Unwind
<1>3. CASE Deregister(c)
  BY <1>3 DEF Deregister
<1>4. CASE Query(c) \/ Answer(c)
  BY <1>4 DEF Query, Answer
<1>5. CASE JoinRLock(c) \/ JoinDone(c)
  BY <1>5 DEF JoinRLock, JoinDone
<1>6. CASE ForgetChannel(c)
  BY <1>6 DEF ForgetChannel
<1>7. CASE Snapshot(c) \/ RLock(c) \/ RelayDone(c)
  BY <1>7 DEF Snapshot, RLock, RelayDone
<1>8. ASSUME NEW a \in Agents, Forward(c, a) PROVE JoinFrame
  BY <1>8 DEF Forward
<1>9. ASSUME NEW ch \in Channels, Read(c, ch) PROVE JoinFrame
  <2>1. Take(c, ch)
    BY <1>9 DEF Read
  <2> QED
    BY <2>1, <1>9, TakeMessage DEF Read
<1>10. ASSUME NEW m \in sending[c], Write(c, m) \/ WriteFails(c, m) PROVE JoinFrame
  BY <1>10 DEF Write, WriteFails
<1> QED
  BY <1>1, <1>2, <1>3, <1>4, <1>5, <1>6, <1>7, <1>8, <1>9, <1>10
  DEF Handler, Sender, Peer, JoinStep

(* A connection without owner, or of which nobody knows, has joined nothing.  *)
LEMMA AnonymousJoinsNot ==
  ASSUME TInv, JInv, NEW c \in Conns, owner[c] = None
  PROVE  joined[c] = {}
<1> SUFFICES ASSUME NEW ch \in joined[c] PROVE FALSE
  OBVIOUS
<1>1. ch \in Channels /\ announced[ch] \subseteq Agents
  BY DEF TInv, TypeOK
<1> QED
  BY <1>1, ConstantsAssumption DEF JInv, JoinedAnnounced

(* The steps that concern who has joined or is gone, one by one.              *)

LEMMA HandshakeJoin ==
  ASSUME TInv, MInv, JInv, NEW c \in Conns, NEW a \in Agents, Handshake(c, a)
  PROVE  JInv'
<1>1. /\ pc[c] = "idle" /\ pc' = [pc EXCEPT ![c] = "registering"]
      /\ owner' = [owner EXCEPT ![c] = a]
      /\ UNCHANGED <<joined, index, announced, left, msg, todo>>
  BY DEF Handshake, Goto, indexVars, relayVars
<1>2. joined[c] = {}
  BY <1>1, AnonymousJoinsNot DEF MInv, IdleAnonymous
<1>3. \A d \in Conns : d # c => owner'[d] = owner[d] /\ pc'[d] = pc[d]
  BY <1>1 DEF TInv, TypeOK
<1>4. pc'[c] = "registering"
  BY <1>1 DEF TInv, TypeOK
<1>5. OneJoining' /\ JoinedAnnounced' /\ JoinedVisited'
  BY <1>1, <1>2, <1>3, <1>4 DEF JInv, OneJoining, JoinedAnnounced, JoinedVisited
<1>6. \A b, ch : Awaits(b, ch)' <=> Awaits(b, ch)
  BY <1>1, <1>3, <1>4 DEF Awaits
<1>7. \A d \in Conns : \A b, ch : LostOn(d, b, ch)' <=> LostOn(d, b, ch)
  BY <1>1, <1>3, <1>4 DEF LostOn
<1>8. IndexExact'
  BY <1>1, <1>6, <1>7 DEF JInv, IndexExact
<1> QED
  BY <1>5, <1>8 DEF JInv

LEMMA HandshakeFailsJoin ==
  ASSUME TInv, MInv, JInv, NEW c \in Conns, HandshakeFails(c)
  PROVE  JInv'
<1>1. /\ pc[c] = "idle" /\ pc' = [pc EXCEPT ![c] = "gone"]
      /\ UNCHANGED <<owner, joined, index, announced, left, msg, todo>>
  BY DEF HandshakeFails, Goto, indexVars, relayVars
<1>2. joined[c] = {}
  BY <1>1, AnonymousJoinsNot DEF MInv, IdleAnonymous
<1>3. pc'[c] = "gone" /\ \A d \in Conns : d # c => pc'[d] = pc[d]
  BY <1>1 DEF TInv, TypeOK
<1>4. OneJoining' /\ JoinedAnnounced' /\ JoinedVisited'
  BY <1>1, <1>3 DEF JInv, OneJoining, JoinedAnnounced, JoinedVisited
<1>5. \A b, ch : Awaits(b, ch)' <=> Awaits(b, ch)
  BY <1>1, <1>3 DEF Awaits
<1>6. \A d \in Conns : \A b, ch : LostOn(d, b, ch)' <=> LostOn(d, b, ch)
  BY <1>1, <1>2, <1>3 DEF LostOn
<1>7. IndexExact'
  BY <1>1, <1>5, <1>6 DEF JInv, IndexExact
<1> QED
  BY <1>4, <1>7 DEF JInv

LEMMA JoinMemberJoin ==
  ASSUME TInv, RInv, MInv, JInv, NEW c \in Conns, NEW a \in Agents, JoinMember(c, a)
  PROVE  JInv'
<1> DEFINE ch == msg[c].ch
<1>1. /\ pc[c] = "adding" /\ a \in todo[c] /\ pc' = [pc EXCEPT ![c] = "joining"]
      /\ index' = [index EXCEPT ![ch] = index[ch] \cup {a}]
      /\ \A d \in Conns : joined'[d] = IF d = agents[a] THEN joined[d] \cup {ch}
                                                       ELSE joined[d]
      /\ todo' = [todo EXCEPT ![c] = todo[c] \ {a}]
      /\ UNCHANGED <<owner, announced, left, msg>>
  BY DEF JoinMember, Goto
<1>2. ch \in Channels
  BY <1>1, MsgFields DEF TInv, Carries, Working
<1>3. todo'[c] = todo[c] \ {a} /\ \A d \in Conns : d # c => todo'[d] = todo[d]
  BY <1>1 DEF TInv, TypeOK
<1>4. /\ a \in index'[ch]
      /\ \A b : b # a => (b \in index'[ch] <=> b \in index[ch])
      /\ \A x \in Channels : x # ch => index'[x] = index[x]
  BY <1>1, <1>2 DEF TInv, TypeOK
<1>5. \A d \in Conns : (Joining(d)' <=> Joining(d)) /\ (pc'[d] = "gone" <=> pc[d] = "gone")
  BY <1>1 DEF TInv, TypeOK
<1>6. \A d \in Conns : d = agents[a] => owner[d] = a /\ pc[d] # "gone"
  BY ConstantsAssumption DEF RInv, RegistryServes, Registered, Serving
<1>7. \A d \in Conns : Joining(d) => d = c
  BY <1>1 DEF JInv, OneJoining
<1>8. OneJoining' /\ JoinedVisited'
  BY <1>1, <1>3, <1>6, <1>7, <1>5 DEF JInv, OneJoining, JoinedVisited
<1>9. JoinedAnnounced'
  <2>1. a \in announced[ch]
    BY <1>1 DEF MInv, JoiningList
  <2> QED
    BY <1>1, <1>6, <2>1 DEF JInv, JoinedAnnounced
<1>10. IndexExact'
  <2> SUFFICES ASSUME NEW x \in Channels, NEW b \in announced[x] \ left[x]
               PROVE  b \notin index'[x] <=>
                        Awaits(b, x)' \/ \E d \in Conns : LostOn(d, b, x)'
    BY <1>1 DEF IndexExact
  <2>1. b \notin index[x] <=> Awaits(b, x) \/ \E d \in Conns : LostOn(d, b, x)
    BY DEF JInv, IndexExact
  <2>2. \A d \in Conns : LostOn(d, b, x)' <=> LostOn(d, b, x)
    BY <1>1, <1>6, <1>5 DEF LostOn
  <2>3. CASE x = ch /\ b = a
    <3>1. \A d \in Conns : ~LostOn(d, b, x)
      BY <2>3, <1>1 DEF LostOn, JInv, JoinedVisited
    <3>2. ~Awaits(b, x)'
      BY <2>3, <1>1, <1>3, <1>7, <1>5 DEF Awaits
    <3>3. b \in index'[x]
      BY <2>3, <1>4
    <3> QED
      BY <2>2, <3>1, <3>2, <3>3
  <2>4. CASE ~(x = ch /\ b = a)
    <3>1. Awaits(b, x)' <=> Awaits(b, x)
      BY <2>4, <1>1, <1>3, <1>7, <1>5 DEF Awaits
    <3>2. b \in index'[x] <=> b \in index[x]
      BY <2>4, <1>4
    <3> QED
      BY <2>1, <2>2, <3>1, <3>2
  <2> QED
    BY <2>3, <2>4
<1> QED
  BY <1>8, <1>9, <1>10 DEF JInv

LEMMA CleanIndexJoin ==
  ASSUME TInv, JInv, NEW c \in Conns, CleanIndex(c)
  PROVE  JInv'
<1>1. /\ pc[c] = "clean" /\ pc' = [pc EXCEPT ![c] = "gone"]
      /\ \A d \in Conns : ~Joining(d)
      /\ \A x \in Channels : index'[x] = IF x \in joined[c] THEN index[x] \ {owner[c]}
                                                            ELSE index[x]
      /\ UNCHANGED <<owner, joined, announced, left, msg, todo>>
  BY DEF CleanIndex, Goto, IndexFree, Without, relayVars
<1>2. pc'[c] = "gone" /\ \A d \in Conns : d # c => pc'[d] = pc[d]
  BY <1>1 DEF TInv, TypeOK
<1>3. OneJoining' /\ JoinedAnnounced' /\ JoinedVisited'
  BY <1>1, <1>2 DEF JInv, OneJoining, JoinedAnnounced, JoinedVisited
<1>4. \A b, x : ~Awaits(b, x) /\ ~Awaits(b, x)'
  BY <1>1, <1>2 DEF Awaits
<1>5. \A b, x : (\E d \in Conns : LostOn(d, b, x)') <=>
                   \/ \E d \in Conns : LostOn(d, b, x)
                   \/ owner[c] = b /\ x \in joined[c]
  BY <1>1, <1>2 DEF LostOn
<1>6. IndexExact'
  BY <1>1, <1>4, <1>5 DEF JInv, IndexExact
<1> QED
  BY <1>3, <1>6 DEF JInv

LEMMA ReadLeftJoin ==
  ASSUME TInv, JInv, NEW c \in Conns, NEW ch \in Channels, ReadLeft(c, ch)
  PROVE  JInv'
<1>1. Take(c, ch) /\ \A d \in Conns : ~Joining(d)
  BY DEF ReadLeft, IndexFree
<1>2. /\ pc' = [pc EXCEPT ![c] = "leaving"]
      /\ \A x \in Channels : index'[x] = IF x = ch THEN index[x] \ {owner[c]} ELSE index[x]
      /\ \A x \in Channels : left'[x] = IF x = ch THEN left[x] \cup {owner[c]} ELSE left[x]
      /\ UNCHANGED <<owner, joined, announced>>
  BY DEF ReadLeft, Goto, Without, TInv, TypeOK
<1>3. pc[c] = "serving" /\ pc'[c] = "leaving" /\ \A d \in Conns : d # c => pc'[d] = pc[d]
  BY <1>1, <1>2 DEF Take, TInv, TypeOK
<1>4. OneJoining' /\ JoinedAnnounced' /\ JoinedVisited'
  BY <1>1, <1>2, <1>3 DEF JInv, OneJoining, JoinedAnnounced, JoinedVisited
<1>5. \A b, x : ~Awaits(b, x) /\ ~Awaits(b, x)'
  BY <1>1, <1>3 DEF Awaits
<1>6. \A d \in Conns : \A b, x : LostOn(d, b, x)' <=> LostOn(d, b, x)
  BY <1>2, <1>3 DEF LostOn
<1>7. IndexExact'
  BY <1>2, <1>5, <1>6 DEF JInv, IndexExact
<1> QED
  BY <1>4, <1>7 DEF JInv

LEMMA ReadCreatedJoin ==
  ASSUME TInv, MInv, JInv, NEW c \in Conns, NEW ch \in Channels,
         NEW ms \in SUBSET Agents, ReadCreated(c, ch, ms)
  PROVE  JInv'
<1>1. Take(c, ch) /\ \A d \in Conns : ~Joining(d)
  BY DEF ReadCreated, IndexFree
<1>2. /\ announced[ch] = {}
      /\ pc' = [pc EXCEPT ![c] = "joining"]
      /\ \A x \in Channels : announced'[x] = IF x = ch THEN ms ELSE announced[x]
      /\ todo' = [todo EXCEPT ![c] = ms]
      /\ UNCHANGED <<owner, joined, index, left>>
  BY DEF ReadCreated, Goto, TInv, TypeOK
<1>3. /\ pc[c] = "serving" /\ Joining(c)' /\ todo'[c] = ms /\ msg'[c].ch = ch
      /\ \A d \in Conns : d # c => pc'[d] = pc[d]
  BY <1>1, <1>2, TakeMessage DEF TInv, TypeOK
<1>4. /\ \A d \in Conns : ch \notin joined[d]
      /\ index[ch] = {}
  BY <1>2 DEF JInv, JoinedAnnounced, MInv, IndexWithinRoster
<1>5. OneJoining' /\ JoinedVisited'
  BY <1>1, <1>2, <1>3, <1>4 DEF OneJoining, JoinedVisited
<1>6. JoinedAnnounced'
  <2>1. \A d \in Conns : joined[d] \subseteq Channels
    BY DEF TInv, TypeOK
  <2> QED
    BY <1>2, <1>4, <2>1 DEF JInv, JoinedAnnounced
<1>7. \A b, x : Awaits(b, x)' <=> x = ch /\ b \in ms
  BY <1>1, <1>3 DEF Awaits
<1>8. \A b, x : ~Awaits(b, x)
  BY <1>1 DEF Awaits
<1>9. \A d \in Conns : \A b, x : LostOn(d, b, x)' <=> LostOn(d, b, x)
  BY <1>2, <1>3 DEF LostOn
<1>10. IndexExact'
  <2> SUFFICES ASSUME NEW x \in Channels, NEW b \in announced'[x] \ left[x]
               PROVE  b \notin index[x] <=>
                        Awaits(b, x)' \/ \E d \in Conns : LostOn(d, b, x)'
    BY <1>2 DEF IndexExact
  <2>1. CASE x = ch
    BY <2>1, <1>2, <1>4, <1>7
  <2>2. CASE x # ch
    BY <2>2, <1>2, <1>7, <1>8, <1>9 DEF JInv, IndexExact
  <2> QED
    BY <2>1, <2>2
<1> QED
  BY <1>5, <1>6, <1>10 DEF JInv

(* Every step keeps the index exact. *)
LEMMA NextJInv == TInv /\ RInv /\ MInv /\ JInv /\ [Next]_vars => JInv'
<1> SUFFICES ASSUME TInv, RInv, MInv, JInv, [Next]_vars PROVE JInv'
  OBVIOUS
<1>1. CASE UNCHANGED vars
  <2>1. JoinFrame
    BY <1>1 DEF JoinFrame, vars, indexVars, relayVars
  <2> QED
    BY <2>1, JoinFrameStep
<1>2. ASSUME NEW c \in Conns, JoinStep(c) PROVE JInv'
  BY <1>2, HandshakeJoin, HandshakeFailsJoin, JoinMemberJoin, CleanIndexJoin,
     ReadLeftJoin, ReadCreatedJoin
  DEF JoinStep
<1> QED
  BY <1>1, <1>2, JoinCases, JoinFrameStep DEF Next

(* Who of a channel is reachable, across any number of reconnections: all but *)
(* those whose connection of the channel's creation has been cleaned up.      *)
THEOREM MembersReachable == Spec => []RosterReachable
<1>1. Spec => []TInv
  BY InitTInv, NextTInv, PTL DEF Spec
<1>2. Spec => []JInv
  BY <1>1, RInvariant, MInvariant, InitJInv, NextJInv, PTL DEF Spec
<1>3. JInv => RosterReachable
  BY DEF JInv, IndexExact, RosterReachable, Established, Awaits
<1> QED
  BY <1>2, <1>3, PTL

--------------------------------------------------------------------------------
(* The relay implements the abstract multicast: reading is Submit, a          *)
(* successful write is Deliver, the handshake is Identify.                    *)

(* The initial states map to initial states. *)
LEMMA InitRefines == Init => Abs!Init
BY DEF Init, Abs!Init

(* Every step maps to a step of the multicast or to a stutter. *)
LEMMA NextRefines ==
  TInv /\ OInv /\ MInv /\ [Next]_vars => [Abs!Next]_(Abs!vars)
<1> SUFFICES ASSUME TInv, OInv, MInv, [Next]_vars
             PROVE  Abs!Next \/ UNCHANGED <<owner, announced, sent, wire>>
  BY DEF Abs!vars
<1>1. CASE UNCHANGED vars
  BY <1>1 DEF vars, indexVars, relayVars
<1>2. ASSUME NEW c \in Conns, NEW a \in Agents, Handshake(c, a) PROVE Abs!Next
  <2>1. Abs!Identify(c, a)
    BY <1>2 DEF Handshake, Abs!Identify, indexVars, relayVars, MInv, IdleAnonymous
  <2> QED
    BY <2>1 DEF Abs!Next
<1>3. ASSUME NEW c \in Conns, QuietStep(c), \A a \in Agents : ~Handshake(c, a)
      PROVE  UNCHANGED <<owner, announced, sent, wire>>
  BY <1>3
  DEF QuietStep, JoinMember, HandshakeFails, Register, RegisterPanics, Count,
      LinkDown, Unwind, Deregister, CleanIndex, Query, Answer, JoinRLock, JoinDone,
      ForgetChannel, Snapshot, RLock, RelayDone, indexVars, relayVars
<1>4. ASSUME NEW c \in Conns, NEW ch \in Channels, Read(c, ch) \/ ReadLeft(c, ch)
      PROVE  Abs!Next
  <2>1. Take(c, ch) /\ UNCHANGED <<owner, announced, wire>>
    BY <1>4 DEF Read, ReadLeft, indexVars
  <2>2. sent' = [sent EXCEPT ![c] = sent[c] + 1]
    BY <2>1 DEF Take
  <2>3. Abs!Submit(c)
    BY <2>1, <2>2 DEF Abs!Submit
  <2> QED
    BY <2>3 DEF Abs!Next
<1>5. ASSUME NEW c \in Conns, NEW ch \in Channels, NEW ms \in SUBSET Agents,
             ReadCreated(c, ch, ms)
      PROVE  Abs!Next
  <2>1. /\ Take(c, ch) /\ announced[ch] = {} /\ owner[c] \in ms
        /\ announced' = [announced EXCEPT ![ch] = ms]
        /\ UNCHANGED <<owner, wire>>
    BY <1>5 DEF ReadCreated
  <2>2. sent' = [sent EXCEPT ![c] = sent[c] + 1]
    BY <2>1 DEF Take
  <2>3. Abs!Submit(c)
    BY <2>1, <2>2 DEF Abs!Submit
  <2> QED
    BY <2>3 DEF Abs!Next
<1>6. ASSUME NEW c \in Conns, NEW a \in Agents, Forward(c, a)
      PROVE  UNCHANGED <<owner, announced, sent, wire>>
  BY <1>6 DEF Forward, indexVars
<1>7. ASSUME NEW d \in Conns, NEW m \in sending[d], WriteFails(d, m)
      PROVE  UNCHANGED <<owner, announced, sent, wire>>
  BY <1>7 DEF WriteFails, indexVars
<1>8. ASSUME NEW d \in Conns, NEW m \in sending[d], Write(d, m) PROVE Abs!Next
  <2>1. /\ m \in Msg /\ m.src \in Conns /\ m.seq \in Nat /\ m.ch \in Channels
    BY MessageTypes, MsgFields
  <2>2. m = [src |-> m.src, seq |-> m.seq, ch |-> m.ch]
    BY <2>1 DEF Msg
  <2>3. Proper(d, m)
    BY DEF MInv, SendingProper
  <2>4. /\ m.seq <= sent[m.src]
        /\ \A i \in 1..Len(wire[d]) : wire[d][i].src = m.src => wire[d][i].seq < m.seq
    BY DEF OInv, SendingNewest
  <2>5. m.seq \in 1..sent[m.src]
    BY <2>1, <2>3, <2>4 DEF Proper, TInv, TypeOK
  <2>6. Abs!Fresh(d, m)
    BY <2>4 DEF Abs!Fresh
  <2>7. /\ wire' = [wire EXCEPT ![d] = Append(wire[d], m)]
        /\ UNCHANGED <<owner, announced, sent>>
    BY <1>8 DEF Write, indexVars
  <2>8. Abs!Deliver(d, m.src, m.seq, m.ch)
    BY <2>2, <2>3, <2>6, <2>7 DEF Abs!Deliver, Proper
  <2> QED
    BY <2>1, <2>5, <2>8 DEF Abs!Next
<1> QED
  <2>1. CASE \E c \in Conns : QuietStep(c)
    BY <2>1, <1>2, <1>3 DEF QuietStep
  <2>2. CASE \E c \in Conns : ~QuietStep(c) /\ (Handler(c) \/ Sender(c) \/ Peer(c))
    BY <2>2, <1>4, <1>5, <1>6, <1>7, <1>8, OrderCases
  <2> QED
    BY <1>1, <2>1, <2>2 DEF Next

(* Every behaviour of the relay, for any number of agents and connections, is *)
(* one of the abstract multicast: in order per sender, at most once, to       *)
(* members only.                                                              *)
THEOREM RelayIsMulticast == Spec => ImplementsMulticast
<1>1. Spec => []TInv
  BY InitTInv, NextTInv, PTL DEF Spec
<1> QED
  BY <1>1, OInvariant, MInvariant, InitRefines, NextRefines, PTL
  DEF Spec, ImplementsMulticast, Abs!Spec

--------------------------------------------------------------------------------
(* The lockout.  A panic of a handler, whether in its cleanup or inside the   *)
(* section of Register, takes a second connection of the same agent: only a   *)
(* successor closes a done channel that its own handler has still to close.   *)

Succeeded(c) == \E d \in Conns \ {c} : owner[d] = owner[c]

PanicsSucceeded ==
  \A c \in Conns : pc[c] \in {"panicked", "poisoned"} => Succeeded(c)

ClosedSucceeded == \A c \in Conns : pc[c] \in Serving /\ c \in done => Succeeded(c)

PInv == PanicsSucceeded /\ ClosedSucceeded

(* Nobody has panicked at the start. *)
LEMMA InitPInv == Init => PInv
BY DEF Init, PInv, PanicsSucceeded, ClosedSucceeded, Serving

(* Every step keeps the reason for a panic. *)
LEMMA NextPInv == TInv /\ RInv /\ MInv /\ PInv /\ [Next]_vars => PInv'
<1> SUFFICES ASSUME TInv, RInv, MInv, PInv, [Next]_vars PROVE PInv'
  OBVIOUS
<1> USE ConstantsAssumption DEF PInv, PanicsSucceeded, ClosedSucceeded
<1>1. CASE UNCHANGED vars
  BY <1>1 DEF vars, registryVars, Succeeded
<1>2. ASSUME RegistryFrame PROVE PInv'
  BY <1>2 DEF RegistryFrame, Succeeded, Serving
<1>3. ASSUME NEW c \in Conns, NEW a \in Agents, Handshake(c, a) PROVE PInv'
  <2>1. /\ pc[c] = "idle" /\ pc' = [pc EXCEPT ![c] = "registering"]
        /\ owner' = [owner EXCEPT ![c] = a] /\ done' = done
    BY <1>3 DEF Handshake, Goto, registryVars
  <2>2. owner[c] = None /\ \A d \in Conns \ {c} : owner'[d] = owner[d] /\ pc'[d] = pc[d]
    BY <2>1 DEF MInv, IdleAnonymous, TInv, TypeOK
  <2>3. pc'[c] = "registering"
    BY <2>1 DEF TInv, TypeOK
  <2>4. \A d \in Conns : pc[d] \notin {"idle", "gone"} /\ Succeeded(d) => Succeeded(d)'
    BY <2>1, <2>2 DEF TInv, Identified, Succeeded
  <2> QED
    BY <2>1, <2>2, <2>3, <2>4 DEF Serving
<1>4. ASSUME NEW c \in Conns, HandshakeFails(c) PROVE PInv'
  BY <1>4 DEF HandshakeFails, Goto, registryVars, TInv, TypeOK, Succeeded, Serving
<1>5. ASSUME NEW c \in Conns, Register(c) PROVE PInv'
  <2>1. /\ pc[c] = "registering" /\ pc' = [pc EXCEPT ![c] = "counting"]
        /\ done' = IF agents[owner[c]] # None THEN done \cup {agents[owner[c]]} ELSE done
        /\ owner' = owner /\ owner[c] \in Agents
    BY <1>5 DEF Register, Goto, Supersede, Registered, TInv, Identified
  <2>2. c \notin done
    BY <2>1 DEF RInv, NotSuperseded
  <2>3. \A d \in Conns : d = agents[owner[c]] => d # c /\ owner[d] = owner[c]
    BY <2>1 DEF RInv, RegistryServes, Registered, Serving
  <2>4. pc'[c] = "counting" /\ \A d \in Conns \ {c} : pc'[d] = pc[d]
    BY <2>1 DEF TInv, TypeOK
  <2>5. \A d \in Conns : Succeeded(d)' <=> Succeeded(d)
    BY <2>1 DEF Succeeded
  <2>6. \A d \in Conns : d = agents[owner[c]] => Succeeded(d)
    BY <2>3 DEF Succeeded
  <2>7. PanicsSucceeded'
    BY <2>4, <2>5
  <2>8. ClosedSucceeded'
    BY <2>1, <2>2, <2>3, <2>4, <2>5, <2>6
  <2> QED
    BY <2>7, <2>8
<1>6. ASSUME NEW c \in Conns, RegisterPanics(c) PROVE PInv'
  <2>1. /\ pc[c] = "registering" /\ pc' = [pc EXCEPT ![c] = "poisoned"]
        /\ agents[owner[c]] \in done /\ UNCHANGED <<owner, done>>
        /\ owner[c] \in Agents
    BY <1>6 DEF RegisterPanics, Goto, registryVars, TInv, Identified
  <2>2. agents[owner[c]] \in Conns
    BY <2>1 DEF TInv, TypeOK
  <2>3. agents[owner[c]] # c /\ owner[agents[owner[c]]] = owner[c]
    BY <2>1, <2>2 DEF RInv, RegistryServes, Registered, Serving
  <2>4. Succeeded(c)
    BY <2>2, <2>3 DEF Succeeded
  <2>5. \A d \in Conns : Succeeded(d)' <=> Succeeded(d)
    BY <2>1 DEF Succeeded
  <2> QED
    BY <2>1, <2>4, <2>5 DEF TInv, TypeOK, Serving
<1>7. ASSUME NEW c \in Conns, Unwind(c) PROVE PInv'
  <2>1. /\ pc[c] = "serving" /\ owner' = owner /\ done' = done \cup {c}
        /\ pc' = [pc EXCEPT ![c] = IF c \in done THEN "panicked" ELSE "deregister"]
    BY <1>7 DEF Unwind, Goto
  <2>2. \A d \in Conns : Succeeded(d)' <=> Succeeded(d)
    BY <2>1 DEF Succeeded
  <2> QED
    BY <2>1, <2>2 DEF TInv, TypeOK, Serving
<1>8. ASSUME NEW c \in Conns, Deregister(c) \/ CleanIndex(c) PROVE PInv'
  <2>1. /\ pc' = [pc EXCEPT ![c] = IF pc[c] = "clean" THEN "gone" ELSE "clean"]
        /\ pc[c] \in {"deregister", "clean"} /\ UNCHANGED <<owner, done>>
    BY <1>8 DEF Deregister, CleanIndex, Goto, registryVars
  <2>2. \A d \in Conns : Succeeded(d)' <=> Succeeded(d)
    BY <2>1 DEF Succeeded
  <2> QED
    BY <2>1, <2>2 DEF TInv, TypeOK, Serving
<1> QED
  BY <1>1, <1>2, <1>3, <1>4, <1>5, <1>6, <1>7, <1>8, NextCases, ServeFrame DEF Next

(* A relay to which every agent connects once never panics: whatever panics   *)
(* in handleWS belongs to an agent that has opened a second connection.       *)
THEOREM PanicsTakeReconnection == Spec => []PanicsSucceeded
<1>1. Spec => []TInv
  BY InitTInv, NextTInv, PTL DEF Spec
<1>2. PInv => PanicsSucceeded
  BY DEF PInv
<1> QED
  BY <1>1, <1>2, RInvariant, MInvariant, InitPInv, NextPInv, PTL DEF Spec

--------------------------------------------------------------------------------
(* What a step of one connection may do to the others and to the locks: it    *)
(* takes s.mu where the code does, and only the loop of relayToChannel hands  *)
(* messages to send goroutines.                                               *)

OnlyOwnHandler(c) ==
  \A d \in Conns \ {c} : pc'[d] = pc[d] /\ todo'[d] = todo[d]

TakesLocks(c) ==
  /\ agents' # agents => CanWriteRegistry
  /\ pc'[c] # pc[c] /\ pc[c] \in {"registering", "deregister"} => CanWriteRegistry
  /\ pc'[c] # pc[c] /\ pc[c] \in {"counting", "querying", "rlock"} => CanReadRegistry
  /\ pc[c] = "poisoned" => pc'[c] = "poisoned"
  /\ pc'[c] = "poisoned" /\ pc[c] # "poisoned" => CanWriteRegistry
  /\ pc'[c] = "relaying" /\ pc[c] # "relaying" => CanReadRegistry
  /\ pc'[c] = "adding" /\ pc[c] # "adding" => CanReadRegistry

GoesOnRelaying(c) ==
  pc[c] = "relaying" =>
    \/ pc'[c] = "relaying" /\ todo'[c] = todo[c]
    \/ todo[c] = {}
    \/ \E a \in todo[c] : Forward(c, a)

AddsSome(c) ==
  pc'[c] = "adding" => todo'[c] # {} \/ (pc[c] = "adding" /\ todo'[c] = todo[c])

EndsSends(d) ==
  \A m \in sending[d] \ sending'[d] : ~up[d] \/ wire'[d] = Append(wire[d], m)

StepFrame(c) ==
  /\ OnlyOwnHandler(c) /\ TakesLocks(c) /\ GoesOnRelaying(c) /\ AddsSome(c)
  /\ \A d \in Conns : EndsSends(d)
  /\ pc[c] = "relaying" \/ \A d \in Conns : sending'[d] \subseteq sending[d]
  /\ \A d \in Conns : sending'[d] = {} \/ sending'[d] = sending[d] \/ sending[d] = {}

(* The steps of every connection are such steps. *)
LEMMA StepFrames ==
  ASSUME TInv, OInv, NEW c \in Conns, Handler(c) \/ Sender(c) \/ Peer(c)
  PROVE  StepFrame(c)
<1> USE DEF TInv, TypeOK, StepFrame, OnlyOwnHandler, TakesLocks, GoesOnRelaying,
            AddsSome, EndsSends, Goto, registryVars, indexVars, relayVars
<1>1. ASSUME NEW a \in Agents, Handshake(c, a) PROVE StepFrame(c)
  BY <1>1 DEF Handshake
<1>2. ASSUME NEW a \in Agents, JoinMember(c, a) PROVE StepFrame(c)
  BY <1>2 DEF JoinMember
<1>3. CASE HandshakeFails(c) \/ RegisterPanics(c) \/ Count(c)
  BY <1>3 DEF HandshakeFails, RegisterPanics, Count
<1>4. CASE Register(c) \/ Deregister(c)
  BY <1>4 DEF Register, Deregister
<1>5. CASE LinkDown(c) \/ Unwind(c)
  BY <1>5 DEF LinkDown, Unwind
<1>6. CASE CleanIndex(c) \/ Query(c)
  BY <1>6 DEF CleanIndex, Query
<1>7. CASE Answer(c) \/ JoinRLock(c) \/ JoinDone(c)
  BY <1>7 DEF Answer, JoinRLock, JoinDone
<1>8. CASE ForgetChannel(c) \/ Snapshot(c)
  BY <1>8 DEF ForgetChannel, Snapshot
<1>9. CASE RLock(c) \/ RelayDone(c)
  BY <1>9 DEF RLock, RelayDone
<1>10. ASSUME NEW ch \in Channels, Read(c, ch) \/ ReadLeft(c, ch) PROVE StepFrame(c)
  BY <1>10 DEF Read, ReadLeft, Take
<1>11. ASSUME NEW ch \in Channels, NEW ms \in SUBSET Agents, ReadCreated(c, ch, ms)
       PROVE  StepFrame(c)
  BY <1>11 DEF ReadCreated, Take
<1>12. ASSUME NEW a \in Agents, Forward(c, a) PROVE StepFrame(c)
  <2>1. /\ pc[c] = "relaying" /\ a \in todo[c]
        /\ \A d \in Conns : sending'[d] = IF d = agents[a] THEN sending[d] \cup {msg[c]}
                                                           ELSE sending[d]
        /\ todo' = [todo EXCEPT ![c] = todo[c] \ {a}]
        /\ UNCHANGED <<pc, owner, up, agents, done, wire>>
    BY <1>12 DEF Forward
  <2>2. \A d \in Conns : d = agents[a] => sending[d] = {}
    BY <1>12, ConstantsAssumption DEF Forward, MuFree, Registered
  <2>3. \A d \in Conns : sending[d] \subseteq sending'[d]
    BY <2>1
  <2>4. \A d \in Conns : sending'[d] = {} \/ sending'[d] = sending[d] \/ sending[d] = {}
    BY <2>1, <2>2
  <2> HIDE DEF TInv, TypeOK
  <2>5. \A d \in Conns : EndsSends(d)
    BY <2>3
  <2>6. OnlyOwnHandler(c)
    BY <2>1 DEF TInv, TypeOK
  <2>7. TakesLocks(c) /\ GoesOnRelaying(c) /\ AddsSome(c)
    BY <1>12, <2>1
  <2> QED
    BY <2>1, <2>4, <2>5, <2>6, <2>7
<1>13. ASSUME NEW m \in sending[c], Write(c, m) \/ WriteFails(c, m) PROVE StepFrame(c)
  <2>1. /\ sending' = [sending EXCEPT ![c] = sending[c] \ {m}]
        /\ UNCHANGED <<pc, todo, agents>>
        /\ ~up[c] \/ wire'[c] = Append(wire[c], m)
    BY <1>13 DEF Write, WriteFails
  <2>2. sending'[c] = {} /\ \A n \in sending[c] : n = m
    BY <2>1 DEF OInv, OneSend
  <2>3. \A d \in Conns \ {c} : sending'[d] = sending[d]
    BY <2>1
  <2> HIDE DEF TInv, TypeOK
  <2>4. \A d \in Conns : EndsSends(d)
    BY <2>1, <2>2, <2>3
  <2> QED
    BY <2>1, <2>2, <2>3, <2>4
<1> QED
  BY <1>1, <1>2, <1>3, <1>4, <1>5, <1>6, <1>7, <1>8, <1>9, <1>10, <1>11, <1>12,
     <1>13, OrderCases
  DEF QuietStep

--------------------------------------------------------------------------------
(* A panic inside the section of Register leaves s.mu locked.  No handler     *)
(* holds it for reading then, as the section of Register excludes readers,    *)
(* and none ever will.  One that holds it to add a member has a member to add.*)

Poisoned == \E c \in Conns : pc[c] = "poisoned"

PoisonedUnread ==
  /\ Poisoned => \A c \in Conns : pc[c] \notin {"relaying", "adding"}
  /\ \A c \in Conns : pc[c] = "adding" => todo[c] # {}

(* Nobody has panicked at the start. *)
LEMMA InitPoisonedUnread == Init => PoisonedUnread
BY DEF Init, PoisonedUnread, Poisoned

(* Every step keeps the readers out. *)
LEMMA NextPoisonedUnread ==
  TInv /\ OInv /\ PoisonedUnread /\ [Next]_vars => PoisonedUnread'
<1> SUFFICES ASSUME TInv, OInv, PoisonedUnread, [Next]_vars PROVE PoisonedUnread'
  OBVIOUS
<1>1. CASE UNCHANGED vars
  BY <1>1 DEF vars, relayVars, PoisonedUnread, Poisoned
<1>2. ASSUME NEW c \in Conns, Handler(c) \/ Sender(c) \/ Peer(c) PROVE PoisonedUnread'
  BY <1>2, StepFrames
  DEF StepFrame, OnlyOwnHandler, TakesLocks, AddsSome, CanReadRegistry, CanWriteRegistry,
      PoisonedUnread, Poisoned
<1> QED
  BY <1>1, <1>2 DEF Next

(* PoisonedUnread is an invariant of the relay. *)
LEMMA Unread == Spec => []PoisonedUnread
<1>1. Spec => []TInv
  BY InitTInv, NextTInv, PTL DEF Spec
<1> QED
  BY <1>1, OInvariant, InitPoisonedUnread, NextPoisonedUnread, PTL DEF Spec

(* The places in handleWS that wait for s.mu, and the one that never frees it. *)
AtRegistry == {"registering", "deregister", "counting", "querying", "rlock", "poisoned"}

LockedOut ==
  Poisoned =>
    /\ Poisoned'
    /\ agents' = agents
    /\ \A c \in Conns : pc[c] \in AtRegistry => pc'[c] = pc[c]
    /\ \A d \in Conns : sending'[d] \subseteq sending[d]

(* The lockout is final, and it is the whole relay's: once a handler panicked *)
(* with s.mu locked, the registry never changes again, every handler that     *)
(* gets to s.mu stays there, and no message is forwarded any more.            *)
THEOREM LockoutIsFinal == Spec => [][LockedOut]_vars
<1>1. TInv /\ OInv /\ PoisonedUnread /\ [Next]_vars => [LockedOut]_vars
  <2> SUFFICES ASSUME TInv, OInv, PoisonedUnread, Poisoned,
                      NEW c \in Conns, Handler(c) \/ Sender(c) \/ Peer(c)
               PROVE  LockedOut
    BY DEF Next, LockedOut
  <2>1. StepFrame(c)
    BY StepFrames
  <2>2. ~CanReadRegistry /\ ~CanWriteRegistry
    BY DEF Poisoned, CanReadRegistry, CanWriteRegistry
  <2>3. pc[c] # "relaying"
    BY DEF PoisonedUnread
  <2>4. \A d \in Conns : pc[d] \in AtRegistry => pc'[d] = pc[d]
    BY <2>1, <2>2 DEF StepFrame, OnlyOwnHandler, TakesLocks, AtRegistry
  <2>5. Poisoned'
    BY <2>4 DEF Poisoned, AtRegistry
  <2> QED
    BY <2>1, <2>2, <2>3, <2>4, <2>5 DEF StepFrame, TakesLocks, LockedOut
<1>2. Spec => []TInv
  BY InitTInv, NextTInv, PTL DEF Spec
<1> QED
  BY <1>1, <1>2, OInvariant, Unread, PTL DEF Spec

--------------------------------------------------------------------------------
(* A recipient that does not read.  Its send goroutine does not end, and the  *)
(* next handler with a message for it waits in relayToChannel with s.mu held  *)
(* for reading.                                                               *)

WaitsFor(c, a) ==
  pc[c] = "relaying" /\ a \in todo[c] /\ Registered(a) /\ ~MuFree(agents[a])

StaysLocked ==
  \A c \in Conns : \A a \in todo[c] :
    WaitsFor(c, a) /\ sending'[agents[a]] # {} =>
      /\ WaitsFor(c, a)'
      /\ agents' = agents
      /\ \A d \in Conns : pc[d] \in {"registering", "deregister"} => pc'[d] = pc[d]

(* As long as that one send does not end, no agent registers and none is      *)
(* taken off the registry, whoever they are: one peer that stops reading      *)
(* stops everyone's connecting and disconnecting.                             *)
THEOREM SlowReaderLocksOut == Spec => [][StaysLocked]_vars
<1>1. TInv /\ OInv /\ [Next]_vars => [StaysLocked]_vars
  <2> SUFFICES ASSUME TInv, OInv,
                      NEW e \in Conns, Handler(e) \/ Sender(e) \/ Peer(e),
                      NEW c \in Conns, NEW a \in todo[c],
                      WaitsFor(c, a), sending'[agents[a]] # {}
               PROVE  /\ WaitsFor(c, a)'
                      /\ agents' = agents
                      /\ \A d \in Conns : pc[d] \in {"registering", "deregister"}
                                            => pc'[d] = pc[d]
    BY DEF Next, StaysLocked
  <2>1. StepFrame(e)
    BY StepFrames
  <2>2. pc[c] = "relaying" /\ ~CanWriteRegistry
    BY DEF WaitsFor, CanWriteRegistry
  <2>3. agents' = agents
    BY <2>1, <2>2 DEF StepFrame, TakesLocks
  <2>4. \A d \in Conns : pc[d] \in {"registering", "deregister"} => pc'[d] = pc[d]
    BY <2>1, <2>2 DEF StepFrame, OnlyOwnHandler, TakesLocks
  <2>5. pc'[c] = "relaying" /\ a \in todo'[c]
    <3>1. CASE e # c
      BY <3>1, <2>1, <2>2 DEF StepFrame, OnlyOwnHandler
    <3>2. CASE e = c
      <4>1. ASSUME NEW b \in todo[c], Forward(c, b)
            PROVE  pc'[c] = "relaying" /\ a \in todo'[c]
        <5>1. a # b
          BY <4>1 DEF Forward, WaitsFor
        <5> QED
          BY <4>1, <5>1, <2>2 DEF Forward, TInv, TypeOK
      <4> QED
        BY <3>2, <4>1, <2>1, <2>2 DEF StepFrame, GoesOnRelaying
    <3> QED
      BY <3>1, <3>2
  <2>6. WaitsFor(c, a)'
    BY <2>3, <2>5 DEF WaitsFor, Registered, MuFree
  <2> QED
    BY <2>3, <2>4, <2>6
<1>2. Spec => []TInv
  BY InitTInv, NextTInv, PTL DEF Spec
<1> QED
  BY <1>1, <1>2, OInvariant, PTL DEF Spec

--------------------------------------------------------------------------------
(* The safety half of TargetReached.                                          *)

Visited(c, a) == agents[a] = None \/ msg[c] \in sending'[agents[a]]

NoLoss ==
  /\ \A c \in Conns : \A a \in todo[c] :
       pc[c] = "relaying" /\ ~(pc'[c] = "relaying" /\ a \in todo'[c]) => Visited(c, a)
  /\ \A d \in Conns : EndsSends(d)

(* The relay drops no message on its own account.  A target leaves the list   *)
(* of relayToChannel only when it is not registered, or when the message has  *)
(* gone to its send goroutine; and a send goroutine ends only with the        *)
(* message written, or because the peer's link is down.                       *)
THEOREM NothingDropped == Spec => [][NoLoss]_vars
<1>1. TInv /\ OInv /\ [Next]_vars => [NoLoss]_vars
  <2> SUFFICES ASSUME TInv, OInv,
                      NEW e \in Conns, Handler(e) \/ Sender(e) \/ Peer(e)
               PROVE  NoLoss
    BY DEF Next
  <2>1. StepFrame(e)
    BY StepFrames
  <2>2. ASSUME NEW c \in Conns, NEW a \in todo[c], pc[c] = "relaying",
               ~(pc'[c] = "relaying" /\ a \in todo'[c])
        PROVE  Visited(c, a)
    <3>1. e = c
      BY <2>1, <2>2 DEF StepFrame, OnlyOwnHandler
    <3>2. PICK b \in todo[c] : Forward(c, b)
      BY <2>1, <2>2, <3>1 DEF StepFrame, GoesOnRelaying
    <3>3. b = a
      BY <3>2, <2>2 DEF Forward, TInv, TypeOK
    <3>4. agents[a] \in Conns \cup {None}
      BY <2>2 DEF TInv, TypeOK
    <3> QED
      BY <3>2, <3>3, <3>4 DEF Forward, Visited
  <2> QED
    BY <2>1, <2>2 DEF NoLoss, StepFrame
<1>2. Spec => []TInv
  BY InitTInv, NextTInv, PTL DEF Spec
<1> QED
  BY <1>1, <1>2, OInvariant, PTL DEF Spec

--------------------------------------------------------------------------------
(* The safety half of HandlerReturns: the order in which the locks are taken. *)

Midway(c) ==
  pc[c] \in Working \cup {"registering", "counting", "querying", "deregister", "clean"}

SomeTargetFree(c) == \E a \in todo[c] : Registered(a) => MuFree(agents[a])

(* What a handler that is midway waits for: the guards of its next step. *)
CanGoOn(c) ==
  \/ pc[c] \in {"registering", "deregister"} /\ CanWriteRegistry
  \/ pc[c] \in {"counting", "querying", "rlock"} /\ CanReadRegistry
  \/ pc[c] \in {"clean", "snapshot"} /\ IndexFree
  \/ pc[c] = "leaving" /\ MuFree(c)
  \/ pc[c] = "joining" /\ (todo[c] = {} \/ CanReadRegistry)
  \/ pc[c] = "adding" /\ SomeTargetFree(c)
  \/ pc[c] = "relaying" /\ (todo[c] = {} \/ SomeTargetFree(c))

NoCircle ==
  ~Poisoned /\ (\E c \in Conns : Midway(c)) =>
    \/ \E c \in Conns : Midway(c) /\ CanGoOn(c)
    \/ \E d \in Conns : sending[d] # {}

(* Handlers do not wait for each other in a circle, in whatever order they    *)
(* take channelIndexMu, s.mu and the ac.mu of their targets: while no handler *)
(* panicked with s.mu locked, one of those midway can go on, or else a send   *)
(* goroutine is under way, and they wait for nothing but its peer.            *)
THEOREM NobodyWaitsInACircle == Spec => []NoCircle
<1>1. TypeOK /\ PoisonedUnread => NoCircle
  <2> SUFFICES ASSUME TypeOK, PoisonedUnread, ~Poisoned, NEW c \in Conns, Midway(c),
                      \A d \in Conns : sending[d] = {}
               PROVE  \E d \in Conns : Midway(d) /\ CanGoOn(d)
    BY DEF NoCircle
  <2>1. CanReadRegistry
    BY DEF Poisoned, CanReadRegistry
  <2>2. \A d \in Conns : MuFree(d)
    BY DEF MuFree
  <2>3. \A d \in Conns : todo[d] # {} => SomeTargetFree(d)
    BY <2>2 DEF TypeOK, SomeTargetFree, Registered
  <2>4. ASSUME NEW d \in Conns, pc[d] \in {"relaying", "joining", "adding"}
        PROVE  Midway(d) /\ CanGoOn(d)
    BY <2>1, <2>3, <2>4 DEF Midway, CanGoOn, Working, PoisonedUnread
  <2>5. CASE \A d \in Conns : pc[d] \notin {"relaying", "joining", "adding"}
    <3>1. CanWriteRegistry /\ IndexFree
      BY <2>5 DEF Poisoned, CanWriteRegistry, IndexFree
    <3> QED
      BY <2>1, <2>2, <2>5, <3>1 DEF Midway, CanGoOn, Working
  <2> QED
    BY <2>4, <2>5
<1> QED
  BY <1>1, TypeCorrect, Unread, PTL

================================================================================
