------------------------------ MODULE AgentProofs ------------------------------
(******************************************************************************)
(* Proofs about Agent: its types, the fate of the connections it dials, that  *)
(* an agent that has met no relay does not panic, who is told what, and what  *)
(* becomes of entries of its table that are of no use any more.               *)
(******************************************************************************)
EXTENDS Agent, TLAPS

--------------------------------------------------------------------------------
(* Types                                                                      *)

LEMMA TypeInit == Init => TypeOK
BY ConstantsAssumption DEF Init, TypeOK, Idle, idle

(* An entry that is neither missing nor nil is a connection. *)
LEMMA EntryIsLink ==
  ASSUME TypeOK, NEW p \in Peers, conns[p] # None, ~NilConn(p)
  PROVE  conns[p] \in Links
BY DEF TypeOK, NilConn

LEMMA BroadcastTyped ==
  ASSUME NEW ch \in Channels, NEW ps \in SUBSET Peers, Broadcast(ch, ps)
  PROVE  call' \in Sending
BY DEF Broadcast, Sending

LEMMA ToRelayTyped ==
  ASSUME NEW kind \in {"text", "file"}, ToRelay(kind)
  PROVE  call' \in Sending
BY DEF ToRelay, Sending

(* What a channel has left when the agent goes is a channel, or nothing. *)
LEMMA LeaveTyped ==
  ASSUME TypeOK, NEW ch \in Channels, channel[ch] # None, Leave(ch)
  PROVE  channel' \in [Channels -> Channel \cup {None}]
<1> DEFINE stay == channel[ch].members \ {Self}
<1>1. channel[ch] \in Channel
  BY DEF TypeOK
<1>2. CASE stay = {}
  BY <1>2 DEF Leave, TypeOK
<1>3. CASE stay # {}
  <2>1. PICK h \in stay \cup {channel[ch].host} :
               channel' = [channel EXCEPT ![ch].members = stay, ![ch].host = h]
    BY <1>3 DEF Leave
  <2>2. stay \in (SUBSET (Peers \cup {Self})) \ {{}} /\ h \in Peers \cup {Self}
    BY <1>1, <1>3, <2>1 DEF Channel
  <2>3. [channel[ch] EXCEPT !.members = stay, !.host = h] \in Channel
    BY <1>1, <2>2 DEF Channel
  <2> QED
    BY <2>1, <2>3 DEF TypeOK
<1> QED
  BY <1>2, <1>3

LEMMA ToolType == TypeOK /\ Tool => TypeOK'
<1> SUFFICES ASSUME TypeOK, Tool PROVE TypeOK'
  OBVIOUS
<1> USE DEF TypeOK
<1>a. idle \in Idle
  BY DEF idle, Idle
<1>1. ASSUME NEW p \in Peers, OpenLAN(p) PROVE TypeOK'
  <2>1. call' \in Dialling
    BY <1>1 DEF OpenLAN, Dialling
  <2> QED
    BY <1>1, <2>1 DEF OpenLAN
<1>2. ASSUME NEW p \in Peers, OpenRelayed(p) PROVE TypeOK'
  BY <1>2 DEF OpenRelayed
<1>3. ASSUME NEW p \in Peers, CloseConnection(p) PROVE TypeOK'
  <2>1. CASE NilConn(p)
    BY <1>3, <2>1 DEF CloseConnection, Panic
  <2>2. CASE ~NilConn(p)
    <3>1. conns[p] \in Links
      BY <1>3, <2>2, EntryIsLink DEF CloseConnection
    <3> QED
      BY <1>3, <2>2, <3>1 DEF CloseConnection
  <2> QED
    BY <2>1, <2>2
<1>4. ASSUME NEW p \in Peers, BroadcastTo(p) PROVE TypeOK'
  <2>1. call \in [at : {"broadcast"}, ch : Channels, rest : SUBSET Peers]
    BY <1>4 DEF BroadcastTo, Idle, Dialling, Sending
  <2>2. [call EXCEPT !.rest = @ \ {p}]
           \in [at : {"broadcast"}, ch : Channels, rest : SUBSET Peers]
    BY <2>1
  <2>3. call' \in Sending
    BY <1>4, <2>2 DEF BroadcastTo, Sending
  <2>4. carried' \in [Links -> SUBSET Channels]
    BY <1>4, <2>1, EntryIsLink DEF BroadcastTo
  <2>5. phase' \in {"running", "leaving", "ended", "crashed"}
    BY <1>4 DEF BroadcastTo, Panic
  <2> QED
    BY <1>4, <2>3, <2>4, <2>5 DEF BroadcastTo
<1>5. ASSUME NEW l \in Links, OpenConn(l) PROVE TypeOK'
  <2>1. call.peer \in Peers
    BY <1>5 DEF OpenConn, Idle, Dialling, Sending
  <2>2. [to |-> call.peer, alive |-> TRUE] \in Link
    BY <2>1 DEF Link
  <2>3. call' \in Dialling
    BY <1>5 DEF OpenConn, Dialling
  <2> QED
    BY <1>5, <2>2, <2>3 DEF OpenConn
<1>6. CASE OpenConnFails
  BY <1>a, <1>6 DEF OpenConnFails
<1>7. CASE StoreConn
  <2>1. call.link \in Links
    BY <1>7 DEF StoreConn, Idle, Dialling, Sending
  <2> QED
    BY <1>a, <1>7, <2>1 DEF StoreConn
<1>8. CASE BroadcastDone
  BY <1>a, <1>8 DEF BroadcastDone
<1>9. CASE RelaySend
  BY <1>a, <1>9 DEF RelaySend, Panic
<1>10. ASSUME NEW ch \in Channels, LeaveChannel(ch) PROVE TypeOK'
  <2>1. channel' \in [Channels -> Channel \cup {None}]
    BY <1>10, LeaveTyped DEF LeaveChannel
  <2>2. Others(ch) \subseteq Peers
    BY <1>10 DEF LeaveChannel, Others, Channel
  <2>3. call' \in Idle \cup Dialling \cup Sending
    BY <1>10, <2>2, BroadcastTyped, ToRelayTyped DEF LeaveChannel
  <2> QED
    BY <1>10, <2>1, <2>3 DEF LeaveChannel
<1>11. ASSUME NEW ch \in Channels, SendMessage(ch) PROVE TypeOK'
  <2>1. Others(ch) \subseteq Peers
    BY <1>11 DEF SendMessage, Others, Channel
  <2>2. call' \in Sending
    BY <1>11, <2>1, BroadcastTyped, ToRelayTyped DEF SendMessage
  <2> QED
    BY <1>11, <2>2 DEF SendMessage
<1>12. ASSUME NEW ch \in Channels, NEW ps \in SUBSET Peers, CreateChannel(ch, ps)
       PROVE  TypeOK'
  <2>1. [members |-> ps \cup {Self}, host |-> Self,
         mode |-> IF NoRelay THEN "p2p" ELSE "relay"] \in Channel
    <3>1. ps \cup {Self} \in (SUBSET (Peers \cup {Self})) \ {{}}
      OBVIOUS
    <3> QED
      BY <3>1 DEF Channel
  <2>2. call' \in Sending
    BY <1>12, BroadcastTyped, ToRelayTyped DEF CreateChannel
  <2> QED
    BY <1>12, <2>1, <2>2 DEF CreateChannel
<1>13. ASSUME NEW ch \in Channels, NEW ps \in SUBSET Peers, ShareFile(ch, ps)
       PROVE  TypeOK'
  BY <1>13, ToRelayTyped DEF ShareFile
<1>14. ASSUME NEW ps \in SUBSET Peers, SyncFolder(ps) PROVE TypeOK'
  BY <1>14 DEF SyncFolder
<1> QED
  BY <1>1, <1>2, <1>3, <1>4, <1>5, <1>6, <1>7, <1>8, <1>9, <1>10, <1>11, <1>12,
     <1>13, <1>14 DEF Tool

LEMMA TypeStep == TypeOK /\ [Next]_vars => TypeOK'
<1> SUFFICES ASSUME TypeOK, [Next]_vars PROVE TypeOK'
  OBVIOUS
<1>1. CASE Tool
  BY <1>1, ToolType
<1>2. CASE FileService
  BY <1>2 DEF FileService, SendChunk, TransferEnds, Panic, TypeOK
<1>3. CASE FoundRelay \/ Connected
  BY <1>3 DEF FoundRelay, Connected, TypeOK
<1>4. ASSUME NEW l \in Links, LinkDown(l) PROVE TypeOK'
  <2>1. [link[l] EXCEPT !.alive = FALSE] \in Link
    BY <1>4 DEF LinkDown, TypeOK, Link
  <2> QED
    BY <1>4, <2>1 DEF LinkDown, TypeOK
<1>5. CASE GoodbyeConnected \/ Shutdown
  BY <1>5 DEF GoodbyeConnected, Shutdown, TypeOK
<1>6. CASE UNCHANGED vars
  BY <1>6 DEF vars, TypeOK
<1> QED
  BY <1>1, <1>2, <1>3, <1>4, <1>5, <1>6 DEF Next

(* The table, the channels and the call keep their types, for any peers. *)
THEOREM TypeCorrect == Spec => []TypeOK
BY TypeInit, TypeStep, PTL DEF Spec

--------------------------------------------------------------------------------
(* The inductive invariant.                                                   *)
(* An entry of the table is a connection that is open, to the peer it is      *)
(* entered for; the peer that a call dials has none; what was closed has      *)
(* carried nothing since it may be dialled anew.                              *)
Owned ==
  \A p \in Peers : conns[p] \in Links =>
    link[conns[p]] # None /\ link[conns[p]].to = p

Pending ==
  /\ call.at = "dial" => conns[call.peer] = None
  /\ call.at = "store" =>
       link[call.link] # None /\ conns[link[call.link].to] = None

Unused == \A l \in Links : link[l] = None => carried[l] = {}

(* Whom a broadcast still has to tell is in its channel. *)
Addressed ==
  call.at = "broadcast" =>
    \A p \in call.rest : channel[call.ch] # None /\ p \in channel[call.ch].members

(* An agent that has found no relay has made no use of one. *)
NoRelayYet ==
  relay = "nil" =>
    /\ \A p \in Peers : ~NilConn(p)
    /\ \A ch \in Channels : channel[ch] # None => channel[ch].mode = "p2p"
    /\ call.at \notin {"text", "file"}

AInv ==
  /\ TypeOK
  /\ Owned /\ Pending /\ Unused /\ Addressed /\ NoRelayYet
  /\ LinksAccounted /\ SurvivesOnLAN /\ ToMembersOnly /\ HostIsMember

LEMMA InitInv == Init => AInv
BY TypeInit, ConstantsAssumption
   DEF Init, idle, AInv, Owned, Pending, Unused, Addressed, NoRelayYet, NilConn,
       LinksAccounted, SurvivesOnLAN, ToMembersOnly, HostIsMember

LEMMA CallForms ==
  ASSUME TypeOK
  PROVE  /\ call.at = "dial" => call.peer \in Peers
         /\ call.at = "store" => call.link \in Links
         /\ call.at = "broadcast" => call.ch \in Channels /\ call.rest \subseteq Peers
BY DEF TypeOK, Idle, Dialling, Sending

(* Leave takes the agent out of the channel, which ends when it was the last, *)
(* and has one of the others as its host if it goes on.                       *)
LEMMA LeaveEffect ==
  ASSUME TypeOK, HostIsMember, NEW ch \in Channels, channel[ch] # None, Leave(ch)
  PROVE  /\ \A c \in Channels \ {ch} : channel'[c] = channel[c]
         /\ IF Others(ch) = {} THEN channel'[ch] = None
            ELSE /\ channel'[ch] # None
                 /\ channel'[ch].members = Others(ch)
                 /\ channel'[ch].host \in Others(ch)
                 /\ channel'[ch].mode = channel[ch].mode
<1>1. channel[ch] \in Channel
  BY DEF TypeOK
<1>2. CASE Others(ch) = {}
  BY <1>2 DEF Leave, Others, TypeOK
<1>3. CASE Others(ch) # {}
  <2>1. PICK h \in Others(ch) :
               channel' = [channel EXCEPT ![ch].members = Others(ch), ![ch].host = h]
    <3>1. \E h \in IF channel[ch].host = Self THEN Others(ch) ELSE {channel[ch].host} :
            channel' = [channel EXCEPT ![ch].members = Others(ch), ![ch].host = h]
      BY <1>3 DEF Leave, Others
    <3>2. channel[ch].host # Self => channel[ch].host \in Others(ch)
      BY DEF HostIsMember, Others
    <3> QED
      BY <3>1, <3>2
  <2>2. channel'[ch] = [channel[ch] EXCEPT !.members = Others(ch), !.host = h]
    BY <2>1 DEF TypeOK
  <2>3. Others(ch) \in (SUBSET (Peers \cup {Self})) \ {{}}
    BY <1>1, <1>3 DEF Others, Channel
  <2>4. channel'[ch] \in Channel
    BY <1>1, <2>1, <2>2, <2>3 DEF Channel
  <2>5. channel'[ch] # None
    BY <2>4, NoneAssumption
  <2> QED
    BY <1>1, <1>3, <2>1, <2>2, <2>5 DEF TypeOK, Channel
<1> QED
  BY <1>2, <1>3

LEMMA ToolInv == AInv /\ Tool => AInv'
<1> SUFFICES ASSUME AInv, Tool PROVE AInv'
  OBVIOUS
<1>t. TypeOK /\ TypeOK'
  BY ToolType DEF AInv
<1> USE <1>t, ConstantsAssumption, CallForms, EntryIsLink
    DEF AInv, Owned, Pending, Unused, Addressed, NoRelayYet, LinksAccounted,
        SurvivesOnLAN, ToMembersOnly, HostIsMember, NilConn
<1>1. ASSUME NEW p \in Peers, OpenLAN(p) PROVE AInv'
  BY <1>1 DEF OpenLAN, NotConnected, Ready, idle
<1>2. ASSUME NEW p \in Peers, OpenRelayed(p) PROVE AInv'
  BY <1>2 DEF OpenRelayed, NotConnected, Ready, idle, TypeOK
<1>3. ASSUME NEW p \in Peers, CloseConnection(p) PROVE AInv'
  BY <1>3 DEF CloseConnection, Panic, Ready, idle, TypeOK
<1>4. ASSUME NEW p \in Peers, BroadcastTo(p) PROVE AInv'
  BY <1>4 DEF BroadcastTo, Panic, TypeOK
<1>5. ASSUME NEW l \in Links, OpenConn(l) PROVE AInv'
  <2>1. call.peer \in Peers /\ conns[call.peer] = None /\ call.at = "dial" /\ link[l] = None
    BY <1>5 DEF OpenConn
  <2>2. link'[l] = [to |-> call.peer, alive |-> TRUE] /\ link'[l] # None
    <3>1. [to |-> call.peer, alive |-> TRUE] \in Link
      BY <2>1 DEF Link
    <3> QED
      BY <1>5, <3>1, NoneAssumption DEF OpenConn, TypeOK
  <2>3. \A k \in Links \ {l} : link'[k] = link[k]
    BY <1>5 DEF OpenConn, TypeOK
  <2>4. \A p \in Peers : conns[p] # l
    BY <2>1
  <2>5. Owned'
    BY <1>5, <2>3, <2>4 DEF OpenConn
  <2>6. Pending' /\ Addressed' /\ NoRelayYet' /\ SurvivesOnLAN'
    BY <1>5, <2>1, <2>2 DEF OpenConn
  <2>7. Unused'
    BY <1>5, <2>2, <2>3 DEF OpenConn
  <2>8. LinksAccounted'
    BY <1>5, <2>1, <2>2, <2>3 DEF OpenConn
  <2>9. ToMembersOnly' /\ HostIsMember'
    BY <1>5, <2>1, <2>2, <2>3 DEF OpenConn
  <2> QED
    BY <2>5, <2>6, <2>7, <2>8, <2>9
<1>6. CASE OpenConnFails
  BY <1>6 DEF OpenConnFails, idle
<1>7. CASE StoreConn
  BY <1>7 DEF StoreConn, idle, TypeOK
<1>8. CASE BroadcastDone
  BY <1>8 DEF BroadcastDone, idle
<1>9. CASE RelaySend
  BY <1>9 DEF RelaySend, Panic, idle
<1>10. ASSUME NEW ch \in Channels, LeaveChannel(ch) PROVE AInv'
  <2> DEFINE c == channel'[ch]
  <2>1. /\ channel[ch] # None /\ call = idle
        /\ UNCHANGED <<conns, link, relay, transfers, phase, carried>>
    BY <1>10 DEF LeaveChannel, Ready
  <2>2. /\ \A k \in Channels \ {ch} : channel'[k] = channel[k]
        /\ Others(ch) = {} => c = None
        /\ Others(ch) # {} =>
             c # None /\ c.members = Others(ch) /\ c.host \in Others(ch)
               /\ c.mode = channel[ch].mode
    BY <1>10, <2>1, LeaveEffect DEF LeaveChannel
  <2>3. \/ call' = [at |-> "broadcast", ch |-> ch, rest |-> Others(ch)]
        \/ call' = call
        \/ ~NoRelay /\ call' = [at |-> "text"]
    BY <1>10 DEF LeaveChannel, Broadcast, ToRelay
  <2>4. Owned' /\ Unused' /\ SurvivesOnLAN'
    BY <2>1
  <2>5. Pending' /\ LinksAccounted'
    <3>1. call'.at \notin {"dial", "store"}
      BY <2>1, <2>3 DEF idle
    <3>2. \A l \in Links : call # [at |-> "store", link |-> l]
      BY <2>1 DEF idle
    <3> QED
      BY <2>1, <3>1, <3>2
  <2>6. Addressed'
    BY <2>1, <2>2, <2>3 DEF idle
  <2>7. NoRelayYet'
    BY <2>1, <2>2, <2>3 DEF NoRelay
  <2>8. ToMembersOnly'
    <3>1. ASSUME NEW l \in Links, ch \in carried[l]
          PROVE  link[l].to \in Others(ch)
      <4>1. link[l] \in Link
        BY <3>1 DEF TypeOK
      <4>2. link[l].to \in Peers /\ link[l].to # Self
        BY <4>1 DEF Link
      <4> QED
        BY <3>1, <4>2 DEF Others
    <3> QED
      BY <2>1, <2>2, <3>1 DEF TypeOK
  <2>9. HostIsMember'
    BY <2>2
  <2> QED
    BY <2>4, <2>5, <2>6, <2>7, <2>8, <2>9
<1>11. ASSUME NEW ch \in Channels, SendMessage(ch) PROVE AInv'
  <2>1. /\ channel[ch] # None /\ call = idle
        /\ UNCHANGED <<conns, link, relay, channel, transfers, phase, carried>>
    BY <1>11 DEF SendMessage, Ready
  <2>2. \/ call' = [at |-> "broadcast", ch |-> ch, rest |-> Others(ch)]
        \/ ~NoRelay /\ call' = [at |-> "text"]
    BY <1>11 DEF SendMessage, Broadcast, ToRelay
  <2>3. Owned' /\ Unused' /\ SurvivesOnLAN' /\ ToMembersOnly' /\ HostIsMember'
    BY <2>1
  <2>4. Pending' /\ LinksAccounted'
    <3>1. call'.at \notin {"dial", "store"}
      BY <2>1, <2>2 DEF idle
    <3>2. \A l \in Links : call # [at |-> "store", link |-> l]
      BY <2>1 DEF idle
    <3> QED
      BY <2>1, <3>1, <3>2
  <2>5. Addressed'
    BY <2>1, <2>2 DEF Others
  <2>6. NoRelayYet'
    BY <2>1, <2>2 DEF NoRelay
  <2> QED
    BY <2>3, <2>4, <2>5, <2>6
<1>12. ASSUME NEW ch \in Channels, NEW ps \in SUBSET Peers, CreateChannel(ch, ps)
       PROVE  AInv'
  <2> DEFINE new == [members |-> ps \cup {Self}, host |-> Self,
                     mode |-> IF NoRelay THEN "p2p" ELSE "relay"]
  <2>1. /\ channel[ch] = None /\ call = idle
        /\ UNCHANGED <<conns, link, relay, transfers, phase, carried>>
    BY <1>12 DEF CreateChannel, Ready
  <2>2. /\ channel'[ch] = new /\ new # None
        /\ \A k \in Channels \ {ch} : channel'[k] = channel[k]
    <3>1. ps \cup {Self} \in (SUBSET (Peers \cup {Self})) \ {{}}
      OBVIOUS
    <3>2. new \in Channel
      BY <3>1 DEF Channel
    <3> QED
      BY <1>12, <3>2, NoneAssumption DEF CreateChannel, TypeOK
  <2>3. \/ call' = [at |-> "broadcast", ch |-> ch, rest |-> ps]
        \/ ~NoRelay /\ call' = [at |-> "text"]
    BY <1>12 DEF CreateChannel, Broadcast, ToRelay
  <2>4. Owned' /\ Unused' /\ SurvivesOnLAN'
    BY <2>1
  <2>5. Pending' /\ LinksAccounted'
    <3>1. call'.at \notin {"dial", "store"}
      BY <2>1, <2>3 DEF idle
    <3>2. \A l \in Links : call # [at |-> "store", link |-> l]
      BY <2>1 DEF idle
    <3> QED
      BY <2>1, <3>1, <3>2
  <2>6. Addressed'
    BY <2>2, <2>3
  <2>7. NoRelayYet'
    BY <2>1, <2>2, <2>3 DEF NoRelay
  <2>8. ToMembersOnly' /\ HostIsMember'
    BY <2>1, <2>2 DEF TypeOK
  <2> QED
    BY <2>4, <2>5, <2>6, <2>7, <2>8
<1>13. ASSUME NEW ch \in Channels, NEW ps \in SUBSET Peers, ShareFile(ch, ps)
       PROVE  AInv'
  <2>1. /\ call = idle
        /\ call' = call \/ (~NoRelay /\ call' = [at |-> "file"])
        /\ UNCHANGED <<conns, link, relay, channel, phase, carried>>
    BY <1>13 DEF ShareFile, Ready, ToRelay
  <2>2. Owned' /\ Unused' /\ SurvivesOnLAN' /\ ToMembersOnly' /\ HostIsMember'
    BY <2>1
  <2>3. Pending' /\ LinksAccounted' /\ Addressed'
    <3>1. call'.at \notin {"dial", "store", "broadcast"}
      BY <2>1 DEF idle
    <3>2. \A l \in Links : call # [at |-> "store", link |-> l]
      BY <2>1 DEF idle
    <3> QED
      BY <2>1, <3>1, <3>2
  <2>4. NoRelayYet'
    BY <2>1 DEF NoRelay
  <2> QED
    BY <2>2, <2>3, <2>4
<1>14. ASSUME NEW ps \in SUBSET Peers, SyncFolder(ps) PROVE AInv'
  BY <1>14 DEF SyncFolder
<1> QED
  BY <1>1, <1>2, <1>3, <1>4, <1>5, <1>6, <1>7, <1>8, <1>9, <1>10, <1>11, <1>12,
     <1>13, <1>14 DEF Tool

LEMMA StepInv == AInv /\ [Next]_vars => AInv'
<1> SUFFICES ASSUME AInv, [Next]_vars PROVE AInv'
  OBVIOUS
<1>t. TypeOK /\ TypeOK'
  BY TypeStep DEF AInv
<1> USE <1>t, ConstantsAssumption, CallForms
    DEF AInv, Owned, Pending, Unused, Addressed, NoRelayYet, LinksAccounted,
        SurvivesOnLAN, ToMembersOnly, HostIsMember, NilConn
<1>1. CASE Tool
  BY <1>1, ToolInv
<1>2. CASE FileService
  BY <1>2 DEF FileService, SendChunk, TransferEnds, Panic
<1>3. CASE FoundRelay \/ Connected
  BY <1>3 DEF FoundRelay, Connected
<1>4. ASSUME NEW l \in Links, LinkDown(l) PROVE AInv'
  <2>1. /\ \A k \in Links : link'[k] = None <=> link[k] = None
        /\ \A k \in Links : link[k] # None => link'[k].to = link[k].to
    <3>1. link[l] \in Link
      BY <1>4 DEF LinkDown, TypeOK
    <3>2. [link[l] EXCEPT !.alive = FALSE] \in Link
      BY <3>1 DEF Link
    <3> QED
      BY <1>4, <3>1, <3>2, NoneAssumption DEF LinkDown, TypeOK, Link
  <2>2. UNCHANGED <<conns, relay, channel, call, transfers, phase, carried>>
    BY <1>4 DEF LinkDown
  <2>3. Owned' /\ Unused'
    BY <2>1, <2>2
  <2>4. Pending' /\ LinksAccounted'
    BY <2>1, <2>2 DEF TypeOK
  <2>5. Addressed' /\ NoRelayYet' /\ SurvivesOnLAN' /\ HostIsMember'
    BY <2>2
  <2>6. ToMembersOnly'
    <3>1. \A k \in Links : carried[k] # {} => link[k] # None
      OBVIOUS
    <3> QED
      BY <2>1, <2>2, <3>1
  <2> QED
    BY <2>3, <2>4, <2>5, <2>6
<1>5. CASE Shutdown
  BY <1>5 DEF Shutdown
<1>6. CASE GoodbyeConnected
  <2>1. /\ \A p \in Peers : conns'[p] = None
        /\ phase' = "leaving"
        /\ UNCHANGED <<link, relay, channel, call, transfers, carried>>
    BY <1>6 DEF GoodbyeConnected
  <2>2. Owned' /\ Unused' /\ Addressed' /\ NoRelayYet' /\ HostIsMember'
    BY <2>1
  <2>3. Pending'
    <3>1. call.at = "store" => link[call.link] \in Link
      BY DEF TypeOK
    <3> QED
      BY <2>1, <3>1 DEF Link
  <2>4. LinksAccounted' /\ SurvivesOnLAN' /\ ToMembersOnly'
    BY <2>1
  <2> QED
    BY <2>2, <2>3, <2>4
<1>7. CASE UNCHANGED vars
  BY <1>7 DEF vars
<1> QED
  BY <1>1, <1>2, <1>3, <1>4, <1>5, <1>6, <1>7 DEF Next

LEMMA Invariance == Spec => []AInv
BY InitInv, StepInv, PTL DEF Spec

(* Until the shutdown, every connection that was dialled and not closed is    *)
(* found in the table under its peer, or about to be entered (OpenConnection, *)
(* CloseConnection).                                                          *)
THEOREM NoConnectionIsLost == Spec => []LinksAccounted
BY Invariance, PTL DEF AInv

(* An agent that has met no relay never dereferences a nil connection.        *)
THEOREM NoPanicOnLAN == Spec => []SurvivesOnLAN
BY Invariance, PTL DEF AInv

(* Messages of a channel reach connections of members of that channel only    *)
(* (broadcastToMembers).                                                      *)
THEOREM OnlyMembersAreTold == Spec => []ToMembersOnly
BY Invariance, PTL DEF AInv

(* A channel that goes on has a host among its members (Manager.Leave).       *)
THEOREM HostStaysMember == Spec => []HostIsMember
BY Invariance, PTL DEF AInv

--------------------------------------------------------------------------------
(* Entries of the table that are of no use.                                   *)

DeadStays ==
  \A p \in Peers : conns[p] \in Links /\ ~link[conns[p]].alive =>
    \/ conns'[p] = None
    \/ /\ conns'[p] = conns[p]
       /\ link'[conns[p]] = link[conns[p]] /\ carried'[conns[p]] = carried[conns[p]]

NilIsFatal ==
  \A p \in Peers : NilConn(p) =>
    \/ conns'[p] = Forwarded
    \/ phase' = "crashed"
    \/ phase = "running" /\ phase' = "leaving"

(* Only StoreConn makes an entry that is a connection, where there was none.  *)
LEMMA EntriesStay ==
  ASSUME AInv, [Next]_vars, NEW p \in Peers, conns[p] # None
  PROVE  \/ conns'[p] = conns[p]
         \/ CloseConnection(p)
         \/ GoodbyeConnected
<1>1. ASSUME NEW q \in Peers, OpenRelayed(q) PROVE conns'[p] = conns[p]
  BY <1>1 DEF OpenRelayed, NotConnected, AInv, TypeOK
<1>2. ASSUME NEW q \in Peers, CloseConnection(q), q # p PROVE conns'[p] = conns[p]
  BY <1>2 DEF CloseConnection, AInv, TypeOK
<1>3. ASSUME StoreConn PROVE conns'[p] = conns[p]
  BY <1>3, CallForms DEF StoreConn, AInv, Pending, TypeOK
<1> QED
  BY <1>1, <1>2, <1>3
  DEF Next, Tool, FileService, OpenLAN, BroadcastTo, OpenConn, OpenConnFails,
      BroadcastDone, RelaySend, LeaveChannel, SendMessage, CreateChannel, ShareFile,
      SyncFolder, SendChunk, TransferEnds, FoundRelay, Connected, LinkDown, Shutdown,
      vars

(* A connection that has died stays in the table until the peer is closed by  *)
(* a tool, or the agent ends: OpenConnection never replaces it, and nothing   *)
(* that is sent to the peer meanwhile arrives.                                *)
THEOREM DeadEntryStays == Spec => [][DeadStays]_vars
<1>1. AInv /\ [Next]_vars => [DeadStays]_vars
  <2> SUFFICES ASSUME AInv, Next, NEW p \in Peers, conns[p] \in Links,
                      ~link[conns[p]].alive
               PROVE  \/ conns'[p] = None
                      \/ /\ conns'[p] = conns[p]
                         /\ link'[conns[p]] = link[conns[p]]
                         /\ carried'[conns[p]] = carried[conns[p]]
    BY DEF DeadStays
  <2> DEFINE l == conns[p]
             Same == link'[l] = link[l] /\ carried'[l] = carried[l]
  <2>1. l \in Links /\ link[l] # None /\ l # None
    BY ConstantsAssumption DEF AInv, Owned
  <2>2. ASSUME CloseConnection(p) \/ GoodbyeConnected PROVE conns'[p] = None
    BY <2>2 DEF CloseConnection, GoodbyeConnected, AInv, TypeOK
  <2>3. ASSUME NEW q \in Peers, CloseConnection(q), q # p PROVE Same
    <3>1. conns[q] # l
      BY <2>1, <2>3 DEF AInv, Owned
    <3> QED
      BY <2>1, <2>3, <3>1 DEF CloseConnection, AInv, TypeOK
  <2>4. ASSUME NEW m \in Links, OpenConn(m) \/ LinkDown(m) PROVE Same
    BY <2>1, <2>4 DEF OpenConn, LinkDown, AInv, TypeOK
  <2>5. ASSUME NEW q \in Peers, BroadcastTo(q) PROVE Same
    <3>1. CASE carried' = carried
      BY <2>5, <3>1 DEF BroadcastTo
    <3>2. CASE carried' # carried
      <4>1. conns[q] # l
        BY <2>5, <3>2 DEF BroadcastTo
      <4> QED
        BY <2>1, <2>5, <4>1 DEF BroadcastTo, AInv, TypeOK
    <3> QED
      BY <3>1, <3>2
  <2>6. ASSUME UNCHANGED <<link, carried>> PROVE Same
    BY <2>6
  <2>7. Same \/ CloseConnection(p)
    BY <2>3, <2>4, <2>5, <2>6
    DEF Next, Tool, FileService, OpenLAN, OpenRelayed, OpenConnFails, StoreConn,
        BroadcastDone, RelaySend, LeaveChannel, SendMessage, CreateChannel,
        ShareFile, SyncFolder, SendChunk, TransferEnds, FoundRelay, Connected,
        GoodbyeConnected, Shutdown
  <2>8. conns'[p] = conns[p] \/ CloseConnection(p) \/ GoodbyeConnected
    BY <2>1, EntriesStay
  <2> QED
    BY <2>2, <2>7, <2>8
<1> QED
  BY <1>1, Invariance, PTL DEF Spec

(* An agent does not get rid of the nil entry of a peer behind the relay      *)
(* except by ending: CloseConnection of it panics, and nothing else removes   *)
(* or replaces it before the goodbyes.                                        *)
THEOREM NilEntryIsFatal == Spec => [][NilIsFatal]_vars
<1>1. AInv /\ [Next]_vars => [NilIsFatal]_vars
  <2> SUFFICES ASSUME AInv, Next, NEW p \in Peers, NilConn(p)
               PROVE  \/ conns'[p] = Forwarded
                      \/ phase' = "crashed"
                      \/ phase = "running" /\ phase' = "leaving"
    BY DEF NilIsFatal
  <2>1. conns[p] = Forwarded /\ conns[p] # None
    BY ConstantsAssumption DEF NilConn
  <2>2. CASE conns'[p] = conns[p]
    BY <2>1, <2>2
  <2>3. CASE CloseConnection(p)
    BY <2>3 DEF CloseConnection, Panic
  <2>4. CASE GoodbyeConnected
    BY <2>4 DEF GoodbyeConnected
  <2> QED
    BY <2>1, <2>2, <2>3, <2>4, EntriesStay
<1> QED
  BY <1>1, Invariance, PTL DEF Spec

================================================================================
