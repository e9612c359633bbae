---------------------------------- MODULE Agent --------------------------------
(******************************************************************************)
(* The tools of one agent, cmd/lan-a2a/main.go: its table of connections, its *)
(* channels (internal/channel/channel.go), and the calls that use them.       *)
(*                                                                            *)
(* Calls come one at a time, from the MCP server or the command line.  Beside *)
(* them discovery connects to a relay, goroutines of the file service send    *)
(* chunks, connections die, and a signal ends the agent.  What the online     *)
(* maps say is told by Presence: here they may say anything at each call, but *)
(* name a peer behind the relay only when there is one.                       *)
(*                                                                            *)
(* A nil pointer that is dereferenced ends the process: nothing recovers it.  *)
(******************************************************************************)
EXTENDS Naturals

CONSTANTS
  Self,       \* the agent
  Peers,      \* the others
  Links,      \* bound: connections it has dialled and not closed
  Channels,   \* bound: channels it creates
  None,       \* no entry
  Forwarded   \* the nil connection of a peer behind the relay

ASSUME ConstantsAssumption ==
  /\ Self \notin Peers
  /\ None \notin Links /\ Forwarded \notin Links /\ None # Forwarded

VARIABLES
  conns,      \* agent.conns
  link,       \* the connections dialled: whom to, and whether they still work
  relay,      \* agent.relay, nil at first and when Connect has failed
  channel,    \* Manager.channels
  call,       \* the tool call under way
  transfers,  \* peers that goroutines of the file service send chunks to
  phase,      \* of the process
  carried     \* history: the channels whose messages a connection carried

vars == <<conns, link, relay, channel, call, transfers, phase, carried>>

Link     == [to : Peers, alive : BOOLEAN]
Channel  == [members : (SUBSET (Peers \cup {Self})) \ {{}}, host : Peers \cup {Self},
             mode : {"p2p", "relay"}]
Idle     == [at : {"idle"}]
Dialling == [at : {"dial"}, peer : Peers] \cup [at : {"store"}, link : Links]
Sending  == [at : {"broadcast"}, ch : Channels, rest : SUBSET Peers]
              \cup [at : {"text", "file"}]

idle == [at |-> "idle"]

ASSUME NoneAssumption == None \notin Link \cup Channel

TypeOK ==
  /\ conns \in [Peers -> Links \cup {None, Forwarded}]
  /\ link \in [Links -> Link \cup {None}]
  /\ relay \in {"nil", "connecting", "connected", "withdrawn"}
  /\ channel \in [Channels -> Channel \cup {None}]
  /\ call \in Idle \cup Dialling \cup Sending
  /\ transfers \subseteq Peers
  /\ phase \in {"running", "leaving", "ended", "crashed"}
  /\ carried \in [Links -> SUBSET Channels]

Init ==
  /\ conns = [p \in Peers |-> None]
  /\ link = [l \in Links |-> None]
  /\ relay = "nil"
  /\ channel = [ch \in Channels |-> None]
  /\ call = idle
  /\ transfers = {}
  /\ phase = "running"
  /\ carried = [l \in Links |-> {}]

Up      == phase \in {"running", "leaving"}
Ready   == Up /\ call = idle
NoRelay == relay \in {"nil", "withdrawn"}

--------------------------------------------------------------------------------
(* Deviations: plausible bugs of single operators, none of them part of Spec. *)

(* The peer is not looked up before it is dialled. *)
NotConnectedAnyhow(p) == TRUE

(* getConn without its second result. *)
NilOrMissing(p) == conns[p] \in {None, Forwarded}

(* Everybody the agent is connected to gets the message. *)
OthersAll(ch) == Peers

(* The agent is not left out of those it sends to. *)
OthersAndSelf(ch) == channel[ch].members

(* The host leaves, and stays the host. *)
LeaveAsHost(ch) ==
  LET stay == channel[ch].members \ {Self}
  IN  channel' = [channel EXCEPT ![ch] =
                    IF stay = {} THEN None ELSE [@ EXCEPT !.members = stay]]

--------------------------------------------------------------------------------
(* The connections                                                            *)

NotConnected(p) == conns[p] = None

(* OpenConnection of a peer on the LAN goes on to dial it. *)
OpenLAN(p) ==
  /\ Ready /\ NotConnected(p)
  /\ call' = [at |-> "dial", peer |-> p]
  /\ UNCHANGED <<conns, link, relay, channel, transfers, phase, carried>>

(* A peer that only the relay has listed is entered without a connection. *)
OpenRelayed(p) ==
  /\ Ready /\ NotConnected(p) /\ relay = "connected"
  /\ conns' = [conns EXCEPT ![p] = Forwarded]
  /\ UNCHANGED <<link, relay, channel, call, transfers, phase, carried>>

(* p2p.OpenConn: dials and shakes hands ... *)
OpenConn(l) ==
  /\ Up /\ call.at = "dial" /\ link[l] = None
  /\ link' = [link EXCEPT ![l] = [to |-> call.peer, alive |-> TRUE]]
  /\ call' = [at |-> "store", link |-> l]
  /\ UNCHANGED <<conns, relay, channel, transfers, phase, carried>>

(* ... or fails, and closes what it dialled. *)
OpenConnFails ==
  /\ Up /\ call.at = "dial"
  /\ call' = idle
  /\ UNCHANGED <<conns, link, relay, channel, transfers, phase, carried>>

StoreConn ==
  /\ Up /\ call.at = "store"
  /\ conns' = [conns EXCEPT ![link[call.link].to] = call.link]
  /\ call' = idle
  /\ UNCHANGED <<link, relay, channel, transfers, phase, carried>>

(* What a.conns holds for p is nil: calling a method of it panics. *)
NilConn(p) == conns[p] = Forwarded

Panic == phase' = "crashed"

CloseConnection(p) ==
  /\ Ready /\ conns[p] # None
  /\ conns' = [conns EXCEPT ![p] = None]
  /\ IF NilConn(p)
       THEN Panic /\ UNCHANGED <<link, carried>>
       ELSE /\ link' = [link EXCEPT ![conns[p]] = None]
            /\ carried' = [carried EXCEPT ![conns[p]] = {}]
            /\ UNCHANGED phase
  /\ UNCHANGED <<relay, channel, call, transfers>>

--------------------------------------------------------------------------------
(* The channels                                                               *)

Others(ch) == channel[ch].members \ {Self}

Broadcast(ch, ps) == call' = [at |-> "broadcast", ch |-> ch, rest |-> ps]
ToRelay(kind)     == call' = [at |-> kind]

(* CreateChannel: every peer is connected.  The mode is settled by a.relay,   *)
(* which is set before its connection is there.                               *)
CreateChannel(ch, ps) ==
  /\ Ready /\ channel[ch] = None /\ ps # {}
  /\ \A p \in ps : conns[p] # None
  /\ channel' = [channel EXCEPT ![ch] =
       [members |-> ps \cup {Self}, host |-> Self,
        mode |-> IF NoRelay THEN "p2p" ELSE "relay"]]
  /\ IF NoRelay THEN Broadcast(ch, ps) ELSE ToRelay("text")
  /\ UNCHANGED <<conns, link, relay, transfers, phase, carried>>

(* Manager.Leave: the first of the others becomes the host. *)
Leave(ch) ==
  LET stay == channel[ch].members \ {Self}
  IN  IF stay = {} THEN channel' = [channel EXCEPT ![ch] = None]
      ELSE \E h \in IF channel[ch].host = Self THEN stay ELSE {channel[ch].host} :
             channel' = [channel EXCEPT ![ch].members = stay, ![ch].host = h]

LeaveChannel(ch) ==
  /\ Ready /\ channel[ch] # None
  /\ Leave(ch)
  /\ IF channel[ch].mode = "p2p" THEN Broadcast(ch, Others(ch))
     ELSE IF NoRelay THEN UNCHANGED call ELSE ToRelay("text")
  /\ UNCHANGED <<conns, link, relay, transfers, phase, carried>>

(* Nothing asks whether the agent has left. *)
SendMessage(ch) ==
  /\ Ready /\ channel[ch] # None
  /\ IF channel[ch].mode = "p2p" THEN Others(ch) # {} /\ Broadcast(ch, Others(ch))
                                 ELSE ~NoRelay /\ ToRelay("text")
  /\ UNCHANGED <<conns, link, relay, channel, transfers, phase, carried>>

(* broadcastToMembers, for one of them.  Without an entry it is skipped; the  *)
(* error of a dead connection is dropped.                                     *)
BroadcastTo(p) ==
  /\ Up /\ call.at = "broadcast" /\ p \in call.rest
  /\ call' = [call EXCEPT !.rest = @ \ {p}]
  /\ IF NilConn(p) THEN Panic /\ UNCHANGED carried
     ELSE /\ carried' = IF conns[p] # None /\ link[conns[p]].alive
                          THEN [carried EXCEPT ![conns[p]] = @ \cup {call.ch}]
                          ELSE carried
          /\ UNCHANGED phase
  /\ UNCHANGED <<conns, link, relay, channel, transfers>>

BroadcastDone ==
  /\ Up /\ call.at = "broadcast" /\ call.rest = {}
  /\ call' = idle
  /\ UNCHANGED <<conns, link, relay, channel, transfers, phase, carried>>

(* a.relay.Send panics when a.relay, or its connection, is nil.  The error of *)
(* a dead connection is returned, or dropped.  A file takes several messages. *)
RelaySend ==
  /\ Up /\ call.at \in {"text", "file"}
  /\ IF relay = "connected" THEN UNCHANGED phase ELSE Panic
  /\ call' \in IF call.at = "file" THEN {idle, call} ELSE {idle}
  /\ UNCHANGED <<conns, link, relay, channel, transfers, carried>>

--------------------------------------------------------------------------------
(* Files                                                                      *)

(* ShareFile: through the relay message by message, or by the file service,   *)
(* which starts a transfer for each of the others whose file it can split.    *)
ShareFile(ch, ps) ==
  /\ Ready /\ channel[ch] # None
  /\ IF channel[ch].mode = "relay"
       THEN ~NoRelay /\ ToRelay("file") /\ UNCHANGED transfers
       ELSE ps \subseteq Others(ch) /\ transfers' = transfers \cup ps /\ UNCHANGED call
  /\ UNCHANGED <<conns, link, relay, channel, phase, carried>>

(* ShareFolder, in either mode, and SyncFolder with one peer. *)
SyncFolder(ps) ==
  /\ Ready
  /\ \/ \E ch \in Channels : channel[ch] # None /\ ps \subseteq Others(ch)
     \/ \E p \in Peers : ps = {p}
  /\ transfers' = transfers \cup ps
  /\ UNCHANGED <<conns, link, relay, channel, call, phase, carried>>

(* sendFunc: the chunk is sent, or fails when there is no entry or the        *)
(* connection is dead; none of this shows in the state but a panic.           *)
SendChunk(p) ==
  /\ Up /\ p \in transfers /\ NilConn(p)
  /\ Panic
  /\ UNCHANGED <<conns, link, relay, channel, call, transfers, carried>>

TransferEnds(p) ==
  /\ Up /\ p \in transfers
  /\ transfers' = transfers \ {p}
  /\ UNCHANGED <<conns, link, relay, channel, call, phase, carried>>

--------------------------------------------------------------------------------
(* Discovery finds a relay: the client is published and then connected.       *)

FoundRelay ==
  /\ Up /\ NoRelay
  /\ relay' = "connecting"
  /\ UNCHANGED <<conns, link, channel, call, transfers, phase, carried>>

Connected ==
  /\ Up /\ relay = "connecting"
  /\ relay' \in {"connected", "withdrawn"}
  /\ UNCHANGED <<conns, link, channel, call, transfers, phase, carried>>

(* A peer, or the network, ends a connection; nobody reads it. *)
LinkDown(l) ==
  /\ Up /\ link[l] # None /\ link[l].alive
  /\ link' = [link EXCEPT ![l].alive = FALSE]
  /\ UNCHANGED <<conns, relay, channel, call, transfers, phase, carried>>

(* The signal: the connected peers are said goodbye to, and forgotten ...     *)
GoodbyeConnected ==
  /\ phase = "running" /\ phase' = "leaving"
  /\ conns' = [p \in Peers |-> None]
  /\ UNCHANGED <<link, relay, channel, call, transfers, carried>>

(* ... then those on the LAN, over new connections that are closed at once,   *)
(* then the relay, with a Send like the others; the process ends.             *)
Shutdown ==
  /\ phase = "leaving"
  /\ phase' = IF relay = "connecting" THEN "crashed" ELSE "ended"
  /\ UNCHANGED <<conns, link, relay, channel, call, transfers, carried>>

--------------------------------------------------------------------------------
Tool ==
  \/ \E p \in Peers : \/ OpenLAN(p) \/ OpenRelayed(p) \/ CloseConnection(p)
                      \/ BroadcastTo(p)
  \/ \E l \in Links : OpenConn(l)
  \/ OpenConnFails \/ StoreConn \/ BroadcastDone \/ RelaySend
  \/ \E ch \in Channels : \/ LeaveChannel(ch) \/ SendMessage(ch)
                         \/ \E ps \in SUBSET Peers : \/ CreateChannel(ch, ps)
                                                    \/ ShareFile(ch, ps)
  \/ \E ps \in SUBSET Peers : SyncFolder(ps)

FileService == \E p \in Peers : SendChunk(p) \/ TransferEnds(p)

Next ==
  \/ Tool \/ FileService
  \/ FoundRelay \/ Connected
  \/ \E l \in Links : LinkDown(l)
  \/ GoodbyeConnected \/ Shutdown

Spec == Init /\ [][Next]_vars

--------------------------------------------------------------------------------
(* A connection the agent dialled and has not closed is in its table, under   *)
(* the peer it goes to, or in the hands of the call that dialled it ("close   *)
(* when done", docs/architecture.md:36): until it shuts down, none is lost.   *)
LinksAccounted ==
  phase = "running" =>
    \A l \in Links : link[l] # None =>
      conns[link[l].to] = l \/ call = [at |-> "store", link |-> l]

(* Without a relay no sequence of calls, transfers and connections that die,  *)
(* also while the agent shuts down, makes it dereference a nil connection.    *)
SurvivesOnLAN == relay = "nil" => phase # "crashed"

(* What is said in a channel is told to peers of that channel only, whatever  *)
(* was closed, opened anew, or left meanwhile (broadcastToMembers).           *)
ToMembersOnly ==
  \A l \in Links : \A ch \in carried[l] :
    channel[ch] # None /\ link[l].to \in channel[ch].members

(* "host promotion on leave" (docs/architecture.md:51): the host of a channel *)
(* is one of its members, after any number of calls to leave it.              *)
HostIsMember ==
  \A ch \in Channels : channel[ch] # None => channel[ch].host \in channel[ch].members

================================================================================
