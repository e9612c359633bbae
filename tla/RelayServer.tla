------------------------------ MODULE RelayServer ------------------------------
(******************************************************************************)
(* The relay process, cmd/lan-relay/main.go.  Every WebSocket connection has  *)
(* a handler goroutine (handleWS) and every forwarded message a goroutine of  *)
(* its own; they share the registry s.agents (guarded by s.mu), the channel   *)
(* index s.channelIndex (guarded by s.channelIndexMu) and, per connection, an *)
(* AgentConn with a mutex, a `done` channel and the set of its channels.      *)
(*                                                                            *)
(* A handler is cut into steps where it takes or releases a lock, so that two *)
(* handlers interleave exactly as far as the locks allow.  No lock has a      *)
(* variable of its own: who holds one follows from the program counters.      *)
(******************************************************************************)
EXTENDS Naturals, Sequences, FiniteSets, Functions

CONSTANTS
  Agents,     \* agent identifiers, as sent in `register`
  Conns,      \* connections the server accepts over the whole run
  Channels,   \* channel identifiers; createChannel never reuses one
  None,       \* "no connection" in the registry, "no agent" on a connection
  MaxMsgs,    \* bound: channel messages read on all connections together
  MaxDials    \* bound: connections one agent opens; with 1, nobody reconnects

ASSUME ConstantsAssumption ==
  /\ None \notin Agents
  /\ None \notin Conns
  /\ MaxMsgs \in Nat
  /\ MaxDials \in Nat

VARIABLES
  pc,         \* where the handler of a connection is
  owner,      \* AgentConn.ID; None until the handshake
  up,         \* the peer's end of the connection is alive, as seen by a Read
  agents,     \* s.agents
  done,       \* connections whose AgentConn.done is closed
  joined,     \* AgentConn.channels
  index,      \* s.channelIndex; an absent key is the empty set
  msg,        \* the channel message a handler is working on
  todo,       \* `members` (joining) or `targets` (relaying) still to be visited
  sending,    \* messages in a send goroutine; that goroutine owns AgentConn.mu
  wire,       \* messages written to a connection, in order
  sent,       \* channel messages read from a connection so far
  announced,  \* history: the members named when a channel was created
  left        \* history: the members whose peer_left the server has read

registryVars == <<agents, done>>
indexVars    == <<joined, index, announced, left>>
relayVars    == <<msg, todo, sending, wire, sent>>
vars         == <<pc, owner, up, registryVars, indexVars, relayVars>>

Msg == [src : Conns, seq : Nat, ch : Channels]

(* A handler that got past the handshake and did not end. *)
Serving == {"counting", "serving", "querying", "joining", "adding", "leaving",
            "snapshot", "rlock", "relaying"}
PCs     == Serving \cup {"idle", "registering", "deregister", "clean", "gone",
                         "panicked", "poisoned"}

--------------------------------------------------------------------------------
(* Deviations: plausible bugs of single operators, none of them part of Spec. *)
(* Each breaks a property below, which shows that the property depends on it. *)

(* The send goroutine locks ac.mu itself: the handler waits for nobody. *)
MuFreeIgnored(d) == TRUE

(* old.done stays open when its identifier registers again. *)
SupersedeForgets(c) == done

(* The deferred cleanup leaves the registry alone. *)
UnregisterNot(c) == agents

(* One member leaving deletes the whole channel. *)
WithoutChannels(chs, a) ==
  [ch \in Channels |-> IF ch \in chs THEN {} ELSE index[ch]]

(* The member that leaves is not deleted from the index. *)
WithoutNothing(chs, a) == index

(* An emptied channel is deleted as a key that others still dereference. *)
WithoutKeys(chs, a) ==
  [ch \in {x \in Channels : ~(x \in chs /\ index[x] \subseteq {a})} |->
     index[ch] \ {a}]

(* The sender is not skipped. *)
TargetsAll(c) == index[msg[c].ch]

(* A busy connection is skipped (TryLock) instead of waited for. *)
ForwardTryLock(c, a) ==
  /\ pc[c] = "relaying"
  /\ a \in todo[c]
  /\ sending' = [d \in Conns |-> IF d = agents[a] /\ sending[d] = {}
                                 THEN {msg[c]} ELSE sending[d]]
  /\ todo' = [todo EXCEPT ![c] = @ \ {a}]
  /\ UNCHANGED <<pc, owner, up, registryVars, indexVars, msg, wire, sent>>

(* The goroutine sends a message once more after a send that succeeded. *)
WriteRetried(d, m) ==
  /\ m \in sending[d]
  /\ up[d]
  /\ wire' = [wire EXCEPT ![d] = Append(@, m)]
  /\ sending' \in {sending, [sending EXCEPT ![d] = @ \ {m}]}
  /\ UNCHANGED <<pc, owner, up, registryVars, indexVars, msg, todo, sent>>

(* A failed send returns without unlocking ac.mu. *)
WriteFailsLocked(d, m) ==
  /\ m \in sending[d]
  /\ ~up[d]
  /\ UNCHANGED vars

--------------------------------------------------------------------------------
(* Locks, read off the program counters.                                      *)

(* s.mu: relayToChannel read-locks it for its whole loop, channel_created for *)
(* each round of its own; the other sections are single steps.  A panic       *)
(* inside the section of Register never unlocks.                              *)
CanReadRegistry  == \A c \in Conns : pc[c] # "poisoned"
CanWriteRegistry == \A c \in Conns : pc[c] \notin {"poisoned", "relaying", "adding"}

(* s.channelIndexMu: held across steps only while a channel is being created. *)
Joining(c) == pc[c] \in {"joining", "adding"}
IndexFree  == \A c \in Conns : ~Joining(c)

(* AgentConn.mu: the send goroutine started for the connection holds it. *)
MuFree(d) == sending[d] = {}

--------------------------------------------------------------------------------
(* Data of the handlers.                                                      *)

Registered(a) == agents[a] # None
Goto(c, l)    == [pc EXCEPT ![c] = l]

(* close(old.done) when the identifier is already registered. *)
Supersede(c) == IF Registered(owner[c]) THEN done \cup {agents[owner[c]]} ELSE done

(* delete(s.agents, agentID), only if the entry is still this connection. *)
Unregister(c) == [agents EXCEPT ![owner[c]] = IF @ = c THEN None ELSE @]

(* The index without agent a in the channels chs; an empty entry is deleted. *)
Without(chs, a) ==
  [ch \in Channels |-> IF ch \in chs THEN index[ch] \ {a} ELSE index[ch]]

(* The snapshot relayToChannel takes of the members, without the sender. *)
Targets(c) == index[msg[c].ch] \ {owner[c]}

(* The agent may send on ch: it was named in the announcement, and the        *)
(* announcement has been worked off (invitees learn of ch only after that).   *)
Knows(a, ch) ==
  /\ a \in announced[ch]
  /\ \A d \in Conns : Joining(d) => msg[d].ch # ch

(* The channel messages read so far, for the bound. *)
MsgsRead == FoldFunction(+, 0, sent)

(* The next channel message of connection c. *)
MsgOn(c, ch) == [src |-> c, seq |-> sent[c] + 1, ch |-> ch]

--------------------------------------------------------------------------------
TypeOK ==
  /\ pc \in [Conns -> PCs]
  /\ owner \in [Conns -> Agents \cup {None}]
  /\ up \in [Conns -> BOOLEAN]
  /\ agents \in [Agents -> Conns \cup {None}]
  /\ done \in SUBSET Conns
  /\ joined \in [Conns -> SUBSET Channels]
  /\ index \in [Channels -> SUBSET Agents]
  /\ msg \in [Conns -> Msg \cup {None}]
  /\ todo \in [Conns -> SUBSET Agents]
  /\ sending \in [Conns -> SUBSET Msg]
  /\ wire \in [Conns -> Seq(Msg)]
  /\ sent \in [Conns -> Nat]
  /\ announced \in [Channels -> SUBSET Agents]
  /\ left \in [Channels -> SUBSET Agents]

Init ==
  /\ pc = [c \in Conns |-> "idle"]
  /\ owner = [c \in Conns |-> None]
  /\ up = [c \in Conns |-> TRUE]
  /\ agents = [a \in Agents |-> None]
  /\ done = {}
  /\ joined = [c \in Conns |-> {}]
  /\ index = [ch \in Channels |-> {}]
  /\ msg = [c \in Conns |-> None]
  /\ todo = [c \in Conns |-> {}]
  /\ sending = [c \in Conns |-> {}]
  /\ wire = [c \in Conns |-> <<>>]
  /\ sent = [c \in Conns |-> 0]
  /\ announced = [ch \in Channels |-> {}]
  /\ left = [ch \in Channels |-> {}]

--------------------------------------------------------------------------------
(* Connecting: handleWS up to its read loop.                                  *)

(* Upgrade, `register` read, `register_ok` sent; the registry is untouched.   *)
Handshake(c, a) ==
  /\ pc[c] = "idle"
  /\ Cardinality({d \in Conns : owner[d] = a}) < MaxDials
  /\ owner' = [owner EXCEPT ![c] = a]
  /\ pc' = Goto(c, "registering")
  /\ UNCHANGED <<up, registryVars, indexVars, relayVars>>

(* Any other first message, or an error while handshaking: closed unserved.   *)
HandshakeFails(c) ==
  /\ pc[c] = "idle"
  /\ pc' = Goto(c, "gone")
  /\ up' = [up EXCEPT ![c] = FALSE]
  /\ UNCHANGED <<owner, registryVars, indexVars, relayVars>>

(* The section under s.mu: close the old entry's done, take its place. *)
Register(c) ==
  /\ pc[c] = "registering"
  /\ CanWriteRegistry
  /\ agents[owner[c]] \notin done
  /\ done' = Supersede(c)
  /\ agents' = [agents EXCEPT ![owner[c]] = c]
  /\ pc' = Goto(c, "counting")
  /\ UNCHANGED <<owner, up, indexVars, relayVars>>

(* close(old.done) on a closed channel panics.  The cleanup is not deferred   *)
(* yet and net/http recovers the panic, so s.mu stays locked for good.        *)
RegisterPanics(c) ==
  /\ pc[c] = "registering"
  /\ CanWriteRegistry
  /\ agents[owner[c]] \in done
  /\ pc' = Goto(c, "poisoned")
  /\ UNCHANGED <<owner, up, registryVars, indexVars, relayVars>>

(* s.AgentCount() in the log line. *)
Count(c) ==
  /\ pc[c] = "counting"
  /\ CanReadRegistry
  /\ pc' = Goto(c, "serving")
  /\ UNCHANGED <<owner, up, registryVars, indexVars, relayVars>>

--------------------------------------------------------------------------------
(* Disconnecting: a Read or a pong fails, then the deferred cleanup.          *)

(* Environment: the peer is gone, or the network gave up on it.  What it sent *)
(* before may still be read.                                                  *)
LinkDown(c) ==
  /\ up[c]
  /\ pc[c] # "idle"
  /\ up' = [up EXCEPT ![c] = FALSE]
  /\ UNCHANGED <<pc, owner, registryVars, indexVars, relayVars>>

(* close(ac.done), the first statement of the cleanup.  A handler whose       *)
(* channel was closed by its successor panics here and cleans up nothing.     *)
Unwind(c) ==
  /\ pc[c] = "serving"
  /\ ~up[c]
  /\ pc' = Goto(c, IF c \in done THEN "panicked" ELSE "deregister")
  /\ done' = done \cup {c}
  /\ UNCHANGED <<owner, up, agents, indexVars, relayVars>>

Deregister(c) ==
  /\ pc[c] = "deregister"
  /\ CanWriteRegistry
  /\ agents' = Unregister(c)
  /\ pc' = Goto(c, "clean")
  /\ UNCHANGED <<owner, up, done, indexVars, relayVars>>

CleanIndex(c) ==
  /\ pc[c] = "clean"
  /\ IndexFree
  /\ index' = Without(joined[c], owner[c])
  /\ pc' = Goto(c, "gone")
  /\ UNCHANGED <<owner, up, registryVars, joined, announced, left, relayVars>>

--------------------------------------------------------------------------------
(* Reading: one arm of the read loop each.  A ping changes no state.          *)

Query(c) ==
  /\ pc[c] = "serving"
  /\ pc' = Goto(c, "querying")
  /\ UNCHANGED <<owner, up, registryVars, indexVars, relayVars>>

(* handleQueryOnline copies the identifiers under s.mu and replies. *)
Answer(c) ==
  /\ pc[c] = "querying"
  /\ CanReadRegistry
  /\ pc' = Goto(c, "serving")
  /\ UNCHANGED <<owner, up, registryVars, indexVars, relayVars>>

(* The handler takes a channel message off its connection. *)
Take(c, ch) ==
  /\ pc[c] = "serving"
  /\ MsgsRead < MaxMsgs
  /\ msg' = [msg EXCEPT ![c] = MsgOn(c, ch)]
  /\ sent' = [sent EXCEPT ![c] = @ + 1]

(* A text that is no channel event, or part of a file. *)
Read(c, ch) ==
  /\ Take(c, ch)
  /\ Knows(owner[c], ch)
  /\ pc' = Goto(c, "snapshot")
  /\ UNCHANGED <<owner, up, registryVars, indexVars, todo, sending, wire>>

(* channel_created: takes channelIndexMu for the loop over the members. *)
ReadCreated(c, ch, members) ==
  /\ Take(c, ch)
  /\ announced[ch] = {}
  /\ owner[c] \in members
  /\ IndexFree
  /\ announced' = [announced EXCEPT ![ch] = members]
  /\ todo' = [todo EXCEPT ![c] = members]
  /\ pc' = Goto(c, "joining")
  /\ UNCHANGED <<owner, up, registryVars, joined, index, left, sending, wire>>

(* A round of that loop looks the member up under s.mu, *)
JoinRLock(c) ==
  /\ pc[c] = "joining"
  /\ todo[c] # {}
  /\ CanReadRegistry
  /\ pc' = Goto(c, "adding")
  /\ UNCHANGED <<owner, up, registryVars, indexVars, relayVars>>

(* which it holds until it got the member's mutex.  The index gets the member *)
(* whether or not it is connected; only a registered connection remembers the *)
(* channel.  (The index entry comes first in the code; nobody else reads it   *)
(* before the end of the loop.)                                               *)
JoinMember(c, m) ==
  /\ pc[c] = "adding"
  /\ m \in todo[c]
  /\ Registered(m) => MuFree(agents[m])
  /\ index' = [index EXCEPT ![msg[c].ch] = @ \cup {m}]
  /\ joined' = [d \in Conns |-> IF d = agents[m] THEN joined[d] \cup {msg[c].ch}
                                                 ELSE joined[d]]
  /\ todo' = [todo EXCEPT ![c] = @ \ {m}]
  /\ pc' = Goto(c, "joining")
  /\ UNCHANGED <<owner, up, registryVars, announced, left, msg, sending, wire, sent>>

(* The loop is over: unlock, and go on to relay the announcement itself. *)
JoinDone(c) ==
  /\ pc[c] = "joining"
  /\ todo[c] = {}
  /\ pc' = Goto(c, "snapshot")
  /\ UNCHANGED <<owner, up, registryVars, indexVars, relayVars>>

(* peer_left: the section under channelIndexMu. *)
ReadLeft(c, ch) ==
  /\ Take(c, ch)
  /\ Knows(owner[c], ch)
  /\ owner[c] \notin left[ch]
  /\ IndexFree
  /\ index' = Without({ch}, owner[c])
  /\ left' = [left EXCEPT ![ch] = @ \cup {owner[c]}]
  /\ pc' = Goto(c, "leaving")
  /\ UNCHANGED <<owner, up, registryVars, joined, announced, todo, sending, wire>>

(* peer_left: the section under ac.mu, which waits for a send under way. *)
ForgetChannel(c) ==
  /\ pc[c] = "leaving"
  /\ MuFree(c)
  /\ joined' = [joined EXCEPT ![c] = @ \ {msg[c].ch}]
  /\ pc' = Goto(c, "snapshot")
  /\ UNCHANGED <<owner, up, registryVars, index, announced, left, relayVars>>

--------------------------------------------------------------------------------
(* Relaying: relayToChannel and the send goroutines.                          *)

(* Copy the members under channelIndexMu; an unknown channel has none. *)
Snapshot(c) ==
  /\ pc[c] = "snapshot"
  /\ IndexFree
  /\ todo' = [todo EXCEPT ![c] = Targets(c)]
  /\ pc' = Goto(c, "rlock")
  /\ UNCHANGED <<owner, up, registryVars, indexVars, msg, sending, wire, sent>>

(* s.mu.RLock for the loop over the targets. *)
RLock(c) ==
  /\ pc[c] = "rlock"
  /\ CanReadRegistry
  /\ pc' = Goto(c, "relaying")
  /\ UNCHANGED <<owner, up, registryVars, indexVars, relayVars>>

(* One target: skipped when it is not connected; else ac.mu is locked here,   *)
(* by the handler, and handed to a new send goroutine.  The map's iteration   *)
(* order is arbitrary.                                                        *)
Forward(c, a) ==
  /\ pc[c] = "relaying"
  /\ a \in todo[c]
  /\ Registered(a) => MuFree(agents[a])
  /\ sending' = [d \in Conns |-> IF d = agents[a] THEN sending[d] \cup {msg[c]}
                                                  ELSE sending[d]]
  /\ todo' = [todo EXCEPT ![c] = @ \ {a}]
  /\ UNCHANGED <<pc, owner, up, registryVars, indexVars, msg, wire, sent>>

RelayDone(c) ==
  /\ pc[c] = "relaying"
  /\ todo[c] = {}
  /\ pc' = Goto(c, "serving")
  /\ UNCHANGED <<owner, up, registryVars, indexVars, relayVars>>

(* The goroutine's Send succeeds, and ac.mu is unlocked. *)
Write(d, m) ==
  /\ m \in sending[d]
  /\ up[d]
  /\ wire' = [wire EXCEPT ![d] = Append(@, m)]
  /\ sending' = [sending EXCEPT ![d] = @ \ {m}]
  /\ UNCHANGED <<pc, owner, up, registryVars, indexVars, msg, todo, sent>>

(* It fails: logged, and ac.mu is unlocked all the same. *)
WriteFails(d, m) ==
  /\ m \in sending[d]
  /\ ~up[d]
  /\ sending' = [sending EXCEPT ![d] = @ \ {m}]
  /\ UNCHANGED <<pc, owner, up, registryVars, indexVars, msg, todo, wire, sent>>

--------------------------------------------------------------------------------
Handler(c) ==
  \/ Register(c) \/ RegisterPanics(c) \/ Count(c)
  \/ Unwind(c) \/ Deregister(c) \/ CleanIndex(c)
  \/ Answer(c)
  \/ JoinRLock(c) \/ \E m \in Agents : JoinMember(c, m)
  \/ JoinDone(c) \/ ForgetChannel(c)
  \/ Snapshot(c) \/ RLock(c) \/ RelayDone(c)
  \/ \E a \in Agents : Forward(c, a)

Sender(d) == \E m \in sending[d] : Write(d, m) \/ WriteFails(d, m)

(* What peers do to a connection. *)
Peer(c) ==
  \/ \E a \in Agents : Handshake(c, a)
  \/ HandshakeFails(c) \/ LinkDown(c) \/ Query(c)
  \/ \E ch \in Channels :
       \/ Read(c, ch)
       \/ ReadLeft(c, ch)
       \/ \E members \in SUBSET Agents : ReadCreated(c, ch, members)

Next == \E c \in Conns : Handler(c) \/ Sender(c) \/ Peer(c)

Spec == Init /\ [][Next]_vars

(* Goroutines that can run do run; peers need do nothing.  Fairness of a      *)
(* Sender says that a write ends or fails, as it does when the kernel gives   *)
(* up on a dead peer; the code sets no deadline of its own.  Waiting for a    *)
(* lock is fair in Go (sync.Mutex hands over to a starved waiter, and a       *)
(* waiting RWMutex writer bars new readers), hence strong fairness for the    *)
(* steps that take one.  Of a peer that is gone only finitely much is left to *)
(* read, hence strong fairness for the end of the read loop.                  *)
Fairness == \A c \in Conns : /\ SF_vars(Handler(c))
                             /\ SF_vars(Unwind(c))
                             /\ WF_vars(Sender(c))
FairSpec == Spec /\ Fairness

--------------------------------------------------------------------------------
(* Safety.                                                                    *)

(* The registry never names a connection whose handler has ended: an entry    *)
(* belongs to the agent that registered it, its handler is serving or about   *)
(* to remove it, and its done channel is closed only in the second case.      *)
(* (handleWS: the registration and the deferred cleanup.)                     *)
RegistryServes ==
  \A a \in Agents : Registered(a) =>
    LET c == agents[a]
    IN  /\ owner[c] = a
        /\ pc[c] \in Serving \cup {"deregister"}
        /\ c \in done <=> pc[c] = "deregister"

(* Conversely a handler that serves and was not superseded is the one the     *)
(* registry names, so that messages to its agent reach it; and there is never *)
(* a second such handler of the same agent.                                   *)
LiveRegistered ==
  \A c \in Conns : pc[c] \in Serving /\ c \notin done => agents[owner[c]] = c

(* Messages one connection receives from another arrive in the order in which *)
(* the server read them, none twice, although each is written by a goroutine  *)
(* of its own.  (relayToChannel: the handler, not the goroutine, locks ac.mu.)*)
PerSenderFIFO ==
  \A d \in Conns : \A i, j \in 1..Len(wire[d]) :
    i < j /\ wire[d][i].src = wire[d][j].src => wire[d][i].seq < wire[d][j].seq

(* "relayToChannel forwards messages only to channel members, not all         *)
(* agents" (main.go:173), and never back to the agent they came from.         *)
DeliveredToMembers ==
  \A d \in Conns : \A i \in 1..Len(wire[d]) :
    /\ owner[d] \in announced[wire[d][i].ch]
    /\ owner[d] # owner[wire[d][i].src]

(* The channel ch was created, and the handler is through with its members. *)
Established(ch) ==
  /\ announced[ch] # {}
  /\ \A c \in Conns : Joining(c) => msg[c].ch # ch

(* The relay knew a on connection c when ch was created, and c was cleaned up. *)
LostOn(c, a, ch) == owner[c] = a /\ ch \in joined[c] /\ pc[c] = "gone"

(* Who of an established channel can be reached: every member that did not    *)
(* leave, except exactly those that were connected when the channel was       *)
(* created and whose connection of that time has been cleaned up since.  So   *)
(* the cleanup of a member's other connections never takes it out, a          *)
(* reconnection never puts it back in, and a member that was absent at the    *)
(* creation stays.  (handleChannelEvent 141-155, the deferred cleanup 87-94.) *)
RosterReachable ==
  \A ch \in Channels : Established(ch) =>
    \A a \in announced[ch] \ left[ch] :
      a \notin index[ch] <=> \E c \in Conns : LostOn(c, a, ch)

(* An agent whose peer_left was processed, or that was never a member, is not *)
(* in the index: no later message is sent to it.                              *)
IndexWithinRoster ==
  \A ch \in Channels : index[ch] \subseteq announced[ch] \ left[ch]

--------------------------------------------------------------------------------
(* Liveness, under FairSpec.                                                  *)

(* "Responds to `query_online` with `online_list`" (docs/protocol.md:117). *)
QueryAnswered == \A c \in Conns : pc[c] = "querying" ~> pc[c] = "serving"

(* Whatever a handler does for one message, it gets back to its read loop: it *)
(* waits for no lock forever.                                                 *)
HandlerReturns ==
  \A c \in Conns : pc[c] \in Serving \cup {"registering"} ~> pc[c] = "serving"

(* A message on its way to a registered target is written to it, unless the   *)
(* target's link dies; a send under way to the same target does not lose it.  *)
TargetReached ==
  \A c, d \in Conns : \A n \in 1..MaxMsgs :
    (/\ pc[c] = "relaying"
     /\ msg[c].seq = n
     /\ \E a \in todo[c] : agents[a] = d)
    ~> (\/ ~up[d]
        \/ \E i \in 1..Len(wire[d]) : wire[d][i].src = c /\ wire[d][i].seq = n)

(* A dead peer is noticed and disappears from the registry (and so from       *)
(* online lists).                                                             *)
DeadPeerForgotten ==
  \A c \in Conns :
    ~up[c] ~> pc[c] = "gone" /\ \A a \in Agents : agents[a] # c

(* What the relay promises, in ChannelMulticast: the detailed handlers and    *)
(* goroutines implement it.                                                   *)
Abs == INSTANCE ChannelMulticast WITH agentOf <- owner, members <- announced
ImplementsMulticast == Abs!Spec

================================================================================
