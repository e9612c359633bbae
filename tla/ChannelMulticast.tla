--------------------------- MODULE ChannelMulticast ----------------------------
(******************************************************************************)
(* What the relay of cmd/lan-relay promises to its agents, with no handler,   *)
(* lock, registry or index in sight: a message read from one connection may   *)
(* be delivered to connections of the other members of its channel, to each   *)
(* at most once and in the order of the sender, and may be lost.              *)
(******************************************************************************)
EXTENDS Naturals, Sequences

CONSTANTS Agents, Conns, Channels, None

VARIABLES
  agentOf,  \* the agent at the far end of a connection, None before it says so
  members,  \* the members a channel was created with, {} before
  sent,     \* the number of channel messages read from a connection
  wire      \* the messages delivered to a connection, in order

vars == <<agentOf, members, sent, wire>>

Msg == [src : Conns, seq : Nat, ch : Channels]

(* m is later than everything d got from the same connection. *)
Fresh(d, m) ==
  \A i \in 1..Len(wire[d]) : wire[d][i].src = m.src => wire[d][i].seq < m.seq

Init ==
  /\ agentOf = [c \in Conns |-> None]
  /\ members = [ch \in Channels |-> {}]
  /\ sent = [c \in Conns |-> 0]
  /\ wire = [c \in Conns |-> <<>>]

Identify(c, a) ==
  /\ agentOf[c] = None
  /\ agentOf' = [agentOf EXCEPT ![c] = a]
  /\ UNCHANGED <<members, sent, wire>>

(* A message is read; the one that creates a channel fixes its members. *)
Submit(c) ==
  /\ sent' = [sent EXCEPT ![c] = @ + 1]
  /\ \/ UNCHANGED members
     \/ \E ch \in Channels, ms \in SUBSET Agents :
          /\ members[ch] = {}
          /\ agentOf[c] \in ms
          /\ members' = [members EXCEPT ![ch] = ms]
  /\ UNCHANGED <<agentOf, wire>>

(* The message with number n of connection c, on channel ch. *)
Deliver(d, c, n, ch) ==
  LET m == [src |-> c, seq |-> n, ch |-> ch]
  IN  /\ agentOf[d] \in members[ch]
      /\ agentOf[d] # agentOf[c]
      /\ Fresh(d, m)
      /\ wire' = [wire EXCEPT ![d] = Append(@, m)]
      /\ UNCHANGED <<agentOf, members, sent>>

Next ==
  \/ \E c \in Conns : Submit(c) \/ \E a \in Agents : Identify(c, a)
  \/ \E c, d \in Conns, ch \in Channels :
       \E n \in 1..sent[c] : Deliver(d, c, n, ch)

Spec == Init /\ [][Next]_vars

================================================================================
