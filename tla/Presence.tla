-------------------------------- MODULE Presence -------------------------------
(******************************************************************************)
(* Who an agent takes to be online: the map of internal/p2p/p2p.go and the    *)
(* two sets of cmd/lan-a2a/main.go.  They are told by browsing with mDNS, by  *)
(* inbound connections and their ends, and by the lists of the relay; a timer *)
(* forgets peers that were not heard of for too long.                         *)
(*                                                                            *)
(* Time is counted in units of 5 seconds, the length of a browse.  A callback *)
(* takes no time, but for the one that connects to a relay.                   *)
(******************************************************************************)
EXTENDS Naturals

CONSTANTS
  Peers,  \* the other agents
  Conns,  \* bound: the connections a peer may have open to the agent
  None    \* no entry, nobody

ASSUME NoneAssumption == None \notin Peers \cup Nat

(* In units: an entry that was last renewed n units ago may be older than 30  *)
(* seconds (what lies between is n - 1 to n + 1 units long), and surely is    *)
(* (also if up to four pauses in between were 2 seconds shorter than a unit). *)
MayBeStale == 6
Stale      == 9

(* Calls of browseAll are counted up to the first one that a tick starts. *)
Ticking == 6

VARIABLES
  online,   \* p2p.online: the units since LastSeen, up to Stale
  listen,   \* the entries whose Addr is where the peer listens
  profiled, \* the entries with a Profile
  dialling, \* the peer that OpenConn is in the handshake with
  lan,      \* agent.lanOnline
  relayed,  \* agent.relayOnline
  browse,   \* what the discovery goroutine is at
  pause,    \* units it has still to wait
  round,    \* its browseAll calls
  heard,    \* peers whose answer to this browse is under way
  marking,  \* the peer that onFound is at, between its two calls
  handler,  \* handleWS, for each connection of a peer
  up,       \* peers that run
  members,  \* peers the relay has registered
  found,    \* peers whose answer to this browse was handled
  silent    \* history: peers that did not answer the last browse; all peers
            \* while a connection to a relay keeps the next one waiting

entryVars    == <<online, listen, profiled>>
presenceVars == <<entryVars, lan, relayed>>
browseVars   == <<browse, pause, round>>
vars == <<presenceVars, dialling, browseVars, heard, marking, handler, up, members,
          found, silent>>

TypeOK ==
  /\ online \in [Peers -> 0..Stale \cup {None}]
  /\ listen \cup profiled \subseteq {p \in Peers : online[p] # None}
  /\ dialling \in Peers \cup {None}
  /\ lan \subseteq Peers /\ relayed \subseteq Peers
  /\ browse \in {"peers", "relays", "pause"}
  /\ pause \in Nat /\ (browse = "pause" <=> pause > 0)
  /\ round \in 1..Ticking
  /\ heard \subseteq Peers /\ (browse # "peers" => heard = {})
  /\ marking \in Peers \cup {None}
  /\ handler \in [Peers -> [Conns -> {"none", "reading", "closing"}]]
  /\ up \subseteq Peers /\ members \subseteq Peers
  /\ found \subseteq Peers /\ silent \subseteq Peers

Init ==
  /\ online = [p \in Peers |-> None] /\ listen = {} /\ profiled = {}
  /\ dialling = None /\ lan = {} /\ relayed = {}
  /\ browse = "peers" /\ pause = 0 /\ round = 1
  /\ heard = {} /\ marking = None
  /\ handler = [p \in Peers |-> [c \in Conns |-> "none"]]
  /\ up \in SUBSET Peers /\ members = {}
  /\ found = {} /\ silent = {}

--------------------------------------------------------------------------------
(* Deviations: plausible bugs of single operators, none of them part of Spec. *)

(* Once it is running, discovery pauses for a period after each browse. *)
PauseLong(n) == IF n < 5 THEN 1 ELSE 4

(* A sighting renews the entry that is there, with the address it has. *)
MarkOnlineKeeps ==
  /\ marking # None
  /\ online' = [online EXCEPT ![marking] = 0]
  /\ listen' = IF online[marking] = None THEN listen \cup {marking} ELSE listen
  /\ found' = found \cup {marking}
  /\ marking' = None
  /\ UNCHANGED <<profiled, dialling, lan, relayed, browseVars, heard, handler, up,
                 members, silent>>

(* OpenConn puts the profile into the entry it read, which may be gone. *)
StoreProfileAnyhow(p) ==
  /\ dialling = p /\ dialling' = None
  /\ profiled' = profiled \cup {p}
  /\ UNCHANGED <<online, listen, lan, relayed, browseVars, heard, marking, handler,
                 up, members, found, silent>>

(* The list of the relay is added to what is known. *)
RelayListAdded ==
  /\ relayed' = relayed \cup members
  /\ UNCHANGED <<entryVars, dialling, lan, browseVars, heard, marking, handler, up,
                 members, found, silent>>

--------------------------------------------------------------------------------
(* Discovery, by one goroutine: browse for peers, browse for relays, pause.   *)

(* browseAll runs at once, after pauses of 3, 3, 3 and 5 seconds, and then at *)
(* the ticks of 10 seconds: the first has a whole period to wait for, the     *)
(* later ones come while the browse is still going on.                        *)
Pause(n) == IF n < 5 THEN 1 ELSE IF n = 5 THEN 2 ELSE 0

(* The entry of p when it is renewed, LastSeen being now. *)
Renewed(p) == [online EXCEPT ![p] = 0]

(* onFound, for an answer that has come: markLANOnline ... *)
Found(p) ==
  /\ p \in heard /\ marking = None
  /\ heard' = heard \ {p}
  /\ lan' = lan \cup {p}
  /\ marking' = p
  /\ UNCHANGED <<entryVars, dialling, relayed, browseVars, handler, up, members,
                 found, silent>>

(* ... and MarkOnline: always a new entry, with the address of the answer and *)
(* without a profile.                                                         *)
MarkOnline ==
  /\ marking # None
  /\ online' = Renewed(marking)
  /\ listen' = listen \cup {marking} /\ profiled' = profiled \ {marking}
  /\ found' = found \cup {marking}
  /\ marking' = None
  /\ UNCHANGED <<dialling, lan, relayed, browseVars, heard, handler, up, members,
                 silent>>

(* A unit of time passes, with all callbacks done. *)
Older ==
  online' = [p \in Peers |-> IF online[p] \in 0..Stale - 1 THEN online[p] + 1
                                                           ELSE online[p]]

Tick(next, n) ==
  /\ heard = {} /\ marking = None
  /\ Older
  /\ browse' = next /\ pause' = n
  /\ UNCHANGED <<listen, profiled, dialling, lan, relayed, heard, marking, handler,
                 up, members>>

BrowsePeers ==
  /\ browse = "peers" /\ Tick("relays", 0)
  /\ silent' = Peers \ found
  /\ UNCHANGED <<round, found>>

(* browseAll runs anew. *)
BrowseAll ==
  /\ round' = IF round < Ticking THEN round + 1 ELSE round
  /\ found' = {}
  /\ UNCHANGED silent

BrowseRelays ==
  /\ browse = "relays"
  /\ IF Pause(round) > 0
       THEN Tick("pause", Pause(round)) /\ UNCHANGED <<round, found, silent>>
       ELSE Tick("peers", 0) /\ BrowseAll

(* onRelay: discovery goes on only when Connect has returned. *)
ConnectRelay ==
  /\ browse = "relays" /\ Tick("relays", 0)
  /\ silent' = Peers
  /\ UNCHANGED <<round, found>>

Wait ==
  /\ browse = "pause"
  /\ IF pause > 1
       THEN Tick("pause", pause - 1) /\ UNCHANGED <<round, found, silent>>
       ELSE Tick("peers", 0) /\ BrowseAll

Discovery == BrowsePeers \/ BrowseRelays \/ Wait

(* cleanupStalePeers.  Its ticks of 10 seconds may fall anywhere. *)
CleanupStalePeers(stale) ==
  /\ stale \subseteq {p \in Peers : online[p] \in MayBeStale..Stale}
  /\ {p \in Peers : online[p] = Stale} \subseteq stale
  /\ online' = [p \in Peers |-> IF p \in stale THEN None ELSE online[p]]
  /\ listen' = listen \ stale /\ profiled' = profiled \ stale
  /\ UNCHANGED <<dialling, lan, relayed, browseVars, heard, marking, handler, up,
                 members, found, silent>>

--------------------------------------------------------------------------------
(* Inbound connections                                                        *)

(* handleWS: the handshake has succeeded.  Renews the entry, which keeps its  *)
(* address, or makes one with the address that the connection came from,      *)
(* where nobody listens.  A profile may have come along (shown).              *)
Accept(p, c, shown) ==
  /\ handler[p][c] = "none" /\ p \in up
  /\ handler' = [handler EXCEPT ![p][c] = "reading"]
  /\ online' = Renewed(p)
  /\ profiled' = profiled \cup shown
  /\ UNCHANGED <<listen, dialling, lan, relayed, browseVars, heard, marking, up,
                 members, found, silent>>

(* A goodbye, or the connection is lost: removeOnline ... *)
RemoveOnline(p, c) ==
  /\ handler[p][c] = "reading"
  /\ handler' = [handler EXCEPT ![p][c] = "closing"]
  /\ online' = [online EXCEPT ![p] = None]
  /\ listen' = listen \ {p} /\ profiled' = profiled \ {p}
  /\ UNCHANGED <<dialling, lan, relayed, browseVars, heard, marking, up, members,
                 found, silent>>

(* ... and OnGoodbye: markLANOffline. *)
OnGoodbye(p, c) ==
  /\ handler[p][c] = "closing"
  /\ handler' = [handler EXCEPT ![p][c] = "none"]
  /\ lan' = lan \ {p} /\ relayed' = relayed \ {p}
  /\ UNCHANGED <<entryVars, dialling, browseVars, heard, marking, up, members,
                 found, silent>>

--------------------------------------------------------------------------------
(* Outbound connections                                                       *)

(* OpenConn, called by the one loop that serves tools: it reads the address   *)
(* of the entry, and a peer that listens there accepts.  A dial or handshake  *)
(* that fails changes nothing here.                                           *)
OpenConn(p) ==
  /\ dialling = None /\ p \in listen \cap up
  /\ dialling' = p
  /\ UNCHANGED <<presenceVars, browseVars, heard, marking, handler, up, members,
                 found, silent>>

(* The handshake has ended.  A profile that came is stored if there is still  *)
(* an entry, which may be another one by now.                                 *)
StoreProfile(p) ==
  /\ dialling = p /\ dialling' = None
  /\ profiled' \in {profiled, profiled \cup {q \in {p} : online[q] # None}}
  /\ UNCHANGED <<online, listen, lan, relayed, browseVars, heard, marking, handler,
                 up, members, found, silent>>

--------------------------------------------------------------------------------
(* The relay                                                                  *)

(* OnOnlineList: markRelayOnline replaces what was known by the agents the     *)
(* relay had registered when it answered (one that left the relay since shows *)
(* as one the relay has still to deregister).                                 *)
RelayList ==
  /\ relayed' = members
  /\ UNCHANGED <<entryVars, dialling, lan, browseVars, heard, marking, handler, up,
                 members, found, silent>>

--------------------------------------------------------------------------------
(* The peers                                                                  *)

Answer(p) ==
  /\ browse = "peers" /\ p \in up /\ p \notin heard \cup found /\ marking # p
  /\ heard' = heard \cup {p}
  /\ UNCHANGED <<presenceVars, dialling, browseVars, marking, handler, up, members,
                 found, silent>>

Starts(p) ==
  /\ p \notin up /\ up' = up \cup {p}
  /\ UNCHANGED <<presenceVars, dialling, browseVars, heard, marking, handler,
                 members, found, silent>>

(* A peer ends or crashes.  It closes its connections or they are lost. *)
Ends(p) ==
  /\ p \in up /\ up' = up \ {p}
  /\ UNCHANGED <<presenceVars, dialling, browseVars, heard, marking, handler,
                 members, found, silent>>

(* The relay registers a peer, and deregisters it when its connection ends. *)
Joins(p) ==
  /\ p \in up \ members /\ members' = members \cup {p}
  /\ UNCHANGED <<presenceVars, dialling, browseVars, heard, marking, handler, up,
                 found, silent>>

Leaves(p) ==
  /\ p \in members /\ members' = members \ {p}
  /\ UNCHANGED <<presenceVars, dialling, browseVars, heard, marking, handler, up,
                 found, silent>>

--------------------------------------------------------------------------------
HandleWS(p, c) ==
  \/ \E shown \in SUBSET {p} : Accept(p, c, shown)
  \/ RemoveOnline(p, c) \/ OnGoodbye(p, c)

Next ==
  \/ Discovery \/ ConnectRelay \/ MarkOnline
  \/ \E stale \in SUBSET Peers : CleanupStalePeers(stale)
  \/ \E p \in Peers : \/ Found(p) \/ Answer(p) \/ Starts(p) \/ Ends(p)
                      \/ Joins(p) \/ Leaves(p)
                      \/ OpenConn(p) \/ StoreProfile(p)
                      \/ \E c \in Conns : HandleWS(p, c)
  \/ RelayList

Spec == Init /\ [][Next]_vars

(* Goroutines run and the timer fires; Connect returns.  A peer that runs     *)
(* answers a browse now and then; the connections of one that has ended are   *)
(* found dead, here and at the relay, whose answers arrive now and then.       *)
Fairness ==
  /\ WF_vars(Discovery) /\ WF_vars(MarkOnline)
  /\ WF_vars(\E stale \in SUBSET Peers : CleanupStalePeers(stale))
  /\ WF_vars(RelayList)
  /\ \A p \in Peers :
       /\ WF_vars(Found(p)) /\ SF_vars(Answer(p))
       /\ WF_vars(p \notin up /\ Leaves(p))
       /\ WF_vars(p \notin up /\ \E c \in Conns : RemoveOnline(p, c))
       /\ WF_vars(p \notin up /\ \E c \in Conns : OnGoodbye(p, c))

FairSpec == Spec /\ Fairness

--------------------------------------------------------------------------------
(* The timer never takes a peer for stale that answered the last browse: two  *)
(* sightings are never more than 30 seconds apart, unless the agent was busy  *)
(* connecting to a relay (StartDiscovery, MarkOnline, cleanupStalePeers).     *)
TimerSparesAnswering ==
  [][\A p \in Peers :
       (\E stale \in SUBSET Peers : p \in stale /\ CleanupStalePeers(stale))
         => p \in silent]_vars

(* A peer that is gone disappears from the online map, and from what the relay *)
(* told, whatever answers, lists and connections were still under way (stale  *)
(* peer cleanup, docs/architecture.md:125-131): it does not stay away for     *)
(* ever and known for ever.                                                   *)
GoneForgotten ==
  \A p \in Peers : []<>(p \in up \/ (online[p] = None /\ p \notin relayed))

(* A peer that runs gets into both maps, with an address where it can be      *)
(* dialled, also if connections of its come and close again and again         *)
(* ("aware of online status", docs/architecture.md:33).                       *)
RunningIsKnown ==
  \A p \in Peers : []<>(p \notin up \/ p \in listen) /\ []<>(p \notin up \/ p \in lan)

================================================================================
