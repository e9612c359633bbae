------------------------------ MODULE FileReceiver -----------------------------
(******************************************************************************)
(* File reception, internal/filetransfer/transfer.go, with the messages of    *)
(* the transfers that reach one agent.  A transfer announces itself with      *)
(* file_meta, whose message identifier the receiver keeps it under; its       *)
(* file_data are looked up by their own identifier.  They come over several   *)
(* connections and from concurrent workers: in any order, perhaps never, and  *)
(* again when a sender retries; file_meta may come again too.  The chunk      *)
(* numbers are what the messages say: the receiver compares them with nothing *)
(* (index i here is ChunkIdx i - 1 there, and those above the announced total *)
(* stand for every number out of range).  file_done changes nothing here.     *)
(*                                                                            *)
(* Manager.mu is held for each call, so that each is a step.                  *)
(******************************************************************************)
EXTENDS Naturals, FiniteSets

CONSTANTS
  Transfers,  \* transfers sent to the agent, by the identifier of their file_meta
  FreshIds,   \* those whose file_data carry identifiers of their own
  Paths,      \* where files are put: the channel and the file name
  None,       \* no entry
  Hole,       \* no data at this place of a file
  MaxChunks   \* bound: chunks of a file

ASSUME ConstantsAssumption ==
  /\ FreshIds \subseteq Transfers
  /\ Hole \notin Transfers
  /\ MaxChunks \in Nat

Chunks == 1..MaxChunks
Blank  == [i \in Chunks |-> Hole]

(* What file_meta says, and what the receiver keeps of it. *)
Metas    == [path : Paths, total : 0..MaxChunks]
Incoming == [path : Paths, total : 0..MaxChunks, received : SUBSET Chunks,
             open : BOOLEAN]

ASSUME NoneAssumption == None \notin Metas \cup Incoming

VARIABLES
  shared,     \* the transfers under way, as their senders announced them
  incoming,   \* Manager.incoming
  disk,       \* the files: whose data there is at each place
  completed,  \* the transfers OnComplete was called for
  arrived,    \* history: the chunks that came and whose write did not fail
  faulty      \* history: their file could not be created, or not be opened
              \* (these three: since the last file_meta of the transfer)

vars == <<shared, incoming, disk, completed, arrived, faulty>>

(* An open file waits for more chunks, and for ever if it is to have none. *)
Waits(t) ==
  incoming[t].open =>
    incoming[t].total = 0 \/ Cardinality(incoming[t].received) < incoming[t].total

TypeOK ==
  /\ shared \in [Transfers -> Metas \cup {None}]
  /\ incoming \in [Transfers -> Incoming \cup {None}]
  /\ \A t \in Transfers : incoming[t] # None =>
       /\ shared[t] = [path |-> incoming[t].path, total |-> incoming[t].total]
       /\ Waits(t)
  /\ disk \in [Paths -> [Chunks -> Transfers \cup {Hole}]]
  /\ completed \subseteq Transfers
  /\ arrived \in [Transfers -> SUBSET Chunks]
  /\ faulty \subseteq Transfers

Init ==
  /\ shared = [t \in Transfers |-> None]
  /\ incoming = [t \in Transfers |-> None]
  /\ disk = [p \in Paths |-> Blank]
  /\ completed = {}
  /\ arrived = [t \in Transfers |-> {}]
  /\ faulty = {}

(* What a failed write of the chunk can leave at its place. *)
Spoilt(t, i) ==
  LET found == disk[incoming[t].path][i]
  IN  {found, IF found = t THEN t ELSE Hole}

--------------------------------------------------------------------------------
(* Deviations: plausible bugs of single operators, none of them part of Spec. *)

(* The file is complete with the chunk of the last number, not of the last    *)
(* one missing.                                                               *)
CompleteAtLast(t, received) == incoming[t].total \in received

(* One chunk more than was announced is waited for. *)
CompletePastEnd(t, received) == Cardinality(received) > incoming[t].total

(* A failed write counts as received. *)
WriteFailsMarked(t, i, left) ==
  /\ t \notin FreshIds /\ incoming[t] # None
  /\ incoming[t].open
  /\ left \in Spoilt(t, i)
  /\ disk' = [disk EXCEPT ![incoming[t].path][i] = left]
  /\ incoming' = [incoming EXCEPT ![t].received = @ \cup {i}]
  /\ UNCHANGED <<shared, completed, arrived, faulty>>

--------------------------------------------------------------------------------
(* file_meta                                                                  *)

(* A sender starts to share a file: its messages are under way. *)
Announce(t, m) ==
  /\ shared[t] = None
  /\ shared' = [shared EXCEPT ![t] = m]
  /\ UNCHANGED <<incoming, disk, completed, arrived, faulty>>

(* file_meta comes in, if it does.  PrepareIncoming creates the file, or      *)
(* empties the one that is there; it keeps the entry when it cannot.  When it *)
(* comes again, the transfer starts over: the file is emptied, and the entry  *)
(* replaced whatever was received, also if it was complete.                   *)
PrepareIncoming(t, created) ==
  /\ shared[t] # None
  /\ LET m == shared[t]
     IN  /\ incoming' = [incoming EXCEPT ![t] =
              [path |-> m.path, total |-> m.total, received |-> {}, open |-> created]]
         /\ disk' = IF created THEN [disk EXCEPT ![m.path] = Blank] ELSE disk
  /\ completed' = completed \ {t}
  /\ arrived' = [arrived EXCEPT ![t] = {}]
  /\ faulty' = IF created THEN faulty \ {t} ELSE faulty \cup {t}
  /\ UNCHANGED shared

--------------------------------------------------------------------------------
(* file_data                                                                  *)

(* A file_data of transfer t comes in that says it is chunk i.  Nothing       *)
(* compares i with the announced number.                                      *)
Arrives(t, i) == shared[t] # None /\ i \in Chunks

(* Its identifier is the key of an entry. *)
Known(t) == t \notin FreshIds /\ incoming[t] # None

(* "unknown transfer", an error the caller drops. *)
Unknown(t, i) ==
  /\ Arrives(t, i) /\ ~Known(t)
  /\ arrived' = IF incoming[t] = None THEN arrived
                ELSE [arrived EXCEPT ![t] = @ \cup {i}]
  /\ UNCHANGED <<shared, incoming, disk, completed, faulty>>

(* WriteAt fails, perhaps half way, which spoils the place unless the same    *)
(* data were there already.  The chunk is not marked.                         *)
WriteFails(t, i, left) ==
  /\ Arrives(t, i) /\ Known(t) /\ incoming[t].open
  /\ left \in Spoilt(t, i)
  /\ disk' = [disk EXCEPT ![incoming[t].path][i] = left]
  /\ UNCHANGED <<shared, incoming, completed, arrived, faulty>>

(* All chunks are there, it seems: as many of them as were announced. *)
Complete(t, received) == Cardinality(received) = incoming[t].total

(* The chunk is written, unless there is no open file, and marked.  The last  *)
(* one closes the file; it is opened again to be hashed, and is reported if   *)
(* that works.  The hash is compared with nothing.                            *)
AddChunk(t, i, opened) ==
  /\ Arrives(t, i) /\ Known(t)
  /\ disk' = IF incoming[t].open THEN [disk EXCEPT ![incoming[t].path][i] = t]
                                 ELSE disk
  /\ arrived' = [arrived EXCEPT ![t] = @ \cup {i}]
  /\ LET received == incoming[t].received \cup {i}
         last     == Complete(t, received)
     IN  /\ incoming' = [incoming EXCEPT ![t].received = received,
                                         ![t].open = @ /\ ~last]
         /\ completed' = IF last /\ opened THEN completed \cup {t} ELSE completed
         /\ faulty' = IF last /\ ~opened THEN faulty \cup {t} ELSE faulty
  /\ UNCHANGED shared

--------------------------------------------------------------------------------
FileMeta(t) ==
  (\E m \in Metas : Announce(t, m)) \/ (\E b \in BOOLEAN : PrepareIncoming(t, b))

FileData(t, i) ==
  \/ Unknown(t, i)
  \/ \E left \in Transfers \cup {Hole} : WriteFails(t, i, left)
  \/ \E opened \in BOOLEAN : AddChunk(t, i, opened)

Next == \E t \in Transfers : FileMeta(t) \/ \E i \in Chunks : FileData(t, i)

Spec == Init /\ [][Next]_vars

--------------------------------------------------------------------------------
(* Another transfer was announced for the same channel and file name. *)
Contested(t) ==
  \E u \in Transfers \ {t} : shared[u] # None /\ shared[u].path = shared[t].path

(* The places of a file where a transfer has put its data. *)
Held(t) == {i \in Chunks : disk[shared[t].path][i] = t}

(* A file that is reported complete holds as many chunks as its sender        *)
(* announced, and if none came that says it is beyond them, the sender's data *)
(* at every place: whatever arrived twice, in another order, or could at      *)
(* first not be written, unless two transfers share the file.  (AddChunk and  *)
(* assemble, which count the chunks and do not look at their numbers.)        *)
ContentIsSent ==
  \A t \in completed \ faulty : ~Contested(t) =>
    /\ Cardinality(Held(t)) = shared[t].total
    /\ arrived[t] \subseteq 1..shared[t].total =>
         \A i \in 1..shared[t].total : disk[shared[t].path][i] = t

(* Conversely, a file of which everything arrived is reported complete        *)
(* ("Trigger OnComplete callback", docs/architecture.md:99).  An empty file,  *)
(* which has no chunks, is not.                                               *)
CompletesWhenAll ==
  \A t \in Transfers \ faulty :
    incoming[t] # None /\ incoming[t].total > 0
      /\ 1..incoming[t].total \subseteq arrived[t]
    => t \in completed

================================================================================
