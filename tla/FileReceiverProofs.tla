--------------------------- MODULE FileReceiverProofs --------------------------
(******************************************************************************)
(* Proofs about FileReceiver: its type invariant, that a file reported        *)
(* complete holds what was sent, that a file that arrived is reported, and    *)
(* what happens to chunks that come late, under an unknown identifier or      *)
(* under a number beyond the announced total.                                 *)
(******************************************************************************)
EXTENDS FileReceiver, FiniteSetTheorems, TLAPS

--------------------------------------------------------------------------------
(* What the receiver keeps of a transfer, field by field. *)
LEMMA IncomingType ==
  ASSUME TypeOK, NEW t \in Transfers, incoming[t] # None
  PROVE  /\ incoming[t] \in Incoming
         /\ incoming[t].path \in Paths /\ incoming[t].total \in Nat
         /\ incoming[t].received \in SUBSET Chunks
         /\ incoming[t].open \in BOOLEAN
         /\ shared[t] # None /\ shared[t].path = incoming[t].path
         /\ shared[t].total = incoming[t].total
<1>1. incoming[t] \in Incoming
  BY DEF TypeOK
<1>2. /\ incoming[t].path \in Paths /\ incoming[t].total \in 0..MaxChunks
      /\ incoming[t].received \in SUBSET Chunks /\ incoming[t].open \in BOOLEAN
  BY <1>1 DEF Incoming
<1>3. shared[t] = [path |-> incoming[t].path, total |-> incoming[t].total]
  BY DEF TypeOK
<1>4. shared[t] \in Metas
  BY <1>2, <1>3 DEF Metas
<1> QED
  BY <1>1, <1>2, <1>3, <1>4, ConstantsAssumption, NoneAssumption

(* There are finitely many chunks in any set of them. *)
LEMMA FiniteChunks == ASSUME NEW r \in SUBSET Chunks PROVE IsFiniteSet(r)
<1>1. IsFiniteSet(Chunks)
  BY ConstantsAssumption, FS_Interval DEF Chunks
<1> QED
  BY <1>1, FS_Subset

(* Chunks can be counted, and one more counts for one at most. *)
LEMMA CountChunks ==
  ASSUME NEW r \in SUBSET Chunks, NEW i \in Chunks
  PROVE  /\ IsFiniteSet(r) /\ Cardinality(r) \in Nat
         /\ Cardinality(r \cup {i}) \in Nat
         /\ Cardinality(r \cup {i}) <= Cardinality(r) + 1
         /\ i \in r => Cardinality(r \cup {i}) = Cardinality(r)
<1>1. IsFiniteSet(r) /\ Cardinality(r) \in Nat
  BY FiniteChunks, FS_CardinalityType
<1>2. Cardinality(r \cup {i}) = IF i \in r THEN Cardinality(r) ELSE Cardinality(r) + 1
  BY <1>1, FS_AddElement
<1> QED
  BY <1>1, <1>2

(* As many chunks as announced, or more, are at the announced places or else  *)
(* leave one of these out.                                                    *)
LEMMA AllOrHole ==
  ASSUME NEW n \in Nat, NEW r, IsFiniteSet(r), 1..n \subseteq r
  PROVE  /\ Cardinality(r) \in Nat /\ n <= Cardinality(r)
         /\ Cardinality(r) = n => r = 1..n
<1>1. Cardinality(1..n) = n
  BY FS_Interval
<1>2. Cardinality(r) \in Nat
  BY FS_CardinalityType
<1>3. Cardinality(1..n) <= Cardinality(r) /\ (Cardinality(r) = Cardinality(1..n) => r = 1..n)
  <2> DEFINE s == 1..n
  <2>1. s \in SUBSET r
    OBVIOUS
  <2> HIDE DEF s
  <2>2. Cardinality(s) <= Cardinality(r) /\ (Cardinality(r) = Cardinality(s) => r = s)
    BY <2>1, FS_Subset
  <2> QED
    BY <2>2 DEF s
<1> QED
  BY <1>1, <1>2, <1>3

(* Conversely, chunks of the announced numbers are all of them if there are   *)
(* as many as announced.                                                      *)
LEMMA AllByCount ==
  ASSUME NEW n \in Nat, NEW r \in SUBSET (1..n), Cardinality(r) = n
  PROVE  r = 1..n
<1>1. IsFiniteSet(1..n) /\ Cardinality(1..n) = n
  BY FS_Interval
<1> DEFINE s == 1..n
<1>2. IsFiniteSet(s) /\ Cardinality(s) = n /\ r \in SUBSET s
  BY <1>1
<1> HIDE DEF s
<1>3. r = s
  BY <1>2, FS_Subset
<1> QED
  BY <1>3 DEF s

(* A chunk more does not fill an open file, unless it completes it. *)
LEMMA StillWaits ==
  ASSUME TypeOK, NEW t \in Transfers, incoming[t] # None, incoming[t].open,
         NEW i \in Chunks, ~Complete(t, incoming[t].received \cup {i})
  PROVE  \/ incoming[t].total = 0
         \/ Cardinality(incoming[t].received \cup {i}) < incoming[t].total
<1> DEFINE r == incoming[t].received
           n == incoming[t].total
<1>1. r \in SUBSET Chunks /\ n \in Nat
  BY IncomingType
<1>2. n = 0 \/ Cardinality(r) < n
  BY DEF TypeOK, Waits
<1>3. Cardinality(r \cup {i}) # n
  BY DEF Complete
<1> HIDE DEF r, n
<1>4. n = 0 \/ Cardinality(r \cup {i}) < n
  BY <1>1, <1>2, <1>3, CountChunks
<1> QED
  BY <1>4 DEF r, n

(* A step that leaves a transfer's entry as it is leaves it waiting. *)
LEMMA WaitsKept ==
  ASSUME NEW t \in Transfers, incoming'[t] = incoming[t], Waits(t)
  PROVE  Waits(t)'
BY DEF Waits

--------------------------------------------------------------------------------
(* The entry that file_meta leaves, whether it comes first or again. *)
LEMMA PrepareEntry ==
  ASSUME TypeOK, NEW t \in Transfers, NEW b \in BOOLEAN, PrepareIncoming(t, b)
  PROVE  /\ shared[t] \in Metas /\ incoming'[t] \in Incoming /\ incoming'[t] # None
         /\ incoming'[t].path = shared[t].path
         /\ incoming'[t].total = shared[t].total
         /\ incoming'[t].received = {} /\ incoming'[t].open = b
         /\ shared[t] = [path |-> incoming'[t].path, total |-> incoming'[t].total]
         /\ \A u \in Transfers \ {t} : incoming'[u] = incoming[u]
<1> DEFINE new == [path |-> shared[t].path, total |-> shared[t].total,
                   received |-> {}, open |-> b]
<1>1. shared[t] \in Metas
  BY DEF PrepareIncoming, TypeOK
<1>2. new \in Incoming /\ shared[t] = [path |-> new.path, total |-> new.total]
  BY <1>1 DEF Metas, Incoming
<1>3. incoming' = [incoming EXCEPT ![t] = new]
  BY DEF PrepareIncoming
<1>4. incoming'[t] = new /\ \A u \in Transfers \ {t} : incoming'[u] = incoming[u]
  BY <1>3 DEF TypeOK
<1> QED
  BY <1>1, <1>2, <1>4, NoneAssumption

(* The entry that AddChunk leaves: a chunk more is marked, *)
LEMMA AddChunkEntry ==
  ASSUME TypeOK, NEW t \in Transfers, NEW i \in Chunks, NEW opened \in BOOLEAN,
         AddChunk(t, i, opened)
  PROVE  /\ t \notin FreshIds /\ incoming[t] # None /\ incoming'[t] # None
         /\ incoming'[t] \in Incoming
         /\ incoming'[t].path = incoming[t].path
         /\ incoming'[t].total = incoming[t].total
         /\ incoming'[t].received = incoming[t].received \cup {i}
         /\ \A u \in Transfers \ {t} : incoming'[u] = incoming[u]
<1> DEFINE r == incoming[t].received \cup {i}
           o == incoming[t].open /\ ~Complete(t, r)
<1>1. t \notin FreshIds /\ incoming[t] # None
  BY DEF AddChunk, Known
<1>2. incoming[t] \in Incoming /\ r \in SUBSET Chunks /\ o \in BOOLEAN
  BY <1>1, IncomingType
<1>3. incoming' = [incoming EXCEPT ![t].received = r, ![t].open = o]
  BY DEF AddChunk
<1> HIDE DEF r, o
<1>4. /\ incoming'[t] = [incoming[t] EXCEPT !.received = r, !.open = o]
      /\ \A u \in Transfers \ {t} : incoming'[u] = incoming[u]
  BY <1>3 DEF TypeOK
<1>5. incoming'[t] \in Incoming
  BY <1>2, <1>4 DEF Incoming
<1>6. /\ incoming'[t].path = incoming[t].path /\ incoming'[t].received = r
      /\ incoming'[t].total = incoming[t].total
  BY <1>2, <1>4 DEF Incoming
<1>7. incoming'[t] # None
  BY <1>5, NoneAssumption
<1> QED
  BY <1>1, <1>4, <1>5, <1>6, <1>7 DEF r

(* and the file is closed if that completes it. *)
LEMMA AddChunkCloses ==
  ASSUME TypeOK, NEW t \in Transfers, NEW i \in Chunks, NEW opened \in BOOLEAN,
         AddChunk(t, i, opened)
  PROVE  incoming'[t].open
           = (incoming[t].open /\ ~Complete(t, incoming[t].received \cup {i}))
<1> DEFINE r == incoming[t].received \cup {i}
           o == incoming[t].open /\ ~Complete(t, r)
<1>1. incoming[t] \in Incoming
  BY IncomingType DEF AddChunk, Known
<1>2. incoming' = [incoming EXCEPT ![t].received = r, ![t].open = o]
  BY DEF AddChunk
<1> HIDE DEF r, o
<1>3. incoming'[t].open = o
  BY <1>1, <1>2 DEF TypeOK, Incoming
<1> QED
  BY <1>3 DEF r, o

--------------------------------------------------------------------------------
(* The first state is of its type. *)
LEMMA TypeInit == Init => TypeOK
BY DEF Init, TypeOK, Blank

(* Every state is of its type, for any transfers and files: the receiver      *)
(* keeps what file_meta announced, and a file is open only while chunks are   *)
(* missing from the count.  (PrepareIncoming, AddChunk, assemble.)            *)
THEOREM TypeCorrect == Spec => []TypeOK
<1>1. Init => TypeOK
  BY TypeInit
<1>2. TypeOK /\ [Next]_vars => TypeOK'
  <2> SUFFICES ASSUME TypeOK, [Next]_vars PROVE TypeOK'
    OBVIOUS
  <2>1. ASSUME NEW t \in Transfers, NEW m \in Metas, Announce(t, m)
        PROVE  TypeOK'
    <3>1. incoming[t] = None
      BY <2>1, IncomingType DEF Announce
    <3> QED
      BY <2>1, <3>1 DEF Announce, TypeOK, Waits
  <2>2. ASSUME NEW t \in Transfers, NEW b \in BOOLEAN, PrepareIncoming(t, b)
        PROVE  TypeOK'
    <3>1. /\ incoming'[t] \in Incoming
          /\ shared[t] = [path |-> incoming'[t].path, total |-> incoming'[t].total]
          /\ \A u \in Transfers \ {t} : incoming'[u] = incoming[u]
      BY <2>2, PrepareEntry
    <3>2. Waits(t)'
      <4>1. /\ shared[t] \in Metas /\ incoming'[t].total = shared[t].total
            /\ incoming'[t].received = {}
        BY <2>2, PrepareEntry
      <4>2. shared[t].total \in Nat
        BY <4>1, ConstantsAssumption DEF Metas
      <4>3. Cardinality({}) = 0
        BY FS_EmptySet
      <4> QED
        BY <4>1, <4>2, <4>3 DEF Waits
    <3>3. \A u \in Transfers : incoming'[u] # None =>
            /\ shared[u] = [path |-> incoming'[u].path, total |-> incoming'[u].total]
            /\ Waits(u)'
      BY <3>1, <3>2, WaitsKept DEF TypeOK
    <3>4. /\ disk' \in [Paths -> [Chunks -> Transfers \cup {Hole}]]
          /\ shared' = shared /\ arrived' \in [Transfers -> SUBSET Chunks]
          /\ completed' \subseteq Transfers /\ faulty' \subseteq Transfers
      BY <2>2 DEF PrepareIncoming, TypeOK, Blank
    <3>5. incoming' \in [Transfers -> Incoming \cup {None}]
      BY <2>2, <3>1 DEF PrepareIncoming, TypeOK
    <3> QED
      BY <3>3, <3>4, <3>5 DEF TypeOK
  <2>3. ASSUME NEW t \in Transfers, NEW i \in Chunks, Unknown(t, i)
        PROVE  TypeOK'
    BY <2>3 DEF Unknown, TypeOK, Waits
  <2>4. ASSUME NEW t \in Transfers, NEW i \in Chunks,
               NEW left \in Transfers \cup {Hole}, WriteFails(t, i, left)
        PROVE  TypeOK'
    BY <2>4 DEF WriteFails, TypeOK, Waits
  <2>5. ASSUME NEW t \in Transfers, NEW i \in Chunks, NEW opened \in BOOLEAN,
               AddChunk(t, i, opened)
        PROVE  TypeOK'
    <3>1. /\ incoming[t] # None /\ incoming'[t] \in Incoming
          /\ incoming'[t].path = incoming[t].path
          /\ incoming'[t].total = incoming[t].total
          /\ \A u \in Transfers \ {t} : incoming'[u] = incoming[u]
      BY <2>5, AddChunkEntry
    <3>2. Waits(t)'
      <4> DEFINE r == incoming[t].received \cup {i}
      <4>1. /\ incoming[t] # None
            /\ incoming'[t].total = incoming[t].total /\ incoming'[t].received = r
        BY <2>5, AddChunkEntry
      <4>2. incoming'[t].open = (incoming[t].open /\ ~Complete(t, r))
        BY <2>5, AddChunkCloses
      <4>3. incoming[t].open /\ ~Complete(t, r) =>
              incoming[t].total = 0 \/ Cardinality(r) < incoming[t].total
        BY <4>1, StillWaits, Zenon
      <4> HIDE DEF r
      <4> QED
        BY <4>1, <4>2, <4>3 DEF Waits
    <3>3. \A u \in Transfers : incoming'[u] # None =>
            /\ shared[u] = [path |-> incoming'[u].path, total |-> incoming'[u].total]
            /\ Waits(u)'
      BY <3>1, <3>2, WaitsKept DEF TypeOK
    <3>4. /\ disk' \in [Paths -> [Chunks -> Transfers \cup {Hole}]]
          /\ shared' = shared /\ arrived' \in [Transfers -> SUBSET Chunks]
          /\ completed' \subseteq Transfers /\ faulty' \subseteq Transfers
      BY <2>5 DEF AddChunk, TypeOK
    <3>5. incoming' \in [Transfers -> Incoming \cup {None}]
      BY <2>5, <3>1 DEF AddChunk, TypeOK
    <3> QED
      BY <3>3, <3>4, <3>5 DEF TypeOK
  <2>6. CASE UNCHANGED vars
    BY <2>6 DEF vars, TypeOK, Waits
  <2> QED
    BY <2>1, <2>2, <2>3, <2>4, <2>5, <2>6 DEF Next, FileMeta, FileData
<1> QED
  BY <1>1, <1>2, PTL DEF Spec

--------------------------------------------------------------------------------
(* The inductive invariant, transfer by transfer.  The chunks that are marked *)
(* are the ones that came; while the file is open, they are what it holds.    *)
(* It is closed, and reported, when it holds as many chunks as announced, and *)
(* what comes later is marked but not written.                                *)
Marked(t)   == t \notin FreshIds => arrived[t] = incoming[t].received
Filled(t)   == /\ Held(t) \subseteq incoming[t].received
               /\ Cardinality(Held(t)) = incoming[t].total
Kept(t)     == t \notin faulty /\ ~Contested(t) =>
                 IF incoming[t].open THEN Held(t) = incoming[t].received
                                     ELSE Filled(t)
Reported(t) == t \notin faulty /\ ~incoming[t].open => t \in completed

Sound(t) ==
  /\ incoming[t] = None => t \notin completed /\ arrived[t] = {}
  /\ incoming[t] # None =>
       /\ t \in completed => ~incoming[t].open /\ t \notin FreshIds
       /\ Marked(t) /\ Kept(t) /\ Reported(t)

RInv == TypeOK /\ \A t \in Transfers : Sound(t)

(* A step that leaves all that is known of a transfer as it is. *)
LEMMA SoundKept ==
  ASSUME NEW u \in Transfers, Sound(u), incoming'[u] = incoming[u],
         arrived'[u] = arrived[u], u \in completed' <=> u \in completed,
         u \in faulty' <=> u \in faulty, Contested(u) => Contested(u)',
         incoming[u] # None =>
           /\ shared'[u] = shared[u]
           /\ ~Contested(u)' => disk'[shared[u].path] = disk[shared[u].path]
  PROVE  Sound(u)'
<1>1. ASSUME incoming[u] # None, ~Contested(u)' PROVE Held(u)' = Held(u)
  BY <1>1 DEF Held
<1> QED
  BY <1>1 DEF Sound, Marked, Filled, Kept, Reported

(* A file that two transfers write to is contested. *)
LEMMA SharedIsContested ==
  ASSUME NEW t \in Transfers, NEW u \in Transfers \ {t},
         shared[t] # None, ~Contested(u)
  PROVE  shared[t].path # shared[u].path
BY DEF Contested

(* One step of the induction. *)
LEMMA RInvStep == RInv /\ TypeOK' /\ [Next]_vars => RInv'
<1> SUFFICES ASSUME RInv, TypeOK', [Next]_vars, NEW u \in Transfers
             PROVE  Sound(u)'
  BY DEF RInv
<1>0. TypeOK /\ Sound(u)
  BY DEF RInv
<1>1. ASSUME NEW t \in Transfers, NEW m \in Metas, Announce(t, m)
      PROVE  Sound(u)'
  <2>1. \A w \in Transfers : shared[w] # None => shared'[w] = shared[w]
    BY <1>0, <1>1 DEF Announce, TypeOK
  <2>2. CASE shared[u] = None
    <3>1. incoming[u] = None
      BY <1>0, <2>2, IncomingType
    <3> QED
      BY <1>0, <1>1, <3>1 DEF Announce, Sound
  <2>3. CASE shared[u] # None
    <3>1. Contested(u) => Contested(u)'
      BY <2>1, <2>3 DEF Contested
    <3> QED
      BY <1>0, <1>1, <2>1, <2>3, <3>1, SoundKept DEF Announce
  <2> QED
    BY <2>2, <2>3
<1>2. ASSUME NEW t \in Transfers, NEW b \in BOOLEAN, PrepareIncoming(t, b)
      PROVE  Sound(u)'
  <2>1. shared' = shared /\ (Contested(u)' <=> Contested(u))
    BY <1>2 DEF PrepareIncoming, Contested
  <2>2. CASE u # t
    <3>1. /\ incoming'[u] = incoming[u] /\ arrived'[u] = arrived[u]
          /\ (u \in completed' <=> u \in completed)
          /\ (u \in faulty' <=> u \in faulty)
      BY <1>0, <1>2, <2>2 DEF PrepareIncoming, TypeOK
    <3>2. ASSUME incoming[u] # None, ~Contested(u)
          PROVE  disk'[shared[u].path] = disk[shared[u].path]
      <4>1. shared[t] # None /\ shared[t].path # shared[u].path
        BY <1>2, <2>2, <3>2, SharedIsContested DEF PrepareIncoming
      <4>2. shared[u].path \in Paths
        BY <1>0, <3>2, IncomingType
      <4> QED
        BY <1>0, <1>2, <4>1, <4>2 DEF PrepareIncoming, TypeOK
    <3> QED
      BY <1>0, <2>1, <3>1, <3>2, SoundKept
  <2>3. CASE u = t
    <3>1. /\ incoming'[u] # None /\ incoming'[u].received = {}
          /\ incoming'[u].open = b /\ incoming'[u].total = shared[u].total
      BY <1>0, <1>2, <2>3, PrepareEntry
    <3>2. /\ u \notin completed' /\ arrived'[u] = {}
          /\ b \/ u \in faulty'
      BY <1>0, <1>2, <2>3 DEF PrepareIncoming, TypeOK
    <3>3. b => Held(u)' = {}
      <4>1. shared[u].path \in Paths
        BY <1>0, <1>2, <2>3, PrepareEntry DEF Metas
      <4>2. b => disk'[shared[u].path] = Blank
        BY <1>0, <1>2, <2>3, <4>1 DEF PrepareIncoming, TypeOK
      <4> QED
        BY <2>1, <4>2, ConstantsAssumption DEF Held, Blank
    <3> QED
      BY <3>1, <3>2, <3>3 DEF Sound, Marked, Kept, Reported
  <2> QED
    BY <2>2, <2>3
<1>3. ASSUME NEW t \in Transfers, NEW i \in Chunks, Unknown(t, i)
      PROVE  Sound(u)'
  <2>1. /\ UNCHANGED <<shared, incoming, disk, completed, faulty>>
        /\ Contested(u)' <=> Contested(u)
    BY <1>3 DEF Unknown, Contested
  <2>2. CASE arrived'[u] = arrived[u]
    BY <1>0, <2>1, <2>2, SoundKept
  <2>3. CASE arrived'[u] # arrived[u]
    <3>1. u \in FreshIds /\ incoming[u] # None
      BY <1>0, <1>3, <2>3 DEF Unknown, Known, TypeOK
    <3>2. Held(u)' = Held(u)
      BY <2>1 DEF Held
    <3> QED
      BY <1>0, <2>1, <3>1, <3>2 DEF Sound, Marked, Filled, Kept, Reported
  <2> QED
    BY <2>2, <2>3
<1>4. ASSUME NEW t \in Transfers, NEW i \in Chunks,
             NEW left \in Transfers \cup {Hole}, WriteFails(t, i, left)
      PROVE  Sound(u)'
  <2>1. /\ UNCHANGED <<shared, incoming, completed, arrived, faulty>>
        /\ Contested(u)' <=> Contested(u)
        /\ shared[t] # None /\ incoming[t] # None
        /\ disk' = [disk EXCEPT ![incoming[t].path][i] = left]
    BY <1>4 DEF WriteFails, Arrives, Known, Contested
  <2>2. incoming[t].path = shared[t].path
    BY <1>0, <2>1, IncomingType
  <2>3. ASSUME incoming[u] # None, ~Contested(u)
        PROVE  Held(u)' = Held(u)
    <3>1. shared[u].path \in Paths
      BY <1>0, <2>3, IncomingType
    <3>2. CASE u # t
      <4>1. shared[t].path # shared[u].path
        BY <2>1, <2>3, <3>2, SharedIsContested
      <4> QED
        BY <1>0, <2>1, <2>2, <3>1, <4>1 DEF TypeOK, Held
    <3>3. CASE u = t
      <4>1. left = u <=> disk[shared[u].path][i] = u
        BY <1>4, <2>2, <3>3, ConstantsAssumption DEF WriteFails, Spoilt
      <4> QED
        BY <1>0, <2>1, <2>2, <3>1, <3>3, <4>1 DEF TypeOK, Held
    <3> QED
      BY <3>2, <3>3
  <2> QED
    BY <1>0, <2>1, <2>3 DEF Sound, Marked, Filled, Kept, Reported
<1>5. ASSUME NEW t \in Transfers, NEW i \in Chunks, NEW opened \in BOOLEAN,
             AddChunk(t, i, opened)
      PROVE  Sound(u)'
  <2> DEFINE r    == incoming[t].received \cup {i}
             last == Complete(t, r)
  <2>1. /\ shared' = shared /\ (Contested(u)' <=> Contested(u))
        /\ shared[t] # None
    BY <1>5 DEF AddChunk, Arrives, Contested
  <2>2. /\ t \notin FreshIds /\ incoming[t] # None /\ incoming'[t] # None
        /\ incoming'[t].total = incoming[t].total
        /\ incoming'[t].received = r
        /\ \A w \in Transfers \ {t} : incoming'[w] = incoming[w]
    BY <1>0, <1>5, AddChunkEntry
  <2>3. incoming'[t].open = (incoming[t].open /\ ~last)
    BY <1>0, <1>5, AddChunkCloses
  <2>4. /\ completed' = IF last /\ opened THEN completed \cup {t} ELSE completed
        /\ faulty' = IF last /\ ~opened THEN faulty \cup {t} ELSE faulty
        /\ arrived' = [arrived EXCEPT ![t] = @ \cup {i}]
        /\ disk' = IF incoming[t].open
                     THEN [disk EXCEPT ![incoming[t].path][i] = t] ELSE disk
    BY <1>5 DEF AddChunk
  <2>5. incoming[t].path = shared[t].path /\ shared[t].path \in Paths
    BY <1>0, <2>2, IncomingType
  <2> HIDE DEF last
  <2>6. CASE u # t
    <3>1. /\ incoming'[u] = incoming[u] /\ arrived'[u] = arrived[u]
          /\ (u \in completed' <=> u \in completed)
          /\ (u \in faulty' <=> u \in faulty)
      BY <1>0, <2>2, <2>4, <2>6 DEF TypeOK
    <3>2. ASSUME incoming[u] # None, ~Contested(u)
          PROVE  disk'[shared[u].path] = disk[shared[u].path]
      <4>1. shared[t].path # shared[u].path
        BY <2>1, <2>6, <3>2, SharedIsContested
      <4>2. shared[u].path \in Paths
        BY <1>0, <3>2, IncomingType
      <4> QED
        BY <1>0, <2>4, <2>5, <4>1, <4>2 DEF TypeOK
    <3> QED
      BY <1>0, <2>1, <3>1, <3>2, SoundKept
  <2>7. CASE u = t
    <3>1. Marked(u)'
      BY <1>0, <2>2, <2>4, <2>7 DEF TypeOK, Sound, Marked
    <3>2. Reported(u)'
      BY <1>0, <2>2, <2>3, <2>4, <2>7 DEF Sound, Reported
    <3>3. u \in completed' => ~incoming'[u].open /\ u \notin FreshIds
      BY <1>0, <2>2, <2>3, <2>4, <2>7 DEF Sound
    <3>4. Kept(u)'
      <4> SUFFICES ASSUME u \notin faulty', ~Contested(u)
                   PROVE  IF incoming'[u].open THEN Held(u)' = r ELSE Filled(u)'
        BY <2>1, <2>2, <2>7 DEF Kept
      <4>1. Kept(u) /\ u \notin faulty
        BY <1>0, <2>2, <2>4, <2>7 DEF Sound
      <4>2. CASE incoming[u].open
        <5>1. Held(u) = incoming[u].received
          BY <4>1, <4>2 DEF Kept
        <5>2. Held(u)' = Held(u) \cup {i}
          BY <1>0, <2>1, <2>4, <2>5, <2>7, <4>2 DEF TypeOK, Held
        <5>3. Held(u)' = r
          BY <2>7, <5>1, <5>2
        <5>4. last => Cardinality(Held(u)') = incoming'[u].total
          BY <2>2, <2>7, <5>3 DEF last, Complete
        <5> QED
          BY <2>2, <2>3, <2>7, <4>2, <5>3, <5>4 DEF Filled
      <4>3. CASE ~incoming[u].open
        <5>1. Filled(u)
          BY <4>1, <4>3 DEF Kept
        <5>2. Held(u)' = Held(u)
          BY <2>1, <2>4, <2>7, <4>3 DEF Held
        <5> QED
          BY <2>2, <2>3, <2>7, <4>3, <5>1, <5>2 DEF Filled
      <4> QED
        BY <4>2, <4>3
    <3> QED
      BY <2>2, <2>7, <3>1, <3>2, <3>3, <3>4 DEF Sound
  <2> QED
    BY <2>6, <2>7
<1>6. CASE UNCHANGED vars
  <2>1. Contested(u)' <=> Contested(u)
    BY <1>6 DEF vars, Contested
  <2> QED
    BY <1>0, <1>6, <2>1, SoundKept DEF vars
<1> QED
  BY <1>1, <1>2, <1>3, <1>4, <1>5, <1>6 DEF Next, FileMeta, FileData

(* The invariant holds in every state. *)
THEOREM Invariant == Spec => []RInv
<1>1. Init => RInv
  BY TypeInit DEF RInv, Init, Sound
<1>2. RInv /\ TypeOK' /\ [Next]_vars => RInv'
  BY RInvStep
<1> QED
  BY <1>1, <1>2, TypeCorrect, PTL DEF Spec

(* What the invariant says of a file that was reported and is its own. *)
LEMMA ReportedIsFilled ==
  ASSUME RInv, NEW t \in completed \ faulty, ~Contested(t)
  PROVE  /\ t \in Transfers /\ shared[t].total \in Nat
         /\ Cardinality(Held(t)) = shared[t].total /\ Held(t) \subseteq arrived[t]
         /\ IsFiniteSet(Held(t))
<1>1. t \in Transfers /\ TypeOK /\ Sound(t)
  BY DEF RInv, TypeOK
<1>2. incoming[t] # None /\ Filled(t) /\ Marked(t) /\ t \notin FreshIds
  BY <1>1 DEF Sound, Kept
<1>3. shared[t].total = incoming[t].total /\ shared[t].total \in Nat
  BY <1>1, <1>2, IncomingType
<1>4. Held(t) \in SUBSET Chunks
  BY DEF Held
<1>5. IsFiniteSet(Held(t))
  BY <1>4, FiniteChunks
<1> QED
  BY <1>1, <1>2, <1>3, <1>5 DEF Filled, Marked

(* A file reported complete holds as many chunks as were announced, and all   *)
(* of them if none came under a number beyond, unless another transfer shares *)
(* the file: for any number of transfers, files and chunks, and whatever was  *)
(* repeated, file_meta included, reordered or could not be written.           *)
(* (AddChunk and assemble.)                                                   *)
THEOREM CompleteIsCorrect == Spec => []ContentIsSent
<1>1. RInv => ContentIsSent
  <2> SUFFICES ASSUME RInv, NEW t \in completed \ faulty, ~Contested(t)
               PROVE  /\ Cardinality(Held(t)) = shared[t].total
                      /\ arrived[t] \subseteq 1..shared[t].total =>
                           \A i \in 1..shared[t].total : disk[shared[t].path][i] = t
    BY DEF ContentIsSent
  <2>1. /\ shared[t].total \in Nat /\ Cardinality(Held(t)) = shared[t].total
        /\ Held(t) \subseteq arrived[t]
    BY ReportedIsFilled
  <2>2. ASSUME arrived[t] \subseteq 1..shared[t].total,
               NEW i \in 1..shared[t].total
        PROVE  disk[shared[t].path][i] = t
    <3>1. Held(t) \in SUBSET (1..shared[t].total)
      BY <2>1, <2>2
    <3>2. i \in Held(t)
      BY <2>1, <3>1, AllByCount
    <3> QED
      BY <3>2 DEF Held
  <2> QED
    BY <2>1, <2>2
<1> QED
  BY <1>1, Invariant, PTL

(* A reported file with a chunk beyond the announced number has a hole. *)
StrayIsHole ==
  \A t \in completed \ faulty :
    ~Contested(t) /\ ~(Held(t) \subseteq 1..shared[t].total) =>
      \E i \in 1..shared[t].total : disk[shared[t].path][i] # t

(* The price of counting the chunks without a look at their numbers: whenever *)
(* a chunk beyond the announced number was counted towards completion, a      *)
(* place of the reported file is without its data.  (AddChunk,                *)
(* internal/filetransfer/transfer.go:92-95.)                                  *)
THEOREM StrayLeavesHole == Spec => []StrayIsHole
<1>1. RInv => StrayIsHole
  <2> SUFFICES ASSUME RInv, NEW t \in completed \ faulty, ~Contested(t),
                      \A i \in 1..shared[t].total : disk[shared[t].path][i] = t
               PROVE  Held(t) \subseteq 1..shared[t].total
    BY DEF StrayIsHole
  <2>1. /\ t \in Transfers /\ shared[t].total \in Nat /\ IsFiniteSet(Held(t))
        /\ Cardinality(Held(t)) = shared[t].total
    BY ReportedIsFilled
  <2>2. shared[t] \in Metas
    <3>1. incoming[t] # None
      BY <2>1 DEF RInv, Sound
    <3> QED
      BY <2>1, <3>1, IncomingType DEF RInv, TypeOK
  <2>3. 1..shared[t].total \subseteq Chunks
    BY <2>2, ConstantsAssumption DEF Metas, Chunks
  <2>4. 1..shared[t].total \subseteq Held(t)
    BY <2>3 DEF Held
  <2>5. Held(t) = 1..shared[t].total
    BY <2>1, <2>4, AllOrHole
  <2> QED
    BY <2>5
<1> QED
  BY <1>1, Invariant, PTL

(* If file_data carry the identifier of their file_meta, every file that      *)
(* arrived, and has chunks, is reported complete, whatever came beside its    *)
(* chunks.  (AddChunk, assemble.)                                             *)
THEOREM ArrivedIsReported ==
  ASSUME FreshIds = {}
  PROVE  Spec => []CompletesWhenAll
<1>1. RInv => CompletesWhenAll
  <2> SUFFICES ASSUME RInv, NEW t \in Transfers \ faulty, incoming[t] # None,
                      incoming[t].total > 0, 1..incoming[t].total \subseteq arrived[t]
               PROVE  t \in completed
    BY DEF CompletesWhenAll
  <2>1. TypeOK /\ arrived[t] = incoming[t].received /\ Reported(t)
    BY DEF RInv, Sound, Marked
  <2>2. incoming[t].total \in Nat /\ IsFiniteSet(incoming[t].received)
    BY <2>1, IncomingType, FiniteChunks
  <2>3. /\ Cardinality(incoming[t].received) \in Nat
        /\ incoming[t].total <= Cardinality(incoming[t].received)
    BY <2>1, <2>2, AllOrHole
  <2>4. ~incoming[t].open
    BY <2>1, <2>2, <2>3 DEF TypeOK, Waits
  <2> QED
    BY <2>1, <2>4 DEF Reported
<1> QED
  BY <1>1, Invariant, PTL

--------------------------------------------------------------------------------
(* Whose data a file may hold, also one that several transfers share.         *)

(* Data at a place of a file was sent for it: by a transfer to this file,     *)
(* whose file_data the receiver knows and that marked the chunk, unless its   *)
(* file_meta came again and the file could not be created anew.               *)
InItsPlace ==
  \A p \in Paths : \A i \in Chunks : \A t \in Transfers : disk[p][i] = t =>
    /\ t \notin FreshIds
    /\ incoming[t] # None /\ incoming[t].path = p
    /\ i \in incoming[t].received \/ t \in faulty

(* Nothing of a transfer with identifiers of its own is marked or reported.   *)
FreshIsLost ==
  \A t \in FreshIds :
    t \notin completed /\ (incoming[t] # None => incoming[t].received = {})

AInv == InItsPlace /\ FreshIsLost

(* No file holds anything at first. *)
LEMMA InitAInv == Init => AInv
BY ConstantsAssumption DEF Init, AInv, InItsPlace, FreshIsLost, Blank

(* One step of the induction. *)
LEMMA NextAInv == TypeOK /\ TypeOK' /\ AInv /\ [Next]_vars => AInv'
<1> SUFFICES ASSUME TypeOK, TypeOK', AInv, [Next]_vars PROVE AInv'
  OBVIOUS
<1> USE DEF AInv, InItsPlace, FreshIsLost
<1>0. completed \subseteq Transfers /\ FreshIds \subseteq Transfers /\ Hole \notin Transfers
  BY ConstantsAssumption DEF TypeOK
<1>1. ASSUME UNCHANGED <<incoming, disk, completed, faulty>> PROVE AInv'
  BY <1>1
<1>2. ASSUME NEW t \in Transfers, NEW m \in Metas, Announce(t, m) PROVE AInv'
  BY <1>1, <1>2 DEF Announce
<1>3. ASSUME NEW t \in Transfers, NEW b \in BOOLEAN, PrepareIncoming(t, b) PROVE AInv'
  <2>1. /\ shared[t].path \in Paths
        /\ incoming'[t] # None /\ incoming'[t].path = shared[t].path
        /\ incoming'[t].received = {}
        /\ \A u \in Transfers \ {t} : incoming'[u] = incoming[u]
    <3>1. /\ shared[t] \in Metas
          /\ incoming'[t] # None /\ incoming'[t].path = shared[t].path
          /\ incoming'[t].received = {}
          /\ \A u \in Transfers \ {t} : incoming'[u] = incoming[u]
      BY <1>3, PrepareEntry
    <3> QED
      BY <3>1 DEF Metas
  <2>2. /\ completed' = completed \ {t}
        /\ faulty' = IF b THEN faulty \ {t} ELSE faulty \cup {t}
        /\ disk' = IF b THEN [disk EXCEPT ![shared[t].path] = Blank] ELSE disk
    BY <1>3 DEF PrepareIncoming
  <2>3. incoming[t] # None => incoming[t].path = shared[t].path
    BY IncomingType
  <2>4. \A p \in Paths : \A i \in Chunks : \A u \in Transfers :
          disk'[p][i] = u => disk[p][i] = u /\ (b => p # shared[t].path)
    BY <1>0, <2>1, <2>2 DEF Blank, TypeOK
  <2>5. InItsPlace'
    <3> SUFFICES ASSUME NEW p \in Paths, NEW i \in Chunks, NEW u \in Transfers,
                        disk'[p][i] = u
                 PROVE  /\ u \notin FreshIds /\ incoming'[u] # None
                        /\ incoming'[u].path = p
                        /\ i \in incoming'[u].received \/ u \in faulty'
      OBVIOUS
    <3>1. disk[p][i] = u /\ (b => p # shared[t].path)
      BY <2>4
    <3>2. CASE u = t
      BY <2>1, <2>2, <2>3, <3>1, <3>2
    <3>3. CASE u # t
      BY <2>1, <2>2, <3>1, <3>3
    <3> QED
      BY <3>2, <3>3
  <2>6. FreshIsLost'
    BY <1>0, <2>1, <2>2
  <2> QED
    BY <2>5, <2>6
<1>4. ASSUME NEW t \in Transfers, NEW i \in Chunks, Unknown(t, i) PROVE AInv'
  BY <1>1, <1>4 DEF Unknown
<1>5. ASSUME NEW t \in Transfers, NEW i \in Chunks,
             NEW left \in Transfers \cup {Hole}, WriteFails(t, i, left)
      PROVE  AInv'
  <2>1. /\ incoming[t].path \in Paths /\ UNCHANGED <<incoming, completed, faulty>>
        /\ disk' = [disk EXCEPT ![incoming[t].path][i] = left]
        /\ left \in {disk[incoming[t].path][i], Hole}
    BY <1>5, IncomingType DEF WriteFails, Known, Spoilt
  <2>2. \A p \in Paths : \A j \in Chunks : \A u \in Transfers :
          disk'[p][j] = u => disk[p][j] = u
    BY <1>0, <2>1 DEF TypeOK
  <2> QED
    BY <2>1, <2>2
<1>6. ASSUME NEW t \in Transfers, NEW i \in Chunks, NEW opened \in BOOLEAN,
             AddChunk(t, i, opened)
      PROVE  AInv'
  <2> DEFINE r == incoming[t].received \cup {i}
  <2>1. /\ t \notin FreshIds /\ incoming[t] # None /\ incoming'[t] # None
        /\ incoming'[t].path = incoming[t].path /\ incoming'[t].received = r
        /\ \A u \in Transfers \ {t} : incoming'[u] = incoming[u]
    BY <1>6, AddChunkEntry
  <2>2. completed' \subseteq completed \cup {t} /\ faulty \subseteq faulty'
    BY <1>6 DEF AddChunk
  <2> HIDE DEF r
  <2>3. incoming[t].path \in Paths
    BY <2>1, IncomingType
  <2>4. disk' = disk \/ disk' = [disk EXCEPT ![incoming[t].path][i] = t]
    BY <1>6 DEF AddChunk
  <2>5. \A p \in Paths : \A j \in Chunks : \A u \in Transfers :
          disk'[p][j] = u =>
            disk[p][j] = u \/ (p = incoming[t].path /\ j = i /\ u = t)
    BY <2>3, <2>4 DEF TypeOK
  <2>6. InItsPlace'
    <3> SUFFICES ASSUME NEW p \in Paths, NEW j \in Chunks, NEW u \in Transfers,
                        disk'[p][j] = u
                 PROVE  /\ u \notin FreshIds /\ incoming'[u] # None
                        /\ incoming'[u].path = p
                        /\ j \in incoming'[u].received \/ u \in faulty'
      OBVIOUS
    <3>1. CASE disk[p][j] = u
      BY <2>1, <2>2, <3>1 DEF r
    <3>2. CASE disk[p][j] # u
      BY <2>1, <2>5, <3>2 DEF r
    <3> QED
      BY <3>1, <3>2
  <2>7. FreshIsLost'
    BY <1>0, <2>1, <2>2
  <2> QED
    BY <2>6, <2>7
<1>7. CASE UNCHANGED vars
  BY <1>1, <1>7 DEF vars
<1> QED
  BY <1>2, <1>3, <1>4, <1>5, <1>6, <1>7 DEF Next, FileMeta, FileData

(* AInv is an invariant of the receiver. *)
LEMMA AInvariant == Spec => []AInv
BY InitAInv, NextAInv, TypeCorrect, PTL DEF Spec

(* A file never holds data that was not sent for it: what stands at place i   *)
(* is chunk i of a transfer to this very file.  Two transfers to one file may *)
(* mix their chunks, but nothing comes in from a third.                       *)
THEOREM DataInItsPlace == Spec => []InItsPlace
<1>1. AInv => InItsPlace
  BY DEF AInv
<1> QED
  BY <1>1, AInvariant, PTL

FreshNeverArrives ==
  \A t \in FreshIds :
    t \notin completed /\ \A p \in Paths : \A i \in Chunks : disk[p][i] # t

(* If the file_data of a transfer carry identifiers of their own, as          *)
(* SendFile gives them, then whatever arrives, and however often, nothing of  *)
(* it is written and it is never reported complete.                           *)
THEOREM FreshIdsNeverComplete == Spec => []FreshNeverArrives
<1>1. AInv => FreshNeverArrives
  BY ConstantsAssumption DEF AInv, FreshIsLost, InItsPlace, FreshNeverArrives
<1> QED
  BY <1>1, AInvariant, PTL

LateIsIgnored ==
  \A t \in completed \cap completed' :
    ~Contested(t) => disk'[shared[t].path] = disk[shared[t].path]

(* The entry of a transfer is kept after its file is complete, and retries    *)
(* of its chunks still find it.  They do not touch the file any more, nor     *)
(* does anything else, unless its own file_meta comes again, or another       *)
(* transfer was announced for it.                                             *)
THEOREM LateChunksIgnored == Spec => [][LateIsIgnored]_vars
<1>1. RInv /\ [Next]_vars => [LateIsIgnored]_vars
  <2> SUFFICES ASSUME RInv, Next, NEW t \in completed \cap completed', ~Contested(t)
               PROVE  disk'[shared[t].path] = disk[shared[t].path]
    BY DEF LateIsIgnored
  <2>0. TypeOK /\ t \in Transfers /\ Sound(t)
    BY DEF RInv, TypeOK
  <2>1. incoming[t] # None /\ ~incoming[t].open /\ shared[t].path \in Paths
    BY <2>0, IncomingType DEF Sound
  <2>2. ASSUME NEW u \in Transfers, NEW b \in BOOLEAN, PrepareIncoming(u, b)
        PROVE  disk'[shared[t].path] = disk[shared[t].path]
    <3>1. u # t /\ shared[u] # None
      BY <2>2 DEF PrepareIncoming
    <3>2. shared[u].path # shared[t].path
      BY <3>1 DEF Contested
    <3> QED
      BY <2>0, <2>1, <2>2, <3>2 DEF PrepareIncoming, TypeOK
  <2>3. ASSUME NEW u \in Transfers, NEW i \in Chunks,
               \/ \E left \in Transfers \cup {Hole} : WriteFails(u, i, left)
               \/ \E opened \in BOOLEAN : AddChunk(u, i, opened)
        PROVE  disk'[shared[t].path] = disk[shared[t].path]
    <3>1. incoming[u] # None /\ shared[u] # None
      BY <2>3 DEF WriteFails, AddChunk, Known, Arrives
    <3>2. incoming[u].path = shared[u].path
      BY <2>0, <3>1, IncomingType
    <3>3. CASE u = t
      BY <2>1, <2>3, <3>3 DEF WriteFails, AddChunk
    <3>4. CASE u # t
      <4>1. incoming[u].path # shared[t].path
        BY <3>1, <3>2, <3>4 DEF Contested
      <4> QED
        BY <2>0, <2>1, <2>3, <4>1 DEF WriteFails, AddChunk, TypeOK
    <3> QED
      BY <3>3, <3>4
  <2> QED
    BY <2>2, <2>3 DEF Next, FileMeta, FileData, Announce, Unknown
<1> QED
  BY <1>1, Invariant, PTL DEF Spec

================================================================================
