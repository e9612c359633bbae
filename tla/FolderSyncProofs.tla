---------------------------- MODULE FolderSyncProofs ---------------------------
(******************************************************************************)
(* Proofs about FolderSync: its type invariant, that every change an          *)
(* undisturbed sync finds reaches the agent, and that all these syncs compare *)
(* with the first one.                                                        *)
(******************************************************************************)
EXTENDS FolderSync, TLAPS

--------------------------------------------------------------------------------
(* What the folder holds are entries. *)
LEMMA FolderType ==
  ASSUME TypeOK
  PROVE  Folder \in [Names -> Entry]
<1>1. saved \notin {Absent, Torn} => saved.at \in 0..MaxSyncs
  BY DEF TypeOK, Manifests
<1>2. \A n \in Names : n # Manifest => disk[n] \in Entry
  BY DEF TypeOK, Names, Entry
<1> QED
  BY <1>1, <1>2 DEF Folder, Entry

(* A user's file is walked as it is on disk. *)
LEMMA FolderFile ==
  ASSUME NEW f \in Files
  PROVE  f \in Names /\ f # Manifest /\ Folder[f] = disk[f]
BY ConstantsAssumption DEF Folder, Names

(* Touching transfers keeps them transfers. *)
LEMMA TouchType ==
  ASSUME TypeOK, NEW n \in Names
  PROVE  Touch(n) \subseteq Transfers
<1> SUFFICES ASSUME NEW t \in transfers
             PROVE  (IF t.name = n THEN [t EXCEPT !.split = Torn] ELSE t) \in Transfers
  BY DEF Touch
<1>1. t \in Transfers
  BY DEF TypeOK
<1>2. Torn \in Entry \ {Absent}
  BY ConstantsAssumption DEF Entry
<1> QED
  BY <1>1, <1>2 DEF Transfers

(* A scan is a manifest. *)
LEMMA ScanType ==
  ASSUME TypeOK, NEW p \in Peers, NEW u \in SUBSET Names, Scan(p, u)
  PROVE  /\ current' \in [Names -> Entry] /\ syncs' \in 0..MaxSyncs
         /\ manifest' \in Manifests
<1>1. current' \in [Names -> Entry]
  BY FolderType DEF Scan, Entry
<1>2. syncs' \in 0..MaxSyncs
  BY ConstantsAssumption DEF Scan, TypeOK
<1>3. manifest' \in Manifests
  BY <1>1, <1>2 DEF Scan, Manifests
<1> QED
  BY <1>1, <1>2, <1>3

(* Every state is of its type, for any folder and any number of syncs. *)
THEOREM TypeCorrect == Spec => []TypeOK
<1>1. Init => TypeOK
  <2> SUFFICES ASSUME Init PROVE TypeOK
    OBVIOUS
  <2>1. Nothing \in [Names -> Entry]
    BY DEF Nothing, Entry
  <2>2. copy \in [Peers -> [Names -> Entry]]
    BY <2>1 DEF Init
  <2>3. 0 \in 0..MaxSyncs /\ 0 \in 0..MaxEdits
    BY ConstantsAssumption
  <2>4. disturbed \in BOOLEAN /\ marred \in BOOLEAN
    BY DEF Init
  <2> QED
    BY <2>1, <2>2, <2>3, <2>4 DEF Init, TypeOK
<1>2. TypeOK /\ [Next]_vars => TypeOK'
  <2> SUFFICES ASSUME TypeOK, [Next]_vars PROVE TypeOK'
    OBVIOUS
  <2> USE ConstantsAssumption
  <2>0. Nothing \in [Names -> Entry] /\ Folder \in [Names -> Entry]
    BY FolderType DEF Nothing, Entry
  <2>1. ASSUME NEW p \in Peers, NEW u \in SUBSET Names, Scan(p, u)
        PROVE  TypeOK'
    BY <2>1, ScanType DEF Scan, TypeOK, folderVars
  <2>2. ASSUME NEW found \in BOOLEAN, Load(found)
        PROVE  TypeOK'
    <3>1. found => saved \in Manifests
      BY <2>2 DEF Load, Stored, TypeOK
    <3>2. old' \in [Names -> Entry]
      BY <2>0, <2>2, <3>1 DEF Load, Manifests
    <3>3. manifest' \in Manifests \cup {Absent}
      BY <2>2, <3>1 DEF Load, TypeOK
    <3> QED
      BY <2>2, <3>2, <3>3 DEF Load, TypeOK, Added, Modified, folderVars
  <2>3. ASSUME NEW n \in Names, SendFile(n)
        PROVE  TypeOK'
    <3>1. [to |-> peer, name |-> n, split |-> Folder[n], sync |-> syncs] \in Transfers
      BY <2>0, <2>3 DEF SendFile, TypeOK, Transfers
    <3> QED
      BY <2>3, <3>1 DEF SendFile, Take, TypeOK, folderVars, historyVars
  <2>4. ASSUME NEW n \in Names, SendFileFails(n)
        PROVE  TypeOK'
    BY <2>4 DEF SendFileFails, Take, TypeOK, folderVars, memoryVars
  <2>5. CASE SendingDone
    BY <2>5 DEF SendingDone, TypeOK, folderVars, memoryVars, historyVars
  <2>6. ASSUME NEW r \in {ToSave, saved, Torn}, SaveManifest(r)
        PROVE  TypeOK'
    <3>1. transfers' \subseteq Transfers
      BY <2>6, TouchType DEF SaveManifest, Names
    <3>2. saved' \in Manifests \cup {Absent, Torn}
      BY <2>6 DEF SaveManifest, ToSave, TypeOK
    <3>3. marred' \in BOOLEAN
      BY <2>6 DEF SaveManifest, TypeOK
    <3> QED
      BY <2>6, <3>1, <3>2, <3>3 DEF SaveManifest, TypeOK, folderVars
  <2>7. ASSUME NEW t \in transfers, TransferFails(t)
        PROVE  TypeOK'
    BY <2>7 DEF TransferFails, TypeOK, folderVars, syncVars
  <2>8. ASSUME NEW t \in transfers, NEW c \in Entry, Deliver(t, c)
        PROVE  TypeOK'
    <3>1. t.to \in Peers /\ t.name \in Names
      BY DEF TypeOK, Transfers
    <3>2. copy' \in [Peers -> [Names -> Entry]]
      BY <2>8, <3>1 DEF Deliver, TypeOK
    <3> QED
      BY <2>8, <3>2 DEF Deliver, TypeOK, folderVars, syncVars, historyVars
  <2>9. ASSUME NEW f \in Files, NEW c \in Contents \cup {Absent}, Edit(f, c)
        PROVE  TypeOK'
    <3>1. transfers' \subseteq Transfers
      BY <2>9, TouchType DEF Edit, Names
    <3> QED
      BY <2>9, <3>1 DEF Edit, TypeOK, syncVars, Quiet
  <2>10. ASSUME NEW damaged \in BOOLEAN, Crash(damaged)
         PROVE  TypeOK'
    BY <2>10 DEF Crash, TypeOK, folderVars
  <2>11. CASE UNCHANGED vars
    BY <2>11 DEF TypeOK, vars, folderVars, memoryVars, syncVars, historyVars
  <2> QED
    BY <2>1, <2>2, <2>3, <2>4, <2>5, <2>6, <2>7, <2>8, <2>9, <2>10, <2>11
    DEF Next, SyncFolder
<1> QED
  BY <1>1, <1>2, PTL DEF Spec

--------------------------------------------------------------------------------
(* The changes of a sync on their way to the agent.                           *)

(* File f is the sync's to deliver: readable, and not as in the old manifest. *)
Changed(f) == current[f] \in Contents /\ current[f] # old[f]

(* A change is still on a list, or in a transfer, or with the agent. *)
OnItsWay ==
  pc # "load" => \A f \in Files : Changed(f) =>
    \/ f \in adds \cup modifies
    \/ \E t \in transfers : t.name = f
    \/ copy[peer][f] = current[f]

(* A transfer under way is the sync's own, and of the content it scanned. *)
Undisturbed ==
  \A f \in Files : current[f] \in Contents =>
    \A t \in transfers : t.name = f => t.to = peer /\ t.split = current[f]

(* As long as files are taken off the lists, they are as they were scanned. *)
AsScanned ==
  pc \in {"load", "sending"} =>
    \A f \in Files : current[f] \in Contents => disk[f] = current[f]

ListsEmpty == pc \in {"idle", "saving"} => adds \cup modifies = {}

FInv ==
  /\ ListsEmpty
  /\ ~disturbed => OnItsWay /\ Undisturbed /\ AsScanned
  /\ ~disturbed /\ pc = "load" => transfers = {}

(* Initially nothing was scanned. *)
LEMMA FInvInit == Init => FInv
BY ConstantsAssumption, FolderFile
DEF Init, FInv, ListsEmpty, OnItsWay, Undisturbed, AsScanned, Changed, Nothing

(* The steps of SyncFolder keep every change on its way. *)
LEMMA FInvSync == TypeOK /\ FInv /\ SyncFolder => FInv'
<1> SUFFICES ASSUME TypeOK, FInv, SyncFolder PROVE FInv'
  OBVIOUS
<1> USE ConstantsAssumption
<1>1. ASSUME NEW p \in Peers, NEW u \in SUBSET Names, Scan(p, u)
      PROVE  FInv'
  <2>1. \A f \in Files : current'[f] \in Contents => disk'[f] = current'[f]
    BY <1>1, FolderFile DEF Scan, folderVars
  <2>2. pc' = "load" /\ (~disturbed' => transfers' = {})
    BY <1>1 DEF Scan
  <2> QED
    BY <2>1, <2>2 DEF FInv, ListsEmpty, OnItsWay, Undisturbed, AsScanned
<1>2. ASSUME NEW found \in BOOLEAN, Load(found)
      PROVE  FInv'
  <2>1. pc' = "sending" /\ transfers' = transfers /\ current' = current
        /\ disturbed' = disturbed /\ disk' = disk /\ pc = "load"
    BY <1>2 DEF Load, folderVars
  <2>2. \A f \in Files : Changed(f)' => f \in (adds \cup modifies)'
    BY <1>2, FolderFile DEF Load, Changed, Added, Modified
  <2>3. OnItsWay' /\ ListsEmpty'
    BY <2>1, <2>2 DEF OnItsWay, ListsEmpty
  <2>4. ~disturbed' => Undisturbed' /\ AsScanned'
    BY <2>1 DEF FInv, Undisturbed, AsScanned
  <2> QED
    BY <2>1, <2>3, <2>4 DEF FInv
<1>3. ASSUME NEW n \in Names, SendFile(n)
      PROVE  FInv'
  <2> DEFINE t0 == [to |-> peer, name |-> n, split |-> Folder[n], sync |-> syncs]
  <2>1. /\ pc = "sending" /\ pc' = pc /\ current' = current /\ old' = old
        /\ peer' = peer /\ copy' = copy /\ disk' = disk /\ disturbed' = disturbed
        /\ transfers' = transfers \cup {t0}
        /\ adds' = adds \ {n} /\ modifies' = modifies \ {n}
    BY <1>3 DEF SendFile, Take, folderVars, historyVars
  <2>2. t0.name = n /\ t0.to = peer /\ t0.split = Folder[n]
    OBVIOUS
  <2> HIDE DEF t0
  <2>3. ~disturbed => OnItsWay'
    BY <2>1, <2>2 DEF FInv, OnItsWay, Changed
  <2>4. ~disturbed => Undisturbed'
    BY <2>1, <2>2, FolderFile DEF FInv, Undisturbed, AsScanned
  <2>5. ~disturbed => AsScanned'
    BY <2>1 DEF FInv, AsScanned
  <2> QED
    BY <2>1, <2>3, <2>4, <2>5 DEF FInv, ListsEmpty
<1>4. ASSUME NEW n \in Names, SendFileFails(n)
      PROVE  FInv'
  BY <1>4 DEF SendFileFails, Take, FInv, ListsEmpty
<1>5. CASE SendingDone
  BY <1>5 DEF SendingDone, FInv, ListsEmpty, OnItsWay, Undisturbed, AsScanned,
              Changed, folderVars, memoryVars, historyVars
<1>6. ASSUME NEW r \in {ToSave, saved, Torn}, SaveManifest(r)
      PROVE  FInv'
  <2>1. /\ pc = "saving" /\ pc' = "idle" /\ current' = current /\ old' = old
        /\ peer' = peer /\ copy' = copy /\ disturbed' = disturbed
        /\ adds' = adds /\ modifies' = modifies
        /\ transfers' = Touch(Manifest)
    BY <1>6 DEF SaveManifest
  <2>2. \A f \in Files : \A t \in transfers : t.name = f => t \in transfers'
    BY <2>1, FolderFile DEF Touch
  <2>3. \A f \in Files : \A t \in transfers' : t.name = f => t \in transfers
    <3> SUFFICES ASSUME NEW f \in Files, NEW t \in transfers, t.name = Manifest
                 PROVE  [t EXCEPT !.split = Torn].name # f
      BY <2>1 DEF Touch
    <3>1. t \in Transfers
      BY DEF TypeOK
    <3> QED
      BY <3>1, FolderFile DEF Transfers
  <2>4. ~disturbed => OnItsWay'
    BY <2>1, <2>2 DEF FInv, OnItsWay, Changed
  <2>5. ~disturbed => Undisturbed'
    BY <2>1, <2>3 DEF FInv, Undisturbed
  <2> QED
    BY <2>1, <2>4, <2>5 DEF FInv, ListsEmpty, AsScanned
<1> QED
  BY <1>1, <1>2, <1>3, <1>4, <1>5, <1>6 DEF SyncFolder

(* So do the transfers, the user and the process. *)
LEMMA FInvOther ==
  ASSUME TypeOK, FInv,
         \/ \E t \in transfers : TransferFails(t) \/ \E c \in Entry : Deliver(t, c)
         \/ \E f \in Files, c \in Contents \cup {Absent} : Edit(f, c)
         \/ \E damaged \in BOOLEAN : Crash(damaged)
  PROVE  FInv'
<1> USE ConstantsAssumption
<1>1. ASSUME NEW t \in transfers, TransferFails(t)
      PROVE  FInv'
  BY <1>1 DEF TransferFails, FInv, ListsEmpty, syncVars
<1>2. ASSUME NEW t \in transfers, NEW c \in Entry, Deliver(t, c)
      PROVE  FInv'
  <2>1. /\ pc' = pc /\ current' = current /\ old' = old /\ peer' = peer
        /\ disk' = disk /\ disturbed' = disturbed
        /\ adds' = adds /\ modifies' = modifies
        /\ transfers' = transfers \ {t}
        /\ copy' = [copy EXCEPT ![t.to][t.name] = c]
    BY <1>2 DEF Deliver, folderVars, syncVars, historyVars
  <2>2. t.to \in Peers /\ t.name \in Names /\ peer \in Peers
    BY DEF TypeOK, Transfers
  <2>3. ASSUME NEW f \in Files, ~disturbed, Changed(f)', OnItsWay, Undisturbed,
               pc # "load"
        PROVE  \/ f \in (adds \cup modifies)'
               \/ \E u \in transfers' : u.name = f
               \/ copy'[peer][f] = current[f]
    <3>1. CASE t.name = f
      <4>1. t.to = peer /\ t.split = current[f] /\ current[f] \in Contents
        BY <2>1, <2>3, <3>1 DEF Undisturbed, Changed
      <4>2. c = current[f]
        BY <1>2, <4>1 DEF Deliver
      <4> QED
        BY <2>1, <2>2, <3>1, <4>1, <4>2 DEF TypeOK
    <3>2. CASE t.name # f
      <4>1. copy'[peer][f] = copy[peer][f]
        BY <2>1, <2>2, <3>2, FolderFile DEF TypeOK
      <4> QED
        BY <2>1, <2>3, <3>2, <4>1 DEF OnItsWay, Changed
    <3> QED
      BY <3>1, <3>2
  <2>4. ~disturbed => OnItsWay'
    BY <2>1, <2>3 DEF OnItsWay, FInv
  <2> QED
    BY <2>1, <2>4 DEF FInv, ListsEmpty, Undisturbed, AsScanned
<1>3. ASSUME NEW f \in Files, NEW c \in Contents \cup {Absent}, Edit(f, c)
      PROVE  FInv'
  <2>1. UNCHANGED <<saved, manifest, syncVars, copy>>
        /\ disturbed' = (disturbed \/ ~Quiet) /\ transfers' = Touch(f)
    BY <1>3 DEF Edit
  <2>2. ListsEmpty'
    BY <2>1 DEF FInv, ListsEmpty, syncVars
  <2>3. CASE Quiet /\ ~disturbed
    <3>1. transfers = {} /\ transfers' = {} /\ pc = "idle"
      BY <2>1, <2>3 DEF Touch, Quiet
    <3> QED
      BY <2>1, <2>2, <2>3, <3>1
      DEF FInv, OnItsWay, Undisturbed, AsScanned, Changed, syncVars
  <2>4. CASE ~(Quiet /\ ~disturbed)
    <3>1. disturbed'
      BY <2>1, <2>4
    <3> QED
      BY <2>2, <3>1 DEF FInv
  <2> QED
    BY <2>3, <2>4
<1>4. ASSUME NEW damaged \in BOOLEAN, Crash(damaged)
      PROVE  FInv'
  BY <1>4 DEF Crash, FInv, ListsEmpty
<1> QED
  BY <1>1, <1>2, <1>3, <1>4

(* Whatever happened in earlier syncs, an undisturbed one delivers every file *)
(* that differs from the manifest it loaded.                                  *)
THEOREM ChangesArrive == Spec => []ChangedIsDelivered
<1>1. TypeOK /\ FInv /\ [Next]_vars => FInv'
  <2>1. TypeOK /\ FInv /\ Next => FInv'
    BY FInvSync, FInvOther DEF Next
  <2>2. FInv /\ UNCHANGED vars => FInv'
    BY DEF FInv, ListsEmpty, OnItsWay, Undisturbed, AsScanned, Changed,
           vars, folderVars, memoryVars, syncVars, historyVars
  <2> QED
    BY <2>1, <2>2
<1>2. FInv => ChangedIsDelivered
  BY DEF FInv, ListsEmpty, OnItsWay, Changed, ChangedIsDelivered, Quiet
<1> QED
  BY <1>1, <1>2, FInvInit, TypeCorrect, PTL DEF Spec

--------------------------------------------------------------------------------
(* The manifest that is never renewed.  Load replaces the scan in             *)
(* fsync.manifests by the manifest it finds in the folder, and that is what   *)
(* SaveManifest writes at the end of the sync.                                *)

(* As long as nothing fails: the folder has no manifest until the end of the  *)
(* first sync, and that of the first scan ever after.                         *)
FirstSaved ==
  /\ saved # Torn
  /\ saved = Absent <=> syncs = 0 \/ (syncs = 1 /\ pc # "idle")
  /\ saved # Absent => saved.at = 1

(* A sync that has loaded it saves it again; the first has its own scan. *)
ToBeSaved ==
  /\ pc = "load" => manifest # Absent /\ manifest.at = syncs
  /\ pc \in {"sending", "saving"} =>
       /\ manifest # Absent /\ manifest.at = 1
       /\ saved # Absent => manifest = saved

ComparedTo ==
  pc # "load" =>
    /\ syncs = 1 => old = Nothing
    /\ syncs > 1 => saved # Absent /\ old = saved.files

KInv ==
  /\ pc # "idle" => syncs >= 1
  /\ ~marred => FirstSaved /\ ToBeSaved /\ ComparedTo

(* Initially there is no manifest. *)
LEMMA InitKInv == Init => KInv
BY ConstantsAssumption DEF Init, KInv, FirstSaved, ToBeSaved, ComparedTo

(* Every step keeps the first manifest. *)
LEMMA NextKInv == TypeOK /\ KInv /\ [Next]_vars => KInv'
<1> SUFFICES ASSUME TypeOK, KInv, [Next]_vars PROVE KInv'
  OBVIOUS
<1> USE ConstantsAssumption, MarksAssumption
<1>0. syncs \in Nat /\ saved \in Manifests \cup {Absent, Torn}
  BY DEF TypeOK
<1>1. ASSUME UNCHANGED <<saved, manifest, pc, old, syncs>>, marred => marred'
      PROVE  KInv'
  BY <1>1 DEF KInv, FirstSaved, ToBeSaved, ComparedTo
<1>2. ASSUME NEW p \in Peers, NEW u \in SUBSET Names, Scan(p, u) PROVE KInv'
  <2>1. /\ pc = "idle" /\ pc' = "load" /\ syncs' = syncs + 1
        /\ manifest' = [at |-> syncs', files |-> current'] /\ saved' = saved
        /\ marred => marred'
    BY <1>2 DEF Scan
  <2>2. manifest' # Absent /\ manifest'.at = syncs'
    BY <1>2, <2>1, ScanType
  <2>3. ~marred => FirstSaved'
    BY <1>0, <2>1 DEF KInv, FirstSaved
  <2>4. ToBeSaved' /\ ComparedTo'
    BY <2>1, <2>2 DEF ToBeSaved, ComparedTo
  <2> QED
    BY <1>0, <2>1, <2>3, <2>4 DEF KInv
<1>3. ASSUME NEW found \in BOOLEAN, Load(found) PROVE KInv'
  <2>1. /\ pc = "load" /\ pc' = "sending" /\ saved' = saved /\ syncs' = syncs
        /\ found => saved \notin {Absent, Torn}
        /\ manifest' = IF found THEN saved ELSE manifest
        /\ old' = IF found THEN saved.files ELSE Nothing
        /\ marred' = (marred \/ (saved \notin {Absent, Torn} /\ ~found))
    BY <1>3 DEF Load, Stored
  <2>2. CASE marred'
    BY <1>0, <2>1, <2>2 DEF KInv
  <2>3. CASE ~marred'
    <3>1. FirstSaved /\ ToBeSaved /\ ~marred /\ syncs >= 1
      BY <2>1, <2>3 DEF KInv
    <3>2. FirstSaved'
      BY <2>1, <3>1 DEF FirstSaved
    <3>3. saved # Absent => found /\ saved.at = 1 /\ syncs # 1
      BY <2>1, <2>3, <3>1 DEF FirstSaved
    <3>4. saved = Absent => ~found /\ syncs = 1 /\ manifest # Absent /\ manifest.at = 1
      BY <1>0, <2>1, <3>1 DEF FirstSaved, ToBeSaved
    <3>5. ToBeSaved' /\ ComparedTo'
      BY <2>1, <3>3, <3>4 DEF ToBeSaved, ComparedTo
    <3> QED
      BY <2>1, <3>1, <3>2, <3>5 DEF KInv
  <2> QED
    BY <2>2, <2>3
<1>4. ASSUME NEW n \in Names, SendFile(n) PROVE KInv'
  BY <1>1, <1>4 DEF SendFile, historyVars
<1>5. ASSUME NEW n \in Names, SendFileFails(n) PROVE KInv'
  BY <1>5 DEF SendFileFails, KInv, Take
<1>6. CASE SendingDone
  BY <1>6 DEF SendingDone, KInv, FirstSaved, ToBeSaved, ComparedTo, memoryVars, historyVars
<1>7. ASSUME NEW r \in {ToSave, saved, Torn}, SaveManifest(r) PROVE KInv'
  <2>1. /\ pc = "saving" /\ pc' = "idle" /\ saved' = r /\ syncs' = syncs /\ old' = old
        /\ marred' = (marred \/ r # manifest)
    BY <1>7 DEF SaveManifest, ToSave
  <2>2. manifest \in Manifests \cup {Absent}
    BY DEF TypeOK
  <2>3. CASE ~marred'
    <3>1. saved' = manifest /\ manifest # Absent /\ manifest.at = 1 /\ syncs >= 1
      BY <2>1, <2>3 DEF KInv, ToBeSaved
    <3>2. saved # Absent => manifest = saved
      BY <2>1, <2>3 DEF KInv, ToBeSaved
    <3>3. manifest # Torn
      BY <2>2, <3>1
    <3>4. (syncs = 1 => old = Nothing) /\ (syncs > 1 => old = saved'.files)
      BY <2>1, <2>3, <3>1, <3>2 DEF KInv, ComparedTo
    <3> QED
      BY <1>0, <2>1, <3>1, <3>3, <3>4 DEF KInv, FirstSaved, ToBeSaved, ComparedTo
  <2>4. CASE marred'
    BY <2>1, <2>4 DEF KInv
  <2> QED
    BY <2>3, <2>4
<1>8. ASSUME NEW t \in transfers, TransferFails(t) PROVE KInv'
  BY <1>8 DEF TransferFails, KInv, syncVars
<1>9. ASSUME NEW t \in transfers, NEW c \in Entry, Deliver(t, c) PROVE KInv'
  BY <1>1, <1>9 DEF Deliver, syncVars, historyVars
<1>10. ASSUME NEW f \in Files, NEW c \in Contents \cup {Absent}, Edit(f, c) PROVE KInv'
  BY <1>1, <1>10 DEF Edit, syncVars
<1>11. ASSUME NEW damaged \in BOOLEAN, Crash(damaged) PROVE KInv'
  BY <1>11 DEF Crash, KInv
<1>12. CASE UNCHANGED vars
  BY <1>1, <1>12 DEF vars, memoryVars, syncVars, historyVars
<1> QED
  BY <1>2, <1>3, <1>4, <1>5, <1>6, <1>7, <1>8, <1>9, <1>10, <1>11, <1>12
  DEF Next, SyncFolder

(* KInv is an invariant of the folder. *)
LEMMA KInvariant == Spec => []KInv
BY InitKInv, NextKInv, TypeCorrect, PTL DEF Spec

Kept == ~marred' /\ saved # Absent => saved' = saved

(* Although every sync ends with SaveManifest, the manifest is written once:  *)
(* as long as nothing fails and nobody edits during a sync, what is in the    *)
(* folder stays the manifest of the first sync, whatever is edited between.   *)
THEOREM ManifestNeverRenewed == Spec => [][Kept]_vars
<1>1. KInv /\ [Next]_vars => [Kept]_vars
  <2> SUFFICES ASSUME KInv, Next, ~marred', saved # Absent PROVE saved' = saved
    BY DEF Kept
  <2>1. ASSUME NEW r \in {ToSave, saved, Torn}, SaveManifest(r) PROVE saved' = saved
    BY <2>1 DEF SaveManifest, ToSave, KInv, ToBeSaved
  <2> QED
    BY <2>1
    DEF Next, SyncFolder, Scan, Load, SendFile, SendFileFails, SendingDone,
        TransferFails, Deliver, Edit, Crash
<1> QED
  BY <1>1, KInvariant, PTL DEF Spec

MeasuredAgainstFirst ==
  Quiet /\ ~disturbed /\ ~marred /\ syncs > 0 =>
    /\ saved \in Manifests /\ saved.at = 1
    /\ \A f \in Files :
         current[f] \in Contents /\ (syncs = 1 \/ current[f] # saved.files[f])
           => copy[peer][f] = current[f]

(* What the agent gets is measured against that one scan: the first sync      *)
(* delivers every file, and each later one every file that is not as it was   *)
(* at the first, whether or not it was delivered before.  A file that is back *)
(* to what it was then is the one case this leaves out, and the agent keeps   *)
(* what it had.                                                               *)
THEOREM SyncsAgainstFirst == Spec => []MeasuredAgainstFirst
<1>1. TypeOK /\ KInv /\ ChangedIsDelivered => MeasuredAgainstFirst
  <2> SUFFICES ASSUME TypeOK, KInv, ChangedIsDelivered,
                      Quiet, ~disturbed, ~marred, syncs > 0
               PROVE  /\ saved \in Manifests /\ saved.at = 1
                      /\ \A f \in Files :
                           /\ current[f] \in Contents
                           /\ syncs = 1 \/ current[f] # saved.files[f]
                           => copy[peer][f] = current[f]
    BY DEF MeasuredAgainstFirst
  <2>1. pc = "idle" /\ syncs \in Nat /\ saved \in Manifests \cup {Absent, Torn}
    BY DEF Quiet, TypeOK
  <2>2. saved \in Manifests /\ saved.at = 1
    BY <2>1 DEF KInv, FirstSaved
  <2>3. ASSUME NEW f \in Files, current[f] \in Contents,
               syncs = 1 \/ current[f] # saved.files[f]
        PROVE  copy[peer][f] = current[f]
    <3>1. current[f] # old[f]
      <4>1. CASE syncs = 1
        <5>1. old[f] = Absent
          BY <2>1, <4>1, FolderFile DEF KInv, ComparedTo, Nothing
        <5> QED
          BY <2>3, <5>1, ConstantsAssumption
      <4>2. CASE syncs > 1
        BY <2>1, <2>3, <4>2 DEF KInv, ComparedTo
      <4> QED
        BY <2>1, <4>1, <4>2
    <3> QED
      BY <2>3, <3>1 DEF ChangedIsDelivered
  <2> QED
    BY <2>2, <2>3
<1> QED
  BY <1>1, TypeCorrect, KInvariant, ChangesArrive, PTL

================================================================================
