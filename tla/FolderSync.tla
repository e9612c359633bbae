------------------------------- MODULE FolderSync ------------------------------
(******************************************************************************)
(* Folder synchronisation, internal/fileservice/foldersync.go: one folder and *)
(* the agents it is sent to.  A sync scans the folder, loads the manifest of  *)
(* an earlier sync from the folder, starts a transfer for every file that     *)
(* differs from it, and saves a manifest.  The transfers are the file         *)
(* sender's: they run on after the sync, read the file when they get to it,   *)
(* and deliver it or fail.  Meanwhile somebody edits the folder, and the      *)
(* process may end at any moment.                                             *)
(*                                                                            *)
(* A hash is the content it was taken from.  Calls come one at a time, as the *)
(* agent's tools make them.                                                   *)
(******************************************************************************)
EXTENDS Naturals

CONSTANTS
  Files,     \* the user's files, by relative path
  Contents,  \* what a file may hold
  Peers,     \* the agents the folder is sent to
  Manifest,  \* the name .lan-sync-manifest.json
  Absent,    \* no such file, or no such entry
  NoHash,    \* the empty hash of a file that could not be read
  Torn,      \* partly written, or partly old and partly new
  MaxSyncs,  \* bound: syncs
  MaxEdits   \* bound: edits

ASSUME ConstantsAssumption ==
  /\ Manifest \notin Files
  /\ Contents \cap (Nat \cup {Absent, NoHash, Torn}) = {}
  /\ Absent \notin Nat /\ NoHash \notin Nat /\ Torn \notin Nat
  /\ Absent # NoHash /\ Absent # Torn /\ NoHash # Torn
  /\ MaxSyncs \in Nat /\ MaxEdits \in Nat

Names == Files \cup {Manifest}

VARIABLES
  disk,       \* the user's files
  saved,      \* the manifest file
  manifest,   \* fsync.manifests[root]
  pc,         \* where SyncFolder is
  peer,       \* the agent of the current, or the last, sync
  current,    \* the entries it scanned
  old,        \* the entries of the manifest it loaded
  adds,       \* diff.Adds not yet sent
  modifies,   \* diff.Modifies not yet sent
  transfers,  \* transfers under way
  copy,       \* what was last delivered to an agent, by name
  syncs,      \* syncs so far; stands for the time of a scan
  edits,      \* edits so far
  disturbed,  \* history: an edit, a failure or an earlier transfer met the sync
  marred      \* history: anything failed, or an edit met a sync, ever

folderVars  == <<disk, edits>>
memoryVars  == <<manifest, transfers>>
syncVars    == <<pc, peer, current, old, adds, modifies, syncs>>
historyVars == <<disturbed, marred>>
vars == <<folderVars, saved, memoryVars, syncVars, copy, historyVars>>

(* A manifest is known by the time of its scan, which is in the file too. *)
Entry     == Contents \cup (0..MaxSyncs) \cup {Absent, NoHash, Torn}
Manifests == [at : 0..MaxSyncs, files : [Names -> Entry]]
Nothing   == [n \in Names |-> Absent]

(* A missing or a damaged manifest file is none. *)
ASSUME MarksAssumption == Absent \notin Manifests /\ Torn \notin Manifests

Transfers == [to : Peers, name : Names, split : Entry \ {Absent},
              sync : 0..MaxSyncs]

(* The folder as it is walked, with the manifest file in it. *)
Folder ==
  [n \in Names |-> IF n # Manifest THEN disk[n]
                   ELSE IF saved \in {Absent, Torn} THEN saved
                   ELSE saved.at]

Quiet == pc = "idle" /\ transfers = {}

TypeOK ==
  /\ disk \in [Files -> Contents \cup {Absent}]
  /\ saved \in Manifests \cup {Absent, Torn}
  /\ manifest \in Manifests \cup {Absent}
  /\ pc \in {"idle", "load", "sending", "saving"}
  /\ peer \in Peers
  /\ current \in [Names -> Entry]
  /\ old \in [Names -> Entry]
  /\ adds \subseteq Names /\ modifies \subseteq Names
  /\ transfers \subseteq Transfers
  /\ copy \in [Peers -> [Names -> Entry]]
  /\ syncs \in 0..MaxSyncs /\ edits \in 0..MaxEdits
  /\ disturbed \in BOOLEAN /\ marred \in BOOLEAN

Init ==
  /\ disk \in [Files -> Contents \cup {Absent}]
  /\ saved = Absent /\ manifest = Absent
  /\ pc = "idle" /\ peer \in Peers
  /\ current = Nothing /\ old = Nothing /\ adds = {} /\ modifies = {}
  /\ transfers = {}
  /\ copy = [p \in Peers |-> Nothing]
  /\ syncs = 0 /\ edits = 0
  /\ disturbed = FALSE /\ marred = FALSE

--------------------------------------------------------------------------------
(* Deviations: plausible bugs of single operators, none of them part of Spec. *)

(* Files are new only when there is no manifest at all. *)
AddedAtFirst(o, n) == IF o = Nothing THEN {x \in Names : n[x] # Absent} ELSE {}

(* SendFile goes on when the file cannot be opened. *)
SendFileAnyhow(n) ==
  /\ pc = "sending" /\ n \in adds \cup modifies
  /\ adds' = adds \ {n} /\ modifies' = modifies \ {n}
  /\ transfers' = transfers \cup
       {[to |-> peer, name |-> n, split |-> Folder[n], sync |-> syncs]}
  /\ UNCHANGED <<folderVars, saved, manifest, pc, peer, current, old, syncs,
                 copy, historyVars>>

--------------------------------------------------------------------------------
(* DiffFolders, without the deletes, which nobody sends. *)

Added(o, n) == {x \in Names : o[x] = Absent /\ n[x] # Absent}
Modified(o, n) == {x \in Names : o[x] # Absent /\ n[x] # Absent /\ o[x] # n[x]}

--------------------------------------------------------------------------------
(* SyncFolder                                                                 *)

(* ScanFolder walks and hashes the folder.  A file that cannot be read gets   *)
(* an empty hash and the walk goes on.  The scan becomes fsync.manifests.     *)
Scan(p, unreadable) ==
  /\ pc = "idle" /\ syncs < MaxSyncs
  /\ unreadable \subseteq {n \in Names : Folder[n] # Absent}
  /\ syncs' = syncs + 1
  /\ peer' = p
  /\ current' = [n \in Names |-> IF n \in unreadable THEN NoHash ELSE Folder[n]]
  /\ manifest' = [at |-> syncs', files |-> current']
  /\ pc' = "load"
  /\ disturbed' = (transfers # {})
  /\ marred' = (marred \/ unreadable # {})
  /\ UNCHANGED <<folderVars, saved, old, adds, modifies, transfers, copy>>

(* The manifest in the folder can be parsed. *)
Stored == saved \notin {Absent, Torn}

(* LoadManifest replaces fsync.manifests too, if it finds a manifest; then    *)
(* the diff.  Without one, or if it cannot be read, everything is new.        *)
Load(found) ==
  /\ pc = "load"
  /\ found => Stored
  /\ manifest' = IF found THEN saved ELSE manifest
  /\ old' = IF found THEN saved.files ELSE Nothing
  /\ adds' = Added(old', current)
  /\ modifies' = Modified(old', current)
  /\ marred' = (marred \/ (Stored /\ ~found))
  /\ pc' = "sending"
  /\ UNCHANGED <<folderVars, saved, peer, current, transfers, syncs, copy,
                 disturbed>>

(* The loop over Adds, then Modifies. *)
Take(n) ==
  /\ pc = "sending"
  /\ n \in IF adds # {} THEN adds ELSE modifies
  /\ adds' = adds \ {n}
  /\ modifies' = modifies \ {n}

(* FileService.SendFile: the file is split as it is now. *)
SendFile(n) ==
  /\ Take(n)
  /\ Folder[n] # Absent
  /\ transfers' = transfers \cup
       {[to |-> peer, name |-> n, split |-> Folder[n], sync |-> syncs]}
  /\ UNCHANGED <<folderVars, saved, manifest, pc, peer, current, old, syncs,
                 copy, historyVars>>

(* It cannot be opened or read: logged, and the loop continues. *)
SendFileFails(n) ==
  /\ Take(n)
  /\ disturbed' = TRUE /\ marred' = TRUE
  /\ UNCHANGED <<folderVars, saved, memoryVars, pc, peer, current, old, syncs,
                 copy>>

SendingDone ==
  /\ pc = "sending" /\ adds \cup modifies = {}
  /\ pc' = "saving"
  /\ UNCHANGED <<folderVars, saved, memoryVars, peer, current, old, adds,
                 modifies, syncs, copy, historyVars>>

(* What SaveManifest writes. *)
ToSave == manifest

(* Transfers of file n that have not read it yet may get a mixture. *)
Touch(n) ==
  {IF t.name = n THEN [t EXCEPT !.split = Torn] ELSE t : t \in transfers}

(* os.WriteFile, whose error is ignored: it may fail before or after the file *)
(* was truncated.                                                             *)
SaveManifest(result) ==
  /\ pc = "saving"
  /\ result \in {ToSave, saved, Torn}
  /\ saved' = result
  /\ transfers' = Touch(Manifest)
  /\ marred' = (marred \/ result # ToSave)
  /\ pc' = "idle"
  /\ UNCHANGED <<folderVars, manifest, peer, current, old, adds, modifies, syncs,
                 copy, disturbed>>

--------------------------------------------------------------------------------
(* The transfers, the folder, the process.                                    *)

(* A transfer is completed.  Its chunks were cut when the file was split and  *)
(* are read now.                                                              *)
Deliver(t, c) ==
  /\ t \in transfers
  /\ IF t.split = Torn THEN c \in {Folder[t.name], Torn} \ {Absent}
                       ELSE c = t.split
  /\ copy' = [copy EXCEPT ![t.to][t.name] = c]
  /\ transfers' = transfers \ {t}
  /\ UNCHANGED <<folderVars, saved, manifest, syncVars, historyVars>>

(* All attempts at one of its chunks failed. *)
TransferFails(t) ==
  /\ t \in transfers
  /\ transfers' = transfers \ {t}
  /\ disturbed' = TRUE /\ marred' = TRUE
  /\ UNCHANGED <<folderVars, saved, manifest, syncVars, copy>>

(* The user writes or deletes a file. *)
Edit(f, c) ==
  /\ edits < MaxEdits
  /\ c # disk[f]
  /\ disk' = [disk EXCEPT ![f] = c]
  /\ edits' = edits + 1
  /\ transfers' = Touch(f)
  /\ disturbed' = (disturbed \/ ~Quiet)
  /\ marred' = (marred \/ ~Quiet)
  /\ UNCHANGED <<saved, manifest, syncVars, copy>>

(* The process ends and is started again; a save under way is cut short. *)
Crash(damaged) ==
  /\ damaged => pc = "saving"
  /\ saved' = IF damaged THEN Torn ELSE saved
  /\ manifest' = Absent /\ transfers' = {}
  /\ pc' = "idle" /\ adds' = {} /\ modifies' = {}
  /\ disturbed' = TRUE /\ marred' = TRUE
  /\ UNCHANGED <<folderVars, peer, current, old, syncs, copy>>

--------------------------------------------------------------------------------
SyncFolder ==
  \/ \E p \in Peers, unreadable \in SUBSET Names : Scan(p, unreadable)
  \/ \E found \in BOOLEAN : Load(found)
  \/ \E n \in Names : SendFile(n) \/ SendFileFails(n)
  \/ SendingDone
  \/ \E result \in {ToSave, saved, Torn} : SaveManifest(result)

Next ==
  \/ SyncFolder
  \/ \E t \in transfers : TransferFails(t) \/ \E c \in Entry : Deliver(t, c)
  \/ \E f \in Files, c \in Contents \cup {Absent} : Edit(f, c)
  \/ \E damaged \in BOOLEAN : Crash(damaged)

Spec == Init /\ [][Next]_vars

--------------------------------------------------------------------------------
(* "SyncFolder scans, diffs, and schedules transfers for changed files"       *)
(* (foldersync.go:106): once an undisturbed sync and its transfers are over,  *)
(* the agent has every file that differed from the manifest, as it was        *)
(* scanned, whatever happened in earlier syncs or to their manifest.          *)
ChangedIsDelivered ==
  Quiet /\ ~disturbed =>
    \A f \in Files :
      current[f] \in Contents /\ current[f] # old[f] => copy[peer][f] = current[f]

(* With a single agent, and as long as nothing ever failed and nobody edited  *)
(* during a sync, the agent has all files as they were scanned: the manifest  *)
(* a sync loads is the one of the sync before ("Save new manifest",           *)
(* docs/architecture.md:110).                                                 *)
UpToDate ==
  Quiet /\ ~disturbed /\ ~marred =>
    \A f \in Files : current[f] \in Contents => copy[peer][f] = current[f]

================================================================================
