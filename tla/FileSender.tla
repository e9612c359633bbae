------------------------------- MODULE FileSender -------------------------------
(******************************************************************************)
(* One transfer of FileService, internal/fileservice/service.go: SendFile has *)
(* split the file and stored the transfer; sendConcurrent hands its chunks to *)
(* at most MaxWorkers goroutines, which try each chunk three times.  Pause,   *)
(* Resume, Cancel and Stop are called by other goroutines at any moment.      *)
(* Resume starts another sendConcurrent on the same transfer: a run.          *)
(*                                                                            *)
(* Nothing guards the transfer's fields, so a goroutine is cut into steps     *)
(* wherever another may come between two accesses to them.                    *)
(******************************************************************************)
EXTENDS Naturals, FiniteSets

CONSTANTS
  TotalChunks,  \* chunks of the file, 0 when it is empty
  MaxWorkers,   \* fs.maxWorkers
  MaxRetries,   \* attempts at a chunk, the 3 of `for c.Retries < 3`
  MaxRuns       \* bound: sendConcurrent calls, the first and the resumed ones

ASSUME SizesAssumption ==
  /\ TotalChunks \in Nat
  /\ MaxWorkers \in Nat \ {0}
  /\ MaxRetries \in Nat \ {0}
  /\ MaxRuns \in Nat \ {0}

Chunks == 1..TotalChunks
Runs   == 1..MaxRuns

VARIABLES
  status,     \* Transfer.Status
  progress,   \* Transfer.Progress, as a number of chunks
  chunk,      \* Chunk.Status
  retries,    \* Chunk.Retries
  stopped,    \* fs.done is closed
  run,        \* where a sendConcurrent is
  cursor,     \* the chunk its loop has reached
  failed,     \* its local variable `failed`
  worker,     \* where its goroutine for a chunk is, "none" when there is none
  seen,       \* what that goroutine has read and will write back
  delivered,  \* history: chunks sendFunc has accepted
  attempts,   \* history: attempts that failed, per chunk; up to MaxRetries
  reports,    \* history: EventChunkDone emitted, per chunk; up to 2
  cancelled   \* history: CancelTransfer was called

transferVars == <<status, progress, chunk, retries>>
runVars      == <<run, cursor, failed>>
workerVars   == <<worker, seen>>
historyVars  == <<delivered, attempts, reports, cancelled>>
vars == <<transferVars, stopped, runVars, workerVars, historyVars>>

Work == {"check", "sending", "readFailed", "sendFailed", "sent", "counted",
         "reporting"}

Idle(r)   == \A c \in Chunks : worker[r][c] = "none"
Busy(r)   == {c \in Chunks : worker[r][c] # "none"}
Resumed   == run[1] # "none" /\ \E r \in Runs \ {1} : run[r] # "none"

(* Deviation: the chunk at hand is counted once more. *)
DoneCountPlusOne == Cardinality({c \in Chunks : chunk[c] = "done"}) + 1

(* What updateProgress counts: it reads the chunks one by one, but as the     *)
(* number grows by ones it had the counted value at some moment in between.   *)
DoneCount == Cardinality({c \in Chunks : chunk[c] = "done"})

TypeOK ==
  /\ status \in {"running", "paused", "failed", "completed"}
  /\ progress \in 0..TotalChunks
  /\ chunk \in [Chunks -> {"pending", "sending", "failed", "done"}]
  /\ retries \in [Chunks -> Nat]
  /\ stopped \in BOOLEAN
  /\ run \in [Runs -> {"none", "loop", "acquire", "abandoned", "finished"}]
  /\ cursor \in [Runs -> 1..TotalChunks + 1]
  /\ failed \in [Runs -> BOOLEAN]
  /\ worker \in [Runs -> [Chunks -> Work \cup {"none"}]]
  /\ seen \in [Runs -> [Chunks -> Nat]]
  /\ delivered \subseteq Chunks
  /\ attempts \in [Chunks -> 0..MaxRetries]
  /\ reports \in [Chunks -> 0..2]
  /\ cancelled \in BOOLEAN

(* SendFile: the transfer is running and its goroutine has been started. *)
Init ==
  /\ status = "running" /\ progress = 0
  /\ chunk = [c \in Chunks |-> "pending"]
  /\ retries = [c \in Chunks |-> 0]
  /\ stopped = FALSE
  /\ run = [r \in Runs |-> IF r = 1 THEN "loop" ELSE "none"]
  /\ cursor = [r \in Runs |-> 1]
  /\ failed = [r \in Runs |-> FALSE]
  /\ worker = [r \in Runs |-> [c \in Chunks |-> "none"]]
  /\ seen = [r \in Runs |-> [c \in Chunks |-> 0]]
  /\ delivered = {}
  /\ attempts = [c \in Chunks |-> 0]
  /\ reports = [c \in Chunks |-> 0]
  /\ cancelled = FALSE

--------------------------------------------------------------------------------
(* Deviations: plausible bugs of single operators, none of them part of Spec. *)

(* A file that cannot be read is tried again without counting. *)
CountReadErrorNot(r, c) ==
  /\ worker[r][c] = "readFailed"
  /\ worker' = [worker EXCEPT ![r][c] = "check"]
  /\ UNCHANGED <<transferVars, stopped, runVars, seen, historyVars>>

(* Giving up on a chunk is not remembered. *)
GiveUpSilent(r, c) ==
  /\ worker[r][c] = "check"
  /\ retries[c] >= MaxRetries
  /\ worker' = [worker EXCEPT ![r][c] = "none"]
  /\ UNCHANGED <<transferVars, stopped, runVars, seen, historyVars>>

(* The chunk counts as done before it is sent. *)
ReadOkDone(r, c) ==
  /\ worker[r][c] = "check"
  /\ retries[c] < MaxRetries /\ ~stopped
  /\ chunk' = [chunk EXCEPT ![c] = "done"]
  /\ worker' = [worker EXCEPT ![r][c] = "sending"]
  /\ UNCHANGED <<status, progress, retries, stopped, runVars, seen, historyVars>>

(* The run does not wait for its goroutines. *)
NoWait(r) == TRUE

(* The semaphore is taken, but its capacity not looked at. *)
SlotUnbounded(r) == TRUE

(* The last attempt is not made. *)
ExhaustedEarly(c) == retries[c] + 1 >= MaxRetries

--------------------------------------------------------------------------------
(* sendConcurrent: the loop over the chunks.                                  *)

Goto(r, l)   == run' = [run EXCEPT ![r] = l]
At(r, c, l)  == worker[r][c] = l
To(r, c, l)  == worker' = [worker EXCEPT ![r][c] = l]
Advance(r)   == cursor' = [cursor EXCEPT ![r] = @ + 1]
Forget(r, c) == seen' = [seen EXCEPT ![r][c] = 0]

(* At the top of the loop, with a chunk left. *)
AtChunk(r) == run[r] = "loop" /\ cursor[r] \in Chunks

(* Stopped: returns without waiting and leaves the status as it is. *)
Abandon(r) ==
  /\ AtChunk(r) /\ stopped
  /\ Goto(r, "abandoned")
  /\ UNCHANGED <<transferVars, stopped, cursor, failed, workerVars, historyVars>>

SkipDone(r) ==
  /\ AtChunk(r) /\ ~stopped
  /\ chunk[cursor[r]] = "done"
  /\ Advance(r)
  /\ UNCHANGED <<transferVars, stopped, run, failed, workerVars, historyVars>>

Claim(r) ==
  /\ AtChunk(r) /\ ~stopped
  /\ chunk[cursor[r]] # "done"
  /\ Goto(r, "acquire")
  /\ UNCHANGED <<transferVars, stopped, cursor, failed, workerVars, historyVars>>

(* A slot of the run's semaphore is free. *)
Slot(r) == Cardinality(Busy(r)) < MaxWorkers

Spawn(r) ==
  /\ run[r] = "acquire"
  /\ Slot(r)
  /\ To(r, cursor[r], "check")
  /\ Goto(r, "loop")
  /\ Advance(r)
  /\ UNCHANGED <<transferVars, stopped, failed, seen, historyVars>>

(* wg.Wait *)
Waited(r) == Idle(r)

(* The verdict, whatever the status has become since; then EventTransferDone. *)
Finish(r) ==
  /\ run[r] = "loop" /\ cursor[r] = TotalChunks + 1
  /\ Waited(r)
  /\ status' = IF failed[r] THEN "failed" ELSE "completed"
  /\ Goto(r, "finished")
  /\ UNCHANGED <<progress, chunk, retries, stopped, cursor, failed, workerVars,
                 historyVars>>

--------------------------------------------------------------------------------
(* The goroutine for chunk c of run r.                                        *)

(* The loop condition, tested first. *)
Exhausted(c) == retries[c] >= MaxRetries

GiveUp(r, c) ==
  /\ At(r, c, "check") /\ Exhausted(c)
  /\ failed' = [failed EXCEPT ![r] = TRUE]
  /\ To(r, c, "none")
  /\ UNCHANGED <<transferVars, stopped, run, cursor, seen, historyVars>>

(* Stopped: the goroutine returns, and `failed` is not set. *)
Quit(r, c) ==
  /\ At(r, c, "check") /\ ~Exhausted(c) /\ stopped
  /\ To(r, c, "none")
  /\ UNCHANGED <<transferVars, stopped, runVars, seen, historyVars>>

ReadOk(r, c) ==
  /\ At(r, c, "check") /\ ~Exhausted(c) /\ ~stopped
  /\ chunk' = [chunk EXCEPT ![c] = "sending"]
  /\ To(r, c, "sending")
  /\ UNCHANGED <<status, progress, retries, stopped, runVars, seen, historyVars>>

(* c.Retries++ reads the counter ... *)
Fails(r, c, l) ==
  /\ seen' = [seen EXCEPT ![r][c] = retries[c]]
  /\ attempts' = [attempts EXCEPT ![c] = IF @ < MaxRetries THEN @ + 1 ELSE @]
  /\ To(r, c, l)
  /\ UNCHANGED <<transferVars, stopped, runVars, delivered, reports, cancelled>>

ReadError(r, c) ==
  At(r, c, "check") /\ ~Exhausted(c) /\ ~stopped /\ Fails(r, c, "readFailed")

SendError(r, c) == At(r, c, "sending") /\ Fails(r, c, "sendFailed")

(* ... and writes it back; another run's goroutine may have counted since. *)
CountReadError(r, c) ==
  /\ At(r, c, "readFailed")
  /\ retries' = [retries EXCEPT ![c] = seen[r][c] + 1]
  /\ To(r, c, "check") /\ Forget(r, c)
  /\ UNCHANGED <<status, progress, chunk, stopped, runVars, historyVars>>

CountSendError(r, c) ==
  /\ At(r, c, "sendFailed")
  /\ retries' = [retries EXCEPT ![c] = seen[r][c] + 1]
  /\ chunk' = [chunk EXCEPT ![c] = "failed"]
  /\ To(r, c, "check") /\ Forget(r, c)
  /\ UNCHANGED <<status, progress, stopped, runVars, historyVars>>

SendOk(r, c) ==
  /\ At(r, c, "sending")
  /\ delivered' = delivered \cup {c}
  /\ chunk' = [chunk EXCEPT ![c] = "done"]
  /\ To(r, c, "sent")
  /\ UNCHANGED <<status, progress, retries, stopped, runVars, seen, attempts,
                 reports, cancelled>>

(* updateProgress: the count ... *)
CountDone(r, c) ==
  /\ At(r, c, "sent")
  /\ seen' = [seen EXCEPT ![r][c] = DoneCount]
  /\ To(r, c, "counted")
  /\ UNCHANGED <<transferVars, stopped, runVars, historyVars>>

(* ... and the assignment. *)
StoreProgress(r, c) ==
  /\ At(r, c, "counted")
  /\ progress' = seen[r][c]
  /\ To(r, c, "reporting") /\ Forget(r, c)
  /\ UNCHANGED <<status, chunk, retries, stopped, runVars, historyVars>>

(* EventChunkDone, and the goroutine returns its slot. *)
Report(r, c) ==
  /\ At(r, c, "reporting")
  /\ reports' = [reports EXCEPT ![c] = IF @ < 2 THEN @ + 1 ELSE @]
  /\ To(r, c, "none")
  /\ UNCHANGED <<transferVars, stopped, runVars, seen, delivered, attempts,
                 cancelled>>

--------------------------------------------------------------------------------
(* The other operations of the service.                                       *)

PauseTransfer ==
  /\ status' = "paused"
  /\ UNCHANGED <<progress, chunk, retries, stopped, runVars, workerVars,
                 historyVars>>

(* Does not look whether an earlier run is still at work. *)
ResumeTransfer(r) ==
  /\ r > 1 /\ run[r] = "none" /\ run[r - 1] # "none"
  /\ status' = "running"
  /\ Goto(r, "loop")
  /\ UNCHANGED <<progress, chunk, retries, stopped, cursor, failed, workerVars,
                 historyVars>>

CancelTransfer ==
  /\ status' = "failed"
  /\ cancelled' = TRUE
  /\ UNCHANGED <<progress, chunk, retries, stopped, runVars, workerVars,
                 delivered, attempts, reports>>

Stop ==
  /\ ~stopped
  /\ stopped' = TRUE
  /\ UNCHANGED <<transferVars, runVars, workerVars, historyVars>>

--------------------------------------------------------------------------------
Dispatch(r) == Abandon(r) \/ SkipDone(r) \/ Claim(r) \/ Spawn(r) \/ Finish(r)

Worker(r, c) ==
  \/ GiveUp(r, c) \/ Quit(r, c)
  \/ ReadOk(r, c) \/ ReadError(r, c) \/ CountReadError(r, c)
  \/ SendOk(r, c) \/ SendError(r, c) \/ CountSendError(r, c)
  \/ CountDone(r, c) \/ StoreProgress(r, c) \/ Report(r, c)

Sending == \E r \in Runs : Dispatch(r) \/ \E c \in Chunks : Worker(r, c)

Control ==
  PauseTransfer \/ CancelTransfer \/ Stop \/ \E r \in Runs : ResumeTransfer(r)

Next == Sending \/ Control

Spec == Init /\ [][Next]_vars

(* As long as a goroutine can run, one does, and reading a chunk or sending   *)
(* it ends with a result.                                                     *)
Fairness == WF_vars(Sending)

FairSpec == Spec /\ Fairness

--------------------------------------------------------------------------------
(* "All done -> Status=completed" (docs/architecture.md:84), and only then:   *)
(* the receiver got every chunk of a transfer that is reported completed.     *)
CompletedDelivered == status = "completed" => delivered = Chunks

(* The same unless the service was stopped, whatever was paused, cancelled or *)
(* resumed meanwhile, also by runs that overlap.                              *)
CompletedUnlessStopped == ~stopped => CompletedDelivered

(* A transfer nobody cancelled is reported failed only when all the attempts  *)
(* at some chunk have failed.                                                 *)
FailedAfterRetries ==
  status = "failed" /\ ~cancelled => \E c \in Chunks : attempts[c] = MaxRetries

(* EventTransferDone is the last event of its run, and EventChunkDone was     *)
(* emitted for every chunk of a run that completed alone.                     *)
ReportsComplete ==
  \A r \in Runs : run[r] = "finished" =>
    /\ Idle(r)
    /\ ~(failed[r] \/ stopped \/ Resumed) => \A c \in Chunks : reports[c] > 0

(* The progress shown never runs ahead of what the receiver has. *)
ProgressNotAhead == progress <= Cardinality(delivered)

(* "4 goroutines concurrently send chunks" (docs/architecture.md:81): the     *)
(* goroutines of all runs together.                                           *)
AtMostMaxWorkers ==
  Cardinality({p \in Runs \X Chunks : worker[p[1]][p[2]] # "none"}) <= MaxWorkers

(* As long as the transfer was not resumed: the bound on the goroutines, every *)
(* chunk is reported once at most, and tried MaxRetries times at most.        *)
SingleRunBounds ==
  ~Resumed =>
    /\ AtMostMaxWorkers
    /\ \A c \in Chunks : reports[c] <= 1 /\ retries[c] <= MaxRetries

(* Every run comes to an end, with its goroutines: none waits for a slot, or  *)
(* for the others, forever.  However often the transfer was resumed, there is *)
(* a time again when all that was started has ended.                          *)
RunsEnd ==
  []<>\A r \in Runs :
        run[r] # "none" => run[r] \in {"abandoned", "finished"} /\ Idle(r)

================================================================================
