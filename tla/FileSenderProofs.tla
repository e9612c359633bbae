---------------------------- MODULE FileSenderProofs ----------------------------
(******************************************************************************)
(* Proofs about FileSender, for every number of chunks, workers, attempts and *)
(* runs.  The inductive invariant SInv accounts for every chunk a run has     *)
(* passed: it was delivered, or a goroutine is at work on it, or the run has  *)
(* remembered a failure; and it ties what the status says to that account.    *)
(******************************************************************************)
EXTENDS FileSender, FiniteSetTheorems, TLAPS

--------------------------------------------------------------------------------
(* The invariant.                                                             *)

Shapes ==
  /\ status \in {"running", "paused", "failed", "completed"}
  /\ chunk \in [Chunks -> {"pending", "sending", "failed", "done"}]
  /\ retries \in [Chunks -> Nat]
  /\ stopped \in BOOLEAN
  /\ run \in [Runs -> {"none", "loop", "acquire", "abandoned", "finished"}]
  /\ cursor \in [Runs -> 1..TotalChunks + 1]
  /\ failed \in [Runs -> BOOLEAN]
  /\ worker \in [Runs -> [Chunks -> Work \cup {"none"}]]
  /\ seen \in [Runs -> [Chunks -> Nat]]
  /\ delivered \subseteq Chunks
  /\ attempts \in [Chunks -> 0..MaxRetries]
  /\ cancelled \in BOOLEAN

(* A run that waits for a slot has a chunk to hand out. *)
AcquiresChunk == \A r \in Runs : run[r] = "acquire" => cursor[r] \in Chunks

DoneDelivered == \A c \in Chunks : chunk[c] = "done" => c \in delivered

SentDelivered ==
  \A r \in Runs, c \in Chunks :
    worker[r][c] \in {"sent", "counted", "reporting"} => c \in delivered

Accounted ==
  ~stopped => \A r \in Runs, c \in Chunks :
    c < cursor[r] => c \in delivered \/ failed[r] \/ worker[r][c] # "none"

Capped(n) == IF n < MaxRetries THEN n ELSE MaxRetries

(* The counters never run ahead of the attempts that failed. *)
CounterBehind ==
  /\ \A c \in Chunks : Capped(retries[c]) <= attempts[c]
  /\ \A r \in Runs, c \in Chunks :
       worker[r][c] \in {"readFailed", "sendFailed"} =>
         Capped(seen[r][c] + 1) <= attempts[c]

SomeExhausted == \E c \in Chunks : attempts[c] = MaxRetries

FailureJustified ==
  /\ \A r \in Runs : failed[r] => SomeExhausted
  /\ FailedAfterRetries

Account == AcquiresChunk /\ DoneDelivered /\ SentDelivered /\ Accounted
                         /\ CompletedUnlessStopped

SInv == Shapes /\ Account /\ CounterBehind /\ FailureJustified

--------------------------------------------------------------------------------
(* Only the goroutine of chunk k in run r moves. *)
Moved(r, k, l) ==
  \A s \in Runs, c \in Chunks :
    worker'[s][c] = IF s = r /\ c = k THEN l ELSE worker[s][c]

(* Moving one goroutine leaves the others where they are. *)
LEMMA ToMoves ==
  ASSUME Shapes, NEW r \in Runs, NEW k \in Chunks, NEW l \in Work \cup {"none"},
         To(r, k, l)
  PROVE  worker' \in [Runs -> [Chunks -> Work \cup {"none"}]] /\ Moved(r, k, l)
BY DEF Shapes, To, Moved

(* The same for what a goroutine has read. *)
LEMMA SeenMoves ==
  ASSUME Shapes, NEW r \in Runs, NEW k \in Chunks, NEW n \in Nat,
         seen' = [seen EXCEPT ![r][k] = n]
  PROVE  /\ seen' \in [Runs -> [Chunks -> Nat]]
         /\ \A s \in Runs, c \in Chunks :
              seen'[s][c] = IF s = r /\ c = k THEN n ELSE seen[s][c]
BY DEF Shapes

(* updateProgress counts a number. *)
LEMMA DoneCountIsNat == DoneCount \in Nat
<1>1. IsFiniteSet(Chunks) BY FS_Interval, SizesAssumption DEF Chunks
<1>2. IsFiniteSet({c \in Chunks : chunk[c] = "done"})
  BY <1>1, FS_Subset, {c \in Chunks : chunk[c] = "done"} \subseteq Chunks
<1>3. QED BY <1>2, FS_CardinalityType DEF DoneCount

(* Initially nothing is passed, counted or sent. *)
LEMMA InitSInv == Init => SInv
<1> SUFFICES ASSUME Init PROVE SInv OBVIOUS
<1>1. Shapes
  <2>1. cursor \in [Runs -> 1..TotalChunks + 1] BY SizesAssumption DEF Init
  <2>2. worker \in [Runs -> [Chunks -> Work \cup {"none"}]] BY DEF Init
  <2>3. attempts \in [Chunks -> 0..MaxRetries] BY SizesAssumption DEF Init
  <2>4. run \in [Runs -> {"none", "loop", "acquire", "abandoned", "finished"}]
    BY DEF Init
  <2>5. QED BY <2>1, <2>2, <2>3, <2>4 DEF Shapes, Init
<1>2. Account
  BY SizesAssumption DEF Init, Account, AcquiresChunk, DoneDelivered,
     SentDelivered, Accounted, CompletedUnlessStopped, CompletedDelivered, Chunks
<1>3. CounterBehind BY SizesAssumption DEF Init, CounterBehind, Capped
<1>4. FailureJustified BY DEF Init, FailureJustified, FailedAfterRetries
<1>5. QED BY <1>1, <1>2, <1>3, <1>4 DEF SInv

--------------------------------------------------------------------------------
(* The shapes are kept. *)
LEMMA StepShapes ==
  ASSUME Shapes, AcquiresChunk, [Next]_vars
  PROVE  Shapes'
<1> USE DEF Shapes, Work, transferVars, runVars, workerVars, historyVars
<1>0. \A r \in Runs : AtChunk(r) \/ run[r] = "acquire" =>
        /\ cursor[r] \in Chunks
        /\ [cursor EXCEPT ![r] = @ + 1] \in [Runs -> 1..TotalChunks + 1]
  BY SizesAssumption DEF AtChunk, AcquiresChunk, Chunks
<1>1. ASSUME NEW r \in Runs, Abandon(r) PROVE Shapes'
  BY <1>1 DEF Abandon, Goto
<1>2. ASSUME NEW r \in Runs, SkipDone(r) PROVE Shapes'
  BY <1>0, <1>2 DEF SkipDone, Advance
<1>3. ASSUME NEW r \in Runs, Claim(r) PROVE Shapes'
  BY <1>3 DEF Claim, Goto
<1>4. ASSUME NEW r \in Runs, Spawn(r) PROVE Shapes'
  <2>1. cursor[r] \in Chunks BY <1>0, <1>4 DEF Spawn
  <2>2. worker' \in [Runs -> [Chunks -> Work \cup {"none"}]]
    BY <1>4, <2>1, ToMoves DEF Spawn
  <2>3. QED BY <1>0, <1>4, <2>2 DEF Spawn, Goto, Advance
<1>5. ASSUME NEW r \in Runs, Finish(r) PROVE Shapes'
  BY <1>5 DEF Finish, Goto
<1>6. ASSUME NEW r \in Runs, NEW k \in Chunks, GiveUp(r, k) PROVE Shapes'
  BY <1>6, ToMoves DEF GiveUp
<1>7. ASSUME NEW r \in Runs, NEW k \in Chunks, Quit(r, k) PROVE Shapes'
  BY <1>7, ToMoves DEF Quit
<1>8. ASSUME NEW r \in Runs, NEW k \in Chunks, ReadOk(r, k) PROVE Shapes'
  BY <1>8, ToMoves DEF ReadOk
<1>9. ASSUME NEW r \in Runs, NEW k \in Chunks, SendOk(r, k) PROVE Shapes'
  BY <1>9, ToMoves DEF SendOk
<1>10. ASSUME NEW r \in Runs, NEW k \in Chunks, StoreProgress(r, k) PROVE Shapes'
  BY <1>10, ToMoves, SeenMoves DEF StoreProgress, Forget
<1>11. ASSUME NEW r \in Runs, NEW k \in Chunks, Report(r, k) PROVE Shapes'
  BY <1>11, ToMoves DEF Report
<1>12. ASSUME NEW r \in Runs, NEW k \in Chunks, ReadError(r, k) PROVE Shapes'
  <2>1. worker' \in [Runs -> [Chunks -> Work \cup {"none"}]]
    BY <1>12, ToMoves DEF ReadError, Fails
  <2>2. seen' \in [Runs -> [Chunks -> Nat]] BY <1>12, SeenMoves DEF ReadError, Fails
  <2>3. attempts' \in [Chunks -> 0..MaxRetries]
    BY <1>12, SizesAssumption DEF ReadError, Fails
  <2>4. QED BY <1>12, <2>1, <2>2, <2>3 DEF ReadError, Fails
<1>13. ASSUME NEW r \in Runs, NEW k \in Chunks, SendError(r, k) PROVE Shapes'
  <2>1. worker' \in [Runs -> [Chunks -> Work \cup {"none"}]]
    BY <1>13, ToMoves DEF SendError, Fails
  <2>2. seen' \in [Runs -> [Chunks -> Nat]] BY <1>13, SeenMoves DEF SendError, Fails
  <2>3. attempts' \in [Chunks -> 0..MaxRetries]
    BY <1>13, SizesAssumption DEF SendError, Fails
  <2>4. QED BY <1>13, <2>1, <2>2, <2>3 DEF SendError, Fails
<1>14. ASSUME NEW r \in Runs, NEW k \in Chunks, CountReadError(r, k) PROVE Shapes'
  <2>1. worker' \in [Runs -> [Chunks -> Work \cup {"none"}]]
    BY <1>14, ToMoves DEF CountReadError
  <2>2. retries' \in [Chunks -> Nat]
    BY <1>14, seen[r][k] + 1 \in Nat DEF CountReadError
  <2>3. seen' \in [Runs -> [Chunks -> Nat]] BY <1>14, SeenMoves DEF CountReadError, Forget
  <2>4. QED BY <1>14, <2>1, <2>2, <2>3 DEF CountReadError
<1>15. ASSUME NEW r \in Runs, NEW k \in Chunks, CountSendError(r, k) PROVE Shapes'
  <2>1. worker' \in [Runs -> [Chunks -> Work \cup {"none"}]]
    BY <1>15, ToMoves DEF CountSendError
  <2>2. retries' \in [Chunks -> Nat]
    BY <1>15, seen[r][k] + 1 \in Nat DEF CountSendError
  <2>3. seen' \in [Runs -> [Chunks -> Nat]] BY <1>15, SeenMoves DEF CountSendError, Forget
  <2>4. QED BY <1>15, <2>1, <2>2, <2>3 DEF CountSendError
<1>16. ASSUME NEW r \in Runs, NEW k \in Chunks, CountDone(r, k) PROVE Shapes'
  BY <1>16, ToMoves, SeenMoves, DoneCountIsNat DEF CountDone
<1>17. CASE PauseTransfer
  BY <1>17 DEF PauseTransfer
<1>18. CASE CancelTransfer
  BY <1>18 DEF CancelTransfer
<1>19. CASE Stop
  BY <1>19 DEF Stop
<1>20. ASSUME NEW r \in Runs, ResumeTransfer(r) PROVE Shapes'
  BY <1>20 DEF ResumeTransfer, Goto
<1>21. CASE UNCHANGED vars
  BY <1>21 DEF vars
<1>22. QED
  BY <1>1, <1>2, <1>3, <1>4, <1>5, <1>6, <1>7, <1>8, <1>9, <1>10, <1>11, <1>12,
     <1>13, <1>14, <1>15, <1>16, <1>17, <1>18, <1>19, <1>20, <1>21
  DEF Next, Sending, Control, Dispatch, Worker

--------------------------------------------------------------------------------
(* What a step of a goroutine does to the account: whatever it moves to, the  *)
(* chunk stays accounted for.                                                 *)
Effect(r, k, l) ==
  /\ Moved(r, k, l)
  /\ UNCHANGED <<run, cursor, stopped, status>>
  /\ delivered \subseteq delivered'
  /\ \A s \in Runs : failed[s] => failed'[s]
  /\ \A c \in Chunks : chunk'[c] = "done" => chunk[c] = "done" \/ c \in delivered'
  /\ l \in {"sent", "counted", "reporting"} => k \in delivered'
  /\ l = "none" => stopped \/ k \in delivered' \/ failed'[r]

(* Every step of a goroutine has such an effect. *)
LEMMA WorkerEffect ==
  ASSUME Shapes, SentDelivered, NEW r \in Runs, NEW k \in Chunks, Worker(r, k)
  PROVE  \E l \in Work \cup {"none"} : Effect(r, k, l)
<1> USE DEF Shapes, SentDelivered, transferVars, runVars, historyVars, At
<1>1. ASSUME GiveUp(r, k) PROVE Effect(r, k, "none")
  <2>1. Moved(r, k, "none") BY <1>1, ToMoves DEF GiveUp, Work
  <2>2. QED BY <1>1, <2>1 DEF GiveUp, Effect
<1>2. ASSUME Quit(r, k) PROVE Effect(r, k, "none")
  <2>1. Moved(r, k, "none") BY <1>2, ToMoves DEF Quit, Work
  <2>2. QED BY <1>2, <2>1 DEF Quit, Effect
<1>3. ASSUME ReadOk(r, k) PROVE Effect(r, k, "sending")
  <2>1. Moved(r, k, "sending") BY <1>3, ToMoves DEF ReadOk, Work
  <2>2. QED BY <1>3, <2>1 DEF ReadOk, Effect
<1>4. ASSUME ReadError(r, k) PROVE Effect(r, k, "readFailed")
  <2>1. Moved(r, k, "readFailed") BY <1>4, ToMoves DEF ReadError, Fails, Work
  <2>2. QED BY <1>4, <2>1 DEF ReadError, Fails, Effect
<1>5. ASSUME CountReadError(r, k) PROVE Effect(r, k, "check")
  <2>1. Moved(r, k, "check") BY <1>5, ToMoves DEF CountReadError, Work
  <2>2. QED BY <1>5, <2>1 DEF CountReadError, Effect
<1>6. ASSUME SendOk(r, k) PROVE Effect(r, k, "sent")
  <2>1. Moved(r, k, "sent") BY <1>6, ToMoves DEF SendOk, Work
  <2>2. QED BY <1>6, <2>1 DEF SendOk, Effect
<1>7. ASSUME SendError(r, k) PROVE Effect(r, k, "sendFailed")
  <2>1. Moved(r, k, "sendFailed") BY <1>7, ToMoves DEF SendError, Fails, Work
  <2>2. QED BY <1>7, <2>1 DEF SendError, Fails, Effect
<1>8. ASSUME CountSendError(r, k) PROVE Effect(r, k, "check")
  <2>1. Moved(r, k, "check") BY <1>8, ToMoves DEF CountSendError, Work
  <2>2. QED BY <1>8, <2>1 DEF CountSendError, Effect
<1>9. ASSUME CountDone(r, k) PROVE Effect(r, k, "counted")
  <2>1. Moved(r, k, "counted") BY <1>9, ToMoves DEF CountDone, Work
  <2>2. QED BY <1>9, <2>1 DEF CountDone, Effect
<1>10. ASSUME StoreProgress(r, k) PROVE Effect(r, k, "reporting")
  <2>1. Moved(r, k, "reporting") BY <1>10, ToMoves DEF StoreProgress, Work
  <2>2. QED BY <1>10, <2>1 DEF StoreProgress, Effect
<1>11. ASSUME Report(r, k) PROVE Effect(r, k, "none")
  <2>1. Moved(r, k, "none") BY <1>11, ToMoves DEF Report, Work
  <2>2. QED BY <1>11, <2>1 DEF Report, Effect
<1>12. QED BY <1>1, <1>2, <1>3, <1>4, <1>5, <1>6, <1>7, <1>8, <1>9, <1>10, <1>11 DEF Worker, Work

(* Such an effect keeps the account. *)
LEMMA EffectAccount ==
  ASSUME Account, delivered' \subseteq Chunks, NEW r \in Runs, NEW k \in Chunks,
         NEW l \in Work \cup {"none"}, Effect(r, k, l)
  PROVE  Account'
<1>1. AcquiresChunk' BY DEF Account, AcquiresChunk, Effect, Chunks
<1>2. DoneDelivered' BY DEF Account, DoneDelivered, Effect, Chunks
<1>3. SentDelivered' BY DEF Account, SentDelivered, Effect, Moved
<1>4. Accounted' BY DEF Account, Accounted, Effect, Moved
<1>5. CompletedUnlessStopped'
  BY DEF Account, CompletedUnlessStopped, CompletedDelivered, Effect
<1>6. QED BY <1>1, <1>2, <1>3, <1>4, <1>5 DEF Account

(* The account is kept. *)
LEMMA StepAccount ==
  ASSUME Shapes, Shapes', Account, [Next]_vars
  PROVE  Account'
<1>0. \A r \in Runs : cursor[r] \in 1..TotalChunks + 1 BY DEF Shapes
<1>1. ASSUME NEW r \in Runs, NEW k \in Chunks, Worker(r, k) PROVE Account'
  BY <1>1, WorkerEffect, EffectAccount DEF Account, Shapes
<1> USE DEF transferVars, runVars, workerVars, historyVars
<1>2. ASSUME NEW r \in Runs, Abandon(r) PROVE Account'
  <2>1. AcquiresChunk' BY <1>2 DEF Abandon, Goto, Account, AcquiresChunk, Shapes
  <2>2. QED BY <1>2, <2>1 DEF Abandon, AtChunk, Account, DoneDelivered,
                SentDelivered, Accounted, CompletedUnlessStopped
<1>3. ASSUME NEW r \in Runs, SkipDone(r) PROVE Account'
  <2>1. cursor'[r] = cursor[r] + 1 /\ \A s \in Runs \ {r} : cursor'[s] = cursor[s]
    BY <1>3 DEF SkipDone, Advance, Shapes
  <2>2. run[r] = "loop" /\ cursor[r] \in delivered
    BY <1>3 DEF SkipDone, AtChunk, Account, DoneDelivered
  <2>3. AcquiresChunk'
    BY <1>3, <2>1, <2>2 DEF SkipDone, Account, AcquiresChunk
  <2>4. Accounted'
    <3> SUFFICES ASSUME ~stopped, NEW s \in Runs, NEW c \in Chunks,
                        c < cursor'[s]
                 PROVE  c \in delivered \/ failed[s] \/ worker[s][c] # "none"
      BY <1>3 DEF SkipDone, Accounted
    <3>1. c < cursor[s] \/ (s = r /\ c = cursor[r])
      BY <1>0, <2>1, SizesAssumption DEF Chunks
    <3>2. QED BY <3>1, <2>2 DEF Account, Accounted
  <2>5. QED BY <1>3, <2>3, <2>4 DEF SkipDone, Account, DoneDelivered,
                SentDelivered, CompletedUnlessStopped, CompletedDelivered
<1>4. ASSUME NEW r \in Runs, Claim(r) PROVE Account'
  <2>1. AcquiresChunk'
    BY <1>4 DEF Claim, Goto, AtChunk, Account, AcquiresChunk, Shapes
  <2>2. QED BY <1>4, <2>1 DEF Claim, Account, DoneDelivered, SentDelivered,
                Accounted, CompletedUnlessStopped, CompletedDelivered
<1>5. ASSUME NEW r \in Runs, Spawn(r) PROVE Account'
  <2>1. cursor[r] \in Chunks BY <1>5 DEF Spawn, Account, AcquiresChunk
  <2>2. Moved(r, cursor[r], "check") BY <1>5, <2>1, ToMoves DEF Spawn, Work
  <2>3. cursor'[r] = cursor[r] + 1 /\ \A s \in Runs \ {r} : cursor'[s] = cursor[s]
    BY <1>5 DEF Spawn, Advance, Shapes
  <2>4. AcquiresChunk'
    BY <1>5, <2>3 DEF Spawn, Goto, Account, AcquiresChunk, Shapes
  <2>5. SentDelivered' BY <1>5, <2>2 DEF Spawn, Moved, Account, SentDelivered
  <2>6. Accounted'
    <3> SUFFICES ASSUME ~stopped, NEW s \in Runs, NEW c \in Chunks,
                        c < cursor'[s]
                 PROVE  c \in delivered \/ failed[s] \/ worker'[s][c] # "none"
      BY <1>5 DEF Spawn, Accounted
    <3>1. c < cursor[s] \/ (s = r /\ c = cursor[r])
      BY <1>0, <2>3, SizesAssumption DEF Chunks
    <3>2. QED BY <3>1, <2>2 DEF Account, Accounted, Moved
  <2>7. QED BY <1>5, <2>4, <2>5, <2>6 DEF Spawn, Account, DoneDelivered,
                CompletedUnlessStopped, CompletedDelivered
<1>6. ASSUME NEW r \in Runs, Finish(r) PROVE Account'
  <2>1. AcquiresChunk' BY <1>6 DEF Finish, Goto, Account, AcquiresChunk, Shapes
  <2>2. CompletedUnlessStopped'
    <3> SUFFICES ASSUME ~stopped, ~failed[r] PROVE delivered = Chunks
      BY <1>6 DEF Finish, CompletedUnlessStopped, CompletedDelivered
    <3>1. \A c \in Chunks : c < cursor[r] /\ worker[r][c] = "none"
      BY <1>6, SizesAssumption DEF Finish, Waited, Idle, Chunks
    <3>2. \A c \in Chunks : c \in delivered BY <3>1 DEF Account, Accounted
    <3>3. QED BY <3>2 DEF Shapes
  <2>3. QED BY <1>6, <2>1, <2>2 DEF Finish, Account, DoneDelivered,
                SentDelivered, Accounted
<1> USE DEF Account, AcquiresChunk, DoneDelivered, SentDelivered, Accounted,
      CompletedUnlessStopped, CompletedDelivered
<1>7. CASE PauseTransfer
  BY <1>7 DEF PauseTransfer
<1>8. CASE CancelTransfer
  BY <1>8 DEF CancelTransfer
<1>9. CASE Stop
  BY <1>9 DEF Stop
<1>10. ASSUME NEW r \in Runs, ResumeTransfer(r) PROVE Account'
  BY <1>10 DEF ResumeTransfer, Goto, Shapes
<1>11. CASE UNCHANGED vars
  BY <1>11 DEF vars
<1>12. QED BY <1>1, <1>2, <1>3, <1>4, <1>5, <1>6, <1>7, <1>8, <1>9, <1>10, <1>11 DEF Next, Sending, Control, Dispatch

--------------------------------------------------------------------------------
(* What a step of a goroutine does to the counters. *)
Tally(r, k, l) ==
  /\ Moved(r, k, l)
  /\ \A c \in Chunks : attempts[c] <= attempts'[c]
  /\ \A s \in Runs, c \in Chunks : s # r \/ c # k => seen'[s][c] = seen[s][c]
  /\ l \in {"readFailed", "sendFailed"} => Capped(seen'[r][k] + 1) <= attempts'[k]
  /\ \A c \in Chunks :
       retries'[c] = retries[c] \/ Capped(retries'[c]) <= attempts[c]

(* Every step of a goroutine counts like this. *)
LEMMA WorkerTally ==
  ASSUME Shapes, CounterBehind, NEW r \in Runs, NEW k \in Chunks, Worker(r, k)
  PROVE  \E l \in Work \cup {"none"} : Tally(r, k, l)
<1> USE SizesAssumption DEF Shapes, transferVars, historyVars, At
<1>0. \A c \in Chunks : attempts[c] \in Nat /\ attempts[c] <= attempts[c]
  OBVIOUS
<1>1. ASSUME GiveUp(r, k) PROVE Tally(r, k, "none")
  <2>1. Moved(r, k, "none") BY <1>1, ToMoves DEF GiveUp, Work
  <2>2. QED BY <1>0, <1>1, <2>1 DEF GiveUp, Tally
<1>2. ASSUME Quit(r, k) PROVE Tally(r, k, "none")
  <2>1. Moved(r, k, "none") BY <1>2, ToMoves DEF Quit, Work
  <2>2. QED BY <1>0, <1>2, <2>1 DEF Quit, Tally
<1>3. ASSUME ReadOk(r, k) PROVE Tally(r, k, "sending")
  <2>1. Moved(r, k, "sending") BY <1>3, ToMoves DEF ReadOk, Work
  <2>2. QED BY <1>0, <1>3, <2>1 DEF ReadOk, Tally
<1>4. ASSUME ReadError(r, k) PROVE Tally(r, k, "readFailed")
  <2>1. Moved(r, k, "readFailed") BY <1>4, ToMoves DEF ReadError, Fails, Work
  <2>2. retries[k] \in Nat OBVIOUS
  <2>3. \A s \in Runs, c \in Chunks :
          seen'[s][c] = IF s = r /\ c = k THEN retries[k] ELSE seen[s][c]
    BY <1>4, <2>2, SeenMoves DEF ReadError, Fails
  <2>4. \A c \in Chunks : attempts[c] <= attempts'[c]
    BY <1>4 DEF ReadError, Fails
  <2>5. Capped(seen'[r][k] + 1) <= attempts'[k]
    BY <1>4, <2>3 DEF ReadError, Fails, CounterBehind, Capped
  <2>6. QED BY <1>4, <2>1, <2>3, <2>4, <2>5 DEF ReadError, Fails, Tally
<1>5. ASSUME CountReadError(r, k) PROVE Tally(r, k, "check")
  <2>1. Moved(r, k, "check") BY <1>5, ToMoves DEF CountReadError, Work
  <2>2. Capped(retries'[k]) <= attempts[k]
    BY <1>5 DEF CountReadError, CounterBehind
  <2>3. \A s \in Runs, c \in Chunks :
          seen'[s][c] = IF s = r /\ c = k THEN 0 ELSE seen[s][c]
    BY <1>5, SeenMoves DEF CountReadError, Forget
  <2>4. QED BY <1>0, <1>5, <2>1, <2>2, <2>3 DEF CountReadError, Tally
<1>6. ASSUME SendOk(r, k) PROVE Tally(r, k, "sent")
  <2>1. Moved(r, k, "sent") BY <1>6, ToMoves DEF SendOk, Work
  <2>2. QED BY <1>0, <1>6, <2>1 DEF SendOk, Tally
<1>7. ASSUME SendError(r, k) PROVE Tally(r, k, "sendFailed")
  <2>1. Moved(r, k, "sendFailed") BY <1>7, ToMoves DEF SendError, Fails, Work
  <2>2. retries[k] \in Nat OBVIOUS
  <2>3. \A s \in Runs, c \in Chunks :
          seen'[s][c] = IF s = r /\ c = k THEN retries[k] ELSE seen[s][c]
    BY <1>7, <2>2, SeenMoves DEF SendError, Fails
  <2>4. \A c \in Chunks : attempts[c] <= attempts'[c]
    BY <1>7 DEF SendError, Fails
  <2>5. Capped(seen'[r][k] + 1) <= attempts'[k]
    BY <1>7, <2>3 DEF SendError, Fails, CounterBehind, Capped
  <2>6. QED BY <1>7, <2>1, <2>3, <2>4, <2>5 DEF SendError, Fails, Tally
<1>8. ASSUME CountSendError(r, k) PROVE Tally(r, k, "check")
  <2>1. Moved(r, k, "check") BY <1>8, ToMoves DEF CountSendError, Work
  <2>2. Capped(retries'[k]) <= attempts[k]
    BY <1>8 DEF CountSendError, CounterBehind
  <2>3. \A s \in Runs, c \in Chunks :
          seen'[s][c] = IF s = r /\ c = k THEN 0 ELSE seen[s][c]
    BY <1>8, SeenMoves DEF CountSendError, Forget
  <2>4. QED BY <1>0, <1>8, <2>1, <2>2, <2>3 DEF CountSendError, Tally
<1>9. ASSUME CountDone(r, k) PROVE Tally(r, k, "counted")
  <2>1. Moved(r, k, "counted") BY <1>9, ToMoves DEF CountDone, Work
  <2>2. \A s \in Runs, c \in Chunks :
          seen'[s][c] = IF s = r /\ c = k THEN DoneCount ELSE seen[s][c]
    BY <1>9, DoneCountIsNat, SeenMoves DEF CountDone
  <2>3. QED BY <1>0, <1>9, <2>1, <2>2 DEF CountDone, Tally
<1>10. ASSUME StoreProgress(r, k) PROVE Tally(r, k, "reporting")
  <2>1. Moved(r, k, "reporting") BY <1>10, ToMoves DEF StoreProgress, Work
  <2>2. \A s \in Runs, c \in Chunks :
          seen'[s][c] = IF s = r /\ c = k THEN 0 ELSE seen[s][c]
    BY <1>10, SeenMoves DEF StoreProgress, Forget
  <2>3. QED BY <1>0, <1>10, <2>1, <2>2 DEF StoreProgress, Tally
<1>11. ASSUME Report(r, k) PROVE Tally(r, k, "none")
  <2>1. Moved(r, k, "none") BY <1>11, ToMoves DEF Report, Work
  <2>2. QED BY <1>0, <1>11, <2>1 DEF Report, Tally
<1>12. QED BY <1>1, <1>2, <1>3, <1>4, <1>5, <1>6, <1>7, <1>8, <1>9, <1>10, <1>11 DEF Worker, Work

(* The counters stay behind. *)
LEMMA StepCounter ==
  ASSUME Shapes, Shapes', AcquiresChunk, CounterBehind, [Next]_vars
  PROVE  CounterBehind'
<1>1. ASSUME NEW r \in Runs, NEW k \in Chunks, Worker(r, k) PROVE CounterBehind'
  <2>1. PICK l \in Work \cup {"none"} : Tally(r, k, l) BY <1>1, WorkerTally
  <2>2. \A c \in Chunks : attempts[c] \in Nat /\ attempts'[c] \in Nat
                          /\ retries[c] \in Nat /\ retries'[c] \in Nat
    BY SizesAssumption DEF Shapes
  <2>3. \A n \in Nat : Capped(n) \in Nat BY SizesAssumption DEF Capped
  <2>4. \A s \in Runs, c \in Chunks : seen[s][c] + 1 \in Nat BY DEF Shapes
  <2>5. \A c \in Chunks : Capped(retries'[c]) <= attempts'[c]
    BY <2>1, <2>2, <2>3 DEF Tally, CounterBehind
  <2>6. ASSUME NEW s \in Runs, NEW c \in Chunks,
               worker'[s][c] \in {"readFailed", "sendFailed"}
        PROVE  Capped(seen'[s][c] + 1) <= attempts'[c]
    BY <2>1, <2>2, <2>3, <2>4, <2>6 DEF Tally, Moved, CounterBehind
  <2>7. QED BY <2>5, <2>6 DEF CounterBehind, Capped
<1>2. ASSUME NEW r \in Runs, Spawn(r) PROVE CounterBehind'
  <2>1. Moved(r, cursor[r], "check")
    BY <1>2, ToMoves DEF Spawn, Work, AcquiresChunk
  <2>2. QED BY <1>2, <2>1
    DEF Spawn, Moved, CounterBehind, Capped, transferVars, historyVars
<1>3. ASSUME UNCHANGED <<worker, retries, seen, attempts>> PROVE CounterBehind'
  BY <1>3 DEF CounterBehind, Capped
<1>4. QED BY <1>1, <1>2, <1>3
  DEF Next, Sending, Control, Dispatch, Abandon, SkipDone, Claim, Finish,
      PauseTransfer, CancelTransfer, Stop, ResumeTransfer, vars, transferVars,
      workerVars, historyVars

(* A failed attempt is not forgotten. *)
LEMMA ExhaustedStays ==
  ASSUME Shapes, Shapes', CounterBehind, [Next]_vars, SomeExhausted
  PROVE  SomeExhausted'
<1>1. \A c \in Chunks : attempts[c] <= attempts'[c]
  <2>1. ASSUME NEW r \in Runs, NEW k \in Chunks, Worker(r, k)
        PROVE  \A c \in Chunks : attempts[c] <= attempts'[c]
    BY <2>1, WorkerTally DEF Tally
  <2>2. ASSUME UNCHANGED attempts
        PROVE  \A c \in Chunks : attempts[c] <= attempts'[c]
    BY <2>2, SizesAssumption DEF Shapes
  <2>3. QED BY <2>1, <2>2
    DEF Next, Sending, Control, Dispatch, Abandon, SkipDone, Claim, Spawn, Finish,
        PauseTransfer, CancelTransfer, Stop, ResumeTransfer, vars, historyVars
<1>2. QED BY <1>1, SizesAssumption DEF SomeExhausted, Shapes

(* Failures stay justified. *)
LEMMA StepFailure ==
  ASSUME Shapes, Shapes', CounterBehind, FailureJustified, [Next]_vars
  PROVE  FailureJustified'
<1>1. SomeExhausted => SomeExhausted' BY ExhaustedStays
<1>2. ASSUME NEW r \in Runs, NEW k \in Chunks, GiveUp(r, k)
      PROVE  FailureJustified'
  <2>1. Capped(retries[k]) <= attempts[k] /\ retries[k] >= MaxRetries
    BY <1>2, retries[k] \in Nat, SizesAssumption
    DEF GiveUp, Exhausted, CounterBehind, Shapes
  <2>2. attempts[k] = MaxRetries
    <3>1. attempts[k] \in 0..MaxRetries /\ retries[k] \in Nat BY DEF Shapes
    <3>2. Capped(retries[k]) = MaxRetries
      BY <2>1, <3>1, SizesAssumption DEF Capped
    <3>3. QED BY <2>1, <3>1, <3>2, SizesAssumption
  <2>3. SomeExhausted' BY <1>2, <2>2 DEF GiveUp, SomeExhausted, historyVars
  <2>4. QED BY <1>2, <2>3 DEF GiveUp, FailureJustified, FailedAfterRetries,
                              SomeExhausted
<1>3. ASSUME NEW r \in Runs, Finish(r) PROVE FailureJustified'
  BY <1>1, <1>3 DEF Finish, FailureJustified, FailedAfterRetries, SomeExhausted,
     Shapes, historyVars
<1>4. CASE CancelTransfer
  BY <1>1, <1>4 DEF CancelTransfer, FailureJustified, FailedAfterRetries, runVars
<1>5. ASSUME UNCHANGED <<failed, cancelled>>,
             status' \in {status, "paused", "running"}
      PROVE  FailureJustified'
  BY <1>1, <1>5 DEF FailureJustified, FailedAfterRetries, SomeExhausted
<1>6. QED BY <1>2, <1>3, <1>4, <1>5
  DEF Next, Sending, Control, Dispatch, Worker, Abandon, SkipDone, Claim, Spawn,
      Quit, ReadOk, ReadError, CountReadError, SendOk, SendError, CountSendError,
      CountDone, StoreProgress, Report, Fails, PauseTransfer, Stop,
      ResumeTransfer, vars, transferVars, runVars, historyVars

--------------------------------------------------------------------------------
(* SInv is an invariant of the transfer. *)
LEMMA SInvHolds == Spec => []SInv
<1>1. SInv /\ [Next]_vars => SInv'
  BY StepShapes, StepAccount, StepCounter, StepFailure DEF SInv, Account
<1>2. QED BY InitSInv, <1>1, PTL DEF Spec

--------------------------------------------------------------------------------
(* However its runs overlap, a transfer that is reported completed was        *)
(* received in full, unless the service was stopped.                          *)
THEOREM CompletedIsDelivered == Spec => []CompletedUnlessStopped
<1>1. SInv => CompletedUnlessStopped BY DEF SInv, Account
<1>2. QED BY SInvHolds, <1>1, PTL

(* A transfer nobody cancelled fails only when every attempt at a chunk did.  *)
THEOREM FailureIsExhaustion == Spec => []FailedAfterRetries
<1>1. SInv => FailedAfterRetries BY DEF SInv, FailureJustified
<1>2. QED BY SInvHolds, <1>1, PTL

--------------------------------------------------------------------------------
(* The progress: what was counted, what a goroutine is about to store and what *)
(* is shown were all received before.                                         *)
ReportsShape == reports \in [Chunks -> 0..2]

ProgressHeld ==
  /\ progress \in Nat
  /\ ProgressNotAhead
  /\ \A r \in Runs, c \in Chunks :
       worker[r][c] = "counted" => seen[r][c] <= Cardinality(delivered)

(* Cardinalities of sets of chunks. *)
LEMMA ChunkSets ==
  ASSUME NEW S \in SUBSET Chunks, NEW T \in SUBSET S
  PROVE  /\ IsFiniteSet(S) /\ Cardinality(S) \in 0..TotalChunks
         /\ Cardinality(T) \in Nat /\ Cardinality(T) <= Cardinality(S)
<1>1. IsFiniteSet(Chunks) /\ Cardinality(Chunks) = TotalChunks
  BY FS_Interval, SizesAssumption DEF Chunks
<1>2. IsFiniteSet(S) /\ Cardinality(S) <= Cardinality(Chunks) BY <1>1, FS_Subset
<1>3. IsFiniteSet(T) /\ Cardinality(T) <= Cardinality(S) BY <1>2, FS_Subset
<1>4. Cardinality(S) \in Nat /\ Cardinality(T) \in Nat
  BY <1>2, <1>3, FS_CardinalityType
<1>5. QED BY <1>1, <1>2, <1>3, <1>4, SizesAssumption

(* A step takes nothing back from the receiver. *)
LEMMA DeliveredGrows ==
  ASSUME Shapes, SentDelivered, [Next]_vars
  PROVE  delivered \subseteq delivered'
<1>1. ASSUME NEW r \in Runs, NEW k \in Chunks, Worker(r, k)
      PROVE  delivered \subseteq delivered'
  BY <1>1, WorkerEffect DEF Effect
<1>2. QED BY <1>1
  DEF Next, Sending, Control, Dispatch, Abandon, SkipDone, Claim, Spawn, Finish,
      PauseTransfer, CancelTransfer, Stop, ResumeTransfer, vars, historyVars

(* Initially nothing is shown. *)
LEMMA InitProgress == Init => ProgressHeld /\ ReportsShape
<1> SUFFICES ASSUME Init PROVE ProgressHeld /\ ReportsShape OBVIOUS
<1>1. Cardinality(delivered) = 0 BY FS_EmptySet DEF Init
<1>2. QED BY <1>1 DEF Init, ProgressHeld, ProgressNotAhead, ReportsShape

(* The progress is kept. *)
LEMMA StepProgress ==
  ASSUME Shapes, Shapes', Account, ProgressHeld, [Next]_vars
  PROVE  ProgressHeld'
<1>1. /\ Cardinality(delivered) \in Nat /\ Cardinality(delivered') \in Nat
      /\ Cardinality(delivered) <= Cardinality(delivered')
  BY DeliveredGrows, ChunkSets DEF Shapes, Account
<1>2. \A s \in Runs, c \in Chunks : seen[s][c] \in Nat BY DEF Shapes
<1>3. ASSUME UNCHANGED <<progress, seen>>,
             \A s \in Runs, c \in Chunks :
               worker'[s][c] = "counted" => worker[s][c] = "counted"
      PROVE  ProgressHeld'
  BY <1>1, <1>2, <1>3 DEF ProgressHeld, ProgressNotAhead
<1>4. ASSUME NEW r \in Runs, NEW k \in Chunks, CountDone(r, k)
      PROVE  ProgressHeld'
  <2>1. DoneCount <= Cardinality(delivered)
    BY ChunkSets DEF DoneCount, Account, DoneDelivered, Shapes
  <2>2. Moved(r, k, "counted") BY <1>4, ToMoves DEF CountDone, Work
  <2>3. \A s \in Runs, c \in Chunks :
          seen'[s][c] = IF s = r /\ c = k THEN DoneCount ELSE seen[s][c]
    BY <1>4, DoneCountIsNat, SeenMoves DEF CountDone
  <2>4. QED BY <1>4, <2>1, <2>2, <2>3
    DEF CountDone, Moved, ProgressHeld, ProgressNotAhead, transferVars,
        historyVars
<1>5. ASSUME NEW r \in Runs, NEW k \in Chunks, StoreProgress(r, k)
      PROVE  ProgressHeld'
  <2>1. Moved(r, k, "reporting") BY <1>5, ToMoves DEF StoreProgress, Work
  <2>2. \A s \in Runs, c \in Chunks :
          seen'[s][c] = IF s = r /\ c = k THEN 0 ELSE seen[s][c]
    BY <1>5, SeenMoves DEF StoreProgress, Forget
  <2>3. progress' \in Nat /\ progress' <= Cardinality(delivered)
    BY <1>2, <1>5 DEF StoreProgress, At, ProgressHeld
  <2>4. QED BY <1>5, <2>1, <2>2, <2>3
    DEF StoreProgress, Moved, ProgressHeld, ProgressNotAhead, historyVars
<1>6. ASSUME NEW r \in Runs, NEW k \in Chunks,
             ReadError(r, k) \/ SendError(r, k)
      PROVE  ProgressHeld'
  <2>1. PICK l \in {"readFailed", "sendFailed"} : Moved(r, k, l)
    BY <1>6, ToMoves DEF ReadError, SendError, Fails, Work
  <2>2. retries[k] \in Nat BY DEF Shapes
  <2>3. \A s \in Runs, c \in Chunks :
          seen'[s][c] = IF s = r /\ c = k THEN retries[k] ELSE seen[s][c]
    BY <1>6, <2>2, SeenMoves DEF ReadError, SendError, Fails
  <2>4. UNCHANGED <<progress, delivered>>
    BY <1>6 DEF ReadError, SendError, Fails, transferVars
  <2>5. QED BY <2>1, <2>3, <2>4 DEF Moved, ProgressHeld, ProgressNotAhead
<1>7. ASSUME NEW r \in Runs, NEW k \in Chunks,
             CountReadError(r, k) \/ CountSendError(r, k)
      PROVE  ProgressHeld'
  <2>1. Moved(r, k, "check")
    BY <1>7, ToMoves DEF CountReadError, CountSendError, Work
  <2>2. \A s \in Runs, c \in Chunks :
          seen'[s][c] = IF s = r /\ c = k THEN 0 ELSE seen[s][c]
    BY <1>7, SeenMoves DEF CountReadError, CountSendError, Forget
  <2>3. UNCHANGED <<progress, delivered>>
    BY <1>7 DEF CountReadError, CountSendError, historyVars
  <2>4. QED BY <2>1, <2>2, <2>3 DEF Moved, ProgressHeld, ProgressNotAhead
<1>8. ASSUME NEW r \in Runs, NEW k \in Chunks,
             \/ GiveUp(r, k) \/ Quit(r, k) \/ ReadOk(r, k) \/ SendOk(r, k)
             \/ Report(r, k)
      PROVE  ProgressHeld'
  <2>1. PICK l \in {"none", "sending", "sent"} : Moved(r, k, l)
    BY <1>8, ToMoves DEF GiveUp, Quit, ReadOk, SendOk, Report, Work
  <2>2. UNCHANGED <<progress, seen>>
    BY <1>8 DEF GiveUp, Quit, ReadOk, SendOk, Report, transferVars
  <2>3. QED BY <1>3, <2>1, <2>2 DEF Moved
<1>9. ASSUME NEW r \in Runs, Spawn(r) PROVE ProgressHeld'
  <2>1. Moved(r, cursor[r], "check")
    BY <1>9, ToMoves DEF Spawn, Work, Account, AcquiresChunk
  <2>2. QED BY <1>3, <1>9, <2>1 DEF Spawn, Moved, transferVars
<1>10. ASSUME UNCHANGED <<progress, seen, worker>> PROVE ProgressHeld'
  BY <1>3, <1>10
<1>11. QED BY <1>4, <1>5, <1>6, <1>7, <1>8, <1>9, <1>10
  DEF Next, Sending, Control, Dispatch, Worker, Abandon, SkipDone, Claim, Finish,
      PauseTransfer, CancelTransfer, Stop, ResumeTransfer, vars, transferVars,
      workerVars

(* The counts of reports stay counts. *)
LEMMA StepReports == ReportsShape /\ [Next]_vars => ReportsShape'
<1> SUFFICES ASSUME ReportsShape, [Next]_vars PROVE ReportsShape' OBVIOUS
<1>1. ASSUME NEW r \in Runs, NEW k \in Chunks, Report(r, k) PROVE ReportsShape'
  BY <1>1 DEF Report, ReportsShape
<1>2. ASSUME UNCHANGED reports PROVE ReportsShape'
  BY <1>2 DEF ReportsShape
<1>3. QED BY <1>1, <1>2
  DEF Next, Sending, Control, Dispatch, Worker, Abandon, SkipDone, Claim, Spawn,
      Finish, GiveUp, Quit, ReadOk, ReadError, SendOk, SendError, Fails,
      CountReadError, CountSendError, CountDone, StoreProgress, PauseTransfer,
      CancelTransfer, Stop, ResumeTransfer, vars, historyVars

(* Both are invariants, on top of SInv. *)
LEMMA ProgressInvariant == Spec => [](ProgressHeld /\ ReportsShape)
<1>1. /\ SInv /\ SInv' /\ ProgressHeld /\ ReportsShape /\ [Next]_vars
      => ProgressHeld' /\ ReportsShape'
  BY StepProgress, StepReports DEF SInv
<1>2. QED BY InitProgress, SInvHolds, <1>1, PTL DEF Spec

(* The progress shown is at most what the receiver has, though goroutines of  *)
(* overlapping runs count and store it in any order.                          *)
THEOREM ProgressBehind == Spec => []ProgressNotAhead
<1>1. ProgressHeld => ProgressNotAhead BY DEF ProgressHeld
<1>2. QED BY ProgressInvariant, <1>1, PTL

(* Every field keeps its type; above all, the progress is a share of the file *)
(* and no index leaves the chunks.                                            *)
THEOREM TypeCorrect == Spec => []TypeOK
<1>1. SInv /\ ProgressHeld /\ ReportsShape => TypeOK
  <2> SUFFICES ASSUME SInv, ProgressHeld, ReportsShape PROVE TypeOK OBVIOUS
  <2>1. progress \in 0..TotalChunks
    <3>1. Cardinality(delivered) \in 0..TotalChunks
      BY ChunkSets DEF SInv, Shapes
    <3>2. QED BY <3>1, SizesAssumption DEF ProgressHeld, ProgressNotAhead
  <2>2. QED BY <2>1 DEF SInv, Shapes, ReportsShape, TypeOK
<1>2. QED BY SInvHolds, ProgressInvariant, <1>1, PTL

--------------------------------------------------------------------------------
(* The runs.  One that was not started, or has finished, has no goroutines;   *)
(* the first was started.                                                     *)
RunsKnown ==
  /\ run[1] # "none"
  /\ \A r \in Runs :
       /\ run[r] \in {"none", "finished"} => Idle(r)
       /\ run[r] = "finished" => cursor[r] = TotalChunks + 1

(* The runs are known in every step. *)
LEMMA StepRuns ==
  ASSUME Shapes, AcquiresChunk, RunsKnown, [Next]_vars
  PROVE  RunsKnown'
<1>0. 1 \in Runs BY SizesAssumption DEF Runs
<1> USE DEF RunsKnown, Idle, transferVars, runVars, workerVars, historyVars
<1>1. ASSUME NEW r \in Runs, NEW k \in Chunks, Worker(r, k) PROVE RunsKnown'
  <2>1. worker[r][k] # "none"
    BY <1>1 DEF Worker, At, GiveUp, Quit, ReadOk, ReadError, CountReadError,
       SendOk, SendError, CountSendError, CountDone, StoreProgress, Report
  <2>2. PICK l \in Work \cup {"none"} : Moved(r, k, l)
    BY <1>1, ToMoves DEF Work, Worker, GiveUp, Quit, ReadOk, ReadError,
       CountReadError, SendOk, SendError, Fails, CountSendError, CountDone,
       StoreProgress, Report
  <2>3. UNCHANGED <<run, cursor>>
    BY <1>1 DEF Worker, GiveUp, Quit, ReadOk, ReadError, CountReadError, SendOk,
       SendError, Fails, CountSendError, CountDone, StoreProgress, Report
  <2>4. QED BY <2>1, <2>2, <2>3 DEF Moved
<1>2. ASSUME NEW r \in Runs, Spawn(r) PROVE RunsKnown'
  <2>1. Moved(r, cursor[r], "check")
    BY <1>2, ToMoves DEF Spawn, Work, AcquiresChunk
  <2>2. /\ run'[r] = "loop" /\ \A s \in Runs \ {r} : run'[s] = run[s]
        /\ \A s \in Runs \ {r} : cursor'[s] = cursor[s]
    BY <1>2 DEF Spawn, Goto, Advance, Shapes
  <2>3. QED BY <1>0, <1>2, <2>1, <2>2 DEF Spawn, Moved
<1>3. ASSUME NEW r \in Runs, Finish(r) PROVE RunsKnown'
  BY <1>0, <1>3 DEF Finish, Waited, Goto, Shapes
<1>4. ASSUME NEW r \in Runs, SkipDone(r) PROVE RunsKnown'
  BY <1>4 DEF SkipDone, AtChunk, Advance, Shapes
<1>5. ASSUME NEW r \in Runs, NEW l \in {"loop", "acquire", "abandoned"}, Goto(r, l),
             UNCHANGED <<cursor, worker>>
      PROVE  RunsKnown'
  BY <1>0, <1>5 DEF Goto, Shapes
<1>6. ASSUME UNCHANGED <<run, cursor, worker>> PROVE RunsKnown'
  BY <1>6
<1>7. QED BY <1>1, <1>2, <1>3, <1>4, <1>5, <1>6
  DEF Next, Sending, Control, Dispatch, Abandon, Claim, PauseTransfer,
      CancelTransfer, Stop, ResumeTransfer, vars

--------------------------------------------------------------------------------
(* As long as the transfer was not resumed, its first run is alone, and what  *)
(* has become of a chunk can be told from where the loop is.                  *)
Unreached(c) ==
  c >= cursor[1] => worker[1][c] = "none" /\ chunk[c] = "pending" /\ reports[c] = 0

Reached(c) ==
  c < cursor[1] => \/ reports[c] = 1 \/ worker[1][c] # "none"
                   \/ failed[1] \/ stopped

ReportedOnce(c) ==
  reports[c] <= 1 /\ (worker[1][c] # "none" => reports[c] = 0)

Tried(c) ==
  /\ retries[c] <= MaxRetries
  /\ worker[1][c] = "sending" => retries[c] < MaxRetries
  /\ worker[1][c] \in {"readFailed", "sendFailed"} => seen[1][c] < MaxRetries

SoloChunk(c) == Unreached(c) /\ Reached(c) /\ ReportedOnce(c) /\ Tried(c)

Solo ==
  ~Resumed => Cardinality(Busy(1)) <= MaxWorkers /\ \A c \in Chunks : SoloChunk(c)

(* Initially no chunk is reached. *)
LEMMA InitSolo == Init => RunsKnown /\ Solo
<1> SUFFICES ASSUME Init PROVE RunsKnown /\ Solo OBVIOUS
<1>0. 1 \in Runs BY SizesAssumption DEF Runs
<1>1. RunsKnown BY <1>0 DEF Init, RunsKnown, Idle
<1>2. Cardinality(Busy(1)) <= MaxWorkers
  <2>1. Busy(1) = {} BY <1>0 DEF Init, Busy
  <2>2. QED BY <2>1, FS_EmptySet, SizesAssumption
<1>3. ASSUME NEW c \in Chunks PROVE SoloChunk(c)
  BY <1>0, SizesAssumption
  DEF Init, SoloChunk, Unreached, Reached, ReportedOnce, Tried, Chunks
<1>4. QED BY <1>1, <1>2, <1>3 DEF Solo

(* A chunk nothing happens to. *)
SameChunk(c) ==
  /\ worker'[1][c] = worker[1][c] /\ seen'[1][c] = seen[1][c]
  /\ chunk'[c] = chunk[c] /\ retries'[c] = retries[c] /\ reports'[c] = reports[c]

(* It stays as it was. *)
LEMMA SameSolo ==
  ASSUME NEW c \in Chunks, SoloChunk(c), SameChunk(c), cursor'[1] = cursor[1],
         stopped => stopped', failed[1] => failed'[1]
  PROVE  SoloChunk(c)'
<1>1. Unreached(c)' BY DEF SoloChunk, Unreached, SameChunk
<1>2. Reached(c)' BY DEF SoloChunk, Reached, SameChunk
<1>3. ReportedOnce(c)' BY DEF SoloChunk, ReportedOnce, SameChunk
<1>4. Tried(c)' BY DEF SoloChunk, Tried, SameChunk
<1>5. QED BY <1>1, <1>2, <1>3, <1>4 DEF SoloChunk

(* A goroutine of the first run keeps its own chunk's account. *)
LEMMA WorkerSolo ==
  ASSUME Shapes, ReportsShape, 1 \in Runs, NEW k \in Chunks, SoloChunk(k),
         Worker(1, k)
  PROVE  /\ SoloChunk(k)'
         /\ worker[1][k] # "none"
         /\ \A c \in Chunks \ {k} : SameChunk(c)
         /\ UNCHANGED <<cursor, stopped>> /\ (failed[1] => failed'[1])
<1> DEFINE Rest == \A c \in Chunks \ {k} : SameChunk(c)
           Fix  == UNCHANGED <<cursor, stopped>> /\ (failed[1] => failed'[1])
           Here == k < cursor[1] /\ reports[k] = 0 /\ worker[1][k] # "none"
<1>0. cursor[1] \in Nat /\ k \in Nat /\ reports[k] \in Nat /\ retries[k] \in Nat
      /\ seen[1][k] \in Nat
  BY SizesAssumption DEF Shapes, ReportsShape, Chunks
<1>1. Here
  <2>1. worker[1][k] # "none"
    BY DEF Worker, At, GiveUp, Quit, ReadOk, ReadError, CountReadError, SendOk,
       SendError, CountSendError, CountDone, StoreProgress, Report
  <2>2. QED BY <1>0, <2>1 DEF SoloChunk, Unreached, ReportedOnce
<1> USE DEF transferVars, runVars, workerVars, historyVars
<1> DEFINE Goal == SoloChunk(k)' /\ Rest /\ Fix
<1>2. ASSUME NEW l \in Work \cup {"none"}, Moved(1, k, l),
             UNCHANGED <<cursor, stopped, reports>>, failed[1] => failed'[1],
             l = "none" => failed'[1] \/ stopped,
             Tried(k)'
      PROVE  SoloChunk(k)'
  <2>1. worker'[1][k] = l BY <1>2 DEF Moved
  <2>2. Unreached(k)' BY <1>0, <1>1, <1>2 DEF Unreached
  <2>3. Reached(k)' BY <1>2, <2>1 DEF Reached
  <2>4. ReportedOnce(k)' BY <1>1, <1>2 DEF ReportedOnce
  <2>5. QED BY <1>2, <2>2, <2>3, <2>4 DEF SoloChunk
<1>3. ASSUME GiveUp(1, k) PROVE Goal
  <2>1. Moved(1, k, "none") BY <1>3, ToMoves DEF GiveUp, Work
  <2>2. Tried(k)' BY <1>3, <2>1 DEF GiveUp, Moved, SoloChunk, Tried
  <2>3. Fix /\ failed'[1] BY <1>3 DEF GiveUp, Shapes
  <2>4. UNCHANGED reports BY <1>3 DEF GiveUp
  <2>5. Rest BY <1>3, <2>1 DEF GiveUp, Moved, SameChunk
  <2>6. QED BY <1>2, <2>1, <2>2, <2>3, <2>4, <2>5
<1>4. ASSUME Quit(1, k) PROVE Goal
  <2>1. Moved(1, k, "none") BY <1>4, ToMoves DEF Quit, Work
  <2>2. Tried(k)' BY <1>4, <2>1 DEF Quit, Moved, SoloChunk, Tried
  <2>3. Fix /\ stopped /\ UNCHANGED reports BY <1>4 DEF Quit
  <2>4. Rest BY <1>4, <2>1 DEF Quit, Moved, SameChunk
  <2>5. QED BY <1>2, <2>1, <2>2, <2>3, <2>4
<1>5. ASSUME ReadOk(1, k) PROVE Goal
  <2>1. Moved(1, k, "sending") BY <1>5, ToMoves DEF ReadOk, Work
  <2>2. Tried(k)'
    BY <1>0, <1>5, <2>1, SizesAssumption
    DEF ReadOk, Exhausted, Moved, SoloChunk, Tried
  <2>3. Fix /\ UNCHANGED reports BY <1>5 DEF ReadOk
  <2>4. Rest BY <1>5, <2>1 DEF ReadOk, Moved, SameChunk, Shapes
  <2>5. QED BY <1>2, <2>1, <2>2, <2>3, <2>4 DEF Work
<1>6. ASSUME ReadError(1, k) \/ SendError(1, k) PROVE Goal
  <2>1. PICK l \in {"readFailed", "sendFailed"} : Moved(1, k, l)
    BY <1>6, ToMoves DEF ReadError, SendError, Fails, Work
  <2>2. \A s \in Runs, c \in Chunks :
          seen'[s][c] = IF s = 1 /\ c = k THEN retries[k] ELSE seen[s][c]
    BY <1>0, <1>6, SeenMoves DEF ReadError, SendError, Fails
  <2>3. retries[k] < MaxRetries
    BY <1>0, <1>6, SizesAssumption
    DEF ReadError, SendError, At, Exhausted, SoloChunk, Tried
  <2>4. Fix /\ UNCHANGED <<reports, retries, chunk>>
    BY <1>6 DEF ReadError, SendError, Fails
  <2>5. Tried(k)' BY <2>1, <2>2, <2>3, <2>4 DEF Moved, SoloChunk, Tried
  <2>6. Rest BY <2>1, <2>2, <2>4 DEF Moved, SameChunk
  <2>7. QED BY <1>2, <2>1, <2>4, <2>5, <2>6 DEF Work
<1>7. ASSUME CountReadError(1, k) \/ CountSendError(1, k) PROVE Goal
  <2>1. Moved(1, k, "check")
    BY <1>7, ToMoves DEF CountReadError, CountSendError, Work
  <2>2. \A s \in Runs, c \in Chunks :
          seen'[s][c] = IF s = 1 /\ c = k THEN 0 ELSE seen[s][c]
    BY <1>7, SeenMoves DEF CountReadError, CountSendError, Forget
  <2>3. seen[1][k] < MaxRetries
    BY <1>7 DEF CountReadError, CountSendError, At, SoloChunk, Tried
  <2>4. Fix /\ UNCHANGED reports BY <1>7 DEF CountReadError, CountSendError
  <2>5. /\ retries'[k] = seen[1][k] + 1
        /\ \A c \in Chunks \ {k} : retries'[c] = retries[c] /\ chunk'[c] = chunk[c]
    BY <1>7 DEF CountReadError, CountSendError, Shapes
  <2>6. Tried(k)'
    BY <1>0, <2>1, <2>3, <2>5, SizesAssumption DEF Moved, Tried
  <2>7. Rest BY <2>1, <2>2, <2>4, <2>5 DEF Moved, SameChunk
  <2>8. QED BY <1>2, <2>1, <2>4, <2>6, <2>7 DEF Work
<1>8. ASSUME SendOk(1, k) PROVE Goal
  <2>1. Moved(1, k, "sent") BY <1>8, ToMoves DEF SendOk, Work
  <2>2. Tried(k)' BY <1>8, <2>1 DEF SendOk, Moved, SoloChunk, Tried
  <2>3. Fix /\ UNCHANGED reports BY <1>8 DEF SendOk
  <2>4. Rest BY <1>8, <2>1 DEF SendOk, Moved, SameChunk, Shapes
  <2>5. QED BY <1>2, <2>1, <2>2, <2>3, <2>4 DEF Work
<1>9. ASSUME CountDone(1, k) PROVE Goal
  <2>1. Moved(1, k, "counted") BY <1>9, ToMoves DEF CountDone, Work
  <2>2. \A s \in Runs, c \in Chunks :
          seen'[s][c] = IF s = 1 /\ c = k THEN DoneCount ELSE seen[s][c]
    BY <1>9, DoneCountIsNat, SeenMoves DEF CountDone
  <2>3. Tried(k)' BY <1>9, <2>1 DEF CountDone, Moved, SoloChunk, Tried
  <2>4. Fix /\ UNCHANGED reports BY <1>9 DEF CountDone
  <2>5. Rest BY <1>9, <2>1, <2>2 DEF CountDone, Moved, SameChunk
  <2>6. QED BY <1>2, <2>1, <2>3, <2>4, <2>5 DEF Work
<1>10. ASSUME StoreProgress(1, k) PROVE Goal
  <2>1. Moved(1, k, "reporting") BY <1>10, ToMoves DEF StoreProgress, Work
  <2>2. \A s \in Runs, c \in Chunks :
          seen'[s][c] = IF s = 1 /\ c = k THEN 0 ELSE seen[s][c]
    BY <1>10, SeenMoves DEF StoreProgress, Forget
  <2>3. Tried(k)' BY <1>10, <2>1 DEF StoreProgress, Moved, SoloChunk, Tried
  <2>4. Fix /\ UNCHANGED reports BY <1>10 DEF StoreProgress
  <2>5. Rest BY <1>10, <2>1, <2>2 DEF StoreProgress, Moved, SameChunk
  <2>6. QED BY <1>2, <2>1, <2>3, <2>4, <2>5 DEF Work
<1>11. ASSUME Report(1, k) PROVE Goal
  <2>1. Moved(1, k, "none") BY <1>11, ToMoves DEF Report, Work
  <2>2. Tried(k)' BY <1>11, <2>1 DEF Report, Moved, SoloChunk, Tried
  <2>3. Fix BY <1>11 DEF Report
  <2>4. reports'[k] = 1 /\ \A c \in Chunks \ {k} : reports'[c] = reports[c]
    BY <1>1, <1>11 DEF Report, ReportsShape
  <2>5. Unreached(k)' BY <1>0, <1>1, <2>3 DEF Unreached
  <2>6. Reached(k)' /\ ReportedOnce(k)'
    BY <2>1, <2>4 DEF Reached, ReportedOnce, Moved
  <2>7. Rest BY <1>11, <2>1, <2>4 DEF Report, Moved, SameChunk
  <2>8. QED BY <2>2, <2>3, <2>5, <2>6, <2>7 DEF SoloChunk
<1>12. QED
  BY <1>1, <1>3, <1>4, <1>5, <1>6, <1>7, <1>8, <1>9, <1>10, <1>11 DEF Worker

(* The run that is alone keeps the account of all its chunks. *)
LEMMA StepSolo ==
  ASSUME Shapes, AcquiresChunk, ReportsShape, RunsKnown, Solo, [Next]_vars
  PROVE  Solo'
<1>0. 1 \in Runs /\ \A r \in Runs : r = 1 \/ r > 1 BY SizesAssumption DEF Runs
<1>1. SUFFICES ASSUME ~Resumed'
               PROVE  /\ (Cardinality(Busy(1)) <= MaxWorkers)'
                      /\ \A c \in Chunks : SoloChunk(c)'
  BY DEF Solo
<1> DEFINE Goal == /\ (Cardinality(Busy(1)) <= MaxWorkers)'
                   /\ \A c \in Chunks : SoloChunk(c)'
<1> USE DEF transferVars, runVars, workerVars, historyVars
<1>2. \A s \in Runs \ {1} : run'[s] = "none" => run[s] = "none"
  BY DEF Next, Sending, Control, Dispatch, Worker, Abandon, SkipDone, Claim, Spawn,
     Finish, GiveUp, Quit, ReadOk, ReadError, CountReadError, SendOk, SendError,
     Fails, CountSendError, CountDone, StoreProgress, Report, PauseTransfer,
     CancelTransfer, Stop, ResumeTransfer, vars, Goto, Shapes
<1>3. run'[1] # "none"
  <2>1. RunsKnown' BY StepRuns
  <2>2. QED BY <2>1 DEF RunsKnown
<1>4. /\ \A s \in Runs \ {1} : run'[s] = "none" /\ run[s] = "none"
      /\ \A s \in Runs \ {1} : Idle(s)
      /\ ~Resumed
  BY <1>1, <1>2, <1>3 DEF Resumed, RunsKnown
<1>5. Cardinality(Busy(1)) <= MaxWorkers /\ \A c \in Chunks : SoloChunk(c)
  BY <1>4 DEF Solo
<1>6. ASSUME UNCHANGED <<cursor, failed, worker, seen, chunk, retries, reports>>,
             stopped => stopped'
      PROVE  Goal
  <2>1. \A c \in Chunks : SameChunk(c) BY <1>6 DEF SameChunk
  <2>2. Busy(1)' = Busy(1) BY <1>6 DEF Busy
  <2>3. QED BY <1>5, <1>6, <2>1, <2>2, SameSolo
<1>7. ASSUME NEW r \in Runs, NEW k \in Chunks, Worker(r, k) PROVE Goal
  <2>1. r = 1
    BY <1>4, <1>7 DEF Idle, Worker, At, GiveUp, Quit, ReadOk, ReadError,
       CountReadError, SendOk, SendError, CountSendError, CountDone,
       StoreProgress, Report
  <2>2. /\ SoloChunk(k)' /\ worker[1][k] # "none"
        /\ \A c \in Chunks \ {k} : SameChunk(c)
        /\ UNCHANGED <<cursor, stopped>> /\ (failed[1] => failed'[1])
    BY <1>0, <1>5, <1>7, <2>1, WorkerSolo
  <2>3. \A c \in Chunks : SoloChunk(c)' BY <1>5, <2>2, SameSolo
  <2>4. Busy(1)' \subseteq Busy(1) BY <2>2 DEF Busy, SameChunk
  <2>5. Busy(1) \subseteq Chunks BY DEF Busy
  <2>6. /\ Cardinality(Busy(1)) \in Nat /\ Cardinality(Busy(1)') \in Nat
        /\ Cardinality(Busy(1)') <= Cardinality(Busy(1))
    BY <2>4, <2>5, ChunkSets
  <2>7. QED BY <1>5, <2>3, <2>6, SizesAssumption
<1>8. ASSUME NEW r \in Runs, Spawn(r) PROVE Goal
  <2>1. r = 1 BY <1>4, <1>8 DEF Spawn
  <2> DEFINE k == cursor[1]
  <2>2. k \in Chunks BY <1>8, <2>1 DEF Spawn, AcquiresChunk
  <2>3. Moved(1, k, "check") BY <1>0, <1>8, <2>1, <2>2, ToMoves DEF Spawn, Work
  <2>4. cursor'[1] = k + 1 BY <1>0, <1>8, <2>1 DEF Spawn, Advance, Shapes
  <2>5. UNCHANGED <<stopped, failed, seen, chunk, retries, reports>>
    BY <1>8 DEF Spawn
  <2>6. ASSUME NEW c \in Chunks PROVE SoloChunk(c)'
    <3>1. k \in Nat /\ c \in Nat BY <2>2 DEF Chunks
    <3>2. worker'[1][c] = IF c = k THEN "check" ELSE worker[1][c]
      BY <1>0, <2>3 DEF Moved
    <3>3. Unreached(c)'
      BY <1>5, <2>4, <2>5, <3>1, <3>2 DEF SoloChunk, Unreached
    <3>4. Reached(c)'
      BY <1>5, <2>4, <2>5, <3>1, <3>2 DEF SoloChunk, Reached
    <3>5. ReportedOnce(c)'
      BY <1>5, <2>5, <3>1, <3>2 DEF SoloChunk, Unreached, ReportedOnce
    <3>6. Tried(c)' BY <1>5, <2>5, <3>2 DEF SoloChunk, Tried
    <3>7. QED BY <3>3, <3>4, <3>5, <3>6 DEF SoloChunk
  <2>7. Busy(1)' = Busy(1) \cup {k} BY <1>0, <2>2, <2>3 DEF Moved, Busy
  <2>8. IsFiniteSet(Busy(1)) /\ Cardinality(Busy(1)) \in Nat
    <3>1. Busy(1) \subseteq Chunks BY DEF Busy
    <3>2. QED BY <3>1, ChunkSets
  <2>9. Cardinality(Busy(1)) < MaxWorkers BY <1>8, <2>1 DEF Spawn, Slot
  <2>10. Cardinality(Busy(1) \cup {k}) <= Cardinality(Busy(1)) + 1
    BY <2>8, FS_AddElement
  <2>11. Cardinality(Busy(1) \cup {k}) \in Nat
    BY <2>8, FS_AddElement, FS_CardinalityType
  <2>12. Cardinality(Busy(1)') <= MaxWorkers
    <3> HIDE DEF k
    <3>1. Cardinality(Busy(1) \cup {k}) <= MaxWorkers
      BY <2>8, <2>9, <2>10, <2>11, SizesAssumption
    <3>2. QED BY <2>7, <3>1
  <2>13. QED BY <2>6, <2>12
<1>9. ASSUME NEW r \in Runs, SkipDone(r) PROVE FALSE
  <2>1. r = 1 /\ cursor[1] \in Chunks /\ chunk[cursor[1]] = "done"
    BY <1>4, <1>9 DEF SkipDone, AtChunk
  <2>2. cursor[1] >= cursor[1] BY <2>1 DEF Chunks
  <2>3. QED BY <1>5, <2>1, <2>2 DEF SoloChunk, Unreached
<1>10. ASSUME NEW r \in Runs, ResumeTransfer(r) PROVE FALSE
  <2>1. r \in Runs \ {1} /\ run'[r] = "loop"
    BY <1>0, <1>10, SizesAssumption DEF ResumeTransfer, Goto, Shapes, Runs
  <2>2. QED BY <1>4, <2>1
<1>11. ASSUME NEW r \in Runs, Abandon(r) \/ Claim(r) \/ Finish(r) PROVE Goal
  BY <1>6, <1>11 DEF Abandon, Claim, Finish
<1>12. ASSUME PauseTransfer \/ CancelTransfer \/ Stop PROVE Goal
  BY <1>6, <1>12 DEF PauseTransfer, CancelTransfer, Stop
<1>13. ASSUME UNCHANGED vars PROVE Goal
  BY <1>6, <1>13 DEF vars
<1>14. QED BY <1>7, <1>8, <1>9, <1>10, <1>11, <1>12, <1>13
  DEF Next, Sending, Control, Dispatch

(* Both are invariants, on top of SInv. *)
LEMMA SoloInvariant == Spec => [](RunsKnown /\ Solo)
<1>1. SInv /\ ReportsShape /\ RunsKnown /\ Solo /\ [Next]_vars => RunsKnown' /\ Solo'
  BY StepRuns, StepSolo DEF SInv, Account
<1>2. QED BY InitSolo, SInvHolds, ProgressInvariant, <1>1, PTL DEF Spec

(* EventTransferDone comes after the last goroutine of its run, and a run     *)
(* that completed alone has reported every chunk.                             *)
THEOREM ReportsAll == Spec => []ReportsComplete
<1>1. Shapes /\ ReportsShape /\ RunsKnown /\ Solo => ReportsComplete
  <2> SUFFICES ASSUME Shapes, ReportsShape, RunsKnown, Solo,
                      NEW r \in Runs, run[r] = "finished"
               PROVE  /\ Idle(r)
                      /\ ~(failed[r] \/ stopped \/ Resumed) =>
                           \A c \in Chunks : reports[c] > 0
    BY DEF ReportsComplete
  <2>1. Idle(r) /\ cursor[r] = TotalChunks + 1 BY DEF RunsKnown
  <2>2. ASSUME ~failed[r], ~stopped, ~Resumed, NEW c \in Chunks
        PROVE  reports[c] > 0
    <3>1. r = 1 BY <2>2 DEF Resumed, RunsKnown
    <3>2. SoloChunk(c) BY <2>2 DEF Solo
    <3>3. c < cursor[1] BY <2>1, <3>1, SizesAssumption DEF Chunks
    <3>4. reports[c] = 1
      BY <2>1, <2>2, <3>1, <3>2, <3>3 DEF SoloChunk, Reached, Idle
    <3>5. QED BY <3>4
  <2>3. QED BY <2>1, <2>2
<1>2. QED BY SInvHolds, ProgressInvariant, SoloInvariant, <1>1, PTL DEF SInv

(* A transfer that was not resumed has MaxWorkers goroutines at most, reports *)
(* a chunk once and tries it MaxRetries times at most.                        *)
THEOREM SingleRunBounded == Spec => []SingleRunBounds
<1>1. RunsKnown /\ Solo => SingleRunBounds
  <2> SUFFICES ASSUME RunsKnown, Solo, ~Resumed PROVE SingleRunBounds
    BY DEF SingleRunBounds
  <2>0. 1 \in Runs BY SizesAssumption DEF Runs
  <2>1. Cardinality(Busy(1)) <= MaxWorkers /\ \A c \in Chunks : SoloChunk(c)
    BY DEF Solo
  <2>2. \A s \in Runs \ {1} : Idle(s) BY DEF RunsKnown, Resumed
  <2> DEFINE P == {p \in Runs \X Chunks : worker[p[1]][p[2]] # "none"}
             f == [c \in Busy(1) |-> <<1, c>>]
  <2>3. P = {<<1, c>> : c \in Busy(1)} BY <2>0, <2>2 DEF Idle, Busy
  <2>4. f \in Surjection(Busy(1), P) BY <2>3 DEF Surjection
  <2>5. Busy(1) \subseteq Chunks BY DEF Busy
  <2>6. IsFiniteSet(Busy(1)) /\ Cardinality(Busy(1)) \in Nat BY <2>5, ChunkSets
  <2>7. IsFiniteSet(P) /\ Cardinality(P) <= Cardinality(Busy(1))
    BY <2>4, <2>6, FS_Surjection
  <2>8. Cardinality(P) \in Nat BY <2>7, FS_CardinalityType
  <2>9. AtMostMaxWorkers
    BY <2>1, <2>6, <2>7, <2>8, SizesAssumption DEF AtMostMaxWorkers
  <2>10. \A c \in Chunks : reports[c] <= 1 /\ retries[c] <= MaxRetries
    BY <2>1 DEF SoloChunk, ReportedOnce, Tried
  <2>11. QED BY <2>9, <2>10 DEF SingleRunBounds
<1>2. QED BY SoloInvariant, <1>1, PTL

--------------------------------------------------------------------------------
(* Runs that overlap.                                                         *)

EachRunBounded == \A r \in Runs : Cardinality(Busy(r)) <= MaxWorkers

ReportedDelivered == \A c \in Chunks : reports[c] > 0 => c \in delivered

(* A goroutine that moves was one of its run's already. *)
LEMMA WorkerMoves ==
  ASSUME Shapes, NEW r \in Runs, NEW k \in Chunks, Worker(r, k)
  PROVE  /\ worker[r][k] # "none" /\ UNCHANGED <<run, cursor>>
         /\ \E l \in Work \cup {"none"} : Moved(r, k, l)
<1>1. worker[r][k] # "none"
  BY DEF Worker, At, GiveUp, Quit, ReadOk, ReadError, CountReadError,
     SendOk, SendError, CountSendError, CountDone, StoreProgress, Report
<1>2. \E l \in Work \cup {"none"} : Moved(r, k, l)
  BY ToMoves DEF Work, Worker, GiveUp, Quit, ReadOk, ReadError, CountReadError,
     SendOk, SendError, Fails, CountSendError, CountDone, StoreProgress, Report
<1>3. UNCHANGED <<run, cursor>>
  BY DEF Worker, GiveUp, Quit, ReadOk, ReadError, CountReadError, SendOk,
     SendError, Fails, CountSendError, CountDone, StoreProgress, Report, runVars
<1>4. QED BY <1>1, <1>2, <1>3

(* One more element makes a finite set larger by one, or leaves it as it is. *)
LEMMA AddOne ==
  ASSUME NEW S, IsFiniteSet(S), NEW x
  PROVE  /\ Cardinality(S \cup {x}) <= Cardinality(S) + 1
         /\ Cardinality(S \cup {x}) \in Nat
<1>1. Cardinality(S) \in Nat
  BY FS_CardinalityType
<1>2. Cardinality(S \cup {x}) = IF x \in S THEN Cardinality(S) ELSE Cardinality(S) + 1
  BY FS_AddElement
<1>3. CASE x \in S
  BY <1>1, <1>2, <1>3
<1>4. CASE x \notin S
  BY <1>1, <1>2, <1>4
<1> QED
  BY <1>3, <1>4

(* A slot is taken before a goroutine starts, and no other run takes it. *)
LEMMA StepBusy ==
  ASSUME Shapes, AcquiresChunk, EachRunBounded, [Next]_vars
  PROVE  EachRunBounded'
<1>1. ASSUME \A r \in Runs : Busy(r)' \subseteq Busy(r) PROVE EachRunBounded'
  <2> SUFFICES ASSUME NEW r \in Runs PROVE (Cardinality(Busy(r)) <= MaxWorkers)'
    BY DEF EachRunBounded
  <2>1. Busy(r)' \subseteq Busy(r) /\ Busy(r) \subseteq Chunks BY <1>1 DEF Busy
  <2>2. /\ Cardinality(Busy(r)) \in Nat /\ Cardinality(Busy(r)') \in Nat
        /\ Cardinality(Busy(r)') <= Cardinality(Busy(r))
    BY <2>1, ChunkSets
  <2>3. Cardinality(Busy(r)) <= MaxWorkers BY DEF EachRunBounded
  <2>4. QED BY <2>2, <2>3, SizesAssumption
<1>2. ASSUME NEW r \in Runs, NEW k \in Chunks, Worker(r, k) PROVE EachRunBounded'
  <2>1. worker[r][k] # "none" /\ \E l \in Work \cup {"none"} : Moved(r, k, l)
    BY <1>2, WorkerMoves
  <2>2. QED BY <1>1, <2>1 DEF Moved, Busy
<1>3. ASSUME NEW r \in Runs, Spawn(r) PROVE EachRunBounded'
  <2> DEFINE k == cursor[r]
  <2>1. k \in Chunks /\ Cardinality(Busy(r)) < MaxWorkers
    BY <1>3 DEF Spawn, AcquiresChunk, Slot
  <2>2. Moved(r, k, "check") BY <1>3, <2>1, ToMoves DEF Spawn, Work
  <2>3. \A s \in Runs : Busy(s)' = IF s = r THEN Busy(r) \cup {k} ELSE Busy(s)
    BY <2>1, <2>2 DEF Moved, Busy
  <2>4. IsFiniteSet(Busy(r)) /\ Cardinality(Busy(r)) \in Nat
    <3>1. Busy(r) \subseteq Chunks BY DEF Busy
    <3>2. QED BY <3>1, ChunkSets
  <2> HIDE DEF k
  <2>5. /\ Cardinality(Busy(r) \cup {k}) <= Cardinality(Busy(r)) + 1
        /\ Cardinality(Busy(r) \cup {k}) \in Nat
    BY <2>4, AddOne
  <2>6. Cardinality(Busy(r) \cup {k}) <= MaxWorkers
    BY <2>1, <2>4, <2>5, SizesAssumption
  <2>7. QED BY <2>3, <2>6 DEF EachRunBounded
<1>4. ASSUME UNCHANGED worker PROVE EachRunBounded'
  BY <1>1, <1>4 DEF Busy
<1>5. QED BY <1>2, <1>3, <1>4
  DEF Next, Sending, Control, Dispatch, Abandon, SkipDone, Claim, Finish,
      PauseTransfer, CancelTransfer, Stop, ResumeTransfer, vars, workerVars

(* Only Report counts, for a chunk that was sent. *)
LEMMA StepReported ==
  ASSUME Shapes, SentDelivered, ReportsShape, ReportedDelivered, [Next]_vars
  PROVE  ReportedDelivered'
<1>1. delivered \subseteq delivered' BY DeliveredGrows
<1>2. ASSUME UNCHANGED reports PROVE ReportedDelivered'
  BY <1>1, <1>2 DEF ReportedDelivered
<1>3. ASSUME NEW r \in Runs, NEW k \in Chunks, Report(r, k) PROVE ReportedDelivered'
  <2>1. k \in delivered BY <1>3 DEF Report, At, SentDelivered
  <2>2. \A c \in Chunks \ {k} : reports'[c] = reports[c]
    BY <1>3 DEF Report, ReportsShape
  <2>3. QED BY <1>1, <2>1, <2>2 DEF ReportedDelivered
<1>4. QED BY <1>2, <1>3
  DEF Next, Sending, Control, Dispatch, Abandon, SkipDone, Claim, Spawn, Finish,
      Worker, GiveUp, Quit, ReadOk, ReadError, CountReadError, SendOk, SendError,
      Fails, CountSendError, CountDone, StoreProgress, PauseTransfer,
      CancelTransfer, Stop, ResumeTransfer, vars, historyVars

(* Initially no goroutine has started. *)
LEMMA InitOverlap == Init => EachRunBounded /\ ReportedDelivered
<1> SUFFICES ASSUME Init PROVE EachRunBounded /\ ReportedDelivered OBVIOUS
<1>1. \A r \in Runs : Busy(r) = {} BY DEF Init, Busy
<1>2. EachRunBounded BY <1>1, FS_EmptySet, SizesAssumption DEF EachRunBounded
<1>3. ReportedDelivered BY DEF Init, ReportedDelivered
<1>4. QED BY <1>2, <1>3

(* However often a transfer is resumed while it is being sent, each of its    *)
(* runs has MaxWorkers goroutines at most (docs/architecture.md:81): the      *)
(* excess of SingleRunBounds is that of the number of runs.                   *)
THEOREM RunsBounded == Spec => []EachRunBounded
<1>1. SInv /\ EachRunBounded /\ [Next]_vars => EachRunBounded'
  BY StepBusy DEF SInv, Account
<1>2. QED BY InitOverlap, SInvHolds, <1>1, PTL DEF Spec

(* EventChunkDone is never emitted for a chunk that was not accepted, also    *)
(* when another run resets the chunk, or the service stops, in between.       *)
THEOREM ReportedIsDelivered == Spec => []ReportedDelivered
<1>1. SInv /\ ReportsShape /\ ReportedDelivered /\ [Next]_vars => ReportedDelivered'
  BY StepReported DEF SInv, Account
<1>2. QED BY InitOverlap, SInvHolds, ProgressInvariant, <1>1, PTL DEF Spec

(* The guards of Dispatch.  (A goroutine at work always has a step.)          *)
CanDispatch(r) ==
  \/ AtChunk(r)
  \/ run[r] = "acquire" /\ Slot(r)
  \/ run[r] = "loop" /\ cursor[r] = TotalChunks + 1 /\ Waited(r)

NoRunStuck ==
  \A r \in Runs : run[r] \in {"loop", "acquire"} =>
    CanDispatch(r) \/ \E c \in Chunks : worker[r][c] # "none"

(* A run that has not ended waits only for goroutines of its own that are at  *)
(* work: no slot is ever lost, and no run waits for another.                  *)
THEOREM SlotsReturn == Spec => []NoRunStuck
<1>1. TypeOK => NoRunStuck
  <2> SUFFICES ASSUME TypeOK, NEW r \in Runs, run[r] \in {"loop", "acquire"}, Idle(r)
               PROVE  CanDispatch(r)
    BY DEF NoRunStuck, Idle
  <2>1. cursor[r] \in Chunks \/ cursor[r] = TotalChunks + 1
    BY SizesAssumption DEF TypeOK, Chunks
  <2>2. Slot(r)
    <3>1. Busy(r) = {} BY DEF Idle, Busy
    <3>2. QED BY <3>1, FS_EmptySet, SizesAssumption DEF Slot
  <2>3. QED BY <2>1, <2>2 DEF CanDispatch, AtChunk, Waited
<1>2. QED BY TypeCorrect, <1>1, PTL

(* Every chunk is done, no goroutine is at work and none is about to start.   *)
Settled ==
  /\ \A c \in Chunks : chunk[c] = "done"
  /\ \A r \in Runs : run[r] # "acquire" /\ Idle(r)

StaysSettled == Settled => Settled' /\ UNCHANGED <<delivered, attempts, reports>>

(* A transfer that was sent is not sent again, however often it is resumed:   *)
(* a later run skips every chunk, and reports none.                           *)
THEOREM NothingSentAgain == Spec => [][StaysSettled]_vars
<1>1. TypeOK /\ [Next]_vars => [StaysSettled]_vars
  <2> SUFFICES ASSUME TypeOK, Next, Settled
               PROVE  Settled' /\ UNCHANGED <<delivered, attempts, reports>>
    BY DEF StaysSettled
  <2> USE DEF historyVars, transferVars, workerVars, runVars
  <2>1. ASSUME NEW r \in Runs, NEW k \in Chunks, Worker(r, k) PROVE FALSE
    BY <2>1 DEF Settled, Idle, Worker, At, GiveUp, Quit, ReadOk, ReadError,
       CountReadError, SendOk, SendError, CountSendError, CountDone,
       StoreProgress, Report
  <2>2. ASSUME NEW r \in Runs, Claim(r) \/ Spawn(r) PROVE FALSE
    BY <2>2 DEF Settled, Claim, Spawn, AtChunk
  <2>3. ASSUME NEW r \in Runs,
               Abandon(r) \/ SkipDone(r) \/ Finish(r) \/ ResumeTransfer(r)
        PROVE  Settled' /\ UNCHANGED <<delivered, attempts, reports>>
    BY <2>3 DEF Settled, Abandon, SkipDone, Finish, ResumeTransfer, Goto, Idle, TypeOK
  <2>4. ASSUME PauseTransfer \/ CancelTransfer \/ Stop
        PROVE  Settled' /\ UNCHANGED <<delivered, attempts, reports>>
    BY <2>4 DEF Settled, PauseTransfer, CancelTransfer, Stop, Idle
  <2>5. QED BY <2>1, <2>2, <2>3, <2>4 DEF Next, Sending, Control, Dispatch
<1>2. QED BY TypeCorrect, <1>1, PTL DEF Spec

--------------------------------------------------------------------------------
(* How far a run that is alone is from its end.                               *)

(* The steps of a goroutine that has n attempts left. *)
StageLeft(l, n) ==
  CASE l = "none"      -> 0
    [] l = "reporting" -> 1
    [] l = "counted"   -> 2
    [] l = "sent"      -> 3
    [] l = "check"     -> 3 * n + 4
    [] l = "sending"   -> 3 * n + 3
    [] OTHER           -> 3 * n + 2

WorkLeft(c) == StageLeft(worker[1][c], MaxRetries - retries[c])

RunLeft ==
  LET k == TotalChunks + 1 - cursor[1]
  IN  IF run[1] = "loop" THEN 2 * k + 1 ELSE IF run[1] = "acquire" THEN 2 * k ELSE 0

(* Nobody else counts the attempts. *)
SeenFresh(c) ==
  worker[1][c] \in {"readFailed", "sendFailed"} => seen[1][c] = retries[c]

AloneSeen == ~Resumed => \A c \in Chunks : SeenFresh(c)

(* What is left is a number. *)
LEMMA WorkLeftIsNat ==
  ASSUME Shapes, 1 \in Runs, NEW c \in Chunks, SoloChunk(c)
  PROVE  WorkLeft(c) \in Nat
<1>1. MaxRetries - retries[c] \in Nat
  BY SizesAssumption DEF Shapes, SoloChunk, Tried
<1>2. \A n \in Nat : \A l \in Work \cup {"none"} : StageLeft(l, n) \in Nat
  BY DEF StageLeft, Work
<1>3. QED BY <1>1, <1>2 DEF WorkLeft, Shapes

(* Every step of a goroutine takes it nearer to its end. *)
LEMMA WorkerCounts ==
  ASSUME Shapes, Shapes', 1 \in Runs, NEW k \in Chunks, SoloChunk(k), SoloChunk(k)',
         SeenFresh(k), Worker(1, k)
  PROVE  WorkLeft(k)' < WorkLeft(k) /\ SeenFresh(k)'
<1> DEFINE n == MaxRetries - retries[k]
           Goal == WorkLeft(k)' < WorkLeft(k) /\ SeenFresh(k)'
<1>0. n \in Nat /\ n' \in Nat /\ retries[k] \in Nat
  BY SizesAssumption DEF Shapes, SoloChunk, Tried
<1>1. ASSUME NEW l, Moved(1, k, l), l \notin {"readFailed", "sendFailed"},
             StageLeft(l, n') < StageLeft(worker[1][k], n)
      PROVE  Goal
  BY <1>1 DEF Moved, WorkLeft, SeenFresh
<1>2. ASSUME GiveUp(1, k) \/ Quit(1, k) PROVE Goal
  <2>1. Moved(1, k, "none") /\ worker[1][k] = "check"
    BY <1>2, ToMoves DEF GiveUp, Quit, At, Work
  <2>2. StageLeft("none", n') < StageLeft("check", n)
    BY <1>0 DEF StageLeft
  <2>3. QED BY <1>1, <2>1, <2>2
<1>3. ASSUME ReadOk(1, k) PROVE Goal
  <2>1. Moved(1, k, "sending") /\ worker[1][k] = "check" /\ n' = n
    BY <1>3, ToMoves DEF ReadOk, At, Work
  <2>2. StageLeft("sending", n) < StageLeft("check", n)
    BY <1>0 DEF StageLeft
  <2>3. QED BY <1>1, <2>1, <2>2
<1>4. ASSUME ReadError(1, k) \/ SendError(1, k) PROVE Goal
  <2>1. PICK l \in {"readFailed", "sendFailed"} : Moved(1, k, l)
    BY <1>4, ToMoves DEF ReadError, SendError, Fails, Work
  <2>2. /\ worker[1][k] \in {"check", "sending"} /\ retries' = retries
        /\ seen'[1][k] = retries[k]
    BY <1>0, <1>4, SeenMoves DEF ReadError, SendError, Fails, At, transferVars
  <2>3. StageLeft(l, n) < StageLeft(worker[1][k], n)
    BY <1>0, <2>1, <2>2 DEF StageLeft
  <2>4. QED BY <2>1, <2>2, <2>3 DEF Moved, WorkLeft, SeenFresh
<1>5. ASSUME CountReadError(1, k) \/ CountSendError(1, k) PROVE Goal
  <2>1. Moved(1, k, "check") /\ worker[1][k] \in {"readFailed", "sendFailed"}
    BY <1>5, ToMoves DEF CountReadError, CountSendError, At, Work
  <2>2. retries'[k] = retries[k] + 1
    BY <1>5, <2>1 DEF CountReadError, CountSendError, SeenFresh, Shapes
  <2>3. n' = n - 1
    BY <1>0, <2>2, SizesAssumption
  <2>4. StageLeft("check", n') < StageLeft(worker[1][k], n)
    BY <1>0, <2>1, <2>3 DEF StageLeft
  <2>5. QED BY <1>1, <2>1, <2>4
<1>6. ASSUME SendOk(1, k) PROVE Goal
  <2>1. Moved(1, k, "sent") /\ worker[1][k] = "sending"
    BY <1>6, ToMoves DEF SendOk, At, Work
  <2>2. retries[k] < MaxRetries BY <2>1 DEF SoloChunk, Tried
  <2>3. n >= 1 BY <1>0, <2>2, SizesAssumption
  <2>4. StageLeft("sent", n') < StageLeft("sending", n)
    BY <1>0, <2>3 DEF StageLeft
  <2>5. QED BY <1>1, <2>1, <2>4
<1>7. ASSUME CountDone(1, k) PROVE Goal
  <2>1. Moved(1, k, "counted") /\ worker[1][k] = "sent"
    BY <1>7, ToMoves DEF CountDone, At, Work
  <2>2. StageLeft("counted", n') < StageLeft("sent", n) BY DEF StageLeft
  <2>3. QED BY <1>1, <2>1, <2>2
<1>8. ASSUME StoreProgress(1, k) PROVE Goal
  <2>1. Moved(1, k, "reporting") /\ worker[1][k] = "counted"
    BY <1>8, ToMoves DEF StoreProgress, At, Work
  <2>2. StageLeft("reporting", n') < StageLeft("counted", n) BY DEF StageLeft
  <2>3. QED BY <1>1, <2>1, <2>2
<1>9. ASSUME Report(1, k) PROVE Goal
  <2>1. Moved(1, k, "none") /\ worker[1][k] = "reporting"
    BY <1>9, ToMoves DEF Report, At, Work
  <2>2. StageLeft("none", n') < StageLeft("reporting", n) BY DEF StageLeft
  <2>3. QED BY <1>1, <2>1, <2>2
<1> HIDE DEF Goal
<1>10. Goal
  BY <1>2, <1>3, <1>4, <1>5, <1>6, <1>7, <1>8, <1>9 DEF Worker
<1>11. QED BY <1>10 DEF Goal

(* The step leaves the run where it is, or takes its loop on, or takes one    *)
(* goroutine on.                                                              *)
OnceAhead ==
  \/ run'[1] = run[1] /\ cursor'[1] = cursor[1] /\ worker'[1] = worker[1]
  \/ RunLeft' < RunLeft
  \/ /\ RunLeft' = RunLeft
     /\ \E c \in Chunks :
          /\ WorkLeft(c)' < WorkLeft(c)
          /\ \A d \in Chunks \ {c} : WorkLeft(d)' = WorkLeft(d)

WindsDown == ~Resumed' => OnceAhead

LeftIsNat == ~Resumed => RunLeft \in Nat /\ \A c \in Chunks : WorkLeft(c) \in Nat

(* The loop of the first run goes on, or nothing of the run changes. *)
LEMMA DispatchCounts ==
  ASSUME Shapes, AcquiresChunk, 1 \in Runs, Dispatch(1)
  PROVE  RunLeft' < RunLeft
<1>0. cursor[1] \in 1..TotalChunks + 1 /\ TotalChunks \in Nat
  BY SizesAssumption DEF Shapes
<1>1. CASE Abandon(1)
  <2>1. run[1] = "loop" /\ run'[1] = "abandoned"
    BY <1>1 DEF Abandon, AtChunk, Goto, Shapes
  <2>2. QED BY <1>0, <2>1 DEF RunLeft
<1>2. CASE SkipDone(1)
  <2>1. run[1] = "loop" /\ run'[1] = "loop" /\ cursor'[1] = cursor[1] + 1
    BY <1>2 DEF SkipDone, AtChunk, Advance, Shapes
  <2>2. QED BY <1>0, <2>1 DEF RunLeft
<1>3. CASE Claim(1)
  <2>1. run[1] = "loop" /\ run'[1] = "acquire" /\ cursor'[1] = cursor[1]
    BY <1>3 DEF Claim, AtChunk, Goto, Shapes
  <2>2. QED BY <1>0, <2>1 DEF RunLeft
<1>4. CASE Spawn(1)
  <2>1. run[1] = "acquire" /\ run'[1] = "loop" /\ cursor'[1] = cursor[1] + 1
    BY <1>4 DEF Spawn, Goto, Advance, Shapes
  <2>2. QED BY <1>0, <2>1 DEF RunLeft
<1>5. CASE Finish(1)
  <2>1. run[1] = "loop" /\ run'[1] = "finished"
    BY <1>5 DEF Finish, Goto, Shapes
  <2>2. QED BY <1>0, <2>1 DEF RunLeft
<1>6. QED BY <1>1, <1>2, <1>3, <1>4, <1>5 DEF Dispatch

(* A run that is alone: its steps count down, and nobody else takes part. *)
LEMMA StepAlone ==
  ASSUME Shapes, Shapes', AcquiresChunk, ReportsShape, RunsKnown, RunsKnown',
         Solo, Solo', AloneSeen, [Next]_vars, ~Resumed'
  PROVE  OnceAhead /\ \A c \in Chunks : SeenFresh(c)'
<1>0. 1 \in Runs /\ \A r \in Runs : r = 1 \/ r > 1 BY SizesAssumption DEF Runs
<1> DEFINE Goal == OnceAhead /\ \A c \in Chunks : SeenFresh(c)'
<1> USE DEF transferVars, runVars, workerVars, historyVars
<1>1. \A s \in Runs \ {1} : run'[s] = "none"
  BY DEF Resumed, RunsKnown
<1>2. \A s \in Runs \ {1} : run'[s] = "none" => run[s] = "none"
  BY DEF Next, Sending, Control, Dispatch, Worker, Abandon, SkipDone, Claim, Spawn,
     Finish, GiveUp, Quit, ReadOk, ReadError, CountReadError, SendOk, SendError,
     Fails, CountSendError, CountDone, StoreProgress, Report, PauseTransfer,
     CancelTransfer, Stop, ResumeTransfer, vars, Goto, Shapes
<1>3. /\ \A s \in Runs \ {1} : run[s] = "none" /\ Idle(s)
      /\ ~Resumed
  BY <1>1, <1>2 DEF Resumed, RunsKnown
<1>4. \A c \in Chunks : SoloChunk(c) /\ SoloChunk(c)' /\ SeenFresh(c)
  BY <1>3 DEF Solo, AloneSeen
<1>5. ASSUME NEW r \in Runs, NEW k \in Chunks, Worker(r, k) PROVE Goal
  <2>1. worker[r][k] # "none" /\ UNCHANGED <<run, cursor>>
    BY <1>5, WorkerMoves
  <2>2. r = 1 BY <1>3, <2>1 DEF Idle
  <2>3. \A c \in Chunks \ {k} : SameChunk(c)
    BY <1>0, <1>4, <1>5, <2>2, WorkerSolo
  <2>4. WorkLeft(k)' < WorkLeft(k) /\ SeenFresh(k)'
    BY <1>0, <1>4, <1>5, <2>2, WorkerCounts
  <2>5. \A c \in Chunks \ {k} : WorkLeft(c)' = WorkLeft(c) /\ SeenFresh(c)'
    BY <1>4, <2>3 DEF SameChunk, WorkLeft, SeenFresh
  <2>6. RunLeft' = RunLeft BY <2>1 DEF RunLeft
  <2>7. QED BY <2>4, <2>5, <2>6 DEF OnceAhead
<1>6. ASSUME NEW r \in Runs, Dispatch(r) PROVE Goal
  <2>1. r = 1
    BY <1>3, <1>6 DEF Dispatch, Abandon, SkipDone, Claim, Spawn, Finish, AtChunk
  <2>2. RunLeft' < RunLeft BY <1>0, <1>6, <2>1, DispatchCounts
  <2>3. CASE Spawn(1)
    <3>1. cursor[1] \in Chunks BY <1>0, <2>3 DEF Spawn, AcquiresChunk
    <3>2. Moved(1, cursor[1], "check") /\ UNCHANGED <<seen, retries>>
      BY <1>0, <2>3, <3>1, ToMoves DEF Spawn, Work
    <3>3. \A c \in Chunks : SeenFresh(c)'
      BY <1>0, <1>4, <3>2 DEF Moved, SeenFresh
    <3>4. QED BY <2>2, <3>3 DEF OnceAhead
  <2>4. CASE ~Spawn(1)
    <3>1. UNCHANGED <<worker, seen, retries>>
      BY <1>6, <2>1, <2>4 DEF Dispatch, Abandon, SkipDone, Claim, Finish
    <3>2. \A c \in Chunks : SeenFresh(c)' BY <1>4, <3>1 DEF SeenFresh
    <3>3. QED BY <2>2, <3>2 DEF OnceAhead
  <2>5. QED BY <2>3, <2>4
<1>7. ASSUME UNCHANGED <<run, cursor, worker, seen, retries>> PROVE Goal
  BY <1>4, <1>7 DEF OnceAhead, SeenFresh
<1>8. ASSUME NEW r \in Runs, ResumeTransfer(r) PROVE FALSE
  <2>1. r \in Runs \ {1} /\ run'[r] = "loop"
    BY <1>0, <1>8, SizesAssumption DEF ResumeTransfer, Goto, Shapes, Runs
  <2>2. QED BY <1>1, <2>1
<1>9. ASSUME PauseTransfer \/ CancelTransfer \/ Stop \/ UNCHANGED vars PROVE Goal
  BY <1>7, <1>9 DEF PauseTransfer, CancelTransfer, Stop, vars
<1> HIDE DEF Goal
<1>10. Goal
  BY <1>5, <1>6, <1>8, <1>9 DEF Next, Sending, Control
<1>11. QED BY <1>10 DEF Goal

(* AloneSeen is an invariant, on top of Solo. *)
LEMMA AloneInvariant == Spec => []AloneSeen
<1>1. Init => AloneSeen
  <2>1. 1 \in Runs BY SizesAssumption DEF Runs
  <2>2. QED BY <2>1 DEF Init, AloneSeen, SeenFresh
<1>2. /\ SInv /\ SInv' /\ ReportsShape /\ RunsKnown /\ RunsKnown' /\ Solo /\ Solo'
      /\ AloneSeen /\ [Next]_vars
      => AloneSeen'
  BY StepAlone DEF SInv, Account, AloneSeen
<1>3. QED BY <1>1, <1>2, SInvHolds, ProgressInvariant, SoloInvariant, PTL DEF Spec

(* A transfer that is not resumed comes to its end after a number of steps    *)
(* that is bounded from the start: whatever fails, every step of its run      *)
(* takes the loop on, or one goroutine, and these steps cannot be repeated.   *)
(* With SlotsReturn, that one of them can be taken, this is why it ends.      *)
THEOREM LoneRunWindsDown == Spec => []LeftIsNat /\ [][WindsDown]_vars
<1>1. SInv /\ Solo => LeftIsNat
  <2> SUFFICES ASSUME SInv, Solo, ~Resumed
               PROVE  RunLeft \in Nat /\ \A c \in Chunks : WorkLeft(c) \in Nat
    BY DEF LeftIsNat
  <2>1. 1 \in Runs BY SizesAssumption DEF Runs
  <2>2. cursor[1] \in 1..TotalChunks + 1 BY <2>1 DEF SInv, Shapes
  <2>3. RunLeft \in Nat BY <2>2, SizesAssumption DEF RunLeft
  <2>4. \A c \in Chunks : WorkLeft(c) \in Nat
    BY <2>1, WorkLeftIsNat DEF SInv, Solo
  <2>5. QED BY <2>3, <2>4
<1>2. /\ SInv /\ SInv' /\ ReportsShape /\ RunsKnown /\ RunsKnown' /\ Solo /\ Solo'
      /\ AloneSeen /\ [Next]_vars
      => [WindsDown]_vars
  BY StepAlone DEF SInv, Account, WindsDown
<1>3. QED BY <1>1, <1>2, SInvHolds, ProgressInvariant, SoloInvariant, AloneInvariant,
             PTL DEF Spec

================================================================================
