------------------------------ MODULE Executor ------------------------------
(***************************************************************************)
(* One call of `execute` (src/executor.rs): the spawned command, the two   *)
(* pipes it writes, the two `read_pipe` tasks that drain them on other     *)
(* worker threads, the `select!` over exit, timeout and cancellation, the  *)
(* kill, the bounded drain and the ExecutionResult.                        *)
(*                                                                         *)
(* A byte is a unit: the k-th byte written on a pipe is the k-th byte read *)
(* from it, so every quantity below is a count of bytes.                   *)
(*                                                                         *)
(* Time is abstracted: the call's timeout and the drain's                  *)
(* POST_EXIT_READ_TIMEOUT may elapse at any moment they are being awaited, *)
(* which includes every schedule real clocks allow.                        *)
(***************************************************************************)
EXTENDS Integers

CONSTANTS
  Pipes,             \* the captured streams, stdout and stderr
  MAX_OUTPUT_BYTES,  \* bytes of a stream the result shows (1 MiB)
  CHUNK_BYTES,       \* size of a reader's chunk buffer (8192)
  PipeCapacity,      \* bytes the OS pipe holds before write() blocks
  Codes,             \* exit codes of a process that exits normally
  None,              \* no exit code: Option::None
  MaxWritten         \* BOUND: bytes written on one pipe in a behaviour

ASSUME ExecutorAssumption ==
  /\ MAX_OUTPUT_BYTES \in Nat
  /\ CHUNK_BYTES \in Nat \ {0}
  /\ PipeCapacity \in Nat \ {0}
  /\ MaxWritten \in Nat
  /\ None \notin Codes

(* One byte more than is shown, so that "exactly MAX" and "more than MAX"  *)
(* can be told apart.                                                      *)
NoSpareByte == MAX_OUTPUT_BYTES  \* mutant
READ_LIMIT_BYTES == MAX_OUTPUT_BYTES + 1

VARIABLES
  pc,         \* where execute() is
  arm,        \* how it got there: the branch of select! that won
  cancelled,  \* the request's CancellationToken has been cancelled
  child,      \* the process cmd.spawn() created
  status,     \* its exit code, None while it runs or when a signal ended it
  grandchild, \* a descendant that inherited the write ends of the pipes
  written,    \* written[p]: bytes written into p so far
  reader,     \* reader[p]: the read_pipe task of p
  consumed,   \* consumed[p]: bytes the reader took out of p (Take's counter)
  chunk,      \* chunk[p]: bytes in the reader's chunk, not yet sent
  buf,        \* buf[p]: bytes in the SharedBuf
  sunk,       \* sunk[p]: bytes sent to the ChunkSink
  aborted,    \* aborted[p]: abort() was called on the reader's JoinHandle
  drain,      \* drain[p]: the drain_one future of p
  taken,      \* taken[p]: what take_buf returned to drain_one
  result      \* the ExecutionResult

process   == <<child, status, grandchild>>
tasks     == <<reader, consumed, chunk, sunk>>
drains    == <<aborted, drain, taken>>
call      == <<pc, arm, result>>
vars      == <<call, cancelled, process, written, tasks, buf, drains>>

Least(a, b) == IF a <= b THEN a ELSE b

(* The write ends of the pipes close when the last process holding them is *)
(* gone; a process that was sent SIGKILL holds them until it is dead.      *)
Writers == child \in {"running", "killed"} \/ grandchild = "alive"

InPipe(p)    == written[p] - consumed[p]
Unlimited(p) == READ_LIMIT_BYTES  \* mutant: no Take adapter
Remaining(p) == READ_LIMIT_BYTES - consumed[p]

Finished(p) == reader[p] \in {"done", "failed"}
Stopped(p)  == Finished(p) \/ reader[p] = "dropped"

(* read_pipe owns the read end: it is closed when the task is over.        *)
ReadEndClosed(p) == reader[p] = "unborn" \/ Stopped(p)

NoResult == [exit_code |-> None, timed_out |-> FALSE, cancelled |-> FALSE,
             shown |-> [p \in Pipes |-> 0], truncated |-> [p \in Pipes |-> FALSE]]

Init ==
  /\ pc = "call" /\ arm = "none" /\ result = NoResult
  /\ cancelled = FALSE
  /\ child = "unborn" /\ status = None /\ grandchild = "none"
  /\ written = [p \in Pipes |-> 0]
  /\ reader = [p \in Pipes |-> "unborn"]
  /\ consumed = [p \in Pipes |-> 0]
  /\ chunk = [p \in Pipes |-> 0]
  /\ buf = [p \in Pipes |-> 0]
  /\ sunk = [p \in Pipes |-> 0]
  /\ aborted = [p \in Pipes |-> FALSE]
  /\ drain = [p \in Pipes |-> "idle"]
  /\ taken = [p \in Pipes |-> 0]

-----------------------------------------------------------------------------
(* The outside world: the command, its descendants and the caller.         *)

(* A write(2) of one byte.  It blocks on a full pipe and fails with EPIPE  *)
(* once the read end is closed.                                            *)
Write(p) ==
  /\ Writers
  /\ ~ReadEndClosed(p)
  /\ InPipe(p) < PipeCapacity
  /\ written[p] < MaxWritten
  /\ written' = [written EXCEPT ![p] = @ + 1]
  /\ UNCHANGED <<call, cancelled, process, tasks, buf, drains>>

(* The command exits with a code, or a signal ends it (SIGPIPE after the   *)
(* read end closed, or any other).                                         *)
ChildExits ==
  /\ child = "running"
  /\ child' = "zombie"
  /\ status' \in Codes \cup {None}
  /\ UNCHANGED <<call, cancelled, grandchild, written, tasks, buf, drains>>

(* A process that was sent SIGKILL dies.                                   *)
ChildDies ==
  /\ child = "killed"
  /\ child' = "zombie"
  /\ UNCHANGED <<call, cancelled, status, grandchild, written, tasks, buf, drains>>

Fork ==
  /\ child = "running"
  /\ grandchild = "none"
  /\ grandchild' = "alive"
  /\ UNCHANGED <<call, cancelled, child, status, written, tasks, buf, drains>>

GrandchildExits ==
  /\ grandchild = "alive"
  /\ grandchild' = "gone"
  /\ UNCHANGED <<call, cancelled, child, status, written, tasks, buf, drains>>

(* notifications/cancelled reaches rmcp, which cancels ctx.ct.             *)
Cancel ==
  /\ ~cancelled
  /\ cancelled' = TRUE
  /\ UNCHANGED <<call, process, written, tasks, buf, drains>>

-----------------------------------------------------------------------------
(* read_pipe: a task on a multi-threaded runtime.  It is "parked" at its   *)
(* only await, the read; one poll of it may go round the loop many times.  *)

Step(p, from, to) ==
  /\ reader[p] = from
  /\ reader' = [reader EXCEPT ![p] = to]

(* The read returns at once instead of being Pending.                      *)
ReadableAfterExit(p) == pc = "drain" /\ (InPipe(p) > 0 \/ ~Writers)  \* mutant
Readable(p) == Remaining(p) = 0 \/ InPipe(p) > 0 \/ ~Writers

Wake(p) ==
  /\ Step(p, "parked", "polling")
  /\ ~aborted[p]
  /\ Readable(p)
  /\ UNCHANGED <<call, cancelled, process, written, consumed, chunk, sunk, buf, drains>>

(* Ok(n): Take hands on no more than its remaining limit.                  *)
Read(p) ==
  /\ Step(p, "polling", "read")
  /\ InPipe(p) > 0
  /\ Remaining(p) > 0
  /\ LET n == Least(Least(CHUNK_BYTES, InPipe(p)), Remaining(p))
     IN  /\ chunk' = [chunk EXCEPT ![p] = n]
         /\ consumed' = [consumed EXCEPT ![p] = @ + n]
  /\ UNCHANGED <<call, cancelled, process, written, sunk, buf, drains>>

(* Ok(0): the limit is reached, or every writer has gone.                  *)
ReadEnds(p) ==
  /\ Step(p, "polling", "done")
  /\ Remaining(p) = 0 \/ (InPipe(p) = 0 /\ ~Writers)
  /\ UNCHANGED <<call, cancelled, process, written, consumed, chunk, sunk, buf, drains>>

(* Err(_) => break                                                         *)
ReadFails(p) ==
  /\ Step(p, "polling", "failed")
  /\ Remaining(p) > 0
  /\ UNCHANGED <<call, cancelled, process, written, consumed, chunk, sunk, buf, drains>>

(* The read is Pending.                                                    *)
Park(p) ==
  /\ Step(p, "polling", "parked")
  /\ ~Readable(p)
  /\ UNCHANGED <<call, cancelled, process, written, consumed, chunk, sunk, buf, drains>>

(* buf.lock().extend_from_slice(..): the lock is not held across an await. *)
Extend(p) ==
  /\ Step(p, "read", "extended")
  /\ buf' = [buf EXCEPT ![p] = @ + chunk[p]]
  /\ UNCHANGED <<call, cancelled, process, written, consumed, chunk, sunk, drains>>

Send(p) ==
  /\ Step(p, "extended", "polling")
  /\ sunk' = [sunk EXCEPT ![p] = @ + chunk[p]]
  /\ chunk' = [chunk EXCEPT ![p] = 0]
  /\ UNCHANGED <<call, cancelled, process, written, consumed, buf, drains>>

(* An aborted task is dropped between two polls, never inside one: a       *)
(* parked reader at once, a running one when its poll returns Pending (no  *)
(* data, or the cooperative budget is used up).                            *)
Drop(p) ==
  /\ aborted[p]
  /\ reader[p] \in {"parked", "polling"}
  /\ reader' = [reader EXCEPT ![p] = "dropped"]
  /\ UNCHANGED <<call, cancelled, process, written, consumed, chunk, sunk, buf, drains>>

ReaderStep(p) ==
  Wake(p) \/ Read(p) \/ ReadEnds(p) \/ ReadFails(p) \/ Park(p) \/ Extend(p) \/ Send(p) \/ Drop(p)

-----------------------------------------------------------------------------
(* execute() itself.                                                       *)

Spawn ==
  /\ pc = "call"
  /\ pc' = "select"
  /\ child' = "running"
  /\ reader' = [p \in Pipes |-> "parked"]
  /\ UNCHANGED <<arm, result, cancelled, status, grandchild, written, consumed, chunk, sunk,
                 buf, drains>>

(* cmd.spawn() failed (no such command, or the privilege drop in pre_exec  *)
(* did): an ordinary result, neither timed out nor cancelled.              *)
SpawnFails ==
  /\ pc = "call"
  /\ pc' = "returned"
  /\ arm' = "spawn_error"
  /\ result' = NoResult
  /\ UNCHANGED <<cancelled, process, written, tasks, buf, drains>>

(* drain_after_kill: both drain_one futures start.                         *)
StartDrain == pc' = "drain" /\ drain' = [p \in Pipes |-> "waiting"]

(* child.wait() resolves by reaping the child.  waitpid can fail, but only *)
(* when the child is already gone (ECHILD).                                *)
WaitArm ==
  /\ pc = "select"
  /\ child = "zombie"
  /\ child' = "reaped"
  /\ arm' \in {"wait", "wait_error"}
  /\ StartDrain
  /\ UNCHANGED <<result, cancelled, status, grandchild, written, tasks, buf, aborted, taken>>

TimeoutArm ==
  /\ pc = "select"
  /\ pc' = "kill"
  /\ arm' = "timeout"
  /\ UNCHANGED <<result, cancelled, process, written, tasks, buf, drains>>

CancelArm ==
  /\ pc = "select"
  /\ cancelled
  /\ pc' = "kill"
  /\ arm' = "cancel"
  /\ UNCHANGED <<result, cancelled, process, written, tasks, buf, drains>>

(* child.kill().await: SIGKILL, which a child that has already exited does *)
(* not notice, ...                                                         *)
Kill ==
  /\ pc = "kill"
  /\ pc' = "reap"
  /\ child' = IF child = "running" THEN "killed" ELSE child
  /\ UNCHANGED <<arm, result, cancelled, status, grandchild, written, tasks, buf, drains>>

(* ... and then wait() for it.                                             *)
ReapWithoutWaiting ==  \* mutant: start_kill() instead of kill().await
  /\ pc = "reap"
  /\ StartDrain
  /\ UNCHANGED <<arm, result, cancelled, process, written, tasks, buf, aborted, taken>>
Reap ==
  /\ pc = "reap"
  /\ child = "zombie"
  /\ child' = "reaped"
  /\ StartDrain
  /\ UNCHANGED <<arm, result, cancelled, status, grandchild, written, tasks, buf, aborted, taken>>

(* drain_one: the reader is joined, ...                                    *)
Joined(p) ==
  /\ drain[p] = "waiting"
  /\ Finished(p)
  /\ drain' = [drain EXCEPT ![p] = "taking"]
  /\ UNCHANGED <<call, cancelled, process, written, tasks, buf, aborted, taken>>

(* ... or POST_EXIT_READ_TIMEOUT elapses first and it is aborted.          *)
WaitForEof(p) == Joined(p)  \* mutant: no POST_EXIT_READ_TIMEOUT
Detach(p) ==  \* mutant: the JoinHandle is dropped, which detaches the task
  /\ drain[p] = "waiting"
  /\ ~Finished(p)
  /\ drain' = [drain EXCEPT ![p] = "taking"]
  /\ UNCHANGED <<call, cancelled, process, written, tasks, buf, aborted, taken>>
Elapsed(p) ==
  /\ drain[p] = "waiting"
  /\ ~Finished(p)
  /\ aborted' = [aborted EXCEPT ![p] = TRUE]
  /\ drain' = [drain EXCEPT ![p] = "taking"]
  /\ UNCHANGED <<call, cancelled, process, written, tasks, buf, taken>>

(* take_buf, then the drain_one future is over.                            *)
TakenIfJoined(p) == IF aborted[p] THEN 0 ELSE buf[p]  \* mutant: the task owns the buffer
TakenBytes(p) == buf[p]
TakeBuf(p) ==
  /\ drain[p] = "taking"
  /\ taken' = [taken EXCEPT ![p] = TakenBytes(p)]
  /\ buf' = [buf EXCEPT ![p] = 0]
  /\ drain' = [drain EXCEPT ![p] = "taken"]
  /\ UNCHANGED <<call, cancelled, process, written, tasks, aborted>>

Drain(p) == Joined(p) \/ Elapsed(p) \/ TakeBuf(p)

(* truncate_output adds its note.                                          *)
AtLimit(p) == taken[p] >= MAX_OUTPUT_BYTES  \* mutant
Truncated(p) == taken[p] > MAX_OUTPUT_BYTES

(* status.code() *)
UnwrapCode(a) == IF a = "wait" /\ status # None THEN status ELSE -1  \* mutant: unwrap_or(-1)
ExitCode(a) == IF a = "wait" THEN status ELSE None

(* The ExecutionResult of each arm; a failed wait() shows no stdout and    *)
(* replaces stderr.                                                        *)
ResultOf(a) ==
  [exit_code |-> ExitCode(a),
   timed_out |-> a = "timeout",
   cancelled |-> a = "cancel",
   shown     |-> [p \in Pipes |-> IF a = "wait_error" THEN 0
                                  ELSE Least(taken[p], MAX_OUTPUT_BYTES)],
   truncated |-> [p \in Pipes |-> a # "wait_error" /\ Truncated(p)]]

Return ==
  /\ pc = "drain"
  /\ \A p \in Pipes : drain[p] = "taken"
  /\ pc' = "returned"
  /\ result' = ResultOf(arm)
  /\ UNCHANGED <<arm, cancelled, process, written, tasks, buf, drains>>

Environment == ChildExits \/ ChildDies \/ Fork \/ GrandchildExits \/ Cancel \/ \E p \in Pipes : Write(p)

Execute == Spawn \/ SpawnFails \/ WaitArm \/ TimeoutArm \/ CancelArm \/ Kill \/ Reap \/ Return

(* The call is over; without this disjunct TLC would report it as a        *)
(* deadlock, with it a deadlock is a call that can never return.           *)
Over == pc = "returned" /\ UNCHANGED vars

Next == Environment \/ Execute \/ Over \/ \E p \in Pipes : ReaderStep(p) \/ Drain(p)

Spec == Init /\ [][Next]_vars

(* The runtime polls every task that can make progress, the timers elapse, *)
(* and the kernel delivers SIGKILL.  Nothing is assumed of the command,    *)
(* its descendants or the caller: they may hang for ever.                  *)
Fairness ==
  /\ WF_vars(Execute)
  /\ WF_vars(ChildDies)
  /\ \A p \in Pipes : WF_vars(ReaderStep(p)) /\ WF_vars(Drain(p))

LiveSpec == Spec /\ Fairness

-----------------------------------------------------------------------------
(* Properties.                                                             *)

(* Every variable keeps the type the code gives it.                        *)
TypeOK ==
  /\ pc \in {"call", "select", "kill", "reap", "drain", "returned"}
  /\ arm \in {"none", "spawn_error", "wait", "wait_error", "timeout", "cancel"}
  /\ cancelled \in BOOLEAN
  /\ child \in {"unborn", "running", "killed", "zombie", "reaped"}
  /\ status \in Codes \cup {None}
  /\ grandchild \in {"none", "alive", "gone"}
  /\ written \in [Pipes -> Nat]
  /\ reader \in [Pipes -> {"unborn", "parked", "polling", "read", "extended",
                          "done", "failed", "dropped"}]
  /\ consumed \in [Pipes -> Nat]
  /\ chunk \in [Pipes -> Nat]
  /\ buf \in [Pipes -> Nat]
  /\ sunk \in [Pipes -> Nat]
  /\ aborted \in [Pipes -> BOOLEAN]
  /\ drain \in [Pipes -> {"idle", "waiting", "taking", "taken"}]
  /\ taken \in [Pipes -> Nat]
  /\ result \in [exit_code : Codes \cup {None}, timed_out : BOOLEAN, cancelled : BOOLEAN,
                 shown : [Pipes -> Nat], truncated : [Pipes -> BOOLEAN]]

(* No call drains its pipes or returns while the process it spawned is     *)
(* still alive or a zombie: `child.kill().await` waits for the death it    *)
(* causes, in all three arms of the select.                                *)
ChildReaped == pc \in {"drain", "returned"} => child \in {"unborn", "reaped"}

(* However much a command writes, and whatever the drain does to the       *)
(* readers, a stream's buffer and what was taken from it stay within       *)
(* READ_LIMIT_BYTES (the unbounded-allocation fix).                        *)
BoundedMemory == \A p \in Pipes : buf[p] + taken[p] <= READ_LIMIT_BYTES

(* A writer blocked on a full pipe is never left to itself: the reader can *)
(* take a step, or the read end is closed and the write fails.  "Drain     *)
(* both pipes concurrently, starting now": the comment at the spawn of the *)
(* readers.                                                                *)
NoBackpressureDeadlock ==
  \A p \in Pipes :
    InPipe(p) = PipeCapacity /\ ~ReadEndClosed(p) => ENABLED ReaderStep(p)

(* If the reader of a stream ended by itself before the drain window did,  *)
(* the result shows everything that will ever be written on it, up to      *)
(* MAX_OUTPUT_BYTES, and carries the truncation note exactly when there    *)
(* was more: also on timeout and cancellation.                             *)
CompleteUnlessCut ==
  pc = "returned" /\ arm \in {"wait", "timeout", "cancel"} =>
    \A p \in Pipes : reader[p] = "done" /\ ~aborted[p] =>
      /\ result.shown[p] = Least(written[p], MAX_OUTPUT_BYTES)
      /\ result.truncated[p] <=> written[p] > MAX_OUTPUT_BYTES

(* What drain_one returns holds at least every byte that was streamed to   *)
(* the caller before it, also when the reader had to be aborted: an abort  *)
(* means "stop reading and take what you have".                            *)
ResultCoversStream ==
  [][\A p \in Pipes : drain[p] # "taken" /\ drain'[p] = "taken" => taken'[p] >= sunk'[p]]_vars

(* Every call returns, even if the command, or a grandchild holding its    *)
(* pipes, never exits and nobody cancels.                                  *)
Returns == <>(pc = "returned")

(* After the return no reader outlives the drain for ever, although a      *)
(* grandchild may hold its pipe open for ever.                             *)
ReadersStop == pc = "returned" ~> \A p \in Pipes : ReadEndClosed(p)

(* The call keeps the contract its caller relies on.                       *)
Contract == INSTANCE ExecuteContract WITH
  phase   <- IF pc = "call" THEN "idle" ELSE IF pc = "returned" THEN "answered" ELSE "running",
  process <- IF child = "unborn" THEN "none" ELSE IF child = "reaped" THEN "gone" ELSE "alive",
  output  <- written,
  answer  <- result

KeepsContract == Contract!Spec
=============================================================================
