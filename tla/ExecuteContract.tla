-------------------------- MODULE ExecuteContract --------------------------
(***************************************************************************)
(* What one call of `execute` (src/executor.rs) promises its only caller,  *)
(* `dispatch` (src/tools/mod.rs), with none of its machinery: no pipes, no *)
(* reader tasks, no select, no drain windows.  A call is started at most   *)
(* once, is answered at most once, and the answer                          *)
(*   - is never given while the spawned process is alive or unreaped;      *)
(*   - is "cancelled" only if the request's token was cancelled;           *)
(*   - carries an exit code only if the process ended by itself;           *)
(*   - shows no byte the command did not write, and at most                *)
(*     MAX_OUTPUT_BYTES of a stream, with the truncation note only if the  *)
(*     stream really was longer.                                           *)
(* Executor.tla implements it; Dispatch.tla runs several of these calls.   *)
(***************************************************************************)
EXTENDS Integers

CONSTANTS
  Pipes,             \* the captured streams, stdout and stderr
  MAX_OUTPUT_BYTES,  \* longest stream an answer shows
  Codes,             \* exit codes of a process that exits normally
  None               \* no exit code: Option::None

VARIABLES
  phase,      \* "idle", "running", "answered"
  process,    \* "none", "alive", "gone": the spawned process
  cancelled,  \* the request's CancellationToken
  output,     \* output[p]: bytes the command and its descendants wrote on p
  answer      \* the ExecutionResult

vars == <<phase, process, cancelled, output, answer>>

(* The ExecutionResult: shown[p] stands for the length of the p string,    *)
(* truncated[p] for the "[output truncated ...]" note at its end.          *)
Empty == [exit_code |-> None, timed_out |-> FALSE, cancelled |-> FALSE,
          shown |-> [p \in Pipes |-> 0], truncated |-> [p \in Pipes |-> FALSE]]

Honest(a) ==
  /\ \A p \in Pipes : /\ a.shown[p] <= output[p]
                      /\ a.shown[p] <= MAX_OUTPUT_BYTES
                      /\ a.truncated[p] => output[p] > MAX_OUTPUT_BYTES
  /\ ~(a.timed_out /\ a.cancelled)
  /\ a.cancelled => cancelled
  /\ a.exit_code # None => ~a.timed_out /\ ~a.cancelled

Init ==
  /\ phase = "idle"
  /\ process = "none"
  /\ cancelled = FALSE
  /\ output = [p \in Pipes |-> 0]
  /\ answer = Empty

Start ==
  /\ phase = "idle"
  /\ phase' = "running"
  /\ process' = "alive"
  /\ UNCHANGED <<cancelled, output, answer>>

FailToStart ==
  /\ phase = "idle"
  /\ phase' = "answered"
  /\ UNCHANGED <<process, cancelled, output, answer>>

(* Also after the answer: a descendant that inherited the pipe may still   *)
(* be writing into it.                                                     *)
Emit ==
  /\ phase # "idle"
  /\ \E p \in Pipes : output' = [output EXCEPT ![p] = @ + 1]
  /\ UNCHANGED <<phase, process, cancelled, answer>>

ProcessEnds ==
  /\ process = "alive"
  /\ process' = "gone"
  /\ UNCHANGED <<phase, cancelled, output, answer>>

Cancel ==
  /\ ~cancelled
  /\ cancelled' = TRUE
  /\ UNCHANGED <<phase, process, output, answer>>

Answer ==
  /\ phase = "running"
  /\ process = "gone"
  /\ phase' = "answered"
  /\ Honest(answer')
  /\ UNCHANGED <<process, cancelled, output>>

Next == Start \/ FailToStart \/ Emit \/ ProcessEnds \/ Cancel \/ Answer

Spec == Init /\ [][Next]_vars
=============================================================================
