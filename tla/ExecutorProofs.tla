--------------------------- MODULE ExecutorProofs ---------------------------
(***************************************************************************)
(* Theorems about Executor.tla, for every set of pipes, every capacity and *)
(* every limit.                                                            *)
(***************************************************************************)
EXTENDS Executor, TLAPS

USE DEF vars, call, process, tasks, drains, TakenBytes, ExitCode

-----------------------------------------------------------------------------
(* Arithmetic helpers.                                                     *)

(* Least returns the smaller of its arguments (Take's and truncate_output's *)
(* slice bounds).                                                          *)
LEMMA LeastIsLeast ==
  ASSUME NEW a \in Nat, NEW b \in Nat
  PROVE  /\ Least(a, b) \in Nat
         /\ Least(a, b) <= a
         /\ Least(a, b) <= b
         /\ Least(a, b) = a \/ Least(a, b) = b
  BY DEF Least

(* A read takes at least one byte, and no more than the pipe holds or the  *)
(* limit leaves.                                                           *)
LEMMA ReadSize ==
  ASSUME TypeOK, NEW p \in Pipes, InPipe(p) > 0, Remaining(p) > 0
  PROVE  LET n == Least(Least(CHUNK_BYTES, InPipe(p)), Remaining(p))
         IN  /\ n \in Nat
             /\ n > 0
             /\ n <= written[p] - consumed[p]
             /\ n <= READ_LIMIT_BYTES - consumed[p]
  BY ExecutorAssumption DEF TypeOK, Least, InPipe, Remaining, READ_LIMIT_BYTES

-----------------------------------------------------------------------------
(* Type correctness.                                                       *)

(* execute() is called with every variable of its type.                    *)
LEMMA InitTypeOK == Init => TypeOK
<1>1. NoResult \in [exit_code : Codes \cup {None}, timed_out : BOOLEAN, cancelled : BOOLEAN,
                   shown : [Pipes -> Nat], truncated : [Pipes -> BOOLEAN]]
  BY DEF NoResult
<1> SUFFICES ASSUME Init PROVE TypeOK
  OBVIOUS
<1>2. /\ pc = "call" /\ arm = "none" /\ result = NoResult /\ cancelled = FALSE
      /\ child = "unborn" /\ status = None /\ grandchild = "none"
  BY DEF Init
<1>3. /\ written \in [Pipes -> Nat] /\ consumed \in [Pipes -> Nat] /\ chunk \in [Pipes -> Nat]
      /\ buf \in [Pipes -> Nat] /\ sunk \in [Pipes -> Nat] /\ taken \in [Pipes -> Nat]
  BY DEF Init
<1>4. /\ reader \in [Pipes -> {"unborn", "parked", "polling", "read", "extended",
                                "done", "failed", "dropped"}]
      /\ aborted \in [Pipes -> BOOLEAN]
      /\ drain \in [Pipes -> {"idle", "waiting", "taking", "taken"}]
  BY DEF Init
<1> QED
  BY <1>1, <1>2, <1>3, <1>4 DEF TypeOK

(* No step of a reader, aborted or not, leaves the types.                  *)
LEMMA ReaderTypeOK ==
  ASSUME TypeOK, NEW p \in Pipes, ReaderStep(p)
  PROVE  TypeOK'
<1>1. CASE Wake(p)
  BY <1>1 DEF TypeOK, Wake, Step
<1>2. CASE Read(p)
  <2>1. consumed[p] + Least(Least(CHUNK_BYTES, InPipe(p)), Remaining(p)) \in Nat
    BY <1>2, ReadSize DEF Read, TypeOK
  <2>2. Least(Least(CHUNK_BYTES, InPipe(p)), Remaining(p)) \in Nat
    BY <1>2, ReadSize DEF Read
  <2> QED
    BY <1>2, <2>1, <2>2 DEF TypeOK, Read, Step
<1>3. CASE ReadEnds(p)
  BY <1>3 DEF TypeOK, ReadEnds, Step
<1>4. CASE ReadFails(p)
  BY <1>4 DEF TypeOK, ReadFails, Step
<1>5. CASE Park(p)
  BY <1>5 DEF TypeOK, Park, Step
<1>6. CASE Extend(p)
  BY <1>6 DEF TypeOK, Extend, Step
<1>7. CASE Send(p)
  BY <1>7 DEF TypeOK, Send, Step
<1>8. CASE Drop(p)
  BY <1>8 DEF TypeOK, Drop
<1> QED
  BY <1>1, <1>2, <1>3, <1>4, <1>5, <1>6, <1>7, <1>8 DEF ReaderStep

(* Nor does one of the drain, on either stream.                            *)
LEMMA DrainTypeOK ==
  ASSUME TypeOK, NEW p \in Pipes, Drain(p)
  PROVE  TypeOK'
<1>1. CASE Joined(p)
  BY <1>1 DEF TypeOK, Joined
<1>2. CASE Elapsed(p)
  BY <1>2 DEF TypeOK, Elapsed
<1>3. CASE TakeBuf(p)
  BY <1>3 DEF TypeOK, TakeBuf
<1> QED
  BY <1>1, <1>2, <1>3 DEF Drain

(* Nor does anything the command, its descendants or the caller do.        *)
LEMMA EnvironmentTypeOK ==
  ASSUME TypeOK, Environment
  PROVE  TypeOK'
<1>1. CASE ChildExits
  BY <1>1 DEF TypeOK, ChildExits
<1>2. CASE ChildDies
  BY <1>2 DEF TypeOK, ChildDies
<1>3. CASE Fork
  BY <1>3 DEF TypeOK, Fork
<1>4. CASE GrandchildExits
  BY <1>4 DEF TypeOK, GrandchildExits
<1>5. CASE Cancel
  BY <1>5 DEF TypeOK, Cancel
<1>6. ASSUME NEW p \in Pipes, Write(p) PROVE TypeOK'
  BY <1>6 DEF TypeOK, Write
<1> QED
  BY <1>1, <1>2, <1>3, <1>4, <1>5, <1>6 DEF Environment

(* Whichever arm of the select won, what it returns is an ExecutionResult. *)
LEMMA ResultType ==
  ASSUME TypeOK, NEW a
  PROVE  ResultOf(a) \in [exit_code : Codes \cup {None}, timed_out : BOOLEAN,
                          cancelled : BOOLEAN, shown : [Pipes -> Nat],
                          truncated : [Pipes -> BOOLEAN]]
<1>1. \A p \in Pipes : Least(taken[p], MAX_OUTPUT_BYTES) \in Nat
  BY ExecutorAssumption, LeastIsLeast DEF TypeOK
<1>2. \A p \in Pipes : Truncated(p) \in BOOLEAN
  BY DEF Truncated
<1> QED
  BY <1>1, <1>2 DEF ResultOf, TypeOK

(* Nor does a step of execute() itself.                                    *)
LEMMA ExecuteTypeOK ==
  ASSUME TypeOK, Execute
  PROVE  TypeOK'
<1>1. CASE Spawn
  BY <1>1 DEF TypeOK, Spawn
<1>2. CASE SpawnFails
  BY <1>2 DEF TypeOK, SpawnFails, NoResult
<1>3. CASE WaitArm
  BY <1>3 DEF TypeOK, WaitArm, StartDrain
<1>4. CASE TimeoutArm
  BY <1>4 DEF TypeOK, TimeoutArm
<1>5. CASE CancelArm
  BY <1>5 DEF TypeOK, CancelArm
<1>6. CASE Kill
  BY <1>6 DEF TypeOK, Kill
<1>7. CASE Reap
  BY <1>7 DEF TypeOK, Reap, StartDrain
<1>8. CASE Return
  BY <1>8, ResultType DEF TypeOK, Return
<1> QED
  BY <1>1, <1>2, <1>3, <1>4, <1>5, <1>6, <1>7, <1>8 DEF Execute

(* All the steps together.                                                 *)
LEMMA NextTypeOK == TypeOK /\ [Next]_vars => TypeOK'
<1> SUFFICES ASSUME TypeOK, [Next]_vars PROVE TypeOK'
  OBVIOUS
<1>1. CASE Environment
  BY <1>1, EnvironmentTypeOK
<1>2. CASE Execute
  BY <1>2, ExecuteTypeOK
<1>3. ASSUME NEW p \in Pipes, ReaderStep(p) PROVE TypeOK'
  BY <1>3, ReaderTypeOK
<1>4. ASSUME NEW p \in Pipes, Drain(p) PROVE TypeOK'
  BY <1>4, DrainTypeOK
<1>5. CASE UNCHANGED vars
  BY <1>5 DEF TypeOK
<1> QED
  BY <1>1, <1>2, <1>3, <1>4, <1>5 DEF Next, Over

(* Every variable of execute() keeps its type, for every instance.         *)
THEOREM TypeCorrect == Spec => []TypeOK
<1> QED
  BY InitTypeOK, NextTypeOK, PTL DEF Spec

-----------------------------------------------------------------------------
(* The inductive invariant.                                                *)

(* execute()'s own progress and the life of the child agree.               *)
ProcessInv ==
  /\ arm = "none" <=> pc \in {"call", "select"}
  /\ arm = "spawn_error" => pc = "returned"
  /\ arm = "cancel" => cancelled
  /\ child = "unborn" <=> (pc = "call" \/ arm = "spawn_error")
  /\ child = "unborn" => grandchild = "none"
  /\ child = "reaped" <=> (pc \in {"drain", "returned"} /\ arm # "spawn_error")
  /\ pc = "reap" => child # "running"

(* Where the bytes of p are: in the pipe, in the reader's chunk, in the    *)
(* shared buffer, or with drain_one; and all but the chunk were streamed.  *)
BytesInv(p) ==
  /\ consumed[p] <= written[p]
  /\ consumed[p] <= READ_LIMIT_BYTES
  /\ reader[p] = "read" => consumed[p] = buf[p] + taken[p] + chunk[p]
  /\ reader[p] # "read" => consumed[p] = buf[p] + taken[p]
  /\ consumed[p] = sunk[p] + chunk[p]
  /\ reader[p] \notin {"read", "extended"} => chunk[p] = 0

(* What is known when the reader is over, and when the drain is.           *)
DrainInv(p) ==
  /\ reader[p] = "unborn" <=> child = "unborn"
  /\ reader[p] = "done" =>
       consumed[p] = READ_LIMIT_BYTES \/ (consumed[p] = written[p] /\ ~Writers)
  /\ drain[p] = "idle" <=> (pc \in {"call", "select", "kill", "reap"} \/ arm = "spawn_error")
  /\ drain[p] \in {"idle", "waiting"} => ~aborted[p]
  /\ drain[p] # "taken" => taken[p] = 0
  /\ drain[p] \in {"taking", "taken"} /\ ~aborted[p] => Finished(p)
  /\ drain[p] = "taken" /\ ~aborted[p] => buf[p] = 0
  /\ pc = "returned" /\ arm # "spawn_error" => drain[p] = "taken"

ResultInv ==
  result = IF pc = "returned" /\ arm # "spawn_error" THEN ResultOf(arm) ELSE NoResult

IInv == TypeOK /\ ProcessInv /\ (\A p \in Pipes : BytesInv(p) /\ DrainInv(p)) /\ ResultInv

(* Before the spawn no byte is anywhere and no drain has begun.            *)
LEMMA InitIInv == Init => IInv
<1> SUFFICES ASSUME Init PROVE IInv
  OBVIOUS
<1>1. TypeOK
  BY InitTypeOK
<1>2. ProcessInv
  BY DEF Init, ProcessInv
<1>3. ASSUME NEW p \in Pipes PROVE BytesInv(p)
  BY ExecutorAssumption DEF Init, BytesInv, READ_LIMIT_BYTES
<1>4. ASSUME NEW p \in Pipes PROVE DrainInv(p)
  BY DEF Init, DrainInv
<1>5. ResultInv
  BY DEF Init, ResultInv
<1> QED
  BY <1>1, <1>2, <1>3, <1>4, <1>5 DEF IInv

(* Where execute() is, which arm has won and what has become of the child  *)
(* keep going together.                                                    *)
LEMMA ProcessStep ==
  ASSUME IInv, [Next]_vars
  PROVE  ProcessInv'
<1>1. ProcessInv /\ TypeOK
  BY DEF IInv
<1>2. CASE Environment
  BY <1>1, <1>2 DEF Environment, ChildExits, ChildDies, Fork, GrandchildExits, Cancel, Write,
                    ProcessInv
<1>3. CASE Execute
  BY <1>1, <1>3 DEF Execute, Spawn, SpawnFails, WaitArm, TimeoutArm, CancelArm, Kill, Reap, Return,
                    StartDrain, ProcessInv
<1>4. ASSUME NEW q \in Pipes, ReaderStep(q) PROVE ProcessInv'
  BY <1>1, <1>4 DEF ReaderStep, Wake, Read, ReadEnds, ReadFails, Park, Extend, Send, Drop, ProcessInv
<1>5. ASSUME NEW q \in Pipes, Drain(q) PROVE ProcessInv'
  BY <1>1, <1>5 DEF Drain, Joined, Elapsed, TakeBuf, ProcessInv
<1>6. CASE UNCHANGED vars
  BY <1>1, <1>6 DEF ProcessInv
<1> QED
  BY <1>2, <1>3, <1>4, <1>5, <1>6 DEF Next, Over

(* No byte is lost or counted twice on its way from the pipe to the        *)
(* result.                                                                 *)
LEMMA BytesStep ==
  ASSUME IInv, [Next]_vars, NEW p \in Pipes
  PROVE  BytesInv(p)'
<1>1. BytesInv(p) /\ DrainInv(p) /\ ProcessInv /\ TypeOK
  BY DEF IInv
<1>2. CASE Environment
  <2>1. ASSUME NEW q \in Pipes, Write(q) PROVE BytesInv(p)'
    BY <1>1, <2>1 DEF Write, BytesInv, TypeOK
  <2>2. CASE ChildExits \/ ChildDies \/ Fork \/ GrandchildExits \/ Cancel
    BY <1>1, <2>2 DEF ChildExits, ChildDies, Fork, GrandchildExits, Cancel, BytesInv
  <2> QED
    BY <1>2, <2>1, <2>2 DEF Environment
<1>3. CASE Execute
  <2>1. CASE Spawn
    BY <1>1, <2>1 DEF Spawn, BytesInv, DrainInv, ProcessInv, TypeOK
  <2>2. CASE SpawnFails \/ WaitArm \/ TimeoutArm \/ CancelArm \/ Kill \/ Reap \/ Return
    BY <1>1, <2>2 DEF SpawnFails, WaitArm, TimeoutArm, CancelArm, Kill, Reap, Return, BytesInv
  <2> QED
    BY <1>3, <2>1, <2>2 DEF Execute
<1>4. ASSUME NEW q \in Pipes, ReaderStep(q) PROVE BytesInv(p)'
  <2>1. CASE Read(q)
    <3> DEFINE n == Least(Least(CHUNK_BYTES, InPipe(q)), Remaining(q))
    <3>1. n \in Nat /\ n <= written[q] - consumed[q] /\ n <= READ_LIMIT_BYTES - consumed[q]
      BY <1>1, <2>1, ReadSize DEF Read
    <3>2. reader[q] = "polling" /\ reader' = [reader EXCEPT ![q] = "read"]
      BY <2>1 DEF Read, Step
    <3>3. /\ chunk' = [chunk EXCEPT ![q] = n]
          /\ consumed' = [consumed EXCEPT ![q] = @ + n]
          /\ UNCHANGED <<written, sunk, buf, taken>>
      BY <2>1 DEF Read
    <3> HIDE DEF n
    <3> QED
      BY <1>1, <3>1, <3>2, <3>3, ExecutorAssumption DEF BytesInv, TypeOK, READ_LIMIT_BYTES
  <2>2. CASE Wake(q) \/ ReadEnds(q) \/ ReadFails(q) \/ Park(q) \/ Drop(q)
    BY <1>1, <2>2 DEF Wake, ReadEnds, ReadFails, Park, Drop, Step, BytesInv, TypeOK
  <2>3. CASE Extend(q)
    BY <1>1, <2>3 DEF Extend, Step, BytesInv, TypeOK
  <2>4. CASE Send(q)
    BY <1>1, <2>4 DEF Send, Step, BytesInv, TypeOK
  <2> QED
    BY <1>4, <2>1, <2>2, <2>3, <2>4 DEF ReaderStep
<1>5. ASSUME NEW q \in Pipes, Drain(q) PROVE BytesInv(p)'
  <2>1. CASE Joined(q) \/ Elapsed(q)
    BY <1>1, <2>1 DEF Joined, Elapsed, BytesInv
  <2>2. CASE TakeBuf(q)
    <3>1. DrainInv(q)
      BY DEF IInv
    <3> QED
      BY <1>1, <2>2, <3>1 DEF TakeBuf, BytesInv, DrainInv, TypeOK
  <2> QED
    BY <1>5, <2>1, <2>2 DEF Drain
<1>6. CASE UNCHANGED vars
  BY <1>1, <1>6 DEF BytesInv
<1> QED
  BY <1>2, <1>3, <1>4, <1>5, <1>6 DEF Next, Over

(* What the drain of a stream has done tells whether its reader may go on  *)
(* appending.                                                              *)
LEMMA DrainStep ==
  ASSUME IInv, [Next]_vars, NEW p \in Pipes
  PROVE  DrainInv(p)'
<1> USE DEF Finished, Writers
<1>1. BytesInv(p) /\ DrainInv(p) /\ ProcessInv /\ TypeOK
  BY DEF IInv
<1>2. CASE Environment
  <2>1. ASSUME NEW q \in Pipes, Write(q) PROVE DrainInv(p)'
    BY <1>1, <2>1 DEF Write, DrainInv, TypeOK
  <2>2. CASE ChildExits \/ ChildDies \/ Fork \/ GrandchildExits \/ Cancel
    BY <1>1, <2>2 DEF ChildExits, ChildDies, Fork, GrandchildExits, Cancel, DrainInv
  <2> QED
    BY <1>2, <2>1, <2>2 DEF Environment
<1>3. CASE Execute
  <2>1. CASE Spawn
    BY <1>1, <2>1 DEF Spawn, DrainInv, ProcessInv, TypeOK
  <2>2. CASE SpawnFails
    BY <1>1, <2>2 DEF SpawnFails, DrainInv, ProcessInv
  <2>3. CASE WaitArm \/ Reap
    BY <1>1, <2>3 DEF WaitArm, Reap, StartDrain, DrainInv, ProcessInv
  <2>4. CASE TimeoutArm \/ CancelArm \/ Kill
    BY <1>1, <2>4 DEF TimeoutArm, CancelArm, Kill, DrainInv, ProcessInv
  <2>5. CASE Return
    BY <1>1, <2>5 DEF Return, DrainInv, ProcessInv
  <2> QED
    BY <1>3, <2>1, <2>2, <2>3, <2>4, <2>5 DEF Execute
<1>4. ASSUME NEW q \in Pipes, ReaderStep(q) PROVE DrainInv(p)'
  <2>1. CASE Wake(q) \/ ReadFails(q) \/ Park(q) \/ Drop(q)
    BY <1>1, <2>1 DEF Wake, ReadFails, Park, Drop, Step, DrainInv, TypeOK
  <2>2. CASE ReadEnds(q)
    BY <1>1, <2>2, ExecutorAssumption
    DEF ReadEnds, Step, DrainInv, TypeOK, InPipe, Remaining, READ_LIMIT_BYTES
  <2>3. CASE Read(q) \/ Send(q)
    BY <1>1, <2>3 DEF Read, Send, Step, DrainInv, TypeOK
  <2>4. CASE Extend(q)
    BY <1>1, <2>4 DEF Extend, Step, DrainInv, TypeOK
  <2> QED
    BY <1>4, <2>1, <2>2, <2>3, <2>4 DEF ReaderStep
<1>5. ASSUME NEW q \in Pipes, Drain(q) PROVE DrainInv(p)'
  BY <1>1, <1>5 DEF Drain, Joined, Elapsed, TakeBuf, DrainInv, TypeOK
<1>6. CASE UNCHANGED vars
  BY <1>1, <1>6 DEF DrainInv
<1> QED
  BY <1>2, <1>3, <1>4, <1>5, <1>6 DEF Next, Over

(* The result, once it is given, is of what was taken.                     *)
LEMMA ResultStep ==
  ASSUME IInv, [Next]_vars
  PROVE  ResultInv'
<1>1. ResultInv /\ ProcessInv /\ TypeOK /\ \A p \in Pipes : DrainInv(p)
  BY DEF IInv
<1>2. CASE Environment
  BY <1>1, <1>2 DEF Environment, ChildExits, ChildDies, Fork, GrandchildExits, Cancel, Write,
                    ResultInv, ResultOf, Truncated, ProcessInv
<1>3. CASE Execute
  BY <1>1, <1>3 DEF Execute, Spawn, SpawnFails, WaitArm, TimeoutArm, CancelArm, Kill, Reap, Return,
                    StartDrain, ResultInv, ResultOf, Truncated, ProcessInv
<1>4. ASSUME NEW q \in Pipes, ReaderStep(q) PROVE ResultInv'
  BY <1>1, <1>4 DEF ReaderStep, Wake, Read, ReadEnds, ReadFails, Park, Extend, Send, Drop,
                    ResultInv, ResultOf, Truncated
<1>5. ASSUME NEW q \in Pipes, Drain(q) PROVE ResultInv'
  BY <1>1, <1>5 DEF Drain, Joined, Elapsed, TakeBuf, DrainInv, ProcessInv, ResultInv, ResultOf, Truncated
<1>6. CASE UNCHANGED vars
  BY <1>1, <1>6 DEF ResultInv, ResultOf, Truncated
<1> QED
  BY <1>2, <1>3, <1>4, <1>5, <1>6 DEF Next, Over

(* Every step keeps the four parts of the invariant.                       *)
LEMMA NextIInv == IInv /\ [Next]_vars => IInv'
<1> SUFFICES ASSUME IInv, [Next]_vars PROVE IInv'
  OBVIOUS
<1>1. TypeOK'
  BY NextTypeOK DEF IInv
<1>2. ASSUME NEW p \in Pipes PROVE BytesInv(p)' /\ DrainInv(p)'
  BY BytesStep, DrainStep
<1> QED
  BY <1>1, <1>2, ProcessStep, ResultStep DEF IInv

(* The strengthening the theorems below rest on.                           *)
THEOREM Inductive == Spec => []IInv
<1> QED
  BY InitIInv, NextIInv, PTL DEF Spec

-----------------------------------------------------------------------------
(* The safety properties.                                                  *)

(* No call drains or returns before its process was reaped.                *)
THEOREM ChildIsReaped == Spec => []ChildReaped
<1>1. IInv => ChildReaped
  BY DEF IInv, ProcessInv, ChildReaped
<1> QED
  BY <1>1, Inductive, PTL

(* Whatever the command writes, what is kept of it stays within            *)
(* READ_LIMIT_BYTES.                                                       *)
THEOREM MemoryIsBounded == Spec => []BoundedMemory
<1>1. ASSUME IInv, NEW p \in Pipes PROVE buf[p] + taken[p] <= READ_LIMIT_BYTES
  <2>1. BytesInv(p) /\ TypeOK
    BY <1>1 DEF IInv
  <2> QED
    BY <2>1, ExecutorAssumption DEF BytesInv, TypeOK, READ_LIMIT_BYTES
<1>2. IInv => BoundedMemory
  BY <1>1 DEF BoundedMemory
<1> QED
  BY <1>2, Inductive, PTL

(* The output of a stream whose reader was not cut off is complete, and    *)
(* the truncation note is right.                                           *)
THEOREM OutputIsComplete == Spec => []CompleteUnlessCut
<1>1. ASSUME IInv, pc = "returned", arm \in {"wait", "timeout", "cancel"},
             NEW p \in Pipes, reader[p] = "done", ~aborted[p]
      PROVE  /\ result.shown[p] = Least(written[p], MAX_OUTPUT_BYTES)
             /\ result.truncated[p] <=> written[p] > MAX_OUTPUT_BYTES
  <2>1. BytesInv(p) /\ DrainInv(p) /\ TypeOK /\ ResultInv
    BY <1>1 DEF IInv
  <2>2. taken[p] = consumed[p]
    BY <1>1, <2>1 DEF BytesInv, DrainInv, TypeOK
  <2>3. taken[p] = READ_LIMIT_BYTES \/ taken[p] = written[p]
    BY <1>1, <2>1, <2>2 DEF DrainInv
  <2>4. taken[p] <= written[p]
    BY <2>1, <2>2 DEF BytesInv
  <2>5. /\ result.shown[p] = Least(taken[p], MAX_OUTPUT_BYTES)
        /\ result.truncated[p] = (taken[p] > MAX_OUTPUT_BYTES)
    BY <1>1, <2>1 DEF ResultInv, ResultOf, Truncated
  <2> QED
    BY <2>1, <2>3, <2>4, <2>5, ExecutorAssumption DEF TypeOK, READ_LIMIT_BYTES, Least
<1>2. IInv => CompleteUnlessCut
  BY <1>1 DEF CompleteUnlessCut
<1> QED
  BY <1>2, Inductive, PTL

(* What drain_one returns covers everything streamed so far.               *)
THEOREM StreamIsCovered == Spec => ResultCoversStream
<1>1. ASSUME IInv, [Next]_vars, NEW p \in Pipes, drain[p] # "taken", drain'[p] = "taken"
      PROVE  taken'[p] >= sunk'[p]
  <2>1. BytesInv(p) /\ DrainInv(p) /\ TypeOK
    BY <1>1 DEF IInv
  <2>2. TakeBuf(p)
    <3>1. ASSUME NEW q \in Pipes, Drain(q) PROVE TakeBuf(p)
      BY <1>1, <2>1, <3>1 DEF Drain, Joined, Elapsed, TakeBuf, TypeOK
    <3>2. ASSUME NEW q \in Pipes, ReaderStep(q) PROVE FALSE
      BY <1>1, <3>2 DEF ReaderStep, Wake, Read, ReadEnds, ReadFails, Park, Extend, Send, Drop
    <3>3. CASE Environment
      BY <1>1, <3>3 DEF Environment, ChildExits, ChildDies, Fork, GrandchildExits, Cancel, Write
    <3>4. CASE Execute
      BY <1>1, <3>4 DEF Execute, Spawn, SpawnFails, WaitArm, TimeoutArm, CancelArm, Kill, Reap,
                        Return, StartDrain
    <3> QED
      BY <1>1, <3>1, <3>2, <3>3, <3>4 DEF Next, Over
  <2>3. taken'[p] = buf[p] /\ sunk'[p] = sunk[p]
    BY <2>1, <2>2 DEF TakeBuf, TypeOK
  <2> QED
    BY <1>1, <2>1, <2>3 DEF BytesInv, DrainInv, TypeOK
<1>2. IInv /\ [Next]_vars =>
        [\A p \in Pipes : drain[p] # "taken" /\ drain'[p] = "taken" => taken'[p] >= sunk'[p]]_vars
  BY <1>1
<1> QED
  BY <1>2, Inductive, PTL DEF Spec, ResultCoversStream

-----------------------------------------------------------------------------
(* Executor implements ExecuteContract.                                    *)

(* A call that is not yet made is one of the contract's.                   *)
LEMMA ContractInit == Init => Contract!Init
  BY DEF Init, Contract!Init, Contract!Empty, NoResult

(* The result every arm builds is one the contract allows.                 *)
LEMMA HonestResult ==
  ASSUME IInv, Return
  PROVE  Contract!Honest(result')
<1>1. ProcessInv /\ TypeOK /\ ResultInv'
  BY ResultStep DEF IInv, Next, Execute
<1>2. arm # "spawn_error" /\ arm' = arm /\ taken' = taken /\ status' = status
  BY <1>1 DEF Return, ProcessInv
<1>3. result' = ResultOf(arm)
  BY DEF Return
<1>4. ASSUME NEW p \in Pipes
      PROVE  /\ result'.shown[p] <= written[p]
             /\ result'.shown[p] <= MAX_OUTPUT_BYTES
             /\ result'.truncated[p] => written[p] > MAX_OUTPUT_BYTES
  <2>1. BytesInv(p)
    BY DEF IInv
  <2>2. taken[p] \in Nat /\ written[p] \in Nat /\ taken[p] <= written[p]
    BY <1>1, <2>1 DEF BytesInv, TypeOK
  <2>3. /\ result'.shown[p] = IF arm = "wait_error" THEN 0 ELSE Least(taken[p], MAX_OUTPUT_BYTES)
        /\ result'.truncated[p] => taken[p] > MAX_OUTPUT_BYTES
    BY <1>3 DEF ResultOf, Truncated
  <2>4. /\ result'.shown[p] <= taken[p]
        /\ result'.shown[p] <= MAX_OUTPUT_BYTES
    BY <2>2, <2>3, ExecutorAssumption DEF Least
  <2>5. taken[p] > MAX_OUTPUT_BYTES => written[p] > MAX_OUTPUT_BYTES
    BY <2>2, ExecutorAssumption
  <2>6. result'.shown[p] \in Nat
    BY <2>2, <2>3, ExecutorAssumption DEF Least
  <2> QED
    BY <2>2, <2>3, <2>4, <2>5, <2>6
<1>5. /\ ~(result'.timed_out /\ result'.cancelled)
      /\ result'.cancelled => cancelled
      /\ result'.exit_code # None => ~result'.timed_out /\ ~result'.cancelled
  BY <1>1, <1>3 DEF ResultOf, ProcessInv
<1> QED
  BY <1>4, <1>5 DEF Contract!Honest

(* Every step of execute() and its surroundings is a step of the contract, *)
(* or leaves what the contract sees unchanged.                             *)
LEMMA ContractStep ==
  ASSUME IInv, [Next]_vars
  PROVE  [Contract!Next]_Contract!vars
<1> USE DEF Contract!vars
<1>1. ProcessInv /\ TypeOK /\ ResultInv /\ \A p \in Pipes : DrainInv(p)
  BY DEF IInv
<1>2. CASE Environment
  <2>1. ASSUME NEW p \in Pipes, Write(p) PROVE Contract!Emit
    <3>1. pc # "call"
      BY <1>1, <2>1 DEF Write, ReadEndClosed, DrainInv, ProcessInv
    <3> QED
      BY <1>1, <2>1, <3>1 DEF Write, Contract!Emit
  <2>2. CASE Cancel
    BY <2>2 DEF Cancel, Contract!Cancel, Contract!Next
  <2>3. CASE ChildExits \/ ChildDies \/ Fork \/ GrandchildExits
    BY <2>3 DEF ChildExits, ChildDies, Fork, GrandchildExits
  <2> QED
    BY <1>2, <2>1, <2>2, <2>3 DEF Environment, Contract!Next
<1>3. CASE Execute
  <2>1. CASE Spawn
    BY <1>1, <2>1 DEF Spawn, ProcessInv, Contract!Start, Contract!Next
  <2>2. CASE SpawnFails
    <3>1. result = NoResult /\ UNCHANGED <<process, cancelled, written>>
      BY <1>1, <2>2 DEF SpawnFails, ResultInv
    <3> QED
      BY <2>2, <3>1 DEF SpawnFails, Contract!FailToStart, Contract!Next
  <2>3. CASE WaitArm
    BY <1>1, <2>3 DEF WaitArm, StartDrain, Contract!ProcessEnds, Contract!Next
  <2>4. CASE Reap
    BY <1>1, <2>4 DEF Reap, StartDrain, Contract!ProcessEnds, Contract!Next
  <2>5. CASE TimeoutArm \/ CancelArm
    BY <2>5 DEF TimeoutArm, CancelArm
  <2>6. CASE Kill
    BY <2>6 DEF Kill
  <2>7. CASE Return
    BY <1>1, <2>7, HonestResult DEF Return, ProcessInv, Contract!Answer, Contract!Next
  <2> QED
    BY <1>3, <2>1, <2>2, <2>3, <2>4, <2>5, <2>6, <2>7 DEF Execute
<1>4. ASSUME NEW p \in Pipes, ReaderStep(p) PROVE UNCHANGED Contract!vars
  BY <1>4 DEF ReaderStep, Wake, Read, ReadEnds, ReadFails, Park, Extend, Send, Drop
<1>5. ASSUME NEW p \in Pipes, Drain(p) PROVE UNCHANGED Contract!vars
  BY <1>5 DEF Drain, Joined, Elapsed, TakeBuf
<1>6. CASE UNCHANGED vars
  BY <1>6
<1> QED
  BY <1>2, <1>3, <1>4, <1>5, <1>6 DEF Next, Over

(* execute() keeps its contract, whatever the sizes and the command.       *)
THEOREM Implements == Spec => KeepsContract
<1> QED
  BY ContractInit, Inductive, ContractStep, PTL DEF Spec, KeepsContract, Contract!Spec

-----------------------------------------------------------------------------
(* Nobody waits for ever.  Liveness under fairness is checked by TLC; what *)
(* it rests on is proved here, for every instance: which steps are always  *)
(* possible, and that they lead somewhere.                                 *)

(* What the reader of p needs to go on: one that is parked waits for data, *)
(* the end of it or its abort; one that is being polled waits for nothing. *)
ReaderCanStep(p) ==
  \/ reader[p] = "parked" /\ (aborted[p] \/ Readable(p))
  \/ reader[p] \in {"polling", "read", "extended"}

(* A state the reader of p can go to.                                      *)
ReaderAfter(p) ==
  LET n == Least(Least(CHUNK_BYTES, InPipe(p)), Remaining(p))
      To(place) == [reader EXCEPT ![p] = place]
      Only(place) == <<To(place), consumed, chunk, sunk, buf>>
      More(f) == [f EXCEPT ![p] = @ + chunk[p]]
  IN  CASE reader[p] = "parked" -> Only(IF aborted[p] THEN "dropped" ELSE "polling")
        [] reader[p] = "read" -> <<To("extended"), consumed, chunk, sunk, More(buf)>>
        [] reader[p] = "extended" -> <<To("polling"), consumed, [chunk EXCEPT ![p] = 0], More(sunk), buf>>
        [] reader[p] = "polling" /\ ~Readable(p) -> Only("parked")
        [] reader[p] = "polling" /\ InPipe(p) > 0 /\ Remaining(p) > 0 ->
             <<To("read"), [consumed EXCEPT ![p] = @ + n], [chunk EXCEPT ![p] = n], sunk, buf>>
        [] OTHER -> Only("done")

(* The guard is enough: the state ReaderAfter describes is a successor by  *)
(* a step of the reader.                                                   *)
LEMMA ReaderMoves ==
  ASSUME TypeOK, NEW p \in Pipes, BytesInv(p), ReaderCanStep(p),
         <<reader, consumed, chunk, sunk, buf>>' = ReaderAfter(p),
         UNCHANGED <<call, cancelled, process, written, drains>>
  PROVE  ReaderStep(p)
<1>1. CASE reader[p] = "parked" /\ aborted[p]
  BY <1>1 DEF ReaderAfter, ReaderStep, Drop
<1>2. CASE reader[p] = "parked" /\ ~aborted[p]
  BY <1>2 DEF ReaderAfter, ReaderCanStep, ReaderStep, Wake, Step
<1>3. CASE reader[p] = "read"
  BY <1>3 DEF ReaderAfter, ReaderStep, Extend, Step
<1>4. CASE reader[p] = "extended"
  BY <1>4 DEF ReaderAfter, ReaderStep, Send, Step
<1>5. CASE reader[p] = "polling" /\ ~Readable(p)
  BY <1>5 DEF ReaderAfter, ReaderStep, Park, Step, Readable
<1>6. CASE reader[p] = "polling" /\ InPipe(p) > 0 /\ Remaining(p) > 0
  <2>1. Readable(p)
    BY <1>6 DEF Readable
  <2> QED
    BY <1>6, <2>1 DEF ReaderAfter, ReaderStep, Read, Step
<1>7. CASE reader[p] = "polling" /\ Readable(p) /\ ~(InPipe(p) > 0 /\ Remaining(p) > 0)
  <2>1. InPipe(p) \in Nat /\ Remaining(p) \in Nat
    BY ExecutorAssumption DEF TypeOK, BytesInv, InPipe, Remaining, READ_LIMIT_BYTES
  <2>2. Remaining(p) = 0 \/ (InPipe(p) = 0 /\ ~Writers)
    BY <1>7, <2>1 DEF Readable
  <2> QED
    BY <1>7, <2>2 DEF ReaderAfter, ReaderStep, ReadEnds, Step
<1> QED
  BY <1>1, <1>2, <1>3, <1>4, <1>5, <1>6, <1>7 DEF ReaderCanStep

(* A writer blocked on a full pipe is not left to itself: its reader can   *)
(* step, or has closed the pipe.  NoBackpressureDeadlock says so with      *)
(* ENABLED.                                                                *)
WritersAreServed ==
  \A p \in Pipes : InPipe(p) = PipeCapacity /\ ~ReadEndClosed(p) => ReaderCanStep(p)

(* No command blocks for ever on its output, whatever the sizes of pipe,   *)
(* chunk and limit, and whatever the drain does to the readers.            *)
THEOREM BlockedWriterIsServed == Spec => []WritersAreServed
<1>1. ASSUME IInv, NEW p \in Pipes, InPipe(p) = PipeCapacity, ~ReadEndClosed(p) PROVE ReaderCanStep(p)
  <2>1. InPipe(p) > 0
    BY <1>1, ExecutorAssumption
  <2>2. reader[p] \in {"parked", "polling", "read", "extended"}
    BY <1>1 DEF IInv, TypeOK, ReadEndClosed, Stopped, Finished
  <2> QED
    BY <2>1, <2>2 DEF ReaderCanStep, Readable
<1>2. IInv => WritersAreServed
  BY <1>1 DEF WritersAreServed
<1> QED
  BY <1>2, Inductive, PTL

(* What a call that has not returned waits for: its spawn, its timeout and *)
(* its kill need nothing, the kernel delivers SIGKILL or the child can be  *)
(* reaped, and each drain is joined, elapses or takes its buffer.          *)
CallCanStep ==
  \/ pc \in {"call", "select", "kill"}
  \/ pc = "reap" /\ child \in {"killed", "zombie"}
  \/ pc = "drain" /\ (\A p \in Pipes : drain[p] = "taken")
  \/ pc = "drain" /\ (\E p \in Pipes : drain[p] \in {"waiting", "taking"})

(* A call that has not returned can go on without the help of the command, *)
(* its descendants or the caller.                                          *)
THEOREM CallNeverStuck == Spec => [](pc # "returned" => CallCanStep)
<1>1. ASSUME IInv, pc # "returned" PROVE CallCanStep
  <2>1. TypeOK /\ ProcessInv /\ \A p \in Pipes : DrainInv(p)
    BY <1>1 DEF IInv
  <2>2. CASE pc = "reap"
    <3>1. child \notin {"unborn", "running", "reaped"}
      BY <2>1, <2>2 DEF ProcessInv
    <3> QED
      BY <2>1, <2>2, <3>1 DEF TypeOK, CallCanStep
  <2>3. CASE pc = "drain"
    <3>1. \A p \in Pipes : drain[p] \in {"waiting", "taking", "taken"}
      BY <2>1, <2>3 DEF TypeOK, DrainInv, ProcessInv
    <3> QED
      BY <2>3, <3>1 DEF CallCanStep
  <2> QED
    BY <1>1, <2>1, <2>2, <2>3 DEF TypeOK, CallCanStep
<1>2. IInv => (pc # "returned" => CallCanStep)
  BY <1>1
<1> QED
  BY <1>2, Inductive, PTL

(* How far a call, its child and its drains have come.                     *)
CallStage  == [call |-> 0, select |-> 1, kill |-> 2, reap |-> 3, drain |-> 4, returned |-> 5]
ChildStage == [unborn |-> 0, running |-> 1, killed |-> 2, zombie |-> 3, reaped |-> 4]
DrainStage == [idle |-> 0, waiting |-> 1, taking |-> 2, taken |-> 3]

NoStepBack ==
  /\ CallStage[pc] <= CallStage[pc'] /\ ChildStage[child] <= ChildStage[child']
  /\ \A p \in Pipes : DrainStage[drain[p]] <= DrainStage[drain'[p]]

Advances ==
  /\ Execute => CallStage[pc] < CallStage[pc']
  /\ ChildDies => ChildStage[child] < ChildStage[child']
  /\ \A p \in Pipes : Drain(p) => DrainStage[drain[p]] < DrainStage[drain'[p]]

(* No step of anybody moves a call back, and each of those that            *)
(* CallCanStep is about moves it on: there are at most five of execute()   *)
(* and three of each drain, so they end, and they can only end in the      *)
(* return.                                                                 *)
THEOREM OnlyForward == Spec => [][NoStepBack /\ Advances]_vars
<1>1. ASSUME IInv, Next PROVE NoStepBack /\ Advances
  <2> USE DEF CallStage, ChildStage, DrainStage
  <2>1. TypeOK /\ ProcessInv /\ \A p \in Pipes : DrainInv(p)
    BY <1>1 DEF IInv
  <2>2. CASE Environment
    <3>1. UNCHANGED <<pc, drain>> /\ (child' = child \/ (child' = "zombie" /\ child \in {"running", "killed"}))
      BY <2>2 DEF Environment, ChildExits, ChildDies, Fork, GrandchildExits, Cancel, Write
    <3>2. NoStepBack
      BY <2>1, <3>1 DEF NoStepBack, TypeOK
    <3>3. ~Execute
      BY <3>1 DEF Execute, Spawn, SpawnFails, WaitArm, TimeoutArm, CancelArm, Kill, Reap, Return, StartDrain
    <3>4. ASSUME NEW p \in Pipes PROVE ~Drain(p)
      BY <2>1, <3>1 DEF Drain, Joined, Elapsed, TakeBuf, TypeOK
    <3>5. ChildDies => ChildStage[child] < ChildStage[child']
      BY DEF ChildDies
    <3> QED
      BY <3>2, <3>3, <3>4, <3>5 DEF Advances
  <2>3. CASE Execute
    <3>1. CallStage[pc] < CallStage[pc'] /\ ChildStage[child] <= ChildStage[child']
      BY <2>1, <2>3 DEF Execute, Spawn, SpawnFails, WaitArm, TimeoutArm, CancelArm, Kill, Reap, Return,
                        StartDrain, TypeOK, ProcessInv
    <3>2. ASSUME NEW p \in Pipes
          PROVE  drain'[p] = drain[p] \/ (drain[p] = "idle" /\ drain'[p] = "waiting")
      BY <2>1, <2>3 DEF Execute, Spawn, SpawnFails, WaitArm, TimeoutArm, CancelArm, Kill, Reap, Return,
                        StartDrain, DrainInv
    <3>3. ASSUME NEW p \in Pipes PROVE DrainStage[drain[p]] <= DrainStage[drain'[p]]
      BY <2>1, <3>2 DEF TypeOK
    <3>4. pc' # pc /\ CallStage[pc] <= CallStage[pc']
      BY <2>1, <3>1, <2>3 DEF Execute, Spawn, SpawnFails, WaitArm, TimeoutArm, CancelArm, Kill, Reap, Return,
                        StartDrain, TypeOK
    <3>5. NoStepBack
      BY <3>1, <3>3, <3>4 DEF NoStepBack
    <3>6. ~ChildDies /\ \A p \in Pipes : ~Drain(p)
      BY <3>4 DEF ChildDies, Drain, Joined, Elapsed, TakeBuf
    <3> QED
      BY <3>1, <3>5, <3>6 DEF Advances
  <2>4. ASSUME NEW q \in Pipes, ReaderStep(q) PROVE NoStepBack /\ Advances
    <3>1. UNCHANGED <<pc, child, drain>>
      BY <2>4 DEF ReaderStep, Wake, Read, ReadEnds, ReadFails, Park, Extend, Send, Drop
    <3>2. NoStepBack
      BY <2>1, <3>1 DEF NoStepBack, TypeOK
    <3>3. ~Execute /\ ~ChildDies
      BY <3>1 DEF Execute, Spawn, SpawnFails, WaitArm, TimeoutArm, CancelArm, Kill, Reap, Return,
                  StartDrain, ChildDies
    <3>4. ASSUME NEW p \in Pipes PROVE ~Drain(p)
      BY <2>1, <3>1 DEF Drain, Joined, Elapsed, TakeBuf, TypeOK
    <3> QED
      BY <3>2, <3>3, <3>4 DEF Advances
  <2>5. ASSUME NEW q \in Pipes, Drain(q) PROVE NoStepBack /\ Advances
    <3>1. UNCHANGED <<pc, child>>
      BY <2>5 DEF Drain, Joined, Elapsed, TakeBuf
    <3>2. ~Execute /\ ~ChildDies
      BY <3>1 DEF Execute, Spawn, SpawnFails, WaitArm, TimeoutArm, CancelArm, Kill, Reap, Return,
                  StartDrain, ChildDies
    <3>3. ASSUME NEW p \in Pipes PROVE DrainStage[drain[p]] <= DrainStage[drain'[p]]
      BY <2>1, <2>5 DEF Drain, Joined, Elapsed, TakeBuf, TypeOK
    <3>4. ASSUME NEW p \in Pipes, Drain(p) PROVE DrainStage[drain[p]] < DrainStage[drain'[p]]
      BY <2>1, <3>4 DEF Drain, Joined, Elapsed, TakeBuf, TypeOK
    <3>5. NoStepBack
      BY <2>1, <3>1, <3>3 DEF NoStepBack, TypeOK
    <3> QED
      BY <3>2, <3>4, <3>5 DEF Advances
  <2>6. CASE Over
    <3>1. UNCHANGED vars
      BY <2>6 DEF Over
    <3>2. ~Execute /\ ~ChildDies /\ \A p \in Pipes : ~Drain(p)
      BY <2>1, <3>1 DEF Execute, Spawn, SpawnFails, WaitArm, TimeoutArm, CancelArm, Kill, Reap, Return,
                  StartDrain, ChildDies, Drain, Joined, Elapsed, TakeBuf, TypeOK
    <3>3. NoStepBack
      BY <2>1, <3>1 DEF NoStepBack, TypeOK
    <3> QED
      BY <3>2, <3>3 DEF Advances
  <2> QED
    BY <1>1, <2>2, <2>3, <2>4, <2>5, <2>6 DEF Next
<1>2. IInv /\ [Next]_vars => [NoStepBack /\ Advances]_vars
  BY <1>1
<1> QED
  BY <1>2, Inductive, PTL DEF Spec
=============================================================================
