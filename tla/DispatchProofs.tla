--------------------------- MODULE DispatchProofs ---------------------------
(***************************************************************************)
(* Theorems about Dispatch.tla, for any number of calls, clients, request  *)
(* ids, pipes and crashes and every limit: what the journal, the response  *)
(* and the progress stream of a call say, and that each call's execute()   *)
(* only takes the steps of its contract.                                   *)
(***************************************************************************)
EXTENDS Dispatch, SequenceTheorems, TLAPS

-----------------------------------------------------------------------------
(* The inductive invariant.                                                *)

Responses ==
  [is_error : BOOLEAN, text : {"none", "local", "denied", "cancelled", "timed_out"}]
    \cup [is_error : BOOLEAN, text : {"output"}, exit_code : Codes \cup {None},
          shown : [Pipes -> 0..MAX_OUTPUT_BYTES]]

Entries ==
  {Started} \cup [event : {"tool_invocation"},
                  decision : {"denied", "cancelled", "timed_out", "allowed"},
                  exit_code : Codes \cup {None}]

(* TypeOK, and what the journal and the responses are made of.             *)
Types ==
  /\ TypeOK
  /\ response \in [Calls -> Responses]
  /\ audit \in [Calls -> Seq(Entries)]

(* How far a call has come, as its journal, its contract and its response  *)
(* tell; a crash leaves everything but pc as it was.                       *)
Opening(c) == IF OwesStart(request[c]) THEN << Started >> ELSE << >>

Logged(c, entry) ==
  audit[c] = IF OwesStart(request[c]) THEN << Started, entry >> ELSE << entry >>

NotRun(c) == phase[c] = "idle" /\ process[c] = "none"

Untouched(c) == pc[c] \in {"idle", "handler", "lost"} /\ audit[c] = << >> /\ NotRun(c)

Local(c) ==
  /\ pc[c] \in {"reply", "done", "lost"}
  /\ audit[c] = << >> /\ NotRun(c)
  /\ response[c].text = "local"

Refused(c) ==
  /\ pc[c] \in {"reply", "done", "lost"}
  /\ audit[c] = << Invocation("denied", None) >> /\ NotRun(c)
  /\ response[c].text = "denied"

Begun(c) ==
  /\ pc[c] \in {"execute", "lost"}
  /\ audit[c] = Opening(c) /\ NotRun(c)

Spawned(c) ==
  /\ pc[c] \in {"awaiting", "lost"}
  /\ audit[c] = Opening(c)
  /\ phase[c] = "running" /\ process[c] \in {"alive", "gone"}

Ended(c) ==
  /\ pc[c] \in {"executed", "lost"}
  /\ audit[c] = Opening(c)
  /\ phase[c] = "answered" /\ process[c] \in {"none", "gone"}

Completed(c) ==
  /\ pc[c] \in {"reply", "done", "lost"}
  /\ Logged(c, Invocation(Decision(answer[c]), answer[c].exit_code))
  /\ phase[c] = "answered" /\ process[c] \in {"none", "gone"}
  /\ response[c] = Result(answer[c])

JournalInv(c) ==
  \/ Untouched(c) \/ Local(c) \/ Refused(c)
  \/ request[c].kind = "permitted" /\ (Begun(c) \/ Spawned(c) \/ Ended(c) \/ Completed(c))

(* Only a call that was received and can still be answered can be          *)
(* cancelled, and once; the answer of a cancelled call is not delivered.   *)
WireInv(c) ==
  /\ c \in pool => ~cancelled[c] /\ pc[c] \notin {"idle", "done", "lost"}
  /\ pc[c] = "idle" => ~cancelled[c]
  /\ delivered[c] => pc[c] = "done" /\ ~cancelled[c]

AnswerInv(c) ==
  /\ ~(answer[c].timed_out /\ answer[c].cancelled)
  /\ answer[c].cancelled => cancelled[c]

(* The forwarder ends after the last sender, and until a crash a chunk is  *)
(* in the channel or has been passed on.                                   *)
StreamInv(c) ==
  /\ forwarder[c] # "none" \/ readers[c] => pc[c] \notin {"idle", "handler"}
  /\ forwarder[c] = "ended" \/ readers[c] => pc[c] # "execute"
  /\ forwarder[c] = "ended" => ~readers[c]
  /\ crashes = 0 => chunks[c] = queue[c] + frames[c]
  /\ crashes = 0 /\ forwarder[c] = "ended" => queue[c] = 0

CallInv(c) == JournalInv(c) /\ WireInv(c) /\ AnswerInv(c) /\ StreamInv(c)

IInv == Types /\ \A c \in Calls : CallInv(c)

USE DEF server, handler, wire, exec, stream, vars, At

-----------------------------------------------------------------------------
(* The initial state.                                                      *)

(* The server starts with every variable of its type and every call of the *)
(* right shape.                                                            *)
LEMMA InitTypes == Init => Types
<1> SUFFICES ASSUME Init PROVE Types
  OBVIOUS
<1> USE DispatchAssumption
<1>1. NoAnswer \in Answers
  BY DEF NoAnswer, Answers
<1>2. NoResponse \in Responses
  BY DEF NoResponse, Responses
<1>3. up \in BOOLEAN /\ crashes \in 0..MaxCrashes
  BY DEF Init
<1>4. /\ request \in [Calls -> Requests \cup {NoRequest}]
      /\ pc \in [Calls -> {"idle", "handler", "execute", "awaiting", "executed", "reply", "done", "lost"}]
      /\ pool \subseteq Calls /\ delivered \in [Calls -> BOOLEAN]
  BY DEF Init
<1>5. /\ response \in [Calls -> Responses] /\ \A c \in Calls : response[c].is_error \in BOOLEAN
  BY <1>2 DEF Init, NoResponse
<1>6. audit \in [Calls -> Seq(Entries)] /\ \A c \in Calls : Len(audit[c]) <= 2
  BY DEF Init
<1>7. /\ phase \in [Calls -> {"idle", "running", "answered"}]
      /\ process \in [Calls -> {"none", "alive", "gone"}]
      /\ cancelled \in [Calls -> BOOLEAN]
      /\ output \in [Calls -> [Pipes -> 0..MaxOutput]]
      /\ answer \in [Calls -> Answers]
  BY <1>1 DEF Init
<1>8. /\ sunk \in [Calls -> [Pipes -> 0..MaxOutput]]
      /\ readers \in [Calls -> BOOLEAN]
      /\ chunks \in [Calls -> Nat] /\ queue \in [Calls -> Nat] /\ frames \in [Calls -> Nat]
      /\ forwarder \in [Calls -> {"none", "running", "ended"}]
  BY DEF Init
<1> QED
  BY <1>3, <1>4, <1>5, <1>6, <1>7, <1>8 DEF Types, TypeOK

(* No call has been received: nothing is logged, runs, or is streamed.     *)
LEMMA InitIInv == Init => IInv
<1> SUFFICES ASSUME Init PROVE IInv
  OBVIOUS
<1>1. Types
  BY InitTypes
<1>2. ASSUME NEW c \in Calls
      PROVE  CallInv(c)
  BY DEF Init, CallInv, JournalInv, Untouched, NotRun, WireInv, AnswerInv, NoAnswer, StreamInv
<1> QED
  BY <1>1, <1>2 DEF IInv

-----------------------------------------------------------------------------
(* Types.                                                                  *)

(* What dispatch makes of an answer is a response, and an entry for the    *)
(* journal.                                                                *)
LEMMA ResultType ==
  ASSUME NEW a \in Answers
  PROVE  /\ Result(a) \in Responses
         /\ Invocation(Decision(a), a.exit_code) \in Entries
  BY DEF Answers, Result, Responses, Invocation, Decision, Entries

(* rmcp, the clients, the command and the readers.                         *)
LEMMA WorldTypes ==
  ASSUME Types, NEW c \in Calls,
         Receive(c) \/ CancelRequest(c) \/ Reply(c) \/ CommandExits(c) \/ Killed(c) \/ Emit(c)
         \/ StreamStep(c)
  PROVE  Types'
<1> USE DEF Types, TypeOK
<1>1. CASE Receive(c)
  BY <1>1 DEF Receive
<1>2. CASE CancelRequest(c)
  BY <1>2 DEF CancelRequest
<1>3. CASE Reply(c)
  <2>1. pc' \in [Calls -> {"idle", "handler", "execute", "awaiting", "executed", "reply",
                          "done", "lost"}]
    BY <1>3 DEF Reply
  <2>2. pool' \subseteq Calls /\ delivered' \in [Calls -> BOOLEAN]
    BY <1>3 DEF Reply
  <2>3. UNCHANGED <<server, request, response, audit, exec, stream>>
    BY <1>3 DEF Reply
  <2> QED  BY <2>1, <2>2, <2>3
<1>4. CASE CommandExits(c) \/ Killed(c)
  <2>1. process' = [process EXCEPT ![c] = "gone"]
    BY <1>4 DEF CommandExits, Killed
  <2>2. process' \in [Calls -> {"none", "alive", "gone"}]
    <3>1. process \in [Calls -> {"none", "alive", "gone"}]
      OBVIOUS
    <3> HIDE DEF Types, TypeOK
    <3> QED  BY <2>1, <3>1
  <2>3. UNCHANGED <<server, handler, wire, audit, phase, cancelled, output, answer, stream>>
    BY <1>4 DEF CommandExits, Killed
  <2> QED  BY <2>2, <2>3
<1>5. CASE Emit(c)
  <2>1. output' \in [Calls -> [Pipes -> 0..MaxOutput]]
    <3>1. output \in [Calls -> [Pipes -> 0..MaxOutput]]
      OBVIOUS
    <3>2. PICK p \in Pipes : /\ output[c][p] < MaxOutput
                             /\ output' = [output EXCEPT ![c][p] = @ + 1]
      BY <1>5 DEF Emit
    <3> HIDE DEF Types, TypeOK
    <3>3. output[c] \in [Pipes -> 0..MaxOutput] /\ output[c][p] + 1 \in 0..MaxOutput
      BY <3>1, <3>2, DispatchAssumption
    <3> QED  BY <3>1, <3>2, <3>3
  <2>2. UNCHANGED <<server, handler, wire, audit, phase, process, cancelled, answer, stream>>
    BY <1>5 DEF Emit
  <2> QED  BY <2>1, <2>2
<1>6. CASE Chunk(c)
  <2>1. sunk' \in [Calls -> [Pipes -> 0..MaxOutput]]
    <3>1. sunk \in [Calls -> [Pipes -> 0..MaxOutput]] /\ output \in [Calls -> [Pipes -> 0..MaxOutput]]
      OBVIOUS
    <3>2. PICK p \in Pipes : sunk' = [sunk EXCEPT ![c][p] = output[c][p]]
      BY <1>6 DEF Chunk
    <3> HIDE DEF Types, TypeOK
    <3> QED  BY <3>1, <3>2
  <2>2. chunks' \in [Calls -> Nat] /\ queue' \in [Calls -> Nat]
    BY <1>6 DEF Chunk
  <2>3. UNCHANGED <<server, handler, wire, audit, exec, readers, frames, forwarder>>
    BY <1>6 DEF Chunk
  <2> QED  BY <2>1, <2>2, <2>3
<1>7. CASE ReadersEnd(c)
  BY <1>7 DEF ReadersEnd
<1>8. CASE Forward(c)
  BY <1>8 DEF Forward, Received
<1>9. CASE ForwarderEnds(c)
  BY <1>9 DEF ForwarderEnds
<1> QED
  BY <1>1, <1>2, <1>3, <1>4, <1>5, <1>6, <1>7, <1>8, <1>9 DEF StreamStep

(* The journal grows by one entry.                                         *)
LEMMA LogTypes ==
  ASSUME Types, NEW c \in Calls, NEW entry \in Entries, Log(c, entry), Len(audit[c]) <= 1
  PROVE  /\ audit' \in [Calls -> Seq(Entries)]
         /\ \A d \in Calls : Len(audit'[d]) <= 2
<1>1. audit \in [Calls -> Seq(Entries)] /\ \A d \in Calls : Len(audit[d]) <= 2
  BY DEF Types, TypeOK
<1>2. audit' = [audit EXCEPT ![c] = Append(audit[c], entry)]
  BY DEF Log
<1>3. Append(audit[c], entry) \in Seq(Entries) /\ Len(Append(audit[c], entry)) <= 2
  BY <1>1
<1> QED
  BY <1>1, <1>2, <1>3

(* JournalInv leaves room for the entries that are still to come.          *)
LEMMA Room ==
  ASSUME NEW c \in Calls, JournalInv(c)
  PROVE  /\ pc[c] = "handler" => audit[c] = << >>
         /\ pc[c] = "executed" => audit[c] = Opening(c) /\ request[c].kind = "permitted"
         /\ pc[c] \in {"handler", "executed"} => Len(audit[c]) <= 1
<1>1. /\ pc[c] = "handler" => audit[c] = << >>
      /\ pc[c] = "executed" => audit[c] = Opening(c) /\ request[c].kind = "permitted"
  BY DEF JournalInv, Untouched, Local, Refused, Begun, Spawned, Ended, Completed
<1>2. Len(<< >>) = 0 /\ Len(<< Started >>) = 1
  OBVIOUS
<1>3. Len(Opening(c)) <= 1
  BY <1>2 DEF Opening
<1> QED
  BY <1>1, <1>2, <1>3

(* dispatch().                                                             *)
LEMMA HandlerTypes ==
  ASSUME Types, NEW c \in Calls, JournalInv(c), HandlerStep(c)
  PROVE  Types'
<1>1. CASE HandleLocally(c)
  <2>1. response' \in [Calls -> Responses] /\ \A d \in Calls : response'[d].is_error \in BOOLEAN
    BY <1>1 DEF HandleLocally, Responses, Types, TypeOK
  <2> QED
    BY <1>1, <2>1 DEF HandleLocally, Types, TypeOK
<1>2. CASE Deny(c)
  <2>1. response' \in [Calls -> Responses] /\ \A d \in Calls : response'[d].is_error \in BOOLEAN
    BY <1>2 DEF Deny, Responses, Types, TypeOK
  <2>2. Invocation("denied", None) \in Entries
    BY DEF Invocation, Entries
  <2>3. Log(c, Invocation("denied", None)) /\ pc[c] = "handler"
    BY <1>2 DEF Deny
  <2>4. audit' \in [Calls -> Seq(Entries)] /\ \A d \in Calls : Len(audit'[d]) <= 2
    BY <2>2, <2>3, Room, LogTypes
  <2> QED
    BY <1>2, <2>1, <2>4 DEF Deny, Types, TypeOK
<1>3. CASE Begin(c)
  <2>1. Started \in Entries
    BY DEF Entries
  <2>2. pc[c] = "handler" /\ (Log(c, Started) \/ audit' = audit)
    BY <1>3 DEF Begin
  <2>3. CASE Log(c, Started)
    <3>1. audit' \in [Calls -> Seq(Entries)] /\ \A d \in Calls : Len(audit'[d]) <= 2
      BY <2>1, <2>2, <2>3, Room, LogTypes
    <3> QED
      BY <1>3, <3>1 DEF Begin, Types, TypeOK
  <2>4. CASE audit' = audit
    BY <1>3, <2>4 DEF Begin, Types, TypeOK
  <2> QED
    BY <2>2, <2>3, <2>4
<1>4. CASE Spawn(c)
  BY <1>4 DEF Spawn, Types, TypeOK
<1>5. CASE SpawnFails(c)
  BY <1>5 DEF SpawnFails, Types, TypeOK
<1>6. CASE Executed(c)
  BY <1>6 DEF Executed, Types, TypeOK
<1>7. CASE Complete(c)
  <2>1. answer[c] \in Answers
    BY DEF Types, TypeOK
  <2>2. /\ Result(answer[c]) \in Responses /\ Result(answer[c]).is_error \in BOOLEAN
        /\ Invocation(Decision(answer[c]), answer[c].exit_code) \in Entries
    BY <2>1, ResultType DEF Result
  <2>3. response' \in [Calls -> Responses] /\ \A d \in Calls : response'[d].is_error \in BOOLEAN
    BY <1>7, <2>2 DEF Complete, Types, TypeOK
  <2>4. Log(c, Invocation(Decision(answer[c]), answer[c].exit_code)) /\ pc[c] = "executed"
    BY <1>7 DEF Complete
  <2>5. audit' \in [Calls -> Seq(Entries)] /\ \A d \in Calls : Len(audit'[d]) <= 2
    BY <2>2, <2>4, Room, LogTypes
  <2> QED
    BY <1>7, <2>3, <2>5 DEF Complete, Types, TypeOK
<1>8. CASE Reply(c)
  BY <1>8, WorldTypes
<1> QED
  BY <1>1, <1>2, <1>3, <1>4, <1>5, <1>6, <1>7, <1>8 DEF HandlerStep

(* A crash and the restart after it.                                       *)
LEMMA CrashTypes ==
  ASSUME Types, Crash \/ Restart
  PROVE  Types'
<1>1. CASE Crash
  <2>1. up' \in BOOLEAN /\ pool' \subseteq Calls
    BY <1>1 DEF Crash
  <2>6. crashes' \in 0..MaxCrashes
    BY <1>1, DispatchAssumption DEF Crash, Types, TypeOK
  <2>2. pc' \in [Calls -> {"idle", "handler", "execute", "awaiting", "executed", "reply", "done", "lost"}]
    BY <1>1 DEF Crash, Types, TypeOK
  <2>3. process' \in [Calls -> {"none", "alive", "gone"}]
    BY <1>1 DEF Crash, Types, TypeOK
  <2>4. readers' \in [Calls -> BOOLEAN] /\ queue' \in [Calls -> Nat]
    BY <1>1 DEF Crash
  <2>5. forwarder' \in [Calls -> {"none", "running", "ended"}]
    BY <1>1 DEF Crash, Types, TypeOK
  <2> QED
    BY <1>1, <2>1, <2>2, <2>3, <2>4, <2>5, <2>6 DEF Crash, Types, TypeOK
<1>2. CASE Restart
  BY <1>2 DEF Restart, Types, TypeOK
<1> QED
  BY <1>1, <1>2

(* All the steps together.                                                 *)
LEMMA TypesStep ==
  ASSUME IInv, [Next]_vars
  PROVE  Types'
<1>1. ASSUME NEW c \in Calls, HandlerStep(c) PROVE Types'
  BY <1>1, HandlerTypes DEF IInv, CallInv
<1>2. ASSUME NEW c \in Calls,
             Receive(c) \/ CancelRequest(c) \/ CommandExits(c) \/ Killed(c) \/ Emit(c) \/ StreamStep(c)
      PROVE  Types'
  BY <1>2, WorldTypes DEF IInv
<1>3. CASE Crash \/ Restart
  BY <1>3, CrashTypes DEF IInv
<1>4. CASE UNCHANGED vars
  BY <1>4 DEF IInv, Types, TypeOK
<1> QED
  BY <1>1, <1>2, <1>3, <1>4 DEF Next, Over

-----------------------------------------------------------------------------
(* One call at a time.                                                     *)

CallStep(c) ==
  \/ Receive(c) \/ CancelRequest(c) \/ CommandExits(c) \/ Killed(c) \/ Emit(c)
  \/ HandlerStep(c) \/ StreamStep(c)

(* A step that leaves everything about the call c alone.                   *)
Rest(c) ==
  /\ request'[c] = request[c] /\ pc'[c] = pc[c] /\ response'[c] = response[c]
  /\ (c \in pool' <=> c \in pool) /\ delivered'[c] = delivered[c] /\ audit'[c] = audit[c]
  /\ phase'[c] = phase[c] /\ process'[c] = process[c] /\ cancelled'[c] = cancelled[c]
  /\ output'[c] = output[c] /\ answer'[c] = answer[c]
  /\ sunk'[c] = sunk[c] /\ chunks'[c] = chunks[c] /\ readers'[c] = readers[c]
  /\ queue'[c] = queue[c] /\ frames'[c] = frames[c] /\ forwarder'[c] = forwarder[c]

(* A step of one call leaves the others alone: all they share is the       *)
(* server's life.                                                          *)
LEMMA OthersRest ==
  ASSUME Types, NEW c \in Calls, CallStep(c), NEW d \in Calls, d # c
  PROVE  Rest(d) /\ crashes' = crashes
<1> USE DEF Types, TypeOK, Rest
<1>1. CASE Receive(c)
  BY <1>1 DEF Receive
<1>2. CASE CancelRequest(c)
  BY <1>2 DEF CancelRequest
<1>3. CASE CommandExits(c) \/ Killed(c)
  BY <1>3 DEF CommandExits, Killed
<1>4. CASE Emit(c)
  BY <1>4 DEF Emit
<1>5. CASE HandleLocally(c)
  BY <1>5 DEF HandleLocally
<1>6. CASE Deny(c)
  BY <1>6 DEF Deny, Log
<1>7. CASE Begin(c)
  BY <1>7 DEF Begin, Log
<1>8. CASE Spawn(c)
  BY <1>8 DEF Spawn
<1>9. CASE SpawnFails(c)
  BY <1>9 DEF SpawnFails
<1>10. CASE Executed(c)
  BY <1>10 DEF Executed
<1>11. CASE Complete(c)
  BY <1>11 DEF Complete, Log
<1>12. CASE Reply(c)
  BY <1>12 DEF Reply
<1>13. CASE Chunk(c)
  BY <1>13 DEF Chunk
<1>14. CASE ReadersEnd(c)
  BY <1>14 DEF ReadersEnd
<1>15. CASE Forward(c)
  BY <1>15 DEF Forward
<1>16. CASE ForwarderEnds(c)
  BY <1>16 DEF ForwarderEnds
<1> QED
  BY <1>1, <1>2, <1>3, <1>4, <1>5, <1>6, <1>7, <1>8, <1>9, <1>10, <1>11, <1>12, <1>13, <1>14,
     <1>15, <1>16 DEF CallStep, HandlerStep, StreamStep

(* A call that rests keeps its invariant.                                  *)
LEMMA RestKeepsInv ==
  ASSUME NEW c \in Calls, CallInv(c), Rest(c), crashes' = crashes
  PROVE  CallInv(c)'
<1>1. JournalInv(c)'
  BY DEF CallInv, Rest, JournalInv, Untouched, Local, Refused, Begun, Spawned, Ended, Completed,
         NotRun, Opening, Logged
<1>2. WireInv(c)' /\ AnswerInv(c)' /\ StreamInv(c)'
  BY DEF CallInv, Rest, WireInv, AnswerInv, StreamInv
<1> QED
  BY <1>1, <1>2 DEF CallInv

-----------------------------------------------------------------------------
(* The journal of the call that takes a step.                              *)

(* Where the handler is tells what has been logged and run.                *)
LEMMA Stage ==
  ASSUME NEW c \in Calls, JournalInv(c)
  PROVE  /\ pc[c] \in {"idle", "handler"} => Untouched(c)
         /\ pc[c] = "execute" => request[c].kind = "permitted" /\ Begun(c)
         /\ pc[c] = "awaiting" => request[c].kind = "permitted" /\ Spawned(c)
         /\ pc[c] = "executed" => request[c].kind = "permitted" /\ Ended(c)
         /\ pc[c] \in {"reply", "done"} =>
              Local(c) \/ Refused(c) \/ (request[c].kind = "permitted" /\ Completed(c))
         /\ process[c] = "alive" => request[c].kind = "permitted" /\ Spawned(c)
BY DEF JournalInv, Untouched, Local, Refused, Begun, Spawned, Ended, Completed, NotRun

(* rmcp, the command and the stream do not touch the journal.              *)
LEMMA WorldKeepsJournal ==
  ASSUME Types, NEW c \in Calls, JournalInv(c),
         Receive(c) \/ CancelRequest(c) \/ CommandExits(c) \/ Killed(c) \/ Emit(c) \/ StreamStep(c)
  PROVE  JournalInv(c)'
<1>1. CASE Receive(c)
  BY <1>1, Stage DEF Receive, JournalInv, Untouched, NotRun, Types, TypeOK
<1>2. CASE CommandExits(c) \/ Killed(c)
  <2>1. /\ process'[c] = "gone" /\ request' = request /\ pc' = pc /\ audit' = audit /\ phase' = phase
        /\ request[c].kind = "permitted" /\ Spawned(c)
    BY <1>2, Stage DEF CommandExits, Killed, Types, TypeOK
  <2> QED
    BY <2>1 DEF JournalInv, Spawned, Opening
<1>3. CASE CancelRequest(c) \/ Emit(c) \/ StreamStep(c)
  <2>1. UNCHANGED <<request, pc, response, audit, phase, process, answer>>
    BY <1>3 DEF CancelRequest, Emit, StreamStep, Chunk, ReadersEnd, Forward, ForwarderEnds
  <2> QED
    BY <2>1 DEF JournalInv, Untouched, Local, Refused, Begun, Spawned, Ended, Completed,
                NotRun, Opening, Logged
<1> QED
  BY <1>1, <1>2, <1>3

(* Append after one entry: the sequence of the two.                        *)
LEMMA SecondEntry ==
  ASSUME NEW first, NEW entry
  PROVE  Append(<< first >>, entry) = << first, entry >>
<1> DEFINE S == {first, entry}
           a == Append(<< first >>, entry)
           t == << first, entry >>
<1>1. << first >> \in Seq(S) /\ t \in Seq(S) /\ entry \in S /\ Len(<< first >>) = 1
  OBVIOUS
<1>2. a \in Seq(S) /\ Len(a) = 2 /\ a[1] = first /\ a[2] = entry
  BY <1>1, AppendProperties
<1>3. Len(t) = 2 /\ t[1] = first /\ t[2] = entry
  OBVIOUS
<1>4. \A i \in 1..2 : a[i] = t[i]
  BY <1>2, <1>3
<1>5. Len(a) = Len(t) /\ \A i \in 1..Len(a) : a[i] = t[i]
  BY <1>2, <1>3, <1>4
<1> HIDE DEF S, a, t
<1>6. a = t
  BY <1>1, <1>2, <1>5, SeqEqual, Zenon
<1> QED
  BY <1>6 DEF a, t

(* Log appends, to an empty journal and to one with a started entry.       *)
LEMMA LogAppends ==
  ASSUME Types, NEW c \in Calls, NEW entry, Log(c, entry)
  PROVE  /\ audit[c] = << >> => audit'[c] = << entry >>
         /\ \A first : audit[c] = << first >> => audit'[c] = << first, entry >>
<1>1. audit'[c] = Append(audit[c], entry)
  BY DEF Types, Log
<1>2. Append(<< >>, entry) = << entry >>
  OBVIOUS
<1> QED
  BY <1>1, <1>2, SecondEntry

(* The steps of dispatch() take a call from one stage of its journal to    *)
(* the next.                                                               *)
LEMMA HandlerKeepsJournal ==
  ASSUME Types, NEW c \in Calls, JournalInv(c), HandlerStep(c)
  PROVE  JournalInv(c)'
<1>0. /\ pc \in [Calls -> {"idle", "handler", "execute", "awaiting", "executed", "reply", "done", "lost"}]
      /\ response \in [Calls -> Responses] /\ audit \in [Calls -> Seq(Entries)]
      /\ phase \in [Calls -> {"idle", "running", "answered"}]
      /\ process \in [Calls -> {"none", "alive", "gone"}]
  BY DEF Types, TypeOK
<1>1. CASE HandleLocally(c)
  <2>1. Local(c)'
    BY <1>0, <1>1, Stage DEF HandleLocally, Untouched, Local, NotRun
  <2> QED
    BY <2>1 DEF JournalInv
<1>2. CASE Deny(c)
  <2>2. Untouched(c) /\ Log(c, Invocation("denied", None))
    BY <1>2, Stage DEF Deny
  <2>3. audit'[c] = << Invocation("denied", None) >>
    BY <2>2, LogAppends DEF Untouched
  <2>1. Refused(c)'
    BY <1>0, <1>2, <2>2, <2>3 DEF Deny, Untouched, Refused, NotRun
  <2> QED
    BY <2>1 DEF JournalInv
<1>3. CASE Begin(c)
  <2>2. Untouched(c) /\ request' = request
    BY <1>3, Stage DEF Begin
  <2>3. audit'[c] = Opening(c)
    BY <1>3, <2>2, LogAppends DEF Begin, Untouched, Opening
  <2>1. Begun(c)' /\ request'[c].kind = "permitted"
    BY <1>0, <1>3, <2>2, <2>3 DEF Begin, Untouched, Begun, Opening, NotRun
  <2> QED
    BY <2>1 DEF JournalInv
<1>4. CASE Spawn(c)
  <2>1. Spawned(c)' /\ request'[c].kind = "permitted"
    BY <1>0, <1>4, Stage DEF Spawn, Begun, Spawned, Opening
  <2> QED
    BY <2>1 DEF JournalInv
<1>5. CASE SpawnFails(c)
  <2>1. Ended(c)' /\ request'[c].kind = "permitted"
    BY <1>0, <1>5, Stage DEF SpawnFails, Begun, Ended, Opening, NotRun
  <2> QED
    BY <2>1 DEF JournalInv
<1>6. CASE Executed(c)
  <2>1. Ended(c)' /\ request'[c].kind = "permitted"
    BY <1>0, <1>6, Stage DEF Executed, Spawned, Ended, Opening
  <2> QED
    BY <2>1 DEF JournalInv
<1>7. CASE Complete(c)
  <2>1. Ended(c) /\ request[c].kind = "permitted"
    BY <1>7, Stage DEF Complete
  <2>2. Logged(c, Invocation(Decision(answer[c]), answer[c].exit_code))'
    BY <1>7, <2>1, LogAppends DEF Complete, Ended, Opening, Logged
  <2>3. Completed(c)'
    BY <1>0, <1>7, <2>1, <2>2 DEF Complete, Ended, Completed
  <2> QED
    BY <1>7, <2>1, <2>3 DEF JournalInv, Complete
<1>8. CASE Reply(c)
  <2>1. Local(c) \/ Refused(c) \/ (request[c].kind = "permitted" /\ Completed(c))
    BY <1>8, Stage DEF Reply
  <2> QED
    BY <1>0, <1>8, <2>1 DEF Reply, JournalInv, Local, Refused, Completed, Logged, NotRun
<1> QED
  BY <1>1, <1>2, <1>3, <1>4, <1>5, <1>6, <1>7, <1>8 DEF HandlerStep

-----------------------------------------------------------------------------
(* The rest of the invariant for the call that takes a step.               *)

(* Only a call in flight can be cancelled, only a finished one is          *)
(* delivered, and no answer is both timed out and cancelled.               *)
LEMMA StepKeepsWire ==
  ASSUME Types, NEW c \in Calls, JournalInv(c), WireInv(c), AnswerInv(c), CallStep(c)
  PROVE  WireInv(c)' /\ AnswerInv(c)'
<1> USE DEF WireInv, AnswerInv, Types, TypeOK
<1>1. CASE Receive(c)
  BY <1>1 DEF Receive
<1>2. CASE CancelRequest(c)
  BY <1>2 DEF CancelRequest
<1>3. CASE CommandExits(c) \/ Killed(c) \/ Emit(c) \/ StreamStep(c)
  <2>1. UNCHANGED <<pc, pool, delivered, cancelled, answer>>
    BY <1>3 DEF CommandExits, Killed, Emit, StreamStep, Chunk, ReadersEnd, Forward, ForwarderEnds
  <2> QED
    BY <2>1
<1>4. CASE HandleLocally(c) \/ Deny(c) \/ Begin(c) \/ Spawn(c) \/ SpawnFails(c) \/ Complete(c)
  <2>1. UNCHANGED <<pool, delivered, cancelled, answer>> /\ pc'[c] \notin {"idle", "done", "lost"}
        /\ pc[c] \notin {"idle", "done"}
    BY <1>4 DEF HandleLocally, Deny, Begin, Spawn, SpawnFails, Complete
  <2> QED
    BY <2>1
<1>5. CASE Executed(c)
  <2>1. PICK a \in Answers : Execute(c)!Honest(a) /\ answer' = [answer EXCEPT ![c] = a]
    BY <1>5 DEF Executed
  <2>2. /\ UNCHANGED <<pool, delivered, cancelled>>
        /\ pc[c] = "awaiting" /\ pc'[c] = "executed"
    BY <1>5 DEF Executed
  <2>3. answer'[c] = a /\ ~(a.timed_out /\ a.cancelled) /\ (a.cancelled => cancelled[c])
    BY <2>1 DEF Execute!Honest
  <2> QED
    BY <2>2, <2>3
<1>6. CASE Reply(c)
  BY <1>6 DEF Reply
<1> QED
  BY <1>1, <1>2, <1>3, <1>4, <1>5, <1>6 DEF CallStep, HandlerStep

(* A chunk that was sent is in the channel or has been passed on.          *)
LEMMA StepKeepsStream ==
  ASSUME Types, NEW c \in Calls, StreamInv(c), CallStep(c)
  PROVE  StreamInv(c)'
<1> USE DEF StreamInv, Types, TypeOK
<1>1. CASE Chunk(c)
  BY <1>1 DEF Chunk
<1>2. CASE ReadersEnd(c)
  BY <1>2 DEF ReadersEnd
<1>3. CASE Forward(c)
  BY <1>3 DEF Forward, Received
<1>4. CASE ForwarderEnds(c)
  BY <1>4 DEF ForwarderEnds, SendersDropped, Drained
<1>5. CASE Begin(c)
  BY <1>5 DEF Begin
<1>6. CASE Spawn(c)
  BY <1>6 DEF Spawn
<1>7. CASE Receive(c)
  BY <1>7 DEF Receive
<1>8. CASE CancelRequest(c) \/ CommandExits(c) \/ Killed(c) \/ Emit(c)
  BY <1>8 DEF CancelRequest, CommandExits, Killed, Emit
<1>9. CASE HandleLocally(c) \/ Deny(c) \/ SpawnFails(c) \/ Executed(c) \/ Complete(c) \/ Reply(c)
  <2>1. UNCHANGED <<crashes, stream>> /\ pc'[c] \notin {"idle", "handler", "execute"}
    BY <1>9 DEF HandleLocally, Deny, SpawnFails, Executed, Complete, Reply
  <2> QED
    BY <2>1
<1> QED
  BY <1>1, <1>2, <1>3, <1>4, <1>5, <1>6, <1>7, <1>8, <1>9 DEF CallStep, HandlerStep, StreamStep

(* A crash: every call loses its handler, its readers and its forwarder.   *)
LEMMA CrashKeepsInv ==
  ASSUME Types, NEW c \in Calls, CallInv(c), Crash
  PROVE  CallInv(c)'
<1>0. /\ pc'[c] = IF InFlight(c) THEN "lost" ELSE pc[c]
      /\ process'[c] = IF process[c] = "alive" THEN "gone" ELSE process[c]
      /\ readers'[c] = FALSE /\ queue'[c] = 0 /\ pool' = {} /\ crashes' # 0
      /\ forwarder'[c] = IF forwarder[c] = "running" THEN "ended" ELSE forwarder[c]
      /\ UNCHANGED <<request, response, delivered, audit, phase, cancelled, answer, chunks, frames>>
  BY DEF Crash, Types, TypeOK
<1>1. JournalInv(c)'
  <2>1. CASE Untouched(c)
    BY <1>0, <2>1 DEF InFlight, JournalInv, Untouched, NotRun
  <2>2. CASE Local(c)
    BY <1>0, <2>2 DEF InFlight, JournalInv, Local, NotRun
  <2>3. CASE Refused(c)
    BY <1>0, <2>3 DEF InFlight, JournalInv, Refused, NotRun
  <2>4. CASE request[c].kind = "permitted" /\ Begun(c)
    BY <1>0, <2>4 DEF InFlight, JournalInv, Begun, Opening, NotRun
  <2>5. CASE request[c].kind = "permitted" /\ Spawned(c)
    BY <1>0, <2>5 DEF InFlight, JournalInv, Spawned, Opening
  <2>6. CASE request[c].kind = "permitted" /\ Ended(c)
    BY <1>0, <2>6 DEF InFlight, JournalInv, Ended, Opening
  <2>7. CASE request[c].kind = "permitted" /\ Completed(c)
    BY <1>0, <2>7 DEF InFlight, JournalInv, Completed, Logged
  <2> QED
    BY <2>1, <2>2, <2>3, <2>4, <2>5, <2>6, <2>7 DEF CallInv, JournalInv
<1>2. WireInv(c)' /\ AnswerInv(c)' /\ StreamInv(c)'
  BY <1>0 DEF CallInv, WireInv, AnswerInv, StreamInv, InFlight, Types, TypeOK
<1> QED
  BY <1>1, <1>2 DEF CallInv

(* Every step keeps the invariant of every call.                           *)
LEMMA IInvStep == IInv /\ [Next]_vars => IInv'
<1> SUFFICES ASSUME IInv, [Next]_vars PROVE IInv'
  OBVIOUS
<1>0. Types /\ \A c \in Calls : CallInv(c)
  BY DEF IInv
<1>1. Types'
  BY TypesStep
<1>2. ASSUME NEW c \in Calls PROVE CallInv(c)'
  <2>1. CASE CallStep(c)
    <3>1. JournalInv(c)'
      BY <1>0, <2>1, WorldKeepsJournal, HandlerKeepsJournal DEF CallStep, CallInv
    <3> QED
      BY <1>0, <2>1, <3>1, StepKeepsWire, StepKeepsStream DEF CallInv
  <2>2. ASSUME NEW d \in Calls, CallStep(d), c # d PROVE CallInv(c)'
    BY <1>0, <2>2, OthersRest, RestKeepsInv
  <2>3. CASE Crash
    BY <1>0, <2>3, CrashKeepsInv
  <2>4. CASE Restart \/ UNCHANGED vars
    <3>1. Rest(c) /\ crashes' = crashes
      BY <2>4 DEF Restart, Rest
    <3> QED
      BY <1>0, <3>1, RestKeepsInv
  <2> QED
    BY <2>1, <2>2, <2>3, <2>4 DEF Next, Over, CallStep
<1> QED
  BY <1>1, <1>2 DEF IInv

(* The invariant holds in every reachable state.                           *)
THEOREM Inductive == Spec => []IInv
<1>1. Init => IInv
  BY InitIInv
<1>2. IInv /\ [Next]_vars => IInv'
  BY IInvStep
<1> QED
  BY <1>1, <1>2, PTL DEF Spec

-----------------------------------------------------------------------------
(* What follows from it.                                                   *)

(* The variables of the dispatcher keep their types.                       *)
THEOREM TypeCorrect == Spec => []TypeOK
BY Inductive, PTL DEF IInv, Types

(* The fields of an entry, and its place in a journal of one or two.       *)
LEMMA InvocationFields ==
  ASSUME NEW d, NEW x, NEW e, e = Invocation(d, x)
  PROVE  e.event = "tool_invocation" /\ e.decision = d /\ e.exit_code = x
BY DEF Invocation

(* A journal of one entry.                                                 *)
LEMMA OneEntry ==
  ASSUME NEW e
  PROVE  DOMAIN << e >> = {1} /\ Len(<< e >>) = 1 /\ << e >>[1] = e /\ << e >> # << >>
<1>1. Len(<< e >>) = 1 /\ << e >>[1] = e /\ << e >> # << >>
  OBVIOUS
<1>2. DOMAIN << e >> = 1..1
  OBVIOUS
<1> QED
  BY <1>1, <1>2

(* A journal of two entries.                                               *)
LEMMA TwoEntries ==
  ASSUME NEW d, NEW e
  PROVE  /\ DOMAIN << d, e >> = {1, 2} /\ Len(<< d, e >>) = 2
         /\ << d, e >>[1] = d /\ << d, e >>[2] = e /\ << d, e >> # << >>
<1>1. Len(<< d, e >>) = 2 /\ << d, e >>[1] = d /\ << d, e >>[2] = e /\ << d, e >> # << >>
  OBVIOUS
<1>2. DOMAIN << d, e >> = 1..2
  OBVIOUS
<1> QED
  BY <1>1, <1>2

(* What a completed or refused call has in the journal.                    *)
LEMMA LoggedEntry ==
  ASSUME NEW c \in Calls, NEW e, e.event = "tool_invocation",
         audit[c] = << e >> \/ audit[c] = << Started, e >>
  PROVE  /\ audit[c] # << >> /\ LastEntry(c) = e
         /\ \A i \in Completions(c) : i = Len(audit[c]) /\ audit[c][i] = e
<1>1. CASE audit[c] = << e >>
  BY <1>1, OneEntry DEF LastEntry, Completions
<1>2. CASE audit[c] = << Started, e >>
  <2>1. DOMAIN audit[c] = {1, 2} /\ Len(audit[c]) = 2 /\ audit[c][1] = Started /\ audit[c][2] = e
        /\ audit[c] # << >>
    BY <1>2, TwoEntries
  <2>2. Started.event # "tool_invocation"
    BY DEF Started
  <2> QED
    BY <2>1, <2>2 DEF LastEntry, Completions
<1> QED
  BY <1>1, <1>2

(* The completion entry is the last one of its call.                       *)
LEMMA CompletionIsLast ==
  ASSUME NEW c \in Calls, JournalInv(c), NEW i \in Completions(c)
  PROVE  /\ i = Len(audit[c])
         /\ \/ Refused(c) /\ audit[c][i] = Invocation("denied", None)
            \/ /\ Completed(c)
               /\ audit[c][i] = Invocation(Decision(answer[c]), answer[c].exit_code)
<1>1. Started.event # "tool_invocation"
  BY DEF Started
<1>2. audit[c] # << >> /\ audit[c] # << Started >>
  <2>1. DOMAIN << >> = {}
    OBVIOUS
  <2> QED
    BY <1>1, <2>1, OneEntry DEF Completions
<1>3. Refused(c) \/ Completed(c)
  BY <1>2 DEF JournalInv, Untouched, Local, Begun, Spawned, Ended, Opening
<1>4. CASE Refused(c)
  <2> DEFINE e == Invocation("denied", None)
  <2>1. audit[c] = << e >> /\ e.event = "tool_invocation"
    BY <1>4, InvocationFields DEF Refused
  <2> HIDE DEF e
  <2>2. i = Len(audit[c]) /\ audit[c][i] = e
    BY <2>1, LoggedEntry
  <2> QED
    BY <1>4, <2>2 DEF e
<1>5. CASE Completed(c)
  <2> DEFINE e == Invocation(Decision(answer[c]), answer[c].exit_code)
  <2>1. e.event = "tool_invocation"
    BY InvocationFields
  <2>2. audit[c] = << e >> \/ audit[c] = << Started, e >>
    BY <1>5 DEF Completed, Logged
  <2> HIDE DEF e
  <2>3. i = Len(audit[c]) /\ audit[c][i] = e
    BY <2>1, <2>2, LoggedEntry
  <2> QED
    BY <1>5, <2>3 DEF e
<1> QED
  BY <1>3, <1>4, <1>5

(* A call has at most one completion entry and nothing after it: a started *)
(* entry only comes before it, whatever crashes in between.                *)
THEOREM AuditIsWellFormed == Spec => []AuditWellFormed
<1>1. IInv => AuditWellFormed
  BY CompletionIsLast DEF IInv, CallInv, AuditWellFormed
<1> QED
  BY <1>1, Inductive, PTL

(* No client holds the result of a dispatched call for which the journal   *)
(* has no completion entry, or one that says something else.               *)
THEOREM ResponsesMatch == Spec => []ResponseMatchesAudit
<1>1. ASSUME IInv, NEW c \in Calls, delivered[c], response[c].text # "local"
      PROVE  /\ audit[c] # << >>
             /\ LastEntry(c).event = "tool_invocation"
             /\ LastEntry(c).decision =
                  IF response[c].text = "output" THEN "allowed" ELSE response[c].text
             /\ response[c].text = "output" => LastEntry(c).exit_code = response[c].exit_code
  <2>1. Refused(c) \/ Completed(c)
    BY <1>1, Stage DEF IInv, CallInv, WireInv, Local
  <2>2. CASE Refused(c)
    <3> DEFINE e == Invocation("denied", None)
    <3>1. /\ audit[c] = << e >> /\ response[c].text = "denied"
          /\ e.event = "tool_invocation" /\ e.decision = "denied"
      BY <2>2, InvocationFields DEF Refused
    <3> HIDE DEF e
    <3>2. audit[c] # << >> /\ LastEntry(c) = e
      BY <3>1, LoggedEntry
    <3> QED
      BY <3>1, <3>2
  <2>3. CASE Completed(c)
    <3> DEFINE d == Decision(answer[c])
               x == answer[c].exit_code
               e == Invocation(d, x)
    <3>1. audit[c] = << e >> \/ audit[c] = << Started, e >>
      BY <2>3 DEF Completed, Logged
    <3>2. response[c] = Result(answer[c])
      BY <2>3 DEF Completed
    <3>3. /\ response[c].text = IF d = "allowed" THEN "output" ELSE d
          /\ response[c].text = "output" => response[c].exit_code = x
          /\ d \in {"cancelled", "timed_out", "allowed"}
      BY <3>2 DEF Result, Decision
    <3> HIDE DEF d, x
    <3>4. e.event = "tool_invocation" /\ e.decision = d /\ e.exit_code = x
      BY InvocationFields
    <3> HIDE DEF e
    <3>5. audit[c] # << >> /\ LastEntry(c) = e
      BY <3>1, <3>4, LoggedEntry
    <3> QED
      BY <3>3, <3>4, <3>5
  <2> QED
    BY <2>1, <2>2, <2>3
<1>2. IInv => ResponseMatchesAudit
  BY <1>1 DEF ResponseMatchesAudit
<1> QED
  BY <1>2, Inductive, PTL

(* The process of a call that may outlive the ordinary timeout never       *)
(* starts before the journal holds the call's started entry.               *)
THEOREM LongCallsTraced == Spec => []LongCallsLeaveTrace
<1>1. ASSUME IInv, NEW c \in Calls, process[c] # "none", request[c].progress \/ request[c].override
      PROVE  Started \in {audit[c][i] : i \in DOMAIN audit[c]}
  <2>1. Spawned(c) \/ Ended(c) \/ Completed(c)
    BY <1>1 DEF IInv, CallInv, JournalInv, Untouched, Local, Refused, Begun, NotRun
  <2>2. OwesStart(request[c])
    BY <1>1 DEF OwesStart
  <2>3. audit[c] = << Started >> \/ \E e : audit[c] = << Started, e >>
    BY <2>1, <2>2 DEF Spawned, Ended, Completed, Opening, Logged
  <2> QED
    BY <2>3, OneEntry, TwoEntries
<1>2. IInv => LongCallsLeaveTrace
  BY <1>1 DEF LongCallsLeaveTrace
<1> QED
  BY <1>2, Inductive, PTL

(* The journal's decision is what became of the call: "cancelled" and      *)
(* "timed_out" are never mistaken for each other or for a call that ran    *)
(* to its end without an exit code.                                        *)
THEOREM DecisionCorrect == Spec => []DecisionIsOutcome
<1>1. ASSUME IInv, NEW c \in Calls, NEW i \in Completions(c), phase[c] = "answered"
      PROVE  /\ audit[c][i].decision = "cancelled" <=> answer[c].cancelled
             /\ audit[c][i].decision = "timed_out" <=> answer[c].timed_out
  <2>1. JournalInv(c) /\ AnswerInv(c) /\ answer[c] \in Answers
    BY <1>1 DEF IInv, CallInv, Types, TypeOK
  <2>2. audit[c][i] = Invocation(Decision(answer[c]), answer[c].exit_code)
    BY <1>1, <2>1, CompletionIsLast DEF Refused, NotRun
  <2>3. audit[c][i].decision = Decision(answer[c])
    BY <2>2, InvocationFields
  <2>4. answer[c].cancelled \in BOOLEAN /\ answer[c].timed_out \in BOOLEAN
    BY <2>1 DEF Answers
  <2> QED
    BY <2>1, <2>3, <2>4 DEF AnswerInv, Decision
<1>2. IInv => DecisionIsOutcome
  BY <1>1 DEF DecisionIsOutcome
<1> QED
  BY <1>2, Inductive, PTL

(* A forwarder that ended without a crash has passed on every chunk the    *)
(* readers put into the channel, before and after execute() returned.      *)
THEOREM ChunksPassedOn == Spec => []NoChunkLost
<1>1. IInv => NoChunkLost
  BY DEF IInv, CallInv, StreamInv, NoChunkLost, Types, TypeOK
<1> QED
  BY <1>1, Inductive, PTL

-----------------------------------------------------------------------------
(* Every call sees an execute() that keeps its contract.                   *)

(* A call that rests is one whose execute() stutters.                      *)
LEMMA RestIsStutter ==
  ASSUME NEW c \in Calls, Rest(c)
  PROVE  UNCHANGED Execute(c)!vars
BY DEF Rest, Execute!vars

(* A step of a call is a step of its contract or none of it.               *)
LEMMA StepKeepsContract ==
  ASSUME Types, NEW c \in Calls, CallInv(c), CallStep(c)
  PROVE  [Execute(c)!Next]_(Execute(c)!vars)
<1> USE DEF Types, TypeOK, Execute!vars
<1>1. CASE Spawn(c)
  <2>1. phase[c] = "idle"
    BY <1>1, Stage DEF Spawn, CallInv, Begun, NotRun
  <2>2. Execute(c)!Start
    BY <1>1, <2>1 DEF Spawn, Execute!Start
  <2> QED
    BY <2>2 DEF Execute!Next
<1>2. CASE SpawnFails(c)
  <2>1. phase[c] = "idle"
    BY <1>2, Stage DEF SpawnFails, CallInv, Begun, NotRun
  <2>2. Execute(c)!FailToStart
    BY <1>2, <2>1 DEF SpawnFails, Execute!FailToStart
  <2> QED
    BY <2>2 DEF Execute!Next
<1>3. CASE Emit(c)
  <2>1. phase[c] # "idle"
    BY <1>3, Stage DEF Emit, CallInv, Spawned
  <2>2. PICK p \in Pipes : output' = [output EXCEPT ![c][p] = @ + 1]
    BY <1>3 DEF Emit
  <2>3. output'[c] = [output[c] EXCEPT ![p] = @ + 1]
    BY <2>2
  <2>4. Execute(c)!Emit
    BY <1>3, <2>1, <2>3 DEF Emit, Execute!Emit
  <2> QED
    BY <2>4 DEF Execute!Next
<1>4. CASE CommandExits(c) \/ Killed(c)
  <2>1. Execute(c)!ProcessEnds
    BY <1>4 DEF CommandExits, Killed, Execute!ProcessEnds
  <2> QED
    BY <2>1 DEF Execute!Next
<1>5. CASE CancelRequest(c)
  <2>1. Execute(c)!Cancel
    BY <1>5 DEF CancelRequest, CallInv, WireInv, Execute!Cancel
  <2> QED
    BY <2>1 DEF Execute!Next
<1>6. CASE Executed(c)
  <2>1. phase[c] = "running"
    BY <1>6, Stage DEF Executed, CallInv, Spawned
  <2>2. PICK a \in Answers : Execute(c)!Honest(a) /\ answer' = [answer EXCEPT ![c] = a]
    BY <1>6 DEF Executed
  <2>3. Execute(c)!Answer
    BY <1>6, <2>1, <2>2 DEF Executed, Execute!Answer, Execute!Honest
  <2> QED
    BY <2>3 DEF Execute!Next
<1>7. CASE Receive(c) \/ HandleLocally(c) \/ Deny(c) \/ Begin(c) \/ Complete(c) \/ Reply(c)
           \/ StreamStep(c)
  <2>1. UNCHANGED exec
    BY <1>7 DEF Receive, HandleLocally, Deny, Begin, Complete, Reply, StreamStep, Chunk,
                ReadersEnd, Forward, ForwarderEnds
  <2> QED
    BY <2>1
<1> QED
  BY <1>1, <1>2, <1>3, <1>4, <1>5, <1>6, <1>7 DEF CallStep, HandlerStep

(* A crash ends the process of a call, which its contract allows at any    *)
(* time, and does nothing else to it.                                      *)
LEMMA CrashKeepsContract ==
  ASSUME Types, NEW c \in Calls, Crash
  PROVE  [Execute(c)!Next]_(Execute(c)!vars)
<1>1. /\ process'[c] = IF process[c] = "alive" THEN "gone" ELSE process[c]
      /\ UNCHANGED <<phase, cancelled, output, answer>>
  BY DEF Crash, Types, TypeOK
<1>2. CASE process[c] = "alive"
  <2>1. Execute(c)!ProcessEnds
    BY <1>1, <1>2 DEF Execute!ProcessEnds
  <2> QED
    BY <2>1 DEF Execute!Next
<1>3. CASE process[c] # "alive"
  BY <1>1, <1>3 DEF Execute!vars
<1> QED
  BY <1>2, <1>3

(* Whatever happens, each call's execute() takes a step of its contract or *)
(* none.                                                                   *)
LEMMA ContractStep ==
  ASSUME IInv, [Next]_vars, NEW c \in Calls
  PROVE  [Execute(c)!Next]_(Execute(c)!vars)
<1>0. Types /\ \A d \in Calls : CallInv(d)
  BY DEF IInv
<1>1. CASE CallStep(c)
  BY <1>0, <1>1, StepKeepsContract
<1>2. ASSUME NEW d \in Calls, CallStep(d), c # d PROVE UNCHANGED Execute(c)!vars
  BY <1>0, <1>2, OthersRest, RestIsStutter
<1>3. CASE Crash
  BY <1>0, <1>3, CrashKeepsContract
<1>4. CASE Restart \/ UNCHANGED vars
  BY <1>4 DEF Restart, Execute!vars
<1> QED
  BY <1>1, <1>2, <1>3, <1>4 DEF Next, Over, CallStep

(* Whatever the dispatcher, the other calls and a crash do, a call's       *)
(* process, output, cancellation and answer only take steps of             *)
(* ExecuteContract.                                                        *)
THEOREM ContractKept == Spec => CallsKeepContract
<1>1. IInv /\ [Next]_vars => [\A c \in Calls : [Execute(c)!Next]_(Execute(c)!vars)]_vars
  BY ContractStep
<1> QED
  BY <1>1, Inductive, PTL DEF Spec, CallsKeepContract

(* Each call of a running server is a behaviour of ExecuteContract, the    *)
(* specification Executor.tla implements.                                  *)
THEOREM CallsImplementContract ==
  ASSUME NEW c \in Calls
  PROVE  Spec => Execute(c)!Spec
<1>1. Init => Execute(c)!Init
  BY DEF Init, NoAnswer, Execute!Init, Execute!Empty
<1>2. IInv /\ [Next]_vars => [Execute(c)!Next]_(Execute(c)!vars)
  BY ContractStep
<1> QED
  BY <1>1, <1>2, Inductive, PTL DEF Spec, Execute!Spec

-----------------------------------------------------------------------------
(* Cancellation, and calls that are over.                                  *)

(* The client of a cancelled call gets no answer, as rmcp's dispatcher has *)
(* it (ARCHITECTURE.md, "Cancellation"): no delivered response belongs to  *)
(* a call whose token has fired, says "cancelled", or has a "cancelled"    *)
(* completion entry.  That entry is all that remains of such a call.       *)
CancelledIsNotAnswered ==
  \A c \in Calls : delivered[c] =>
    /\ ~cancelled[c]
    /\ response[c].text # "cancelled"
    /\ \A i \in Completions(c) : audit[c][i].decision # "cancelled"

(* In every reachable state, whatever else is in flight, and across        *)
(* crashes.                                                                *)
THEOREM CancelledNotAnswered == Spec => []CancelledIsNotAnswered
<1>1. ASSUME IInv, NEW c \in Calls, delivered[c]
      PROVE  /\ ~cancelled[c]
             /\ response[c].text # "cancelled"
             /\ \A i \in Completions(c) : audit[c][i].decision # "cancelled"
  <2>1. /\ JournalInv(c) /\ pc[c] = "done"
        /\ ~cancelled[c] /\ ~answer[c].cancelled /\ answer[c] \in Answers
    BY <1>1 DEF IInv, CallInv, WireInv, AnswerInv, Types, TypeOK
  <2>2. Decision(answer[c]) # "cancelled" /\ Result(answer[c]).text # "cancelled"
    BY <2>1 DEF Answers, Decision, Result
  <2>3. response[c].text # "cancelled"
    BY <2>1, <2>2, Stage DEF Local, Refused, Completed
  <2>4. ASSUME NEW i \in Completions(c) PROVE audit[c][i].decision # "cancelled"
    <3>1. \/ audit[c][i] = Invocation("denied", None)
          \/ audit[c][i] = Invocation(Decision(answer[c]), answer[c].exit_code)
      BY <2>1, CompletionIsLast
    <3>2. audit[c][i].decision \in {"denied", Decision(answer[c])}
      BY <3>1, InvocationFields
    <3> QED
      BY <2>2, <3>2
  <2> QED
    BY <2>1, <2>3, <2>4
<1>2. IInv => CancelledIsNotAnswered
  BY <1>1 DEF CancelledIsNotAnswered
<1> QED
  BY <1>2, Inductive, PTL

(* What a call that is over can still not change: its request, journal,    *)
(* response, delivery, token, and the answer it had from execute().        *)
Final(c) ==
  /\ pc'[c] = pc[c] /\ request'[c] = request[c]
  /\ audit'[c] = audit[c] /\ response'[c] = response[c]
  /\ delivered'[c] = delivered[c]
  /\ cancelled'[c] = cancelled[c] /\ answer'[c] = answer[c]

(* The journal is append-only, one entry at a time, and a call that was    *)
(* answered, or lost in a crash, is settled: neither a cancellation that   *)
(* comes late, nor a reader or forwarder that outlives it, nor a crash or  *)
(* the restarted server changes what is known of it.                       *)
Grows(c) == audit'[c] = audit[c] \/ \E entry \in Entries : audit'[c] = Append(audit[c], entry)

SettledForGood ==
  \A c \in Calls : Grows(c) /\ (pc[c] \in {"done", "lost"} => Final(c))

(* A step of a call appends at most one entry, and there is none once the  *)
(* call is over.                                                           *)
LEMMA StepSettles ==
  ASSUME Types, NEW c \in Calls, CallInv(c), CallStep(c)
  PROVE  Grows(c) /\ (pc[c] \in {"done", "lost"} => Final(c))
<1>0. /\ pc[c] \in {"done", "lost"} => c \notin pool
      /\ answer[c] \in Answers /\ audit \in [Calls -> Seq(Entries)]
  BY DEF CallInv, WireInv, Types, TypeOK
<1>1. CASE CancelRequest(c)
  BY <1>0, <1>1 DEF CancelRequest, Grows, Final
<1>2. CASE CommandExits(c) \/ Killed(c) \/ Emit(c) \/ StreamStep(c)
  <2>1. UNCHANGED <<pc, request, audit, response, delivered, cancelled, answer>>
    BY <1>2 DEF CommandExits, Killed, Emit, StreamStep, Chunk, ReadersEnd, Forward, ForwarderEnds
  <2> QED
    BY <2>1 DEF Grows, Final
<1>3. CASE Receive(c) \/ HandleLocally(c) \/ Spawn(c) \/ SpawnFails(c) \/ Executed(c) \/ Reply(c)
  <2>1. audit' = audit /\ pc[c] \notin {"done", "lost"}
    BY <1>3 DEF Receive, HandleLocally, Spawn, SpawnFails, Executed, Reply
  <2> QED
    BY <2>1 DEF Grows
<1>4. ASSUME NEW entry \in Entries, Log(c, entry) PROVE Grows(c)
  <2>1. audit'[c] = Append(audit[c], entry)
    BY <1>0, <1>4 DEF Log
  <2> QED
    BY <2>1 DEF Grows
<1>5. CASE Deny(c)
  <2>1. Invocation("denied", None) \in Entries
    BY DEF Invocation, Entries
  <2> QED
    BY <1>4, <1>5, <2>1 DEF Deny
<1>6. CASE Begin(c)
  <2>1. Started \in Entries
    BY DEF Entries
  <2>2. Log(c, Started) \/ audit' = audit
    BY <1>6 DEF Begin
  <2>3. Grows(c)
    BY <1>4, <2>1, <2>2 DEF Grows
  <2> QED
    BY <1>6, <2>3 DEF Begin
<1>7. CASE Complete(c)
  BY <1>0, <1>4, <1>7, ResultType DEF Complete
<1> QED
  BY <1>1, <1>2, <1>3, <1>5, <1>6, <1>7 DEF CallStep, HandlerStep

(* For every call, at every step.                                          *)
THEOREM CallsSettle == Spec => [][SettledForGood]_vars
<1>1. ASSUME IInv, [Next]_vars, NEW c \in Calls
      PROVE  Grows(c) /\ (pc[c] \in {"done", "lost"} => Final(c))
  <2>0. Types /\ \A d \in Calls : CallInv(d)
    BY <1>1 DEF IInv
  <2>1. CASE CallStep(c)
    BY <2>0, <2>1, StepSettles
  <2>2. ASSUME NEW d \in Calls, CallStep(d), c # d
        PROVE  Grows(c) /\ (pc[c] \in {"done", "lost"} => Final(c))
    BY <2>0, <2>2, OthersRest DEF Rest, Grows, Final
  <2>3. CASE Crash
    <3>1. /\ UNCHANGED <<request, audit, response, delivered, cancelled, answer>>
          /\ pc'[c] = IF InFlight(c) THEN "lost" ELSE pc[c]
      BY <2>3 DEF Crash
    <3> QED
      BY <3>1 DEF Grows, Final, InFlight
  <2>4. CASE Restart \/ UNCHANGED vars
    BY <2>4 DEF Restart, Grows, Final
  <2> QED
    BY <1>1, <2>1, <2>2, <2>3, <2>4 DEF Next, Over, CallStep
<1>2. IInv /\ [Next]_vars => [SettledForGood]_vars
  BY <1>1 DEF SettledForGood
<1> QED
  BY <1>2, Inductive, PTL DEF Spec

-----------------------------------------------------------------------------
(* No call is stuck, and none survives its server.                         *)

(* Whose call it is, and whether the server that works on it lives.        *)
TaskInv(c) ==
  /\ pc[c] # "idle" => request[c] \in Requests
  /\ InFlight(c) \/ readers[c] \/ forwarder[c] = "running" \/ process[c] = "alive" => up
  /\ pc[c] = "lost" => ~readers[c] /\ forwarder[c] # "running" /\ process[c] # "alive"

(* A step of a call is one of a server that is up.                         *)
LEMMA StepKeepsTasks ==
  ASSUME Types, NEW c \in Calls, CallInv(c), TaskInv(c), CallStep(c)
  PROVE  TaskInv(c)' /\ up' = up
<1> USE DEF TaskInv, Types, TypeOK, InFlight
<1>1. CASE Receive(c)
  <2>1. request'[c] \in Requests /\ pc'[c] = "handler" /\ up /\ up' = up
    BY <1>1 DEF Receive
  <2> QED
    BY <2>1
<1>2. CASE CancelRequest(c)
  BY <1>2 DEF CancelRequest
<1>3. CASE CommandExits(c) \/ Killed(c)
  <2>1. UNCHANGED <<up, request, pc, readers, forwarder>> /\ process'[c] = "gone"
    BY <1>3 DEF CommandExits, Killed
  <2> QED
    BY <2>1
<1>4. CASE Emit(c)
  BY <1>4 DEF Emit
<1>5. CASE Chunk(c) \/ Forward(c)
  <2>1. UNCHANGED <<up, request, pc, readers, forwarder, process>>
    BY <1>5 DEF Chunk, Forward
  <2> QED
    BY <2>1
<1>6. CASE ReadersEnd(c)
  BY <1>6 DEF ReadersEnd
<1>7. CASE ForwarderEnds(c)
  BY <1>7 DEF ForwarderEnds
<1>8. CASE HandleLocally(c) \/ Deny(c) \/ SpawnFails(c) \/ Executed(c) \/ Complete(c) \/ Reply(c)
  <2>1. /\ UNCHANGED <<up, request, readers, forwarder, process>>
        /\ pc[c] \in {"handler", "execute", "awaiting", "executed", "reply"}
        /\ pc'[c] \notin {"idle", "lost"}
    BY <1>8 DEF HandleLocally, Deny, SpawnFails, Executed, Complete, Reply
  <2> QED
    BY <2>1
<1>9. CASE Begin(c)
  <2>1. /\ UNCHANGED <<up, request, readers, process>>
        /\ pc[c] = "handler" /\ pc'[c] = "execute"
    BY <1>9 DEF Begin
  <2> QED
    BY <2>1
<1>10. CASE Spawn(c)
  <2>1. /\ UNCHANGED <<up, request, forwarder>>
        /\ pc[c] = "execute" /\ pc'[c] = "awaiting"
    BY <1>10 DEF Spawn
  <2> QED
    BY <2>1
<1> QED
  BY <1>1, <1>2, <1>3, <1>4, <1>5, <1>6, <1>7, <1>8, <1>9, <1>10
     DEF CallStep, HandlerStep, StreamStep

(* For all calls, at every step.                                           *)
THEOREM TasksOfTheServer == Spec => [](\A c \in Calls : TaskInv(c))
<1>1. Init => \A c \in Calls : TaskInv(c)
  BY DEF Init, TaskInv, InFlight
<1>2. ASSUME IInv, \A c \in Calls : TaskInv(c), [Next]_vars, NEW c \in Calls
      PROVE  TaskInv(c)'
  <2>0. Types /\ \A d \in Calls : CallInv(d)
    BY <1>2 DEF IInv
  <2>1. CASE CallStep(c)
    BY <1>2, <2>0, <2>1, StepKeepsTasks
  <2>2. ASSUME NEW d \in Calls, CallStep(d), c # d PROVE TaskInv(c)'
    <3>1. Rest(c) /\ up' = up
      BY <1>2, <2>0, <2>2, OthersRest, StepKeepsTasks
    <3> QED
      BY <1>2, <3>1 DEF Rest, TaskInv, InFlight
  <2>3. CASE Crash
    <3>1. /\ pc'[c] = IF InFlight(c) THEN "lost" ELSE pc[c]
          /\ request' = request /\ readers'[c] = FALSE
          /\ process'[c] # "alive" /\ forwarder'[c] # "running"
      BY <2>3 DEF Crash
    <3> QED
      BY <1>2, <3>1 DEF TaskInv, InFlight
  <2>4. CASE Restart
    BY <1>2, <2>4 DEF Restart, TaskInv, InFlight
  <2>5. CASE UNCHANGED vars
    BY <1>2, <2>5 DEF TaskInv, InFlight
  <2> QED
    BY <1>2, <2>1, <2>2, <2>3, <2>4, <2>5 DEF Next, Over, CallStep
<1>3. IInv /\ (\A c \in Calls : TaskInv(c)) /\ [Next]_vars => (\A c \in Calls : TaskInv(c))'
  BY <1>2
<1> QED
  BY <1>1, <1>3, Inductive, PTL DEF Spec

(* A call that a crash has cut off has nothing left: no command, no task   *)
(* and no request that could still be cancelled, then or after the         *)
(* restart; and a server that is down has no such calls or others.         *)
NothingSurvives ==
  \A c \in Calls : pc[c] = "lost" \/ ~up =>
    /\ ~InFlight(c) /\ process[c] # "alive"
    /\ ~readers[c] /\ forwarder[c] # "running" /\ c \notin pool

(* In every reachable state.                                               *)
THEOREM NoOrphans == Spec => []NothingSurvives
<1>1. IInv /\ (\A c \in Calls : TaskInv(c)) => NothingSurvives
  BY DEF IInv, CallInv, WireInv, TaskInv, NothingSurvives, InFlight, Types, TypeOK
<1> QED
  BY <1>1, Inductive, TasksOfTheServer, PTL

(* One of the steps that take a call on can be taken: the guards of the    *)
(* handler's steps, and that of the kill that ends the wait.               *)
CallCanStep(c) ==
  \/ pc[c] = "handler" /\ request[c].kind \in {"local", "denied", "permitted"}
  \/ pc[c] \in {"execute", "executed", "reply"}
  \/ pc[c] = "awaiting" /\ process[c] = "alive" /\ EffectiveTimeout(request[c]) # "none"
  \/ pc[c] = "awaiting" /\ process[c] = "gone" /\ \E a \in Answers : Execute(c)!Honest(a)

(* No call in flight waits for something that cannot happen, whatever the  *)
(* command, the client and the other calls do: a command that runs has a   *)
(* ceiling, and one that has ended has an answer that keeps the contract.  *)
NoCallIsStuck == \A c \in Calls : InFlight(c) => up /\ CallCanStep(c)

(* In every reachable state; that the step is also taken, EveryCallSettles *)
(* has from fairness.                                                      *)
THEOREM CallsProceed == Spec => []NoCallIsStuck
<1>1. ASSUME IInv, NEW c \in Calls, TaskInv(c), InFlight(c)
      PROVE  up /\ CallCanStep(c)
  <2>1. up /\ request[c] \in Requests
    BY <1>1 DEF TaskInv, InFlight
  <2>2. pc[c] \in {"handler", "execute", "awaiting", "executed", "reply"}
    BY <1>1 DEF InFlight, IInv, Types, TypeOK
  <2>3. request[c].kind \in {"local", "denied", "permitted"}
    BY <2>1 DEF Requests
  <2>4. EffectiveTimeout(request[c]) # "none"
    BY DEF EffectiveTimeout
  <2>5. NoAnswer \in Answers /\ Execute(c)!Honest(NoAnswer)
    <3>1. NoAnswer \in Answers
      BY DispatchAssumption DEF NoAnswer, Answers
    <3>2. output[c] \in [Pipes -> 0..MaxOutput]
      BY <1>1 DEF IInv, Types, TypeOK
    <3>3. \A p \in Pipes : 0 <= output[c][p] /\ 0 <= MAX_OUTPUT_BYTES
      BY <3>2, DispatchAssumption
    <3> QED
      BY <3>1, <3>3 DEF NoAnswer, Execute!Honest
  <2>6. pc[c] = "awaiting" => process[c] \in {"alive", "gone"}
    BY <1>1, Stage DEF IInv, CallInv, Spawned
  <2> QED
    BY <2>1, <2>2, <2>3, <2>4, <2>5, <2>6 DEF CallCanStep
<1>2. IInv /\ (\A c \in Calls : TaskInv(c)) => NoCallIsStuck
  BY <1>1 DEF NoCallIsStuck
<1> QED
  BY <1>2, Inductive, TasksOfTheServer, PTL
=============================================================================
