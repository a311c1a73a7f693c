------------------------------ MODULE Dispatch ------------------------------
(***************************************************************************)
(* The server's handling of tool calls: `RedWrenchServer::dispatch`        *)
(* (src/tools/mod.rs) for several calls in flight at once, with the audit  *)
(* journal (src/audit.rs), the forwarder task that turns output chunks     *)
(* into progress notifications, rmcp's pool of cancellable requests, and   *)
(* crashes of the whole process (packaging/redwrench.service restarts it). *)
(* Each call's `execute` is an instance of ExecuteContract, which          *)
(* Executor.tla is shown to implement.                                     *)
(***************************************************************************)
EXTENDS Integers, Sequences

CONSTANTS
  Calls,             \* the tool calls of a behaviour
  Clients,           \* MCP sessions; each numbers its own requests
  Ids,               \* JSON-RPC request ids, unique within one client
  Pipes, MAX_OUTPUT_BYTES, Codes, None,  \* as in ExecuteContract
  MaxOutput,         \* BOUND: bytes one command writes on one pipe
  MaxCrashes         \* BOUND: crashes of the server

ASSUME DispatchAssumption ==
  /\ MAX_OUTPUT_BYTES \in Nat /\ MaxOutput \in Nat /\ MaxCrashes \in Nat
  /\ None \notin Codes

VARIABLES
  up,         \* the server process is running
  crashes,    \* how often it died
  request,    \* request[c]: what the client asked for
  pc,         \* pc[c]: where the handler of c is
  response,   \* response[c]: the CallToolResult the handler returned
  pool,       \* rmcp: the calls that can still be cancelled or answered
  delivered,  \* delivered[c]: the response reached the client
  audit,      \* audit[c]: the journal entries of c, in order
  phase, process, cancelled, output, answer,  \* per call, see ExecuteContract
  sunk,       \* sunk[c][p]: bytes of p sent to the ChunkSink
  chunks,     \* chunks[c]: in how many chunks
  readers,    \* readers[c]: a read_pipe task holding a ChunkSink is alive
  queue,      \* queue[c]: chunks in the unbounded channel
  frames,     \* frames[c]: notifications/progress sent, dispatch's progress_count
  forwarder   \* forwarder[c]: the task that empties the channel

server  == <<up, crashes>>
handler == <<request, pc, response>>
wire    == <<pool, delivered>>
exec    == <<phase, process, cancelled, output, answer>>
stream  == <<sunk, chunks, readers, queue, frames, forwarder>>
vars    == <<server, handler, wire, audit, exec, stream>>

(* kind is what becomes of the call: "local" calls are answered by the     *)
(* tool's handler without dispatch (list_capabilities, check_command, a    *)
(* systemctl action or journalctl unit that is rejected), the policy       *)
(* denies or permits the others.  override is the handler's                *)
(* max_duration_override (ping without count, journalctl with follow);     *)
(* it and the progress token are only looked at once a call is permitted.  *)
Requests ==
  {r \in [client : Clients, id : Ids, kind : {"local", "denied", "permitted"},
          progress : BOOLEAN, override : BOOLEAN] :
     r.kind = "permitted" \/ (~r.progress /\ ~r.override)}

NoRequest == [kind |-> "none"]

NoResponse == [is_error |-> FALSE, text |-> "none"]

Execute(c) == INSTANCE ExecuteContract WITH
  phase <- phase[c], process <- process[c], cancelled <- cancelled[c],
  output <- output[c], answer <- answer[c]

NoAnswer == [exit_code |-> None, timed_out |-> FALSE, cancelled |-> FALSE,
             shown |-> [p \in Pipes |-> 0], truncated |-> [p \in Pipes |-> FALSE]]

Answers == [exit_code : Codes \cup {None}, timed_out : BOOLEAN, cancelled : BOOLEAN,
            shown : [Pipes -> 0..MAX_OUTPUT_BYTES], truncated : [Pipes -> BOOLEAN]]

(* A journal entry without the fields that repeat the request.             *)
Started == [event |-> "long_running_invocation_started"]
Invocation(decision, exit_code) ==
  [event |-> "tool_invocation", decision |-> decision, exit_code |-> exit_code]

Init ==
  /\ up = TRUE /\ crashes = 0
  /\ request = [c \in Calls |-> NoRequest]
  /\ pc = [c \in Calls |-> "idle"]
  /\ response = [c \in Calls |-> NoResponse]
  /\ pool = {} /\ delivered = [c \in Calls |-> FALSE]
  /\ audit = [c \in Calls |-> <<>>]
  /\ phase = [c \in Calls |-> "idle"]
  /\ process = [c \in Calls |-> "none"]
  /\ cancelled = [c \in Calls |-> FALSE]
  /\ output = [c \in Calls |-> [p \in Pipes |-> 0]]
  /\ answer = [c \in Calls |-> NoAnswer]
  /\ sunk = [c \in Calls |-> [p \in Pipes |-> 0]]
  /\ chunks = [c \in Calls |-> 0]
  /\ readers = [c \in Calls |-> FALSE]
  /\ queue = [c \in Calls |-> 0]
  /\ frames = [c \in Calls |-> 0]
  /\ forwarder = [c \in Calls |-> "none"]

At(c, from, to) ==
  /\ pc[c] = from
  /\ pc' = [pc EXCEPT ![c] = to]

-----------------------------------------------------------------------------
(* rmcp and the clients.                                                   *)

(* A request arrives: rmcp puts its token into the pool and runs the tool. *)
Receive(c) ==
  /\ up
  /\ At(c, "idle", "handler")
  /\ \E r \in Requests :
       /\ \A d \in Calls : request[d] # NoRequest => <<request[d].client, request[d].id>> # <<r.client, r.id>>
       /\ request' = [request EXCEPT ![c] = r]
  /\ pool' = pool \cup {c}
  /\ UNCHANGED <<server, response, delivered, audit, exec, stream>>

(* notifications/cancelled: the id leaves the pool and its token fires.    *)
CancelRequest(c) ==
  /\ c \in pool
  /\ pool' = pool \ {c}
  /\ cancelled' = [cancelled EXCEPT ![c] = TRUE]
  /\ UNCHANGED <<server, handler, delivered, audit, phase, process, output, answer, stream>>

(* The handler's result is sent, or dropped if its id has left the pool.   *)
Reply(c) ==
  /\ At(c, "reply", "done")
  /\ delivered' = [delivered EXCEPT ![c] = c \in pool]
  /\ pool' = pool \ {c}
  /\ UNCHANGED <<server, request, response, audit, exec, stream>>

-----------------------------------------------------------------------------
(* The command.                                                            *)

CommandExits(c) ==
  /\ process[c] = "alive"
  /\ process' = [process EXCEPT ![c] = "gone"]
  /\ UNCHANGED <<server, handler, wire, audit, phase, cancelled, output, answer, stream>>

(* The ceiling dispatch() hands to execute().                              *)
NoCeiling(r) == IF r.override THEN "none" ELSE "timeout"  \* mutant: indefinite is unbounded
EffectiveTimeout(r) == IF r.override \/ r.progress THEN "max_stream_duration" ELSE "timeout"

(* execute() kills the command when its ceiling elapses, or before, when   *)
(* the call is cancelled.                                                  *)
Killed(c) ==
  /\ process[c] = "alive"
  /\ EffectiveTimeout(request[c]) # "none"
  /\ process' = [process EXCEPT ![c] = "gone"]
  /\ UNCHANGED <<server, handler, wire, audit, phase, cancelled, output, answer, stream>>

Emit(c) ==
  /\ readers[c] /\ process[c] = "alive"
  /\ \E p \in Pipes : /\ output[c][p] < MaxOutput
                      /\ output' = [output EXCEPT ![c][p] = @ + 1]
  /\ UNCHANGED <<server, handler, wire, audit, phase, process, cancelled, answer, stream>>

(* A reader takes a chunk and sends it into the channel, if there is one.  *)
Chunk(c) ==
  /\ readers[c]
  /\ request[c].progress
  /\ \E p \in Pipes : /\ sunk[c][p] < output[c][p]
                      /\ sunk' = [sunk EXCEPT ![c][p] = output[c][p]]
  /\ chunks' = [chunks EXCEPT ![c] = @ + 1]
  /\ queue' = [queue EXCEPT ![c] = @ + 1]
  /\ UNCHANGED <<server, handler, wire, audit, exec, readers, frames, forwarder>>

(* End of file, or the abort of the drain took effect: this may come some  *)
(* time after execute() returned.                                          *)
ReadersEnd(c) ==
  /\ readers[c]
  /\ readers' = [readers EXCEPT ![c] = FALSE]
  /\ UNCHANGED <<server, handler, wire, audit, exec, sunk, chunks, queue, frames, forwarder>>

-----------------------------------------------------------------------------
(* dispatch() and the forwarder task it detaches.                          *)

(* The tool answers by itself: a result, or an error for a bad parameter.  *)
HandleLocally(c) ==
  /\ At(c, "handler", "reply")
  /\ request[c].kind = "local"
  /\ \E e \in BOOLEAN : response' = [response EXCEPT ![c] = [is_error |-> e, text |-> "local"]]
  /\ UNCHANGED <<server, request, wire, audit, exec, stream>>

NoSubscriber(c, entry) == UNCHANGED audit  \* mutant: tracing macros are no-ops
BothLayers(c, entry) == audit' = [audit EXCEPT ![c] = @ \o <<entry, entry>>]  \* mutant
OncePerId(c, entry) == audit' = [audit EXCEPT ![c] = IF @ = <<>> THEN <<entry>> ELSE @]  \* mutant
Log(c, entry) == audit' = [audit EXCEPT ![c] = Append(@, entry)]

Deny(c) ==
  /\ At(c, "handler", "reply")
  /\ request[c].kind = "denied"
  /\ Log(c, Invocation("denied", None))
  /\ response' = [response EXCEPT ![c] = [is_error |-> TRUE, text |-> "denied"]]
  /\ UNCHANGED <<server, request, wire, exec, stream>>

(* record_start is owed to a call that may outlive the ordinary timeout.   *)
OnlyOverride(r) == r.override  \* mutant: a bounded call that streams is forgotten
OwesStart(r) == r.override \/ r.progress

Begin(c) ==
  /\ At(c, "handler", "execute")
  /\ request[c].kind = "permitted"
  /\ IF OwesStart(request[c]) THEN Log(c, Started) ELSE UNCHANGED audit
  /\ forwarder' = [forwarder EXCEPT ![c] = IF request[c].progress THEN "running" ELSE "none"]
  /\ UNCHANGED <<server, request, response, wire, exec, sunk, chunks, readers, queue, frames>>

Spawn(c) ==
  /\ At(c, "execute", "awaiting")
  /\ phase' = [phase EXCEPT ![c] = "running"]
  /\ process' = [process EXCEPT ![c] = "alive"]
  /\ readers' = [readers EXCEPT ![c] = TRUE]
  /\ UNCHANGED <<server, request, response, wire, audit, cancelled, output, answer,
                 sunk, chunks, queue, frames, forwarder>>

SpawnFails(c) ==
  /\ At(c, "execute", "executed")
  /\ phase' = [phase EXCEPT ![c] = "answered"]
  /\ UNCHANGED <<server, request, response, wire, audit, process, cancelled, output, answer, stream>>

(* execute() returns any answer its contract allows.                       *)
ExecutedEarly(c) ==  \* mutant: the answer does not wait for the process
  /\ At(c, "awaiting", "executed")
  /\ phase' = [phase EXCEPT ![c] = "answered"]
  /\ UNCHANGED <<server, request, response, wire, audit, process, cancelled, output, answer, stream>>
Executed(c) ==
  /\ At(c, "awaiting", "executed")
  /\ process[c] = "gone"
  /\ phase' = [phase EXCEPT ![c] = "answered"]
  /\ \E a \in Answers : Execute(c)!Honest(a) /\ answer' = [answer EXCEPT ![c] = a]
  /\ UNCHANGED <<server, request, response, wire, audit, process, cancelled, output, stream>>

(* record_invocation's decision field, and the result for the client.      *)
AlwaysAllowed(a) == "allowed"  \* mutant: the fixed decision string
Decision(a) ==
  IF a.cancelled THEN "cancelled" ELSE IF a.timed_out THEN "timed_out" ELSE "allowed"

Result(a) ==
  IF a.cancelled THEN [is_error |-> TRUE, text |-> "cancelled"]
  ELSE IF a.timed_out THEN [is_error |-> TRUE, text |-> "timed_out"]
  ELSE [is_error |-> FALSE, text |-> "output", exit_code |-> a.exit_code, shown |-> a.shown]

Complete(c) ==
  /\ At(c, "executed", "reply")
  /\ Log(c, Invocation(Decision(answer[c]), answer[c].exit_code))
  /\ response' = [response EXCEPT ![c] = Result(answer[c])]
  /\ UNCHANGED <<server, request, wire, exec, stream>>

(* rx.recv(), then progress_count += 1 and notify_progress.                *)
Polled(c) == TRUE  \* mutant: an empty channel counts as a chunk
Received(c) == queue[c] > 0

Forward(c) ==
  /\ forwarder[c] = "running"
  /\ Received(c)
  /\ queue' = [queue EXCEPT ![c] = @ - 1]
  /\ frames' = [frames EXCEPT ![c] = @ + 1]
  /\ UNCHANGED <<server, handler, wire, audit, exec, sunk, chunks, readers, forwarder>>

(* recv() returns None once every sender is dropped and the channel empty. *)
AnswerSent(c) == pc[c] = "done"  \* mutant: the forwarder is stopped with the response
Drained(c) == queue[c] = 0
SenderInServer(c) == ~up  \* mutant: the server keeps a clone of the sender
SendersDropped(c) == pc[c] # "execute" /\ ~readers[c]

ForwarderEnds(c) ==
  /\ forwarder[c] = "running"
  /\ SendersDropped(c)
  /\ Drained(c)
  /\ forwarder' = [forwarder EXCEPT ![c] = "ended"]
  /\ UNCHANGED <<server, handler, wire, audit, exec, sunk, chunks, readers, queue, frames>>

-----------------------------------------------------------------------------
(* The server process dies: handlers, readers, forwarders and rmcp's pool  *)
(* go with it, and systemd kills the processes left in the control group.  *)
(* The journal stays.                                                      *)
InFlight(c) == pc[c] \notin {"idle", "done", "lost"}

Crash ==
  /\ up /\ crashes < MaxCrashes
  /\ up' = FALSE /\ crashes' = crashes + 1
  /\ pc' = [c \in Calls |-> IF InFlight(c) THEN "lost" ELSE pc[c]]
  /\ process' = [c \in Calls |-> IF process[c] = "alive" THEN "gone" ELSE process[c]]
  /\ pool' = {}
  /\ readers' = [c \in Calls |-> FALSE]
  /\ queue' = [c \in Calls |-> 0]
  /\ forwarder' = [c \in Calls |-> IF forwarder[c] = "running" THEN "ended" ELSE forwarder[c]]
  /\ UNCHANGED <<request, response, delivered, audit, phase, cancelled, output, answer, sunk, chunks, frames>>

(* Restart=on-failure; nothing is recovered.                               *)
Restart ==
  /\ ~up
  /\ up' = TRUE
  /\ UNCHANGED <<crashes, handler, wire, audit, exec, stream>>

HandlerStep(c) ==
  \/ HandleLocally(c) \/ Deny(c) \/ Begin(c) \/ Spawn(c) \/ SpawnFails(c)
  \/ Executed(c) \/ Complete(c) \/ Reply(c)

StreamStep(c) == Chunk(c) \/ ReadersEnd(c) \/ Forward(c) \/ ForwarderEnds(c)

(* Every call has been handled and nothing is left to do.                  *)
Over == (\A c \in Calls : pc[c] \in {"done", "lost"}) /\ UNCHANGED vars

Next ==
  \/ Crash \/ Restart \/ Over
  \/ \E c \in Calls : Receive(c) \/ CancelRequest(c) \/ CommandExits(c) \/ Killed(c) \/ Emit(c)
                      \/ HandlerStep(c) \/ StreamStep(c)

Spec == Init /\ [][Next]_vars

(* Handlers and tasks are polled.  A command may hang for ever, but        *)
(* execute() kills it when its ceiling elapses (Executor's Returns) and    *)
(* its readers stop (Executor's ReadersStop).                              *)
Fairness ==
  \A c \in Calls : /\ WF_vars(HandlerStep(c)) /\ WF_vars(Killed(c))
                   /\ WF_vars(ReadersEnd(c)) /\ WF_vars(Forward(c) \/ ForwarderEnds(c))

LiveSpec == Spec /\ Fairness

-----------------------------------------------------------------------------
(* Properties.                                                             *)

Completions(c) == {i \in DOMAIN audit[c] : audit[c][i].event = "tool_invocation"}

LastEntry(c) == audit[c][Len(audit[c])]

(* The variables keep their types.                                         *)
TypeOK ==
  /\ up \in BOOLEAN /\ crashes \in 0..MaxCrashes
  /\ request \in [Calls -> Requests \cup {NoRequest}]
  /\ pc \in [Calls -> {"idle", "handler", "execute", "awaiting", "executed", "reply", "done", "lost"}]
  /\ \A c \in Calls : response[c].is_error \in BOOLEAN
  /\ pool \subseteq Calls /\ delivered \in [Calls -> BOOLEAN]
  /\ \A c \in Calls : Len(audit[c]) <= 2
  /\ phase \in [Calls -> {"idle", "running", "answered"}]
  /\ process \in [Calls -> {"none", "alive", "gone"}]
  /\ cancelled \in [Calls -> BOOLEAN]
  /\ output \in [Calls -> [Pipes -> 0..MaxOutput]]
  /\ answer \in [Calls -> Answers]
  /\ sunk \in [Calls -> [Pipes -> 0..MaxOutput]]
  /\ readers \in [Calls -> BOOLEAN]
  /\ chunks \in [Calls -> Nat] /\ queue \in [Calls -> Nat] /\ frames \in [Calls -> Nat]
  /\ forwarder \in [Calls -> {"none", "running", "ended"}]

(* No client holds the result of a dispatched call the journal does not    *)
(* account for: the completion entry is written before the handler returns *)
(* and says the same as the response, also when the cancellation came too  *)
(* late, or when it came in time but the command ended by itself.          *)
ResponseMatchesAudit ==
  \A c \in Calls : delivered[c] /\ response[c].text # "local" =>
    /\ audit[c] # <<>>
    /\ LastEntry(c).event = "tool_invocation"
    /\ LastEntry(c).decision =
         IF response[c].text = "output" THEN "allowed" ELSE response[c].text
    /\ response[c].text = "output" => LastEntry(c).exit_code = response[c].exit_code

(* At most one completion entry per call, nothing after it, and a started  *)
(* entry only before it, whatever crashes in between.                      *)
AuditWellFormed ==
  \A c \in Calls : \A i \in Completions(c) : i = Len(audit[c])

(* A long-running call whose process was ever started is in the journal,   *)
(* even if the server dies before it can log the completion.               *)
LongCallsLeaveTrace ==
  \A c \in Calls : process[c] # "none" /\ (request[c].progress \/ request[c].override) =>
    Started \in {audit[c][i] : i \in DOMAIN audit[c]}

(* The journal's decision tells a cancelled, a timed-out and an ordinary   *)
(* call apart, although all three may lack an exit code.                   *)
DecisionIsOutcome ==
  \A c \in Calls : \A i \in Completions(c) : phase[c] = "answered" =>
    /\ audit[c][i].decision = "cancelled" <=> answer[c].cancelled
    /\ audit[c][i].decision = "timed_out" <=> answer[c].timed_out

(* The forwarder, although detached, only ends after it has passed on      *)
(* every chunk the readers sent, also those sent after execute() returned; *)
(* only a crash loses one.                                                 *)
NoChunkLost == \A c \in Calls : forwarder[c] = "ended" /\ crashes = 0 => frames[c] = chunks[c]

(* Each call sees an execute() that keeps its contract, crashes included.  *)
CallsKeepContract == [][\A c \in Calls : [Execute(c)!Next]_(Execute(c)!vars)]_vars

(* Every request is answered (or its answer dropped because it was         *)
(* cancelled) unless the server dies.                                      *)
EveryCallSettles == \A c \in Calls : pc[c] = "handler" ~> pc[c] \in {"done", "lost"}

(* A started entry is always followed by a completion entry, unless the    *)
(* server dies.                                                            *)
StartIsCompleted ==
  \A c \in Calls : audit[c] = <<Started>> ~> (Completions(c) # {} \/ pc[c] = "lost")

(* No forwarder task outlives its call for ever.                           *)
ForwardersEnd == \A c \in Calls : forwarder[c] = "running" ~> forwarder[c] = "ended"

-----------------------------------------------------------------------------
(* What the documentation says and the code does not do.                   *)

(* ARCHITECTURE.md: an `is_error: false` result should mean the command    *)
(* actually ran.                                                           *)
SuccessMeansRan == \A c \in Calls : delivered[c] /\ response[c].text = "output" => process[c] # "none"

(* README.md: every invocation is written to the systemd journal, whether  *)
(* it was permitted or refused.                                            *)
EveryInvocationAudited == \A c \in Calls : delivered[c] => audit[c] # <<>>

(* The comment on request_id in dispatch(): it lets an operator pair a     *)
(* "started" line with its completion line when several long-running calls *)
(* are in flight at once.                                                  *)
StartedLinesPair ==
  \A c, d \in Calls :
    c # d /\ audit[c] = <<Started>> /\ audit[d] = <<Started>> => request[c].id # request[d].id

(* The comment on drain_after_kill: a timed-out or cancelled call returns  *)
(* the output it produced before it ended.                                 *)
EndedCallReturnsOutput ==
  \A c \in Calls :
    /\ response[c].text \in {"timed_out", "cancelled"}
    /\ \E p \in Pipes : answer[c].shown[p] > 0
    => "shown" \in DOMAIN response[c]
=============================================================================
