# RedWrench in TLA+

RedWrench is a Rust MCP server that runs diagnostic and administrative commands
on a Fedora host for an AI agent. This directory holds TLA+ models of its core,
the TLC configurations that check them on small instances, and proofs that the
TLA+ proof system checks for every value of the constants. Paths below are
relative to the repository root (`src/` in them is the crate's own directory).

## 1. Inventory

| Component | Source | State it keeps | Operations | Modelled |
|---|---|---|---|---|
| Executor | `src/executor.rs` | child process, two reader tasks and their shared buffers, timers | `execute`, `read_pipe`, `drain_one`, `drain_after_kill`, `truncate_output` | `ExecuteContract`, `Executor` |
| Privilege drop | `src/executor.rs` | the forked child's credentials, environment, directory | the `pre_exec` closure | `Spawn` |
| Dispatch | `src/tools/mod.rs` | per call: ceiling, progress channel, forwarder task | `dispatch`, `developer_tier_run_as` | `Dispatch`, `Policy` |
| Audit journal | `src/audit.rs` | append-only journal, its subscriber | `record_start`, `record_invocation`, `init_logging` | `Dispatch`, `Startup` |
| Policy engine | `src/policy/mod.rs` | ordered rule list, fixed after startup | `evaluate` | `Policy` |
| Tiers | `src/policy/tiers.rs` | constant tables | `safe_rules`, `standard_rules`, `developer_rules`, `rules_for_tier` | `Tiers` |
| Introspection | `src/policy/introspection.rs`, `src/tools/introspection.rs` | none | `effective_rules_for`, `additional_rules`, `lowest_tier_that_would_allow`, `list_capabilities`, `check_command` | `Policy` |
| Tool handlers | `src/tools/{systemctl,journalctl,network,dnf,run_command}.rs` | none | check parameters, build an argv, call `dispatch` | `Tools`, `Dispatch` |
| Configuration | `src/config.rs` | config file | `Config::load` | `ConfigFile` |
| set-tier | `src/main.rs` | config file | `update_tier_in_config` | `ConfigFile` |
| Startup | `src/main.rs` | server fields, fixed once it serves | `run_server` and its gates | `Startup`, `Server` |
| Authentication, bind check | `src/auth.rs` | none | `require_bearer_token`, `validate_bind_address` | `Startup` |
| Transport | axum, rmcp | rmcp's pool of requests that can be cancelled | receive, cancel, reply | in `Dispatch`, external; allowed hosts in `Startup` |
| CLI, packaging | `src/cli.rs`, `packaging/` | none | flags, `Restart=on-failure`, `User=root` | as constants and actions of `Startup`, `Spawn` |

**How they interact.** systemd starts `run_server`, which installs the journal's
subscriber, reads the configuration file once, passes the gates, resolves
`developer_user` and serves with what it has read until it is restarted. The
file is written by the operator's editor and by `redwrench config set-tier`,
processes of their own that know nothing of each other. A request passes `require_bearer_token` and rmcp, which
gives it a `RequestContext` (id, cancellation token, peer) and runs the tool's
handler as a task. The handler either answers by itself (a rejected parameter,
`list_capabilities`, `check_command`) or calls `dispatch`. `dispatch` asks the
policy engine. A denial is logged and answered with the lowest tier that would
have allowed the request. An allowed call gets a ceiling, possibly a "started"
journal entry and a detached forwarder task, and then awaits `execute`.
`execute` spawns the command and two reader tasks, which share a buffer with it
and send chunks into the forwarder's channel; it selects over exit, timeout and
cancellation, kills, drains and returns. `dispatch` logs the completion and
returns the response; rmcp drops it if the request's id has left the pool.

**What is hard.** The three-way select races the readers on other worker
threads. An abort meets a reader in the middle of a poll. A grandchild keeps the
pipes open after the command is gone. Chunks are queued when the response goes
out, and the forwarder is detached. A cancellation arrives as the command exits.
The server may die between the command and its journal entry, and systemd
restarts it. Request ids are unique per client only. Several counters sit at a
limit (read limit, truncation, pipe capacity). Policy is first-match over a
list assembled from four places, so order decides everything. The configuration
file has several writers and no lock, and set-tier may be killed with the file
half written. What the server resolved at its start, an account's uid, may be
out of date when it is used. The three steps of the privilege drop each need what
the last one takes away, in the forked child, where no test looks. Three
hand-maintained lists (`tier_order`, `rules_for_tier`, `ROOT_REQUIRED_TOOLS`)
must agree. `PROJECT.json` lists each hazard at its line.

**What makes each component correct.**

- *Executor*: every call returns; no process survives it unreaped; the buffers
  are bounded; the result is complete and truthfully marked as truncated; the
  command is never blocked by its own pipe.
- *Dispatch and audit*: journal and response agree; a call has at most one
  completion entry, after its started entry; a long call leaves a trace even
  across a crash; no chunk is lost; no task is left over; every call settles.
- *Policy*: the first match decides; custom rules win; raising the tier never
  takes a permission away; every deny is reached; the suggested tier is the
  lowest; `developer` grants no new root.
- *Tools*: free text never becomes an option; a tool works from the tier on that
  its description names; only calls that never end get the longer ceiling.
- *Configuration*: a deny in the file is in force; an undisturbed set-tier changes
  one key; a disturbed one loses others, as the model shows.
- *Startup*: no file, whatever wrote it, takes a risk without its flag; what the
  operator should be told, he is told; once everything is repaired, the server
  serves; only the token opens the door.
- *Privilege drop*: what is to run as `developer_user` has nothing of root left,
  and the uid the account had at the start.

## 2. Modules

| Module | What it is |
|---|---|
| `ExecuteContract` | abstract specification: what one `execute()` promises its caller |
| `Executor` | one `execute()` call in detail; implements `ExecuteContract` |
| `ExecutorProofs` | its theorems |
| `Dispatch` | several calls through `dispatch`, each `execute` an instance of `ExecuteContract` |
| `DispatchProofs` | its theorems |
| `MCDispatch` | symmetry for TLC |
| `Tiers` | the rule tables |
| `TiersProofs` | lemmas about lists of rules and about the tables |
| `Policy` | `evaluate` and the tier search as a state machine over the tables |
| `PolicyProofs` | its theorems |
| `Tools` | the tool handlers in front of `Policy` |
| `ToolsProofs` | its theorems, over those of `PolicyProofs` |
| `MCPolicy` | requests, parameters and custom rules for TLC |
| `ConfigRegister` | abstract specification: what the configuration file is to its users |
| `ConfigFile` | the configuration file, its writers, `Config::load`; implements `ConfigRegister` |
| `Startup` | `run_server` over `ConfigFile`: gates, door, restarts |
| `StartupProofs` | what each step of `ConfigFile` and `Startup` preserves |
| `Spawn` | the child between fork and exec |
| `SpawnProofs` | what the child has and has left to do at each stage |
| `Server` | `Startup` and `Spawn` composed |
| `ServerProofs` | the theorems about the composition |
| `MCServer` | texts, requests and headers for TLC |

### ExecuteContract and Executor

`ExecuteContract` has five variables: the call's phase, its process, the
token, the bytes written, the answer. An answer never comes while the process is
alive or unreaped, is "cancelled" only if the token fired, has an exit code only
if the process ended by itself, and shows only bytes that were written.

`Executor` keeps the code's control: `pc` and `arm` are where `execute` is and
which branch of `select!` won (`WaitArm`, `TimeoutArm`, `CancelArm`, then
`Kill`, `Reap`, the drain, `Return`). `reader[p]` is the state of a `read_pipe`
task: "parked" at its only await, "polling" inside a poll, "read" and "extended"
between the read, the append and the send. `Drop` is the effect of an abort,
which tokio applies only between two polls: this gives the interleavings in
which a reader still appends and streams while the drain takes its buffer. The
child goes from running through "zombie" to "reaped"; a grandchild may hold the
pipes. Quantities are byte counts, because the k-th byte written is the k-th
byte read. Both timers may fire whenever they are awaited, which covers every
real schedule. A failed spawn is one outcome whatever its cause; `Spawn` has the
causes.

### Dispatch

Per call: `pc` of the handler, the response, the journal entries `audit[c]`, the
five variables of its `execute` contract, and the stream (`chunks` sent by the
readers, `queue` in the channel, `frames` passed on, the `forwarder` task).
`kind` abstracts what the handler and the policy make of the request: "local"
never reaches `dispatch`, "denied" and "permitted" do. `override` is the
handler's duration override, `progress` the progress token; both are looked at
only in a permitted call. A crash takes handlers, tasks, channels and the pool
with it, and the commands too, because systemd kills the control group; the
journal stays. rmcp is external: its pool is modelled from how `dispatch` and
ARCHITECTURE.md use it. The journal entry's fields that repeat the request are
left out, and so is what a client that vanishes without cancelling does, since
`dispatch` does not see it.

`Executed` returns any answer that the contract allows (`Honest`), so what holds
of `Dispatch` does not depend on more of the executor than is proved of it. The
`Killed` action only needs a ceiling; that the real executor kills and returns
is what `Executor`'s `Returns` shows.

### Tiers and Policy

`Tiers` lists every rule in its order, with all commands, verbs and tools. A
regular expression is represented by the kinds of argument it looks for and
where (`Has`, `Starts`, `Reads`); which spellings it recognises is a question for
the unit tests in `tiers.rs` (42 of them). Of the flags that one
deny looks for, one or two stand for all. `Policy` takes one step per rule
looked at (`Continue`, `AllowMatches`, `DenyMatches`, `NoRuleMatches`), first for
the active tier, then for the higher ones until one allows the request. The
configuration is read once, so one request at a time is enough.
`additional_rules` compares rules by description, as the code does, which is why
`UnlocksAreListed` excludes custom rules with the wording of the very rule that
allows the request under the suggested tier; a wording borrowed from any other
rule does no harm.

### Tools

Each handler is a disjunct: it takes parameters from small sets, rejects what the
code rejects, and otherwise sets the request and asks, as `dispatch` does. An argv
is a sequence of the tokens that `Tiers` knows, so the policy decides about what
the handler built and not about what it should have built. `call` remembers which
tool it was and whether it passed a duration override. `check_command` evaluates
the same request with the same two functions and is not an action of its own.

### ConfigFile, Startup, Spawn and Server

The text of the file is the TOML table it parses to, a function on its keys, or
`Cut`, which is no TOML. `set-tier` is three steps, `Read`, `Truncate`, `Write`
(`std::fs::write` opens with `O_TRUNC`), between which anything may happen;
`Killed` ends it anywhere, `WriteFails` leaves any prefix: TOML is written key by
key and rule by rule, so a prefix may well load. An operator's save is one step,
as for an editor that renames a new file into place; an editor that writes in
place could only lose more. Two history variables say what the file should be:
`intended` and, if somebody was in between, `disturbed`. `ConfigRegister` says the
same without the steps: a register of one text. A save puts a text there, a set-tier
hides it and then replaces its tier at one moment (`Commit`), and only an overlap, a
kill or a failure makes it `Break`. The mapping is `value <- intended`,
`visible <- file`, `busy <- AnyActive`, `broken <- disturbed`.

`Startup` has one action per gate of `run_server`, in its order, each with the
disjunct that refuses. `config` is what was read, `identity` what was resolved.
`sink` is the subscriber. A reply keeps the header and host it answers, for the
properties. `Stop` is a crash or a restart by the operator; `Start`, as `Systemd`,
begins again from the file. Addresses, tokens and hosts are strings of a small
set; the mapped IPv6 address is the case that matters. `may_sudo` follows the
code, which looks for a phrase on standard output: `sudo -l -U` says nothing there
about a user it does not know, so that one is warned about too.

`Spawn` is the child as a list of things to do and what it has of root: the
directory is changed by the standard library before the closure runs, then come
the closure's three calls, which the kernel permits only to uid 0, then exec.

`Server` puts them together: `Dispatch` evaluates the request with the rules read
at the start and forks, with the identity resolved at the start. One call at a
time: calls share nothing here but what is read once, and `Dispatch.tla` has
several.

## 3. Runs

| Run | Bounds | Properties |
|---|---|---|
| `executor_safety` | two pipes, limit 1 byte, chunks of 2, pipe of 2, 3 bytes per pipe | `TypeOK`, `ChildReaped`, `BoundedMemory`, `NoBackpressureDeadlock`, `CompleteUnlessCut`, `ResultCoversStream`, `KeepsContract` |
| `executor_live` | one pipe, limit 2, 4 bytes | `Returns`, `ReadersStop` |
| `dispatch_safety` | two calls, two clients, one id, one crash | `TypeOK`, `ResponseMatchesAudit`, `AuditWellFormed`, `LongCallsLeaveTrace`, `DecisionIsOutcome`, `NoChunkLost` |
| `dispatch_live` | one call, two bytes, one crash | `CallsKeepContract`, `EveryCallSettles`, `StartIsCompleted`, `ForwardersEnd` |
| `policy_safety` | all tiers, every ordered list of up to two of five custom rules, requests of up to two arguments by `run_command`, every handler with ordinary and option-like texts | `TypeOK`, `DecisionIsFirstMatch`, `CustomRulesWin`, `SuggestionIsLowest`, `TiersAreOrdered`, `DeniesAreReached`, `DeveloperAddsNoRoot`, `UnlocksAreListed`, `OptionsStayData`, `AdvertisedTiers`, `EndlessCallsOverride` |
| `server_safety` | six first texts, one save, one set-tier, one change of the account, one stop, three combinations of flags, three requests, three headers | `TypeOK`, `FileIsRegister`, `RisksAcknowledged`, `DeniesInForce`, `ReinstatementIsWarned`, `TokenOpensTheDoor`, `JournalIsTheAuditTrail`, `NoSelfInflictedFailure`, `DroppedToTheAccount`, `Recovers` |

**Why the bounds are enough.** For the executor, three bytes against a read
limit of two give outputs that are empty, exactly what is shown, one more (the
limit) and beyond; a chunk can hold more than one byte, and a pipe can be full.
The two drains share no state, so one pipe is enough for progress. For dispatch,
two calls give every pair of kinds, clients and moments of a crash; calls
interact only through rmcp's ids and the server's life, both pairwise, so a
third call adds no new kind of interaction. For the policy, the tokens of each command are those its
rules name plus one that none does, and two arguments put an allowed verb and a
refused flag in either order; each command is decided by its own rules, the
wildcard of `unrestricted` and the custom rules. For the server, the six texts
between them open and close each gate, also after set-tier has changed their tier
to any other; one save, one set-tier, one change of the account and one stop at
any moment give each pair of these in each order. A second set-tier (as in
`set_tier_keys`) only disturbs the first, which the save does, too. The three
requests are one that a tier's deny refuses, one that a custom deny refuses and
one that is dropped to the account. Of the flags, the one without the other is
enough on one side, since no gate looks at both.

The executor and dispatch modules have a step that stutters in final states
(`Over`), so that TLC's deadlock check, which every run keeps, finds calls that
are stuck.

**Fairness** is on what the code schedules. The runtime polls tasks that can
proceed: `execute`, readers, drains, handlers, forwarders. Timers elapse; the
kernel delivers SIGKILL. Nothing is assumed of the command, its descendants or
the client: they may hang for ever. In `Dispatch`, weak fairness of `Killed`
and `ReadersEnd` stands for `Executor`'s liveness results, and there is none for
`Restart`, `Receive`, `CancelRequest` or `CommandExits`. In `Server`, the steps of
`run_server` are fair, since the runtime goes on with it, and so is systemd's
restart: `Restart=on-failure` with `RestartSec=5s` stays below systemd's default
start limit (five starts in ten seconds), so it never gives up. Binding the address
is strongly fair: an address that is not assigned yet, or still in use, can be
bound some day. The operator, set-tier and the accounts are not fair; `Recovers`
assumes that they end in a state from which the server can start.

### Where the documentation and the code disagree

Each of these runs checks one statement of the documentation or a comment, and
TLC refutes it.

| Run | Statement | What happens |
|---|---|---|
| `spawn_error_is_success` | ARCHITECTURE.md:30: `is_error: false` means the command ran | a failed spawn is answered as success and logged "allowed" |
| `unaudited_calls` | README.md:35: every invocation is journalled | calls that the handler answers itself are not |
| `ambiguous_start` | `src/tools/mod.rs:118`: the id pairs started and completion lines | ids are unique per client, entries do not name the client |
| `output_dropped` | `src/executor.rs:153`: a timed-out or cancelled call returns its output | `dispatch` replaces it by a fixed text |
| `set_tier_keys` | `src/main.rs:51`: set-tier preserves unrelated keys | it loses them if it is killed, fails or is overlapped between reading and having written |
| `privilege_drop` | README.md:189: only the nine developer tools are dropped | `ping`, `vmstat`, `sar`, `top` are dropped too (changed on purpose, see `ROOT_REQUIRED_TOOLS`; the documents were not) |

## 4. Proofs

Every safety property that a passing run checks is a theorem but one
(`NoBackpressureDeadlock`, which has a counterpart without ENABLED), and so are the
refinements. The theorems hold for
all values of the constants under the named assumptions:

| Assumption | What it says | Why the code justifies it |
|---|---|---|
| `ExecutorAssumption`, `DispatchAssumption` | limits and bounds are naturals, chunk and pipe sizes positive; no exit code is no code | they are unsigned constants of the code, the last two not zero; `Option<i32>` |
| `PolicyAssumption` | no custom rule has an empty command | `Config::load` refuses one |
| `ToolsAssumption` | what the handlers and `run_command` ask is among the requests; the handlers' own words that are no options begin with no dash | they are literals in the handlers |
| `ConfigFileAssumption` | the custom rules of a text, if it has any, are a list; `MaxEdits` is a natural | TOML writes them as an array of tables |
| `StartupAssumption` | there is a user, none is called "none"; uids are naturals, root's among them; the flags are two booleans; bounds are naturals | `uid_t`, and the two flags of `cli.rs`; "none" stands for a missing `developer_user` |

In each module the properties are not inductive as they stand, and the work is in
the invariant; each was checked by TLC on the module's run before it was proved.

**ExecutorProofs.** `TypeCorrect` first, then `Inductive`: what a result shows
depends on where each byte was when the drain took the buffer. `IInv` therefore
keeps account of every byte (in the pipe, in the reader's chunk, in the buffer,
taken), states what `drain[p]` says about the reader and its abort, and how `arm`,
`child` and `pc` go together. From it follow `ChildIsReaped`, `MemoryIsBounded`,
`OutputIsComplete`, `StreamIsCovered` (an action property) and `Implements`: the
detailed module implements `ExecuteContract`, by a step simulation in which most
steps stutter. Three theorems come as near to `Returns` and
`NoBackpressureDeadlock` as proofs without fairness and ENABLED do.
`BlockedWriterIsServed`: at a full pipe the guard of a step of the reader holds,
written out as `ReaderCanStep`; that the guard is enough is the lemma `ReaderMoves`,
which gives the successor. `CallNeverStuck`: until the return, a step of `execute`,
of a drain, or the death of a killed child has its guard. `OnlyForward` (an action
property): nobody takes the call, the child or a drain back to an earlier stage, and
each of those steps takes one of them on.

**DispatchProofs.** For any number of calls, clients and crashes. `IInv` is the
type invariant and, per call, four parts. `JournalInv` is a list of stages (not
yet touched, answered by the handler, refused, begun, spawned, ended, completed),
each with exactly the journal it goes with; "lost", which a crash makes of a call
in flight, keeps the journal of its stage. `WireInv` is about the pool and the
delivery, `AnswerInv` about an answer that has only one cause, `StreamInv` counts
the chunks in the channel. Steps of one call leave the others at rest
(`OthersRest`), so that each step is examined for its own call only; a crash, which
touches all calls, is a case of its own. Beyond the properties of the runs:
`CancelledNotAnswered` says that no response to a cancelled call is delivered, so that
the journal's "cancelled" entry is what remains of it, as ARCHITECTURE.md:47-53 has it
(it needs that an answer is "cancelled" only if the token fired, and that a call that
is over has left the pool); `CallsSettle` (an action property), that journals grow by
one entry at the end and that nothing touches a call that was answered or lost;
`NoOrphans`, that nothing of a lost call survives the crash; and `CallsProceed`, that
each call in flight has a step to take, by the guards written out in `CallCanStep`,
whose hard case is the wait for a command: it has a ceiling, and once it has ended
the contract leaves an answer to give. `ContractKept` is the action property that
every call's `execute` keeps its contract, and `CallsImplementContract` says it as
a refinement. Together with `Implements`: what `Dispatch` is proved to do, it does
with any executor that keeps the contract, and `Executor` is one.

**TiersProofs and PolicyProofs.** `Inductive` proves the loop invariant `IInv`
(defined in `Policy`): where the scan stands, that no rule before it matches, that
no lower tier from the active one on permits the request, and what the answer is
once it is given. `DecisionCorrect`, `CustomRulesDecide` and `SuggestionCorrect`
follow. `TiersOrdered` and `DeveloperIsNotRoot` also need that each tier's list
extends the one below it, that the wildcard permits whatever no custom rule decides,
and that no developer tool is a root tool; for these no pattern is looked at, so
they do not depend on how `Tiers` abstracts the regular expressions.
`NoDenyIsShadowed` rests on `Guarded`: in a list, an allow before a deny of the
same command is one that reads a unit's status before the lifecycle deny. It is
shown for each part of the tables and carried over concatenation. `SuggestionIsListed`
rests on `NewDescriptions` (no table describes a rule as a table before it does)
and on `AddedPermits` (if a longer list permits what its prefix does not, a rule of
the rest does); the custom rules enter only through `Borrows`. Facts about a first match are found as least elements, because
induction over lists is not available to the provers.

**ToolsProofs.** `HandlersOnlyAsk`: the handlers with the policy behind them
implement `Policy`'s specification, so its theorems hold of them (`LookupsAreRight`).
`ByHandler`, the new part of the invariant, says that a request in flight is the
argv its tool's handler builds. `OptionsAreData` and `OverrideIffEndless` follow
from the shape of the argvs. `ToolsWorkAsAdvertised` compares them with the tables:
`SafeTools` and `StandardTools` name the allow that each argv is written for, and
show that the safe tier has none for those that change something.

**SpawnProofs, StartupProofs and ServerProofs.** The invariant of the server is
that of its parts. `FileInv`: unless somebody was in between, at most one set-tier
is under way, the file is what is intended or, while it is being written, empty,
and the set-tier holds a copy of what is intended. `StartInv`: the gates that lie
behind the current step of `run_server` were passed with the configuration that
is now in force (this is what makes `RisksNeedFlags` inductive: the configuration
does not change between a gate and the serving), the identity is one that was
looked up and is not root's, and a reply is what the door makes of its header.
`SpawnInv`: a child is at one of five stages, each with what it has done and what is
left, so that the uid is the last thing it gives away. `CallInv` in `ServerProofs`
links them: a child runs only while the server serves, for a call in flight that the
rules in force permit, with the identity of the start. What the parts come to
together is in two theorems that no run states: `PermittedRuns` (a child exists only
for a permitted call, and a custom rule that decides it allows it) and
`RootIsAcknowledged` (without its flag, nothing runs as root that the unrestricted
tier or an allow without a pattern let through), which combines the gates of a start,
the first match and the privilege drop. `ImplementsRegister` is the refinement of
`ConfigRegister`: an undisturbed set-tier is the only one (`TheOnlyOne`), so each of its steps is
one of the register's or a stutter (`QuietStep`); every other step is `Break`
(`BrokenStep`), and a save is `Put` or `Break`. `QuietLoads` (an action property)
draws the consequence for the server: what is visible between truncation and writing
does not load, so that an undisturbed start goes on with the intended text or not at
all; `QuietSetTierExact` draws the one for the keys of the file, that only the tier
changes. `StartablePasses` is the safety half of `Recovers`: a start of a startable
file passes every gate. `FileDeniesHold` is about `Config::load` rather than about
steps: loading keeps the order of the rules and what each of them matches.

**Model-checked only.** All liveness (`Returns`, `ReadersStop`,
`EveryCallSettles`, `StartIsCompleted`, `ForwardersEnd`, `Recovers`), which the
prover cannot do under fairness; `NoBackpressureDeadlock`, which uses ENABLED; and
the refutations of section 3, which are counterexamples of an instance.

## 5. Not modelled, and why

- The text of output, notes and messages: no property is about it. Splitting a
  UTF-8 character at a chunk boundary is therefore out of scope.
- The spelling of each flag a regular expression recognises, and an argument
  that contains whitespace: the unit tests of `tiers.rs` cover these.
- Durations: only which ceiling applies is modelled. That
  `max_stream_duration_secs` may be set below `timeout_secs`, so that a progress
  token shortens a call, is visible in the code (nothing compares the two) and
  would be a restatement of it here.
- `check_command` as an action: it calls the two functions whose loops `Policy`
  steps through, on the same rules.
- The contents of the file's comments, which set-tier drops with the formatting:
  a TOML table has none.
- A handler future that is dropped while it awaits: `dispatch` is written for an
  rmcp that signals a cancellation through the token and lets the handler end
  (ARCHITECTURE.md:47-53).
- The MCP resources and `list_tools`: constants.
- The time that the token comparison takes: no property of states.
- A missing configuration file: `ConditionPathExists` keeps systemd from starting
  the server.

## 6. What could come next

1. *Policy in Dispatch*: `kind` in `Dispatch` replaced by a request that an instance
   of `Policy` decides, as a refinement of the present `Dispatch`.
2. *Several calls in Server*: `Server` has one call at a time because calls share only
   what is read once; an instance of `Dispatch` per server would show that too.
3. *The audit entries' fields*: an entry that names its request, with the pairing of
   started and completion lines that `ambiguous_start` refutes for the id alone.
