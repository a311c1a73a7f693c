------------------------------ MODULE Startup ------------------------------
(***************************************************************************)
(* run_server (src/main.rs): one reading of the configuration file, the    *)
(* gates it has to pass, the server that keeps what was read, the requests *)
(* it lets in (src/auth.rs), and systemd, which starts it again with the   *)
(* same arguments whenever it has failed (packaging/redwrench.service).    *)
(***************************************************************************)
EXTENDS ConfigFile

CONSTANTS
  Users,       \* account names
  Uids,        \* the uids an account may have
  Sudoers,     \* the accounts that sudo -l lists something for
  Flags,       \* the arguments of ExecStart
  Requests,    \* [command, args] of the calls
  Headers,     \* Authorization: [scheme, token]
  MaxChanges,  \* BOUND: changes of an account
  MaxStops     \* BOUND: crashes and operator's restarts

ASSUME StartupAssumption ==
  /\ Users # {} /\ "none" \notin Users
  /\ Uids \subseteq Nat /\ 0 \in Uids
  /\ Flags \subseteq [allow_public_bind : BOOLEAN, i_understand_the_risk : BOOLEAN]
  /\ MaxChanges \in Nat /\ MaxStops \in Nat

VARIABLES
  cli,         \* the arguments, fixed
  accounts,    \* accounts[u]: uid of u, or Gone
  changes,     \* how often an account was changed
  pc,          \* where run_server is
  sink,        \* the tracing subscriber that init_logging installed
  config,      \* what Config::load returned
  warnings,    \* printed before the server starts to serve
  identity,    \* developer_identity: who, and the uid it had
  reply,       \* the answer to the last request: [header, host, status, logged]
  stops        \* how often the server died or was restarted

world   == <<cli, accounts, changes>>
started == <<sink, config, warnings, identity>>
run     == <<pc, started, reply, stops>>

Gone       == -1
NoIdentity == [user |-> "none", uid |-> Gone]
NoConfig   == [tier |-> "none"]
NoReply    == [status |-> 0]

StartupInit ==
  /\ FileInit
  /\ cli \in Flags
  /\ accounts \in [Users -> Uids \ {0}] /\ changes = 0
  /\ pc = "down" /\ sink = "none" /\ config = NoConfig /\ warnings = {}
  /\ identity = NoIdentity /\ reply = NoReply /\ stops = 0

(* userdel, useradd, usermod -u.                                           *)
ChangeAccount ==
  /\ changes < MaxChanges
  /\ changes' = changes + 1
  /\ \E u \in Users : \E uid \in Uids \cup {Gone} :
       uid # accounts[u] /\ accounts' = [accounts EXCEPT ![u] = uid]
  /\ UNCHANGED <<configFile, cli, run>>

-----------------------------------------------------------------------------
(* The steps of run_server, each of which goes on or refuses to start.     *)
Process(from, to) == pc = from /\ pc' = to /\ UNCHANGED <<configFile, world, reply, stops>>

Refuse(from) == Process(from, "failed") /\ UNCHANGED started

(* init_logging: journald, or standard error if journald is unavailable.   *)
Start ==
  /\ pc \in {"down", "failed"}
  /\ pc' = "load"
  /\ sink' \in {"journald", "stderr"}
  /\ config' = NoConfig /\ warnings' = {} /\ identity' = NoIdentity
  /\ UNCHANGED <<configFile, world, reply, stops>>

Load ==
  \/ /\ Process("load", "bind_check")
     /\ loads(file)
     /\ config' = load(file)
     /\ UNCHANGED <<sink, warnings, identity>>
  \/ Refuse("load") /\ ~loads(file)

Unspecified == {"0.0.0.0", "::"}
Mapped      == [a \in {"::ffff:0.0.0.0"} |-> "0.0.0.0"]
Addresses   == Unspecified \cup DOMAIN Mapped \cup {"100.64.0.1"}

OnlyUnspecified(ip) == ip \in Unspecified  \* mutant: before the fix
is_blanket_public(ip) ==
  ip \in Unspecified \/ (ip \in DOMAIN Mapped /\ Mapped[ip] \in Unspecified)

validate_bind_address(addr, allow_public) ==
  addr \in Addresses /\ (is_blanket_public(addr) => allow_public)

ValidateBindAddress ==
  \/ /\ Process("bind_check", "tier")
     /\ validate_bind_address(config.bind_address, cli.allow_public_bind)
     /\ UNCHANGED started
  \/ Refuse("bind_check") /\ ~validate_bind_address(config.bind_address, cli.allow_public_bind)

Warn(condition, about) == IF condition THEN {about} ELSE {}

ValidateTier ==
  \/ /\ Process("tier", "custom_rules")
     /\ config.tier = "unrestricted" => cli.i_understand_the_risk
     /\ warnings' = Warn(config.tier = "unrestricted", "unrestricted")
     /\ UNCHANGED <<sink, config, identity>>
  \/ /\ Refuse("tier")
     /\ config.tier = "unrestricted" /\ ~cli.i_understand_the_risk

NoPatternAtAll(rule) == rule.effect = "allow" /\ rule.arg_pattern = None  \* mutant: misses ".*"
unconditional_allow(rule) == rule.effect = "allow" /\ is_match(rule.arg_pattern, <<>>)

NotUnderDeveloper(tier, rule) ==  \* mutant: developer is exempt altogether
  tier \in {"safe", "standard"} /\ unconditional_allow(rule)
gated(tier, rule) ==
  /\ unconditional_allow(rule)
  /\ \/ tier \in {"safe", "standard"}
     \/ tier = "developer" /\ rule.command \in ROOT_REQUIRED_TOOLS

unconditional_allows(tier, rules) == {k \in DOMAIN rules : gated(tier, rules[k])}

(* custom_allow_shadowed_tier_denies: the rules it warns about.            *)
shadowing(tier, rules) ==
  {k \in DOMAIN rules :
     /\ unconditional_allow(rules[k])
     /\ \E j \in DOMAIN rules_for_tier(tier) :
          /\ rules_for_tier(tier)[j].command = rules[k].command
          /\ rules_for_tier(tier)[j].effect = "deny"}

gate == unconditional_allows(config.tier, config.custom_rules)

ValidateCustomRules ==
  \/ /\ Process("custom_rules", "developer")
     /\ gate = {} \/ cli.i_understand_the_risk
     /\ warnings' = warnings \cup Warn(gate # {}, "unconditional_allow")
          \cup Warn(shadowing(config.tier, config.custom_rules) # {}, "shadowed_deny")
     /\ UNCHANGED <<sink, config, identity>>
  \/ /\ Refuse("custom_rules")
     /\ gate # {} /\ ~cli.i_understand_the_risk

resolve_user(user) == IF user \in Users THEN accounts[user] ELSE Gone

(* A user that is unknown or root; none is unknown, too.                   *)
UnknownOnly(user) == resolve_user(user) # Gone  \* mutant: uid 0 is accepted
developer_user_valid(user) == resolve_user(user) \notin {Gone, 0}

(* sudo -l says nothing on its output about a user it does not know.       *)
may_sudo(user) == user # "none" /\ (user \in Sudoers \/ resolve_user(user) = Gone)

ValidateDeveloper ==
  \/ /\ Process("developer", "listen")
     /\ config.tier = "developer" => developer_user_valid(config.developer_user)
     /\ identity' = IF config.tier = "developer"
                      THEN [user |-> config.developer_user, uid |-> resolve_user(config.developer_user)]
                      ELSE NoIdentity
     /\ warnings' = warnings \cup Warn(may_sudo(config.developer_user), "sudo")
     /\ UNCHANGED <<sink, config>>
  \/ /\ Refuse("developer")
     /\ config.tier = "developer" /\ ~developer_user_valid(config.developer_user)

(* The address may be in use, or not assigned yet.                         *)
Listen    == Process("listen", "serving") /\ UNCHANGED started
BindFails == Refuse("listen")

-----------------------------------------------------------------------------
(* A request, up to the tool's handler.                                    *)
Everything(event) == TRUE  \* mutant: before the filter
audit_only_filter(event) ==
  event.target = "redwrench::audit" /\ event.level \in {"INFO", "WARN", "ERROR"}

Rejection == [target |-> "redwrench::audit", level |-> "WARN"]
Traced    == [target |-> "rmcp", level |-> "INFO"]  \* shows results in full

log(event) == IF sink # "none" /\ audit_only_filter(event) THEN {event.target} ELSE {}

strip_bearer_prefix(scheme) == scheme \in {"Bearer", "bearer"}

constant_time_eq(a, b) == a = b

EmptyTokenMatches(expected_token, header) ==  \* mutant: no check of the expected token
  strip_bearer_prefix(header.scheme) /\ constant_time_eq(header.token, expected_token)
require_bearer_token(expected_token, header) ==
  /\ expected_token # EmptyString
  /\ strip_bearer_prefix(header.scheme) /\ constant_time_eq(header.token, expected_token)

Loopback == {"localhost", "127.0.0.1", "::1"}
LoopbackOnly(bind_address) == Loopback  \* mutant: rmcp's default
allowed_hosts_for(bind_address) == Loopback \cup {bind_address}

Request ==
  /\ pc = "serving" /\ reply = NoReply
  /\ \E header \in Headers : \E host \in {config.bind_address, "elsewhere"} :
       LET authorized == require_bearer_token(config.bearer_token, header)
       IN  reply' = [header |-> header, host |-> host,
                     status |-> IF ~authorized THEN 401
                                ELSE IF host \in allowed_hosts_for(config.bind_address) THEN 200 ELSE 403,
                     logged |-> log(IF authorized THEN Traced ELSE Rejection)]
  /\ UNCHANGED <<configFile, world, pc, started, stops>>

Answered ==
  /\ reply # NoReply
  /\ reply' = NoReply
  /\ UNCHANGED <<configFile, world, pc, started, stops>>

(* What the server evaluates, and as whom it runs what is allowed.         *)
Rules == effective_rules_for(config.tier, config.custom_rules)

LookedUpAgain(command) ==  \* mutant: the account is resolved for each call
  IF command \in ROOT_REQUIRED_TOOLS \/ identity = NoIdentity
    THEN NoIdentity ELSE [identity EXCEPT !.uid = resolve_user(identity.user)]
developer_tier_run_as(command) ==
  IF command \in ROOT_REQUIRED_TOOLS THEN NoIdentity ELSE identity

(* A crash, or the operator's systemctl restart: the next start reads the  *)
(* file again.                                                             *)
Stop ==
  /\ pc # "down" /\ stops < MaxStops
  /\ stops' = stops + 1
  /\ pc' = "down" /\ sink' = "none"
  /\ config' = NoConfig /\ warnings' = {} /\ identity' = NoIdentity /\ reply' = NoReply
  /\ UNCHANGED <<configFile, world>>

Starting ==
  \/ Load \/ ValidateBindAddress \/ ValidateTier \/ ValidateCustomRules
  \/ ValidateDeveloper \/ Listen \/ BindFails

(* Restart=on-failure: also after a refusal.                               *)
NotAfterRefusal == pc = "down" /\ Start  \* mutant: Restart=on-abnormal
Systemd == Start

-----------------------------------------------------------------------------
(* Properties.                                                             *)
Serving == pc = "serving"

(* The custom rule that decides a request, if one does.                    *)
DecidedBy(k, r) ==
  /\ k \in DOMAIN config.custom_rules
  /\ Matches(config.custom_rules[k], r)
  /\ \A j \in 1..(k - 1) : ~Matches(config.custom_rules[j], r)

(* An allow that no arguments escape, as an operator would put it.         *)
AnyArguments(rule) == rule.effect = "allow" /\ rule.arg_pattern.kind \in {"none", "any"}

ListensEverywhere(a) == a \in {"0.0.0.0", "::", "::ffff:0.0.0.0"}

(* Nothing that a file says, whoever wrote it and whatever is left of it,  *)
(* takes a risk without its flag.  Without the one the server does not     *)
(* listen on every interface.  Without the other no command is run as root *)
(* whatever its arguments: not by the unrestricted tier, and not by an     *)
(* allow without a pattern, since dispatch then drops the command.         *)
RisksAcknowledged ==
  Serving =>
    /\ ListensEverywhere(config.bind_address) => cli.allow_public_bind
    /\ ~cli.i_understand_the_risk =>
         /\ config.tier # "unrestricted"
         /\ \A r \in Requests : \A k \in DOMAIN config.custom_rules :
              DecidedBy(k, r) /\ AnyArguments(config.custom_rules[k])
                => developer_tier_run_as(r.command) # NoIdentity

(* When the server reads the file, a deny in it refuses the requests it    *)
(* describes, under every tier, unless an earlier rule describes them, too.*)
DeniesInForce ==
  pc = "load" /\ loads(file) =>
    LET rules == raw_rules(file)
        Describes(k, r) == rules[k].command = r.command /\ is_match(rules[k].arg_pattern, r.args)
    IN  \A k \in DOMAIN rules : \A r \in Requests :
          rules[k].effect = "deny" /\ Describes(k, r) /\ (\A j \in 1..(k - 1) : ~Describes(j, r))
            => ~Permits(effective_rules_for(file.tier, load(file).custom_rules), r)

(* If a custom allow lets through what a deny of the tier refuses, and it  *)
(* does so whatever the arguments, a warning was printed.                  *)
ReinstatementIsWarned ==
  Serving =>
    \A r \in Requests : \A k \in DOMAIN config.custom_rules :
      /\ DecidedBy(k, r) /\ AnyArguments(config.custom_rules[k])
      /\ \E j \in DOMAIN rules_for_tier(config.tier) :
           rules_for_tier(config.tier)[j].effect = "deny" /\ Matches(rules_for_tier(config.tier)[j], r)
      => "shadowed_deny" \in warnings

(* Only a request with the configured token, which is not empty, gets past *)
(* the door, and one that has it and was sent to the server's own address  *)
(* reaches it.                                                             *)
TokenOpensTheDoor ==
  reply # NoReply =>
    /\ reply.status # 401 => reply.header.token = config.bearer_token /\ config.bearer_token # EmptyString
    /\ /\ reply.header.token = config.bearer_token /\ config.bearer_token # EmptyString
       /\ reply.header.scheme \in {"Bearer", "bearer"} /\ reply.host = config.bind_address
       => reply.status = 200

(* Every rejection is in the journal, and nothing rmcp traces is.          *)
JournalIsTheAuditTrail ==
  reply # NoReply => reply.logged = IF reply.status = 401 THEN {"redwrench::audit"} ELSE {}

(* Once the file and the account behind it are such that the server may    *)
(* start, and remain so, the server serves, whatever was wrong before, and *)
(* however often its address could not be bound.                           *)
Startable ==
  /\ loads(file)
  /\ LET c == load(file)
     IN  /\ validate_bind_address(c.bind_address, cli.allow_public_bind)
         /\ c.tier = "unrestricted" => cli.i_understand_the_risk
         /\ unconditional_allows(c.tier, c.custom_rules) # {} => cli.i_understand_the_risk
         /\ c.tier = "developer" => developer_user_valid(c.developer_user)
Recovers == <>[]Startable => <>[]Serving
=============================================================================
