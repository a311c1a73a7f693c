------------------------------- MODULE Tools -------------------------------
(***************************************************************************)
(* The tool handlers (src/tools/*.rs) in front of the policy: each takes   *)
(* its parameters, answers by itself if it does not like them, or builds   *)
(* an argv and calls dispatch, whose decision Policy makes.  A parameter   *)
(* that is free text is a token of Tiers, which is also what a rule looks  *)
(* for; "--" is the end of the options.  -u and its value are one token.   *)
(***************************************************************************)
EXTENDS Policy

CONSTANTS
  Texts,       \* what a caller may write for a unit, a package or a host
  Units,       \* what a caller may write for journalctl's unit
  Actions,     \* for systemctl_control
  OptionLike,  \* the texts that begin with a dash
  Commands     \* [command, args] of the calls of run_command

VARIABLE call  \* what the handler hands to dispatch besides the request

toolVars == <<vars, call>>

NoCall == [tool |-> "none", override |-> FALSE]

(* max_stream_duration, or the ordinary timeout for FALSE.                 *)
dispatch(tool, command, args, override) ==
  /\ request' = [command |-> command, args |-> args]
  /\ Ask
  /\ call' = [tool |-> tool, override |-> override]

(* The handler's own error: nothing is asked of the policy.                *)
reject == pc = "idle" /\ UNCHANGED toolVars

-----------------------------------------------------------------------------
(* systemctl.rs                                                            *)
NoSeparator(unit) == << "status", unit >>  \* mutant
status_argv(unit) == << "status", "--", unit >>
control_argv(action, unit) == << action, "--", unit >>

ALLOWED_ACTIONS == {"start", "stop", "restart", "enable", "disable"}
is_allowed_action(action) == action \in ALLOWED_ACTIONS

systemctl_status ==
  \E unit \in Texts : dispatch("systemctl_status", "systemctl", status_argv(unit), FALSE)

systemctl_control ==
  \E action \in Actions, unit \in Texts :
    IF is_allowed_action(action)
      THEN dispatch("systemctl_control", "systemctl", control_argv(action, unit), FALSE)
      ELSE reject

-----------------------------------------------------------------------------
(* dnf.rs                                                                  *)
YesFirst(package) == << "-y", "install", "--", package >>  \* mutant
install_argv(package) == << "install", "-y", "--", package >>
remove_argv(package) == << "remove", "-y", "--", package >>

dnf_install == \E package \in Texts : dispatch("dnf_install", "dnf", install_argv(package), FALSE)
dnf_remove  == \E package \in Texts : dispatch("dnf_remove", "dnf", remove_argv(package), FALSE)

-----------------------------------------------------------------------------
(* network.rs                                                              *)
NoCount == << >>

ping_argv(host, count) == (IF count = NoCount THEN << >> ELSE << "-c" >> \o count) \o << "--", host >>

OverrideIfCounted(count) == count # NoCount  \* mutant
indefinite(count) == count = NoCount

ping ==
  \E host \in Texts, count \in {NoCount, << "4" >>} :
    dispatch("ping", "ping", ping_argv(host, count), indefinite(count))

ip_addr == dispatch("ip_addr", "ip", << "addr" >>, FALSE)

-----------------------------------------------------------------------------
(* journalctl.rs: the value of -u needs no separator, but what looks like  *)
(* a long option is refused.                                               *)
LongOption == {"--file"}
unit_filter(unit) == IF unit = "ssh*" THEN "-u=glob" ELSE "-u=unit"

journalctl_args(unit, follow) ==
  << "-n", "--no-pager" >> \o (IF unit = << >> THEN << >> ELSE << unit_filter(unit[1]) >>)
    \o (IF follow THEN << "-f" >> ELSE << >>)

journalctl_tail ==
  \E unit \in {<< >>} \cup {<< u >> : u \in Units}, follow \in BOOLEAN :
    IF unit # << >> /\ unit[1] \in LongOption
      THEN reject
      ELSE dispatch("journalctl_tail", "journalctl", journalctl_args(unit, follow), follow)

-----------------------------------------------------------------------------
(* run_command.rs: any command with any arguments, as they are.            *)
run_command ==
  \E r \in Commands : dispatch("run_command", r.command, r.args, FALSE)

Handlers ==
  \/ systemctl_status \/ systemctl_control
  \/ dnf_install \/ dnf_remove
  \/ ping \/ ip_addr
  \/ journalctl_tail
  \/ run_command

(* All that the handlers can ask.                                          *)
Built ==
  {[command |-> "systemctl", args |-> status_argv(t)] : t \in Texts}
    \cup {[command |-> "systemctl", args |-> control_argv(a, t)] : a \in ALLOWED_ACTIONS, t \in Texts}
    \cup {[command |-> "dnf", args |-> install_argv(t)] : t \in Texts}
    \cup {[command |-> "dnf", args |-> remove_argv(t)] : t \in Texts}
    \cup {[command |-> "ping", args |-> ping_argv(t, n)] : t \in Texts, n \in {NoCount, << "4" >>}}
    \cup {[command |-> "ip", args |-> << "addr" >>]}
    \cup {[command |-> "journalctl", args |-> journalctl_args(u, f)] :
             u \in {<< >>} \cup {<< u >> : u \in Units}, f \in BOOLEAN}

(* What the handlers write themselves and is no option has no dash.        *)
PlainWords == {"status", "install", "remove", "addr", "4"} \cup ALLOWED_ACTIONS

ASSUME ToolsAssumption ==
  /\ Built \cup Commands \subseteq Requests
  /\ OptionLike \cap PlainWords = {}

Evaluate == Continue \/ AllowMatches \/ DenyMatches \/ NoRuleMatches

ToolsInit == Init /\ call = NoCall
ToolsNext ==
  \/ Handlers
  \/ Evaluate /\ UNCHANGED call
  \/ Reply /\ call' = NoCall
ToolsSpec == ToolsInit /\ [][ToolsNext]_toolVars

-----------------------------------------------------------------------------
(* Properties.                                                             *)
Structured == call.tool \notin {"none", "run_command"}

(* The options that the handler itself writes in front of the separator,   *)
(* and the separator.                                                      *)
OwnOptions ==
  {"--"} \cup (IF call.tool \in {"dnf_install", "dnf_remove"} THEN {"-y"} ELSE {})
         \cup (IF call.tool = "ping" THEN {"-c"} ELSE {})

(* What a caller writes for a unit, a package or a host is never read as   *)
(* an option by the command that runs, under the unrestricted tier neither,*)
(* whose rules refuse no option: it comes after the end of the options.    *)
(* -u takes the next word whatever it is.                                  *)
OptionsStayData ==
  Answered /\ decision = "allowed" /\ Structured /\ call.tool # "journalctl_tail" =>
    \A k \in DOMAIN request.args :
      request.args[k] \in OptionLike \ OwnOptions => \E j \in 1..(k - 1) : request.args[j] = "--"

(* The tier that the tool's description tells the agent.                   *)
advertised ==
  CASE call.tool \in {"systemctl_control", "dnf_install", "dnf_remove"} -> "standard"
    [] call.tool = "journalctl_tail" ->
         IF \E k \in DOMAIN request.args : request.args[k] \in {"-u=unit", "-u=glob"} THEN "safe" ELSE "standard"
    [] OTHER -> "safe"

(* A structured tool works from the tier on that its description names,    *)
(* and under no lower one, unless the tier has a deny for its argument:    *)
(* the argv it builds, with the separator, is what the patterns expect.    *)
AdvertisedTiers ==
  Answered /\ Structured /\ custom_rules = << >> =>
    \/ decision = "allowed" <=> position(tier) >= position(advertised)
    \/ \E k \in DOMAIN rules_for_tier(tier) :
         rules_for_tier(tier)[k].effect = "deny" /\ Matches(rules_for_tier(tier)[k], request)

NeverEnds ==
  \/ request.command = "ping" /\ request.args[1] # "-c"
  \/ request.command = "journalctl" /\ \E k \in DOMAIN request.args : request.args[k] = "-f"

(* The structured calls that never end by themselves, and no others, are   *)
(* given the safety net instead of the ordinary timeout.                   *)
EndlessCallsOverride == pc # "idle" /\ Structured => (call.override <=> NeverEnds)
=============================================================================
