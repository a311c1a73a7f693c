------------------------------- MODULE Tiers -------------------------------
(***************************************************************************)
(* The rule tables of src/policy/tiers.rs.                                 *)
(*                                                                         *)
(* A token stands for an argument of one kind: "start" is any argument     *)
(* that begins so, "--host" any spelling of the option (abbreviated,       *)
(* clustered, with its value attached), "-u=glob" the option with a value  *)
(* that has a glob character.  A regular expression is represented by the  *)
(* tokens it looks for and by where it looks for them; how it recognises   *)
(* each spelling is left out, and of the flags that one deny looks for one *)
(* or two stand for all.                                                   *)
(***************************************************************************)
EXTENDS Integers, Sequences

EmptyString == ""

None           == [kind |-> "none"]                        \* no arg_pattern
Any            == [kind |-> "any"]                         \* .*, or another that matches ""
Has(tokens)    == [kind |-> "has", tokens |-> tokens]      \* (?:^|\s)token
Starts(tokens) == [kind |-> "starts", tokens |-> tokens]   \* ^token
Reads(objects, verbs) ==                                   \* ^object(\s+verb(\s.*)?)?$
  [kind |-> "reads", tokens |-> objects, verbs |-> verbs]

is_match(pattern, args) ==
  \/ pattern.kind \in {"none", "any"}
  \/ pattern.kind = "has" /\ \E k \in DOMAIN args : args[k] \in pattern.tokens
  \/ pattern.kind \in {"starts", "reads"} /\ args # <<>> /\ args[1] \in pattern.tokens
     /\ (pattern.kind = "reads" /\ Len(args) > 1 => args[2] \in pattern.verbs)

allow(command, arg_pattern, description) ==
  [command |-> command, arg_pattern |-> arg_pattern, effect |-> "allow", description |-> description]
deny(command, arg_pattern, description) ==
  [command |-> command, arg_pattern |-> arg_pattern, effect |-> "deny", description |-> description]

PING_ABUSE_FLAGS              == Has({"-f", "-i=0"})
SYSTEMCTL_HOST_REDIRECT_FLAGS == Has({"--host"})
SYSTEMCTL_TARGET_LIFECYCLE    == Has({"reboot.target", "systemd-reboot.service"})
RPM_OSTREE_REBOOT_FLAG        == Has({"--reboot"})
DNF_TRUST_BYPASS_FLAGS        == Has({"--nogpgcheck", "-c"})
DNF_LOCAL_PACKAGE_PATH        == Has({"./local.rpm"})
JOURNALCTL_MUTATION_FLAGS     == Has({"--rotate"})
JOURNALCTL_GLOB_UNIT_FLAGS    == Has({"-u=glob"})
JOURNALCTL_PLUS_DISJUNCTION   == Has({"+"})
SAR_FILE_OUTPUT_FLAG          == Has({"-o"})
TOP_DISCLOSURE_FLAGS          == Has({"-c", "-bc"})

systemctl_safe ==
  << deny("systemctl", SYSTEMCTL_HOST_REDIRECT_FLAGS, "reject_--host"),
     allow("systemctl", Starts({"status"}), "read_a_unit's_status"),
     allow("systemctl", Starts({"is-active"}), "check_whether_a_unit_is_active"),
     allow("systemctl", Starts({"is-enabled"}), "check_whether_a_unit_is_enabled") >>

(* A -u with any value, a glob too: only the deny before it refuses globs. *)
journalctl_safe ==
  << deny("journalctl", JOURNALCTL_MUTATION_FLAGS, "reject_mutation_flags"),
     deny("journalctl", JOURNALCTL_GLOB_UNIT_FLAGS, "reject_a_glob-valued_unit"),
     deny("journalctl", JOURNALCTL_PLUS_DISJUNCTION, "reject_a_disjunction"),
     allow("journalctl", Has({"-u=unit", "-u=glob"}), "read_the_journal_of_a_unit") >>

diagnostics_safe ==
  << deny("ping", PING_ABUSE_FLAGS, "reject_flood_flags"),
     allow("ping", None, "send_ICMP_echo_requests"),
     allow("ip", Reads({"addr", "route", "link"}, {"show", "list", "get"}), "read_network_state"),
     allow("vmstat", None, "read_memory_statistics"),
     deny("sar", SAR_FILE_OUTPUT_FLAG, "reject_-o"),
     allow("sar", None, "read_system_activity"),
     deny("top", TOP_DISCLOSURE_FLAGS, "reject_-c"),
     allow("top", Starts({"-b", "-bc"}), "read_a_process_snapshot") >>

safe_rules == systemctl_safe \o journalctl_safe \o diagnostics_safe

TrustedAgain ==  \* mutant: the allow in front of the denies of its command
  << allow("dnf", Starts({"install", "remove", "upgrade"}), "install_remove_or_upgrade_a_package"),
     deny("dnf", DNF_TRUST_BYPASS_FLAGS, "reject_trust_bypasses"),
     deny("dnf", DNF_LOCAL_PACKAGE_PATH, "reject_local_packages") >>
packages_standard ==
  << deny("dnf", DNF_TRUST_BYPASS_FLAGS, "reject_trust_bypasses"),
     deny("dnf", DNF_LOCAL_PACKAGE_PATH, "reject_local_packages"),
     allow("dnf", Starts({"install", "remove", "upgrade"}), "install_remove_or_upgrade_a_package"),
     deny("rpm-ostree", RPM_OSTREE_REBOOT_FLAG, "reject_--reboot"),
     allow("rpm-ostree", Starts({"install", "upgrade", "status", "uninstall"}), "manage_packages_via_rpm-ostree") >>

units_standard ==
  << deny("systemctl", SYSTEMCTL_TARGET_LIFECYCLE, "reject_targets_and_shutdown_services"),
     allow("systemctl", Starts({"start", "stop", "restart", "enable", "disable"}), "control_a_unit") >>

added_by_standard ==
  units_standard \o packages_standard \o << allow("journalctl", None, "read_the_journal_unscoped") >>

standard_rules == safe_rules \o added_by_standard

DEVELOPER_TOOLS == << "bash", "sh", "python3", "gcc", "cc", "node", "npm", "cargo", "make" >>

NeedsRoot == {"systemctl", "journalctl", "ip", "dnf", "rpm-ostree", "cargo"}  \* mutant
ROOT_REQUIRED_TOOLS == {"systemctl", "journalctl", "ip", "dnf", "rpm-ostree"}

added_by_developer ==
  [k \in DOMAIN DEVELOPER_TOOLS |-> allow(DEVELOPER_TOOLS[k], None, "run_as_developer_user")]

RebuiltFromSafe == safe_rules \o added_by_developer  \* mutant: does not extend standard
developer_rules == standard_rules \o added_by_developer

unrestricted_rules == << allow(EmptyString, None, "every_command_no_restrictions") >>

tier_order == << "safe", "standard", "developer", "unrestricted" >>

rules_for_tier(tier) ==
  CASE tier = "safe"         -> safe_rules
    [] tier = "standard"     -> standard_rules
    [] tier = "developer"    -> developer_rules
    [] tier = "unrestricted" -> unrestricted_rules
-----------------------------------------------------------------------------
position(t) == CHOOSE k \in DOMAIN tier_order : tier_order[k] = t

TierRulesFirst(t, custom) == rules_for_tier(t) \o custom  \* mutant: the order before the fix
effective_rules_for(t, custom) == custom \o rules_for_tier(t)

Matches(rule, r) ==
  /\ rule.command \in {EmptyString, r.command}
  /\ is_match(rule.arg_pattern, r.args)

(* What a rule list means, without a loop: some allow rule matches and no  *)
(* rule before it does.                                                    *)
Permits(rules, r) ==
  \E k \in DOMAIN rules :
    /\ Matches(rules[k], r) /\ rules[k].effect = "allow"
    /\ \A j \in 1..(k - 1) : ~Matches(rules[j], r)
=============================================================================
