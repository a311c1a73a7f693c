------------------------------ MODULE MCPolicy ------------------------------
EXTENDS Tools

(* For each command, what its arguments are made of: the tokens its rules  *)
(* look for and one that none of them does.                                *)
Alphabet == [
  systemctl  |-> {"status", "start", "--host", "reboot.target", "sshd"},
  journalctl |-> {"-u=unit", "-u=glob", "+", "--rotate", "-n"},
  ping       |-> {"-f", "host"},
  ip         |-> {"addr", "show", "add"},
  vmstat     |-> {"1"},
  sar        |-> {"-o", "1"},
  top        |-> {"-b", "-bc", "-c"},
  dnf        |-> {"install", "list", "-c", "./local.rpm", "vim"},
  ostree     |-> {"upgrade", "--reboot"},
  cargo      |-> {"build"},
  curl       |-> {"url"} ]

CommandOf(name) == IF name = "ostree" THEN "rpm-ostree" ELSE name

MCCommands ==
  UNION {{[command |-> CommandOf(name), args |-> a] :
            a \in UNION {[1..n -> Alphabet[name]] : n \in 0..2}} : name \in DOMAIN Alphabet}

Custom(command, pattern, effect) ==
  [command |-> command, arg_pattern |-> pattern, effect |-> effect,
   description |-> "custom_rule_for_" \o command]

(* Denies and allows, with and without a pattern, for commands of each     *)
(* tier and of none, and one that borrows a tier's description.            *)
MCCandidateRules ==
  { Custom("systemctl", None, "allow"),
    Custom("systemctl", Has({"sshd"}), "deny"),
    Custom("curl", None, "allow"),
    Custom("curl", Has({"url"}), "deny"),
    allow("dnf", Starts({"list"}), "install_remove_or_upgrade_a_package") }

(* For each rule that looks at an argument a text it refuses, and one that *)
(* none does.                                                              *)
MCTexts == {"sshd", "--host", "--nogpgcheck", "-f", "./local.rpm", "reboot.target"}
MCRequests == Built \cup MCCommands
=============================================================================
