------------------------------ MODULE MCServer ------------------------------
EXTENDS Server

Raw(command, arg_pattern, effect) ==
  [command |-> command, padded |-> FALSE, arg_pattern |-> arg_pattern, effect |-> effect]

Draft(tier, token, address, rules) ==
  [tier |-> tier, bearer_token |-> token, bind_address |-> address,
   developer_user |-> "dev", custom_rules |-> rules]

(* Every gate is passed by some of these texts and closed by others, also  *)
(* once set-tier has been at them.                                         *)
MCTexts ==
  { Draft("standard", "a", "100.64.0.1",
          << [Raw("dnf", Starts({"remove"}), "deny") EXCEPT !.padded = TRUE],
             Raw("systemctl", Has({"sshd"}), "allow") >>),
    Draft("developer", "b", "100.64.0.1", << Raw("cargo", NoPattern, "allow") >>),
    Draft("developer", "b", "100.64.0.1", << Raw("systemctl", Any, "allow") >>),
    Draft("safe", "", "::ffff:0.0.0.0", << >>),
    [Draft("unrestricted", "a", "0.0.0.0", << >>) EXCEPT !.developer_user = "ghost"],
    Draft("safe", "a", "100.64.0.1", << Raw("dnf", BadPattern, "deny") >>) }

(* Passes the gates without a flag.                                        *)
MCDrafts == {Draft("developer", "b", "100.64.0.1", << Raw("cargo", NoPattern, "allow") >>)}

MCRequests ==
  { [command |-> "systemctl", args |-> << "--host", "status" >>],
    [command |-> "dnf", args |-> << "remove", "vim" >>],
    [command |-> "cargo", args |-> << "build" >>] }

Header(scheme, token) == [scheme |-> scheme, token |-> token]
MCHeaders == {Header("bearer", "a"), Header("Bearer", "b"), Header("Bearer", "")}

MCFlags == {f \in [allow_public_bind : BOOLEAN, i_understand_the_risk : BOOLEAN] :
              f.allow_public_bind => f.i_understand_the_risk}
=============================================================================
