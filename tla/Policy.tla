------------------------------- MODULE Policy -------------------------------
(***************************************************************************)
(* The policy lookup of one request: PolicyEngine::evaluate                *)
(* (src/policy/mod.rs) scans the active tier's rules one by one, and after *)
(* a denial lowest_tier_that_would_allow (src/policy/introspection.rs)     *)
(* repeats the scan for every higher tier until one allows the request.    *)
(* dispatch() and check_command make these two calls, list_capabilities    *)
(* answers from the same tables.  Nothing they read changes while the      *)
(* server runs, so one request at a time shows all there is.               *)
(***************************************************************************)
EXTENDS Tiers

CONSTANTS
  Requests,        \* [command, args] of the requests
  CandidateRules,  \* the rules an operator may write into custom_rules
  MaxCustomRules   \* BOUND: how many of them

(* Config::load refuses a custom rule without a command.                   *)
ASSUME PolicyAssumption ==
  /\ MaxCustomRules \in Nat
  /\ \A rule \in CandidateRules : rule.command # EmptyString

VARIABLES
  custom_rules,         \* of the configuration, read once
  tier,                 \* the active tier
  pc,
  request,
  level,                \* the tier being tried, as an index of tier_order
  next,                 \* the next rule to look at
  decision,
  would_be_allowed_at,
  run_as                \* who the command runs as, once it is allowed

config == <<custom_rules, tier>>
scan   == <<level, next>>
answer == <<decision, would_be_allowed_at, run_as>>
vars   == <<config, pc, request, scan, answer>>

NoRequest == [command |-> "none", args |-> <<>>]

describe(rule) ==
  [command |-> rule.command, effect |-> rule.effect, description |-> rule.description]

ByCommand(lower, higher) ==  \* mutant: known commands count as known rules
  {describe(higher[k]) : k \in {j \in DOMAIN higher :
     \A i \in DOMAIN lower : lower[i].command # higher[j].command}}
additional_rules(lower, higher) ==
  {describe(higher[k]) : k \in {j \in DOMAIN higher :
     \A i \in DOMAIN lower : lower[i].description # higher[j].description}}

(* developer_identity is resolved at startup for the developer tier only.  *)
developer_tier_run_as(t, command) ==
  IF t = "developer" /\ command \notin ROOT_REQUIRED_TOOLS THEN "developer_user" ELSE "root"

(* unlocked_by_higher_tiers, for the tier of each higher level.           *)
list_capabilities(t, custom) ==
  [k \in (position(t) + 1)..Len(tier_order) |->
     additional_rules(effective_rules_for(t, custom), effective_rules_for(tier_order[k], custom))]

Init ==
  /\ custom_rules \in UNION {[1..n -> CandidateRules] : n \in 0..MaxCustomRules}
  /\ tier \in {tier_order[k] : k \in DOMAIN tier_order}
  /\ pc = "idle" /\ request = NoRequest
  /\ level = position(tier) /\ next = 1
  /\ decision = "none" /\ would_be_allowed_at = "none" /\ run_as = "none"

Ask ==
  /\ pc = "idle"
  /\ request' \in Requests
  /\ pc' = "scan"
  /\ UNCHANGED <<config, scan, answer>>

-----------------------------------------------------------------------------
(* evaluate(), one rule at a time.                                         *)
Rules == effective_rules_for(tier_order[level], custom_rules)

Scanning == pc = "scan" /\ next \in DOMAIN Rules

Continue ==
  /\ Scanning
  /\ ~Matches(Rules[next], request)
  /\ next' = next + 1
  /\ UNCHANGED <<config, pc, request, level, answer>>

(* The scan at the active tier is the decision, the later ones look for a  *)
(* tier to suggest.                                                        *)
Allowed ==
  /\ pc' = "done"
  /\ IF level = position(tier)
       THEN /\ decision' = "allowed"
            /\ run_as' = developer_tier_run_as(tier, request.command)
            /\ UNCHANGED would_be_allowed_at
       ELSE /\ would_be_allowed_at' = tier_order[level]
            /\ UNCHANGED <<decision, run_as>>
  /\ UNCHANGED <<config, request, scan>>

AdjacentOnly == level = position(tier) /\ level < Len(tier_order)  \* mutant: tries one tier
PastTheLast == level <= Len(tier_order)  \* mutant: off by one
MoreTiers == level < Len(tier_order)

Denied ==
  /\ decision' = "denied"
  /\ IF MoreTiers THEN level' = level + 1 /\ next' = 1 /\ UNCHANGED pc
                  ELSE pc' = "done" /\ UNCHANGED scan
  /\ UNCHANGED <<config, request, would_be_allowed_at, run_as>>

AllowMatches ==
  /\ Scanning
  /\ Matches(Rules[next], request)
  /\ Rules[next].effect = "allow"
  /\ Allowed

DenyMatches ==
  /\ Scanning
  /\ Matches(Rules[next], request)
  /\ Rules[next].effect = "deny"
  /\ Denied

AllowByDefault ==  \* mutant: what no rule names is allowed
  pc = "scan" /\ next \notin DOMAIN Rules /\ Allowed
NoRuleMatches ==
  /\ pc = "scan" /\ next \notin DOMAIN Rules
  /\ Denied

Reply ==
  /\ pc = "done"
  /\ pc' = "idle" /\ request' = NoRequest
  /\ level' = position(tier) /\ next' = 1
  /\ decision' = "none" /\ would_be_allowed_at' = "none" /\ run_as' = "none"
  /\ UNCHANGED config

Next ==
  \/ Ask
  \/ Continue \/ AllowMatches \/ DenyMatches \/ NoRuleMatches
  \/ Reply

Spec == Init /\ [][Next]_vars

-----------------------------------------------------------------------------
(* Properties.                                                             *)

PermittedAt(k) == Permits(effective_rules_for(tier_order[k], custom_rules), request)

Answered == pc = "done"

(* The variables keep their types.                                         *)
TypeOK ==
  /\ custom_rules \in Seq(CandidateRules)
  /\ tier \in {"safe", "standard", "developer", "unrestricted"}
  /\ pc \in {"idle", "scan", "done"}
  /\ request \in Requests \cup {NoRequest}
  /\ level \in position(tier)..Len(tier_order)
  /\ next \in 1..(Len(Rules) + 1)
  /\ decision \in {"none", "allowed", "denied"}
  /\ would_be_allowed_at \in {"none", "standard", "developer", "unrestricted"}
  /\ run_as \in {"none", "root", "developer_user"}

(* evaluate() decides by the first rule that matches, and denies what no   *)
(* rule matches.                                                           *)
DecisionIsFirstMatch ==
  Answered => (decision = "allowed" <=> PermittedAt(position(tier)))

(* Once a custom rule matches, the first of them decides at every tier,    *)
(* also in the suggestion: a custom deny is not undone by any tier.        *)
CustomRulesWin ==
  Answered /\ (\E k \in DOMAIN custom_rules : Matches(custom_rules[k], request)) =>
    /\ decision = "allowed" <=> Permits(custom_rules, request)
    /\ would_be_allowed_at = "none"

(* The suggestion is the lowest of all tiers that allow the request, those *)
(* below the active one included; without one, no tier allows it.          *)
SuggestionIsLowest ==
  Answered /\ decision = "denied" =>
    \A k \in DOMAIN tier_order :
      PermittedAt(k) => /\ would_be_allowed_at # "none"
                        /\ k >= position(would_be_allowed_at)

(* tier_order is in increasing capability: raising the tier never takes a  *)
(* permission away.                                                        *)
TiersAreOrdered ==
  Answered /\ decision = "allowed" =>
    \A k \in DOMAIN tier_order : k >= position(tier) => PermittedAt(k)

(* Every flag the tier rules refuse is refused: no allow of the same       *)
(* command is reached before the deny.  systemctl status alone may name a  *)
(* unit the lifecycle deny of a higher tier refuses.                       *)
DeniesAreReached ==
  Answered /\ decision = "allowed" /\ custom_rules = <<>> =>
    \A k \in DOMAIN rules_for_tier(tier) :
      LET rule == rules_for_tier(tier)[k]
      IN  rule.effect = "deny" /\ Matches(rule, request) =>
            /\ rule.arg_pattern = SYSTEMCTL_TARGET_LIFECYCLE
            /\ request.args[1] \in {"status", "is-active", "is-enabled"}

(* The developer tier hands out no new root: what it runs as root, the     *)
(* standard tier would have allowed too.                                   *)
DeveloperAddsNoRoot ==
  Answered /\ tier = "developer" /\ run_as = "root" => PermittedAt(position("standard"))

(* The tier that a denial suggests is one for which list_capabilities      *)
(* lists an allow for the command, unless the operator gave a custom rule  *)
(* the very description of a rule of that tier that allows the request.    *)
Borrows(rule, t, r) ==
  \E j \in DOMAIN rules_for_tier(t) :
    /\ rules_for_tier(t)[j].effect = "allow" /\ Matches(rules_for_tier(t)[j], r)
    /\ rule.description = rules_for_tier(t)[j].description

UnlocksAreListed ==
  /\ Answered /\ would_be_allowed_at # "none"
  /\ \A k \in DOMAIN custom_rules : ~Borrows(custom_rules[k], would_be_allowed_at, request)
  => \E d \in list_capabilities(tier, custom_rules)[position(would_be_allowed_at)] :
       d.effect = "allow" /\ d.command \in {EmptyString, request.command}

(* Why the loops are right: where the scan stands, and what it has ruled   *)
(* out so far.                                                             *)
Idle ==
  pc = "idle" => /\ level = position(tier) /\ next = 1
                 /\ decision = "none" /\ would_be_allowed_at = "none" /\ run_as = "none"

NothingBefore == pc = "scan" => \A j \in 1..(next - 1) : ~Matches(Rules[j], request)

LowerTiersDeny == pc # "idle" => \A k \in position(tier)..(level - 1) : ~PermittedAt(k)

Undecided ==
  pc = "scan" => /\ would_be_allowed_at = "none" /\ run_as = "none"
                 /\ decision = IF level = position(tier) THEN "none" ELSE "denied"

Verdict ==
  pc = "done" =>
    \/ /\ decision = "allowed" /\ level = position(tier) /\ PermittedAt(level)
       /\ would_be_allowed_at = "none"
       /\ run_as = developer_tier_run_as(tier, request.command)
    \/ /\ decision = "denied" /\ level > position(tier) /\ PermittedAt(level)
       /\ would_be_allowed_at = tier_order[level] /\ run_as = "none"
    \/ /\ decision = "denied" /\ level = Len(tier_order) /\ ~PermittedAt(level)
       /\ would_be_allowed_at = "none" /\ run_as = "none"

IInv == TypeOK /\ Idle /\ NothingBefore /\ LowerTiersDeny /\ Undecided /\ Verdict

-----------------------------------------------------------------------------
(* README.md: under the developer tier the privilege drop covers the tools *)
(* the tier adds only, all else continues to run as root.                  *)
OnlyDeveloperToolsDropped ==
  Answered /\ run_as = "developer_user" /\ custom_rules = <<>> =>
    \E k \in DOMAIN DEVELOPER_TOOLS : DEVELOPER_TOOLS[k] = request.command
=============================================================================
