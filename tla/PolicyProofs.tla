---------------------------- MODULE PolicyProofs ----------------------------
(***************************************************************************)
(* Proofs about Policy, for every set of requests, every set of rules an   *)
(* operator may write and any number of them.  The tables of Tiers enter   *)
(* by the lemmas of TiersProofs.                                           *)
(***************************************************************************)
EXTENDS Policy, TiersProofs, TLAPS

-----------------------------------------------------------------------------
(* The scan.                                                               *)

(* What the rules being scanned are, in every state of the right types.    *)
LEMMA RulesListed ==
  ASSUME TypeOK
  PROVE  /\ position(tier) \in 1..4 /\ level \in 1..4 /\ Listed(custom_rules)
         /\ tier_order[position(tier)] = tier
         /\ Len(Rules) \in Nat /\ DOMAIN Rules = 1..Len(Rules)
<1>1. position(tier) \in 1..4 /\ tier_order[position(tier)] = tier
  BY Positions, TierOrder DEF TypeOK
<1>2. level \in 1..4
  BY <1>1, TierOrder DEF TypeOK
<1>3. Listed(custom_rules)
  BY DEF TypeOK, Listed
<1>4. Listed(Rules)
  BY <1>2, <1>3, EffectiveRulesListed DEF Rules
<1>5. PICK S : Rules \in Seq(S)
  BY <1>4 DEF Listed
<1> QED  BY <1>1, <1>2, <1>3, <1>5

(* A scan that has reached an allow, a deny or the end knows its tier.     *)
LEMMA ScanDecides ==
  ASSUME TypeOK, NothingBefore, pc = "scan"
  PROVE  /\ AllowMatches => PermittedAt(level)
         /\ DenyMatches => ~PermittedAt(level)
         /\ NoRuleMatches => ~PermittedAt(level)
<1>1. Len(Rules) \in Nat /\ DOMAIN Rules = 1..Len(Rules) /\ next \in 1..(Len(Rules) + 1)
  BY RulesListed DEF TypeOK
<1>2. \A j \in 1..(next - 1) : ~Matches(Rules[j], request)
  BY DEF NothingBefore
<1>3. PermittedAt(level) <=> Permits(Rules, request)
  BY DEF PermittedAt, Rules
<1>4. ASSUME AllowMatches PROVE Permits(Rules, request)
  BY <1>2, <1>4 DEF AllowMatches, Scanning, Permits
<1>5. ASSUME DenyMatches, Permits(Rules, request) PROVE FALSE
  <2>1. PICK k \in DOMAIN Rules :
          /\ Matches(Rules[k], request) /\ Rules[k].effect = "allow"
          /\ \A j \in 1..(k - 1) : ~Matches(Rules[j], request)
    BY <1>5 DEF Permits
  <2>2. Matches(Rules[next], request) /\ Rules[next].effect = "deny"
    BY <1>5 DEF DenyMatches
  <2>3. k # next
    BY <2>1, <2>2
  <2>4. ~(k \in 1..(next - 1)) /\ ~(next \in 1..(k - 1))
    BY <1>2, <2>1, <2>2
  <2> QED  BY <1>1, <2>3, <2>4
<1>6. ASSUME NoRuleMatches, Permits(Rules, request) PROVE FALSE
  <2>1. PICK k \in DOMAIN Rules : Matches(Rules[k], request)
    BY <1>6 DEF Permits
  <2>2. next = Len(Rules) + 1
    BY <1>1, <1>6 DEF NoRuleMatches
  <2> QED  BY <1>1, <1>2, <2>1, <2>2
<1> QED  BY <1>3, <1>4, <1>5, <1>6

(* Before the first request, with any tier and any list of custom rules.   *)
LEMMA InitInv == Init => IInv
<1> SUFFICES ASSUME Init PROVE IInv
  OBVIOUS
<1>1. tier \in {"safe", "standard", "developer", "unrestricted"}
  BY TierOrder DEF Init
<1>2. custom_rules \in Seq(CandidateRules)
  <2>1. PICK n \in 0..MaxCustomRules : custom_rules \in [1..n -> CandidateRules]
    BY DEF Init
  <2>2. MaxCustomRules \in Nat
    BY PolicyAssumption
  <2>3. n \in Nat
    BY <2>1, <2>2
  <2> QED  BY <2>1, <2>3
<1>3. level \in position(tier)..Len(tier_order) /\ level \in 1..4
  BY <1>1, Positions, TierOrder DEF Init
<1>4. Listed(custom_rules)
  BY <1>2 DEF Listed
<1>5. Listed(Rules)
  BY <1>3, <1>4, EffectiveRulesListed DEF Rules
<1>6. next \in 1..(Len(Rules) + 1)
  BY <1>5 DEF Init, Listed
<1>7. TypeOK
  BY <1>1, <1>2, <1>3, <1>6 DEF Init, TypeOK
<1> QED  BY <1>7 DEF Init, IInv, Idle, NothingBefore, LowerTiersDeny, Undecided, Verdict

(* A request starts the scan at the active tier's first rule.              *)
LEMMA AskInv == IInv /\ Ask => IInv'
<1> SUFFICES ASSUME IInv, Ask PROVE IInv'
  OBVIOUS
<1> USE DEF Ask, config, scan, answer
<1>1. /\ level = position(tier) /\ next = 1 /\ decision = "none"
      /\ would_be_allowed_at = "none" /\ run_as = "none"
  BY DEF IInv, Idle
<1>2. TypeOK'
  BY DEF IInv, TypeOK, Rules
<1>3. level \in 1..4
  BY RulesListed DEF IInv
<1>4. (NothingBefore /\ LowerTiersDeny)'
  BY <1>1, <1>3 DEF NothingBefore, LowerTiersDeny
<1>5. (Idle /\ Undecided /\ Verdict)'
  BY <1>1 DEF Idle, Undecided, Verdict
<1> QED  BY <1>2, <1>4, <1>5 DEF IInv

(* A rule that does not match is ruled out.                                *)
LEMMA ContinueInv == IInv /\ Continue => IInv'
<1> SUFFICES ASSUME IInv, Continue PROVE IInv'
  OBVIOUS
<1> USE DEF Continue, Scanning, config, scan, answer
<1>1. Len(Rules) \in Nat /\ DOMAIN Rules = 1..Len(Rules) /\ Rules' = Rules
  BY RulesListed DEF IInv, Rules
<1>2. next \in 1..Len(Rules)
  BY <1>1
<1>3. TypeOK'
  BY <1>1, <1>2 DEF IInv, TypeOK
<1>4. NothingBefore'
  BY <1>1, <1>2 DEF IInv, NothingBefore
<1>5. LowerTiersDeny'
  BY DEF IInv, LowerTiersDeny, PermittedAt
<1>6. (Idle /\ Undecided /\ Verdict)'
  BY DEF IInv, Idle, Undecided, Verdict
<1> QED  BY <1>3, <1>4, <1>5, <1>6 DEF IInv

(* An allow ends the lookup, as the decision or as the suggestion.         *)
LEMMA AllowInv == IInv /\ AllowMatches => IInv'
<1> SUFFICES ASSUME IInv, AllowMatches PROVE IInv'
  OBVIOUS
<1> USE DEF AllowMatches, Scanning, Allowed, config, scan
<1>1. PermittedAt(level)
  BY ScanDecides DEF IInv
<1>2. /\ position(tier) \in 1..4 /\ level \in 1..4 /\ level >= position(tier)
      /\ tier_order[position(tier)] = tier
  BY RulesListed DEF IInv, TypeOK
<1>3. \A k : PermittedAt(k)' <=> PermittedAt(k)
  BY DEF PermittedAt
<1>4. /\ would_be_allowed_at = "none" /\ run_as = "none"
      /\ decision = IF level = position(tier) THEN "none" ELSE "denied"
  BY DEF IInv, Undecided
<1>5. level # position(tier) => tier_order[level] \in {"standard", "developer", "unrestricted"}
  BY <1>2, TierOrder
<1>6. TypeOK'
  BY <1>4, <1>5 DEF IInv, TypeOK, Rules, developer_tier_run_as
<1>7. LowerTiersDeny'
  BY <1>3 DEF IInv, LowerTiersDeny
<1>8. Verdict'
  BY <1>1, <1>2, <1>3, <1>4 DEF Verdict
<1>9. (Idle /\ NothingBefore /\ Undecided)'
  BY DEF Idle, NothingBefore, Undecided
<1> QED  BY <1>6, <1>7, <1>8, <1>9 DEF IInv

(* A denial, whether by a rule or for want of one.                         *)
LEMMA DeniedInv == IInv /\ pc = "scan" /\ ~PermittedAt(level) /\ Denied => IInv'
<1> SUFFICES ASSUME IInv, pc = "scan", ~PermittedAt(level), Denied PROVE IInv'
  OBVIOUS
<1> USE DEF Denied, MoreTiers, config, scan
<1>1. /\ position(tier) \in 1..4 /\ level \in 1..4 /\ level >= position(tier)
      /\ Len(tier_order) = 4 /\ Listed(custom_rules)
  BY RulesListed, TierOrder DEF IInv, TypeOK
<1>2. \A k : PermittedAt(k)' <=> PermittedAt(k)
  BY DEF PermittedAt
<1>3. would_be_allowed_at = "none" /\ run_as = "none"
  BY DEF IInv, Undecided
<1>4. \A k \in position(tier)..level : ~PermittedAt(k)
  BY <1>1 DEF IInv, LowerTiersDeny
<1>5. CASE level < 4
  <2>1. level' = level + 1 /\ next' = 1 /\ pc' = pc /\ level' \in 1..4
    BY <1>1, <1>5
  <2>2. Listed(effective_rules_for(tier_order[level'], custom_rules))
    BY <1>1, <2>1, EffectiveRulesListed
  <2>3. Rules' = effective_rules_for(tier_order[level'], custom_rules)
    BY DEF Rules
  <2>4. next' \in 1..(Len(Rules') + 1)
    BY <2>1, <2>2, <2>3 DEF Listed
  <2>5. TypeOK'
    BY <1>1, <1>3, <2>1, <2>4 DEF IInv, TypeOK
  <2>6. LowerTiersDeny'
    BY <1>1, <1>2, <1>4, <2>1 DEF LowerTiersDeny
  <2>7. (Idle /\ NothingBefore /\ Undecided /\ Verdict)'
    BY <1>1, <1>3, <2>1 DEF Idle, NothingBefore, Undecided, Verdict
  <2> QED  BY <2>5, <2>6, <2>7 DEF IInv
<1>6. CASE ~(level < 4)
  <2>1. level = 4 /\ pc' = "done" /\ level' = level /\ next' = next
    BY <1>1, <1>6
  <2>2. TypeOK'
    BY <1>3, <2>1 DEF IInv, TypeOK, Rules
  <2>3. LowerTiersDeny'
    BY <1>1, <1>2, <1>4, <2>1 DEF LowerTiersDeny
  <2>4. Verdict'
    BY <1>1, <1>2, <1>3, <2>1 DEF Verdict
  <2>5. (Idle /\ NothingBefore /\ Undecided)'
    BY <2>1 DEF Idle, NothingBefore, Undecided
  <2> QED  BY <2>2, <2>3, <2>4, <2>5 DEF IInv
<1> QED  BY <1>5, <1>6

(* The reply leaves nothing behind for the next request.                   *)
LEMMA ReplyInv == IInv /\ Reply => IInv'
<1> SUFFICES ASSUME IInv, Reply PROVE IInv'
  OBVIOUS
<1> USE DEF Reply, config
<1>1. position(tier) \in 1..4 /\ Listed(custom_rules) /\ Len(tier_order) = 4
  BY RulesListed, TierOrder DEF IInv
<1>2. Listed(effective_rules_for(tier_order[position(tier)], custom_rules))
  BY <1>1, EffectiveRulesListed
<1>3. Rules' = effective_rules_for(tier_order[position(tier)], custom_rules)
  BY DEF Rules
<1>4. next' \in 1..(Len(Rules') + 1)
  BY <1>2, <1>3 DEF Listed
<1>5. TypeOK'
  BY <1>1, <1>4 DEF IInv, TypeOK
<1> QED  BY <1>5 DEF IInv, Idle, NothingBefore, LowerTiersDeny, Undecided, Verdict

(* The inductive invariant: what the scan has ruled out so far.            *)
THEOREM Inductive == Spec => []IInv
<1>1. Init => IInv
  BY InitInv
<1>2. IInv /\ [Next]_vars => IInv'
  <2> SUFFICES ASSUME IInv, [Next]_vars PROVE IInv'
    OBVIOUS
  <2>1. CASE Ask
    BY <2>1, AskInv
  <2>2. CASE Continue
    BY <2>2, ContinueInv
  <2>3. CASE AllowMatches
    BY <2>3, AllowInv
  <2>4. CASE DenyMatches
    <3>1. pc = "scan" /\ Denied
      BY <2>4 DEF DenyMatches, Scanning
    <3>2. ~PermittedAt(level)
      BY <2>4, <3>1, ScanDecides DEF IInv
    <3> QED  BY <3>1, <3>2, DeniedInv
  <2>5. CASE NoRuleMatches
    <3>1. pc = "scan" /\ Denied
      BY <2>5 DEF NoRuleMatches
    <3>2. ~PermittedAt(level)
      BY <2>5, <3>1, ScanDecides DEF IInv
    <3> QED  BY <3>1, <3>2, DeniedInv
  <2>6. CASE Reply
    BY <2>6, ReplyInv
  <2>7. CASE UNCHANGED vars
    BY <2>7 DEF vars, config, scan, answer, IInv, TypeOK, Idle, NothingBefore, LowerTiersDeny,
                Undecided, Verdict, PermittedAt, Rules
  <2> QED  BY <2>1, <2>2, <2>3, <2>4, <2>5, <2>6, <2>7 DEF Next
<1> QED  BY <1>1, <1>2, PTL DEF Spec

-----------------------------------------------------------------------------
(* The theorems.                                                           *)

(* Every variable of a lookup keeps its type.                              *)
THEOREM TypeCorrect == Spec => []TypeOK
<1>1. IInv => TypeOK
  BY DEF IInv
<1> QED  BY <1>1, Inductive, PTL

(* evaluate() computes the first match: the loop agrees with what the rule *)
(* list means, for every list.                                             *)
THEOREM DecisionCorrect == Spec => []DecisionIsFirstMatch
<1>1. IInv => DecisionIsFirstMatch
  <2> SUFFICES ASSUME IInv, pc = "done"
               PROVE  decision = "allowed" <=> PermittedAt(position(tier))
    BY DEF DecisionIsFirstMatch, Answered
  <2>1. CASE decision = "allowed"
    BY <2>1 DEF IInv, Verdict
  <2>2. CASE decision = "denied"
    <3>1. position(tier) \in 1..4 /\ level \in 1..4 /\ level >= position(tier)
      BY RulesListed DEF IInv, TypeOK
    <3>2. /\ \A k \in position(tier)..(level - 1) : ~PermittedAt(k)
          /\ level > position(tier) \/ ~PermittedAt(level)
      BY <2>2 DEF IInv, LowerTiersDeny, Verdict
    <3>3. ~PermittedAt(position(tier))
      BY <3>1, <3>2
    <3> QED  BY <2>2, <3>3
  <2> QED  BY <2>1, <2>2 DEF IInv, Verdict
<1> QED  BY <1>1, Inductive, PTL

(* Raising the tier never takes a permission away, whatever the custom     *)
(* rules are.                                                              *)
THEOREM TiersOrdered == Spec => []TiersAreOrdered
<1>1. IInv => TiersAreOrdered
  <2> SUFFICES ASSUME IInv, pc = "done", decision = "allowed",
                      NEW k \in 1..4, k >= position(tier)
               PROVE  PermittedAt(k)
    BY TierOrder DEF TiersAreOrdered, Answered
  <2>1. position(tier) \in 1..4 /\ Listed(custom_rules) /\ PermittedAt(position(tier))
    BY RulesListed DEF IInv, Verdict
  <2> QED  BY <2>1, HigherTiersPermit DEF PermittedAt
<1> QED  BY <1>1, Inductive, PTL

(* The suggested tier is the lowest of all tiers that allow the request.   *)
THEOREM SuggestionCorrect == Spec => []SuggestionIsLowest
<1>1. IInv => SuggestionIsLowest
  <2> SUFFICES ASSUME IInv, pc = "done", decision = "denied", NEW k \in 1..4, PermittedAt(k)
               PROVE  would_be_allowed_at # "none" /\ k >= position(would_be_allowed_at)
    BY TierOrder DEF SuggestionIsLowest, Answered
  <2>1. /\ position(tier) \in 1..4 /\ level \in 1..4 /\ level >= position(tier)
        /\ Len(tier_order) = 4 /\ Listed(custom_rules)
    BY RulesListed, TierOrder DEF IInv, TypeOK
  <2>2. \A j \in position(tier)..(level - 1) : ~PermittedAt(j)
    BY DEF IInv, LowerTiersDeny
  <2>3. k >= level
    <3> SUFFICES ASSUME k < level PROVE FALSE
      BY <2>1
    <3>1. level - 1 \in 1..4 /\ k <= level - 1
      BY <2>1
    <3>2. PermittedAt(level - 1)
      BY <2>1, <3>1, HigherTiersPermit DEF PermittedAt
    <3>3. level > position(tier) \/ ~PermittedAt(level)
      BY DEF IInv, Verdict
    <3>4. level > position(tier)
      BY <2>1, <3>3, HigherTiersPermit DEF PermittedAt
    <3>5. level - 1 \in position(tier)..(level - 1)
      BY <2>1, <3>1, <3>4
    <3> QED  BY <2>2, <3>2, <3>5
  <2>4. PermittedAt(level)
    <3>1. CASE would_be_allowed_at = "none"
      BY <2>1, <2>3, <3>1, TierOrder DEF IInv, Verdict
    <3>2. CASE would_be_allowed_at # "none"
      BY <3>2 DEF IInv, Verdict
    <3> QED  BY <3>1, <3>2
  <2>5. would_be_allowed_at = tier_order[level]
    BY <2>4 DEF IInv, Verdict
  <2>6. tier_order[level] # "none" /\ position(tier_order[level]) = level
    <3>1. level = 1 \/ level = 2 \/ level = 3 \/ level = 4
      BY <2>1
    <3> QED  BY <3>1, TierOrder, Positions
  <2> QED  BY <2>3, <2>5, <2>6
<1> QED  BY <1>1, Inductive, PTL

(* A custom rule that matches decides at every tier: no tier allows what a *)
(* custom deny refuses first, and none is suggested.                       *)
THEOREM CustomRulesDecide == Spec => []CustomRulesWin
<1>1. IInv => CustomRulesWin
  <2> SUFFICES ASSUME IInv, pc = "done",
                      \E k \in DOMAIN custom_rules : Matches(custom_rules[k], request)
               PROVE  /\ decision = "allowed" <=> Permits(custom_rules, request)
                      /\ would_be_allowed_at = "none"
    BY DEF CustomRulesWin, Answered
  <2>1. /\ position(tier) \in 1..4 /\ level \in 1..4 /\ level >= position(tier)
        /\ Listed(custom_rules)
    BY RulesListed DEF IInv, TypeOK
  <2>2. \A k \in 1..4 : PermittedAt(k) <=> Permits(custom_rules, request)
    <3> TAKE k \in 1..4
    <3>1. Listed(rules_for_tier(tier_order[k]))
      BY <2>1, EffectiveRulesListed
    <3> QED  BY <2>1, <3>1, FirstListDecides DEF PermittedAt, effective_rules_for
  <2>3. level > position(tier) => ~PermittedAt(position(tier))
    BY <2>1 DEF IInv, LowerTiersDeny
  <2>4. PermittedAt(level) => level = position(tier)
    BY <2>1, <2>2, <2>3
  <2> QED  BY <2>1, <2>2, <2>4 DEF IInv, Verdict
<1> QED  BY <1>1, Inductive, PTL

(* What the developer tier runs as root, standard would have allowed: the  *)
(* tools it adds are never root, since none of them is a root tool.        *)
THEOREM DeveloperIsNotRoot == Spec => []DeveloperAddsNoRoot
<1>1. IInv => DeveloperAddsNoRoot
  <2> SUFFICES ASSUME IInv, pc = "done", tier = "developer", run_as = "root"
               PROVE  PermittedAt(2)
    BY Positions DEF DeveloperAddsNoRoot, Answered
  <2> DEFINE rules == custom_rules \o standard_rules
  <2>1. Listed(custom_rules) /\ Listed(rules)
    BY RulesListed, Tables, ListedConcat DEF IInv
  <2>2. PermittedAt(3) /\ request.command \in ROOT_REQUIRED_TOOLS
    BY Positions DEF IInv, Verdict, developer_tier_run_as
  <2>3. Permits(rules \o added_by_developer, request)
    <3>1. Listed(standard_rules) /\ Listed(added_by_developer)
      BY Tables
    <3>2. custom_rules \o (standard_rules \o added_by_developer)
            = (custom_rules \o standard_rules) \o added_by_developer
      BY <2>1, <3>1, ConcatAssociates
    <3>3. Permits(custom_rules \o developer_rules, request)
      BY <2>2, TierOrder, RulesForTier DEF PermittedAt, effective_rules_for
    <3> QED  BY <3>2, <3>3 DEF developer_rules
  <2>4. PermittedAt(2) <=> Permits(rules, request)
    BY TierOrder, RulesForTier DEF PermittedAt, effective_rules_for
  <2> HIDE DEF rules
  <2>5. ASSUME ~Permits(rules, request) PROVE FALSE
    <3>1. PICK x \in Elements(added_by_developer) : Matches(x, request)
      BY <2>1, <2>3, <2>5, Tables, AddedPermits
    <3> QED  BY <2>2, <3>1, DeveloperRules DEF Matches
  <2> QED  BY <2>4, <2>5
<1> QED  BY <1>1, Inductive, PTL

(* No flag that a tier's rules refuse gets past them: no allow of the same *)
(* command comes before the deny, but for those that read a unit's status. *)
THEOREM NoDenyIsShadowed == Spec => []DeniesAreReached
<1>1. IInv => DeniesAreReached
  <2> SUFFICES ASSUME IInv, pc = "done", decision = "allowed", custom_rules = <<>>,
                      NEW k \in DOMAIN rules_for_tier(tier),
                      rules_for_tier(tier)[k].effect = "deny", Matches(rules_for_tier(tier)[k], request)
               PROVE  /\ rules_for_tier(tier)[k].arg_pattern = SYSTEMCTL_TARGET_LIFECYCLE
                      /\ request.args[1] \in {"status", "is-active", "is-enabled"}
    BY DEF DeniesAreReached, Answered
  <2>1. tier_order[position(tier)] = tier /\ PermittedAt(position(tier))
        /\ tier \in {"safe", "standard", "developer", "unrestricted"}
    BY RulesListed DEF IInv, Verdict, TypeOK
  <2>2. Listed(rules_for_tier(tier))
    BY <2>1, Tables, RulesForTier
  <2>3. Permits(rules_for_tier(tier), request)
    BY <2>1, <2>2, ConcatEmpty DEF PermittedAt, effective_rules_for
  <2> QED  BY <2>1, <2>3, DeniesComeFirst
<1> QED  BY <1>1, Inductive, PTL

(* The tier that a denial suggests is listed among those that unlock the   *)
(* command: list_capabilities looks at descriptions, evaluate at rules,    *)
(* and the rule that permits is described as none of the active tier is.   *)
THEOREM SuggestionIsListed == Spec => []UnlocksAreListed
<1>1. IInv => UnlocksAreListed
  <2> DEFINE lower  == effective_rules_for(tier, custom_rules)
             higher == effective_rules_for(tier_order[level], custom_rules)
  <2> SUFFICES ASSUME IInv, pc = "done", would_be_allowed_at # "none",
                      \A k \in DOMAIN custom_rules :
                        ~Borrows(custom_rules[k], would_be_allowed_at, request)
               PROVE  \E d \in list_capabilities(tier, custom_rules)[position(would_be_allowed_at)] :
                        d.effect = "allow" /\ d.command \in {EmptyString, request.command}
    BY DEF UnlocksAreListed, Answered
  <2>1. /\ position(tier) \in 1..4 /\ level \in 1..4 /\ level > position(tier)
        /\ tier_order[position(tier)] = tier /\ Listed(custom_rules)
        /\ would_be_allowed_at = tier_order[level] /\ PermittedAt(level)
    BY RulesListed DEF IInv, Verdict
  <2>2. level \in 2..4 /\ level - 1 \in position(tier)..(level - 1) /\ position(tier) \in 1..(level - 1)
    BY <2>1
  <2>3. ~PermittedAt(level - 1)
    BY <2>2 DEF IInv, LowerTiersDeny
  <2>4. PICK k \in DOMAIN higher :
          /\ higher[k].effect = "allow" /\ Matches(higher[k], request)
          /\ higher[k] \in Elements(rules_for_tier(tier_order[level]))
          /\ \A p \in 1..(level - 1) : \A x \in Elements(rules_for_tier(tier_order[p])) :
               x.description # higher[k].description
    <3>1. ~Permits(effective_rules_for(tier_order[level - 1], custom_rules), request) /\ Permits(higher, request)
      BY <2>1, <2>3 DEF PermittedAt
    <3> QED  BY <2>1, <2>2, <3>1, UnlockedByNewRule
  <2>5. \A x \in Elements(rules_for_tier(tier)) : x.description # higher[k].description
    BY <2>1, <2>2, <2>4
  <2>6. \A x \in Elements(custom_rules) : x.description # higher[k].description
    <3>1. PICK j \in DOMAIN rules_for_tier(would_be_allowed_at) :
            rules_for_tier(would_be_allowed_at)[j] = higher[k]
      BY <2>1, <2>4 DEF Elements
    <3> QED  BY <2>4, <3>1 DEF Elements, Borrows
  <2>7. Elements(lower) = Elements(custom_rules) \cup Elements(rules_for_tier(tier))
    <3>1. Listed(rules_for_tier(tier))
      BY <2>1, EffectiveRulesListed
    <3> QED  BY <2>1, <3>1, ElementsConcat DEF effective_rules_for
  <2>8. \A i \in DOMAIN lower : lower[i].description # higher[k].description
    BY <2>5, <2>6, <2>7 DEF Elements
  <2> HIDE DEF lower, higher
  <2>9. describe(higher[k]) \in additional_rules(lower, higher)
    BY <2>4, <2>8 DEF additional_rules
  <2>10. list_capabilities(tier, custom_rules)[position(would_be_allowed_at)] = additional_rules(lower, higher)
    <3>1. position(would_be_allowed_at) = level
      <4>1. level = 1 \/ level = 2 \/ level = 3 \/ level = 4
        BY <2>1
      <4> QED  BY <2>1, <4>1, TierOrder, Positions
    <3>2. level \in (position(tier) + 1)..Len(tier_order)
      BY <2>1, TierOrder
    <3> QED  BY <3>1, <3>2 DEF list_capabilities, lower, higher
  <2>11. describe(higher[k]).effect = "allow" /\ describe(higher[k]).command \in {EmptyString, request.command}
    BY <2>4 DEF describe, Matches
  <2> QED  BY <2>9, <2>10, <2>11
<1> QED  BY <1>1, Inductive, PTL
=============================================================================
