---------------------------- MODULE TiersProofs ----------------------------
(***************************************************************************)
(* Lemmas about the rule tables and about what a list of rules means, for  *)
(* whatever is proved of the policy and of the server.  The order of the   *)
(* tiers rests on the tables as sequences that extend each other, and on   *)
(* nothing a pattern matches, except that a rule without one matches all.  *)
(* That every deny is reached rests on the verbs their allows start with.  *)
(***************************************************************************)
EXTENDS Tiers, WellFoundedInduction, TLAPS

-----------------------------------------------------------------------------
(* Sequences.                                                              *)

Listed(s) == \E S : s \in Seq(S)

(* The tables are written with one rule, with two, four, five and eight.   *)
LEMMA Listed1 == \A a : Listed(<<a>>)
<1> TAKE a
<1>1. <<a>> \in Seq({a})
  OBVIOUS
<1> QED  BY <1>1 DEF Listed

(* Two rules.                                                              *)
LEMMA Listed2 == \A a, b : Listed(<<a, b>>)
<1> TAKE a, b
<1>1. <<a, b>> \in Seq({a, b})
  OBVIOUS
<1> QED  BY <1>1 DEF Listed

(* Four rules.                                                             *)
LEMMA Listed4 == \A a, b, c, d : Listed(<<a, b, c, d>>)
<1> TAKE a, b, c, d
<1>1. <<a, b, c, d>> \in Seq({a, b, c, d})
  OBVIOUS
<1> QED  BY <1>1 DEF Listed

(* Five rules.                                                             *)
LEMMA Listed5 == \A a, b, c, d, e : Listed(<<a, b, c, d, e>>)
<1> TAKE a, b, c, d, e
<1>1. <<a, b, c, d, e>> \in Seq({a, b, c, d, e})
  OBVIOUS
<1> QED  BY <1>1 DEF Listed

(* Eight rules.                                                            *)
LEMMA Listed8 == \A a, b, c, d, e, f, g, h : Listed(<<a, b, c, d, e, f, g, h>>)
<1> TAKE a, b, c, d, e, f, g, h
<1>1. <<a, b, c, d, e, f, g, h>> \in Seq({a, b, c, d, e, f, g, h})
  OBVIOUS
<1> QED  BY <1>1 DEF Listed

(* Tables are put together from tables.                                    *)
LEMMA ListedConcat ==
  ASSUME NEW s, NEW t, Listed(s), Listed(t)
  PROVE  Listed(s \o t)
<1>1. PICK S : s \in Seq(S)
  BY DEF Listed
<1>2. PICK T : t \in Seq(T)
  BY DEF Listed
<1>3. s \in Seq(S \cup T) /\ t \in Seq(S \cup T)
  BY <1>1, <1>2
<1>4. s \o t \in Seq(S \cup T)
  BY <1>3
<1> QED  BY <1>4 DEF Listed

(* Where an element of a concatenation comes from.                         *)
LEMMA Concat ==
  ASSUME NEW s, NEW t, Listed(s), Listed(t)
  PROVE  /\ Len(s) \in Nat /\ Len(t) \in Nat
         /\ DOMAIN s = 1..Len(s) /\ DOMAIN t = 1..Len(t)
         /\ DOMAIN (s \o t) = 1..(Len(s) + Len(t))
         /\ Len(s \o t) = Len(s) + Len(t)
         /\ \A k \in 1..Len(s) : (s \o t)[k] = s[k]
         /\ \A k \in 1..Len(t) : (s \o t)[Len(s) + k] = t[k]
<1>1. PICK S : s \in Seq(S)
  BY DEF Listed
<1>2. PICK T : t \in Seq(T)
  BY DEF Listed
<1>3. s \in Seq(S \cup T) /\ t \in Seq(S \cup T)
  BY <1>1, <1>2
<1> QED  BY <1>3

(* A set of natural numbers that is not empty has a least element.         *)
LEMMA Least ==
  ASSUME NEW T, T \subseteq Nat, T # {}
  PROVE  \E m \in T : \A n \in T : m <= n
<1> DEFINE R == OpToRel(<, Nat)
<1>1. IsWellFoundedOn(R, Nat)
  BY NatLessThanWellFounded
<1>2. \A x, y \in Nat : <<y, x>> \in R <=> y < x
  BY DEF OpToRel
<1> HIDE DEF R
<1>3. PICK m \in T : \A n \in T : ~(<<n, m>> \in R)
  BY <1>1, WFMin
<1>4. m \in Nat /\ \A n \in T : n \in Nat
  OBVIOUS
<1>5. \A n \in T : ~(n < m)
  BY <1>2, <1>3, <1>4, Zenon
<1>6. \A n \in T : m <= n
  BY <1>4, <1>5
<1> QED  BY <1>6

Elements(s) == {s[k] : k \in DOMAIN s}

(* A table that is put together has the rules of both parts.               *)
LEMMA ElementsConcat ==
  ASSUME NEW s, NEW t, Listed(s), Listed(t)
  PROVE  Elements(s \o t) = Elements(s) \cup Elements(t)
<1>1. /\ Len(s) \in Nat /\ Len(t) \in Nat /\ DOMAIN s = 1..Len(s) /\ DOMAIN t = 1..Len(t)
      /\ DOMAIN (s \o t) = 1..(Len(s) + Len(t))
      /\ \A k \in 1..Len(s) : (s \o t)[k] = s[k]
      /\ \A k \in 1..Len(t) : (s \o t)[Len(s) + k] = t[k]
  BY Concat
<1> DEFINE c == s \o t
           m == Len(s)
           n == Len(t)
<1> HIDE DEF c, m, n
<1>2. /\ m \in Nat /\ n \in Nat /\ DOMAIN s = 1..m /\ DOMAIN t = 1..n /\ DOMAIN c = 1..(m + n)
      /\ \A k \in 1..m : c[k] = s[k]
      /\ \A k \in 1..n : c[m + k] = t[k]
  BY <1>1 DEF c, m, n
<1>3. ASSUME NEW x \in Elements(c) PROVE x \in Elements(s) \cup Elements(t)
  <2>1. PICK k \in 1..(m + n) : x = c[k]
    BY <1>2, <1>3 DEF Elements
  <2>2. CASE k \in 1..m
    BY <1>2, <2>1, <2>2 DEF Elements
  <2>3. CASE k \notin 1..m
    <3>1. k - m \in 1..n /\ k = m + (k - m)
      BY <1>2, <2>3
    <3>2. x = t[k - m]
      BY <1>2, <2>1, <3>1
    <3> QED  BY <1>2, <3>1, <3>2 DEF Elements
  <2> QED  BY <2>2, <2>3
<1>4. ASSUME NEW x \in Elements(s) \cup Elements(t) PROVE x \in Elements(c)
  <2>1. CASE x \in Elements(s)
    <3>1. PICK k \in 1..m : x = s[k]
      BY <1>2, <2>1 DEF Elements
    <3>2. k \in 1..(m + n) /\ x = c[k]
      BY <1>2, <3>1
    <3> QED  BY <1>2, <3>2 DEF Elements
  <2>2. CASE x \in Elements(t)
    <3>1. PICK k \in 1..n : x = t[k]
      BY <1>2, <2>2 DEF Elements
    <3>2. m + k \in 1..(m + n) /\ x = c[m + k]
      BY <1>2, <3>1
    <3> QED  BY <1>2, <3>2 DEF Elements
  <2> QED  BY <1>4, <2>1, <2>2
<1> QED  BY <1>3, <1>4 DEF c

(* The rules of a table that is written out.                               *)
LEMMA ElementsOf ==
  /\ \A a : Elements(<<a>>) = {a}
  /\ \A a, b : Elements(<<a, b>>) = {a, b}
  /\ \A a, b, c, d : Elements(<<a, b, c, d>>) = {a, b, c, d}
  /\ \A a, b, c, d, e : Elements(<<a, b, c, d, e>>) = {a, b, c, d, e}
  /\ \A a, b, c, d, e, f, g, h : Elements(<<a, b, c, d, e, f, g, h>>) = {a, b, c, d, e, f, g, h}
<1>1. \A a : Elements(<<a>>) = {a}
  BY DEF Elements
<1>2. \A a, b : Elements(<<a, b>>) = {a, b}
  BY DEF Elements
<1>3. \A a, b, c, d : Elements(<<a, b, c, d>>) = {a, b, c, d}
  BY DEF Elements
<1>4. \A a, b, c, d, e : Elements(<<a, b, c, d, e>>) = {a, b, c, d, e}
  BY DEF Elements
<1>5. \A a, b, c, d, e, f, g, h : Elements(<<a, b, c, d, e, f, g, h>>) = {a, b, c, d, e, f, g, h}
  BY DEF Elements
<1> QED  BY <1>1, <1>2, <1>3, <1>4, <1>5

-----------------------------------------------------------------------------
(* Rule lists.                                                             *)

(* A rule list that permits a request still does with rules added at its   *)
(* end.                                                                    *)
LEMMA PermitsPrefix ==
  ASSUME NEW s, NEW t, NEW r, Listed(s), Listed(t), Permits(s, r)
  PROVE  Permits(s \o t, r)
<1>1. PICK k \in DOMAIN s :
        /\ Matches(s[k], r) /\ s[k].effect = "allow"
        /\ \A j \in 1..(k - 1) : ~Matches(s[j], r)
  BY DEF Permits
<1>2. k \in DOMAIN (s \o t) /\ (s \o t)[k] = s[k]
  BY Concat
<1>3. \A j \in 1..(k - 1) : (s \o t)[j] = s[j]
  BY Concat
<1> QED  BY <1>1, <1>2, <1>3 DEF Permits

(* Once a rule of the first list matches, the second does not count.       *)
LEMMA FirstListDecides ==
  ASSUME NEW s, NEW t, NEW r, Listed(s), Listed(t),
         \E k \in DOMAIN s : Matches(s[k], r)
  PROVE  Permits(s \o t, r) <=> Permits(s, r)
<1>1. SUFFICES ASSUME Permits(s \o t, r) PROVE Permits(s, r)
  BY PermitsPrefix
<1>2. PICK k \in DOMAIN (s \o t) :
        /\ Matches((s \o t)[k], r) /\ (s \o t)[k].effect = "allow"
        /\ \A j \in 1..(k - 1) : ~Matches((s \o t)[j], r)
  BY <1>1 DEF Permits
<1>3. PICK m \in DOMAIN s : Matches(s[m], r)
  OBVIOUS
<1>4. m \in 1..Len(s) /\ (s \o t)[m] = s[m] /\ k \in Nat /\ m \in Nat
  BY Concat
<1>5. k \in DOMAIN s
  BY <1>2, <1>3, <1>4, Concat
<1>6. \A j \in 1..k : (s \o t)[j] = s[j]
  BY <1>5, Concat
<1> QED  BY <1>2, <1>5, <1>6, Concat DEF Permits

(* What is appended to the second of two lists comes after both.           *)
LEMMA ConcatAssociates ==
  ASSUME NEW c, NEW s, NEW t, Listed(c), Listed(s), Listed(t)
  PROVE  c \o (s \o t) = (c \o s) \o t
<1>1. PICK C : c \in Seq(C)
  BY DEF Listed
<1>2. PICK S : s \in Seq(S)
  BY DEF Listed
<1>3. PICK T : t \in Seq(T)
  BY DEF Listed
<1>4. /\ c \in Seq(C \cup S \cup T) /\ s \in Seq(C \cup S \cup T) /\ t \in Seq(C \cup S \cup T)
  BY <1>1, <1>2, <1>3
<1> QED  BY <1>4


-----------------------------------------------------------------------------
(* The tables.                                                             *)

(* The parts of the tables are tables.                                     *)
LEMMA Parts ==
  /\ Listed(systemctl_safe) /\ Listed(journalctl_safe) /\ Listed(diagnostics_safe)
  /\ Listed(units_standard) /\ Listed(packages_standard)
  /\ Listed(<< allow("journalctl", None, "read_the_journal_unscoped") >>)
<1>1. Listed(systemctl_safe) /\ Listed(journalctl_safe) /\ Listed(diagnostics_safe)
  BY Listed4, Listed8 DEF systemctl_safe, journalctl_safe, diagnostics_safe
<1>2. Listed(units_standard) /\ Listed(packages_standard)
  BY Listed2, Listed5 DEF units_standard, packages_standard
<1>3. Listed(<< allow("journalctl", None, "read_the_journal_unscoped") >>)
  BY Listed1
<1> QED  BY <1>1, <1>2, <1>3

(* So are the tables of the tiers.                                         *)
LEMMA Tables ==
  Listed(safe_rules) /\ Listed(added_by_standard) /\ Listed(added_by_developer)
  /\ Listed(unrestricted_rules) /\ Listed(standard_rules) /\ Listed(developer_rules)
<1>1. Listed(systemctl_safe) /\ Listed(journalctl_safe) /\ Listed(diagnostics_safe)
  BY Parts
<1>2. Listed(systemctl_safe \o journalctl_safe)
  BY <1>1, ListedConcat
<1>3. Listed(safe_rules)
  BY <1>1, <1>2, ListedConcat DEF safe_rules
<1>4. Listed(units_standard) /\ Listed(packages_standard)
  BY Parts
<1>5. Listed(<< allow("journalctl", None, "read_the_journal_unscoped") >>)
  BY Parts
<1>6. Listed(units_standard \o packages_standard)
  BY <1>4, ListedConcat
<1>7. Listed(added_by_standard)
  BY <1>5, <1>6, ListedConcat DEF added_by_standard
<1>8. DOMAIN DEVELOPER_TOOLS = 1..9
  BY DEF DEVELOPER_TOOLS
<1>9. added_by_developer \in
        Seq({allow(DEVELOPER_TOOLS[k], None, "run_as_developer_user") : k \in 1..9})
  BY <1>8 DEF added_by_developer
<1>10. Listed(added_by_developer)
  BY <1>9 DEF Listed
<1>11. Listed(unrestricted_rules)
  BY Listed1 DEF unrestricted_rules
<1>12. Listed(standard_rules)
  BY <1>3, <1>7, ListedConcat DEF standard_rules
<1>13. Listed(developer_rules)
  BY <1>10, <1>12, ListedConcat DEF developer_rules
<1> QED  BY <1>3, <1>7, <1>10, <1>11, <1>12, <1>13

(* No tool the developer tier adds is one that must stay root.             *)
LEMMA DeveloperTools ==
  /\ DOMAIN added_by_developer = 1..9 /\ Len(added_by_developer) = 9
  /\ \A j \in 1..9 : added_by_developer[j].command \notin ROOT_REQUIRED_TOOLS \cup {EmptyString}
<1>1. /\ DOMAIN DEVELOPER_TOOLS = 1..9
      /\ DEVELOPER_TOOLS[1] = "bash" /\ DEVELOPER_TOOLS[2] = "sh" /\ DEVELOPER_TOOLS[3] = "python3"
      /\ DEVELOPER_TOOLS[4] = "gcc" /\ DEVELOPER_TOOLS[5] = "cc" /\ DEVELOPER_TOOLS[6] = "node"
      /\ DEVELOPER_TOOLS[7] = "npm" /\ DEVELOPER_TOOLS[8] = "cargo" /\ DEVELOPER_TOOLS[9] = "make"
  BY DEF DEVELOPER_TOOLS
<1>2. DOMAIN added_by_developer = 1..9
  BY <1>1 DEF added_by_developer
<1>3. Len(added_by_developer) = 9
  BY <1>2, Tables DEF Listed
<1>4. \A j \in 1..9 : added_by_developer[j].command = DEVELOPER_TOOLS[j]
  BY <1>1 DEF added_by_developer, allow
<1>5. \A j \in 1..9 : j = 1 \/ j = 2 \/ j = 3 \/ j = 4 \/ j = 5 \/ j = 6 \/ j = 7 \/ j = 8 \/ j = 9
  OBVIOUS
<1>6. \A j \in 1..9 : DEVELOPER_TOOLS[j] \notin ROOT_REQUIRED_TOOLS \cup {EmptyString}
  BY <1>1, <1>5 DEF ROOT_REQUIRED_TOOLS, EmptyString
<1> QED  BY <1>2, <1>3, <1>4, <1>6

(* tier_order, index by index.                                             *)
LEMMA TierOrder ==
  /\ Len(tier_order) = 4 /\ DOMAIN tier_order = 1..4
  /\ tier_order[1] = "safe" /\ tier_order[2] = "standard"
  /\ tier_order[3] = "developer" /\ tier_order[4] = "unrestricted"
  BY DEF tier_order

(* Each tier's place in tier_order.                                        *)
LEMMA Positions ==
  /\ position("safe") = 1 /\ position("standard") = 2
  /\ position("developer") = 3 /\ position("unrestricted") = 4
<1>1. \A k \in 1..4 : k = 1 \/ k = 2 \/ k = 3 \/ k = 4
  OBVIOUS
<1> QED  BY <1>1, TierOrder DEF position

(* rules_for_tier, tier by tier.                                           *)
LEMMA RulesForTier ==
  /\ rules_for_tier("safe") = safe_rules
  /\ rules_for_tier("standard") = standard_rules
  /\ rules_for_tier("developer") = developer_rules
  /\ rules_for_tier("unrestricted") = unrestricted_rules
  BY DEF rules_for_tier

(* What evaluate scans is a list, whatever the custom rules.               *)
LEMMA EffectiveRulesListed ==
  ASSUME NEW c, Listed(c), NEW k \in 1..4
  PROVE  /\ Listed(rules_for_tier(tier_order[k]))
         /\ Listed(effective_rules_for(tier_order[k], c))
<1>1. k = 1 \/ k = 2 \/ k = 3 \/ k = 4
  OBVIOUS
<1>2. Listed(rules_for_tier(tier_order[k]))
  BY <1>1, Tables, TierOrder, RulesForTier
<1> QED  BY <1>2, ListedConcat DEF effective_rules_for

(* The wildcard of the unrestricted tier is reached unless a custom rule   *)
(* decides, and a custom rule decides alike everywhere.                    *)
LEMMA UnrestrictedPermits ==
  ASSUME NEW c, NEW t, NEW r, Listed(c), Listed(t), Permits(c \o t, r)
  PROVE  Permits(c \o unrestricted_rules, r)
<1>1. CASE \E k \in DOMAIN c : Matches(c[k], r)
  BY <1>1, Tables, FirstListDecides
<1>2. CASE \A k \in DOMAIN c : ~Matches(c[k], r)
  <2> DEFINE rules == c \o unrestricted_rules
             wild  == allow(EmptyString, None, "every_command_no_restrictions")
  <2>1. /\ Len(c) \in Nat /\ DOMAIN c = 1..Len(c) /\ DOMAIN rules = 1..(Len(c) + 1)
        /\ rules[Len(c) + 1] = wild
        /\ \A j \in 1..Len(c) : rules[j] = c[j]
    <3>1. Len(unrestricted_rules) = 1 /\ unrestricted_rules[1] = wild
      BY DEF unrestricted_rules
    <3>2. /\ Len(c) \in Nat /\ DOMAIN c = 1..Len(c)
          /\ DOMAIN rules = 1..(Len(c) + Len(unrestricted_rules))
          /\ \A j \in 1..Len(c) : rules[j] = c[j]
          /\ \A j \in 1..Len(unrestricted_rules) : rules[Len(c) + j] = unrestricted_rules[j]
      BY Tables, Concat
    <3> HIDE DEF rules, wild
    <3> QED  BY <3>1, <3>2
  <2>2. Matches(wild, r) /\ wild.effect = "allow"
    BY DEF Matches, is_match, allow, None
  <2> HIDE DEF rules, wild
  <2>3. \A j \in 1..((Len(c) + 1) - 1) : ~Matches(rules[j], r)
    BY <1>2, <2>1
  <2>4. Permits(rules, r)
    BY <2>1, <2>2, <2>3 DEF Permits
  <2> QED  BY <2>4 DEF rules
<1> QED  BY <1>1, <1>2

(* Raising the tier by one never takes a permission away.                  *)
LEMMA NextTierPermits ==
  ASSUME NEW c, NEW r, Listed(c), NEW k \in 1..3,
         Permits(effective_rules_for(tier_order[k], c), r)
  PROVE  Permits(effective_rules_for(tier_order[k + 1], c), r)
<1>1. k = 1 \/ k = 2 \/ k = 3
  OBVIOUS
<1>2. CASE k = 1
  <2>1. Permits(c \o safe_rules, r)
    BY <1>2, TierOrder, RulesForTier DEF effective_rules_for
  <2>2. Permits((c \o safe_rules) \o added_by_standard, r)
    BY <2>1, Tables, ListedConcat, PermitsPrefix
  <2>3. c \o (safe_rules \o added_by_standard) = (c \o safe_rules) \o added_by_standard
    <3>1. Listed(safe_rules) /\ Listed(added_by_standard)
      BY Tables
    <3> QED  BY <3>1, ConcatAssociates
  <2>4. Permits(c \o standard_rules, r)
    BY <2>2, <2>3 DEF standard_rules
  <2> QED  BY <1>2, <2>4, TierOrder, RulesForTier DEF effective_rules_for
<1>3. CASE k = 2
  <2>1. Permits(c \o standard_rules, r)
    BY <1>3, TierOrder, RulesForTier DEF effective_rules_for
  <2>2. Permits((c \o standard_rules) \o added_by_developer, r)
    BY <2>1, Tables, ListedConcat, PermitsPrefix
  <2>3. c \o (standard_rules \o added_by_developer) = (c \o standard_rules) \o added_by_developer
    <3>1. Listed(standard_rules) /\ Listed(added_by_developer)
      BY Tables
    <3> QED  BY <3>1, ConcatAssociates
  <2>4. Permits(c \o developer_rules, r)
    BY <2>2, <2>3 DEF developer_rules
  <2> QED  BY <1>3, <2>4, TierOrder, RulesForTier DEF effective_rules_for
<1>4. CASE k = 3
  <2>1. Permits(c \o developer_rules, r)
    BY <1>4, TierOrder, RulesForTier DEF effective_rules_for
  <2>2. Permits(c \o unrestricted_rules, r)
    BY <2>1, Tables, UnrestrictedPermits
  <2> QED  BY <1>4, <2>2, TierOrder, RulesForTier DEF effective_rules_for
<1> QED  BY <1>1, <1>2, <1>3, <1>4

(* From one tier to any higher one, one tier at a time.                    *)
LEMMA HigherTiersPermit ==
  ASSUME NEW c, NEW r, Listed(c), NEW k \in 1..4, NEW m \in 1..4, k <= m,
         Permits(effective_rules_for(tier_order[k], c), r)
  PROVE  Permits(effective_rules_for(tier_order[m], c), r)
<1> DEFINE P(j) == Permits(effective_rules_for(tier_order[j], c), r)
<1>1. \A j \in 1..3 : P(j) => P(j + 1)
  BY NextTierPermits
<1>2. (P(1) => P(2)) /\ (P(2) => P(3)) /\ (P(3) => P(4))
  <2>1. (P(1) => P(1 + 1)) /\ (P(2) => P(2 + 1)) /\ (P(3) => P(3 + 1))
    BY <1>1
  <2>2. 1 + 1 = 2 /\ 2 + 1 = 3 /\ 3 + 1 = 4
    OBVIOUS
  <2> QED  BY <2>1, <2>2
<1>3. P(k)
  OBVIOUS
<1> HIDE DEF P
<1>4. (k = 1 \/ k = 2 \/ k = 3 \/ k = 4) /\ (m = 1 \/ m = 2 \/ m = 3 \/ m = 4)
  OBVIOUS
<1>5. P(m)
  BY <1>2, <1>3, <1>4
<1> QED  BY <1>5 DEF P

-----------------------------------------------------------------------------
(* What the denies of the tables look for.                                 *)

(* The fields of an allow and of a deny.                                   *)
LEMMA RuleFields ==
  ASSUME NEW c, NEW p, NEW d
  PROVE  /\ allow(c, p, d).command = c /\ allow(c, p, d).arg_pattern = p
         /\ allow(c, p, d).effect = "allow" /\ allow(c, p, d).description = d
         /\ deny(c, p, d).command = c /\ deny(c, p, d).arg_pattern = p
         /\ deny(c, p, d).effect = "deny" /\ deny(c, p, d).description = d
BY DEF allow, deny

DeniesName(rules) ==
  \A k \in DOMAIN rules : rules[k].effect = "deny" => rules[k].command # EmptyString

(* If the denies of two lists name a command, so do those of both          *)
(* together.                                                               *)
LEMMA DeniesNameConcat ==
  ASSUME NEW s, NEW t, Listed(s), Listed(t), DeniesName(s), DeniesName(t)
  PROVE  DeniesName(s \o t)
<1> SUFFICES ASSUME NEW k \in DOMAIN (s \o t), (s \o t)[k].effect = "deny"
             PROVE  (s \o t)[k].command # EmptyString
  BY DEF DeniesName
<1>1. k \in 1..(Len(s) + Len(t)) /\ Len(s) \in Nat /\ Len(t) \in Nat
  BY Concat
<1>2. CASE k \in 1..Len(s)
  BY <1>2, Concat DEF DeniesName
<1>3. CASE k \notin 1..Len(s)
  <2>1. k - Len(s) \in 1..Len(t) /\ k = Len(s) + (k - Len(s))
    BY <1>1, <1>3
  <2>2. (s \o t)[k] = t[k - Len(s)] /\ k - Len(s) \in DOMAIN t
    BY <2>1, Concat
  <2> QED
    BY <2>2 DEF DeniesName
<1> QED
  BY <1>2, <1>3

(* No deny of a tier is for every command.                                 *)
LEMMA TierDeniesName ==
  ASSUME NEW tier \in {"safe", "standard", "developer", "unrestricted"}
  PROVE  DeniesName(rules_for_tier(tier))
<1>1. "systemctl" # EmptyString /\ "journalctl" # EmptyString /\ "ping" # EmptyString
      /\ "sar" # EmptyString /\ "top" # EmptyString /\ "dnf" # EmptyString /\ "rpm-ostree" # EmptyString
  BY DEF EmptyString
<1>2. DeniesName(systemctl_safe) /\ DeniesName(journalctl_safe) /\ DeniesName(diagnostics_safe)
  <2>1. DeniesName(systemctl_safe)
    BY <1>1, RuleFields DEF DeniesName, systemctl_safe
  <2>2. DeniesName(journalctl_safe)
    BY <1>1, RuleFields DEF DeniesName, journalctl_safe
  <2>3. DeniesName(diagnostics_safe)
    BY <1>1, RuleFields DEF DeniesName, diagnostics_safe
  <2> QED
    BY <2>1, <2>2, <2>3
<1>3. DeniesName(units_standard) /\ DeniesName(packages_standard)
      /\ DeniesName(<< allow("journalctl", None, "read_the_journal_unscoped") >>)
  <2>1. DeniesName(units_standard)
    BY <1>1, RuleFields DEF DeniesName, units_standard
  <2>2. DeniesName(packages_standard)
    BY <1>1, RuleFields DEF DeniesName, packages_standard
  <2>3. DeniesName(<< allow("journalctl", None, "read_the_journal_unscoped") >>)
    BY <1>1, RuleFields DEF DeniesName
  <2> QED
    BY <2>1, <2>2, <2>3
<1>4. DeniesName(added_by_developer) /\ DeniesName(unrestricted_rules)
  <2>1. DeniesName(added_by_developer)
    BY RuleFields DEF DeniesName, added_by_developer
  <2>2. DeniesName(unrestricted_rules)
    BY RuleFields DEF DeniesName, unrestricted_rules
  <2> QED
    BY <2>1, <2>2
<1>5. Listed(systemctl_safe) /\ Listed(journalctl_safe) /\ Listed(diagnostics_safe)
      /\ Listed(units_standard) /\ Listed(packages_standard)
      /\ Listed(<< allow("journalctl", None, "read_the_journal_unscoped") >>)
  BY Parts
<1>6. DeniesName(safe_rules) /\ DeniesName(added_by_standard)
  BY <1>2, <1>3, <1>5, ListedConcat, DeniesNameConcat DEF safe_rules, added_by_standard
<1>7. DeniesName(standard_rules)
  BY <1>6, Tables, DeniesNameConcat DEF standard_rules
<1>8. DeniesName(developer_rules)
  BY <1>4, <1>7, Tables, DeniesNameConcat DEF developer_rules
<1> QED
  BY <1>4, <1>6, <1>7, <1>8, RulesForTier

-----------------------------------------------------------------------------
(* What is in the tables.                                                  *)

(* The rules of each table, part by part.                                  *)
LEMMA TableElements ==
  /\ Elements(safe_rules) =
       Elements(systemctl_safe) \cup Elements(journalctl_safe) \cup Elements(diagnostics_safe)
  /\ Elements(added_by_standard) =
       Elements(units_standard) \cup Elements(packages_standard)
         \cup {allow("journalctl", None, "read_the_journal_unscoped")}
  /\ Elements(standard_rules) = Elements(safe_rules) \cup Elements(added_by_standard)
  /\ Elements(developer_rules) = Elements(standard_rules) \cup Elements(added_by_developer)
  /\ Elements(unrestricted_rules) = {allow(EmptyString, None, "every_command_no_restrictions")}
<1>1. Elements(safe_rules) =
        Elements(systemctl_safe) \cup Elements(journalctl_safe) \cup Elements(diagnostics_safe)
  <2>1. Elements(systemctl_safe \o journalctl_safe) = Elements(systemctl_safe) \cup Elements(journalctl_safe)
    BY Parts, ElementsConcat
  <2>2. Listed(systemctl_safe \o journalctl_safe) /\ Listed(diagnostics_safe)
    BY Parts, ListedConcat
  <2> QED  BY <2>1, <2>2, ElementsConcat DEF safe_rules
<1>2. Elements(added_by_standard) =
        Elements(units_standard) \cup Elements(packages_standard)
          \cup {allow("journalctl", None, "read_the_journal_unscoped")}
  <2>1. Elements(units_standard \o packages_standard) = Elements(units_standard) \cup Elements(packages_standard)
    BY Parts, ElementsConcat
  <2>2. Listed(units_standard \o packages_standard)
        /\ Listed(<< allow("journalctl", None, "read_the_journal_unscoped") >>)
    BY Parts, ListedConcat
  <2>3. Elements(<< allow("journalctl", None, "read_the_journal_unscoped") >>)
          = {allow("journalctl", None, "read_the_journal_unscoped")}
    BY ElementsOf
  <2> QED  BY <2>1, <2>2, <2>3, ElementsConcat DEF added_by_standard
<1>3. Elements(standard_rules) = Elements(safe_rules) \cup Elements(added_by_standard)
  BY Tables, ElementsConcat DEF standard_rules
<1>4. Elements(developer_rules) = Elements(standard_rules) \cup Elements(added_by_developer)
  BY Tables, ElementsConcat DEF developer_rules
<1>5. Elements(unrestricted_rules) = {allow(EmptyString, None, "every_command_no_restrictions")}
  BY ElementsOf DEF unrestricted_rules
<1> QED  BY <1>1, <1>2, <1>3, <1>4, <1>5

SafeCommands == {"systemctl", "journalctl", "ping", "ip", "vmstat", "sar", "top"}

StatusPatterns == {Starts({"status"}), Starts({"is-active"}), Starts({"is-enabled"})}

(* The safe table: what it allows of systemctl and of the journal.         *)
LEMMA SafeRules ==
  ASSUME NEW x \in Elements(safe_rules)
  PROVE  /\ x.effect \in {"allow", "deny"} /\ x.command \in SafeCommands
         /\ x.effect = "allow" /\ x.command = "systemctl" => x.arg_pattern \in StatusPatterns
         /\ x.effect = "allow" /\ x.command = "journalctl" => x.arg_pattern = Has({"-u=unit", "-u=glob"})
<1>1. CASE x \in Elements(systemctl_safe)
  BY <1>1, ElementsOf, RuleFields DEF systemctl_safe, SafeCommands, StatusPatterns
<1>2. CASE x \in Elements(journalctl_safe)
  BY <1>2, ElementsOf, RuleFields DEF journalctl_safe, SafeCommands
<1>3. CASE x \in Elements(diagnostics_safe)
  BY <1>3, ElementsOf, RuleFields DEF diagnostics_safe, SafeCommands
<1> QED  BY <1>1, <1>2, <1>3, TableElements

(* What the standard tier adds.                                            *)
LEMMA StandardRules ==
  ASSUME NEW x \in Elements(added_by_standard)
  PROVE  /\ x.effect \in {"allow", "deny"}
         /\ x.command \in {"systemctl", "dnf", "rpm-ostree", "journalctl"}
         /\ x.effect = "deny" /\ x.command = "systemctl" => x.arg_pattern = SYSTEMCTL_TARGET_LIFECYCLE
         /\ x.command = "journalctl" => x.effect = "allow"
<1>1. CASE x \in Elements(units_standard)
  BY <1>1, ElementsOf, RuleFields DEF units_standard
<1>2. CASE x \in Elements(packages_standard)
  BY <1>2, ElementsOf, RuleFields DEF packages_standard
<1>3. CASE x = allow("journalctl", None, "read_the_journal_unscoped")
  BY <1>3, RuleFields
<1> QED  BY <1>1, <1>2, <1>3, TableElements

(* The developer table: allows of tools that root does not need.           *)
LEMMA DeveloperRules ==
  ASSUME NEW x \in Elements(added_by_developer)
  PROVE  x.effect = "allow" /\ x.command \notin ROOT_REQUIRED_TOOLS \cup {EmptyString}
         /\ x.description = "run_as_developer_user"
<1>1. PICK k \in DOMAIN added_by_developer : x = added_by_developer[k]
  BY DEF Elements
<1>2. x.command \notin ROOT_REQUIRED_TOOLS \cup {EmptyString}
  BY <1>1, DeveloperTools
<1>3. x.effect = "allow" /\ x.description = "run_as_developer_user"
  BY <1>1, RuleFields DEF added_by_developer
<1> QED  BY <1>2, <1>3

(* An allow that is there counts, if no deny does.                         *)
LEMMA NoDenyMatches ==
  ASSUME NEW rules, NEW r, Listed(rules),
         \A x \in Elements(rules) : x.effect \in {"allow", "deny"},
         \A x \in Elements(rules) : x.effect = "deny" => ~Matches(x, r)
  PROVE  Permits(rules, r) <=> \E x \in Elements(rules) : x.effect = "allow" /\ Matches(x, r)
<1>1. ASSUME Permits(rules, r)
      PROVE  \E x \in Elements(rules) : x.effect = "allow" /\ Matches(x, r)
  BY <1>1 DEF Permits, Elements
<1>2. ASSUME NEW x \in Elements(rules), x.effect = "allow", Matches(x, r)
      PROVE  Permits(rules, r)
  <2> DEFINE T == {k \in DOMAIN rules : Matches(rules[k], r)}
  <2>1. PICK n \in Nat : DOMAIN rules = 1..n
    BY DEF Listed
  <2>2. T \subseteq Nat /\ T # {}
    BY <1>2, <2>1 DEF Elements
  <2>3. PICK m \in T : \A k \in T : m <= k
    BY <2>2, Least
  <2>4. m \in DOMAIN rules /\ Matches(rules[m], r) /\ rules[m].effect = "allow"
    BY <2>3 DEF Elements
  <2>5. \A k \in 1..(m - 1) : ~Matches(rules[k], r)
    <3> SUFFICES ASSUME NEW k \in 1..(m - 1), Matches(rules[k], r) PROVE FALSE
      OBVIOUS
    <3>1. m \in 1..n
      BY <2>1, <2>4
    <3>2. k \in DOMAIN rules /\ ~(m <= k)
      BY <2>1, <3>1
    <3> QED  BY <2>3, <3>2
  <2> QED  BY <2>4, <2>5 DEF Permits
<1> QED  BY <1>1, <1>2

(* What an added rule is described as, no rule of a lower tier is.         *)
SafeDescriptions ==
  { "reject_--host", "read_a_unit's_status", "check_whether_a_unit_is_active",
    "check_whether_a_unit_is_enabled",
    "reject_mutation_flags", "reject_a_glob-valued_unit", "reject_a_disjunction",
    "read_the_journal_of_a_unit",
    "reject_flood_flags", "send_ICMP_echo_requests", "read_network_state", "read_memory_statistics",
    "reject_-o", "read_system_activity", "reject_-c", "read_a_process_snapshot" }
StandardDescriptions ==
  { "reject_targets_and_shutdown_services", "control_a_unit",
    "reject_trust_bypasses", "reject_local_packages", "install_remove_or_upgrade_a_package",
    "reject_--reboot", "manage_packages_via_rpm-ostree", "read_the_journal_unscoped" }

(* No table describes a rule of its own as a table before it describes     *)
(* one.                                                                    *)
LEMMA NewDescriptions ==
  /\ \A x \in Elements(safe_rules), y \in Elements(added_by_standard) : x.description # y.description
  /\ \A x \in Elements(standard_rules), y \in Elements(added_by_developer) : x.description # y.description
  /\ \A x \in Elements(developer_rules), y \in Elements(unrestricted_rules) : x.description # y.description
<1>1. \A x \in Elements(safe_rules) : x.description \in SafeDescriptions
  <2>1. \A x \in Elements(systemctl_safe) : x.description \in SafeDescriptions
    BY ElementsOf, RuleFields DEF systemctl_safe, SafeDescriptions
  <2>2. \A x \in Elements(journalctl_safe) : x.description \in SafeDescriptions
    BY ElementsOf, RuleFields DEF journalctl_safe, SafeDescriptions
  <2>3. \A x \in Elements(diagnostics_safe) : x.description \in SafeDescriptions
    BY ElementsOf, RuleFields DEF diagnostics_safe, SafeDescriptions
  <2> QED  BY <2>1, <2>2, <2>3, TableElements
<1>2. \A x \in Elements(added_by_standard) : x.description \in StandardDescriptions
  <2>1. \A x \in Elements(units_standard) : x.description \in StandardDescriptions
    BY ElementsOf, RuleFields DEF units_standard, StandardDescriptions
  <2>2. \A x \in Elements(packages_standard) : x.description \in StandardDescriptions
    BY ElementsOf, RuleFields DEF packages_standard, StandardDescriptions
  <2>3. allow("journalctl", None, "read_the_journal_unscoped").description \in StandardDescriptions
    BY RuleFields DEF StandardDescriptions
  <2> QED  BY <2>1, <2>2, <2>3, TableElements
<1>3. \A x \in Elements(added_by_developer) : x.description = "run_as_developer_user"
  BY DeveloperRules
<1>4. \A x \in Elements(unrestricted_rules) : x.description = "every_command_no_restrictions"
  BY TableElements, RuleFields
<1>5. /\ \A a \in SafeDescriptions, b \in StandardDescriptions : a # b
      /\ "run_as_developer_user" \notin SafeDescriptions \cup StandardDescriptions
      /\ "every_command_no_restrictions" \notin
           SafeDescriptions \cup StandardDescriptions \cup {"run_as_developer_user"}
  BY DEF SafeDescriptions, StandardDescriptions
<1>6. \A x \in Elements(standard_rules) : x.description \in SafeDescriptions \cup StandardDescriptions
  BY <1>1, <1>2, TableElements
<1> QED  BY <1>1, <1>2, <1>3, <1>4, <1>5, <1>6, TableElements

(* A deny that comes after an allow of its command: there is one, and the  *)
(* allows are those that read a unit's status.                             *)
Exempt(x, y) == y.arg_pattern = SYSTEMCTL_TARGET_LIFECYCLE /\ x.arg_pattern \in StatusPatterns

Shadows(x, y) == x.effect = "allow" /\ y.effect = "deny" /\ x.command = y.command

Guarded(rules) ==
  \A i, k \in DOMAIN rules : i < k /\ Shadows(rules[i], rules[k]) => Exempt(rules[i], rules[k])

(* Two guarded lists make one, if no rule of the first shadows a deny of   *)
(* the second, but for those exempt.                                       *)
LEMMA GuardedConcat ==
  ASSUME NEW s, NEW t, Listed(s), Listed(t), Guarded(s), Guarded(t),
         \A x \in Elements(s), y \in Elements(t) : Shadows(x, y) => Exempt(x, y)
  PROVE  Guarded(s \o t)
<1> DEFINE c == s \o t
           m == Len(s)
           n == Len(t)
<1>1. /\ m \in Nat /\ n \in Nat /\ DOMAIN s = 1..m /\ DOMAIN t = 1..n /\ DOMAIN c = 1..(m + n)
      /\ \A k \in 1..m : c[k] = s[k]
      /\ \A k \in 1..n : c[m + k] = t[k]
  BY Concat
<1> HIDE DEF c, m, n
<1> SUFFICES ASSUME NEW i \in 1..(m + n), NEW k \in 1..(m + n), i < k, Shadows(c[i], c[k])
             PROVE  Exempt(c[i], c[k])
  BY <1>1 DEF Guarded, c
<1>2. CASE k \in 1..m
  <2>1. i \in 1..m /\ c[i] = s[i] /\ c[k] = s[k]
    BY <1>1, <1>2
  <2> QED  BY <1>1, <1>2, <2>1 DEF Guarded
<1>3. CASE i \notin 1..m
  <2>1. /\ i - m \in 1..n /\ k - m \in 1..n /\ i - m < k - m
        /\ i = m + (i - m) /\ k = m + (k - m)
    BY <1>1, <1>3
  <2>2. c[i] = t[i - m] /\ c[k] = t[k - m]
    BY <1>1, <2>1
  <2> QED  BY <1>1, <2>1, <2>2 DEF Guarded
<1>4. CASE i \in 1..m /\ k \notin 1..m
  <2>1. c[i] = s[i] /\ k - m \in 1..n /\ k = m + (k - m)
    BY <1>1, <1>4
  <2>2. c[k] = t[k - m]
    BY <1>1, <2>1
  <2>3. c[i] \in Elements(s) /\ c[k] \in Elements(t)
    BY <1>1, <1>4, <2>1, <2>2 DEF Elements
  <2> QED  BY <2>3
<1> QED  BY <1>2, <1>3, <1>4

(* Every tier is guarded.                                                  *)
LEMMA TiersGuarded ==
  ASSUME NEW tier \in {"safe", "standard", "developer", "unrestricted"}
  PROVE  Guarded(rules_for_tier(tier))
<1>1. Guarded(systemctl_safe) /\ Guarded(journalctl_safe) /\ Guarded(diagnostics_safe)
  <2>1. Guarded(systemctl_safe)
    BY RuleFields DEF Guarded, Shadows, systemctl_safe
  <2>2. Guarded(journalctl_safe)
    BY RuleFields DEF Guarded, Shadows, journalctl_safe
  <2>3. Guarded(diagnostics_safe)
    BY RuleFields DEF Guarded, Shadows, diagnostics_safe
  <2> QED  BY <2>1, <2>2, <2>3
<1>2. Guarded(units_standard) /\ Guarded(packages_standard)
      /\ Guarded(<< allow("journalctl", None, "read_the_journal_unscoped") >>)
  <2>1. Guarded(units_standard)
    BY RuleFields DEF Guarded, Shadows, units_standard
  <2>2. Guarded(packages_standard)
    BY RuleFields DEF Guarded, Shadows, packages_standard
  <2>3. Guarded(<< allow("journalctl", None, "read_the_journal_unscoped") >>)
    BY RuleFields DEF Guarded, Shadows
  <2> QED  BY <2>1, <2>2, <2>3
<1>3. /\ \A x \in Elements(systemctl_safe) : x.command = "systemctl"
      /\ \A x \in Elements(journalctl_safe) : x.command = "journalctl"
      /\ \A x \in Elements(diagnostics_safe) : x.command \in {"ping", "ip", "vmstat", "sar", "top"}
      /\ \A x \in Elements(units_standard) : x.command = "systemctl"
      /\ \A x \in Elements(packages_standard) : x.command \in {"dnf", "rpm-ostree"}
      /\ \A x \in Elements(<< allow("journalctl", None, "read_the_journal_unscoped") >>) : x.effect = "allow"
  <2>1. /\ \A x \in Elements(systemctl_safe) : x.command = "systemctl"
        /\ \A x \in Elements(journalctl_safe) : x.command = "journalctl"
    BY ElementsOf, RuleFields DEF systemctl_safe, journalctl_safe
  <2>2. \A x \in Elements(diagnostics_safe) : x.command \in {"ping", "ip", "vmstat", "sar", "top"}
    BY ElementsOf, RuleFields DEF diagnostics_safe
  <2>3. /\ \A x \in Elements(units_standard) : x.command = "systemctl"
        /\ \A x \in Elements(packages_standard) : x.command \in {"dnf", "rpm-ostree"}
    BY ElementsOf, RuleFields DEF units_standard, packages_standard
  <2>4. \A x \in Elements(<< allow("journalctl", None, "read_the_journal_unscoped") >>) : x.effect = "allow"
    BY ElementsOf, RuleFields
  <2> QED  BY <2>1, <2>2, <2>3, <2>4
<1>4. Guarded(safe_rules)
  <2>1. Guarded(systemctl_safe \o journalctl_safe)
    BY <1>1, <1>3, Parts, GuardedConcat DEF Shadows
  <2>2. Listed(systemctl_safe \o journalctl_safe)
        /\ Elements(systemctl_safe \o journalctl_safe) = Elements(systemctl_safe) \cup Elements(journalctl_safe)
    BY Parts, ListedConcat, ElementsConcat
  <2> QED  BY <1>1, <1>3, <2>1, <2>2, Parts, GuardedConcat DEF Shadows, safe_rules
<1>5. Guarded(added_by_standard)
  <2>1. Guarded(units_standard \o packages_standard)
    BY <1>2, <1>3, Parts, GuardedConcat DEF Shadows
  <2>2. Listed(units_standard \o packages_standard)
    BY Parts, ListedConcat
  <2> QED  BY <1>2, <1>3, <2>1, <2>2, Parts, GuardedConcat DEF Shadows, added_by_standard
<1>6. Guarded(standard_rules)
  <2>1. \A x \in Elements(safe_rules), y \in Elements(added_by_standard) : Shadows(x, y) => Exempt(x, y)
    BY SafeRules, StandardRules DEF Shadows, Exempt, SafeCommands
  <2> QED  BY <1>4, <1>5, <2>1, Tables, GuardedConcat DEF standard_rules
<1>7. Guarded(added_by_developer) /\ Guarded(unrestricted_rules)
  <2>1. \A x \in Elements(added_by_developer) \cup Elements(unrestricted_rules) : x.effect = "allow"
    BY DeveloperRules, TableElements, RuleFields
  <2> QED  BY <2>1 DEF Guarded, Shadows, Elements
<1>8. Guarded(developer_rules)
  <2>1. \A x \in Elements(standard_rules), y \in Elements(added_by_developer) : ~Shadows(x, y)
    BY DeveloperRules DEF Shadows
  <2> QED  BY <1>6, <1>7, <2>1, Tables, GuardedConcat DEF developer_rules
<1> QED  BY <1>4, <1>6, <1>7, <1>8, RulesForTier

(* No custom rules: the tier's own list.                                   *)
LEMMA ConcatEmpty ==
  ASSUME NEW s, Listed(s)
  PROVE  << >> \o s = s
<1>1. PICK S : s \in Seq(S)
  BY DEF Listed
<1> QED  BY <1>1

(* A deny that matches what a tier nevertheless permits comes after the    *)
(* allow that decides, and so is the one of the lifecycle targets.         *)
LEMMA DeniesComeFirst ==
  ASSUME NEW tier \in {"safe", "standard", "developer", "unrestricted"}, NEW r,
         Permits(rules_for_tier(tier), r),
         NEW k \in DOMAIN rules_for_tier(tier),
         rules_for_tier(tier)[k].effect = "deny", Matches(rules_for_tier(tier)[k], r)
  PROVE  /\ rules_for_tier(tier)[k].arg_pattern = SYSTEMCTL_TARGET_LIFECYCLE
         /\ r.args[1] \in {"status", "is-active", "is-enabled"}
<1> DEFINE rules == rules_for_tier(tier)
<1>1. PICK m \in DOMAIN rules :
        /\ Matches(rules[m], r) /\ rules[m].effect = "allow"
        /\ \A j \in 1..(m - 1) : ~Matches(rules[j], r)
  BY DEF Permits
<1>2. Guarded(rules) /\ DeniesName(rules)
  BY TiersGuarded, TierDeniesName
<1>3. PICK n \in Nat : DOMAIN rules = 1..n
  <2>1. Listed(rules)
    BY Tables, RulesForTier
  <2> QED  BY <2>1 DEF Listed
<1>4. m < k
  <2>1. k # m
    BY <1>1
  <2>2. k \notin 1..(m - 1)
    BY <1>1
  <2> QED  BY <1>3, <2>1, <2>2
<1>5. rules[k].command # EmptyString
  BY <1>2 DEF DeniesName
<1>6. rules[m].command = rules[k].command
  <2>1. rules[k].command = r.command /\ rules[m].command \in {EmptyString, r.command}
    BY <1>1, <1>5 DEF Matches
  <2>2. tier = "unrestricted" => FALSE
    BY TableElements, RuleFields, RulesForTier DEF Elements
  <2>3. rules[m].command # EmptyString
    <3>1. rules[m] \in Elements(rules)
      BY DEF Elements
    <3>2. \A x \in Elements(safe_rules) : x.command # EmptyString
      BY SafeRules DEF SafeCommands, EmptyString
    <3>3. \A x \in Elements(added_by_standard) : x.command # EmptyString
      BY StandardRules DEF EmptyString
    <3>4. \A x \in Elements(added_by_developer) : x.command # EmptyString
      BY DeveloperRules
    <3> QED  BY <2>2, <3>1, <3>2, <3>3, <3>4, TableElements, RulesForTier
  <2> QED  BY <2>1, <2>3
<1>7. Exempt(rules[m], rules[k])
  BY <1>1, <1>2, <1>4, <1>6 DEF Guarded, Shadows
<1>8. r.args[1] \in {"status", "is-active", "is-enabled"}
  BY <1>1, <1>7 DEF Exempt, StatusPatterns, Starts, Matches, is_match
<1> QED  BY <1>7, <1>8 DEF Exempt

(* What is permitted only with rules added at the end, one of those does.  *)
LEMMA AddedPermits ==
  ASSUME NEW s, NEW t, NEW r, Listed(s), Listed(t), ~Permits(s, r), Permits(s \o t, r)
  PROVE  \E k \in DOMAIN (s \o t) :
           (s \o t)[k] \in Elements(t) /\ (s \o t)[k].effect = "allow" /\ Matches((s \o t)[k], r)
<1> DEFINE c == s \o t
           m == Len(s)
           n == Len(t)
<1>1. /\ m \in Nat /\ n \in Nat /\ DOMAIN s = 1..m /\ DOMAIN t = 1..n /\ DOMAIN c = 1..(m + n)
      /\ \A k \in 1..m : c[k] = s[k]
      /\ \A k \in 1..n : c[m + k] = t[k]
  BY Concat
<1>2. PICK k \in DOMAIN c :
        /\ Matches(c[k], r) /\ c[k].effect = "allow"
        /\ \A j \in 1..(k - 1) : ~Matches(c[j], r)
  BY DEF Permits
<1> HIDE DEF c, m, n
<1>3. k \notin 1..m
  <2> SUFFICES ASSUME k \in 1..m PROVE FALSE
    OBVIOUS
  <2>1. c[k] = s[k] /\ \A j \in 1..(k - 1) : c[j] = s[j]
    BY <1>1
  <2>2. Permits(s, r)
    BY <1>1, <1>2, <2>1 DEF Permits
  <2> QED  BY <2>2
<1>4. k - m \in 1..n /\ k = m + (k - m)
  BY <1>1, <1>2, <1>3
<1>5. c[k] \in Elements(t)
  BY <1>1, <1>4 DEF Elements
<1> QED  BY <1>2, <1>5 DEF c

(* The rule that makes the next tier permit a request is described as no   *)
(* rule of the tiers below is.                                             *)
LEMMA UnlockedByNewRule ==
  ASSUME NEW c, NEW r, Listed(c), NEW n \in 2..4,
         ~Permits(effective_rules_for(tier_order[n - 1], c), r),
         Permits(effective_rules_for(tier_order[n], c), r)
  PROVE  \E k \in DOMAIN effective_rules_for(tier_order[n], c) :
           LET rule == effective_rules_for(tier_order[n], c)[k]
           IN  /\ rule.effect = "allow" /\ Matches(rule, r)
               /\ rule \in Elements(rules_for_tier(tier_order[n]))
               /\ \A p \in 1..(n - 1) : \A x \in Elements(rules_for_tier(tier_order[p])) :
                    x.description # rule.description
<1>1. n = 2 \/ n = 3 \/ n = 4
  OBVIOUS
<1>2. CASE n = 2
  <2>1. \A p \in 1..(n - 1) : p = 1
    BY <1>2
  <2>2. /\ effective_rules_for(tier_order[n - 1], c) = c \o safe_rules
        /\ effective_rules_for(tier_order[n], c) = (c \o safe_rules) \o added_by_standard
        /\ Elements(added_by_standard) \subseteq Elements(rules_for_tier(tier_order[n]))
    <3>1. rules_for_tier(tier_order[n - 1]) = safe_rules /\ rules_for_tier(tier_order[n]) = standard_rules
      BY <1>2, TierOrder, RulesForTier
    <3>2. c \o (safe_rules \o added_by_standard) = (c \o safe_rules) \o added_by_standard
      <4>1. Listed(safe_rules) /\ Listed(added_by_standard)
        BY Tables
      <4> QED  BY <4>1, ConcatAssociates
    <3>3. Elements(added_by_standard) \subseteq Elements(standard_rules)
      BY TableElements
    <3> QED  BY <3>1, <3>2, <3>3 DEF effective_rules_for, standard_rules
  <2>3. \A x \in Elements(rules_for_tier(tier_order[1])), y \in Elements(added_by_standard) :
          x.description # y.description
    BY TierOrder, RulesForTier, NewDescriptions
  <2>4. Listed(c \o safe_rules) /\ Listed(added_by_standard)
    BY Tables, ListedConcat
  <2>5. PICK k \in DOMAIN ((c \o safe_rules) \o added_by_standard) :
          /\ ((c \o safe_rules) \o added_by_standard)[k] \in Elements(added_by_standard)
          /\ ((c \o safe_rules) \o added_by_standard)[k].effect = "allow" /\ Matches(((c \o safe_rules) \o added_by_standard)[k], r)
    <3>1. ~Permits(c \o safe_rules, r) /\ Permits((c \o safe_rules) \o added_by_standard, r)
      BY <2>2
    <3> QED  BY <2>4, <3>1, AddedPermits
  <2> QED  BY <2>1, <2>2, <2>3, <2>5
<1>3. CASE n = 3
  <2>1. \A p \in 1..(n - 1) : p = 1 \/ p = 2
    BY <1>3
  <2>2. /\ effective_rules_for(tier_order[n - 1], c) = c \o standard_rules
        /\ effective_rules_for(tier_order[n], c) = (c \o standard_rules) \o added_by_developer
        /\ Elements(added_by_developer) \subseteq Elements(rules_for_tier(tier_order[n]))
    <3>1. rules_for_tier(tier_order[n - 1]) = standard_rules /\ rules_for_tier(tier_order[n]) = developer_rules
      BY <1>3, TierOrder, RulesForTier
    <3>2. c \o (standard_rules \o added_by_developer) = (c \o standard_rules) \o added_by_developer
      <4>1. Listed(standard_rules) /\ Listed(added_by_developer)
        BY Tables
      <4> QED  BY <4>1, ConcatAssociates
    <3>3. Elements(added_by_developer) \subseteq Elements(developer_rules)
      BY TableElements
    <3> QED  BY <3>1, <3>2, <3>3 DEF effective_rules_for, developer_rules
  <2>3. \A p \in 1..(n - 1) :
          \A x \in Elements(rules_for_tier(tier_order[p])), y \in Elements(added_by_developer) :
            x.description # y.description
    BY <2>1, TierOrder, RulesForTier, TableElements, NewDescriptions
  <2>4. Listed(c \o standard_rules) /\ Listed(added_by_developer)
    BY Tables, ListedConcat
  <2>5. PICK k \in DOMAIN ((c \o standard_rules) \o added_by_developer) :
          /\ ((c \o standard_rules) \o added_by_developer)[k] \in Elements(added_by_developer)
          /\ ((c \o standard_rules) \o added_by_developer)[k].effect = "allow" /\ Matches(((c \o standard_rules) \o added_by_developer)[k], r)
    <3>1. ~Permits(c \o standard_rules, r) /\ Permits((c \o standard_rules) \o added_by_developer, r)
      BY <2>2
    <3> QED  BY <2>4, <3>1, AddedPermits
  <2> QED  BY <2>2, <2>3, <2>5
<1>4. CASE n = 4
  <2>1. \A p \in 1..(n - 1) : p = 1 \/ p = 2 \/ p = 3
    BY <1>4
  <2>2. ~Permits(c, r)
    BY <1>4, Tables, TierOrder, RulesForTier, PermitsPrefix DEF effective_rules_for
  <2>3. effective_rules_for(tier_order[n], c) = c \o unrestricted_rules
        /\ Elements(unrestricted_rules) \subseteq Elements(rules_for_tier(tier_order[n]))
    BY <1>4, TierOrder, RulesForTier DEF effective_rules_for
  <2>4. \A p \in 1..(n - 1) :
          \A x \in Elements(rules_for_tier(tier_order[p])), y \in Elements(unrestricted_rules) :
            x.description # y.description
    BY <2>1, TierOrder, RulesForTier, TableElements, NewDescriptions
  <2> QED  BY <2>2, <2>3, <2>4, Tables, AddedPermits
<1> QED  BY <1>1, <1>2, <1>3, <1>4
=============================================================================
