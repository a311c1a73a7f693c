----------------------------- MODULE ConfigFile -----------------------------
(***************************************************************************)
(* /etc/redwrench/config.toml and those who use it: the operator, who      *)
(* saves a draft, `redwrench config set-tier` (src/main.rs), which reads,  *)
(* truncates and writes the file in separate steps without a lock, and     *)
(* Config::load (src/config.rs).                                           *)
(*                                                                         *)
(* A text is the TOML table it parses to, a function on the keys it has,   *)
(* or Cut, a text that is no TOML.  Keys of no interest here are left out. *)
(***************************************************************************)
EXTENDS Tiers

CONSTANTS
  Texts,       \* the texts the file may hold at first
  Drafts,      \* the texts an operator saves then
  Setters,     \* the runs of `redwrench config set-tier`
  MaxEdits     \* BOUND: how often the operator saves one

(* A text is a table; its rules, if it has any, are a list.                *)
IsText(text) ==
  "custom_rules" \in DOMAIN text =>
    text.custom_rules \in Seq({text.custom_rules[k] : k \in DOMAIN text.custom_rules})

ASSUME ConfigFileAssumption ==
  /\ MaxEdits \in Nat
  /\ \A text \in Texts \cup Drafts : IsText(text)

VARIABLES
  file,        \* the text on disk
  edits,       \* how often the operator saved a draft
  setter,      \* setter[s]: a run of set-tier, with what it has read
  intended,    \* HISTORY: what the saves and the set-tiers that succeeded add up to
  disturbed    \* HISTORY: a set-tier was overlapped, killed, or could not write

configFile == <<file, edits, setter, intended, disturbed>>

Cut   == [text |-> "no_TOML"]
Empty == [key \in {} |-> "none"]

(* to_string_pretty writes the keys in this order, then the rules.         *)
Scalars  == << "bearer_token", "bind_address", "developer_user", "tier" >>
Required == {"bind_address", "bearer_token", "tier"}

Only(text, keys) == [key \in DOMAIN text \cap keys |-> text[key]]
Unrelated(text)  == Only(text, {"bearer_token", "bind_address", "developer_user", "custom_rules"})

(* What is on disk after a write that did not get to its end.              *)
Prefixes(text) ==
  {Cut}
    \cup {Only(text, {Scalars[j] : j \in 1..k}) : k \in 0..Len(Scalars)}
    \cup {[key \in DOMAIN text |-> IF key = "custom_rules" THEN SubSeq(text[key], 1, n) ELSE text[key]] :
            n \in IF "custom_rules" \in DOMAIN text THEN 1..(Len(text.custom_rules) - 1) ELSE {}}

-----------------------------------------------------------------------------
(* Config::load.  A rule of a text is [command, padded, arg_pattern,       *)
(* effect]; the command is the word without the padding that trim removes. *)
NoPattern    == None
BlankPattern == [kind |-> "blank"]  \* an empty arg_pattern
BadPattern   == [kind |-> "bad"]    \* one that is no regular expression

Untrimmed(raw) == IF raw.padded THEN " " \o raw.command ELSE raw.command  \* mutant: issue 59
trim(raw) == raw.command

rule_loads(raw) ==
  /\ raw.command # EmptyString
  /\ raw.arg_pattern \notin {BlankPattern, BadPattern}
  /\ raw.effect \in {"allow", "deny"}

load_rule(raw) ==
  [command |-> trim(raw), arg_pattern |-> raw.arg_pattern, effect |-> raw.effect,
   description |-> "custom_rule_for_" \o trim(raw)]

raw_rules(text) == IF "custom_rules" \in DOMAIN text THEN text.custom_rules ELSE <<>>

loads(text) ==
  /\ text # Cut
  /\ Required \subseteq DOMAIN text
  /\ text.tier \in {tier_order[k] : k \in DOMAIN tier_order}
  /\ DOMAIN text \subseteq Required \cup {"developer_user", "custom_rules"}
  /\ \A k \in DOMAIN raw_rules(text) : rule_loads(raw_rules(text)[k])

load(text) ==
  [bind_address   |-> text.bind_address,
   bearer_token   |-> text.bearer_token,
   tier           |-> text.tier,
   developer_user |-> IF "developer_user" \in DOMAIN text THEN text.developer_user ELSE "none",
   custom_rules   |-> [k \in DOMAIN raw_rules(text) |-> load_rule(raw_rules(text)[k])]]

-----------------------------------------------------------------------------
(* The operator saves a draft, in one step, whatever else is going on.     *)
Active(s) == setter[s].pc \in {"read", "truncate", "write"}
AnyActive == \E s \in Setters : Active(s)

FileInit ==
  /\ file \in Texts
  /\ edits = 0
  /\ setter = [s \in Setters |-> [pc |-> "not_run", tier |-> "none", contents |-> Empty]]
  /\ intended = file /\ disturbed = FALSE

Save ==
  /\ edits < MaxEdits
  /\ edits' = edits + 1
  /\ file' \in Drafts
  /\ intended' = file' /\ disturbed' = AnyActive
  /\ UNCHANGED setter

-----------------------------------------------------------------------------
(* main and update_tier_in_config, for the invocation s.                   *)
At(s, pc) == setter[s].pc = pc
Ends(s) == setter' = [setter EXCEPT ![s] = [pc |-> "done", tier |-> "none", contents |-> Empty]]

may_set(tier, i_understand_the_risk) == tier = "unrestricted" => i_understand_the_risk

SetTier(s, tier, i_understand_the_risk) ==
  /\ At(s, "not_run")
  /\ IF may_set(tier, i_understand_the_risk)
       THEN setter' = [setter EXCEPT ![s] = [pc |-> "read", tier |-> tier, contents |-> Empty]]
       ELSE Ends(s)
  /\ disturbed' = (disturbed \/ AnyActive)
  /\ UNCHANGED <<file, edits, intended>>

Read(s) ==
  /\ At(s, "read")
  /\ IF file = Cut THEN Ends(s)
                   ELSE setter' = [setter EXCEPT ![s].pc = "truncate", ![s].contents = file]
  /\ UNCHANGED <<file, edits, intended, disturbed>>

KnownKeys(contents, tier) ==  \* mutant: written back through a struct that knows the scalars
  [key \in (DOMAIN contents \cup {"tier"}) \ {"custom_rules"} |-> IF key = "tier" THEN tier ELSE contents[key]]
with_tier(contents, tier) ==
  [key \in DOMAIN contents \cup {"tier"} |-> IF key = "tier" THEN tier ELSE contents[key]]
updated(s) == with_tier(setter[s].contents, setter[s].tier)

(* std::fs::write opens the file with O_TRUNC, then writes.                *)
Truncate(s) ==
  /\ At(s, "truncate")
  /\ file' = Empty
  /\ setter' = [setter EXCEPT ![s].pc = "write"]
  /\ UNCHANGED <<edits, intended, disturbed>>

(* A text somebody else wrote since then may be longer: its end remains.   *)
Write(s) ==
  /\ At(s, "write")
  /\ file' \in {updated(s)} \cup (IF file = Empty THEN {} ELSE {Cut})
  /\ intended' = [key \in DOMAIN intended \cup {"tier"} |->
                    IF key = "tier" THEN setter[s].tier ELSE intended[key]]
  /\ Ends(s)
  /\ UNCHANGED <<edits, disturbed>>

(* The disk is full.                                                       *)
WriteFails(s) ==
  /\ At(s, "write")
  /\ file' \in Prefixes(updated(s))
  /\ disturbed' = TRUE
  /\ Ends(s)
  /\ UNCHANGED <<edits, intended>>

Killed(s) ==
  /\ Active(s)
  /\ disturbed' = (disturbed \/ At(s, "write"))
  /\ Ends(s)
  /\ UNCHANGED <<file, edits, intended>>

Setting(s) ==
  \/ \E k \in DOMAIN tier_order : \E flag \in BOOLEAN : SetTier(s, tier_order[k], flag)
  \/ Read(s) \/ Truncate(s) \/ Write(s) \/ WriteFails(s) \/ Killed(s)

FileNext == Save \/ \E s \in Setters : Setting(s)

-----------------------------------------------------------------------------
(* Properties.                                                             *)

(* A set-tier that nothing overlaps and nothing interrupts changes the     *)
(* tier and no other key, whatever the text holds.                         *)
QuietSetTierIsExact == ~AnyActive /\ ~disturbed => file = intended

(* Unless one of them is disturbed, all the saves and set-tiers together   *)
(* are those of a single register: a set-tier takes effect at one moment,  *)
(* in which it changes the tier and no other key, and until then a reader  *)
(* finds the old text or nothing.                                          *)
Register == INSTANCE ConfigRegister WITH
  value <- intended, visible <- file, busy <- AnyActive, broken <- disturbed,
  Tiers <- {tier_order[k] : k \in DOMAIN tier_order}, Blank <- Empty
FileIsRegister == Register!Spec

(* src/main.rs:51-55: set-tier preserves unrelated keys (bearer_token,     *)
(* bind_address, custom_rules).                                            *)
UnrelatedKeysPreserved == ~AnyActive => file # Cut /\ Unrelated(file) = Unrelated(intended)
=============================================================================
