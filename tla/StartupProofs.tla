--------------------------- MODULE StartupProofs ---------------------------
(***************************************************************************)
(* What every step of the configuration file's users and of run_server     *)
(* preserves, for any texts and drafts, any number of set-tiers, edits,    *)
(* accounts and restarts, and any command lines, headers and requests.     *)
(* The specification these are steps of is Server's; ServerProofs puts     *)
(* them together.                                                          *)
(***************************************************************************)
EXTENDS Startup, TiersProofs, TLAPS

-----------------------------------------------------------------------------
(* The invariant of the configuration file.                                *)

(* The rules of a text are a list, as set-tier and a cut-off write leave   *)
(* them.                                                                   *)
RulesListed(text) == "custom_rules" \in DOMAIN text => Listed(text.custom_rules)

Setter(s) == [pc |-> setter[s].pc, tier |-> setter[s].tier, contents |-> setter[s].contents]

FileTypes ==
  /\ edits \in 0..MaxEdits /\ disturbed \in BOOLEAN
  /\ setter = [s \in Setters |-> Setter(s)]
  /\ \A s \in Setters : setter[s].pc \in {"not_run", "read", "truncate", "write", "done"}
  /\ RulesListed(file) /\ \A s \in Setters : RulesListed(setter[s].contents)

(* Where a set-tier that is alone is: until it truncates the file, the     *)
(* file is what everybody intended, and from its reading to its writing it *)
(* holds a copy.                                                           *)
Quiet ==
  /\ \A s, t \in Setters : Active(s) /\ Active(t) => s = t
  /\ IF \E s \in Setters : At(s, "write") THEN file = Empty ELSE file = intended
  /\ \A s \in Setters : At(s, "truncate") \/ At(s, "write") => setter[s].contents = intended

FileInv == FileTypes /\ (~disturbed => Quiet)

USE DEF configFile

(* The texts an operator may write list their rules.                       *)
LEMMA TextsListed ==
  ASSUME NEW text \in Texts \cup Drafts
  PROVE  RulesListed(text)
BY ConfigFileAssumption DEF IsText, RulesListed, Listed

(* Texts that come from other texts.                                       *)
LEMMA WithTierListed ==
  ASSUME NEW text, RulesListed(text), NEW tier
  PROVE  RulesListed(with_tier(text, tier))
BY DEF RulesListed, with_tier

(* So do the two that nobody writes: what does not parse and what is       *)
(* empty.                                                                  *)
LEMMA SomeTextsListed == RulesListed(Cut) /\ RulesListed(Empty)
BY DEF RulesListed, Cut, Empty

(* A write that fails leaves a text whose rules are listed, too.           *)
LEMMA PrefixesListed ==
  ASSUME NEW text, RulesListed(text), NEW prefix \in Prefixes(text)
  PROVE  RulesListed(prefix)
<1>1. CASE prefix = Cut
  BY <1>1, SomeTextsListed
<1>2. ASSUME NEW k \in 0..Len(Scalars), prefix = Only(text, {Scalars[j] : j \in 1..k})
      PROVE  RulesListed(prefix)
  <2>1. Len(Scalars) = 4 /\ \A j \in 1..4 : Scalars[j] # "custom_rules"
    BY DEF Scalars
  <2> QED
    BY <1>2, <2>1 DEF Only, RulesListed
<1>3. ASSUME NEW n \in IF "custom_rules" \in DOMAIN text THEN 1..(Len(text.custom_rules) - 1) ELSE {},
             prefix = [key \in DOMAIN text |->
                         IF key = "custom_rules" THEN SubSeq(text[key], 1, n) ELSE text[key]]
      PROVE  RulesListed(prefix)
  <2>1. "custom_rules" \in DOMAIN text /\ n \in 1..(Len(text.custom_rules) - 1)
    BY <1>3
  <2>2. PICK S : text.custom_rules \in Seq(S)
    BY <2>1 DEF RulesListed, Listed
  <2>3. SubSeq(text.custom_rules, 1, n) \in Seq(S)
    BY <2>1, <2>2
  <2>4. prefix.custom_rules = SubSeq(text.custom_rules, 1, n)
    BY <1>3, <2>1
  <2> QED
    BY <2>3, <2>4 DEF RulesListed, Listed
<1> QED
  BY <1>1, <1>2, <1>3 DEF Prefixes

(* Before anybody writes, the file is the one that is intended.            *)
LEMMA FileInitInv == FileInit => FileInv
<1> SUFFICES ASSUME FileInit PROVE FileInv
  OBVIOUS
<1>1. edits \in 0..MaxEdits /\ disturbed \in BOOLEAN
  <2>1. MaxEdits \in Nat
    BY ConfigFileAssumption
  <2>2. edits = 0 /\ disturbed = FALSE
    BY DEF FileInit
  <2>3. edits \in 0..MaxEdits
    BY <2>1, <2>2
  <2> QED
    BY <2>2, <2>3
<1>2. /\ setter = [s \in Setters |-> Setter(s)]
      /\ \A s \in Setters : setter[s].pc = "not_run" /\ setter[s].contents = Empty
  BY DEF FileInit, Setter
<1>3. RulesListed(file) /\ \A s \in Setters : RulesListed(setter[s].contents)
  BY <1>2, TextsListed, SomeTextsListed DEF FileInit
<1>4. Quiet
  BY <1>2 DEF Quiet, Active, At, FileInit
<1> QED
  BY <1>1, <1>2, <1>3, <1>4 DEF FileInv, FileTypes

(* A set-tier is a record with a step, so that a step may change it.       *)
LEMMA HasAStep ==
  ASSUME FileTypes, NEW s \in Setters
  PROVE  s \in DOMAIN setter /\ "pc" \in DOMAIN setter[s]
<1>1. s \in DOMAIN setter
  BY DEF FileTypes
<1>2. setter[s] = Setter(s)
  BY DEF FileTypes
<1>3. "pc" \in DOMAIN Setter(s)
  BY DEF Setter
<1> QED
  BY <1>1, <1>2, <1>3

(* What a step makes of one set-tier; the others keep theirs.              *)
LEMMA SetterTypes ==
  ASSUME FileTypes, NEW s \in Setters,
         NEW p \in {"not_run", "read", "truncate", "write", "done"}, NEW t, NEW text, RulesListed(text),
         setter' = [setter EXCEPT ![s] = [pc |-> p, tier |-> t, contents |-> text]]
  PROVE  /\ setter' = [x \in Setters |-> Setter(x)']
         /\ \A x \in Setters : setter'[x].pc \in {"not_run", "read", "truncate", "write", "done"}
         /\ \A x \in Setters : RulesListed(setter'[x].contents)
         /\ setter'[s].pc = p /\ setter'[s].contents = text
         /\ \A x \in Setters : x # s => setter'[x] = setter[x]
<1>1. DOMAIN setter = Setters
  BY DEF FileTypes
<1>2. setter'[s] = [pc |-> p, tier |-> t, contents |-> text] /\ DOMAIN setter' = Setters
      /\ \A x \in Setters : x # s => setter'[x] = setter[x]
  BY <1>1
<1>3. \A x \in Setters : setter'[x] = Setter(x)'
  BY <1>2 DEF FileTypes, Setter
<1>4. setter' = [x \in Setters |-> Setter(x)']
  BY <1>1, <1>3
<1> QED
  BY <1>2, <1>4 DEF FileTypes

(* A save disturbs every set-tier that is under way.                       *)
LEMMA SaveInv ==
  ASSUME FileInv, Save
  PROVE  FileInv'
<1>1. edits' \in 0..MaxEdits /\ disturbed' \in BOOLEAN
  <2>1. MaxEdits \in Nat
    BY ConfigFileAssumption
  <2>2. edits' \in 0..MaxEdits
    BY <2>1 DEF Save, FileInv, FileTypes
  <2> QED
    BY <2>2 DEF Save, AnyActive, Active
<1>2. RulesListed(file)'
  BY TextsListed DEF Save, RulesListed
<1>3. setter' = setter
  BY DEF Save
<1>4. FileTypes'
  BY <1>1, <1>2, <1>3 DEF FileInv, FileTypes, Setter, RulesListed
<1>5. ASSUME ~disturbed' PROVE Quiet'
  BY <1>3, <1>5 DEF Save, AnyActive, Active, At, Quiet
<1> QED
  BY <1>4, <1>5 DEF FileInv

(* A set-tier begins, or ends at once for want of its flag.                *)
LEMMA SetTierInv ==
  ASSUME FileInv, NEW s \in Setters, NEW tier, NEW flag, SetTier(s, tier, flag)
  PROVE  FileInv'
<1>1. PICK p \in {"read", "done"}, t \in {tier, "none"} :
        setter' = [setter EXCEPT ![s] = [pc |-> p, tier |-> t, contents |-> Empty]]
  BY DEF SetTier, Ends
<1>2. /\ setter' = [x \in Setters |-> Setter(x)']
      /\ \A x \in Setters : setter'[x].pc \in {"not_run", "read", "truncate", "write", "done"}
      /\ \A x \in Setters : RulesListed(setter'[x].contents)
      /\ setter'[s].pc = p
      /\ \A x \in Setters : x # s => setter'[x] = setter[x]
  <2>1. FileTypes /\ RulesListed(Empty) /\ p \in {"not_run", "read", "truncate", "write", "done"}
    BY <1>1, SomeTextsListed DEF FileInv
  <2> QED
    BY <1>1, <2>1, SetterTypes
<1>3. UNCHANGED <<file, edits, intended>> /\ disturbed' = (disturbed \/ AnyActive)
      /\ disturbed' \in BOOLEAN /\ setter[s].pc = "not_run"
  BY DEF SetTier, FileInv, FileTypes, At
<1>4. FileTypes'
  BY <1>2, <1>3 DEF FileInv, FileTypes, RulesListed
<1>5. ASSUME ~disturbed' PROVE Quiet'
  <2>1. ~disturbed /\ \A x \in Setters : ~Active(x)
    BY <1>3, <1>5 DEF FileInv, FileTypes, AnyActive
  <2>2. file = intended
    BY <2>1 DEF FileInv, Quiet, Active, At
  <2>3. \A x \in Setters : x # s => ~Active(x)'
    BY <1>2, <2>1 DEF Active
  <2> QED
    BY <1>2, <1>3, <2>2, <2>3 DEF Quiet, Active, At
<1> QED
  BY <1>4, <1>5 DEF FileInv

(* A set-tier ends: the rest is as it was.                                 *)
LEMMA EndsTypes ==
  ASSUME FileTypes, NEW s \in Setters, Ends(s)
  PROVE  /\ setter' = [x \in Setters |-> Setter(x)']
         /\ \A x \in Setters : setter'[x].pc \in {"not_run", "read", "truncate", "write", "done"}
         /\ \A x \in Setters : RulesListed(setter'[x].contents)
         /\ setter'[s].pc = "done"
         /\ \A x \in Setters : x # s => setter'[x] = setter[x]
<1>1. setter' = [setter EXCEPT ![s] = [pc |-> "done", tier |-> "none", contents |-> Empty]]
  BY DEF Ends
<1>2. RulesListed(Empty) /\ "done" \in {"not_run", "read", "truncate", "write", "done"}
  BY SomeTextsListed
<1> QED
  BY <1>1, <1>2, SetterTypes

(* What a set-tier that nobody disturbs has read is the file.              *)
LEMMA ReadInv ==
  ASSUME FileInv, NEW s \in Setters, Read(s)
  PROVE  FileInv'
<1>1. CASE file = Cut
  <2>1. /\ setter' = [x \in Setters |-> Setter(x)']
        /\ \A x \in Setters : setter'[x].pc \in {"not_run", "read", "truncate", "write", "done"}
        /\ \A x \in Setters : RulesListed(setter'[x].contents)
        /\ setter'[s].pc = "done"
        /\ \A x \in Setters : x # s => setter'[x] = setter[x]
    BY <1>1, EndsTypes DEF FileInv, Read
  <2>2. UNCHANGED <<file, edits, intended, disturbed>> /\ setter[s].pc = "read"
    BY DEF Read, At
  <2>3. FileTypes'
    BY <2>1, <2>2 DEF FileInv, FileTypes, RulesListed
  <2>4. ASSUME ~disturbed' PROVE Quiet'
    <3>1. Quiet
      BY <2>2, <2>4 DEF FileInv
    <3>2. \A x \in Setters : Active(x) => x = s
      BY <2>2, <3>1 DEF Quiet, Active
    <3>3. file = intended
      BY <2>2, <3>1, <3>2 DEF Quiet, Active, At
    <3> QED
      BY <2>1, <2>2, <3>2, <3>3 DEF Quiet, Active, At
  <2> QED
    BY <2>3, <2>4 DEF FileInv
<1>2. CASE file # Cut
  <2>1. /\ setter' = [x \in Setters |-> Setter(x)']
        /\ \A x \in Setters : setter'[x].pc \in {"not_run", "read", "truncate", "write", "done"}
        /\ \A x \in Setters : RulesListed(setter'[x].contents)
        /\ setter'[s].pc = "truncate" /\ setter'[s].contents = file
        /\ \A x \in Setters : x # s => setter'[x] = setter[x]
    <3>1. setter' = [setter EXCEPT ![s].pc = "truncate", ![s].contents = file]
      BY <1>2 DEF Read
    <3>2. /\ setter[s] = [pc |-> setter[s].pc, tier |-> setter[s].tier, contents |-> setter[s].contents]
          /\ s \in DOMAIN setter
      BY DEF FileInv, FileTypes, Setter
    <3>3. [setter EXCEPT ![s].pc = "truncate", ![s].contents = file]
            = [setter EXCEPT ![s] = [pc |-> "truncate", tier |-> setter[s].tier, contents |-> file]]
      <4>1. PICK p, t, c : setter[s] = [pc |-> p, tier |-> t, contents |-> c]
        BY <3>2
      <4>2. [setter[s] EXCEPT !.pc = "truncate"] = [pc |-> "truncate", tier |-> setter[s].tier, contents |-> c]
        BY <4>1
      <4>3. [[pc |-> "truncate", tier |-> setter[s].tier, contents |-> c] EXCEPT !.contents = file]
              = [pc |-> "truncate", tier |-> setter[s].tier, contents |-> file]
        OBVIOUS
      <4> QED
        BY <3>2, <4>2, <4>3
    <3>4. setter' = [setter EXCEPT ![s] = [pc |-> "truncate", tier |-> setter[s].tier, contents |-> file]]
      BY <3>1, <3>3, Zenon
    <3>5. FileTypes /\ RulesListed(file)
          /\ "truncate" \in {"not_run", "read", "truncate", "write", "done"}
      BY DEF FileInv, FileTypes
    <3> QED
      BY <3>4, <3>5, SetterTypes
  <2>2. UNCHANGED <<file, edits, intended, disturbed>> /\ setter[s].pc = "read"
    BY DEF Read, At
  <2>3. FileTypes'
    BY <2>1, <2>2 DEF FileInv, FileTypes, RulesListed
  <2>4. ASSUME ~disturbed' PROVE Quiet'
    <3>1. Quiet
      BY <2>2, <2>4 DEF FileInv
    <3>2. \A x \in Setters : Active(x) => x = s
      BY <2>2, <3>1 DEF Quiet, Active
    <3>3. file = intended
      BY <2>2, <3>1, <3>2 DEF Quiet, Active, At
    <3> QED
      BY <2>1, <2>2, <3>2, <3>3 DEF Quiet, Active, At
  <2> QED
    BY <2>3, <2>4 DEF FileInv
<1> QED
  BY <1>1, <1>2

(* While the file is truncated, a set-tier is under way.                   *)
LEMMA TruncateInv ==
  ASSUME FileInv, NEW s \in Setters, Truncate(s)
  PROVE  FileInv'
<1>1. setter' = [setter EXCEPT ![s] = [pc |-> "write", tier |-> setter[s].tier, contents |-> setter[s].contents]]
  <2>1. setter[s] = Setter(s) /\ s \in DOMAIN setter
        /\ setter' = [setter EXCEPT ![s].pc = "write"]
    BY DEF FileInv, FileTypes, Truncate
  <2>2. [setter[s] EXCEPT !.pc = "write"] = [pc |-> "write", tier |-> setter[s].tier, contents |-> setter[s].contents]
    <3>1. PICK p, t, c : setter[s] = [pc |-> p, tier |-> t, contents |-> c]
      BY <2>1 DEF Setter
    <3> QED
      BY <3>1
  <2> QED
    BY <2>1, <2>2
<1>2. /\ setter' = [x \in Setters |-> Setter(x)']
      /\ \A x \in Setters : setter'[x].pc \in {"not_run", "read", "truncate", "write", "done"}
      /\ \A x \in Setters : RulesListed(setter'[x].contents)
      /\ setter'[s].pc = "write" /\ setter'[s].contents = setter[s].contents
      /\ \A x \in Setters : x # s => setter'[x] = setter[x]
  <2>1. FileTypes /\ RulesListed(setter[s].contents)
        /\ "write" \in {"not_run", "read", "truncate", "write", "done"}
    BY DEF FileInv, FileTypes
  <2> QED
    BY <1>1, <2>1, SetterTypes
<1>3. UNCHANGED <<edits, intended, disturbed>> /\ setter[s].pc = "truncate" /\ file' = Empty
  BY DEF Truncate, At
<1>4. FileTypes'
  BY <1>2, <1>3, SomeTextsListed DEF FileInv, FileTypes, RulesListed
<1>5. ASSUME ~disturbed' PROVE Quiet'
  <2>1. Quiet
    BY <1>3, <1>5 DEF FileInv
  <2>2. \A x \in Setters : Active(x) => x = s
    BY <1>3, <2>1 DEF Quiet, Active
  <2>3. setter[s].contents = intended
    BY <1>3, <2>1 DEF Quiet, At
  <2> QED
    BY <1>2, <1>3, <2>2, <2>3 DEF Quiet, Active, At
<1> QED
  BY <1>4, <1>5 DEF FileInv

(* What a write makes of the intended text is what it writes, if it was    *)
(* the intended text that was read.                                        *)
LEMMA WriteInv ==
  ASSUME FileInv, NEW s \in Setters, Write(s)
  PROVE  FileInv'
<1>1. /\ setter' = [x \in Setters |-> Setter(x)']
      /\ \A x \in Setters : setter'[x].pc \in {"not_run", "read", "truncate", "write", "done"}
      /\ \A x \in Setters : RulesListed(setter'[x].contents)
      /\ setter'[s].pc = "done"
      /\ \A x \in Setters : x # s => setter'[x] = setter[x]
  BY EndsTypes DEF FileInv, Write
<1>2. UNCHANGED <<edits, disturbed>> /\ setter[s].pc = "write"
      /\ file' \in {updated(s)} \cup (IF file = Empty THEN {} ELSE {Cut})
      /\ intended' = with_tier(intended, setter[s].tier)
  BY DEF Write, At, with_tier
<1>3. RulesListed(updated(s)) /\ RulesListed(Cut)
  BY WithTierListed, SomeTextsListed DEF FileInv, FileTypes, updated
<1>4. RulesListed(file')
  BY <1>2, <1>3
<1>5. FileTypes'
  BY <1>1, <1>2, <1>4 DEF FileInv, FileTypes, RulesListed
<1>6. ASSUME ~disturbed' PROVE Quiet'
  <2>1. Quiet
    BY <1>2, <1>6 DEF FileInv
  <2>2. \A x \in Setters : Active(x) => x = s
    BY <1>2, <2>1 DEF Quiet, Active
  <2>3. setter[s].contents = intended /\ file = Empty
    BY <1>2, <2>1 DEF Quiet, At
  <2>4. file' = intended'
    BY <1>2, <2>3 DEF updated
  <2>5. \A x \in Setters : ~Active(x)'
    BY <1>1, <2>2 DEF Active
  <2> QED
    BY <2>4, <2>5 DEF Quiet, Active, At
<1> QED
  BY <1>5, <1>6 DEF FileInv

(* A write that fails disturbs the file: it is no longer what is intended. *)
LEMMA WriteFailsInv ==
  ASSUME FileInv, NEW s \in Setters, WriteFails(s)
  PROVE  FileInv'
<1>1. /\ setter' = [x \in Setters |-> Setter(x)']
      /\ \A x \in Setters : setter'[x].pc \in {"not_run", "read", "truncate", "write", "done"}
      /\ \A x \in Setters : RulesListed(setter'[x].contents)
  BY EndsTypes DEF FileInv, WriteFails
<1>2. RulesListed(file')
  <2>1. RulesListed(updated(s)) /\ file' \in Prefixes(updated(s))
    BY WithTierListed DEF FileInv, FileTypes, updated, WriteFails
  <2> QED
    BY <2>1, PrefixesListed
<1>3. UNCHANGED <<edits, intended>> /\ disturbed' = TRUE
  BY DEF WriteFails
<1> QED
  BY <1>1, <1>2, <1>3 DEF FileInv, FileTypes, RulesListed

(* A set-tier that is killed ends where it is.                             *)
LEMMA KilledInv ==
  ASSUME FileInv, NEW s \in Setters, Killed(s)
  PROVE  FileInv'
<1>1. /\ setter' = [x \in Setters |-> Setter(x)']
      /\ \A x \in Setters : setter'[x].pc \in {"not_run", "read", "truncate", "write", "done"}
      /\ \A x \in Setters : RulesListed(setter'[x].contents)
      /\ setter'[s].pc = "done"
      /\ \A x \in Setters : x # s => setter'[x] = setter[x]
  BY EndsTypes DEF FileInv, Killed
<1>2. UNCHANGED <<file, edits, intended>> /\ Active(s) /\ disturbed' = (disturbed \/ At(s, "write"))
      /\ disturbed' \in BOOLEAN
  BY DEF Killed, FileInv, FileTypes, At
<1>3. FileTypes'
  BY <1>1, <1>2 DEF FileInv, FileTypes, RulesListed
<1>4. ASSUME ~disturbed' PROVE Quiet'
  <2>1. Quiet /\ ~At(s, "write")
    BY <1>2, <1>4 DEF FileInv, FileTypes, At
  <2>2. \A x \in Setters : Active(x) => x = s
    BY <1>2, <2>1 DEF Quiet
  <2>3. file = intended
    BY <2>1, <2>2 DEF Quiet, Active, At
  <2>4. \A x \in Setters : ~Active(x)'
    BY <1>1, <2>2 DEF Active
  <2> QED
    BY <1>2, <2>3, <2>4 DEF Quiet, Active, At
<1> QED
  BY <1>3, <1>4 DEF FileInv

(* Every step of the file's users keeps the invariant.                     *)
LEMMA FileNextInv ==
  ASSUME FileInv, FileNext
  PROVE  FileInv'
<1>1. CASE Save
  BY <1>1, SaveInv
<1>2. ASSUME NEW s \in Setters, Setting(s)
      PROVE  FileInv'
  <2>1. ASSUME NEW k \in DOMAIN tier_order, NEW flag \in BOOLEAN, SetTier(s, tier_order[k], flag)
        PROVE  FileInv'
    BY <2>1, SetTierInv
  <2> QED
    BY <1>2, <2>1, ReadInv, TruncateInv, WriteInv, WriteFailsInv, KilledInv DEF Setting
<1> QED
  BY <1>1, <1>2 DEF FileNext

(* The rest of the server leaves the file and its users alone.             *)
LEMMA FileKept ==
  ASSUME FileInv, UNCHANGED configFile
  PROVE  FileInv'
BY DEF FileInv, FileTypes, Setter, Quiet, Active, At, RulesListed

(* With nobody under way and nobody disturbed, the file is the one that is *)
(* intended.                                                               *)
LEMMA QuietIsExact == FileInv => QuietSetTierIsExact
BY DEF FileInv, FileTypes, Quiet, QuietSetTierIsExact, AnyActive, Active, At

-----------------------------------------------------------------------------
(* The file is the register that ConfigRegister describes.                 *)

TierSet == {tier_order[k] : k \in DOMAIN tier_order}

(* A set-tier that is under way was asked for one of the tiers.            *)
TiersAsked == \A s \in Setters : Active(s) => setter[s].tier \in TierSet

(* It was when it began, and no step changes what it was asked for.        *)
LEMMA TiersAskedStep ==
  ASSUME FileTypes, TiersAsked, FileNext
  PROVE  TiersAsked'
<1>1. CASE Save
  BY <1>1 DEF Save, TiersAsked, Active
<1>2. DOMAIN setter = Setters /\ \A s \in Setters : setter[s] = Setter(s)
  BY DEF FileTypes
<1>3. ASSUME NEW s \in Setters, Ends(s) PROVE TiersAsked'
  BY <1>2, <1>3 DEF Ends, TiersAsked, Active
<1>4. ASSUME NEW s \in Setters, NEW k \in DOMAIN tier_order, NEW flag, SetTier(s, tier_order[k], flag)
      PROVE  TiersAsked'
  <2>1. CASE setter' = [setter EXCEPT ![s] = [pc |-> "read", tier |-> tier_order[k], contents |-> Empty]]
    BY <1>2, <2>1 DEF TiersAsked, Active, TierSet
  <2> QED
    BY <1>3, <1>4, <2>1 DEF SetTier
<1>5. ASSUME NEW s \in Setters, Read(s) \/ Truncate(s) PROVE TiersAsked'
  <2>1. CASE /\ Active(s) /\ setter'[s].tier = setter[s].tier
             /\ \A x \in Setters : x # s => setter'[x] = setter[x]
    BY <2>1 DEF TiersAsked, Active
  <2>2. CASE Read(s) /\ ~Ends(s)
    <3>1. setter' = [setter EXCEPT ![s].pc = "truncate", ![s].contents = file] /\ Active(s)
      BY <2>2 DEF Read, At, Active
    <3>2. PICK p, t, c : setter[s] = [pc |-> p, tier |-> t, contents |-> c]
      BY <1>2 DEF Setter
    <3>3. setter'[s].tier = setter[s].tier /\ \A x \in Setters : x # s => setter'[x] = setter[x]
      BY <1>2, <3>1, <3>2
    <3> QED
      BY <2>1, <3>1, <3>3
  <2>3. CASE Truncate(s)
    <3>1. setter' = [setter EXCEPT ![s].pc = "write"] /\ Active(s)
      BY <2>3 DEF Truncate, At, Active
    <3>2. PICK p, t, c : setter[s] = [pc |-> p, tier |-> t, contents |-> c]
      BY <1>2 DEF Setter
    <3>3. setter'[s].tier = setter[s].tier /\ \A x \in Setters : x # s => setter'[x] = setter[x]
      BY <1>2, <3>1, <3>2
    <3> QED
      BY <2>1, <3>1, <3>3
  <2> QED
    BY <1>3, <1>5, <2>2, <2>3
<1> QED
  BY <1>1, <1>3, <1>4, <1>5 DEF FileNext, Setting, Write, WriteFails, Killed

(* With nobody disturbed, a set-tier that is under way is the only one.    *)
LEMMA TheOnlyOne ==
  ASSUME FileInv, ~disturbed, NEW s \in Setters, Active(s)
  PROVE  /\ \A x \in Setters : Active(x) => x = s
         /\ file = IF At(s, "write") THEN Empty ELSE intended
         /\ At(s, "truncate") \/ At(s, "write") => setter[s].contents = intended
BY DEF FileInv, Quiet, Active, At

(* When it has ended, none is.                                             *)
LEMMA NoneLeft ==
  ASSUME FileInv, ~disturbed, NEW s \in Setters, Active(s), Ends(s)
  PROVE  ~AnyActive'
<1>1. setter'[s].pc = "done" /\ \A x \in Setters : x # s => setter'[x] = setter[x]
  BY EndsTypes DEF FileInv
<1> QED
  BY <1>1, TheOnlyOne DEF AnyActive, Active

(* A save is a step of the register: it puts a text there, or breaks it    *)
(* for a set-tier that is under way.                                       *)
LEMMA SaveIsPut ==
  ASSUME FileInv, Save
  PROVE  Register!Next
<1>1. setter' = setter /\ file' \in Drafts /\ intended' = file' /\ disturbed' = AnyActive
      /\ AnyActive' = AnyActive
  BY DEF Save, AnyActive, Active
<1>2. CASE AnyActive
  <2>1. disturbed' = TRUE
    BY <1>1, <1>2 DEF AnyActive
  <2>2. Register!Break
    BY <1>1, <1>2, <2>1 DEF Register!Break
  <2> QED
    BY <2>2 DEF Register!Next
<1>3. CASE ~AnyActive
  <2>1. disturbed' = FALSE
    BY <1>1, <1>3 DEF AnyActive
  <2>2. Register!Put
    BY <1>1, <1>3, <2>1 DEF Register!Put
  <2> QED
    BY <2>2 DEF Register!Next
<1> QED
  BY <1>2, <1>3

(* Once it is broken, or when this step breaks it, a step of set-tier does *)
(* to the text that is intended what it may.                               *)
LEMMA BrokenStep ==
  ASSUME FileInv, TiersAsked, NEW s \in Setters, Setting(s), disturbed'
  PROVE  Register!Break
<1>1. disturbed' = TRUE
  <2>1. disturbed' \in BOOLEAN
    BY FileNextInv DEF FileNext, FileInv, FileTypes
  <2> QED
    BY <2>1
<1>2. AnyActive \/ disturbed
  BY DEF Setting, SetTier, Read, Truncate, Write, WriteFails, Killed, AnyActive, Active, At
<1>3. intended' \in {intended} \cup {Register!Retiered(t) : t \in TierSet}
  <2>1. CASE Write(s)
    <3>1. setter[s].tier \in TierSet
      BY <2>1 DEF Write, TiersAsked, Active, At
    <3>2. intended' = Register!Retiered(setter[s].tier)
      BY <2>1 DEF Write, Register!Retiered
    <3> QED
      BY <3>1, <3>2
  <2>2. CASE ~Write(s)
    BY <2>2 DEF Setting, SetTier, Read, Truncate, WriteFails, Killed
  <2> QED
    BY <2>1, <2>2
<1>4. AnyActive' \in BOOLEAN
  BY DEF AnyActive
<1> QED
  BY <1>1, <1>2, <1>3, <1>4 DEF Register!Break, TierSet

(* Undisturbed, the steps of set-tier are those of the register, or none.  *)
LEMMA QuietStep ==
  ASSUME FileInv, FileInv', TiersAsked, NEW s \in Setters, Setting(s), ~disturbed'
  PROVE  [Register!Next]_(Register!vars)
<1>0. disturbed = FALSE /\ disturbed' = FALSE
  <2>1. disturbed \in BOOLEAN /\ disturbed' \in BOOLEAN
    BY DEF FileInv, FileTypes
  <2>2. ~disturbed
    BY <2>1 DEF Setting, SetTier, Read, Truncate, Write, WriteFails, Killed
  <2> QED
    BY <2>1, <2>2
<1>1. ASSUME NEW k \in DOMAIN tier_order, NEW flag, SetTier(s, tier_order[k], flag)
      PROVE  [Register!Next]_(Register!vars)
  <2>1. ~AnyActive /\ UNCHANGED <<file, intended>>
    BY <1>0, <1>1 DEF SetTier, AnyActive
  <2>2. AnyActive' \in BOOLEAN
    BY DEF AnyActive
  <2>3. CASE AnyActive'
    <3>1. Register!Begin
      BY <1>0, <2>1, <2>2, <2>3 DEF Register!Begin
    <3> QED
      BY <3>1 DEF Register!Next
  <2>4. CASE ~AnyActive'
    BY <1>0, <2>1, <2>4 DEF Register!vars, AnyActive
  <2> QED
    BY <2>3, <2>4
<1>2. ASSUME Active(s), Ends(s), UNCHANGED <<file, intended>>, file = intended
      PROVE  Register!Next
  <2>1. AnyActive /\ ~AnyActive'
    BY <1>0, <1>2, NoneLeft DEF AnyActive
  <2>2. AnyActive' = FALSE
    BY <2>1 DEF AnyActive
  <2>3. Register!GiveUp
    BY <1>0, <1>2, <2>1, <2>2 DEF Register!GiveUp
  <2> QED
    BY <2>3 DEF Register!Next
<1>3. CASE Read(s)
  <2>1. Active(s) /\ file = intended /\ UNCHANGED <<file, intended>>
    BY <1>0, <1>3, TheOnlyOne DEF Read, Active, At
  <2>2. CASE Ends(s)
    BY <1>2, <2>1, <2>2
  <2>3. CASE setter' = [setter EXCEPT ![s].pc = "truncate", ![s].contents = file]
    <3>1. setter'[s].pc = "truncate"
      <4>1. setter'[s] = [setter[s] EXCEPT !.pc = "truncate", !.contents = file]
        BY <1>0, <2>3, HasAStep DEF FileInv
      <4>2. [setter[s] EXCEPT !.pc = "truncate", !.contents = file].pc = "truncate"
        BY <1>0, HasAStep DEF FileInv
      <4> QED
        BY <4>1, <4>2
    <3>2. AnyActive /\ AnyActive'
      BY <2>1, <3>1 DEF AnyActive, Active
    <3> QED
      BY <1>0, <2>1, <3>2 DEF Register!vars, AnyActive
  <2> QED
    BY <1>3, <2>2, <2>3 DEF Read
<1>4. CASE Truncate(s)
  <2>1. setter'[s].pc = "write" /\ setter[s].pc = "truncate"
    BY <1>0, <1>4, HasAStep DEF Truncate, At, FileInv
  <2>2. AnyActive = TRUE /\ AnyActive' = TRUE
    BY <2>1 DEF AnyActive, Active
  <2>3. Register!Hide
    BY <1>0, <1>4, <2>2 DEF Truncate, Register!Hide
  <2> QED
    BY <2>3 DEF Register!Next
<1>5. CASE Write(s)
  <2>1. Active(s) /\ Ends(s) /\ At(s, "write")
    BY <1>5 DEF Write, Active, At
  <2>2. file = Empty /\ setter[s].contents = intended /\ setter[s].tier \in TierSet
    BY <1>0, <2>1, TheOnlyOne DEF TiersAsked
  <2>3. file' = updated(s) /\ intended' = Register!Retiered(setter[s].tier)
    BY <1>5, <2>2 DEF Write, Register!Retiered
  <2>4. file' = intended'
    BY <2>2, <2>3 DEF updated, with_tier, Register!Retiered
  <2>5. AnyActive /\ AnyActive' = FALSE
    <3>1. ~AnyActive'
      BY <1>0, <2>1, NoneLeft
    <3> QED
      BY <2>1, <3>1 DEF AnyActive
  <2>6. Register!Commit
    BY <1>0, <2>2, <2>3, <2>4, <2>5 DEF Register!Commit, TierSet
  <2> QED
    BY <2>6 DEF Register!Next
<1>6. CASE Killed(s)
  <2>1. Active(s) /\ Ends(s) /\ ~At(s, "write") /\ UNCHANGED <<file, intended>>
    BY <1>0, <1>6 DEF Killed
  <2>2. file = intended
    BY <1>0, <2>1, TheOnlyOne
  <2> QED
    BY <1>2, <2>1, <2>2
<1>7. ~WriteFails(s)
  BY <1>0 DEF WriteFails
<1> QED
  BY <1>1, <1>3, <1>4, <1>5, <1>6, <1>7 DEF Setting

(* Every step of the file's users is a step of the register or none.       *)
LEMMA FileStepIsRegister ==
  ASSUME FileInv, TiersAsked, FileNext
  PROVE  [Register!Next]_(Register!vars)
<1>1. FileInv'
  BY FileNextInv
<1>2. ASSUME NEW s \in Setters, Setting(s)
      PROVE  [Register!Next]_(Register!vars)
  BY <1>1, <1>2, BrokenStep, QuietStep DEF Register!Next
<1> QED
  BY <1>2, SaveIsPut DEF FileNext

-----------------------------------------------------------------------------
(* The invariant of run_server.  A start passes the gates in one order; at *)
(* each stage what has been checked holds of the configuration that was    *)
(* read, which stays what it was read as, whatever becomes of the file.    *)

USE DEF world, started, run

TierNames == {"safe", "standard", "developer", "unrestricted"}

Accounts == [user : Users, uid : Uids \ {0}]

Listening  == {"listen", "serving"}
RulesDone  == Listening \cup {"developer"}
TierDone   == RulesDone \cup {"custom_rules"}
BindDone   == TierDone \cup {"tier"}
LoadDone   == BindDone \cup {"bind_check"}

RunTypes ==
  /\ changes \in 0..MaxChanges /\ stops \in 0..MaxStops
  /\ cli \in Flags /\ accounts \in [Users -> Uids \cup {Gone}]
  /\ pc \in LoadDone \cup {"down", "load", "failed"}
  /\ sink \in {"none", "journald", "stderr"} /\ (sink = "none" => pc = "down")
  /\ warnings \subseteq {"unrestricted", "unconditional_allow", "shadowed_deny", "sudo"}
  /\ identity \in {NoIdentity} \cup Accounts

(* What Config::load promises of what it returns.                          *)
LoadedConfig(c) ==
  /\ c.tier \in TierNames /\ Listed(c.custom_rules)
  /\ \A k \in DOMAIN c.custom_rules : c.custom_rules[k].command # EmptyString

BindChecked == validate_bind_address(config.bind_address, cli.allow_public_bind)
TierChecked == config.tier = "unrestricted" => cli.i_understand_the_risk
RulesChecked ==
  /\ gate = {} \/ cli.i_understand_the_risk
  /\ shadowing(config.tier, config.custom_rules) # {} => "shadowed_deny" \in warnings
IdentityChosen ==
  IF config.tier = "developer"
    THEN identity \in Accounts /\ identity.user = config.developer_user
    ELSE identity = NoIdentity

GatesPassed ==
  /\ pc \in LoadDone => LoadedConfig(config)
  /\ pc \in BindDone => BindChecked
  /\ pc \in TierDone => TierChecked
  /\ pc \in RulesDone => RulesChecked
  /\ pc \in Listening => IdentityChosen

(* The answer to a request, as Request computes it.                        *)
AnswerTo(header, host) ==
  LET authorized == require_bearer_token(config.bearer_token, header)
  IN  [header |-> header, host |-> host,
       status |-> IF ~authorized THEN 401
                  ELSE IF host \in allowed_hosts_for(config.bind_address) THEN 200 ELSE 403,
       logged |-> log(IF authorized THEN Traced ELSE Rejection)]

ReplyComputed ==
  reply # NoReply =>
    Serving /\ \E header \in Headers, host \in {config.bind_address, "elsewhere"} :
                 reply = AnswerTo(header, host)

StartInv == RunTypes /\ GatesPassed /\ ReplyComputed

(* What Config::load accepts: rules with a command, one for each rule of   *)
(* the text.                                                               *)
LEMMA LoadGives ==
  ASSUME NEW text, loads(text), RulesListed(text)
  PROVE  /\ text.tier \in TierNames /\ load(text).tier = text.tier
         /\ LoadedConfig(load(text))
         /\ DOMAIN load(text).custom_rules = DOMAIN raw_rules(text)
         /\ \A k \in DOMAIN raw_rules(text) :
              /\ load(text).custom_rules[k] = load_rule(raw_rules(text)[k])
              /\ rule_loads(raw_rules(text)[k])
<1> DEFINE raw == raw_rules(text)
           rules == [k \in DOMAIN raw |-> load_rule(raw[k])]
<1>1. load(text).tier = text.tier /\ load(text).custom_rules = rules
  BY DEF load
<1>2. text.tier \in TierNames
  BY TierOrder DEF loads, TierNames
<1>3. Listed(raw)
  <2>1. Listed(<< >>)
    <3>1. << >> \in Seq({})
      OBVIOUS
    <3> QED
      BY <3>1 DEF Listed
  <2> QED
    BY <2>1 DEF raw_rules, RulesListed
<1>4. \A k \in DOMAIN raw : rule_loads(raw[k])
  BY DEF loads
<1>5. Listed(rules)
  <2>1. PICK n \in Nat : DOMAIN raw = 1..n
    BY <1>3 DEF Listed
  <2>2. rules \in Seq({load_rule(raw[k]) : k \in DOMAIN raw})
    <3> HIDE DEF raw
    <3> QED
      BY <2>1
  <2> QED
    BY <2>2 DEF Listed
<1>6. \A k \in DOMAIN rules : rules[k].command # EmptyString
  BY <1>4 DEF rule_loads, load_rule, trim
<1> QED
  BY <1>1, <1>2, <1>4, <1>5, <1>6 DEF LoadedConfig

(* Nothing has been read and no gate passed.                               *)
LEMMA StartupInitInv == StartupInit => StartInv
<1> SUFFICES ASSUME StartupInit PROVE StartInv
  OBVIOUS
<1>1. changes \in 0..MaxChanges /\ stops \in 0..MaxStops
  BY StartupAssumption DEF StartupInit
<1>2. /\ cli \in Flags /\ accounts \in [Users -> Uids \cup {Gone}]
      /\ pc = "down" /\ sink = "none" /\ warnings = {} /\ identity = NoIdentity /\ reply = NoReply
  BY DEF StartupInit
<1>3. RunTypes
  BY <1>1, <1>2 DEF RunTypes
<1> QED
  BY <1>2, <1>3 DEF StartInv, GatesPassed, ReplyComputed, LoadDone, BindDone, TierDone, RulesDone, Listening

(* Whoever leaves run_server's variables alone.                            *)
LEMMA RunKept ==
  ASSUME StartInv, UNCHANGED <<cli, run>>, changes' \in 0..MaxChanges,
         accounts' \in [Users -> Uids \cup {Gone}]
  PROVE  StartInv'
<1>1. RunTypes'
  BY DEF StartInv, RunTypes
<1>2. GatesPassed'
  BY DEF StartInv, GatesPassed, BindChecked, TierChecked, RulesChecked, gate, IdentityChosen
<1>3. ReplyComputed'
  BY DEF StartInv, ReplyComputed, Serving, AnswerTo, log
<1> QED
  BY <1>1, <1>2, <1>3 DEF StartInv

(* What was resolved at the start does not follow the account.             *)
LEMMA ChangeAccountInv ==
  ASSUME StartInv, ChangeAccount
  PROVE  StartInv'
<1>1. PICK u \in Users, uid \in Uids \cup {Gone} : accounts' = [accounts EXCEPT ![u] = uid]
  BY DEF ChangeAccount
<1>2. accounts' \in [Users -> Uids \cup {Gone}]
  BY <1>1 DEF StartInv, RunTypes
<1>3. changes' \in 0..MaxChanges
  BY StartupAssumption DEF ChangeAccount, StartInv, RunTypes
<1> QED
  BY <1>2, <1>3, RunKept DEF ChangeAccount

(* A start and a stop forget what was read.                                *)
LEMMA StartStopInv ==
  ASSUME StartInv, Start \/ Stop
  PROVE  StartInv'
<1>1. stops' \in 0..MaxStops
  BY StartupAssumption DEF StartInv, RunTypes, Start, Stop
<1>2. /\ UNCHANGED <<cli, accounts, changes>> /\ pc' \in {"down", "load"}
      /\ sink' \in {"none", "journald", "stderr"} /\ (sink' = "none" => pc' = "down")
      /\ warnings' = {} /\ identity' = NoIdentity
  BY DEF Start, Stop
<1>3. reply' = NoReply
  BY DEF Start, Stop, StartInv, ReplyComputed, Serving
<1>4. RunTypes'
  BY <1>1, <1>2 DEF StartInv, RunTypes
<1> QED
  BY <1>2, <1>3, <1>4 DEF StartInv, GatesPassed, ReplyComputed, LoadDone, BindDone, TierDone, RulesDone, Listening

(* What the steps of run_server have in common.                            *)
LEMMA ProcessTypes ==
  ASSUME StartInv, NEW from, NEW to \in LoadDone \cup {"failed"}, Process(from, to), from # "serving",
         sink' = sink, warnings' \subseteq {"unrestricted", "unconditional_allow", "shadowed_deny", "sudo"},
         identity' \in {NoIdentity} \cup Accounts, from # "down"
  PROVE  RunTypes' /\ ReplyComputed'
<1>1. pc = from /\ pc' = to /\ UNCHANGED <<cli, accounts, changes, reply, stops>>
  BY DEF Process
<1>2. reply' = NoReply
  BY <1>1 DEF StartInv, ReplyComputed, Serving
<1>3. RunTypes'
  BY <1>1 DEF StartInv, RunTypes
<1> QED
  BY <1>2, <1>3 DEF ReplyComputed

(* A refusal at any gate ends the start.                                   *)
LEMMA RefuseInv ==
  ASSUME StartInv, NEW from \in {"load", "bind_check", "tier", "custom_rules", "developer", "listen"},
         Refuse(from)
  PROVE  StartInv'
<1>1. Process(from, "failed") /\ UNCHANGED started /\ pc' = "failed"
  BY DEF Refuse, Process
<1>2. RunTypes' /\ ReplyComputed'
  <2>1. /\ sink' = sink /\ identity' \in {NoIdentity} \cup Accounts
        /\ warnings' \subseteq {"unrestricted", "unconditional_allow", "shadowed_deny", "sudo"}
    BY <1>1 DEF StartInv, RunTypes
  <2>2. from # "serving" /\ from # "down" /\ "failed" \in LoadDone \cup {"failed"}
    OBVIOUS
  <2> QED
    BY <1>1, <2>1, <2>2, ProcessTypes
<1> QED
  BY <1>1, <1>2 DEF StartInv, GatesPassed, LoadDone, BindDone, TierDone, RulesDone, Listening

(* The file is read once, as it is at that moment.                         *)
LEMMA LoadInv ==
  ASSUME FileInv, StartInv, Load
  PROVE  StartInv'
<1>1. CASE Refuse("load")
  BY <1>1, RefuseInv
<1>2. CASE Process("load", "bind_check") /\ loads(file) /\ config' = load(file)
           /\ UNCHANGED <<sink, warnings, identity>>
  <2>1. LoadedConfig(load(file))
    BY <1>2, LoadGives DEF FileInv, FileTypes
  <2>2. RunTypes' /\ ReplyComputed'
    <3>1. /\ identity' \in {NoIdentity} \cup Accounts /\ "bind_check" \in LoadDone \cup {"failed"}
          /\ warnings' \subseteq {"unrestricted", "unconditional_allow", "shadowed_deny", "sudo"}
      BY <1>2 DEF StartInv, RunTypes, LoadDone
    <3> QED
      BY <1>2, <3>1, ProcessTypes
  <2>3. pc' = "bind_check"
    BY <1>2 DEF Process
  <2> QED
    BY <1>2, <2>1, <2>2, <2>3 DEF StartInv, GatesPassed, BindDone, TierDone, RulesDone, Listening
<1> QED
  BY <1>1, <1>2 DEF Load

(* The gate of the bind address.                                           *)
LEMMA ValidateBindAddressInv ==
  ASSUME StartInv, ValidateBindAddress
  PROVE  StartInv'
<1>1. CASE Refuse("bind_check")
  BY <1>1, RefuseInv
<1>2. CASE Process("bind_check", "tier") /\ BindChecked /\ UNCHANGED started
  <2>1. pc = "bind_check" /\ pc' = "tier" /\ UNCHANGED <<cli, config>>
    BY <1>2 DEF Process
  <2>2. RunTypes' /\ ReplyComputed'
    <3>1. /\ identity' \in {NoIdentity} \cup Accounts /\ "tier" \in LoadDone \cup {"failed"}
          /\ warnings' \subseteq {"unrestricted", "unconditional_allow", "shadowed_deny", "sudo"}
      BY <1>2 DEF StartInv, RunTypes, LoadDone, BindDone
    <3> QED
      BY <1>2, <3>1, ProcessTypes
  <2>3. LoadedConfig(config)
    BY <2>1 DEF StartInv, GatesPassed, LoadDone
  <2> QED
    BY <1>2, <2>1, <2>2, <2>3
       DEF StartInv, GatesPassed, BindChecked, LoadDone, BindDone, TierDone, RulesDone, Listening
<1> QED
  BY <1>1, <1>2 DEF ValidateBindAddress, BindChecked

(* The gate of the unrestricted tier.                                      *)
LEMMA ValidateTierInv ==
  ASSUME StartInv, ValidateTier
  PROVE  StartInv'
<1>1. CASE Refuse("tier")
  BY <1>1, RefuseInv
<1>2. CASE /\ Process("tier", "custom_rules") /\ TierChecked
           /\ warnings' = Warn(config.tier = "unrestricted", "unrestricted")
           /\ UNCHANGED <<sink, config, identity>>
  <2>1. pc = "tier" /\ pc' = "custom_rules" /\ UNCHANGED <<cli, config>>
    BY <1>2 DEF Process
  <2>2. RunTypes' /\ ReplyComputed'
    <3>1. /\ identity' \in {NoIdentity} \cup Accounts /\ "custom_rules" \in LoadDone \cup {"failed"}
          /\ warnings' \subseteq {"unrestricted", "unconditional_allow", "shadowed_deny", "sudo"}
      BY <1>2 DEF StartInv, RunTypes, LoadDone, BindDone, TierDone, Warn
    <3> QED
      BY <1>2, <3>1, ProcessTypes
  <2>3. LoadedConfig(config) /\ BindChecked
    BY <2>1 DEF StartInv, GatesPassed, LoadDone, BindDone
  <2> QED
    BY <1>2, <2>1, <2>2, <2>3
       DEF StartInv, GatesPassed, BindChecked, TierChecked, LoadDone, BindDone, TierDone, RulesDone, Listening
<1> QED
  BY <1>1, <1>2 DEF ValidateTier, TierChecked

(* The gate of the custom rules, and what it warns about.                  *)
LEMMA ValidateCustomRulesInv ==
  ASSUME StartInv, ValidateCustomRules
  PROVE  StartInv'
<1>1. CASE Refuse("custom_rules")
  BY <1>1, RefuseInv
<1>2. CASE /\ Process("custom_rules", "developer") /\ (gate = {} \/ cli.i_understand_the_risk)
           /\ warnings' = warnings \cup Warn(gate # {}, "unconditional_allow")
                \cup Warn(shadowing(config.tier, config.custom_rules) # {}, "shadowed_deny")
           /\ UNCHANGED <<sink, config, identity>>
  <2>1. pc = "custom_rules" /\ pc' = "developer" /\ UNCHANGED <<cli, config>>
    BY <1>2 DEF Process
  <2>2. RunTypes' /\ ReplyComputed'
    <3>1. /\ identity' \in {NoIdentity} \cup Accounts /\ "developer" \in LoadDone \cup {"failed"}
          /\ warnings' \subseteq {"unrestricted", "unconditional_allow", "shadowed_deny", "sudo"}
      BY <1>2 DEF StartInv, RunTypes, LoadDone, BindDone, TierDone, RulesDone, Warn
    <3> QED
      BY <1>2, <3>1, ProcessTypes
  <2>3. LoadedConfig(config) /\ BindChecked /\ TierChecked
    BY <2>1 DEF StartInv, GatesPassed, LoadDone, BindDone, TierDone
  <2>4. RulesChecked'
    <3>1. gate' = gate /\ cli' = cli
      BY <2>1 DEF gate
    <3>2. shadowing(config.tier, config.custom_rules)' # {} => "shadowed_deny" \in warnings'
      BY <1>2, <2>1 DEF Warn
    <3> QED
      BY <1>2, <3>1, <3>2 DEF RulesChecked
  <2> QED
    BY <2>1, <2>2, <2>3, <2>4
       DEF StartInv, GatesPassed, BindChecked, TierChecked, LoadDone, BindDone, TierDone, RulesDone, Listening
<1> QED
  BY <1>1, <1>2 DEF ValidateCustomRules

(* The account that is found is one of the accounts, and not root's.       *)
LEMMA ValidateDeveloperInv ==
  ASSUME StartInv, ValidateDeveloper
  PROVE  StartInv'
<1>1. CASE Refuse("developer")
  BY <1>1, RefuseInv
<1>2. CASE /\ Process("developer", "listen")
           /\ config.tier = "developer" => developer_user_valid(config.developer_user)
           /\ identity' = IF config.tier = "developer"
                            THEN [user |-> config.developer_user, uid |-> resolve_user(config.developer_user)]
                            ELSE NoIdentity
           /\ warnings' = warnings \cup Warn(may_sudo(config.developer_user), "sudo")
           /\ UNCHANGED <<sink, config>>
  <2>1. pc = "developer" /\ pc' = "listen" /\ UNCHANGED <<cli, config>>
    BY <1>2 DEF Process
  <2>2. config.tier = "developer" =>
          [user |-> config.developer_user, uid |-> resolve_user(config.developer_user)] \in Accounts
    BY <1>2 DEF developer_user_valid, resolve_user, StartInv, RunTypes, Accounts
  <2>3. RunTypes' /\ ReplyComputed'
    <3>1. /\ identity' \in {NoIdentity} \cup Accounts /\ "listen" \in LoadDone \cup {"failed"}
          /\ warnings' \subseteq {"unrestricted", "unconditional_allow", "shadowed_deny", "sudo"}
      BY <1>2, <2>2 DEF StartInv, RunTypes, LoadDone, BindDone, TierDone, RulesDone, Listening, Warn
    <3> QED
      BY <1>2, <3>1, ProcessTypes
  <2>4. LoadedConfig(config) /\ BindChecked /\ TierChecked /\ RulesChecked
    BY <2>1 DEF StartInv, GatesPassed, LoadDone, BindDone, TierDone, RulesDone
  <2>5. RulesChecked'
    <3>1. warnings \subseteq warnings'
      BY <1>2
    <3> QED
      BY <2>1, <2>4, <3>1 DEF RulesChecked, gate
  <2>6. IdentityChosen'
    BY <1>2, <2>1, <2>2 DEF IdentityChosen
  <2> QED
    BY <2>1, <2>3, <2>4, <2>5, <2>6 DEF StartInv, GatesPassed, BindChecked, TierChecked
<1> QED
  BY <1>1, <1>2 DEF ValidateDeveloper

(* The address is bound last, after every gate.                            *)
LEMMA ListenInv ==
  ASSUME StartInv, Listen \/ BindFails
  PROVE  StartInv'
<1>1. CASE BindFails
  BY <1>1, RefuseInv DEF BindFails
<1>2. CASE Listen
  <2>1. pc = "listen" /\ pc' = "serving" /\ UNCHANGED <<cli, started>> /\ Process("listen", "serving")
    BY <1>2 DEF Listen, Process
  <2>2. RunTypes' /\ ReplyComputed'
    <3>1. /\ identity' \in {NoIdentity} \cup Accounts /\ "serving" \in LoadDone \cup {"failed"}
          /\ warnings' \subseteq {"unrestricted", "unconditional_allow", "shadowed_deny", "sudo"}
      BY <2>1 DEF StartInv, RunTypes, LoadDone, BindDone, TierDone, RulesDone, Listening
    <3> QED
      BY <2>1, <3>1, ProcessTypes
  <2>3. LoadedConfig(config) /\ BindChecked /\ TierChecked /\ RulesChecked /\ IdentityChosen
    BY <2>1 DEF StartInv, GatesPassed, LoadDone, BindDone, TierDone, RulesDone, Listening
  <2> QED
    BY <2>1, <2>2, <2>3
       DEF StartInv, GatesPassed, BindChecked, TierChecked, RulesChecked, gate, IdentityChosen
<1> QED
  BY <1>1, <1>2

(* All the steps of a start.                                               *)
LEMMA StartingInv ==
  ASSUME FileInv, StartInv, Starting
  PROVE  StartInv'
BY LoadInv, ValidateBindAddressInv, ValidateTierInv, ValidateCustomRulesInv, ValidateDeveloperInv,
   ListenInv DEF Starting

(* A reply is what the door makes of the header and the host.              *)
LEMMA RequestInv ==
  ASSUME StartInv, Request
  PROVE  StartInv'
<1>1. PICK header \in Headers, host \in {config.bind_address, "elsewhere"} : reply' = AnswerTo(header, host)
  BY DEF Request, AnswerTo
<1>2. UNCHANGED <<cli, accounts, changes, pc, sink, config, warnings, identity, stops>> /\ Serving
  BY DEF Request, Serving
<1>3. AnswerTo(header, host)' = AnswerTo(header, host)
  BY <1>2 DEF AnswerTo, log
<1>4. RunTypes' /\ GatesPassed'
  BY <1>2 DEF StartInv, RunTypes, GatesPassed, BindChecked, TierChecked, RulesChecked, gate, IdentityChosen
<1>5. ReplyComputed'
  BY <1>1, <1>2, <1>3 DEF ReplyComputed, Serving
<1> QED
  BY <1>4, <1>5 DEF StartInv

(* The answer is gone, whatever the call that follows it.                  *)
LEMMA AnsweredInv ==
  ASSUME StartInv, reply' = NoReply, UNCHANGED <<world, pc, started, stops>>
  PROVE  StartInv'
<1>1. RunTypes' /\ GatesPassed'
  BY DEF StartInv, RunTypes, GatesPassed, BindChecked, TierChecked, RulesChecked, gate, IdentityChosen
<1> QED
  BY <1>1 DEF StartInv, ReplyComputed

-----------------------------------------------------------------------------
(* What the invariants say, property by property.                          *)

(* A server that serves has passed every gate.                             *)
LEMMA PastTheGates ==
  ASSUME StartInv, Serving
  PROVE  LoadedConfig(config) /\ BindChecked /\ TierChecked /\ RulesChecked /\ IdentityChosen
BY DEF StartInv, Serving, GatesPassed, LoadDone, BindDone, TierDone, RulesDone, Listening

(* An allow that no arguments escape matches the empty list of arguments.  *)
LEMMA AnyIsUnconditional ==
  ASSUME NEW rule, AnyArguments(rule)
  PROVE  unconditional_allow(rule)
BY DEF AnyArguments, unconditional_allow, is_match

(* The rule that decides a request is for its command, and for no other,   *)
(* since no command is empty that the file was allowed to have.            *)
LEMMA DecidesItsCommand ==
  ASSUME LoadedConfig(config), NEW r, NEW k \in DOMAIN config.custom_rules, DecidedBy(k, r)
  PROVE  config.custom_rules[k].command = r.command
BY DEF LoadedConfig, DecidedBy, Matches

(* A risk in the file is served with its flag only, since its gate was     *)
(* passed.                                                                 *)
LEMMA RisksFollow == StartInv => RisksAcknowledged
<1> SUFFICES ASSUME StartInv, Serving PROVE RisksAcknowledged
  BY DEF RisksAcknowledged
<1>1. LoadedConfig(config) /\ BindChecked /\ TierChecked /\ RulesChecked /\ IdentityChosen
  BY PastTheGates
<1>2. ListensEverywhere(config.bind_address) => cli.allow_public_bind
  <2>1. ListensEverywhere(config.bind_address) => is_blanket_public(config.bind_address)
    BY DEF ListensEverywhere, is_blanket_public, Unspecified, Mapped
  <2> QED
    BY <1>1, <2>1 DEF BindChecked, validate_bind_address
<1>3. ASSUME ~cli.i_understand_the_risk, NEW r \in Requests, NEW k \in DOMAIN config.custom_rules,
             DecidedBy(k, r), AnyArguments(config.custom_rules[k])
      PROVE  developer_tier_run_as(r.command) # NoIdentity
  <2>1. gate = {} /\ config.tier \in TierNames \ {"unrestricted"}
    BY <1>1, <1>3 DEF RulesChecked, TierChecked, LoadedConfig, TierNames
  <2>2. ~gated(config.tier, config.custom_rules[k])
    BY <1>3, <2>1 DEF gate, unconditional_allows
  <2>3. config.tier = "developer" /\ config.custom_rules[k].command \notin ROOT_REQUIRED_TOOLS
    BY <1>3, <2>1, <2>2, AnyIsUnconditional DEF gated, TierNames
  <2>4. r.command \notin ROOT_REQUIRED_TOOLS
    BY <1>1, <1>3, <2>3, DecidesItsCommand
  <2>5. identity \in Accounts
    BY <1>1, <2>3 DEF IdentityChosen
  <2>6. identity # NoIdentity
    BY <2>5, StartupAssumption DEF Accounts, NoIdentity
  <2> QED
    BY <2>4, <2>6 DEF developer_tier_run_as
<1>4. ~cli.i_understand_the_risk => config.tier # "unrestricted"
  BY <1>1 DEF TierChecked
<1> QED
  BY <1>2, <1>3, <1>4 DEF RisksAcknowledged

(* An allow for all arguments that undoes a tier's deny was among those    *)
(* warned about.                                                           *)
LEMMA ReinstatementFollows == StartInv => ReinstatementIsWarned
<1> SUFFICES ASSUME StartInv, Serving,
                    NEW r \in Requests, NEW k \in DOMAIN config.custom_rules,
                    DecidedBy(k, r), AnyArguments(config.custom_rules[k]),
                    NEW j \in DOMAIN rules_for_tier(config.tier),
                    rules_for_tier(config.tier)[j].effect = "deny",
                    Matches(rules_for_tier(config.tier)[j], r)
             PROVE  "shadowed_deny" \in warnings
  BY DEF ReinstatementIsWarned
<1>1. LoadedConfig(config) /\ RulesChecked
  BY PastTheGates
<1>2. config.custom_rules[k].command = r.command
  BY <1>1, DecidesItsCommand
<1>3. rules_for_tier(config.tier)[j].command = r.command
  <2>1. config.tier \in {"safe", "standard", "developer", "unrestricted"}
    BY <1>1 DEF LoadedConfig, TierNames
  <2>2. rules_for_tier(config.tier)[j].command # EmptyString
    BY <2>1, TierDeniesName DEF DeniesName
  <2> QED
    BY <2>2 DEF Matches
<1>4. k \in shadowing(config.tier, config.custom_rules)
  BY <1>2, <1>3, AnyIsUnconditional DEF shadowing
<1> QED
  BY <1>1, <1>4 DEF RulesChecked

(* A request that a deny of the file describes, and no rule before it,     *)
(* finds that deny first in the list that is evaluated.                    *)
LEMMA DeniesFollow == FileInv => DeniesInForce
<1> DEFINE raw == raw_rules(file)
           custom == load(file).custom_rules
           Describes(k, r) == raw[k].command = r.command /\ is_match(raw[k].arg_pattern, r.args)
<1> SUFFICES ASSUME FileInv, loads(file), NEW k \in DOMAIN raw, NEW r \in Requests,
                    raw[k].effect = "deny", Describes(k, r), \A j \in 1..(k - 1) : ~Describes(j, r)
             PROVE  ~Permits(effective_rules_for(file.tier, custom), r)
  BY DEF DeniesInForce
<1>1. /\ file.tier \in TierNames /\ Listed(custom) /\ DOMAIN custom = DOMAIN raw
      /\ \A i \in DOMAIN raw : custom[i] = load_rule(raw[i]) /\ rule_loads(raw[i])
  BY LoadGives DEF FileInv, FileTypes, LoadedConfig
<1>2. PICK n \in Nat : DOMAIN custom = 1..n
  BY <1>1 DEF Listed
<1>3. \A i \in DOMAIN raw : /\ custom[i].command = raw[i].command
                            /\ custom[i].arg_pattern = raw[i].arg_pattern
                            /\ custom[i].effect = raw[i].effect
                            /\ raw[i].command # EmptyString
  <2> HIDE DEF raw, custom
  <2> QED
    BY <1>1 DEF load_rule, trim, rule_loads
<1>4. Matches(custom[k], r) /\ custom[k].effect = "deny"
  BY <1>3 DEF Matches
<1>5. \A i \in 1..(k - 1) : ~Matches(custom[i], r)
  <2>1. \A i \in 1..(k - 1) : i \in DOMAIN raw
    BY <1>1, <1>2
  <2> QED
    BY <1>3, <2>1 DEF Matches
<1> HIDE DEF raw, custom, Describes
<1>6. ~Permits(custom, r)
  <2> SUFFICES ASSUME NEW i \in DOMAIN custom, Matches(custom[i], r), custom[i].effect = "allow",
                      \A j \in 1..(i - 1) : ~Matches(custom[j], r)
               PROVE  FALSE
    BY DEF Permits
  <2>1. i \in 1..n /\ k \in 1..n
    BY <1>1, <1>2
  <2>2. i # k
    BY <1>4
  <2>3. CASE i < k
    BY <1>5, <2>1, <2>3
  <2>4. CASE k < i
    BY <1>4, <2>1, <2>4
  <2> QED
    BY <2>1, <2>2, <2>3, <2>4
<1>7. Listed(rules_for_tier(file.tier))
  BY <1>1, Tables, RulesForTier DEF TierNames
<1>8. Permits(custom \o rules_for_tier(file.tier), r) <=> Permits(custom, r)
  BY <1>1, <1>4, <1>7, FirstListDecides
<1> QED
  BY <1>6, <1>8 DEF effective_rules_for

(* The door and the journal, of every reply.                               *)
LEMMA DoorFollows == StartInv => TokenOpensTheDoor /\ JournalIsTheAuditTrail
<1> SUFFICES ASSUME StartInv, reply # NoReply
             PROVE  TokenOpensTheDoor /\ JournalIsTheAuditTrail
  BY DEF TokenOpensTheDoor, JournalIsTheAuditTrail
<1>1. PICK header, host : reply = AnswerTo(header, host)
  BY DEF StartInv, ReplyComputed
<1>2. Serving /\ sink # "none"
  BY DEF StartInv, ReplyComputed, RunTypes, Serving
<1> DEFINE authorized == require_bearer_token(config.bearer_token, header)
<1>3. /\ reply.header = header /\ reply.host = host
      /\ reply.status = IF ~authorized THEN 401
                        ELSE IF host \in allowed_hosts_for(config.bind_address) THEN 200 ELSE 403
      /\ reply.logged = log(IF authorized THEN Traced ELSE Rejection)
  BY <1>1 DEF AnswerTo
<1>4. authorized <=> /\ config.bearer_token # EmptyString
                     /\ header.scheme \in {"Bearer", "bearer"} /\ header.token = config.bearer_token
  BY DEF require_bearer_token, strip_bearer_prefix, constant_time_eq
<1>5. log(Traced) = {} /\ log(Rejection) = {"redwrench::audit"}
  BY <1>2 DEF log, Traced, Rejection, audit_only_filter
<1> HIDE DEF authorized
<1>6. TokenOpensTheDoor
  <2>1. config.bind_address \in allowed_hosts_for(config.bind_address)
    BY DEF allowed_hosts_for
  <2> QED
    BY <1>3, <1>4, <2>1 DEF TokenOpensTheDoor
<1>7. JournalIsTheAuditTrail
  BY <1>3, <1>5 DEF JournalIsTheAuditTrail
<1> QED
  BY <1>6, <1>7
=============================================================================
