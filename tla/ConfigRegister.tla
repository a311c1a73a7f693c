--------------------------- MODULE ConfigRegister ---------------------------
(***************************************************************************)
(* What /etc/redwrench/config.toml is to those who use it, with none of    *)
(* the steps of `redwrench config set-tier` (src/main.rs): a register that *)
(* holds one text.  A save puts a text of its own there, a set-tier        *)
(* replaces the tier of the text, whatever else is in it, at one moment.   *)
(* While a set-tier is under way a reader may also find nothing, and       *)
(* never half of a text, or that of another tier.                          *)
(*                                                                         *)
(* Nothing locks the file, so there is the one exception that Break        *)
(* states: a set-tier that is overlapped, killed or fails.  From then on   *)
(* nothing is promised of the file until a save that no set-tier overlaps. *)
(* ConfigFile.tla implements it.                                           *)
(***************************************************************************)
CONSTANTS
  Texts,    \* the texts the file may hold at first
  Drafts,   \* the texts that are saved then
  Tiers,    \* what set-tier may be asked for
  Blank     \* the text with nothing in it

VARIABLES
  value,    \* the text in the register
  visible,  \* what a reader finds
  busy,     \* a set-tier is under way
  broken    \* one was overlapped, killed, or failed

vars == <<value, visible, busy, broken>>

Init == value \in Texts /\ visible = value /\ busy = FALSE /\ broken = FALSE

Retiered(tier) ==
  [key \in DOMAIN value \cup {"tier"} |-> IF key = "tier" THEN tier ELSE value[key]]

Put ==
  /\ ~busy
  /\ value' \in Drafts /\ visible' = value' /\ broken' = FALSE
  /\ UNCHANGED busy

Begin ==
  /\ ~busy
  /\ busy' = TRUE
  /\ UNCHANGED <<value, visible, broken>>

Hide ==
  /\ busy
  /\ visible' = Blank
  /\ UNCHANGED <<value, busy, broken>>

(* The only step that changes the text, and its other keys not at all.     *)
Commit ==
  /\ busy /\ visible = Blank
  /\ value' \in {Retiered(tier) : tier \in Tiers} /\ visible' = value'
  /\ busy' = FALSE
  /\ UNCHANGED broken

(* There is nothing to be set, or a kill came before the text was hidden.  *)
GiveUp ==
  /\ busy /\ visible = value
  /\ busy' = FALSE
  /\ UNCHANGED <<value, visible, broken>>

(* Nothing is said of what is visible then.                                *)
Break ==
  /\ busy \/ broken
  /\ broken' = TRUE /\ busy' \in BOOLEAN
  /\ value' \in {value} \cup Drafts \cup {Retiered(tier) : tier \in Tiers}

Next == Put \/ Begin \/ Hide \/ Commit \/ GiveUp \/ Break

Spec == Init /\ [][Next]_vars
=============================================================================
