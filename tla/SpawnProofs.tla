---------------------------- MODULE SpawnProofs ----------------------------
(***************************************************************************)
(* Between fork and exec: what the child of a spawn() has become after     *)
(* each step, whatever the uid it is to have.  Spawn has no specification  *)
(* of its own, Server takes its steps; the lemmas are about single steps.  *)
(***************************************************************************)
EXTENDS Spawn, SequenceTheorems, TLAPS

(* The stages of a child that is to be dropped: what it has left to do,    *)
(* and what it has become by what is done.                                 *)
Todo == << << "chdir", "setgroups", "setgid", "setuid", "exec" >>,
           << "setgroups", "setgid", "setuid", "exec" >>,
           << "setgid", "setuid", "exec" >>,
           << "setuid", "exec" >>,
           << "exec" >> >>

HasAt(stage, uid) ==
  [uid    |-> IF stage > 4 THEN uid ELSE 0,
   gid    |-> IF stage > 3 THEN uid ELSE 0,
   groups |-> IF stage > 2 THEN {} ELSE {0},
   env    |-> "account's",
   cwd    |-> IF stage > 1 THEN "home" ELSE "root's"]

Child(at, drop, uid, error, todo, has) ==
  [at |-> at, drop |-> drop, target |-> uid, error |-> error, todo |-> todo, has |-> has]

(* A child that is not yet running, by stage; what is not dropped has one. *)
Forked(drop, uid) ==
  \/ drop /\ \E stage \in 1..5 : child = Child("fork", drop, uid, "none", Todo[stage], HasAt(stage, uid))
  \/ ~drop /\ child = Child("fork", drop, uid, "none", << "exec" >>, Inherited)

Running(drop, uid) ==
  child = Child("running", drop, uid, "none", << >>, IF drop THEN HasAt(5, uid) ELSE Inherited)

Failed(drop, uid) ==
  child.at = "failed" /\ child.drop = drop /\ child.target = uid /\ child.error = "other"

SpawnInv(drop, uid) == Forked(drop, uid) \/ Running(drop, uid) \/ Failed(drop, uid)

(* The list that Fork puts together.                                       *)
LEMMA StepsInOrder == << "chdir" >> \o pre_exec \o << "exec" >> = Todo[1]
<1> DEFINE S == {"chdir", "setgroups", "setgid", "setuid", "exec"}
           a == << "chdir" >> \o pre_exec
           b == a \o << "exec" >>
           t == << "chdir", "setgroups", "setgid", "setuid", "exec" >>
<1>1. << "chdir" >> \in Seq(S) /\ << "exec" >> \in Seq(S) /\ pre_exec \in Seq(S) /\ t \in Seq(S)
  BY DEF pre_exec
<1>2. /\ a \in Seq(S) /\ Len(a) = 4
      /\ a[1] = "chdir" /\ a[2] = "setgroups" /\ a[3] = "setgid" /\ a[4] = "setuid"
  BY <1>1 DEF pre_exec
<1> HIDE DEF a, S
<1>3. /\ b \in Seq(S) /\ Len(b) = 5
      /\ b[1] = a[1] /\ b[2] = a[2] /\ b[3] = a[3] /\ b[4] = a[4] /\ b[5] = "exec"
  <2>1. b \in Seq(S) /\ Len(b) = Len(a) + Len(<< "exec" >>)
    BY <1>1, <1>2, ConcatProperties
  <2>2. \A i \in 1..(Len(a) + Len(<< "exec" >>)) :
          b[i] = IF i <= Len(a) THEN a[i] ELSE << "exec" >>[i - Len(a)]
    BY <1>1, <1>2, ConcatProperties
  <2>3. Len(<< "exec" >>) = 1 /\ << "exec" >>[1] = "exec"
    OBVIOUS
  <2> HIDE DEF b
  <2> QED
    BY <1>2, <2>1, <2>2, <2>3
<1>4. /\ Len(t) = 5 /\ t[1] = "chdir" /\ t[2] = "setgroups" /\ t[3] = "setgid"
      /\ t[4] = "setuid" /\ t[5] = "exec"
  OBVIOUS
<1> HIDE DEF b, t
<1>5. \A i \in 1..5 : i = 1 \/ i = 2 \/ i = 3 \/ i = 4 \/ i = 5
  OBVIOUS
<1>6. \A i \in 1..Len(b) : b[i] = t[i]
  BY <1>2, <1>3, <1>4, <1>5
<1>7. b = t
  BY <1>1, <1>3, <1>4, <1>6, SeqEqual
<1> QED
  BY <1>7 DEF a, b, t, Todo

(* A forked child has all of root, and everything left to do.              *)
LEMMA ForkStarts ==
  ASSUME NEW drop \in BOOLEAN, NEW uid, Fork(drop, uid)
  PROVE  Forked(drop, uid)'
<1>1. [Inherited EXCEPT !.env = "account's"] = HasAt(1, uid)
  BY DEF Inherited, HasAt
<1>2. [Inherited EXCEPT !.env = "root's"] = Inherited
  BY DEF Inherited
<1>3. CASE drop
  <2>1. child' = Child("fork", drop, uid, "none", Todo[1], HasAt(1, uid))
    BY <1>1, <1>3, StepsInOrder DEF Fork, Child, environment
  <2> QED
    BY <1>3, <2>1 DEF Forked
<1>4. CASE ~drop
  BY <1>2, <1>4 DEF Fork, Forked, Child, environment
<1> QED
  BY <1>3, <1>4

(* What a stage does next, and which steps it is the turn of.              *)
LEMMA Stages ==
  /\ Head(Todo[1]) = "chdir"     /\ Tail(Todo[1]) = Todo[2]
  /\ Head(Todo[2]) = "setgroups" /\ Tail(Todo[2]) = Todo[3]
  /\ Head(Todo[3]) = "setgid"    /\ Tail(Todo[3]) = Todo[4]
  /\ Head(Todo[4]) = "setuid"    /\ Tail(Todo[4]) = Todo[5]
  /\ Head(Todo[5]) = "exec"      /\ Todo[5] = << "exec" >>
BY DEF Todo

(* The stages become each other by what the steps do.                      *)
LEMMA Becomes ==
  ASSUME NEW uid
  PROVE  /\ [HasAt(1, uid) EXCEPT !.cwd = "home"] = HasAt(2, uid)
         /\ [HasAt(2, uid) EXCEPT !.groups = {}] = HasAt(3, uid)
         /\ [HasAt(3, uid) EXCEPT !.gid = uid] = HasAt(4, uid)
         /\ [HasAt(4, uid) EXCEPT !.uid = uid] = HasAt(5, uid)
BY DEF HasAt

(* A step of a child that is to be dropped takes it to the next stage or   *)
(* ends it.                                                                *)
LEMMA StepEffect ==
  ASSUME NEW drop \in BOOLEAN, drop, NEW uid, NEW next \in 1..5, NEW todo, NEW has,
         child = Child("fork", drop, uid, "none", todo, has),
         \/ child' = [child EXCEPT !.todo = Todo[next], !.has = HasAt(next, uid)]
         \/ child' = [child EXCEPT !.at = "failed", !.error = "other"]
  PROVE  SpawnInv(drop, uid)'
<1>1. CASE child' = [child EXCEPT !.todo = Todo[next], !.has = HasAt(next, uid)]
  <2>1. child' = Child("fork", drop, uid, "none", Todo[next], HasAt(next, uid))
    BY <1>1 DEF Child
  <2> QED
    BY <2>1 DEF SpawnInv, Forked
<1>2. CASE child' = [child EXCEPT !.at = "failed", !.error = "other"]
  BY <1>2 DEF SpawnInv, Failed, Child
<1> QED
  BY <1>1, <1>2

(* A step is taken in its turn, for which root is still there if it needs  *)
(* root; if it fails, then for another reason.                             *)
LEMMA StepIsPermitted ==
  ASSUME NEW drop \in BOOLEAN, NEW uid, Forked(drop, uid), SpawnStep
  PROVE  SpawnInv(drop, uid)'
<1> USE DEF Step, SpawnInv, Failed
<1>1. CASE ~drop
  <2>1. child = Child("fork", drop, uid, "none", << "exec" >>, Inherited) /\ Head(<< "exec" >>) = "exec"
    BY <1>1 DEF Forked
  <2>2. Exec
    BY <2>1 DEF SpawnStep, chdir, setgroups, setgid, setuid, Child
  <2> QED
    BY <1>1, <2>1, <2>2 DEF Exec, Child, Running
<1>2. ASSUME drop, NEW stage \in 1..5,
             child = Child("fork", drop, uid, "none", Todo[stage], HasAt(stage, uid))
      PROVE  SpawnInv(drop, uid)'
  <2>1. stage = 1 \/ stage = 2 \/ stage = 3 \/ stage = 4 \/ stage = 5
    BY <1>2
  <2>2. CASE stage = 1
    <3>1. chdir
      BY <1>2, <2>2, Stages DEF SpawnStep, setgroups, setgid, setuid, Exec, Child
    <3>2. child.has = HasAt(1, uid) /\ child.target = uid /\ Tail(child.todo) = Todo[2]
          /\ [child.has EXCEPT !.cwd = "home"] = HasAt(2, uid)
      BY <1>2, <2>2, Stages, Becomes DEF Child
    <3>3. \/ child' = [child EXCEPT !.todo = Todo[2], !.has = HasAt(2, uid)]
          \/ child' = [child EXCEPT !.at = "failed", !.error = "other"]
      BY <3>1, <3>2 DEF chdir
    <3>4. 2 \in 1..5
      OBVIOUS
    <3> QED
      BY <1>2, <2>2, <3>3, <3>4, StepEffect
  <2>3. CASE stage = 2
    <3>1. setgroups /\ IsRoot
      BY <1>2, <2>3, Stages DEF SpawnStep, chdir, setgid, setuid, Exec, Child, IsRoot, HasAt
    <3>2. child.has = HasAt(2, uid) /\ child.target = uid /\ Tail(child.todo) = Todo[3]
          /\ [child.has EXCEPT !.groups = {}] = HasAt(3, uid)
      BY <1>2, <2>3, Stages, Becomes DEF Child
    <3>3. \/ child' = [child EXCEPT !.todo = Todo[3], !.has = HasAt(3, uid)]
          \/ child' = [child EXCEPT !.at = "failed", !.error = "other"]
      BY <3>1, <3>2 DEF setgroups
    <3>4. 3 \in 1..5
      OBVIOUS
    <3> QED
      BY <1>2, <2>3, <3>3, <3>4, StepEffect
  <2>4. CASE stage = 3
    <3>1. setgid /\ IsRoot
      BY <1>2, <2>4, Stages DEF SpawnStep, chdir, setgroups, setuid, Exec, Child, IsRoot, HasAt
    <3>2. child.has = HasAt(3, uid) /\ child.target = uid /\ Tail(child.todo) = Todo[4]
          /\ [child.has EXCEPT !.gid = child.target] = HasAt(4, uid)
      BY <1>2, <2>4, Stages, Becomes DEF Child
    <3>3. \/ child' = [child EXCEPT !.todo = Todo[4], !.has = HasAt(4, uid)]
          \/ child' = [child EXCEPT !.at = "failed", !.error = "other"]
      BY <3>1, <3>2 DEF setgid
    <3>4. 4 \in 1..5
      OBVIOUS
    <3> QED
      BY <1>2, <2>4, <3>3, <3>4, StepEffect
  <2>5. CASE stage = 4
    <3>1. setuid /\ IsRoot
      BY <1>2, <2>5, Stages DEF SpawnStep, chdir, setgroups, setgid, Exec, Child, IsRoot, HasAt
    <3>2. child.has = HasAt(4, uid) /\ child.target = uid /\ Tail(child.todo) = Todo[5]
          /\ [child.has EXCEPT !.uid = child.target] = HasAt(5, uid)
      BY <1>2, <2>5, Stages, Becomes DEF Child
    <3>3. \/ child' = [child EXCEPT !.todo = Todo[5], !.has = HasAt(5, uid)]
          \/ child' = [child EXCEPT !.at = "failed", !.error = "other"]
      BY <3>1, <3>2 DEF setuid
    <3>4. 5 \in 1..5
      OBVIOUS
    <3> QED
      BY <1>2, <2>5, <3>3, <3>4, StepEffect
  <2>6. CASE stage = 5
    <3>1. Exec
      BY <1>2, <2>6, Stages DEF SpawnStep, chdir, setgroups, setgid, setuid, Child
    <3> QED
      BY <1>2, <2>6, <3>1 DEF Exec, Child, Running
  <2> QED
    BY <2>1, <2>2, <2>3, <2>4, <2>5, <2>6
<1> QED
  BY <1>1, <1>2 DEF Forked

(* Every step between fork and exec keeps the invariant.                   *)
LEMMA SpawnKeepsInv ==
  ASSUME NEW drop \in BOOLEAN, NEW uid, SpawnInv(drop, uid), SpawnStep
  PROVE  SpawnInv(drop, uid)'
<1>1. child.at = "fork"
  BY DEF SpawnStep, chdir, setgroups, setgid, setuid, Step, Exec
<1>2. Forked(drop, uid)
  BY <1>1 DEF SpawnInv, Running, Failed, Child
<1> QED
  BY <1>2, StepIsPermitted

(* What the invariant says of a child that runs, and of one that failed.   *)
LEMMA WhatRuns ==
  ASSUME NEW drop \in BOOLEAN, NEW uid, SpawnInv(drop, uid)
  PROVE  /\ child.at \in {"fork", "running", "failed"}
         /\ NoSelfInflictedFailure
         /\ NothingOfRootIsLeft
         /\ child.at = "running" => child.has.uid = IF drop THEN uid ELSE 0
<1>1. CASE Forked(drop, uid)
  BY <1>1 DEF Forked, Child, NoSelfInflictedFailure, NothingOfRootIsLeft
<1>2. CASE Running(drop, uid)
  BY <1>2 DEF Running, Child, HasAt, Inherited, NoSelfInflictedFailure, NothingOfRootIsLeft
<1>3. CASE Failed(drop, uid)
  BY <1>3 DEF Failed, NoSelfInflictedFailure, NothingOfRootIsLeft
<1> QED
  BY <1>1, <1>2, <1>3 DEF SpawnInv
=============================================================================
