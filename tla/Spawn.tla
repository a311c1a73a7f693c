------------------------------- MODULE Spawn -------------------------------
(***************************************************************************)
(* cmd.spawn() in execute (src/executor.rs): what the child does between   *)
(* fork and exec, and with whose credentials the command then runs.  The   *)
(* standard library changes the directory and then calls the pre_exec      *)
(* closure; a step that fails makes spawn() return an error, and nothing   *)
(* is executed.  The kernel is external: setgroups, setgid and setuid need *)
(* uid 0 (the account's primary group has the number of its uid).          *)
(***************************************************************************)
EXTENDS Integers, Sequences

VARIABLE child

NoChild == [at |-> "none"]

(* The server runs as root; without run_as the child is left as it is.     *)
Inherited == [uid |-> 0, gid |-> 0, groups |-> {0}, env |-> "root's", cwd |-> "root's"]

InsertOnly(drop) == IF drop THEN "both" ELSE "root's"  \* mutant: no env_clear
environment(drop) == IF drop THEN "account's" ELSE "root's"

UidFirst == << "setuid", "setgid", "setgroups" >>  \* mutant
BuilderFirst == << "setgid", "setuid", "setgroups" >>  \* mutant: .uid() and .gid() of the builder
pre_exec == << "setgroups", "setgid", "setuid" >>

Fork(drop, uid) ==
  /\ child = NoChild
  /\ child' = [at     |-> "fork", drop |-> drop, target |-> uid, error |-> "none",
               todo   |-> IF drop THEN << "chdir" >> \o pre_exec \o << "exec" >> ELSE << "exec" >>,
               has    |-> [Inherited EXCEPT !.env = environment(drop)]]

(* One step: it is not permitted, or it fails for another reason, or has   *)
(* its effect.                                                             *)
Step(step, permitted, after) ==
  /\ child.at = "fork" /\ Head(child.todo) = step
  /\ \/ permitted /\ child' = [child EXCEPT !.todo = Tail(@), !.has = after]
     \/ child' = [child EXCEPT !.at = "failed", !.error = IF permitted THEN "other" ELSE "EPERM"]

IsRoot == child.has.uid = 0

(* A home directory that is gone is an error of the other kind.            *)
chdir     == Step("chdir", TRUE, [child.has EXCEPT !.cwd = "home"])
setgroups == Step("setgroups", IsRoot, [child.has EXCEPT !.groups = {}])
setgid    == Step("setgid", IsRoot, [child.has EXCEPT !.gid = child.target])
setuid    == Step("setuid", IsRoot, [child.has EXCEPT !.uid = child.target])

Exec ==
  /\ child.at = "fork" /\ Head(child.todo) = "exec"
  /\ child' \in {[child EXCEPT !.at = "running", !.todo = <<>>],
                 [child EXCEPT !.at = "failed", !.error = "other"]}

(* The command ends, or spawn() returned an error.                         *)
ChildEnds ==
  /\ child.at \in {"running", "failed"}
  /\ child' = NoChild

SpawnStep == chdir \/ setgroups \/ setgid \/ setuid \/ Exec

-----------------------------------------------------------------------------
(* Nothing of root is left in a process that was to be dropped: not the    *)
(* uid, not a group, no variable of the environment, not the directory.    *)
NothingOfRootIsLeft ==
  child.at = "running" /\ child.drop =>
    child.has = [uid |-> child.target, gid |-> child.target, groups |-> {},
                 env |-> "account's", cwd |-> "home"]

(* No step takes away what a later step needs: a spawn fails only because  *)
(* of the world.                                                           *)
NoSelfInflictedFailure == child.at = "failed" => child.error # "EPERM"
=============================================================================
