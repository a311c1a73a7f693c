------------------------------- MODULE Server -------------------------------
(***************************************************************************)
(* The server from its start to the processes it spawns: Startup with      *)
(* calls, each of which the policy decides and which, if permitted, runs a *)
(* command with the identity that dispatch chooses.  Policy.tla and        *)
(* Dispatch.tla have the details of the decision and of several calls at   *)
(* once; here one call at a time, since calls share only what is read once.*)
(***************************************************************************)
EXTENDS Startup, Spawn

VARIABLE call  \* the request whose command was permitted

serverVars == <<configFile, world, run, child, call>>

NoCall == [command |-> "none", args |-> <<>>]

ServerInit == StartupInit /\ child = NoChild /\ call = NoCall

Dispatch ==
  /\ reply # NoReply /\ reply.status = 200
  /\ \E r \in Requests :
       /\ Permits(Rules, r)
       /\ call' = r
       /\ LET run_as == developer_tier_run_as(r.command)
          IN  Fork(run_as # NoIdentity, run_as.uid)
  /\ reply' = NoReply
  /\ UNCHANGED <<configFile, world, pc, started, stops>>

Execute == SpawnStep /\ UNCHANGED <<configFile, world, run, call>>

(* The command has ended, or could not be spawned.                         *)
Complete == ChildEnds /\ call' = NoCall /\ UNCHANGED <<configFile, world, run>>

(* systemd kills what is left in the control group.                        *)
StopAll == Stop /\ child' = NoChild /\ call' = NoCall

ServerNext ==
  \/ (FileNext /\ UNCHANGED <<world, run>>) /\ UNCHANGED <<child, call>>
  \/ (ChangeAccount \/ Systemd \/ Starting \/ Answered) /\ UNCHANGED <<child, call>>
  \/ Request /\ call = NoCall /\ UNCHANGED <<child, call>>
  \/ Dispatch \/ Execute \/ Complete \/ StopAll

ServerSpec == ServerInit /\ [][ServerNext]_serverVars

(* The runtime goes on with run_server; systemd restarts what has failed;  *)
(* a bind that is tried again and again succeeds some day.                 *)
ServerLiveSpec ==
  /\ ServerSpec
  /\ WF_serverVars(Starting /\ UNCHANGED <<child, call>>)
  /\ WF_serverVars(Systemd /\ UNCHANGED <<child, call>>)
  /\ SF_serverVars(Listen /\ UNCHANGED <<child, call>>)

-----------------------------------------------------------------------------
(* Properties.                                                             *)

(* The variables keep their types; no identity is root's.                  *)
TypeOK ==
  /\ edits \in 0..MaxEdits /\ changes \in 0..MaxChanges /\ stops \in 0..MaxStops
  /\ \A s \in Setters : setter[s].pc \in {"not_run", "read", "truncate", "write", "done"}
  /\ cli \in Flags
  /\ accounts \in [Users -> Uids \cup {Gone}]
  /\ pc \in {"down", "load", "bind_check", "tier", "custom_rules", "developer", "listen", "serving", "failed"}
  /\ sink \in {"none", "journald", "stderr"}
  /\ warnings \subseteq {"unrestricted", "unconditional_allow", "shadowed_deny", "sudo"}
  /\ identity \in {NoIdentity} \cup [user : Users, uid : Uids \ {0}]
  /\ reply = NoReply \/ reply.status \in {200, 401, 403}
  /\ child.at \in {"none", "fork", "running", "failed"}
  /\ call \in Requests \cup {NoCall}

(* Under the developer tier every command that is not one of the few for   *)
(* root runs as developer_user, with the uid this account had when the     *)
(* server started, whatever has become of the account, and with nothing    *)
(* left of root; the few run as root.                                      *)
DroppedToTheAccount ==
  child.at = "running" =>
    /\ NothingOfRootIsLeft
    /\ IF config.tier = "developer" /\ call.command \notin ROOT_REQUIRED_TOOLS
         THEN child.has.uid = identity.uid /\ child.has.uid # 0 /\ identity.user = config.developer_user
         ELSE child.has.uid = 0
=============================================================================
