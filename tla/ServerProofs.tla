---------------------------- MODULE ServerProofs ----------------------------
(***************************************************************************)
(* The server, from its start to the commands it runs, for any accounts,   *)
(* files, flags, requests and number of failures: the invariants of its    *)
(* parts together are one of the whole, and its properties follow.         *)
(***************************************************************************)
EXTENDS Server, StartupProofs, SpawnProofs

RunAs == developer_tier_run_as(call.command)

(* Nothing runs, or what runs (or is about to) has the identity that       *)
(* dispatch chose for its command, under the configuration that serves and *)
(* that permits it.                                                        *)
CallInv ==
  \/ child = NoChild /\ call = NoCall
  \/ /\ Serving /\ call \in Requests /\ Permits(Rules, call)
     /\ SpawnInv(RunAs # NoIdentity, RunAs.uid)

IInv == FileInv /\ StartInv /\ CallInv

USE DEF configFile, world, started, run, serverVars

(* Nothing is started and no command runs.                                 *)
LEMMA ServerInitInv == ServerInit => IInv
BY FileInitInv, StartupInitInv DEF ServerInit, StartupInit, IInv, CallInv

(* A call does not see what happens to the file and to the accounts.       *)
LEMMA CallKept ==
  ASSUME CallInv, UNCHANGED <<pc, config, identity, child, call>>
  PROVE  CallInv'
<1>1. Rules' = Rules
  BY DEF Rules
<1> QED
  BY <1>1 DEF CallInv, Serving, RunAs, developer_tier_run_as, SpawnInv, Forked, Running, Failed

(* The steps at which run_server is not serving, or nothing runs.          *)
LEMMA NothingRuns ==
  ASSUME CallInv, ~Serving \/ (call = NoCall /\ child = NoChild), UNCHANGED <<child, call>>
  PROVE  CallInv'
BY DEF CallInv

(* A call that is allowed forks a child that is to become who the identity *)
(* of the start says.                                                      *)
LEMMA DispatchInv ==
  ASSUME IInv, Dispatch
  PROVE  IInv'
<1>1. FileInv' /\ StartInv'
  BY FileKept, AnsweredInv DEF IInv, Dispatch
<1>2. PICK r \in Requests :
        Permits(Rules, r) /\ call' = r /\ Fork(developer_tier_run_as(r.command) # NoIdentity, developer_tier_run_as(r.command).uid)
  BY DEF Dispatch
<1>3. PICK drop \in BOOLEAN, uid \in {developer_tier_run_as(r.command).uid} :
        drop = (developer_tier_run_as(r.command) # NoIdentity)
  OBVIOUS
<1>4. Forked(drop, uid)'
  BY <1>2, <1>3, ForkStarts
<1>5. RunAs' = developer_tier_run_as(r.command)
  BY <1>2 DEF Dispatch, RunAs, developer_tier_run_as
<1>6. Serving'
  BY DEF Dispatch, IInv, StartInv, ReplyComputed, Serving
<1>7. SpawnInv(RunAs # NoIdentity, RunAs.uid)'
  BY <1>3, <1>4, <1>5 DEF SpawnInv
<1>8. Rules' = Rules
  BY DEF Dispatch, Rules
<1> QED
  BY <1>1, <1>2, <1>6, <1>7, <1>8 DEF IInv, CallInv

(* The child's steps are those of SpawnProofs; the server waits.           *)
LEMMA ExecuteInv ==
  ASSUME IInv, Execute
  PROVE  IInv'
<1>1. UNCHANGED configFile /\ UNCHANGED <<world, run>> /\ call' = call /\ SpawnStep
  BY DEF Execute
<1>2. FileInv' /\ StartInv'
  <2>1. changes' \in 0..MaxChanges /\ accounts' \in [Users -> Uids \cup {Gone}]
    BY <1>1 DEF IInv, StartInv, RunTypes
  <2> QED
    BY <1>1, <2>1, FileKept, RunKept DEF IInv
<1>3. /\ Serving /\ call \in Requests /\ Permits(Rules, call)
      /\ SpawnInv(RunAs # NoIdentity, RunAs.uid)
  <2>1. child # NoChild
    BY <1>1 DEF SpawnStep, chdir, setgroups, setgid, setuid, Step, Exec, NoChild
  <2> QED
    BY <2>1 DEF IInv, CallInv
<1>4. SpawnInv(RunAs # NoIdentity, RunAs.uid)'
  <2>1. RunAs' = RunAs
    BY <1>1 DEF RunAs, developer_tier_run_as
  <2> QED
    BY <1>1, <1>3, <2>1, SpawnKeepsInv
<1>5. Rules' = Rules
  BY <1>1 DEF Rules
<1> QED
  BY <1>1, <1>2, <1>3, <1>4, <1>5 DEF IInv, CallInv, Serving

(* Every step of the server keeps the invariant.                           *)
THEOREM Inductive == IInv /\ [ServerNext]_serverVars => IInv'
<1> SUFFICES ASSUME IInv, [ServerNext]_serverVars PROVE IInv'
  OBVIOUS
<1>1. CASE FileNext /\ UNCHANGED <<world, run>> /\ UNCHANGED <<child, call>>
  <2>1. changes' \in 0..MaxChanges /\ accounts' \in [Users -> Uids \cup {Gone}]
    BY <1>1 DEF IInv, StartInv, RunTypes
  <2> QED
    BY <1>1, <2>1, FileNextInv, RunKept, CallKept DEF IInv
<1>2. CASE ChangeAccount /\ UNCHANGED <<child, call>>
  <2>1. UNCHANGED configFile /\ UNCHANGED run
    BY <1>2 DEF ChangeAccount
  <2> QED
    BY <1>2, <2>1, FileKept, ChangeAccountInv, CallKept DEF IInv
<1>3. CASE Systemd /\ UNCHANGED <<child, call>>
  <2>1. UNCHANGED configFile /\ ~Serving /\ Start
    BY <1>3 DEF Systemd, Start, Serving
  <2> QED
    BY <1>3, <2>1, FileKept, StartStopInv, NothingRuns DEF IInv
<1>4. CASE Starting /\ UNCHANGED <<child, call>>
  <2>1. UNCHANGED configFile /\ ~Serving
    BY <1>4 DEF Starting, Load, ValidateBindAddress, ValidateTier, ValidateCustomRules,
                ValidateDeveloper, Listen, BindFails, Refuse, Process, Serving
  <2> QED
    BY <1>4, <2>1, FileKept, StartingInv, NothingRuns DEF IInv
<1>5. CASE Answered /\ UNCHANGED <<child, call>>
  <2>1. UNCHANGED configFile /\ reply' = NoReply /\ UNCHANGED <<world, pc, started, stops>>
    BY <1>5 DEF Answered
  <2> QED
    BY <1>5, <2>1, FileKept, AnsweredInv, CallKept DEF IInv
<1>6. CASE Request /\ call = NoCall /\ UNCHANGED <<child, call>>
  <2>1. UNCHANGED configFile /\ UNCHANGED <<pc, config, identity>>
    BY <1>6 DEF Request
  <2> QED
    BY <1>6, <2>1, FileKept, RequestInv, CallKept DEF IInv
<1>7. CASE Dispatch
  BY <1>7, DispatchInv
<1>8. CASE Execute
  BY <1>8, ExecuteInv
<1>9. CASE Complete
  <2>1. UNCHANGED configFile /\ UNCHANGED <<world, run>> /\ child' = NoChild /\ call' = NoCall
    BY <1>9 DEF Complete, ChildEnds
  <2>2. changes' \in 0..MaxChanges /\ accounts' \in [Users -> Uids \cup {Gone}]
    BY <2>1 DEF IInv, StartInv, RunTypes
  <2> QED
    BY <2>1, <2>2, FileKept, RunKept DEF IInv, CallInv
<1>10. CASE StopAll
  <2>1. UNCHANGED configFile /\ Stop /\ child' = NoChild /\ call' = NoCall
    BY <1>10 DEF StopAll, Stop
  <2> QED
    BY <2>1, FileKept, StartStopInv DEF IInv, CallInv
<1>11. CASE UNCHANGED serverVars
  <2>1. UNCHANGED configFile /\ UNCHANGED <<world, run>> /\ UNCHANGED <<child, call>>
    BY <1>11
  <2>2. changes' \in 0..MaxChanges /\ accounts' \in [Users -> Uids \cup {Gone}]
    BY <2>1 DEF IInv, StartInv, RunTypes
  <2> QED
    BY <2>1, <2>2, FileKept, RunKept, CallKept DEF IInv
<1> QED
  BY <1>1, <1>2, <1>3, <1>4, <1>5, <1>6, <1>7, <1>8, <1>9, <1>10, <1>11 DEF ServerNext

-----------------------------------------------------------------------------
(* The file, the start and the command in flight agree in every reachable  *)
(* state of the server.                                                    *)
THEOREM Invariant == ServerSpec => []IInv
BY ServerInitInv, Inductive, PTL DEF ServerSpec

(* The child of an invariant state.                                        *)
LEMMA ChildOfCall ==
  ASSUME CallInv, child # NoChild
  PROVE  /\ Serving /\ call \in Requests
         /\ child.at \in {"fork", "running", "failed"} /\ NoSelfInflictedFailure /\ NothingOfRootIsLeft
         /\ child.at = "running" => child.has.uid = IF RunAs # NoIdentity THEN RunAs.uid ELSE 0
<1>1. Serving /\ call \in Requests /\ SpawnInv(RunAs # NoIdentity, RunAs.uid)
  BY DEF CallInv
<1>2. (RunAs # NoIdentity) \in BOOLEAN
  OBVIOUS
<1> QED
  BY <1>1, <1>2, WhatRuns

(* What is no child does not run.                                          *)
LEMMA NoChildRuns == child = NoChild => child.at = "none"
BY DEF NoChild

(* The variables keep their types, whatever accounts, files and requests   *)
(* there are; in particular no identity is that of root.                   *)
THEOREM TypeCorrect == ServerSpec => []TypeOK
<1>1. ASSUME IInv PROVE TypeOK
  <2>1. /\ edits \in 0..MaxEdits
        /\ \A s \in Setters : setter[s].pc \in {"not_run", "read", "truncate", "write", "done"}
    BY <1>1 DEF IInv, FileInv, FileTypes
  <2>2. /\ changes \in 0..MaxChanges /\ stops \in 0..MaxStops /\ cli \in Flags
        /\ accounts \in [Users -> Uids \cup {Gone}]
        /\ sink \in {"none", "journald", "stderr"}
        /\ warnings \subseteq {"unrestricted", "unconditional_allow", "shadowed_deny", "sudo"}
        /\ identity \in {NoIdentity} \cup [user : Users, uid : Uids \ {0}]
    BY <1>1 DEF IInv, StartInv, RunTypes, Accounts
  <2>3. pc \in {"down", "load", "bind_check", "tier", "custom_rules", "developer", "listen", "serving", "failed"}
    BY <1>1 DEF IInv, StartInv, RunTypes, LoadDone, BindDone, TierDone, RulesDone, Listening
  <2>4. reply = NoReply \/ reply.status \in {200, 401, 403}
    BY <1>1 DEF IInv, StartInv, ReplyComputed, AnswerTo
  <2>5. child.at \in {"none", "fork", "running", "failed"} /\ call \in Requests \cup {NoCall}
    BY <1>1, ChildOfCall, NoChildRuns DEF IInv, CallInv
  <2> QED
    BY <2>1, <2>2, <2>3, <2>4, <2>5 DEF TypeOK
<1> QED
  BY <1>1, Invariant, PTL

(* A set-tier that nothing overlaps and nothing interrupts changes the     *)
(* tier and no other key, for any texts and any number of set-tiers.       *)
THEOREM QuietSetTierExact == ServerSpec => []QuietSetTierIsExact
<1>1. IInv => QuietSetTierIsExact
  BY QuietIsExact DEF IInv
<1> QED
  BY <1>1, Invariant, PTL

(* Whatever the file says, no risk is taken without its flag: the server   *)
(* does not listen everywhere, and no command runs as root whatever its    *)
(* arguments.                                                              *)
THEOREM RisksNeedFlags == ServerSpec => []RisksAcknowledged
<1>1. IInv => RisksAcknowledged
  BY RisksFollow DEF IInv
<1> QED
  BY <1>1, Invariant, PTL

(* A deny in the file that is read refuses what it describes, under every  *)
(* tier, unless an earlier rule of the file describes it, too.             *)
THEOREM FileDeniesHold == ServerSpec => []DeniesInForce
<1>1. IInv => DeniesInForce
  BY DeniesFollow DEF IInv
<1> QED
  BY <1>1, Invariant, PTL

(* An allow without a pattern that lets through what the tier refuses has  *)
(* been warned about before the server serves.                             *)
THEOREM ReinstatementsWarned == ServerSpec => []ReinstatementIsWarned
<1>1. IInv => ReinstatementIsWarned
  BY ReinstatementFollows DEF IInv
<1> QED
  BY <1>1, Invariant, PTL

(* The token, and only the token, opens the door.                          *)
THEOREM DoorIsGuarded == ServerSpec => []TokenOpensTheDoor
<1>1. IInv => TokenOpensTheDoor
  BY DoorFollows DEF IInv
<1> QED
  BY <1>1, Invariant, PTL

(* Every rejection is in the journal, and nothing that rmcp traces.        *)
THEOREM JournalIsComplete == ServerSpec => []JournalIsTheAuditTrail
<1>1. IInv => JournalIsTheAuditTrail
  BY DoorFollows DEF IInv
<1> QED
  BY <1>1, Invariant, PTL

(* No step between fork and exec takes away what a later one needs.        *)
THEOREM SpawnsFailForReason == ServerSpec => []NoSelfInflictedFailure
<1>1. ASSUME IInv PROVE NoSelfInflictedFailure
  BY <1>1, ChildOfCall, NoChildRuns DEF IInv, NoSelfInflictedFailure
<1> QED
  BY <1>1, Invariant, PTL

(* What runs under the developer tier has the identity that the account    *)
(* had at the start, and nothing of root; what runs otherwise is root's.   *)
THEOREM PrivilegesDropped == ServerSpec => []DroppedToTheAccount
<1>1. ASSUME IInv, child.at = "running" PROVE DroppedToTheAccount
  <2>1. child # NoChild
    BY <1>1, NoChildRuns
  <2>2. /\ Serving /\ NothingOfRootIsLeft
        /\ child.has.uid = IF RunAs # NoIdentity THEN RunAs.uid ELSE 0
    BY <1>1, <2>1, ChildOfCall DEF IInv
  <2>3. IdentityChosen
    BY <1>1, <2>2, PastTheGates DEF IInv
  <2>4. CASE config.tier = "developer" /\ call.command \notin ROOT_REQUIRED_TOOLS
    <3>1. RunAs = identity /\ identity \in Accounts /\ identity.user = config.developer_user
      BY <2>3, <2>4 DEF RunAs, developer_tier_run_as, IdentityChosen
    <3>2. identity # NoIdentity /\ identity.uid # 0
      BY <3>1, StartupAssumption DEF Accounts, NoIdentity
    <3> QED
      BY <2>2, <2>4, <3>1, <3>2 DEF DroppedToTheAccount
  <2>5. CASE ~(config.tier = "developer" /\ call.command \notin ROOT_REQUIRED_TOOLS)
    <3>1. RunAs = NoIdentity
      BY <2>3, <2>5 DEF RunAs, developer_tier_run_as, IdentityChosen
    <3> QED
      BY <2>2, <2>5, <3>1 DEF DroppedToTheAccount
  <2> QED
    BY <2>4, <2>5
<1>2. IInv => DroppedToTheAccount
  BY <1>1 DEF DroppedToTheAccount
<1> QED
  BY <1>2, Invariant, PTL

-----------------------------------------------------------------------------
(* The configuration file as a register.                                   *)

(* Nothing but the file's users and their steps touches it.                *)
LEMMA OnlyUsersWrite ==
  ASSUME ServerNext
  PROVE  FileNext \/ UNCHANGED configFile
BY DEF ServerNext, ChangeAccount, Systemd, Start, Starting, Load, ValidateBindAddress, ValidateTier,
       ValidateCustomRules, ValidateDeveloper, Listen, BindFails, Refuse, Process, Answered, Request,
       Dispatch, Execute, Complete, StopAll, Stop

(* Every set-tier under way was asked for one of the tiers, in every       *)
(* reachable state.                                                        *)
THEOREM TiersAskedFor == ServerSpec => []TiersAsked
<1>1. ServerInit => TiersAsked
  BY DEF ServerInit, StartupInit, FileInit, TiersAsked, Active
<1>2. IInv /\ TiersAsked /\ [ServerNext]_serverVars => TiersAsked'
  <2> SUFFICES ASSUME IInv, TiersAsked, [ServerNext]_serverVars PROVE TiersAsked'
    OBVIOUS
  <2>1. FileTypes /\ (FileNext \/ UNCHANGED configFile)
    BY OnlyUsersWrite DEF IInv, FileInv
  <2>2. CASE FileNext
    BY <2>1, <2>2, TiersAskedStep
  <2>3. CASE UNCHANGED configFile
    BY <2>3 DEF TiersAsked, Active
  <2> QED
    BY <2>1, <2>2, <2>3
<1> QED
  BY <1>1, <1>2, Invariant, PTL DEF ServerSpec

(* The file with all its users, for any number of saves and set-tiers at   *)
(* any moments of a server's life, is the register of ConfigRegister: a    *)
(* set-tier takes effect at one moment, in which it changes the tier and   *)
(* no other key, unless it is overlapped, killed or fails.                 *)
THEOREM ImplementsRegister == ServerSpec => FileIsRegister
<1>1. ServerInit => Register!Init
  <2> SUFFICES ASSUME ServerInit PROVE Register!Init
    OBVIOUS
  <2>1. file \in Texts /\ intended = file /\ disturbed = FALSE
    BY DEF ServerInit, StartupInit, FileInit
  <2>2. AnyActive = FALSE
    BY DEF ServerInit, StartupInit, FileInit, AnyActive, Active
  <2> QED
    BY <2>1, <2>2 DEF Register!Init
<1>2. IInv /\ TiersAsked /\ [ServerNext]_serverVars => [Register!Next]_(Register!vars)
  <2> SUFFICES ASSUME IInv, TiersAsked, [ServerNext]_serverVars PROVE [Register!Next]_(Register!vars)
    OBVIOUS
  <2>1. FileNext \/ UNCHANGED configFile
    BY OnlyUsersWrite
  <2>2. CASE FileNext
    BY <2>2, FileStepIsRegister DEF IInv
  <2>3. CASE UNCHANGED configFile
    BY <2>3 DEF Register!vars, AnyActive, Active
  <2> QED
    BY <2>1, <2>2, <2>3
<1> QED
  BY <1>1, <1>2, Invariant, TiersAskedFor, PTL DEF ServerSpec, FileIsRegister, Register!Spec

(* A start that reads the file while no set-tier is disturbed gets the     *)
(* text that is intended, also when it reads between the steps of one: it  *)
(* never goes on with half of a configuration, at worst it fails and is    *)
(* started again.                                                          *)
LoadsWhatIsIntended ==
  pc = "load" /\ pc' = "bind_check" /\ ~disturbed =>
    loads(intended) /\ config' = load(intended)

(* What is visible while set-tier has truncated the file lacks the         *)
(* required keys, so Config::load refuses it.                              *)
THEOREM QuietLoads == ServerSpec => [][LoadsWhatIsIntended]_serverVars
<1>1. ~loads(Empty)
  BY DEF loads, Empty, Required
<1>2. ASSUME FileInv, ~disturbed, loads(file) PROVE file = intended
  BY <1>1, <1>2 DEF FileInv, Quiet
<1>3. ASSUME IInv, ServerNext, pc = "load", pc' = "bind_check", ~disturbed
      PROVE  loads(intended) /\ config' = load(intended)
  <2>1. loads(file) /\ config' = load(file)
    BY <1>3 DEF ServerNext, ChangeAccount, Systemd, Start, Starting, Load, ValidateBindAddress,
                ValidateTier, ValidateCustomRules, ValidateDeveloper, Listen, BindFails, Refuse, Process,
                Answered, Request, Dispatch, Execute, Complete, StopAll, Stop
  <2> QED
    BY <1>2, <1>3, <2>1 DEF IInv
<1>4. IInv /\ [ServerNext]_serverVars => [LoadsWhatIsIntended]_serverVars
  BY <1>3 DEF LoadsWhatIsIntended
<1> QED
  BY <1>4, Invariant, PTL DEF ServerSpec

-----------------------------------------------------------------------------
(* From the file to the process.                                           *)

(* A command that was spawned is one that the rules read at the start      *)
(* permit; if a custom rule decides it, that rule allows it.  No request,  *)
(* reload of the file or restart brings a denied command to fork.          *)
OnlyThePermittedRuns ==
  child # NoChild =>
    /\ Permits(Rules, call)
    /\ \A k \in DOMAIN config.custom_rules :
         DecidedBy(k, call) => config.custom_rules[k].effect = "allow"

(* The first of the custom rules that match is the first of all.           *)
LEMMA CustomRuleDecides ==
  ASSUME LoadedConfig(config), Permits(Rules, call), NEW k \in DOMAIN config.custom_rules,
         DecidedBy(k, call)
  PROVE  config.custom_rules[k].effect = "allow"
<1> DEFINE custom == config.custom_rules
           tier   == rules_for_tier(config.tier)
<1>1. Listed(custom) /\ Listed(tier)
  <2>1. \E t \in 1..4 : config.tier = tier_order[t]
    BY TierOrder DEF LoadedConfig, TierNames
  <2> QED
    BY <2>1, EffectiveRulesListed DEF LoadedConfig
<1>2. Rules = custom \o tier
  BY DEF Rules, effective_rules_for
<1>3. PICK m \in DOMAIN Rules :
        /\ Matches(Rules[m], call) /\ Rules[m].effect = "allow"
        /\ \A j \in 1..(m - 1) : ~Matches(Rules[j], call)
  BY DEF Permits
<1>4. Matches(custom[k], call) /\ \A j \in 1..(k - 1) : ~Matches(custom[j], call)
  BY DEF DecidedBy
<1> HIDE DEF custom, tier
<1>5. /\ Len(custom) \in Nat /\ Len(tier) \in Nat /\ DOMAIN custom = 1..Len(custom)
      /\ DOMAIN Rules = 1..(Len(custom) + Len(tier))
      /\ \A j \in 1..Len(custom) : Rules[j] = custom[j]
  BY <1>1, <1>2, Concat
<1>6. k \in 1..Len(custom) /\ m \in Nat
  BY <1>3, <1>5 DEF custom
<1>7. ~(m < k)
  <2> SUFFICES ASSUME m < k PROVE FALSE
    OBVIOUS
  <2>1. m \in 1..(k - 1) /\ Rules[m] = custom[m]
    BY <1>3, <1>5, <1>6
  <2> QED
    BY <1>3, <1>4, <2>1
<1>8. ~(k < m)
  <2> SUFFICES ASSUME k < m PROVE FALSE
    OBVIOUS
  <2>1. k \in 1..(m - 1) /\ Rules[k] = custom[k]
    BY <1>3, <1>5, <1>6
  <2> QED
    BY <1>3, <1>4, <2>1
<1>9. m = k /\ Rules[k] = custom[k]
  BY <1>5, <1>6, <1>7, <1>8
<1> QED
  BY <1>3, <1>9 DEF custom

(* In every reachable state, for any file, requests and failures.          *)
THEOREM PermittedRuns == ServerSpec => []OnlyThePermittedRuns
<1>1. ASSUME IInv, child # NoChild PROVE OnlyThePermittedRuns
  <2>1. Serving /\ Permits(Rules, call)
    BY <1>1 DEF IInv, CallInv
  <2>2. LoadedConfig(config)
    BY <1>1, <2>1 DEF IInv, StartInv, GatesPassed, Serving, LoadDone, BindDone, TierDone, RulesDone, Listening
  <2> QED
    BY <2>1, <2>2, CustomRuleDecides DEF OnlyThePermittedRuns
<1>2. IInv => OnlyThePermittedRuns
  BY <1>1 DEF OnlyThePermittedRuns
<1> QED
  BY <1>2, Invariant, PTL

(* Unless the operator has said that he understands the risk, what runs as *)
(* root was let through by a rule of a restricted tier's table or by a     *)
(* custom allow that looks at the arguments.  This is what the gates of a  *)
(* start, the policy and the privilege drop come to together.              *)
RootRunsByRule ==
  child.at = "running" /\ child.has.uid = 0 /\ ~cli.i_understand_the_risk =>
    /\ config.tier # "unrestricted"
    /\ Permits(Rules, call)
    /\ \A k \in DOMAIN config.custom_rules :
         DecidedBy(k, call) =>
           config.custom_rules[k].effect = "allow" /\ ~AnyArguments(config.custom_rules[k])

(* A command that such an allow lets through has been dropped to the       *)
(* account's uid, which is not root's.                                     *)
THEOREM RootIsAcknowledged == ServerSpec => []RootRunsByRule
<1>1. ASSUME IInv, OnlyThePermittedRuns, RisksAcknowledged,
             child.at = "running", child.has.uid = 0, ~cli.i_understand_the_risk
      PROVE  RootRunsByRule
  <2>1. child # NoChild
    BY <1>1, NoChildRuns
  <2>2. /\ Serving /\ call \in Requests
        /\ child.has.uid = IF RunAs # NoIdentity THEN RunAs.uid ELSE 0
    BY <1>1, <2>1, ChildOfCall DEF IInv
  <2>3. RunAs = NoIdentity
    <3>1. RunAs \in {NoIdentity} \cup Accounts
      BY <1>1 DEF IInv, StartInv, RunTypes, RunAs, developer_tier_run_as
    <3>2. \A a \in Accounts : a.uid # 0
      BY DEF Accounts
    <3> QED
      BY <1>1, <2>2, <3>1, <3>2
  <2>4. /\ config.tier # "unrestricted"
        /\ \A k \in DOMAIN config.custom_rules :
             DecidedBy(k, call) => ~AnyArguments(config.custom_rules[k])
    BY <1>1, <2>2, <2>3 DEF RisksAcknowledged, RunAs
  <2> QED
    BY <1>1, <2>1, <2>4 DEF OnlyThePermittedRuns, RootRunsByRule
<1>2. IInv /\ OnlyThePermittedRuns /\ RisksAcknowledged => RootRunsByRule
  BY <1>1 DEF RootRunsByRule
<1> QED
  BY <1>2, Invariant, PermittedRuns, RisksNeedFlags, PTL

-----------------------------------------------------------------------------
(* What is repaired stays repaired.                                        *)

(* The start that is under way will be of the file as it is now.           *)
UpToDate == pc = "load" \/ (pc \in LoadDone /\ config = load(file))

(* Once the file and the account are such that the server may start, a     *)
(* start that reads them, or has read them so, passes every gate: only the *)
(* bind can still fail it.  Recovers adds that this start comes.           *)
GatesOpen ==
  Startable /\ UpToDate /\ Starting =>
    /\ pc' = "failed" => pc = "listen"
    /\ pc' # "failed" => UpToDate'

(* The gates of main judge what Config::load read; none of them looks at   *)
(* what an earlier start left behind, so a repaired file is enough.        *)
THEOREM StartablePasses == ServerSpec => [][GatesOpen]_serverVars
<1>1. ASSUME IInv, Startable, UpToDate, Starting
      PROVE  /\ pc' = "failed" => pc = "listen"
             /\ pc' # "failed" => UpToDate'
  <2>1. file' = file /\ loads(file)
    BY <1>1 DEF Starting, Load, ValidateBindAddress, ValidateTier, ValidateCustomRules, ValidateDeveloper,
                Listen, BindFails, Refuse, Process, Startable
  <2>2. CASE Load
    <3>1. pc' = "bind_check" /\ config' = load(file)
      BY <2>1, <2>2 DEF Load, Process
    <3> QED
      BY <2>1, <3>1 DEF UpToDate, LoadDone, BindDone
  <2>3. CASE ~Load
    <3>1. config = load(file) /\ config' = config
      BY <1>1, <2>3 DEF UpToDate, LoadDone, BindDone, TierDone, RulesDone, Listening, Starting, Load,
           ValidateBindAddress, ValidateTier, ValidateCustomRules, ValidateDeveloper, Listen, BindFails, Refuse, Process
    <3>2. /\ validate_bind_address(config.bind_address, cli.allow_public_bind)
          /\ config.tier = "unrestricted" => cli.i_understand_the_risk
          /\ gate # {} => cli.i_understand_the_risk
          /\ config.tier = "developer" => developer_user_valid(config.developer_user)
      BY <1>1, <3>1 DEF Startable, gate
    <3>3. pc' = "failed" => pc = "listen"
      BY <1>1, <2>3, <3>2 DEF Starting, ValidateBindAddress, ValidateTier, ValidateCustomRules,
           ValidateDeveloper, Listen, BindFails, Refuse, Process
    <3>4. pc' # "failed" => pc' \in LoadDone
      BY <1>1, <2>3 DEF Starting, ValidateBindAddress, ValidateTier, ValidateCustomRules,
           ValidateDeveloper, Listen, BindFails, Refuse, Process,
           LoadDone, BindDone, TierDone, RulesDone, Listening
    <3> QED
      BY <2>1, <3>1, <3>3, <3>4 DEF UpToDate
  <2> QED
    BY <2>2, <2>3
<1>2. IInv /\ [ServerNext]_serverVars => [GatesOpen]_serverVars
  BY <1>1 DEF GatesOpen
<1> QED
  BY <1>2, Invariant, PTL DEF ServerSpec
=============================================================================
