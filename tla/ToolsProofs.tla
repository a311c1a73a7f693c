---------------------------- MODULE ToolsProofs ----------------------------
(***************************************************************************)
(* Proofs about Tools, for every text a caller may write and every command *)
(* it may run.  The handlers only choose the request, so that all that     *)
(* PolicyProofs shows of a lookup holds of theirs too; what is new is the  *)
(* argv that each of them builds.                                          *)
(***************************************************************************)
EXTENDS Tools, PolicyProofs

-----------------------------------------------------------------------------
(* The argv in flight is one that the handler of its tool builds, and the  *)
(* override is what that handler passes on.                                *)
Handed(tool, command, args, override) ==
  /\ request = [command |-> command, args |-> args]
  /\ call = [tool |-> tool, override |-> override]

ByHandler ==
  \/ \E unit \in Texts : Handed("systemctl_status", "systemctl", status_argv(unit), FALSE)
  \/ \E action \in ALLOWED_ACTIONS, unit \in Texts :
       Handed("systemctl_control", "systemctl", control_argv(action, unit), FALSE)
  \/ \E package \in Texts : Handed("dnf_install", "dnf", install_argv(package), FALSE)
  \/ \E package \in Texts : Handed("dnf_remove", "dnf", remove_argv(package), FALSE)
  \/ \E host \in Texts, count \in {NoCount, << "4" >>} :
       Handed("ping", "ping", ping_argv(host, count), indefinite(count))
  \/ Handed("ip_addr", "ip", << "addr" >>, FALSE)
  \/ \E unit \in {<< >>} \cup {<< u >> : u \in Units}, follow \in BOOLEAN :
       Handed("journalctl_tail", "journalctl", journalctl_args(unit, follow), follow)
  \/ \E r \in Commands : Handed("run_command", r.command, r.args, FALSE)

CallInv == IF pc = "idle" THEN call = NoCall ELSE ByHandler

ToolsInv == IInv /\ CallInv

(* dispatch asks for what it was given.                                    *)
LEMMA DispatchHands ==
  ASSUME NEW tool, NEW command, NEW args, NEW override, dispatch(tool, command, args, override)
  PROVE  Ask /\ pc' # "idle" /\ Handed(tool, command, args, override)'
BY DEF dispatch, Ask, Handed

(* Each handler hands its own argv to dispatch, or answers by itself.      *)
LEMMA HandlersDispatch ==
  ASSUME Handlers
  PROVE  UNCHANGED toolVars \/ (Ask /\ pc' # "idle" /\ ByHandler')
<1>1. CASE systemctl_status
  <2>1. PICK unit \in Texts : dispatch("systemctl_status", "systemctl", status_argv(unit), FALSE)
    BY <1>1 DEF systemctl_status
  <2> QED  BY <2>1, DispatchHands DEF ByHandler
<1>2. CASE systemctl_control
  <2>1. PICK action \in Actions, unit \in Texts :
          IF is_allowed_action(action)
            THEN dispatch("systemctl_control", "systemctl", control_argv(action, unit), FALSE)
            ELSE reject
    BY <1>2 DEF systemctl_control
  <2>2. CASE is_allowed_action(action)
    BY <2>1, <2>2, DispatchHands DEF ByHandler, is_allowed_action
  <2>3. CASE ~is_allowed_action(action)
    BY <2>1, <2>3 DEF reject
  <2> QED  BY <2>2, <2>3
<1>3. CASE dnf_install
  <2>1. PICK package \in Texts : dispatch("dnf_install", "dnf", install_argv(package), FALSE)
    BY <1>3 DEF dnf_install
  <2> QED  BY <2>1, DispatchHands DEF ByHandler
<1>4. CASE dnf_remove
  <2>1. PICK package \in Texts : dispatch("dnf_remove", "dnf", remove_argv(package), FALSE)
    BY <1>4 DEF dnf_remove
  <2> QED  BY <2>1, DispatchHands DEF ByHandler
<1>5. CASE ping
  <2>1. PICK host \in Texts, count \in {NoCount, << "4" >>} :
          dispatch("ping", "ping", ping_argv(host, count), indefinite(count))
    BY <1>5 DEF ping
  <2> QED  BY <2>1, DispatchHands DEF ByHandler
<1>6. CASE ip_addr
  BY <1>6, DispatchHands DEF ip_addr, ByHandler
<1>7. CASE journalctl_tail
  <2>1. PICK unit \in {<< >>} \cup {<< u >> : u \in Units}, follow \in BOOLEAN :
          IF unit # << >> /\ unit[1] \in LongOption
            THEN reject
            ELSE dispatch("journalctl_tail", "journalctl", journalctl_args(unit, follow), follow)
    BY <1>7 DEF journalctl_tail
  <2>2. CASE unit # << >> /\ unit[1] \in LongOption
    BY <2>1, <2>2 DEF reject
  <2>3. CASE ~(unit # << >> /\ unit[1] \in LongOption)
    BY <2>1, <2>3, DispatchHands DEF ByHandler
  <2> QED  BY <2>2, <2>3
<1>8. CASE run_command
  <2>1. PICK r \in Commands : dispatch("run_command", r.command, r.args, FALSE)
    BY <1>8 DEF run_command
  <2> QED  BY <2>1, DispatchHands DEF ByHandler
<1> QED  BY <1>1, <1>2, <1>3, <1>4, <1>5, <1>6, <1>7, <1>8 DEF Handlers

(* A step of the tools is a step of the lookup behind them, or none of it. *)
LEMMA StepsMap == ToolsNext => Next \/ UNCHANGED vars
<1> SUFFICES ASSUME ToolsNext PROVE Next \/ UNCHANGED vars
  OBVIOUS
<1>1. CASE Handlers
  BY <1>1, HandlersDispatch DEF Next, toolVars
<1>2. CASE Evaluate
  BY <1>2 DEF Evaluate, Next
<1>3. CASE Reply
  BY <1>3 DEF Next
<1> QED  BY <1>1, <1>2, <1>3 DEF ToolsNext

(* The handlers with the policy behind them are the policy, asked for the  *)
(* argvs that the handlers build: what holds of every lookup holds of      *)
(* theirs.                                                                 *)
THEOREM HandlersOnlyAsk == ToolsSpec => Spec
<1>1. ToolsInit => Init
  BY DEF ToolsInit
<1>2. [ToolsNext]_toolVars => [Next]_vars
  <2>1. UNCHANGED toolVars => UNCHANGED vars
    BY DEF toolVars
  <2> QED  BY <2>1, StepsMap
<1> QED  BY <1>1, <1>2, PTL DEF ToolsSpec, Spec

(* What runs was built by the handler of its tool.                         *)
THEOREM RequestsAreBuilt == ToolsSpec => []ToolsInv
<1>1. ToolsInit => CallInv
  BY DEF ToolsInit, Init, CallInv
<1>2. CallInv /\ [ToolsNext]_toolVars => CallInv'
  <2> SUFFICES ASSUME CallInv, [ToolsNext]_toolVars PROVE CallInv'
    OBVIOUS
  <2>1. ASSUME pc # "idle", pc' # "idle", request' = request, call' = call PROVE CallInv'
    <3>1. ByHandler'
      BY <2>1 DEF CallInv, ByHandler, Handed
    <3> QED  BY <2>1, <3>1 DEF CallInv
  <2>2. CASE UNCHANGED toolVars
    <3>1. pc' = pc /\ request' = request /\ call' = call
      BY <2>2 DEF toolVars, vars
    <3> QED  BY <2>1, <3>1 DEF CallInv
  <2>3. CASE Handlers
    BY <2>2, <2>3, HandlersDispatch DEF CallInv
  <2>4. CASE Evaluate /\ UNCHANGED call
    <3>1. pc # "idle" /\ pc' # "idle" /\ request' = request
      BY <2>4 DEF Evaluate, Continue, AllowMatches, DenyMatches, NoRuleMatches, Scanning, Allowed, Denied
    <3> QED  BY <2>1, <2>4, <3>1
  <2>5. CASE Reply /\ call' = NoCall
    BY <2>5 DEF Reply, CallInv
  <2> QED  BY <2>2, <2>3, <2>4, <2>5 DEF ToolsNext
<1>3. ToolsSpec => []CallInv
  BY <1>1, <1>2, PTL DEF ToolsSpec
<1>4. IInv /\ CallInv => ToolsInv
  BY DEF ToolsInv
<1> QED  BY <1>3, <1>4, HandlersOnlyAsk, Inductive, PTL

-----------------------------------------------------------------------------
(* The argvs.                                                              *)
LEMMA PingArgv ==
  ASSUME NEW host
  PROVE  /\ ping_argv(host, NoCount) = << "--", host >>
         /\ DOMAIN ping_argv(host, << "4" >>) = 1..4
         /\ ping_argv(host, << "4" >>)[1] = "-c" /\ ping_argv(host, << "4" >>)[2] = "4"
         /\ ping_argv(host, << "4" >>)[3] = "--"
<1>1. NoCount # << "4" >> /\ NoCount = << >>
  BY DEF NoCount
<1>2. << >> \o << "--", host >> = << "--", host >>
  BY Listed2, ConcatEmpty
<1> DEFINE counted == << "-c" >> \o << "4" >>
           ending  == << "--", host >>
<1>3. Listed(<< "-c" >>) /\ Listed(<< "4" >>) /\ Listed(ending) /\ Listed(counted)
  BY Listed1, Listed2, ListedConcat
<1>4. Len(counted) = 2 /\ counted[1] = "-c" /\ counted[2] = "4"
  <2>1. Len(<< "-c" >>) = 1 /\ Len(<< "4" >>) = 1
    OBVIOUS
  <2>2. counted[1] = << "-c" >>[1] /\ counted[1 + 1] = << "4" >>[1] /\ Len(counted) = 1 + 1
    BY <1>3, <2>1, Concat
  <2> QED  BY <2>2
<1>5. Len(ending) = 2 /\ ending[1] = "--"
  OBVIOUS
<1> HIDE DEF counted, ending
<1>6. /\ DOMAIN (counted \o ending) = 1..4
      /\ (counted \o ending)[1] = "-c" /\ (counted \o ending)[2] = "4"
      /\ (counted \o ending)[3] = "--"
  <2> DEFINE argv == counted \o ending
  <2>1. /\ DOMAIN argv = 1..(Len(counted) + Len(ending))
        /\ \A k \in 1..Len(counted) : argv[k] = counted[k]
        /\ \A k \in 1..Len(ending) : argv[Len(counted) + k] = ending[k]
    BY <1>3, Concat
  <2> HIDE DEF argv
  <2>2. argv[1] = counted[1] /\ argv[2] = counted[2] /\ argv[2 + 1] = ending[1]
    BY <1>4, <1>5, <2>1
  <2>3. DOMAIN argv = 1..4 /\ argv[1] = "-c" /\ argv[2] = "4" /\ argv[3] = "--"
    BY <1>4, <1>5, <2>1, <2>2
  <2> QED  BY <2>3 DEF argv
<1>7. ping_argv(host, << "4" >>) = counted \o ending
  BY <1>1 DEF ping_argv, counted, ending
<1> QED  BY <1>1, <1>2, <1>6, <1>7 DEF ping_argv

(* No rules, and no arguments.                                             *)
LEMMA Listed0 == Listed(<< >>) /\ Elements(<< >>) = {}
<1>1. << >> \in Seq({})
  OBVIOUS
<1> QED  BY <1>1 DEF Listed, Elements

(* What is in journalctl's argv, wherever it stands.                       *)
LEMMA JournalctlArgs ==
  ASSUME NEW unit \in {<< >>} \cup {<< u >> : u \in Units}, NEW follow \in BOOLEAN
  PROVE  Elements(journalctl_args(unit, follow)) =
           {"-n", "--no-pager"} \cup (IF unit = << >> THEN {} ELSE {unit_filter(unit[1])})
             \cup (IF follow THEN {"-f"} ELSE {})
<1> DEFINE u == IF unit = << >> THEN << >> ELSE << unit_filter(unit[1]) >>
           f == IF follow THEN << "-f" >> ELSE << >>
           n == << "-n", "--no-pager" >>
<1>1. Listed(u) /\ Elements(u) = IF unit = << >> THEN {} ELSE {unit_filter(unit[1])}
  BY Listed0, Listed1, ElementsOf
<1>2. Listed(f) /\ Elements(f) = IF follow THEN {"-f"} ELSE {}
  BY Listed0, Listed1, ElementsOf
<1>3. Listed(n) /\ Elements(n) = {"-n", "--no-pager"}
  BY Listed2, ElementsOf
<1>4. journalctl_args(unit, follow) = n \o u \o f
  BY DEF journalctl_args
<1> HIDE DEF u, f, n
<1>5. Listed(n \o u) /\ Elements(n \o u) = Elements(n) \cup Elements(u)
  BY <1>1, <1>3, ListedConcat, ElementsConcat
<1>6. Elements(n \o u \o f) = Elements(n \o u) \cup Elements(f)
  BY <1>2, <1>5, ElementsConcat
<1> QED  BY <1>1, <1>2, <1>3, <1>4, <1>5, <1>6

-----------------------------------------------------------------------------
(* The theorems about the argvs.                                           *)

(* The calls that never end by themselves are given the safety net in      *)
(* place of the ordinary timeout, and no others are: ping without a count  *)
(* and journalctl that follows.                                            *)
THEOREM OverrideIffEndless == ToolsSpec => []EndlessCallsOverride
<1>1. ToolsInv => EndlessCallsOverride
  <2> SUFFICES ASSUME ByHandler, Structured PROVE call.override <=> NeverEnds
    BY DEF ToolsInv, CallInv, EndlessCallsOverride
  <2>1. ASSUME request.command \notin {"ping", "journalctl"}, call.override = FALSE
        PROVE  call.override <=> NeverEnds
    BY <2>1 DEF NeverEnds
  <2>2. CASE \E unit \in Texts : Handed("systemctl_status", "systemctl", status_argv(unit), FALSE)
    BY <2>1, <2>2 DEF Handed
  <2>3. CASE \E action \in ALLOWED_ACTIONS, unit \in Texts :
               Handed("systemctl_control", "systemctl", control_argv(action, unit), FALSE)
    BY <2>1, <2>3 DEF Handed
  <2>4. CASE \E package \in Texts : Handed("dnf_install", "dnf", install_argv(package), FALSE)
    BY <2>1, <2>4 DEF Handed
  <2>5. CASE \E package \in Texts : Handed("dnf_remove", "dnf", remove_argv(package), FALSE)
    BY <2>1, <2>5 DEF Handed
  <2>6. CASE \E host \in Texts, count \in {NoCount, << "4" >>} :
               Handed("ping", "ping", ping_argv(host, count), indefinite(count))
    <3>1. PICK host \in Texts, count \in {NoCount, << "4" >>} :
            Handed("ping", "ping", ping_argv(host, count), indefinite(count))
      BY <2>6
    <3>2. /\ request.command = "ping" /\ request.args = ping_argv(host, count)
          /\ call.override = (count = NoCount)
      BY <3>1 DEF Handed, indefinite
    <3>3. NoCount # << "4" >>
      BY DEF NoCount
    <3>4. request.args[1] # "-c" <=> count = NoCount
      BY <3>2, <3>3, PingArgv
    <3> QED  BY <3>2, <3>4 DEF NeverEnds
  <2>7. CASE Handed("ip_addr", "ip", << "addr" >>, FALSE)
    BY <2>1, <2>7 DEF Handed
  <2>8. CASE \E unit \in {<< >>} \cup {<< u >> : u \in Units}, follow \in BOOLEAN :
               Handed("journalctl_tail", "journalctl", journalctl_args(unit, follow), follow)
    <3>1. PICK unit \in {<< >>} \cup {<< u >> : u \in Units}, follow \in BOOLEAN :
            Handed("journalctl_tail", "journalctl", journalctl_args(unit, follow), follow)
      BY <2>8
    <3>2. /\ request.command = "journalctl" /\ request.args = journalctl_args(unit, follow)
          /\ call.override = follow
      BY <3>1 DEF Handed
    <3>3. "-f" \in Elements(request.args) <=> follow
      BY <3>2, JournalctlArgs DEF unit_filter
    <3> QED  BY <3>2, <3>3 DEF NeverEnds, Elements
  <2>9. CASE \E r \in Commands : Handed("run_command", r.command, r.args, FALSE)
    BY <2>9 DEF Handed, Structured
  <2> QED  BY <2>2, <2>3, <2>4, <2>5, <2>6, <2>7, <2>8, <2>9 DEF ByHandler
<1> QED  BY <1>1, RequestsAreBuilt, PTL

(* Under every tier, what a caller writes for a unit, a package or a host  *)
(* is data to the command that runs: an option comes before the separator  *)
(* only where the handler itself writes it.                                *)
THEOREM OptionsAreData == ToolsSpec => []OptionsStayData
<1>1. ToolsInv => OptionsStayData
  <2> SUFFICES ASSUME ByHandler, Structured, call.tool # "journalctl_tail",
                      NEW k \in DOMAIN request.args, request.args[k] \in OptionLike \ OwnOptions
               PROVE  \E j \in 1..(k - 1) : request.args[j] = "--"
    BY DEF ToolsInv, CallInv, OptionsStayData, Answered
  <2>1. ASSUME NEW word \in PlainWords PROVE word # request.args[k]
    BY <2>1, ToolsAssumption
  <2>2. request.args[k] # "--"
    BY DEF OwnOptions
  <2>3. ASSUME NEW word \in PlainWords, NEW text, request.args = << word, "--", text >>
        PROVE  \E j \in 1..(k - 1) : request.args[j] = "--"
    <3>1. k = 3
      BY <2>1, <2>2, <2>3
    <3> QED  BY <2>3, <3>1
  <2>4. ASSUME NEW word \in PlainWords, NEW text, call.tool \in {"dnf_install", "dnf_remove"},
               request.args = << word, "-y", "--", text >>
        PROVE  \E j \in 1..(k - 1) : request.args[j] = "--"
    <3>1. request.args[k] # "-y"
      BY <2>4 DEF OwnOptions
    <3>2. k = 4
      BY <2>1, <2>2, <2>4, <3>1
    <3> QED  BY <2>4, <3>2
  <2>5. CASE \E unit \in Texts : Handed("systemctl_status", "systemctl", status_argv(unit), FALSE)
    BY <2>3, <2>5 DEF Handed, status_argv, PlainWords
  <2>6. CASE \E action \in ALLOWED_ACTIONS, unit \in Texts :
               Handed("systemctl_control", "systemctl", control_argv(action, unit), FALSE)
    <3>1. PICK action \in ALLOWED_ACTIONS, unit \in Texts :
            request.args = control_argv(action, unit)
      BY <2>6 DEF Handed
    <3>2. action \in PlainWords /\ request.args = << action, "--", unit >>
      BY <3>1 DEF PlainWords, control_argv
    <3> QED  BY <2>3, <3>2
  <2>7. CASE \E package \in Texts : Handed("dnf_install", "dnf", install_argv(package), FALSE)
    BY <2>4, <2>7 DEF Handed, install_argv, PlainWords
  <2>8. CASE \E package \in Texts : Handed("dnf_remove", "dnf", remove_argv(package), FALSE)
    BY <2>4, <2>8 DEF Handed, remove_argv, PlainWords
  <2>9. CASE \E host \in Texts, count \in {NoCount, << "4" >>} :
               Handed("ping", "ping", ping_argv(host, count), indefinite(count))
    <3>1. PICK host \in Texts, count \in {NoCount, << "4" >>} :
            Handed("ping", "ping", ping_argv(host, count), indefinite(count))
      BY <2>9
    <3>2. request.args = ping_argv(host, count) /\ call.tool = "ping"
      BY <3>1 DEF Handed
    <3>3. CASE count = NoCount
      <4>1. request.args = << "--", host >>
        BY <3>2, <3>3, PingArgv
      <4>2. k = 2
        BY <2>2, <4>1
      <4> QED  BY <4>1, <4>2
    <3>4. CASE count = << "4" >>
      <4>1. /\ DOMAIN request.args = 1..4 /\ request.args[1] = "-c"
            /\ request.args[2] = "4" /\ request.args[3] = "--"
        BY <3>2, <3>4, PingArgv
      <4>2. request.args[k] # "-c" /\ request.args[k] # "4"
        BY <2>1, <3>2 DEF OwnOptions, PlainWords
      <4>3. k = 4
        BY <2>2, <4>1, <4>2
      <4> QED  BY <4>1, <4>3
    <3> QED  BY <3>3, <3>4
  <2>10. CASE Handed("ip_addr", "ip", << "addr" >>, FALSE)
    <3>1. request.args = << "addr" >>
      BY <2>10 DEF Handed
    <3>2. k = 1
      BY <3>1
    <3>3. "addr" # request.args[k]
      BY <2>1 DEF PlainWords
    <3> QED  BY <3>1, <3>2, <3>3
  <2>11. CASE \E unit \in {<< >>} \cup {<< u >> : u \in Units}, follow \in BOOLEAN :
                Handed("journalctl_tail", "journalctl", journalctl_args(unit, follow), follow)
    BY <2>11 DEF Handed
  <2>12. CASE \E r \in Commands : Handed("run_command", r.command, r.args, FALSE)
    BY <2>12 DEF Handed, Structured
  <2> QED  BY <2>5, <2>6, <2>7, <2>8, <2>9, <2>10, <2>11, <2>12 DEF ByHandler
<1> QED  BY <1>1, RequestsAreBuilt, PTL

-----------------------------------------------------------------------------
(* The tiers.                                                              *)
AllowsAt(t, r) == \E x \in Elements(rules_for_tier(t)) : x.effect = "allow" /\ Matches(x, r)

NoDenyAt(t, r) == \A x \in Elements(rules_for_tier(t)) : x.effect = "deny" => ~Matches(x, r)

AllTiers == {"safe", "standard", "developer", "unrestricted"}

(* A rule of a tier allows or denies.                                      *)
LEMMA EffectsKnown ==
  ASSUME NEW t \in AllTiers, NEW x \in Elements(rules_for_tier(t))
  PROVE  x.effect \in {"allow", "deny"}
<1>1. x \in Elements(safe_rules) \cup Elements(added_by_standard) \cup Elements(added_by_developer)
           \cup Elements(unrestricted_rules)
  BY RulesForTier, TableElements DEF AllTiers
<1>2. CASE x \in Elements(unrestricted_rules)
  BY <1>2, TableElements, RuleFields
<1> QED  BY <1>1, <1>2, SafeRules, StandardRules, DeveloperRules

(* What a tier allows the next one allows too, and the last one allows all.*)
LEMMA AllowsGrow ==
  ASSUME NEW r
  PROVE  /\ AllowsAt("safe", r) => AllowsAt("standard", r)
         /\ AllowsAt("standard", r) => AllowsAt("developer", r)
         /\ AllowsAt("unrestricted", r)
<1>1. (AllowsAt("safe", r) => AllowsAt("standard", r)) /\ (AllowsAt("standard", r) => AllowsAt("developer", r))
  BY RulesForTier, TableElements DEF AllowsAt
<1>2. AllowsAt("unrestricted", r)
  <2> DEFINE wild == allow(EmptyString, None, "every_command_no_restrictions")
  <2>1. wild \in Elements(rules_for_tier("unrestricted"))
    BY RulesForTier, TableElements
  <2>2. wild.effect = "allow" /\ Matches(wild, r)
    BY RuleFields DEF Matches, is_match, None
  <2> QED  BY <2>1, <2>2 DEF AllowsAt
<1> QED  BY <1>1, <1>2

(* A request that no deny of the tier matches is permitted from the first  *)
(* tier on that has an allow for it.                                       *)
LEMMA WorksFrom ==
  ASSUME NEW r, NEW t \in AllTiers, NoDenyAt(t, r), NEW first \in {"safe", "standard"},
         AllowsAt(first, r), first = "standard" => ~AllowsAt("safe", r)
  PROVE  Permits(rules_for_tier(t), r) <=> position(t) >= position(first)
<1>1. Permits(rules_for_tier(t), r) <=> AllowsAt(t, r)
  <2>1. Listed(rules_for_tier(t))
    BY Tables, RulesForTier DEF AllTiers
  <2> QED  BY <2>1, EffectsKnown, NoDenyMatches DEF AllowsAt, NoDenyAt
<1>2. AllowsAt(t, r) <=> position(t) >= position(first)
  BY AllowsGrow, Positions DEF AllTiers
<1> QED  BY <1>1, <1>2

(* The allows of the safe tier that the structured tools are written for.  *)
LEMMA SafeTools ==
  ASSUME NEW r,
         \/ r.command = "systemctl" /\ r.args # << >> /\ r.args[1] = "status"
         \/ r.command = "ping"
         \/ r.command = "ip" /\ r.args = << "addr" >>
         \/ r.command = "journalctl" /\ \E k \in DOMAIN r.args : r.args[k] \in {"-u=unit", "-u=glob"}
  PROVE  AllowsAt("safe", r)
<1>1. SUFFICES \E x \in Elements(systemctl_safe) \cup Elements(journalctl_safe) \cup Elements(diagnostics_safe) :
                 x.effect = "allow" /\ Matches(x, r)
  BY RulesForTier, TableElements DEF AllowsAt
<1>2. CASE r.command = "systemctl" /\ r.args # << >> /\ r.args[1] = "status"
  <2> DEFINE rule == allow("systemctl", Starts({"status"}), "read_a_unit's_status")
  <2>1. rule \in Elements(systemctl_safe)
    BY ElementsOf DEF systemctl_safe
  <2>2. rule.effect = "allow" /\ Matches(rule, r)
    BY <1>2, RuleFields DEF Matches, is_match, Starts
  <2> QED  BY <2>1, <2>2
<1>3. CASE r.command = "ping"
  <2> DEFINE rule == allow("ping", None, "send_ICMP_echo_requests")
  <2>1. rule \in Elements(diagnostics_safe)
    BY ElementsOf DEF diagnostics_safe
  <2>2. rule.effect = "allow" /\ Matches(rule, r)
    BY <1>3, RuleFields DEF Matches, is_match, None
  <2> QED  BY <2>1, <2>2
<1>4. CASE r.command = "ip" /\ r.args = << "addr" >>
  <2> DEFINE pattern == Reads({"addr", "route", "link"}, {"show", "list", "get"})
             rule    == allow("ip", pattern, "read_network_state")
  <2>1. rule \in Elements(diagnostics_safe)
    BY ElementsOf DEF diagnostics_safe
  <2>2. r.args # << >> /\ r.args[1] = "addr" /\ Len(r.args) = 1
    BY <1>4
  <2>3. pattern.kind = "reads" /\ pattern.tokens = {"addr", "route", "link"}
    BY DEF Reads
  <2>4. is_match(pattern, r.args)
    BY <2>2, <2>3 DEF is_match
  <2>5. rule.effect = "allow" /\ Matches(rule, r)
    BY <1>4, <2>4, RuleFields DEF Matches
  <2> QED  BY <2>1, <2>5
<1>5. CASE r.command = "journalctl" /\ \E k \in DOMAIN r.args : r.args[k] \in {"-u=unit", "-u=glob"}
  <2> DEFINE rule == allow("journalctl", Has({"-u=unit", "-u=glob"}), "read_the_journal_of_a_unit")
  <2>1. rule \in Elements(journalctl_safe)
    BY ElementsOf DEF journalctl_safe
  <2>2. rule.effect = "allow" /\ Matches(rule, r)
    BY <1>5, RuleFields DEF Matches, is_match, Has
  <2> QED  BY <2>1, <2>2
<1> QED  BY <1>1, <1>2, <1>3, <1>4, <1>5

(* The tools that change something are for the standard tier, by its       *)
(* allows, and not for the safe one, by those that it lacks.               *)
LEMMA StandardTools ==
  ASSUME NEW r,
         \/ r.command = "systemctl" /\ r.args # << >> /\ r.args[1] \in ALLOWED_ACTIONS
         \/ r.command = "dnf" /\ r.args # << >> /\ r.args[1] \in {"install", "remove"}
         \/ r.command = "journalctl" /\ ~\E k \in DOMAIN r.args : r.args[k] \in {"-u=unit", "-u=glob"}
  PROVE  AllowsAt("standard", r) /\ ~AllowsAt("safe", r)
<1>1. SUFFICES /\ \E x \in Elements(units_standard) \cup Elements(packages_standard)
                            \cup {allow("journalctl", None, "read_the_journal_unscoped")} :
                    x.effect = "allow" /\ Matches(x, r)
               /\ \A x \in Elements(safe_rules) : x.effect = "allow" => ~Matches(x, r)
  BY RulesForTier, TableElements DEF AllowsAt
<1>2. ASSUME NEW x \in Elements(safe_rules), x.effect = "allow", Matches(x, r)
      PROVE  x.command = r.command /\ r.command # "dnf" /\ is_match(x.arg_pattern, r.args)
  <2>1. x.command # EmptyString
    BY SafeRules DEF SafeCommands, EmptyString
  <2> QED  BY <1>2, <2>1, SafeRules DEF Matches, SafeCommands
<1>3. CASE r.command = "systemctl" /\ r.args # << >> /\ r.args[1] \in ALLOWED_ACTIONS
  <2> DEFINE rule == allow("systemctl", Starts({"start", "stop", "restart", "enable", "disable"}), "control_a_unit")
  <2>1. rule \in Elements(units_standard)
    BY ElementsOf DEF units_standard
  <2>2. rule.effect = "allow" /\ Matches(rule, r)
    BY <1>3, RuleFields DEF Matches, is_match, Starts, ALLOWED_ACTIONS
  <2>3. ASSUME NEW pattern \in StatusPatterns PROVE ~is_match(pattern, r.args)
    BY <1>3, <2>3 DEF StatusPatterns, is_match, Starts, ALLOWED_ACTIONS
  <2> QED  BY <1>2, <1>3, <2>1, <2>2, <2>3, SafeRules
<1>4. CASE r.command = "dnf" /\ r.args # << >> /\ r.args[1] \in {"install", "remove"}
  <2> DEFINE rule == allow("dnf", Starts({"install", "remove", "upgrade"}), "install_remove_or_upgrade_a_package")
  <2>1. rule \in Elements(packages_standard)
    BY ElementsOf DEF packages_standard
  <2>2. rule.effect = "allow" /\ Matches(rule, r)
    BY <1>4, RuleFields DEF Matches, is_match, Starts
  <2> QED  BY <1>2, <1>4, <2>1, <2>2
<1>5. CASE r.command = "journalctl" /\ ~\E k \in DOMAIN r.args : r.args[k] \in {"-u=unit", "-u=glob"}
  <2> DEFINE rule == allow("journalctl", None, "read_the_journal_unscoped")
  <2>1. rule.effect = "allow" /\ Matches(rule, r)
    BY <1>5, RuleFields DEF Matches, is_match, None
  <2>2. ~is_match(Has({"-u=unit", "-u=glob"}), r.args)
    BY <1>5 DEF is_match, Has
  <2> QED  BY <1>2, <1>5, <2>1, <2>2, SafeRules
<1> QED  BY <1>1, <1>3, <1>4, <1>5

(* A structured tool works from the tier on that its description tells the *)
(* agent, and under no lower one, unless the tier has a deny for what the  *)
(* caller wrote: the tables and the argvs, kept in different files, agree  *)
(* for every unit, package and host.                                       *)
THEOREM ToolsWorkAsAdvertised == ToolsSpec => []AdvertisedTiers
<1>1. ToolsInv /\ DecisionIsFirstMatch => AdvertisedTiers
  <2> DEFINE denied == \E k \in DOMAIN rules_for_tier(tier) :
                         rules_for_tier(tier)[k].effect = "deny" /\ Matches(rules_for_tier(tier)[k], request)
             Fits(t) == /\ t \in {"safe", "standard"} /\ AllowsAt(t, request)
                        /\ t = "standard" => ~AllowsAt("safe", request)
  <2> SUFFICES ASSUME ToolsInv, DecisionIsFirstMatch, pc = "done", Structured, custom_rules = << >>, ~denied
               PROVE  decision = "allowed" <=> position(tier) >= position(advertised)
    BY DEF AdvertisedTiers, Answered
  <2>1. tier \in AllTiers /\ Listed(rules_for_tier(tier)) /\ tier_order[position(tier)] = tier
    BY RulesListed, Tables, RulesForTier DEF ToolsInv, IInv, TypeOK, AllTiers
  <2>2. decision = "allowed" <=> Permits(rules_for_tier(tier), request)
    BY <2>1, ConcatEmpty DEF DecisionIsFirstMatch, Answered, PermittedAt, effective_rules_for
  <2>3. NoDenyAt(tier, request)
    BY DEF NoDenyAt, Elements
  <2>4. Fits(advertised)
    <3>1. ByHandler
      BY DEF ToolsInv, CallInv
    <3>2. CASE \E unit \in Texts : Handed("systemctl_status", "systemctl", status_argv(unit), FALSE)
      <4>1. PICK unit \in Texts : Handed("systemctl_status", "systemctl", status_argv(unit), FALSE)
        BY <3>2
      <4>2. request.command = "systemctl" /\ request.args = << "status", "--", unit >> /\ advertised = "safe"
        BY <4>1 DEF Handed, status_argv, advertised
      <4>3. request.args # << >> /\ request.args[1] = "status"
        BY <4>2
      <4> QED  BY <4>2, <4>3, SafeTools
    <3>3. CASE \E action \in ALLOWED_ACTIONS, unit \in Texts :
                 Handed("systemctl_control", "systemctl", control_argv(action, unit), FALSE)
      <4>1. PICK action \in ALLOWED_ACTIONS, unit \in Texts :
              Handed("systemctl_control", "systemctl", control_argv(action, unit), FALSE)
        BY <3>3
      <4>2. request.command = "systemctl" /\ request.args = << action, "--", unit >> /\ advertised = "standard"
        BY <4>1 DEF Handed, control_argv, advertised
      <4>3. request.args # << >> /\ request.args[1] \in ALLOWED_ACTIONS
        BY <4>2
      <4> QED  BY <4>2, <4>3, StandardTools
    <3>4. CASE \E package \in Texts : \/ Handed("dnf_install", "dnf", install_argv(package), FALSE)
                                     \/ Handed("dnf_remove", "dnf", remove_argv(package), FALSE)
      <4>1. PICK package \in Texts : \/ Handed("dnf_install", "dnf", install_argv(package), FALSE)
                                     \/ Handed("dnf_remove", "dnf", remove_argv(package), FALSE)
        BY <3>4
      <4>2. /\ request.command = "dnf" /\ advertised = "standard"
            /\ \/ request.args = << "install", "-y", "--", package >>
               \/ request.args = << "remove", "-y", "--", package >>
        BY <4>1 DEF Handed, install_argv, remove_argv, advertised
      <4>3. \A word : << word, "-y", "--", package >> # << >> /\ << word, "-y", "--", package >>[1] = word
        OBVIOUS
      <4>4. request.args # << >> /\ request.args[1] \in {"install", "remove"}
        BY <4>2, <4>3
      <4> QED  BY <4>2, <4>4, StandardTools
    <3>5. CASE \E host \in Texts, count \in {NoCount, << "4" >>} :
                 Handed("ping", "ping", ping_argv(host, count), indefinite(count))
      <4>1. request.command = "ping" /\ advertised = "safe"
        BY <3>5 DEF Handed, advertised
      <4> QED  BY <4>1, SafeTools
    <3>6. CASE Handed("ip_addr", "ip", << "addr" >>, FALSE)
      <4>1. request.command = "ip" /\ request.args = << "addr" >> /\ advertised = "safe"
        BY <3>6 DEF Handed, advertised
      <4> QED  BY <4>1, SafeTools
    <3>7. CASE \E unit \in {<< >>} \cup {<< u >> : u \in Units}, follow \in BOOLEAN :
                 Handed("journalctl_tail", "journalctl", journalctl_args(unit, follow), follow)
      <4>1. request.command = "journalctl" /\ call.tool = "journalctl_tail"
        BY <3>7 DEF Handed
      <4>2. advertised = IF \E k \in DOMAIN request.args : request.args[k] \in {"-u=unit", "-u=glob"}
                           THEN "safe" ELSE "standard"
        BY <4>1 DEF advertised
      <4>3. CASE \E k \in DOMAIN request.args : request.args[k] \in {"-u=unit", "-u=glob"}
        BY <4>1, <4>2, <4>3, SafeTools
      <4>4. CASE ~\E k \in DOMAIN request.args : request.args[k] \in {"-u=unit", "-u=glob"}
        BY <4>1, <4>2, <4>4, StandardTools
      <4> QED  BY <4>3, <4>4
    <3>8. CASE \E r \in Commands : Handed("run_command", r.command, r.args, FALSE)
      BY <3>8 DEF Handed, Structured
    <3> QED  BY <3>1, <3>2, <3>3, <3>4, <3>5, <3>6, <3>7, <3>8 DEF ByHandler
  <2> QED  BY <2>1, <2>2, <2>3, <2>4, WorksFrom
<1>2. ToolsSpec => []DecisionIsFirstMatch
  BY HandlersOnlyAsk, DecisionCorrect, PTL
<1> QED  BY <1>1, <1>2, RequestsAreBuilt, PTL

(* What PolicyProofs shows of every lookup holds of those that the         *)
(* handlers ask for.                                                       *)
THEOREM LookupsAreRight ==
  ToolsSpec => [](/\ DecisionIsFirstMatch /\ CustomRulesWin /\ SuggestionIsLowest /\ TiersAreOrdered
                  /\ DeniesAreReached /\ DeveloperAddsNoRoot /\ UnlocksAreListed)
BY HandlersOnlyAsk, DecisionCorrect, CustomRulesDecide, SuggestionCorrect, TiersOrdered,
   NoDenyIsShadowed, DeveloperIsNotRoot, SuggestionIsListed, PTL
=============================================================================
