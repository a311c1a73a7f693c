CONSTANTS
  Requests <- MCRequests
  Commands <- MCCommands
  Texts <- MCTexts
  Units = {"sshd", "ssh*", "-.mount", "--file"}
  Actions = {"start", "stop", "restart", "enable", "disable", "reboot"}
  OptionLike = {"--host", "--nogpgcheck", "-f", "-y", "-c", "--"}
  CandidateRules <- MCCandidateRules
  MaxCustomRules = 2
SPECIFICATION ToolsSpec
INVARIANTS
  TypeOK
  DecisionIsFirstMatch
  CustomRulesWin
  SuggestionIsLowest
  TiersAreOrdered
  DeniesAreReached
  DeveloperAddsNoRoot
  UnlocksAreListed
  OptionsStayData
  AdvertisedTiers
  EndlessCallsOverride
