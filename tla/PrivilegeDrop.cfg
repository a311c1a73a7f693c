CONSTANTS
  Requests <- MCRequests
  Commands <- MCCommands
  Texts <- MCTexts
  Units = {"sshd", "ssh*", "-.mount", "--file"}
  Actions = {"start", "stop", "restart", "enable", "disable", "reboot"}
  OptionLike = {"--host", "--nogpgcheck", "-f"}
  CandidateRules <- MCCandidateRules
  MaxCustomRules = 0
SPECIFICATION ToolsSpec
INVARIANT OnlyDeveloperToolsDropped
