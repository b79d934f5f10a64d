CONSTANTS
  Modifiers <- MCModifiers
  Keys <- MCKeys
  Buttons <- MCButtons
  Texts <- MCTexts
  Commands = {"view", "reload"}
  StartCommands = {"view"}
  ReloadCommands = {"reload"}
  Configs <- MCConfigs
  None = None
  MaxBindings = 4
SPECIFICATION FairSpec
INVARIANTS BindingsSound TimersSound
PROPERTIES CompleteChainRuns WaitingRunsTheShorter PendingEnds
CHECK_DEADLOCK FALSE
