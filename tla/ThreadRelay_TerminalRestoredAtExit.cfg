CONSTANTS
  MaxInput <- MCMaxInput
  MaxOutput <- MCMaxOutput
  MaxCmdLength <- MCMaxCmdLength
  Commands <- MCCommands
SPECIFICATION Spec
INVARIANT TerminalRestoredAtExit
