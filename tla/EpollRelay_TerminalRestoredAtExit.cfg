CONSTANTS
  MaxInput <- MCMaxInput
  MaxOutput <- MCMaxOutput
  TermModes <- MCTermModes
SPECIFICATION Spec
INVARIANT TerminalRestoredAtExit
