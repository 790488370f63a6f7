CONSTANTS
  MaxInput <- MCMaxInput
  MaxOutput <- MCMaxOutput
  MaxCmdLength <- MCMaxCmdLength
  Commands <- MCCommands
SPECIFICATION Spec
INVARIANT TypeOK
PROPERTY RestoreDiscipline
PROPERTY EndsWhenEveryWaitReleased
PROPERTY CommandEnds
INVARIANT CommandOutputExact
INVARIANT InputForwardedAtEof
