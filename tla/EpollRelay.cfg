CONSTANTS
  MaxInput <- MCMaxInput
  MaxOutput <- MCMaxOutput
  TermModes <- MCTermModes
SPECIFICATION Spec
INVARIANT TypeOK
PROPERTY EndsWhenEitherSideCloses
INVARIANT OutputExactAtRemoteClose
