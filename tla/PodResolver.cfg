CONSTANTS
  Chars <- MCChars
  Names <- MCNames
  Inputs <- MCInputs
  MaxChanges <- MCMaxChanges
SPECIFICATION Spec
INVARIANT TypeOK
INVARIANT ResolvedPodExisted
INVARIANT ResolveMatchesSpec
INVARIANT ConnectHintFresh
