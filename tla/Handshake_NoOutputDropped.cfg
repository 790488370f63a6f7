CONSTANTS
  Scripts <- MCScripts
SPECIFICATION Spec
INVARIANT NoOutputDropped
