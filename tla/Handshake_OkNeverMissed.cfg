CONSTANTS
  Scripts <- MCScripts
SPECIFICATION Spec
INVARIANT OkNeverMissed
