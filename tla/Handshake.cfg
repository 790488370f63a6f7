CONSTANTS
  Scripts <- MCScripts
SPECIFICATION Spec
INVARIANT TypeOK
 
PROPERTY ImplementsHandshakeSpec
