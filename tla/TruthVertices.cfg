\* A decay through a particle that is not kept.
SPECIFICATION Spec
CONSTANTS
  Generated = 4
  MaxDeclared = 1
INVARIANT OneVertex
