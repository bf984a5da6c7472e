SPECIFICATION Spec
CONSTANTS
  Domains = {example, renamed}
  CodeLife = 1
  Ttl = 1
  KeyLife = 2
  Overlap = 1
  MaxTime = 2
  MaxCodes = 2
  MaxKeys = 2
  MaxChanges = 2
SYMMETRY Symmetry
INVARIANTS OneAuthenticates FreshVerifiable
CHECK_DEADLOCK FALSE
