SPECIFICATION Spec
CONSTANTS
  Sites = {s, t}
  Panel = {a, b}
  Cli = {c}
  Mortal = {c}
  MaxFaults = 2
SYMMETRY Symmetry
INVARIANTS Exclusive AppliedExactly Settled
CHECK_DEADLOCK FALSE
