SPECIFICATION Spec
CONSTANTS
  o1 = o1
  o2 = o2
  Operators <- TwoOperators
  Rows = {a, b, f}
  FloatRows = {f}
  MaxEntries = 3
SYMMETRY Symmetry
INVARIANTS
  TypeOK
  TamperIsPinpointed
  TriggerIsRestored
