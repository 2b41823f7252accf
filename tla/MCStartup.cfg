SPECIFICATION Spec
CONSTANT
  MaxResets = 1
INVARIANTS
  AddressIsFresh
PROPERTIES
  WokenOnAddress
  CommsStarts
