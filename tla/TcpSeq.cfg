SPECIFICATION Spec
CONSTANTS
  Modulus = 16
  Recent = 4
  MaxLen = 2
  MaxOut = 3
  Reach = 4
  Starts <- SomeStarts
  Last = 18
INVARIANTS TypeOK UnaExact AcceptedInPlace
