SPECIFICATION FairSpec
CONSTANTS
  alice = alice
  bob = bob
  a1 = a1
  a2 = a2
  b1 = b1
  Users = {alice, bob}
  Tokens = {a1, a2, b1}
  Owner <- MCOwner
  MaxCalls = 1
  MaxReloads = 1
  None = None
INVARIANTS OneToken SignOutIsFinal
PROPERTIES LoaderEnds
