SPECIFICATION GroupSpec
CONSTANTS
  Users = {ann, ben, cyd}
  Slots = {q1, q2}
  Additions <- Pairs
  NoUser = NoUser
  MaxRequests = 3
SYMMETRY GroupSymmetry
INVARIANTS
  ConsentNeeded
PROPERTIES
  LeavesKeepLeavers
  CurrentReadsKeepPromise
