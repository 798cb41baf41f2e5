SPECIFICATION WatchingSpec
CONSTANTS
  laptop = laptop
  Users = {alice}
  Sockets = {s1, s2}
  Rooms = {red, blue}
  Tokens = {laptop}
  NoToken = NoToken
  NoPush = NoPush
  MaxEvents = 3
  TokenOf <- MCTokenOf
SYMMETRY Symmetric
INVARIANTS
  WatchingTypeOK
  SettledDocsExact
PROPERTIES
  PushSkipsSettledWatchers
