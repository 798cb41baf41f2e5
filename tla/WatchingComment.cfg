SPECIFICATION WatchingSpec
CONSTANTS
  laptop = laptop
  Users = {alice}
  Sockets = {s1}
  Rooms = {red, blue}
  Tokens = {laptop}
  NoToken = NoToken
  NoPush = NoPush
  MaxEvents = 3
  TokenOf <- MCTokenOf
PROPERTIES
  PushSkipsWatchers
