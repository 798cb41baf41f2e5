SPECIFICATION PeopleSpec
CONSTANTS
  Users = {alice, bob}
  Sockets = {s1, s2}
  Talks = {r1}
  MaxStreams = 3
  DeviceTokens = {t1}
  QuietRooms = {q1, q2}
  Visits = {v1, v2}
  MaxVisits = 3
  Phones = {p1, p2}
  MaxSteps = 4
  Pair = {a, b}
  Third = c
  Null = Null
  Threads = {x1, x2}
  MaxTalks = 3
INVARIANTS
  PeopleTypes
  StreamsEndWithSockets
  SettledDevices
  SettledAccounts
  SessionsActivated
  BlocksHold
  RoomsOfTwoSettle
PROPERTIES
  PresenceRefinesOnline
  HeardByTheirs
CHECK_DEADLOCK FALSE
