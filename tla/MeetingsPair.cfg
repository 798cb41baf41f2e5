SPECIFICATION MeetingsSpec
CONSTANTS
  s1 = s1
  s2 = s2
  s3 = s3
  vic = vic
  ann = ann
  desk = desk
  link = link
  k1 = k1
  k2 = k2
  Sockets = {s1, s2}
  Users = {ann}
  Calls = {k1, k2}
  Rooms = {link}
  UserOf <- PairUserOf
  RoomOf <- PairRoomOf
  RoomKind <- PairKind
  Members <- PairMembers
  Visitors = {}
  Invitations = {}
  MaxJobs = 1
  NoList = NoList
  NoSocket = NoSocket
  NoMeeting = NoMeeting
SYMMETRY PairSymmetry
INVARIANTS
  SeatsAreBound
  DoodleOwnerBound
