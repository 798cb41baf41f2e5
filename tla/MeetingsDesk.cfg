SPECIFICATION MeetingsSpec
CONSTANTS
  s1 = s1
  s2 = s2
  s3 = s3
  vic = vic
  ann = ann
  desk = desk
  link = link
  k1 = k1
  k2 = k2
  Sockets = {s1, s2, s3}
  Users = {vic, ann}
  Calls = {k1}
  Rooms = {desk}
  UserOf <- DeskUserOf
  RoomOf <- DeskRoomOf
  RoomKind <- DeskKind
  Members <- DeskMembers
  Visitors = {vic}
  Invitations <- DeskInvitations
  MaxJobs = 1
  NoList = NoList
  NoSocket = NoSocket
  NoMeeting = NoMeeting
SYMMETRY DeskSymmetry
INVARIANTS
  HelpDeskOneSeatPerUser
  ScreensCurrent
PROPERTIES
  EvictedOnlyByFirstJoin
