SPECIFICATION CallsSpec
CONSTANTS
  ann = ann
  ben = ben
  team = team
  link = link
  Callers = {ann, ben}
  Guests = {guest}
  Rooms = {team, link}
  AnonymousRooms = {link}
  Members <- MCMembers
  Requests = {q1, q2}
  NoCall = NoCall
  MaxEnds = 1
INVARIANTS
  DeletedRoomHasNoMessage
