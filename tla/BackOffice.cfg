SPECIFICATION BackOfficeSpec
CONSTANTS
  boss = boss
  amy = amy
  bob = bob
  People = {boss, amy}
  Owner = boss
  Desks = {d1, d2}
  MaxAsked = 4
  Folk = {boss, amy, bob}
  Boss = boss
  Firsts <- InvitedFirst
  Clerks = {d1, d2}
  MaxOrders = 3
  Scripts = {s1, s2}
  NoScript = NoScript
  TagNames = {vip, late}
  Chats = {c1}
  Raters = {u1}
  Agents = {d1, d2}
  MaxTasks = 4
  FormIds = {f1, f2}
  FormNames = {poll, quiz}
  Clients = {u1}
  Editors = {d1, d2}
  MaxEdits = 3
  MaxFields = 1
INVARIANTS
  BackOfficeTypes
  PlainMembersAgree
  SettledColleagues
  ClosedWithSpace
  ReferencesHold
  OfficeTwinsOverlapped
PROPERTIES
  OthersEntriesKept
CHECK_DEADLOCK FALSE
