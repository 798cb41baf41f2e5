SPECIFICATION MessagesSpec
CONSTANTS
  Users = {sen, ann}
  Sender = sen
  Emojis = {like, love}
  Slots = {q1, q2}
  NoEmoji = NoEmoji
  NoPin = NoPin
  MaxRequests = 3
SYMMETRY MessagesSymmetry
INVARIANTS
  TwinReactionsOverlapped
  LostEditsOverlapped
  TwinPinsOverlapped
  LastGoesBackOverlapped
PROPERTIES
  OthersReactionsKept
  RemovedStays
