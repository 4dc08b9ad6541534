CONSTANTS
  s1 = s1
  s2 = s2
  s3 = s3
  m1 = m1
  m2 = m2
  c1 = c1
  p1 = p1
  Members = {m1}
  Sockets = {s1}
  Owner <- MCOwner
  App <- MCApp
  Screens <- MCScreens
  Chats = {}
  Plans = {p1}
  MaxInbox = 1
  MaxPending = 1
  NoRoom = NoRoom
SPECIFICATION Spec
INVARIANTS
  EditorIsListed
