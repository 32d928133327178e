SPECIFICATION RepSpec
CONSTANTS
  c1 = c1
  c2 = c2
  typed = typed
  more = more
  erased = erased
  appended = appended
  relayed = relayed
  b1 = b1
  b2 = b2
  Client = {c1, c2}
  Viewer = {c2}
  Typed = {typed, erased}
  Deletion = {erased}
  Appended = {appended}
  Bus = {relayed}
  Boot = {b1, b2}
  Null = Null
  MaxEvents = 4
INVARIANTS
  RepTypeOK
  RoomShowsDocument
  DocumentHasWhatIsShown
  BodyIsBuiltOnce
CHECK_DEADLOCK FALSE
