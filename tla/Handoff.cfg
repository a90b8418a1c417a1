SPECIFICATION Spec
CONSTANTS
  None = None
  a = a
  b = b
  p1 = p1
  p2 = p2
  p3 = p3
  Senders = {a, b}
  Panes = {p1, p2, p3}
  Opened <- MCOpened
  Barred <- MCBarred
  Readable = {p1, p3}
  Untracked = {p2}
  MaxHandle = 4
  Tries = 2
INVARIANTS TypedOnce ReportHonest
PROPERTIES LockedThere Undisturbed
CHECK_DEADLOCK FALSE
