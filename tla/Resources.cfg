SPECIFICATION Spec
CONSTANTS
  Dir = {d1, d2}
  Link = {link}
  File = {p1}
  Bundled = Bundled
  Source = {src, bad}
  Unreadable = {bad}
  Bytes = {b1, b2}
  None = None
  Cocoa = TRUE
  MaxSize = 1
  MaxChanges = 2
INVARIANTS
  TypeOK
  ListedOldestFirst
  ReportedIsRead
PROPERTIES
  NewestDirectoryWins
  SameSnapshot
SYMMETRY Symmetry
