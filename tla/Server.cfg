SPECIFICATION ServerSpec
SYMMETRY Symmetry
CONSTANTS
  None = None
  Handler = {h1, h2}
  Watches <- AnyPart
  Top = {x, y}
  Child = {k}
  Folders = {d1, d2}
  Files = {f1, f2, f3}
  Link = {l1, l2}
  Folder = {a, b, d}
  Drive = {d}
  Names = 3
  MaxS3Objects = 2
  MaxWrites = 1
  Name = {1, 2}
  Picture = {p, q}
  Now = 2
  Client = {c1, c2}
  MaxFails = 2
  FailWindow = 2
  LockoutDur = 3
  MaxTime = 9
INVARIANTS
  LinksKeepTheirTargets RevokedOpensNothing
  NothingLost FinishedIsWhole
  ThumbsShowTheirPictures FolderFollowsItsFirst
  LimiterKeepsItsWord
CHECK_DEADLOCK FALSE
