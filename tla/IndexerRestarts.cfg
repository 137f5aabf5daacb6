SPECIFICATION Spec
CONSTANTS
  c1 = c1
  c2 = c2
  app = app
  lib = lib
  old = old
  new = new
  Scans = {s1, s2, s3}
  Commits = {c1, c2}
  NoCommit = NoCommit
  Files = {app, lib}
  Versions = {old, new}
  Absent = Absent
  External = External
  Content <- MCContent
  Calls <- MCCalls
  Overlapping = FALSE
  MaxCuts = 2
INVARIANTS
  TypeOK
  StampSound
PROPERTIES
  ForcedScanHeals
  UncutScanExact
