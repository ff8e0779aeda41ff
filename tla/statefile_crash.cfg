SPECIFICATION Spec
CONSTANTS
  Savers = {w1, w2}
  Readers = {r}
  Endpoints = {a}
  Docs <- EndpointSets
  Blank = {}
  Edits <- AddsAndDeletes
  Inodes = {i1, i2, i3, i4, i5}
  NoInode = NoInode
  Empty = Empty
  Torn = Torn
  w1 = w1
  w2 = w2
  r = r
  a = a
  i1 = i1
  i2 = i2
  i3 = i3
  i4 = i4
  i5 = i5
  MaxEdits = 3
  MaxFaults = 2
INVARIANT CrashLeavesNoHalfFile
