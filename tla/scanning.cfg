SPECIFICATION Spec
CONSTANTS
  Threads = {t1, t2}
  None = None
  Attempts = 2
  MaxTime = 1
  MaxScans = 2
  MaxFaults = 1
  MaxPresses = 2
INVARIANTS TypeOK LibraryShowsWholePdfs NoLeftovers PagesFromOneRun NoPhantomScan
PROPERTIES NothingOverwritten
SYMMETRY Symmetry
CHECK_DEADLOCK FALSE
