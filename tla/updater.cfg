SPECIFICATION Spec
CONSTANTS
  Installed <- MCInstalled
  Catalogue <- MCCatalogue
  Buttons = {button}
  None = None
  MaxEdits = 1
  MaxMarks = 1
  MaxFaults = 2
INVARIANTS TypeOK PickIsNewest PrefsHold AnnouncedOnce OfferNotOlder
PROPERTIES AutoUpdateIsWanted
CHECK_DEADLOCK FALSE
