SPECIFICATION FairSpec
CONSTANTS
  Installed = {"cups", "scanbd", "listen"}
  Pick = "listen"
  Repairers = {bg}
  Background = bg
  bg = bg
  NoUnit = NoUnit
  CallsMayFail = TRUE
  MaxFaults = 1
  MaxToggles = 2
  MaxDisruptions = 2
PROPERTIES
  PrintingRepaired
  ScanButtonRepaired
  RepairSettles
