SPECIFICATION Spec
CONSTANTS
  Installed = {"cups", "scanbd", "listen"}
  Pick = "listen"
  Repairers = {bg}
  Background = bg
  bg = bg
  NoUnit = NoUnit
  CallsMayFail = FALSE
  MaxFaults = 0
  MaxToggles = 1
  MaxDisruptions = 1
INVARIANT OffStaysStopped
