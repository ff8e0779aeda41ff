SPECIFICATION Spec
CONSTANTS
  Installed = {"cups", "scanbd", "listen"}
  Pick = "listen"
  Repairers = {bg}
  Background = bg
  bg = bg
  NoUnit = NoUnit
  CallsMayFail = TRUE
  MaxFaults = 2
  MaxToggles = 1
  MaxDisruptions = 3
INVARIANTS
  TypeOK
  OffMeansStopped
  IdleHandlerLeftAlone
