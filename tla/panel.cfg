SPECIFICATION Spec
CONSTANTS
  Panels <- MCPanels
  Devices <- BothDevices
  MaxHeld = 3
  MaxQueue = 2
  MaxTurns = 2
CHECK_DEADLOCK FALSE
INVARIANTS TypeOK PanelFollowsUser LightsAgree
