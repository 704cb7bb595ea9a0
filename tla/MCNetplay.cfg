SPECIFICATION Spec
CONSTANTS
  Clients = {c1, c2}
  Names = {"n1", "n2", "n3"}
  Ports = {1, 2}
  Device <- MCDevice
  Buttons = {{1}}
  Masks = {{1}}
  Saved <- MCSaved
  MaxFed <- MCMaxFed
  MaxAhead = 1
  Acts = {{"command"}, {"command", "state"}, {"line"}, {"leave"}, {"state", "leave"}}
  MaxDone = 2
  MaxLogins <- MCMaxLogins
SYMMETRY MCSymmetry
INVARIANTS MachinesAgree ControllersAgree PlayersInSync
CHECK_DEADLOCK FALSE
