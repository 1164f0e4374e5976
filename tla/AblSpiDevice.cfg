CONSTANTS
  Devices = {d1, d2, d3}
  MaxDevices = 2
  MaxOpens = 2
  Unbinds = TRUE
SPECIFICATION Spec
SYMMETRY DeviceSymmetry
INVARIANTS MinorsExact NothingDangles NothingLeaks
PROPERTIES UnloadOrphansNobody
