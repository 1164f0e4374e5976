--------------------------- MODULE MCAblSpiDevice ---------------------------
EXTENDS AblSpiDevice, TLC

DeviceSymmetry == Permutations(Devices)
=============================================================================
