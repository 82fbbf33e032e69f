SPECIFICATION LinkSpec
CONSTANTS
  Bytes = {}
  Traffic <- MCTraffic
  Noise = {249, 255}
  MaxFaults = 1
PROPERTY
  Resync
