SPECIFICATION GateSpec
CONSTANTS
  Compressors = {c1, c2, c3}
  Limit = 1
SYMMETRY CompressorSymmetry
INVARIANT
  WithinLimit
CHECK_DEADLOCK FALSE
