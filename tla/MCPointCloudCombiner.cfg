SPECIFICATION MCSpec
CONSTANTS
  NCam = 3
  NImu = 2
  Stamp <- MCStamp
  ImuStamp <- MCImuStamp
  Rings <- MCRings
  RingWidth = 3
  Calibration = {c1, c2}
  None = None
SYMMETRY CalibrationSymmetry
INVARIANTS
  TypeOK
  InStep
  RingsApart
PROPERTIES
  SameTransforms
  StampsInOrder
  CombinesWhenReady
