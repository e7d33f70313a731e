CONSTANTS
  i1 = i1
  i2 = i2
  calm = calm
  drift = drift
  Inputs <- OneInput
  Observations <- TwoObservations
  NoMaterial = NoMaterial
  MaxPushes = 2
  MaxHistory = 2
SPECIFICATION Spec
SYMMETRY Alike
PROPERTIES HoldKept
