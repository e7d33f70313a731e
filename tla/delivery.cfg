CONSTANTS
  i1 = i1
  i2 = i2
  calm = calm
  drift = drift
  Inputs <- TwoInputs
  Observations <- OneObservation
  NoMaterial = NoMaterial
  MaxPushes = 2
  MaxHistory = 2
SPECIFICATION Spec
INVARIANTS TypeOK MergedBodyMatchesHead
PROPERTIES LifecycleChain DeclineRespected ImplementsLedger
