CONSTANTS
  GateProviders = {"hh"}
  AutoApply = {"hh"}
  Configured = {"hh"}
  LiveRuntime = {"hh"}
  Packed = {"hh"}
  CanaryAge = 1
  SoakSpan = 7
  SubmitTtl = 2
  GateHorizon = 3
  MaxEvidence = 1
  MaxCanaries = 1
SPECIFICATION GateSpec
INVARIANTS
  WorkerProofAccepted
CHECK_DEADLOCK FALSE
