CONSTANTS
  r1 = r1
  r2 = r2
  FlowTurns = 25
  FlowStops = {{}, {"submit_application"}, {"click_apply", "submit_application"}}
  OtherFlows <- MCOther
  GateProviders = {"hh", "telegram"}
  AutoApply = {"hh"}
  Configured = {"hh"}
  LiveRuntime = {"hh"}
  Packed = {"hh"}
  CanaryAge = 1
  SoakSpan = 7
  SubmitTtl = 2
  GateHorizon = 3
  MaxEvidence = 1
  MaxCanaries = 1
  PipelineRuns = {r1, r2}
  Listing <- MCListing
  FirstShown <- MCShown
  Revisions <- MCRevisions
  IntakeModes = {"review_first", "controlled_auto_apply"}
  IrreversibleOn = TRUE
  HourSpan = 1
  DaySpan = 1
  WeekSpan = 2
  PerHour = 1
  PerDay = 1
  PerCompanyDay = 1
  PerCompanyWeek = 1
  IntakeHorizon = 1
  MaxRevisions = 1
SPECIFICATION MCSpec
SYMMETRY RunSymmetry
INVARIANTS
  FlowTypeOK
  BoundaryEarned
  SubmitStopsRun
  ErrorNamed
  CaptchaSafeMode
  PostedStaysAccepted
  
  IntakeTypeOK
  TwinsAppliedOnce
  AsksApprovable
  
PROPERTIES
  RoomWhenPrepared
CHECK_DEADLOCK FALSE
