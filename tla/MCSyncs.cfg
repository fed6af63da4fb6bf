SPECIFICATION Spec
CONSTANTS
  Topics = {"market", "admission", "panel", "jobs"}
  SyncScenarios <- MCSyncScenarios
  OtherCodes = {"XX"}
  MaxLateErrors = 1
  SyncLimit = 2
  Hour = 1
  SyncRequest = {"r1", "r2"}
  MaxTime = 3
  MaxRows = 5
  Job = {"j1", "j2"}
  PanelScenarios <- MCPanelScenarios
INVARIANTS
  TypeOK
  SnapshotsRepeatOnlyInOverlap
  OvershootIsBounded
PROPERTIES
  SyncsEnd
  StartedJobEnds
  PanelEnds
CHECK_DEADLOCK FALSE
