SPECIFICATION Spec
CONSTANTS
  Calls <- MCCalls
  Checked = {drive}
  Tools <- MCTools
  Tried = {identity}
  MaxRuns = 2
  MaxLosses = 1
  samba = samba
  drive = drive
  identity = identity
INVARIANTS
  TypeOK
  SourcesComeBack
  FixesFollowInstall
  ToolsWork
  PatchInForce
PROPERTY
  PatchedAgain
CHECK_DEADLOCK FALSE
