SPECIFICATION MCSpec
CONSTANTS
  States = {open, closed, jammed}
  Policies <- MCPolicies
  Reentrant <- MCReentrant
  MaxDepth = 4
  SpStates = {red, green, blue}
  Contexts = {main, isr}
  NoContext = NoContext
  max_simple_tasks = 2
  max_adaptive_tasks = 1
  Periods = {2}
  AdaptivePeriods = {1, 2}
  Delays = {0, 1}
  MaxLag = 1
  Sources = {remote, panel}
  Commands <- MCCommands
  Steps = {1, 3}
  monostate = monostate
  Errors <- MCErrors
  Limits <- MCLimits
  Gains = {1, 2}
  kiTs = 2
  AntiWindupGains = {0, 1}
  FloatMax = 30
  Width = 3
  Fields = {{0}, {1, 2}}
INVARIANTS
  EntryExitPaired
  
  FieldsAndFlagsKept
  InSyncMeansThere
PROPERTIES
  TransitionsChained
  
  DueTaskRuns
  SinkFollowsActive
