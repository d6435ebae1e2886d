SPECIFICATION FairSpec
CONSTANTS
  MaxTasks = 3
  Capacity = 2
  Irqs <- MCIrqs
  MaxEscapes = 2
  MayDeactivate = TRUE
INVARIANTS
  TypeOK
  ContextIntact
  OnlyEscapeNests
  InServiceMatchesFrames
PROPERTIES
  EoiEndsOwn
  EveryTaskRuns
  EoiUnlessAbandoned
