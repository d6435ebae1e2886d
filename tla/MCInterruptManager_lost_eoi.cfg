SPECIFICATION FairSpec
CONSTANTS
  MaxTasks = 2
  Capacity = 2
  Irqs <- MCIrqs
  MaxEscapes = 1
  MayDeactivate = FALSE
PROPERTIES
  EoiAlwaysSent
