SPECIFICATION Spec
CONSTANTS
  Boot = Boot
  Task1 = Task1
  Task2 = Task2
  Tasks <- MCTasks
  Vectors <- AllKinds
  MaxDepth = 2
SYMMETRY AnyTask
INVARIANTS
  ExceptionsReturn
