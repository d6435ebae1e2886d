SPECIFICATION Spec
CONSTANTS
  MAX_DRIVERS = 3
  Drivers = {"keyboard", "a", "b", "c"}
  Lines = {31, 33, 43}
  LinesOf <- MCLinesOf
  Functions = 2
  Buses <- MCBuses
  EtherHandlers = {"arp", "twin", "palindrome"}
  Answering = {"twin", "palindrome"}
  HandlerType <- MCHandlerType
  WireTypes = {1544, 2054, 2056, 35020, 65535}
  Us = "us"
  Peers = {"gateway"}
  Everybody = "everybody"
  Keyboard = 33
  Arp = "arp"
INVARIANTS
  LineHasLatest
  HandlersAreActive
  NetworkOnCard
  CallsAreLive
  AnswersReturn
PROPERTIES
  ImplementsDriverList
CHECK_DEADLOCK FALSE
