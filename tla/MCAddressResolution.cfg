SPECIFICATION Spec
CONSTANTS
  gateway = gateway
  peer = peer
  us = us
  a = a
  b = b
  ours = ours
  broadcast = broadcast
  CacheSize = 2
  Stations <- MCStations
  Adapters <- MCAdapters
  OurIp <- us
  OurMac <- ours
  Broadcast <- broadcast
  MaxResolves = 2
  MaxMessages = 3
INVARIANTS
  TypeOK
  ResolvesWhatWasAnswered
  ResolvesAgree
  AnswersGoToAskers
PROPERTIES
  ResolveReturns
CHECK_DEADLOCK FALSE
