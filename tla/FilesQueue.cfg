CONSTANTS
  p1 = p1
  p2 = p2
  c1 = c1
  c2 = c2
  c3 = c3
  InitialLevel = 500
  Producers <- FilesProducers
  Consumers <- FilesConsumers
  Work <- FilesWork
SPECIFICATION Spec
INVARIANTS
  TypeOK
  NoLostWakeup
  AllDelivered
PROPERTIES
  ImplementsChannel
  Termination
