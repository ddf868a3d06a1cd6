SPECIFICATION Spec
CONSTANTS
  Senders = {s1}
  Receivers = {r1, r2}
  None = none
  Items = {a}
  Nothing = nothing
  Length = 2
  Waits = {forever, 0, 1}
  Forever = forever
  LockMax = 3
  MaxPended = 1
INVARIANTS
  NoLostWakeup
PROPERTIES
  ImplementsBoundedQueue
  WaitersServed
  TimedSendReturns
