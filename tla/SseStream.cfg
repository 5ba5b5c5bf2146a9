SPECIFICATION Spec
CONSTANTS
  p1 = p1
  p2 = p2
  Payloads <- MCPayloads
  Done = Done
  Lead = Lead
  Cont = Cont
  CR = CR
  LF = LF
  MaxEvent = 3
  MaxPending = 1
  MaxBytes = 7
INVARIANTS
  TypeOK
  EventsIgnoreTheCuts
  SizeLimitHolds
