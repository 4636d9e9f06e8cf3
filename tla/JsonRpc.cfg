SPECIFICATION FairSpec
CONSTANTS
  c1 = c1
  c2 = c2
  n1 = n1
  b1 = b1
  NoReq = none
  none = none
  Req <- MCReq
  CbReq <- MCCb
  ConsReq <- MCCons
  IdSpan = 5
  MaxId = 5
INVARIANTS
  TypeOK
  RepliesGoHome
  EntriesAreOutstanding
  NoLockInversion
PROPERTIES
  ImplementsContract
  RepliesAreHandled
