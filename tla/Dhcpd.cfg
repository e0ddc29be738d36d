SPECIFICATION Spec
CONSTANTS
  c1 = c1
  c2 = c2
  Mac = {c1, c2}
  NoMac = NoMac
  MaxLeases = 2
  Skipped = {1}
  LeaseTime = 2
  MinLeaseTime = 2
  MaxLeaseTime = 3
  OfferTime = 1
  DeclineTime = 1
  Server = "here"
  AskTime = {0, 9}
  MaxTime = 4
INVARIANT TypeOK
INVARIANT OneEntry
INVARIANT PromiseKept
PROPERTY RefusedOnlyWhenFull
PROPERTY ReservesAddresses
