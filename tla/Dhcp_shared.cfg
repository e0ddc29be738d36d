SPECIFICATION Spec
CONSTANTS
  c1 = c1
  c2 = c2
  Mac = {c1, c2}
  NoMac = NoMac
  MaxLeases = 1
  Skipped = {}
  LeaseTime = 3
  MinLeaseTime = 1
  MaxLeaseTime = 3
  OfferTime = 1
  DeclineTime = 2
  Server = {"s1", "s2"}
  Sites <- OneServer
  Retries = 1
INVARIANT NoSharedAddress
