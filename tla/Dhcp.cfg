SPECIFICATION LiveSpec
CONSTANTS
  c1 = c1
  c2 = c2
  Mac = {c1, c2}
  NoMac = NoMac
  MaxLeases = 1
  Skipped = {}
  LeaseTime = 3
  MinLeaseTime = 1
  MaxLeaseTime = 3
  OfferTime = 2
  DeclineTime = 2
  Server = {"s1", "s2"}
  Sites <- TwoSites
  Retries = 1
INVARIANT HeldNotReassigned
INVARIANT ExclusiveAtFirst
INVARIANT AckOfOffer
PROPERTY CancelReturns
