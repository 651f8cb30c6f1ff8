SPECIFICATION FairSpec
CONSTANTS
  held = held
  other = other
  fresh = fresh
  bogus = bogus
  Slots = {s1, s2}
  Contracts = {held, other, fresh, bogus}
  Resolvable = {held, other, fresh}
  NeedsCtx = {fresh}
  Quantities = {2}
  Opening <- TwoHoldings
  MaxRequests = 2
  MaxFaults = 1
CHECK_DEADLOCK FALSE
INVARIANTS KeysHold HoldingsInv TotalsFresh
PROPERTIES EveryRequestAnswered
