SPECIFICATION FairSpec
CONSTANTS
  held = held
  other = other
  fresh = fresh
  bogus = bogus
  Slots = {s1}
  Contracts = {fresh}
  Resolvable = {fresh}
  NeedsCtx = {fresh}
  Quantities = {2}
  Opening <- NoHoldings
  MaxRequests = 1
  MaxFaults = 0
PROPERTY ResolvableStays
CHECK_DEADLOCK FALSE
