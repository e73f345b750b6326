CONSTANTS
  Callers <- MCCallers
  Startup <- MCStartup
  MaxRequests = 4
SPECIFICATION FairSpec
INVARIANTS RequestRetained OnePass
PROPERTIES Coalesced EveryRequestServed
