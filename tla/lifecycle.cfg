\* Two bets of one Bank, two request ids, two words; the clock runs until anyone may void the last bet.
CONSTANTS
  b1 = b1  b2 = b2  k1 = k1  r1 = r1  r2 = r2  s1 = s1  s2 = s2
  Bets = {b1, b2}
  Banks = {k1}
  RequestIds = {r1, r2}
  Seeds = {s1, s2}
  BankOf <- OneBank
  NoBet = NoBet  NoRequest = NoRequest  NoSeed = NoSeed
  RefundTimeouts = {1}
  VoidDelay = 1
  PublicVoidDelay = 2
  LastBetTime = 2
  MaxTime = 4
SPECIFICATION FairSpec
INVARIANTS
  Agreement FenceCountsUnbooked ResultIsTheReceivedSeed
PROPERTIES
  BookableIsNeverVoided WindowCoversItsCohortOnly ImplementsPromise
  EveryBetEnds EveryResultLeavesTheFence
