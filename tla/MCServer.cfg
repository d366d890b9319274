\* Three requests of any kind, every interleaving with the await and the clock.
SPECIFICATION FairServerSpec
CONSTANTS
  d = d
  e = e
  this = this
  elsewhere = elsewhere
  salt = salt
  Bidders = {d, e}
  Contracts = {this, elsewhere}
  Auctions = {1}
  Zero = zero
  ZeroBytes32 = zeroHash
  AddressRank <- MCRank
  ClearRetention = 1
  NoBid = NoBid
  NotCleared = NotCleared
  Undecodable = Undecodable
  DecryptFailed = DecryptFailed
  NoData = NoData
  TeeId = tee
  Instructions <- MCInstructions
  MaxDeliveries = 3
  MaxDecryptFailures = 3
  MaxClock = 1
  MaxRequests = 3
  NoJob = NoJob
INVARIANTS ServerTypeOK EffectInArrivalOrder
PROPERTIES ImplementsExtension EveryRequestAnswered
CHECK_DEADLOCK FALSE
