\* What the handlers compute, whatever the order of deliveries, while results
\* are retained and after they expire.
SPECIFICATION Spec
CONSTANTS
  d = d
  e = e
  this = this
  elsewhere = elsewhere
  salt = salt
  Bidders = {d, e}
  Contracts = {this, elsewhere}
  Auctions = {1}
  Zero = zero
  ZeroBytes32 = zeroHash
  AddressRank <- MCRank
  ClearRetention = 1
  NoBid = NoBid
  NotCleared = NotCleared
  Undecodable = Undecodable
  DecryptFailed = DecryptFailed
  NoData = NoData
  TeeId = tee
  Instructions <- MCInstructions
  MaxDeliveries = 4
  MaxDecryptFailures = 1
  MaxClock = 1
INVARIANTS TypeOK StandingBidsStored FirstClearCorrect ClearStableWhileRetained PurgedWhileRetained
CHECK_DEADLOCK FALSE
