\* run-test and a visitor with two bids, on one auction; two machines.
SPECIFICATION ClientSpec
CONSTANTS
  s = s
  d = d
  e = e
  t1 = t1
  t2 = t2
  Accounts = {s, d, e}
  Seller = s
  Dealer = d
  Visitor = e
  This = this
  ZeroAddress = zero
  ZeroHash = zeroHash
  TeeIds = {t1, t2}
  BASE_TOKEN = base
  QUOTE_TOKEN = quote
  Blocked <- None
  InitialBalance = 2
  PRICE_SCALE = 6
  MAX_COMPONENT = 3
  UINT256_MAX = 16
  FIRST_PUBLIC_EXTENSION_ID = 4
  MAX_ENCRYPTED_BID_BYTES = 1
  ForeignSender = other
  BaseAmounts = {3}
  PricesWei = {2, 3}
  Deadlines = {1, 2}
  Ciphertexts <- MCCiphertexts
  ClearResults <- None
  LiveTee = t1
  Lot = 3
  Floor = 2
  Ceiling = 3
  BidPrice = 2
  VisitorPrices <- MCPrices
  MaxPolls = 2
  MaxFaults = 1
  MaxAuctions = 1
  MaxInstructions = 4
  MaxExtensions = 1
  MaxTime = 3
  AddressRank <- MCRank
  ClearRetention = 1
  NoBid = NoBid
  NotCleared = NotCleared
  Undecodable = Undecodable
  DecryptFailed = DecryptFailed
  NoData = NoData
  SubmissionTags = {"threshold", "end"}
  MaxRestarts = 1
INVARIANTS PassedMeansSettled FailsOnlyIfDisturbed AcknowledgedBidStands
PROPERTIES RunEnds
CHECK_DEADLOCK FALSE
