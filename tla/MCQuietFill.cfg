\* Two dealers, one auction; one restart of the extension; both submission
\* tags; a result is forgotten within the time to settle.
SPECIFICATION SysSpec
CONSTANTS
  d = d
  e = e
  t1 = t1
  salt = salt
  Accounts = {d, e}
  This = this
  ZeroAddress = zero
  ZeroHash = zeroHash
  TeeIds = {t1}
  BASE_TOKEN = base
  QUOTE_TOKEN = quote
  Blocked <- NoneBlocked
  InitialBalance = 4
  PRICE_SCALE = 2
  MAX_COMPONENT = 4
  UINT256_MAX = 16
  FIRST_PUBLIC_EXTENSION_ID = 4
  MAX_ENCRYPTED_BID_BYTES = 1
  ForeignSender = other
  BaseAmounts = {1}
  PricesWei = {2, 3}
  Deadlines = {1, 2}
  Ciphertexts <- MCCiphertexts
  ClearResults <- MCResults
  MaxAuctions = 1
  MaxInstructions = 3
  MaxExtensions = 1
  MaxTime = 2
  AddressRank <- MCRank
  ClearRetention = 1
  NoBid = NoBid
  NotCleared = NotCleared
  Undecodable = Undecodable
  DecryptFailed = DecryptFailed
  NoData = NoData
  SubmissionTags = {"threshold", "end"}
  MaxRestarts = 1
INVARIANTS StoredBidsGenuine OutcomeSignedByPinnedTee WinnerPaysOwnBid ReceiptHonoured
CHECK_DEADLOCK FALSE
