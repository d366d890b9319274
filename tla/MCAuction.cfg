\* Two auctions, two accounts that both sell and bid, two tokens; progress
\* without any TEE.
SPECIFICATION FairSpec
CONSTANTS
  s = s
  d = d
  r = r
  c1 = c1
  Accounts = {s, d}
  This = this
  ZeroAddress = zero
  ZeroHash = zeroHash
  TeeIds = {t1}
  BASE_TOKEN = base
  QUOTE_TOKEN = quote
  Blocked <- NoneBlocked
  InitialBalance = 3
  PRICE_SCALE = 2
  MAX_COMPONENT = 3
  UINT256_MAX = 10
  FIRST_PUBLIC_EXTENSION_ID = 4
  MAX_ENCRYPTED_BID_BYTES = 1
  ForeignSender = other
  BaseAmounts = {0, 1}
  PricesWei = {0, 1, 3, 4}
  Deadlines = {1, 2}
  Ciphertexts <- MCCiphertexts
  ClearResults <- MCResults
  MaxAuctions = 2
  MaxInstructions = 3
  MaxExtensions = 1
  MaxTime = 3
INVARIANTS EscrowExact SettlementArithmetic WinnerHasBid IndInv OneClearAfterAllBids Solvency
PROPERTIES FundsConserved RecordsFrozen ImplementsExchange AuctionsEnd EscrowsReturn
CHECK_DEADLOCK FALSE
