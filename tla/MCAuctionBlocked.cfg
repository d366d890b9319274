\* The base token refuses to pay the seller: escrows behind its lot.
SPECIFICATION FairSpec
CONSTANTS
  s = s
  d = d
  r = r
  c1 = c1
  Accounts = {s, d}
  This = this
  ZeroAddress = zero
  ZeroHash = zeroHash
  TeeIds = {t1}
  BASE_TOKEN = base
  QUOTE_TOKEN = quote
  Blocked <- SellerBlocked
  InitialBalance = 8
  PRICE_SCALE = 2
  MAX_COMPONENT = 3
  UINT256_MAX = 10
  FIRST_PUBLIC_EXTENSION_ID = 4
  MAX_ENCRYPTED_BID_BYTES = 1
  ForeignSender = other
  BaseAmounts = {3}
  PricesWei = {1, 3}
  Deadlines = {1, 2}
  Ciphertexts <- MCCiphertexts
  ClearResults <- MCResults
  MaxAuctions = 1
  MaxInstructions = 3
  MaxExtensions = 1
  MaxTime = 3
PROPERTIES EscrowsReturn
CHECK_DEADLOCK FALSE
