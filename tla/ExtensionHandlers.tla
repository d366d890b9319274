------------------------- MODULE ExtensionHandlers -------------------------
(***************************************************************************)
(* The QuietFill enclave extension (typescript/src/app/handlers.ts): one   *)
(* process holding the plaintext bids of open auctions and, for a while,   *)
(* the results of cleared ones.  Each handler is an operator from the      *)
(* process state to the outcome [status, data, ext]; the server framework  *)
(* runs handlers one at a time.                                            *)
(*                                                                         *)
(* A process state is [bids, cleared]: bids[key][bidder] is the stored bid *)
(* or NoBid, cleared[key] the retained result or NotCleared; a key is      *)
(* <<contractAddr, auctionId>>.  ECIES and Keccak are external: a          *)
(* ciphertext is the record of its recipient and its plaintext, and only   *)
(* the recipient's node decrypts it, if it answers at all; Keccak is       *)
(* injective.                                                              *)
(***************************************************************************)
EXTENDS Integers, FiniteSets

CONSTANTS
  Bidders,          \* accounts
  Contracts,        \* contract addresses a bid may name
  Auctions,         \* auction ids
  Zero,             \* zeroAddress
  ZeroBytes32,      \* zeroHash
  AddressRank,      \* Bidders -> Nat: the order of lower-cased hex addresses
  ClearRetention,   \* clearRetentionMs, in ticks
  NoBid, NotCleared, Undecodable, DecryptFailed, NoData

ASSUME RankAssumption ==
  /\ AddressRank \in [Bidders -> Nat]
  /\ \A x, y \in Bidders : AddressRank[x] = AddressRank[y] => x = y
ASSUME RetentionAssumption == ClearRetention \in Nat

Keys == Contracts \X Auctions

\* State of a process that just started (and resetState).
EmptyExtension ==
  [bids |-> [k \in Keys |-> [x \in Bidders |-> NoBid]],
   cleared |-> [k \in Keys |-> NotCleared]]

Keccak256(plaintext) == [keccakOf |-> plaintext]

Success(data, ext) == [status |-> 1, data |-> data, ext |-> ext]
Failure(ext) == [status |-> 0, data |-> NoData, ext |-> ext]

\* Faulty variant: results expire one tick early.
PruneClearedEarly(ext, time) ==
  [ext EXCEPT !.cleared = [k \in Keys |->
     IF ext.cleared[k] # NotCleared /\ ext.cleared[k].expiresAt <= time + 1
     THEN NotCleared ELSE ext.cleared[k]]]

\* pruneCleared
PruneCleared(ext, time) ==
  [ext EXCEPT !.cleared = [k \in Keys |->
     IF ext.cleared[k] # NotCleared /\ ext.cleared[k].expiresAt <= time
     THEN NotCleared ELSE ext.cleared[k]]]

-----------------------------------------------------------------------------
(* handlePrivateBid                                                        *)

\* Faulty variant: no timeout, so no answer unless the node has one.
DecryptionsWithoutTimeout(teeId, ciphertext) ==
  IF ciphertext.recipient = teeId THEN {ciphertext.plaintext} ELSE {}

\* decryptor.decrypt: the plaintext, if it was encrypted to the node of the
\* machine teeId; or the node refuses, cannot be reached or times out.
Decryptions(teeId, ciphertext) ==
  {DecryptFailed} \cup IF ciphertext.recipient = teeId THEN {ciphertext.plaintext} ELSE {}

\* validateBid
ValidBid(bid) ==
  /\ bid.bidder # Zero
  /\ bid.contractAddr # Zero
  /\ bid.auctionId > 0
  /\ bid.nonce > 0
  /\ bid.unitPriceWei > 0
  /\ bid.salt # ZeroBytes32

\* Faulty variant: trusts the bidder named in the plaintext.
MatchesEnvelopeAuction(bid, envelope) == bid.auctionId = envelope.auctionId

\* The plaintext must claim the auction and the sender of the envelope, which
\* the contract wrote.  The envelope does not name a contract.
MatchesEnvelope(bid, envelope) ==
  /\ bid.bidder = envelope.bidder
  /\ bid.auctionId = envelope.auctionId

AuctionKey(m) == <<m.contractAddr, m.auctionId>>

\* Faulty variant: the same nonce replaces the bid.
NonceDoesNotDecrease(previous, bid) == previous = NoBid \/ bid.nonce >= previous.nonce

\* A replacement bid needs a higher nonce than the stored one.
NonceIncreases(previous, bid) == previous = NoBid \/ bid.nonce > previous.nonce

StoreBid(ext, bid) ==
  [ext EXCEPT !.bids[AuctionKey(bid)][bid.bidder] =
     [nonce |-> bid.nonce, unitPriceWei |-> bid.unitPriceWei,
      commitment |-> Keccak256(bid)]]

BidReceipt(bid) ==
  [contractAddr |-> bid.contractAddr, auctionId |-> bid.auctionId,
   bidder |-> bid.bidder, nonce |-> bid.nonce, bidCommitment |-> Keccak256(bid)]

\* What validateBid and the two comparisons let through.
Acceptable(envelope, bid) ==
  /\ envelope.ciphertext.size # 0
  /\ bid \notin {DecryptFailed, Undecodable}
  /\ ValidBid(bid)
  /\ MatchesEnvelope(bid, envelope)

\* bid is what decrypt returned.
HandlePrivateBid(ext, envelope, bid, time) ==
  LET pruned == PruneCleared(ext, time)
      acceptable == Acceptable(envelope, bid)
  IN
  CASE ~acceptable -> Failure(ext)
    [] acceptable /\ pruned.cleared[AuctionKey(bid)] # NotCleared -> Failure(pruned)
    [] acceptable /\ pruned.cleared[AuctionKey(bid)] = NotCleared ->
         IF NonceIncreases(pruned.bids[AuctionKey(bid)][bid.bidder], bid)
         THEN Success(BidReceipt(bid), StoreBid(pruned, bid))
         ELSE Failure(pruned)

-----------------------------------------------------------------------------
(* handleClear                                                             *)

ValidClear(message) ==
  /\ message.auctionId > 0
  /\ message.contractAddr # Zero
  /\ message.floorPriceWei > 0
  /\ message.ceilingPriceWei >= message.floorPriceWei

Submitted(ext, key) == {x \in Bidders : ext.bids[key][x] # NoBid}

\* Faulty variant: the ceiling is exclusive.
EligibleBelowCeiling(ext, message) ==
  LET price(x) == ext.bids[AuctionKey(message)][x].unitPriceWei
  IN  {x \in Submitted(ext, AuctionKey(message)) :
         price(x) >= message.floorPriceWei /\ price(x) < message.ceilingPriceWei}

Eligible(ext, message) ==
  LET price(x) == ext.bids[AuctionKey(message)][x].unitPriceWei
  IN  {x \in Submitted(ext, AuctionKey(message)) :
         price(x) >= message.floorPriceWei /\ price(x) <= message.ceilingPriceWei}

\* Faulty variant: of equal prices the higher address comes first.
SortsBeforeHighAddress(bids, x, y) ==
  \/ bids[x].unitPriceWei > bids[y].unitPriceWei
  \/ bids[x].unitPriceWei = bids[y].unitPriceWei /\ AddressRank[x] > AddressRank[y]

\* The comparator of the sort: higher price first, then lower address.
SortsBefore(bids, x, y) ==
  \/ bids[x].unitPriceWei > bids[y].unitPriceWei
  \/ bids[x].unitPriceWei = bids[y].unitPriceWei /\ AddressRank[x] < AddressRank[y]

\* eligible[0] after the sort.
Winner(bids, eligible) ==
  CHOOSE x \in eligible : \A y \in eligible \ {x} : SortsBefore(bids, x, y)

\* The encoded result; with no eligible bid its winner fields are zero.
ClearResult(ext, message) ==
  LET bids == ext.bids[AuctionKey(message)]
      eligible == Eligible(ext, message)
      filled == eligible # {}
      w == Winner(bids, eligible)
  IN
  [contractAddr |-> message.contractAddr,
   auctionId |-> message.auctionId,
   winner |-> IF filled THEN w ELSE Zero,
   unitPriceWei |-> IF filled THEN bids[w].unitPriceWei ELSE 0,
   winningNonce |-> IF filled THEN bids[w].nonce ELSE 0,
   winningCommitment |-> IF filled THEN bids[w].commitment ELSE ZeroBytes32,
   submittedBidCount |-> Cardinality(Submitted(ext, AuctionKey(message))),
   eligibleBidCount |-> Cardinality(eligible)]

\* Faulty variants: the plaintext survives; the retention is in the wrong unit.
RetainResultAndBids(ext, key, result, time) ==
  [ext EXCEPT !.cleared[key] = [result |-> result, expiresAt |-> time + ClearRetention]]
RetainResultTooLong(ext, key, result, time) ==
  [ext EXCEPT !.cleared[key] = [result |-> result, expiresAt |-> time + 1000 * ClearRetention],
              !.bids[key] = [x \in Bidders |-> NoBid]]

\* The result is retained and the plaintext bids are dropped.
RetainResult(ext, key, result, time) ==
  [ext EXCEPT !.cleared[key] = [result |-> result, expiresAt |-> time + ClearRetention],
              !.bids[key] = [x \in Bidders |-> NoBid]]

HandleClear(ext, message, time) ==
  LET key == AuctionKey(message)
      pruned == PruneCleared(ext, time)
      result == ClearResult(pruned, message)
  IN
  CASE ~ValidClear(message) -> Failure(ext)
    [] ValidClear(message) /\ pruned.cleared[key] # NotCleared ->
         Success(pruned.cleared[key].result, pruned)
    [] ValidClear(message) /\ pruned.cleared[key] = NotCleared ->
         Success(result, RetainResult(pruned, key, result, time))
=============================================================================
