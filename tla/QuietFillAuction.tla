------------------------- MODULE QuietFillAuction --------------------------
(***************************************************************************)
(* The QuietFillAuction contract (contracts/InstructionSender.sol): lots   *)
(* escrowed by sellers, ceilings escrowed by dealers, bids and clears sent *)
(* to one pinned TEE through the FCC registry, settlement against that     *)
(* TEE's signature, timeout and pull refunds.                              *)
(*                                                                         *)
(* One transaction is one action; a revert is an action that is not        *)
(* enabled.  The transaction is atomic: the nonReentrant lock (lines       *)
(* 134-139) covers every function that moves tokens.                       *)
(*                                                                         *)
(* The tokens, the two FCC registries and ECDSA are not part of the        *)
(* repository; they appear here as the contract uses them.  In this module *)
(* a TEE may sign any result at all: what is shown about funds does not    *)
(* rest on the enclave being honest.                                       *)
(***************************************************************************)
EXTENDS Pricing, Sequences, FiniteSetsExt

CONSTANTS
  Accounts,          \* sellers, dealers, relayers: any of them may call anything
  This,              \* address of the contract
  ZeroAddress,
  ZeroHash,
  TeeIds,            \* machines the TEE registry may select
  BASE_TOKEN,
  QUOTE_TOKEN,       \* the constructor allows it to equal BASE_TOKEN
  Blocked,           \* <<token, account>>: the token refuses to pay the account
  InitialBalance,    \* what each account owns of each token at deployment
  FIRST_PUBLIC_EXTENSION_ID,
  MAX_ENCRYPTED_BID_BYTES,
  ForeignSender,     \* an instruction sender that is not this contract
  \* The inputs that callers choose from.
  BaseAmounts,
  PricesWei,
  Deadlines,
  Ciphertexts,       \* [size: bytes, ...]; opaque to the contract
  ClearResults,
  \* Bounds.
  MaxAuctions,
  MaxInstructions,
  MaxExtensions,
  MaxTime

Tokens == {BASE_TOKEN, QUOTE_TOKEN}
Holders == Accounts \cup {This}
AuctionIds == 1 .. MaxAuctions
Times == 0 .. MaxTime
States == {"None", "Open", "ClearRequested", "Settled", "NoFill", "Cancelled"}
LiveStates == {"Open", "ClearRequested"}
TerminalStates == {"Settled", "NoFill", "Cancelled"}

\* ClearResult, of which the contract reads every field.
IsClearResult(r) ==
  /\ DOMAIN r = {"contractAddr", "auctionId", "winner", "unitPriceWei", "winningNonce",
                 "winningCommitment", "submittedBidCount", "eligibleBidCount"}
  /\ r.winner \in Accounts \cup {ZeroAddress}
  /\ r.unitPriceWei \in Nat
  /\ r.submittedBidCount \in Nat
  /\ r.eligibleBidCount \in Nat

\* Addresses are words: there are finitely many.
ASSUME AddressAssumption ==
  /\ Accounts # {} /\ IsFiniteSet(Accounts)
  /\ This \notin Accounts
  /\ ZeroAddress \notin Accounts \cup {This} \cup TeeIds

ASSUME InputAssumption ==
  /\ BaseAmounts \subseteq Nat
  /\ PricesWei \subseteq Nat
  /\ Deadlines \subseteq Times
  /\ \A c \in Ciphertexts : c.size \in Nat
  /\ \A r \in ClearResults : IsClearResult(r)

ASSUME BoundAssumption ==
  /\ MaxAuctions \in Nat \ {0}
  /\ MaxInstructions \in Nat
  /\ MaxExtensions \in Nat
  /\ MaxTime \in Nat
  /\ InitialBalance \in Nat
  /\ FIRST_PUBLIC_EXTENSION_ID \in Nat \ {0}
  /\ MAX_ENCRYPTED_BID_BYTES \in Nat

VARIABLES
  now,               \* block.timestamp
  extensionSenders,  \* registry: sender of extension FIRST_PUBLIC_EXTENSION_ID + i - 1
  extensionId,       \* _extensionId, 0 while unset
  nextAuctionId,
  auctions,
  quoteEscrow,
  bal,               \* the two tokens' balances
  sent               \* instructions the registry accepted; an id is an index

registryVars == <<extensionSenders, extensionId>>
vars == <<now, extensionSenders, extensionId, nextAuctionId, auctions, quoteEscrow, bal, sent>>

\* What an absent mapping entry reads as.
EmptyAuction ==
  [seller |-> ZeroAddress, teeId |-> ZeroAddress,
   baseAmount |-> 0, floorPriceWei |-> 0, ceilingPriceWei |-> 0, maxQuoteAmount |-> 0,
   bidDeadline |-> 0, settleDeadline |-> 0, clearInstructionId |-> 0,
   winner |-> ZeroAddress, clearingPriceWei |-> 0, quotePaid |-> 0,
   submittedBidCount |-> 0, eligibleBidCount |-> 0, state |-> "None"]

Init ==
  /\ now = 0
  /\ extensionSenders = <<>>
  /\ extensionId = 0
  /\ nextAuctionId = 1
  /\ auctions = [a \in AuctionIds |-> EmptyAuction]
  /\ quoteEscrow = [a \in AuctionIds |-> [x \in Accounts |-> 0]]
  /\ bal = [t \in Tokens |-> [h \in Holders |-> IF h = This THEN 0 ELSE InitialBalance]]
  /\ sent = <<>>

-----------------------------------------------------------------------------
(* The tokens, the registry and the signature scheme.                      *)

\* Whether the token's transfer or transferFrom succeeds (allowances are
\* granted by the caller beforehand; a missing one is the same revert).
CanTransfer(b, token, from, to, amount) ==
  /\ amount <= b[token][from]
  /\ <<token, to>> \notin Blocked

Transferred(b, token, from, to, amount) ==
  [[b EXCEPT ![token][from] = @ - amount] EXCEPT ![token][to] = @ + amount]

\* _sendInstruction: one TEE, the sender's message, the id the registry
\* returns.
SendInstruction(teeId, command, message) ==
  /\ Len(sent) < MaxInstructions
  /\ sent' = Append(sent, [teeId |-> teeId, opCommand |-> command, message |-> message])

\* teeClearDigest: everything the signature is bound to.  Keccak is
\* injective, so a digest is the record of what was hashed.
TeeClearDigest(auctionId, result) ==
  [data |-> result,
   instructionId |-> auctions[auctionId].clearInstructionId,
   submissionTag |-> "threshold",
   status |-> 1]

\* _recover: ecrecover yields the signer for the digest that was signed and
\* an unrelated address for any other digest.
Recover(digest, signature) ==
  IF signature.over = digest THEN signature.signer ELSE ZeroAddress

-----------------------------------------------------------------------------
(* createAuction                                                           *)

ValidCollar(floor, ceiling) == floor # 0 /\ ceiling >= floor
ValidComponents(base, floor, ceiling) ==
  ComponentFits(base) /\ ComponentFits(floor) /\ ComponentFits(ceiling)
ValidDeadlines(bidDeadline, settleDeadline) ==
  bidDeadline > now /\ settleDeadline > bidDeadline

\* Faulty variant: dealers would escrow the floor quote.
ListedAuctionFloorQuote(caller, base, floor, ceiling, bidDeadline, settleDeadline, teeId) ==
  [EmptyAuction EXCEPT
     !.seller = caller, !.teeId = teeId, !.baseAmount = base,
     !.floorPriceWei = floor, !.ceilingPriceWei = ceiling,
     !.maxQuoteAmount = QuoteFor(base, floor),
     !.bidDeadline = bidDeadline, !.settleDeadline = settleDeadline, !.state = "Open"]

\* The record createAuction writes.
ListedAuction(caller, base, floor, ceiling, bidDeadline, settleDeadline, teeId) ==
  [EmptyAuction EXCEPT
     !.seller = caller, !.teeId = teeId, !.baseAmount = base,
     !.floorPriceWei = floor, !.ceilingPriceWei = ceiling,
     !.maxQuoteAmount = QuoteFor(base, ceiling),
     !.bidDeadline = bidDeadline, !.settleDeadline = settleDeadline, !.state = "Open"]

\* teeId is what getRandomTeeIds returns for the extension: the registry
\* picks; an empty answer reverts.
CreateAuction(caller, base, floor, ceiling, bidDeadline, settleDeadline, teeId) ==
  /\ nextAuctionId \in AuctionIds
  /\ base # 0
  /\ ValidCollar(floor, ceiling)
  /\ ValidComponents(base, floor, ceiling)
  /\ ValidDeadlines(bidDeadline, settleDeadline)
  /\ ProductFits(base, ceiling)
  /\ extensionId # 0
  /\ CanTransfer(bal, BASE_TOKEN, caller, This, base)
  /\ nextAuctionId' = nextAuctionId + 1
  /\ auctions' = [auctions EXCEPT ![nextAuctionId] =
       ListedAuction(caller, base, floor, ceiling, bidDeadline, settleDeadline, teeId)]
  /\ bal' = Transferred(bal, BASE_TOKEN, caller, This, base)
  /\ UNCHANGED <<now, registryVars, quoteEscrow, sent>>

-----------------------------------------------------------------------------
(* submitPrivateBid, requestClear                                          *)

BidWindowOpen(auctionId) == now < auctions[auctionId].bidDeadline
ClearWindowOpen(auctionId) ==
  now >= auctions[auctionId].bidDeadline /\ now <= auctions[auctionId].settleDeadline

\* Faulty variant: a failed transferFrom goes unnoticed.
EscrowCeilingUnchecked(caller, auctionId) ==
  LET ceilingQuote == auctions[auctionId].maxQuoteAmount
  IN  IF quoteEscrow[auctionId][caller] = 0
      THEN /\ quoteEscrow' = [quoteEscrow EXCEPT ![auctionId][caller] = ceilingQuote]
           /\ bal' = IF CanTransfer(bal, QUOTE_TOKEN, caller, This, ceilingQuote)
                     THEN Transferred(bal, QUOTE_TOKEN, caller, This, ceilingQuote) ELSE bal
      ELSE UNCHANGED <<quoteEscrow, bal>>

\* Only a dealer's first bid on an auction moves tokens.
EscrowCeiling(caller, auctionId) ==
  LET ceilingQuote == auctions[auctionId].maxQuoteAmount
  IN  IF quoteEscrow[auctionId][caller] = 0
      THEN /\ CanTransfer(bal, QUOTE_TOKEN, caller, This, ceilingQuote)
           /\ quoteEscrow' = [quoteEscrow EXCEPT ![auctionId][caller] = ceilingQuote]
           /\ bal' = Transferred(bal, QUOTE_TOKEN, caller, This, ceilingQuote)
      ELSE UNCHANGED <<quoteEscrow, bal>>

\* Faulty variant: the envelope names the contract, not the caller.
BidEnvelopeOfThis(caller, auctionId, ciphertext) ==
  [auctionId |-> auctionId, bidder |-> This, ciphertext |-> ciphertext]

\* The envelope: the auction and the caller come from the contract.
BidEnvelope(caller, auctionId, ciphertext) ==
  [auctionId |-> auctionId, bidder |-> caller, ciphertext |-> ciphertext]

SubmitPrivateBid(caller, auctionId, ciphertext) ==
  /\ auctions[auctionId].state = "Open"
  /\ BidWindowOpen(auctionId)
  /\ ciphertext.size # 0 /\ ciphertext.size <= MAX_ENCRYPTED_BID_BYTES
  /\ EscrowCeiling(caller, auctionId)
  /\ SendInstruction(auctions[auctionId].teeId, "QF_PRIVATE_BID",
                     BidEnvelope(caller, auctionId, ciphertext))
  /\ UNCHANGED <<now, registryVars, nextAuctionId, auctions>>

ClearMessage(auctionId) ==
  [auctionId |-> auctionId, contractAddr |-> This,
   floorPriceWei |-> auctions[auctionId].floorPriceWei,
   ceilingPriceWei |-> auctions[auctionId].ceilingPriceWei]

\* Faulty variant: a clear may be requested again.
RequestClearAgain(auctionId) ==
  /\ auctions[auctionId].state \in LiveStates
  /\ ClearWindowOpen(auctionId)
  /\ SendInstruction(auctions[auctionId].teeId, "QF_CLEAR", ClearMessage(auctionId))
  /\ auctions' = [auctions EXCEPT ![auctionId].clearInstructionId = Len(sent) + 1,
                                  ![auctionId].state = "ClearRequested"]
  /\ UNCHANGED <<now, registryVars, nextAuctionId, quoteEscrow, bal>>

RequestClear(auctionId) ==
  /\ auctions[auctionId].state = "Open"
  /\ ClearWindowOpen(auctionId)
  /\ SendInstruction(auctions[auctionId].teeId, "QF_CLEAR", ClearMessage(auctionId))
  /\ auctions' = [auctions EXCEPT ![auctionId].clearInstructionId = Len(sent) + 1,
                                  ![auctionId].state = "ClearRequested"]
  /\ UNCHANGED <<now, registryVars, nextAuctionId, quoteEscrow, bal>>

-----------------------------------------------------------------------------
(* settleAuction                                                           *)

\* The result answers for this auction of this contract.
ResultMatches(auctionId, result) ==
  /\ result.contractAddr = This
  /\ result.auctionId = auctionId
  /\ result.eligibleBidCount <= result.submittedBidCount

\* Faulty variant: the signer is checked, what it signed is not.
SignedByPinnedTeeOverAnything(auctionId, result, signature) ==
  /\ auctions[auctionId].clearInstructionId # 0
  /\ Recover(signature.over, signature) = auctions[auctionId].teeId

SignedByPinnedTee(auctionId, result, signature) ==
  /\ auctions[auctionId].clearInstructionId # 0
  /\ Recover(TeeClearDigest(auctionId, result), signature) = auctions[auctionId].teeId

ValidNoFill(result) ==
  /\ result.unitPriceWei = 0
  /\ result.winningNonce = 0
  /\ result.winningCommitment = ZeroHash
  /\ result.eligibleBidCount = 0

\* Faulty variant: no floor.
ValidFillBelowFloor(auctionId, result) ==
  /\ result.unitPriceWei <= auctions[auctionId].ceilingPriceWei
  /\ result.winningNonce # 0
  /\ result.winningCommitment # ZeroHash
  /\ result.eligibleBidCount # 0

ValidFill(auctionId, result) ==
  /\ result.unitPriceWei >= auctions[auctionId].floorPriceWei
  /\ result.unitPriceWei <= auctions[auctionId].ceilingPriceWei
  /\ result.winningNonce # 0
  /\ result.winningCommitment # ZeroHash
  /\ result.eligibleBidCount # 0

\* Faulty variant: any escrow will do, none included.
WinnerEscrowedAtMost(auctionId, winner) ==
  quoteEscrow[auctionId][winner] <= auctions[auctionId].maxQuoteAmount

WinnerEscrowed(auctionId, winner) ==
  quoteEscrow[auctionId][winner] = auctions[auctionId].maxQuoteAmount

SettleNoFill(auctionId, result) ==
  /\ result.winner = ZeroAddress
  /\ ValidNoFill(result)
  /\ CanTransfer(bal, BASE_TOKEN, This, auctions[auctionId].seller, auctions[auctionId].baseAmount)
  /\ bal' = Transferred(bal, BASE_TOKEN, This, auctions[auctionId].seller,
                        auctions[auctionId].baseAmount)
  /\ auctions' = [auctions EXCEPT
       ![auctionId].submittedBidCount = result.submittedBidCount,
       ![auctionId].eligibleBidCount = result.eligibleBidCount,
       ![auctionId].state = "NoFill"]
  /\ UNCHANGED quoteEscrow

SettleFill(auctionId, result) ==
  LET auction == auctions[auctionId]
      quotePaid == QuoteFor(auction.baseAmount, result.unitPriceWei)
      winnerRefund == auction.maxQuoteAmount - quotePaid
      afterLot == Transferred(bal, BASE_TOKEN, This, result.winner, auction.baseAmount)
      afterPay == Transferred(afterLot, QUOTE_TOKEN, This, auction.seller, quotePaid)
  IN
  /\ result.winner # ZeroAddress
  /\ ValidFill(auctionId, result)
  /\ WinnerEscrowed(auctionId, result.winner)
  /\ ProductFits(auction.baseAmount, result.unitPriceWei)
  /\ quotePaid <= auction.maxQuoteAmount
  /\ quoteEscrow' = [quoteEscrow EXCEPT ![auctionId][result.winner] = 0]
  /\ auctions' = [auctions EXCEPT
       ![auctionId].submittedBidCount = result.submittedBidCount,
       ![auctionId].eligibleBidCount = result.eligibleBidCount,
       ![auctionId].winner = result.winner,
       ![auctionId].clearingPriceWei = result.unitPriceWei,
       ![auctionId].quotePaid = quotePaid,
       ![auctionId].state = "Settled"]
  /\ CanTransfer(bal, BASE_TOKEN, This, result.winner, auction.baseAmount)
  /\ CanTransfer(afterLot, QUOTE_TOKEN, This, auction.seller, quotePaid)
  /\ winnerRefund # 0 => CanTransfer(afterPay, QUOTE_TOKEN, This, result.winner, winnerRefund)
  /\ bal' = IF winnerRefund # 0
            THEN Transferred(afterPay, QUOTE_TOKEN, This, result.winner, winnerRefund)
            ELSE afterPay

SettleAuction(auctionId, result, signature) ==
  /\ auctions[auctionId].state = "ClearRequested"
  /\ now <= auctions[auctionId].settleDeadline
  /\ ResultMatches(auctionId, result)
  /\ SignedByPinnedTee(auctionId, result, signature)
  /\ \/ SettleNoFill(auctionId, result)
     \/ SettleFill(auctionId, result)
  /\ UNCHANGED <<now, registryVars, nextAuctionId, sent>>

-----------------------------------------------------------------------------
(* cancelTimedOutAuction, withdrawQuote                                    *)

\* Faulty variants: cancels whatever is past its deadline; cancels only what
\* was never asked to clear.
CancelWhateverTimedOut(auctionId) ==
  /\ auctions[auctionId].state # "None"
  /\ now > auctions[auctionId].settleDeadline
  /\ CanTransfer(bal, BASE_TOKEN, This, auctions[auctionId].seller, auctions[auctionId].baseAmount)
  /\ auctions' = [auctions EXCEPT ![auctionId].state = "Cancelled"]
  /\ bal' = Transferred(bal, BASE_TOKEN, This, auctions[auctionId].seller,
                        auctions[auctionId].baseAmount)
  /\ UNCHANGED <<now, registryVars, nextAuctionId, quoteEscrow, sent>>
CancelOnlyOpen(auctionId) ==
  auctions[auctionId].state = "Open" /\ CancelWhateverTimedOut(auctionId)

CancelTimedOutAuction(auctionId) ==
  /\ auctions[auctionId].state \in LiveStates
  /\ now > auctions[auctionId].settleDeadline
  /\ CanTransfer(bal, BASE_TOKEN, This, auctions[auctionId].seller, auctions[auctionId].baseAmount)
  /\ auctions' = [auctions EXCEPT ![auctionId].state = "Cancelled"]
  /\ bal' = Transferred(bal, BASE_TOKEN, This, auctions[auctionId].seller,
                        auctions[auctionId].baseAmount)
  /\ UNCHANGED <<now, registryVars, nextAuctionId, quoteEscrow, sent>>

\* Faulty variants: the escrow entry survives the refund; a cancelled auction
\* is not counted as terminal.
WithdrawQuoteRepeatedly(caller, auctionId) ==
  LET amount == quoteEscrow[auctionId][caller] IN
  /\ auctions[auctionId].state \in TerminalStates
  /\ amount # 0
  /\ CanTransfer(bal, QUOTE_TOKEN, This, caller, amount)
  /\ bal' = Transferred(bal, QUOTE_TOKEN, This, caller, amount)
  /\ UNCHANGED <<now, registryVars, nextAuctionId, auctions, quoteEscrow, sent>>
WithdrawQuoteUnlessCancelled(caller, auctionId) ==
  LET amount == quoteEscrow[auctionId][caller] IN
  /\ auctions[auctionId].state \in {"Settled", "NoFill"}
  /\ amount # 0
  /\ CanTransfer(bal, QUOTE_TOKEN, This, caller, amount)
  /\ quoteEscrow' = [quoteEscrow EXCEPT ![auctionId][caller] = 0]
  /\ bal' = Transferred(bal, QUOTE_TOKEN, This, caller, amount)
  /\ UNCHANGED <<now, registryVars, nextAuctionId, auctions, sent>>

WithdrawQuote(caller, auctionId) ==
  LET amount == quoteEscrow[auctionId][caller] IN
  /\ auctions[auctionId].state \in TerminalStates
  /\ amount # 0
  /\ CanTransfer(bal, QUOTE_TOKEN, This, caller, amount)
  /\ quoteEscrow' = [quoteEscrow EXCEPT ![auctionId][caller] = 0]
  /\ bal' = Transferred(bal, QUOTE_TOKEN, This, caller, amount)
  /\ UNCHANGED <<now, registryVars, nextAuctionId, auctions, sent>>

-----------------------------------------------------------------------------
(* The extension registry and the clock                                    *)

\* Anyone registers an extension; it gets the next public id.
RegisterExtension(sender) ==
  /\ Len(extensionSenders) < MaxExtensions
  /\ extensionSenders' = Append(extensionSenders, sender)
  /\ UNCHANGED <<now, extensionId, nextAuctionId, auctions, quoteEscrow, bal, sent>>

\* setExtensionId: the scan stops at the first extension of this sender.
SetExtensionId ==
  LET own == {i \in DOMAIN extensionSenders : extensionSenders[i] = This} IN
  /\ extensionId = 0
  /\ \E first \in own :
       /\ \A i \in own : first <= i
       /\ extensionId' = FIRST_PUBLIC_EXTENSION_ID + first - 1
  /\ UNCHANGED <<now, extensionSenders, nextAuctionId, auctions, quoteEscrow, bal, sent>>

Tick ==
  /\ now < MaxTime
  /\ now' = now + 1
  /\ UNCHANGED <<registryVars, nextAuctionId, auctions, quoteEscrow, bal, sent>>

-----------------------------------------------------------------------------

\* A signature over anything but the digest recovers to an address that is
\* no TEE (Recover), so only signatures over the digest are enumerated.
SettleWithSomeSignature(auctionId) ==
  \E result \in ClearResults, signer \in TeeIds :
    SettleAuction(auctionId, result,
                  [signer |-> signer, over |-> TeeClearDigest(auctionId, result)])

Next ==
  \/ Tick
  \/ SetExtensionId
  \/ \E sender \in {This, ForeignSender} : RegisterExtension(sender)
  \/ \E caller \in Accounts, base \in BaseAmounts, floor, ceiling \in PricesWei,
        bidDeadline, settleDeadline \in Deadlines, teeId \in TeeIds :
       CreateAuction(caller, base, floor, ceiling, bidDeadline, settleDeadline, teeId)
  \/ \E a \in AuctionIds :
       \/ \E caller \in Accounts, c \in Ciphertexts : SubmitPrivateBid(caller, a, c)
       \/ RequestClear(a)
       \/ SettleWithSomeSignature(a)
       \/ CancelTimedOutAuction(a)
       \/ \E caller \in Accounts : WithdrawQuote(caller, a)

Spec == Init /\ [][Next]_vars

\* Blocks keep coming, somebody cancels a timed-out auction (any account
\* may), and every dealer withdraws its own escrow.  No TEE, relayer or
\* seller is assumed to act.
Fairness ==
  /\ WF_vars(Tick)
  /\ \A a \in AuctionIds :
       /\ WF_vars(CancelTimedOutAuction(a))
       /\ \A x \in Accounts : WF_vars(WithdrawQuote(x, a))

FairSpec == Spec /\ Fairness

-----------------------------------------------------------------------------
(* Properties                                                              *)

AuctionType ==
  [seller : Accounts \cup {ZeroAddress}, teeId : TeeIds \cup {ZeroAddress},
   baseAmount : Nat, floorPriceWei : Nat, ceilingPriceWei : Nat, maxQuoteAmount : Nat,
   bidDeadline : Times, settleDeadline : Times, clearInstructionId : Nat,
   winner : Accounts \cup {ZeroAddress}, clearingPriceWei : Nat, quotePaid : Nat,
   submittedBidCount : Nat, eligibleBidCount : Nat, state : States]

BidInstructions ==
  [teeId : TeeIds, opCommand : {"QF_PRIVATE_BID"},
   message : [auctionId : AuctionIds, bidder : Accounts, ciphertext : Ciphertexts]]
ClearInstructions ==
  [teeId : TeeIds, opCommand : {"QF_CLEAR"},
   message : [auctionId : AuctionIds, contractAddr : {This},
              floorPriceWei : Nat, ceilingPriceWei : Nat]]

\* The contract's storage, balances and instruction log are well typed.
TypeOK ==
  /\ now \in Times
  /\ extensionSenders \in Seq({This, ForeignSender})
  /\ extensionId \in Nat
  /\ nextAuctionId \in 1 .. (MaxAuctions + 1)
  /\ auctions \in [AuctionIds -> AuctionType]
  /\ quoteEscrow \in [AuctionIds -> [Accounts -> Nat]]
  /\ bal \in [Tokens -> [Holders -> Nat]]
  /\ sent \in Seq(BidInstructions \cup ClearInstructions)

\* submitPrivateBid recognises a first bid by a zero escrow and settleAuction
\* recognises a paid-up winner by escrow = maxQuoteAmount.  Both tests mean
\* what they should only if an existing auction's ceiling amount is positive
\* and an escrow is all of it or nothing, and nothing before creation.
EscrowExact ==
  \A a \in AuctionIds :
    /\ auctions[a].state # "None" <=> a < nextAuctionId
    /\ auctions[a].state # "None" => auctions[a].maxQuoteAmount > 0
    /\ \A x \in Accounts :
         /\ quoteEscrow[a][x] \in {0, auctions[a].maxQuoteAmount}
         /\ auctions[a].state = "None" => quoteEscrow[a][x] = 0

\* The checked arithmetic of settleAuction never reverts: whatever price in
\* the collar is signed, the product fits a word and the quote is covered by
\* the ceiling escrow, so the refund does not underflow.
SettlementArithmetic ==
  \A a \in AuctionIds : auctions[a].state \in LiveStates =>
    \A price \in auctions[a].floorPriceWei .. auctions[a].ceilingPriceWei :
      /\ ProductFits(auctions[a].baseAmount, price)
      /\ QuoteFor(auctions[a].baseAmount, price) <= auctions[a].maxQuoteAmount

BidsSent(a) ==
  {i \in DOMAIN sent : sent[i].opCommand = "QF_PRIVATE_BID" /\ sent[i].message.auctionId = a}
ClearsSent(a) ==
  {i \in DOMAIN sent : sent[i].opCommand = "QF_CLEAR" /\ sent[i].message.auctionId = a}

\* Whatever a TEE signs, the winner of a settled auction is an account that
\* itself bid on that auction on chain (settleAuction's escrow check).
WinnerHasBid ==
  \A a \in AuctionIds : auctions[a].state = "Settled" =>
    \E i \in BidsSent(a) : sent[i].message.bidder = auctions[a].winner

\* An auction's instructions all go to the TEE pinned at creation; it is
\* asked to clear at most once, after its last bid, under the collar of the
\* auction, and the id of that request is the one settlement is bound to.
OneClearAfterAllBids ==
  \A a \in AuctionIds :
    /\ \A i \in BidsSent(a) \cup ClearsSent(a) : sent[i].teeId = auctions[a].teeId
    /\ ClearsSent(a) = {auctions[a].clearInstructionId} \ {0}
    /\ \A i \in ClearsSent(a) :
         /\ sent[i].message.floorPriceWei = auctions[a].floorPriceWei
         /\ sent[i].message.ceilingPriceWei = auctions[a].ceilingPriceWei
         /\ \A j \in BidsSent(a) : j < i

\* The strengthening under which the invariants above are inductive: an
\* existing auction keeps the terms createAuction checked, an escrow stems
\* from a bid of its owner, and instructions are only sent for auctions that
\* exist, the clear request when the auction leaves Open.
TermsSound ==
  \A a \in AuctionIds : auctions[a].state # "None" =>
    /\ auctions[a].seller \in Accounts
    /\ auctions[a].teeId \in TeeIds
    /\ auctions[a].baseAmount # 0
    /\ ValidCollar(auctions[a].floorPriceWei, auctions[a].ceilingPriceWei)
    /\ ValidComponents(auctions[a].baseAmount, auctions[a].floorPriceWei,
                       auctions[a].ceilingPriceWei)
    /\ auctions[a].maxQuoteAmount = QuoteFor(auctions[a].baseAmount, auctions[a].ceilingPriceWei)
EscrowHasBid ==
  \A a \in AuctionIds, x \in Accounts : quoteEscrow[a][x] # 0 =>
    \E i \in BidsSent(a) : sent[i].message.bidder = x
LogSound ==
  \A a \in AuctionIds :
    /\ auctions[a].state = "None" => BidsSent(a) = {}
    /\ auctions[a].state \in {"None", "Open"} => auctions[a].clearInstructionId = 0
IndInv ==
  TypeOK /\ EscrowExact /\ TermsSound /\ EscrowHasBid /\ LogSound /\ WinnerHasBid
  /\ OneClearAfterAllBids

\* What the contract holds for auction a: the lot while it is live, and x's
\* escrow.
LotHeld(a, token) ==
  IF token = BASE_TOKEN /\ auctions[a].state \in LiveStates THEN auctions[a].baseAmount ELSE 0
EscrowHeld(a, x, token) == IF token = QUOTE_TOKEN THEN quoteEscrow[a][x] ELSE 0

\* The contract owns exactly what it owes: every live lot and every escrow,
\* in each token (also when both tokens are the same).
Solvency ==
  \A token \in Tokens :
    bal[token][This] =
      SumFunction([a \in AuctionIds |-> LotHeld(a, token)])
      + SumFunction([c \in AuctionIds \X Accounts |-> EscrowHeld(c[1], c[2], token)])

\* One step changes at most one lot and one escrow, of one auction, and
\* moves exactly that much of each token into or out of the contract.
StepConserves ==
  \E a \in AuctionIds, x \in Accounts :
    /\ \A token \in Tokens :
         bal'[token][This] - bal[token][This] =
           (LotHeld(a, token)' - LotHeld(a, token))
           + (EscrowHeld(a, x, token)' - EscrowHeld(a, x, token))
    /\ \A b \in AuctionIds, y \in Accounts :
         /\ b # a => LotHeld(b, BASE_TOKEN)' = LotHeld(b, BASE_TOKEN)
         /\ <<b, y>> # <<a, x>> => quoteEscrow'[b][y] = quoteEscrow[b][y]
FundsConserved == [][StepConserves]_vars

\* The terms of an auction, the TEE pinned to it, the clear request that
\* settlement is bound to and, once terminal, its whole record never change;
\* nor does the cached extension id.
RecordKept(a) ==
  /\ auctions[a].state # "None" =>
       \A f \in {"seller", "teeId", "baseAmount", "floorPriceWei", "ceilingPriceWei",
                 "maxQuoteAmount", "bidDeadline", "settleDeadline"} :
         auctions'[a][f] = auctions[a][f]
  /\ auctions[a].clearInstructionId # 0 =>
       auctions'[a].clearInstructionId = auctions[a].clearInstructionId
  /\ auctions[a].state \in TerminalStates => auctions'[a] = auctions[a]
StepKeepsRecords ==
  /\ \A a \in AuctionIds : RecordKept(a)
  /\ extensionId # 0 => extensionId' = extensionId
RecordsFrozen == [][StepKeepsRecords]_vars

\* Refinement mapping to AtomicExchange: an account's wealth is what it holds
\* plus what the contract holds for it.
Claim(a, x, token) ==
  EscrowHeld(a, x, token) + (IF auctions[a].seller = x THEN LotHeld(a, token) ELSE 0)
Wealth ==
  [token \in Tokens |-> [x \in Accounts |->
     bal[token][x] + SumFunction([a \in AuctionIds |-> Claim(a, x, token)])]]
Lots ==
  [a \in AuctionIds |->
     [status |-> CASE auctions[a].state = "None" -> "unlisted"
                   [] auctions[a].state \in LiveStates -> "listed"
                   [] auctions[a].state = "Settled" -> "sold"
                   [] OTHER -> "closed",
      seller |-> auctions[a].seller, base |-> auctions[a].baseAmount,
      floor |-> auctions[a].floorPriceWei, ceiling |-> auctions[a].ceilingPriceWei]]

Exchange == INSTANCE AtomicExchange WITH
  wealth <- Wealth, lots <- Lots, Nobody <- ZeroAddress, Ids <- AuctionIds

\* The contract implements the atomic exchange: whatever TEEs sign and
\* whenever transactions land, nobody's wealth changes except by a sale on
\* the listed terms, in which lot and payment change hands together.
ImplementsExchange == Exchange!Spec

\* Every auction ends, without any TEE, relayer or seller doing anything.
AuctionsEnd ==
  \A a \in AuctionIds :
    auctions[a].state # "None" ~> auctions[a].state \in TerminalStates

\* Every escrowed ceiling leaves the contract again.
EscrowsReturn ==
  \A a \in AuctionIds, x \in Accounts : quoteEscrow[a][x] # 0 ~> quoteEscrow[a][x] = 0
=============================================================================
