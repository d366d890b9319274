---------------------------- MODULE ClientProofs ----------------------------
(***************************************************************************)
(* Proofs about Client, the programs that drive the system: for any flags  *)
(* of run-test, any prices of the visitor, any machines, and any number of *)
(* polls and faults.                                                       *)
(***************************************************************************)
EXTENDS Client, QuietFillProofs

-----------------------------------------------------------------------------
(* What the clients seal                                                   *)

\* The prices among run-test's flags.
LEMMA FlagsTyped ==
  /\ Floor \in Nat /\ Ceiling \in Nat /\ BidPrice \in Nat
  /\ Floor <= BidPrice /\ BidPrice <= Ceiling
  <1>1. Floor \in PricesWei /\ Ceiling \in PricesWei /\ PricesWei \subseteq Nat
    BY ClientAssumption, InputAssumption
  <1>2. BidPrice \in Floor .. Ceiling
    BY ClientAssumption
  <1>. QED
    BY <1>1, <1>2

\* A client's bid is a bid in the handlers' sense, under its sender's name.
LEMMA ClientBidFacts ==
  ASSUME NEW bid \in ClientBids
  PROVE  /\ bid.contractAddr = This /\ bid.auctionId \in AuctionIds
         /\ bid.nonce \in Nat \ {0} /\ bid.unitPriceWei \in Nat
         /\ bid.salt # ZeroHash /\ bid.bidder \in {Dealer, Visitor}
         /\ bid.bidder = Dealer => bid = PrivateBid(Dealer, bid.auctionId, 1, BidPrice, 1)
         /\ bid \notin {NoBid, Undecodable, DecryptFailed}
  <1>1. BidPrice \in Nat /\ MaxTime \in Nat
    BY FlagsTyped, BoundAssumption
  <1>2. bid \notin {NoBid, Undecodable, DecryptFailed}
    BY MarkerAssumption
  <1>3. CASE bid \in {PrivateBid(Dealer, a, 1, BidPrice, 1) : a \in AuctionIds}
    <2>1. PICK a \in AuctionIds : bid = PrivateBid(Dealer, a, 1, BidPrice, 1)
      BY <1>3
    <2>2. bid = [bidder |-> Dealer, contractAddr |-> This, auctionId |-> a, nonce |-> 1,
                 unitPriceWei |-> BidPrice, salt |-> 1]
      BY <2>1 DEF PrivateBid
    <2>. QED
      BY <1>1, <1>2, <2>1, <2>2, MarkerAssumption
  <1>4. CASE bid \in {PrivateBid(Visitor, a, nonce, VisitorPrices[n], n) :
                        a \in AuctionIds, nonce \in 1 .. (MaxTime + 1), n \in DOMAIN VisitorPrices}
    <2>1. PICK a \in AuctionIds, nonce \in 1 .. (MaxTime + 1), n \in DOMAIN VisitorPrices :
            bid = PrivateBid(Visitor, a, nonce, VisitorPrices[n], n)
      BY <1>4
    <2>2. n \in Nat /\ VisitorPrices[n] \in Nat
      BY ClientAssumption
    <2>3. bid = [bidder |-> Visitor, contractAddr |-> This, auctionId |-> a, nonce |-> nonce,
                 unitPriceWei |-> VisitorPrices[n], salt |-> n]
      BY <2>1 DEF PrivateBid
    <2>. QED
      BY <1>1, <1>2, <2>2, <2>3, ClientAssumption, MarkerAssumption
  <1>. QED
    BY <1>3, <1>4 DEF ClientBids

\* Sealed for any machine, it is a ciphertext of the contract's inputs.
LEMMA SealedBid ==
  ASSUME NEW bid \in ClientBids, NEW t \in TeeIds
  PROVE  Encrypt(bid, t) \in Ciphertexts /\ bid \in PlainBids
  <1>1. Encrypt(bid, t) \in Ciphertexts
    BY CiphertextAssumption
  <1>2. Encrypt(bid, t).plaintext = bid
    BY DEF Encrypt
  <1>3. bid # Undecodable
    BY MarkerAssumption
  <1>. QED
    BY <1>1, <1>2, <1>3 DEF PlainBids

\* run-test's bid and the bids of the visitor are among them.
LEMMA TheirBids ==
  /\ 1 \in AuctionIds /\ DealerBid \in ClientBids
  /\ \A nonce \in 1 .. (MaxTime + 1), n \in DOMAIN VisitorPrices :
       PrivateBid(Visitor, 1, nonce, VisitorPrices[n], n) \in ClientBids
  <1>1. 1 \in AuctionIds
    BY BoundAssumption DEF AuctionIds
  <1>. QED
    BY <1>1 DEF DealerBid, ClientBids

-----------------------------------------------------------------------------
(* What a step of the clients is to the system                             *)

\* A mint, a settlement with what a machine signed, or a step of the system.
Minted ==
  /\ bal' \in [Tokens -> [Holders -> Nat]]
  /\ UNCHANGED <<now, extensionSenders, extensionId, nextAuctionId, auctions, quoteEscrow, sent>>
  /\ UNCHANGED teeVars
SettledAsSigned ==
  /\ \E a \in AuctionIds, sig \in signed : SettleAuction(a, sig.over.data, sig)
  /\ UNCHANGED teeVars
WorldStep == [SysNext]_sysVars \/ Minted \/ SettledAsSigned

\* What a machine signed for a clear request is a result.
LEMMA SignedResultTyped ==
  ASSUME IndInv, GenuineInv, SignedTyped, NEW a \in AuctionIds, NEW sig \in signed, NEW result,
         SettleAuction(a, result, sig)
  PROVE  IsClearResult(result)
  <1>1. /\ sig.over = TeeClearDigest(a, result) /\ auctions[a].clearInstructionId # 0
    BY AcceptedSignature
  <1>2. /\ sig.over.data = result /\ sig.over.status = 1
        /\ sig.over.instructionId = auctions[a].clearInstructionId
    BY <1>1 DEF TeeClearDigest
  <1>3. IsClear(sig)
    BY <1>1, <1>2, BoundRequest DEF IsClear
  <1>4. result \in Results
    BY <1>2, <1>3 DEF SignedTyped
  <1>. QED
    BY <1>4 DEF Results, IsClearResult

\* Such a step keeps the invariants of contract and enclaves.
LEMMA WorldStepKeeps ==
  ASSUME IndInv, GenuineInv, SignedTyped, WorldStep
  PROVE  IndInv' /\ GenuineInv' /\ LogKept /\ TermsKept /\ ClearsOnTime
  <1>1. CASE [SysNext]_sysVars
    <2>1. [Next]_vars
      BY <1>1, SysStepIsContractStep
    <2>. QED
      BY <1>1, <2>1, NextIndInv, SysStepGenuine, LogGrows, StepKeepsTerms, StepClearsOnTime DEF IndInv
  <1>2. CASE Minted
    <2>1. LogKept /\ TermsKept
      BY <1>2 DEF Minted, LogKept, TermsKept
    <2>4. ClearsOnTime
      BY <1>2 DEF Minted, ClearsOnTime, IndInv, TypeOK, Times
    <2>2. IndInv'
      <3>1. TypeOK'
        BY <1>2 DEF Minted, IndInv, TypeOK
      <3>2. /\ EscrowExact' = EscrowExact /\ TermsSound' = TermsSound
            /\ EscrowHasBid' = EscrowHasBid /\ LogSound' = LogSound
        BY <1>2 DEF Minted, EscrowExact, TermsSound, EscrowHasBid, LogSound, BidsSent
      <3>3. WinnerHasBid' = WinnerHasBid /\ OneClearAfterAllBids' = OneClearAfterAllBids
        BY <1>2 DEF Minted, WinnerHasBid, OneClearAfterAllBids, BidsSent, ClearsSent
      <3>. QED
        BY <3>1, <3>2, <3>3 DEF IndInv
    <2>3. OutcomeOnlyWhenSettled' /\ OutcomeSignedByPinnedTee' /\ WinnerPaysOwnBid'
      <3>1. OutcomeOnlyWhenSettled' = OutcomeOnlyWhenSettled
        BY <1>2 DEF Minted, teeVars, OutcomeOnlyWhenSettled
      <3>2. OutcomeSignedByPinnedTee' = OutcomeSignedByPinnedTee
        BY <1>2 DEF Minted, teeVars, OutcomeSignedByPinnedTee
      <3>3. WinnerPaysOwnBid' = WinnerPaysOwnBid
        BY <1>2 DEF Minted, teeVars, WinnerPaysOwnBid, OwnBids, BidsSent
      <3>. QED
        BY <3>1, <3>2, <3>3 DEF GenuineInv
    <2>. QED
      BY <1>2, <2>1, <2>2, <2>3, <2>4, LogKeepsGenuine DEF Minted, teeVars, GenuineInv
  <1>3. ASSUME NEW a \in AuctionIds, NEW sig \in signed, SettleAuction(a, sig.over.data, sig),
               UNCHANGED teeVars
        PROVE  IndInv' /\ GenuineInv' /\ LogKept /\ TermsKept /\ ClearsOnTime
    <2>1. IndInv'
      BY <1>3, SignedResultTyped, SettleAuctionInv
    <2>2. GenuineInv'
      BY <1>3, SettlementKeepsGenuine
    <2>3. LogKept
      BY <1>3 DEF SettleAuction, LogKept
    <2>4. TermsKept
      BY <1>3, SettleOutcome DEF TermsKept, GenuineInv
    <2>5. ClearsOnTime
      BY <1>3, SettleClearsOnTime
    <2>. QED
      BY <2>1, <2>2, <2>3, <2>4, <2>5
  <1>. QED
    BY <1>1, <1>2, <1>3 DEF WorldStep, SettledAsSigned

\* It keeps the receipts' invariant too.
LEMMA WorldStepReceipts ==
  ASSUME IndInv, GenuineInv, SignedTyped, ReceiptInv, WorldStep
  PROVE  ReceiptInv'
  <1>1. CASE [SysNext]_sysVars
    BY <1>1, SysStepReceipts
  <1>2. CASE Minted \/ SettledAsSigned
    <2>1. LogKept /\ TermsKept /\ ClearsOnTime /\ UNCHANGED teeVars
      BY <1>2, WorldStepKeeps DEF Minted, SettledAsSigned
    <2>. QED
      BY <2>1, ContractKeepsReceipts
  <1>. QED
    BY <1>1, <1>2 DEF WorldStep

\* A call of the contract that anybody can make is a step of the system.
LEMMA CallIsWorldStep ==
  ASSUME ContractCall, UNCHANGED teeVars
  PROVE  WorldStep
  BY DEF WorldStep, SysNext

\* A step that leaves chain and enclaves alone.
LEMMA NothingIsWorldStep ==
  ASSUME UNCHANGED vars, UNCHANGED teeVars
  PROVE  WorldStep
  BY DEF WorldStep, sysVars

\* ensureFunds mints.
LEMMA FundsAreMinted ==
  ASSUME IndInv, EnsureFunds, UNCHANGED teeVars
  PROVE  Minted
  <1> DEFINE quote == QuoteFor(Lot, Ceiling)
             base == TopUp(bal, BASE_TOKEN, Seller, Lot)
  <1>1. /\ bal \in [Tokens -> [Holders -> Nat]]
        /\ Seller \in Holders /\ Dealer \in Holders /\ Lot \in Nat /\ quote \in Nat
    BY FlagsTyped, ClientAssumption, InputAssumption, QuoteForNat DEF IndInv, TypeOK, Holders
  <1>2. bal' \in {bal, base, TopUp(base, QUOTE_TOKEN, Dealer, quote)}
    BY DEF EnsureFunds
  <1> HIDE DEF quote
  <1>3. \A b \in [Tokens -> [Holders -> Nat]], token \in Tokens, h \in Holders, n \in Nat :
          TopUp(b, token, h, n) \in [Tokens -> [Holders -> Nat]]
    BY DEF TopUp
  <1>4. base \in [Tokens -> [Holders -> Nat]]
    BY <1>1, <1>3 DEF Tokens
  <1> HIDE DEF base
  <1>5. TopUp(base, QUOTE_TOKEN, Dealer, quote) \in [Tokens -> [Holders -> Nat]]
    BY <1>1, <1>3, <1>4 DEF Tokens
  <1>6. bal' \in [Tokens -> [Holders -> Nat]]
    BY <1>1, <1>2, <1>4, <1>5
  <1>. QED
    BY <1>6 DEF EnsureFunds, Minted, registryVars

\* run-test does to the system what anybody could do.
LEMMA TestIsWorldStep ==
  ASSUME IndInv, ClientInv, TestStep
  PROVE  WorldStep
  <1>1. UNCHANGED teeVars
    BY DEF TestStep
  <1>2. ClientShape /\ ListedOnce /\ TestProgress
    BY DEF ClientInv
  <1>3. CASE ReadExtensionId \/ ReadTeeInfo \/ PollInVain \/ PollHangs \/ ReadReceipt
             \/ WaitForDeadline \/ ReadResult \/ VerifyFinalState
    <2>1. UNCHANGED vars
      BY <1>3 DEF ReadExtensionId, ReadTeeInfo, PollInVain, PollHangs, ReadReceipt, WaitForDeadline,
                  ReadResult, VerifyFinalState
    <2>. QED
      BY <1>1, <2>1, NothingIsWorldStep
  <1>4. CASE SetExtensionIdOnce
    BY <1>1, <1>4, CallIsWorldStep, NothingIsWorldStep DEF SetExtensionIdOnce, ContractCall
  <1>5. CASE EnsureFunds
    BY <1>1, <1>5, FundsAreMinted DEF WorldStep
  <1>6. CASE Create
    <2>1. PICK teeId \in TeeIds : CreateAuction(Seller, Lot, Floor, Ceiling, wall + 1, wall + 2, teeId)
      BY <1>6 DEF Create
    <2>2. wall = 0
      BY <1>2, <1>6 DEF Create, At, ListedOnce, Before
    <2>3. CreateAuction(Seller, Lot, Floor, Ceiling, 1, 2, teeId)
      BY <2>1, <2>2
    <2>4. /\ Seller \in Accounts /\ Lot \in BaseAmounts /\ Floor \in PricesWei
          /\ Ceiling \in PricesWei /\ 1 \in Deadlines /\ 2 \in Deadlines
      BY ClientAssumption
    <2>5. ContractCall
      BY <2>3, <2>4 DEF ContractCall
    <2>. QED
      BY <1>1, <2>5, CallIsWorldStep
  <1>7. CASE Bid
    <2>1. CASE UNCHANGED vars
      BY <1>1, <2>1, NothingIsWorldStep
    <2>2. CASE SubmitPrivateBid(Dealer, test.auction,
                 Encrypt(PrivateBid(Dealer, test.auction, 1, BidPrice, 1), test.tee))
      <3>1. test.auction = 1 /\ 1 \in AuctionIds /\ auctions[1].teeId = test.tee
        BY <1>2, <1>7, TheirBids DEF Bid, At, ListedOnce, Bidding
      <3>2. test.tee \in TeeIds
        BY <2>2, <3>1 DEF SubmitPrivateBid, IndInv, TermsSound
      <3>3. Encrypt(DealerBid, test.tee) \in Ciphertexts /\ Dealer \in Accounts
        BY <3>2, TheirBids, SealedBid, ClientAssumption
      <3>4. SubmitPrivateBid(Dealer, 1, Encrypt(DealerBid, test.tee))
        BY <2>2, <3>1 DEF DealerBid
      <3>5. ContractCall
        BY <3>1, <3>3, <3>4 DEF ContractCall
      <3>. QED
        BY <1>1, <3>5, CallIsWorldStep
    <2>. QED
      BY <1>7, <2>1, <2>2 DEF Bid
  <1>8. CASE ClearWithRetry
    <2>1. test.auction = 1 /\ 1 \in AuctionIds
      BY <1>2, <1>8, TheirBids DEF ClearWithRetry, At, ListedOnce, Bidding
    <2>2. CASE UNCHANGED vars
      BY <1>1, <2>2, NothingIsWorldStep
    <2>3. CASE RequestClear(test.auction)
      BY <1>1, <2>1, <2>3, CallIsWorldStep DEF ContractCall
    <2>. QED
      BY <1>8, <2>2, <2>3 DEF ClearWithRetry
  <1>9. CASE Settle
    <2>1. test.auction = 1 /\ 1 \in AuctionIds /\ test.response \in signed
      BY <1>2, <1>9, TheirBids DEF Settle, At, ListedOnce, After, TestProgress
    <2>2. CASE UNCHANGED vars
      BY <1>1, <2>2, NothingIsWorldStep
    <2>3. CASE SettleAuction(test.auction, test.response.over.data, test.response)
      BY <1>1, <2>1, <2>3 DEF WorldStep, SettledAsSigned
    <2>. QED
      BY <1>9, <2>2, <2>3 DEF Settle
  <1>. QED
    BY <1>3, <1>4, <1>5, <1>6, <1>7, <1>8, <1>9 DEF TestStep

\* So does the panel.
LEMMA PanelIsWorldStep ==
  ASSUME IndInv, ClientInv, PanelStep
  PROVE  WorldStep
  <1>1. UNCHANGED teeVars
    BY DEF PanelStep
  <1>2. ClientShape /\ ListedOnce /\ PanelProgress
    BY DEF ClientInv
  <1>3. Shown \in {0, 1}
    BY <1>2 DEF ClientShape, Shown
  <1>4. CASE AbandonBid \/ ReadBidReceipt \/ PressBid
    <2>1. UNCHANGED vars
      BY <1>4 DEF AbandonBid, ReadBidReceipt, PressBid
    <2>. QED
      BY <1>1, <2>1, NothingIsWorldStep
  <1>5. CASE SubmitBid
    <2>1. Shown = 1 /\ panel.bid \in ClientBids
      BY <1>2, <1>3, <1>5 DEF SubmitBid, ListedOnce, PanelProgress
    <2>2. SubmitPrivateBid(Visitor, 1, Encrypt(panel.bid, auctions[1].teeId))
      BY <1>5, <2>1 DEF SubmitBid
    <2>3. auctions[1].teeId \in TeeIds /\ 1 \in AuctionIds
      BY <2>2, TheirBids DEF SubmitPrivateBid, IndInv, TermsSound
    <2>4. Encrypt(panel.bid, auctions[1].teeId) \in Ciphertexts /\ Visitor \in Accounts
      BY <2>1, <2>3, SealedBid, ClientAssumption
    <2>5. ContractCall
      BY <2>2, <2>3, <2>4 DEF ContractCall
    <2>. QED
      BY <1>1, <2>5, CallIsWorldStep
  <1>6. CASE PressRequestClear \/ PressCancel \/ PressWithdraw
    <2>1. Shown \in AuctionIds /\ Visitor \in Accounts
      BY <1>3, <1>6, TheirBids, ClientAssumption DEF PressRequestClear, PressCancel, PressWithdraw, Free
    <2>2. RequestClear(Shown) \/ CancelTimedOutAuction(Shown) \/ WithdrawQuote(Visitor, Shown)
      BY <1>6 DEF PressRequestClear, PressCancel, PressWithdraw
    <2>3. ContractCall
      BY <2>1, <2>2 DEF ContractCall
    <2>. QED
      BY <1>1, <2>3, CallIsWorldStep
  <1>7. CASE PressSettle
    <2>1. Shown \in AuctionIds
      BY <1>3, <1>7, TheirBids DEF PressSettle, Free
    <2>. QED
      BY <1>1, <1>7, <2>1 DEF PressSettle, ActionResult, WorldStep, SettledAsSigned
  <1>. QED
    BY <1>4, <1>5, <1>6, <1>7 DEF PanelStep

\* Whatever the clients do, the system takes one of its own steps, a mint or a
\* settlement with what was signed.
LEMMA ClientIsWorldStep ==
  ASSUME IndInv, ClientInv, [ClientNext]_clientVars
  PROVE  WorldStep
  <1>1. CASE TestStep
    BY <1>1, TestIsWorldStep
  <1>2. CASE PanelStep
    BY <1>2, PanelIsWorldStep
  <1>3. CASE Elsewhere \/ Block
    <2>1. ContractCall /\ UNCHANGED teeVars
      BY <1>3 DEF Elsewhere, Block, ContractCall
    <2>. QED
      BY <2>1, CallIsWorldStep
  <1>4. CASE \E i \in DOMAIN sent :
               \E plaintext \in Plaintexts(i), tag \in TagsOf(i) : Forward(i, plaintext, tag)
    BY <1>4 DEF Forward, WorldStep, SysNext
  <1>5. CASE \E t \in TeeIds : Replace(t)
    BY <1>5 DEF Replace, RestartExtension, WorldStep, SysNext
  <1>6. CASE WallTick \/ UNCHANGED clientVars
    BY <1>6 DEF WallTick, clientVars, WorldStep
  <1>. QED
    BY <1>1, <1>2, <1>3, <1>4, <1>5, <1>6 DEF ClientNext

-----------------------------------------------------------------------------
(* What any such step keeps                                                *)

\* Signatures are over what the handlers answered, and none is forgotten.
AnswersKept == SignedTyped' /\ AnswersTell' /\ signed \subseteq signed'

\* Calls of the contract change nothing about the answers.
LEMMA ContractKeepsAnswers ==
  ASSUME GenuineInv, SignedTyped, AnswersTell, LogKept, UNCHANGED teeVars
  PROVE  AnswersKept
  <1>1. UNCHANGED <<exts, signed>>
    BY DEF teeVars
  <1>2. \A sig \in signed : /\ IsReceipt(sig)' = IsReceipt(sig) /\ IsClear(sig)' = IsClear(sig)
                            /\ sent'[sig.over.instructionId] = sent[sig.over.instructionId]
    BY DEF GenuineInv, SysTypeOK, LogKept, IsReceipt, IsClear
  <1>3. SignedTyped'
    BY <1>1, <1>2 DEF SignedTyped
  <1>4. ClearsSent(1) \subseteq ClearsSent(1)'
    BY DEF LogKept, ClearsSent
  <1>5. AnswersTell'
    BY <1>1, <1>2, <1>4 DEF AnswersTell, BidOf, Key
  <1>. QED
    BY <1>1, <1>3, <1>5 DEF AnswersKept

\* A restarted extension holds nothing.
LEMMA RestartKeepsAnswers ==
  ASSUME GenuineInv, SignedTyped, AnswersTell, NEW t \in TeeIds, RestartExtension(t)
  PROVE  AnswersKept
  <1>1. /\ exts'[t] = E!EmptyExtension /\ \A u \in TeeIds \ {t} : exts'[u] = exts[u]
        /\ UNCHANGED <<sent, signed>>
    BY DEF GenuineInv, SysTypeOK, RestartExtension, vars
  <1>2. \A k \in E!Keys : /\ E!EmptyExtension.cleared[k] = NotCleared
                         /\ \A x \in Accounts : E!EmptyExtension.bids[k][x] = NoBid
    BY DEF E!EmptyExtension
  <1>3. Key(1) \in E!Keys
    BY TheirBids DEF Key, E!Keys
  <1>4. SignedTyped'
    BY <1>1 DEF SignedTyped, IsClear
  <1>5. AnswersTell'
    <2>1. \A sig \in signed' : IsReceipt(sig)' =>
            sig.over.data = E!BidReceipt(BidOf(sig.over.instructionId)')
      BY <1>1 DEF AnswersTell, BidOf, IsReceipt
    <2>2. ASSUME NEW u \in TeeIds, NEW k \in E!Keys, NEW x \in Accounts, exts'[u].bids[k][x] # NoBid
          PROVE  exts'[u].bids[k][x].nonce = exts'[u].bids[k][x].commitment.keccakOf.nonce
      <3>1. exts'[u] = exts[u]
        BY <1>1, <1>2, <2>2
      <3>. QED
        BY <2>2, <3>1 DEF AnswersTell
    <2>3. ASSUME NEW u \in TeeIds, exts'[u].cleared[Key(1)] # NotCleared
          PROVE  ClearsSent(1)' # {}
      <3>1. exts'[u] = exts[u] /\ ClearsSent(1)' = ClearsSent(1)
        BY <1>1, <1>2, <1>3, <2>3 DEF ClearsSent
      <3>. QED
        BY <2>3, <3>1 DEF AnswersTell
    <2>. QED
      BY <2>1, <2>2, <2>3 DEF AnswersTell, Key
  <1>. QED
    BY <1>1, <1>4, <1>5 DEF AnswersKept

\* A delivered bid is receipted for what was sealed.
LEMMA BidKeepsAnswers ==
  ASSUME GenuineInv, SignedTyped, AnswersTell, NEW i \in DOMAIN sent,
         sent[i].opCommand = "QF_PRIVATE_BID", NEW sig, BidDelivered(i, sig)
  PROVE  AnswersKept
  <1> DEFINE t == sent[i].teeId
             bid == BidOf(i)
             key == <<bid.contractAddr, bid.auctionId>>
  <1>1. /\ DeliveryAt(i, sig) /\ t \in TeeIds /\ \A u \in TeeIds \ {t} : exts'[u] = exts[u]
        /\ signed' = signed \cup {sig} /\ sig.over.instructionId = i /\ sent' = sent
    BY DEF BidDelivered, DeliveryAt, vars
  <1>2. \A o : IsClear(o)' = IsClear(o) /\ IsReceipt(o)' = IsReceipt(o)
    BY <1>1 DEF IsClear, IsReceipt
  <1>3. ~IsClear(sig) /\ (IsReceipt(sig) => sig.over.data = E!BidReceipt(bid))
    <2>1. \/ sig.over.status = 0
          \/ sig.over.data = E!BidReceipt(sent[i].message.ciphertext.plaintext)
      BY DEF BidDelivered
    <2>2. sig.over.status = 1 => sig.over.data = E!BidReceipt(bid)
      BY <2>1 DEF BidOf
    <2>. QED
      BY <1>1, <2>2 DEF IsClear, IsReceipt
  <1>4. SignedTyped'
    BY <1>1, <1>2, <1>3 DEF SignedTyped
  <1>5. \A k \in E!Keys : exts'[t].cleared[k] # NotCleared => exts[t].cleared[k] # NotCleared
    BY DEF BidDelivered, PrunedOnly, Pruned
  <1>6. \A k \in E!Keys, x \in Accounts : exts'[t].bids[k][x] \in {exts[t].bids[k][x], Stored(bid)}
    BY DEF BidDelivered, BidOf
  <1>7. Stored(bid).nonce = Stored(bid).commitment.keccakOf.nonce
    BY DEF Stored, E!Keccak256
  <1>8. Key(1) \in E!Keys /\ ClearsSent(1)' = ClearsSent(1)
    BY <1>1, TheirBids DEF Key, E!Keys, ClearsSent
  <1>9. \A o \in signed' : IsReceipt(o)' => o.over.data = E!BidReceipt(BidOf(o.over.instructionId))'
    BY <1>1, <1>2, <1>3 DEF AnswersTell, BidOf
  <1>10. \A u \in TeeIds, k \in E!Keys, x \in Accounts : exts'[u].bids[k][x] # NoBid =>
           exts'[u].bids[k][x].nonce = exts'[u].bids[k][x].commitment.keccakOf.nonce
    <2> HIDE DEF bid, t
    <2> SUFFICES ASSUME NEW u \in TeeIds, NEW k \in E!Keys, NEW x \in Accounts,
                        exts'[u].bids[k][x] # NoBid
                 PROVE  exts'[u].bids[k][x].nonce = exts'[u].bids[k][x].commitment.keccakOf.nonce
      OBVIOUS
    <2>1. exts'[u].bids[k][x] \in {exts[u].bids[k][x], Stored(bid)}
      BY <1>1, <1>6
    <2>. QED
      BY <1>7, <2>1 DEF AnswersTell
  <1>11. \A u \in TeeIds : exts'[u].cleared[Key(1)] # NotCleared => ClearsSent(1) # {}
    BY <1>1, <1>5, <1>8 DEF AnswersTell
  <1>12. AnswersTell'
    BY <1>8, <1>9, <1>10, <1>11 DEF AnswersTell, Key
  <1>. QED
    BY <1>1, <1>4, <1>12 DEF AnswersKept

\* A delivered clear is answered with a result, and only then one is retained.
LEMMA ClearKeepsAnswers ==
  ASSUME GenuineInv, SignedTyped, AnswersTell, NEW i \in DOMAIN sent,
         sent[i].opCommand = "QF_CLEAR", NEW sig, ClearDelivered(i, sig)
  PROVE  AnswersKept
  <1> DEFINE t == sent[i].teeId
             key == Key(sent[i].message.auctionId)
             old == exts[t]
             new == exts'[t]
  <1>1. /\ DeliveryAt(i, sig) /\ t \in TeeIds /\ \A u \in TeeIds \ {t} : exts'[u] = exts[u]
        /\ signed' = signed \cup {sig} /\ sig.over.instructionId = i /\ sent' = sent
        /\ exts' \in [TeeIds -> Extensions]
    BY DEF ClearDelivered, DeliveryAt, vars
  <1>2. /\ key \in E!Keys /\ old \in Extensions /\ new \in Extensions
        /\ \A k \in E!Keys \ {key} :
             /\ new.cleared[k] \in {old.cleared[k], Pruned(old, k, now)}
             /\ new.bids[k] = old.bids[k]
    BY <1>1 DEF ClearDelivered, GenuineInv, SysTypeOK
  <1>3. \A o : IsClear(o)' = IsClear(o) /\ IsReceipt(o)' = IsReceipt(o)
    BY <1>1 DEF IsClear, IsReceipt
  <1>4. ~IsReceipt(sig)
    BY <1>1 DEF IsReceipt
  <1> HIDE DEF key, old, new
  <1>5. sig.over.status = 1 => sig.over.data \in Results
    <2>1. \A k \in E!Keys :
            /\ old.cleared[k] # NotCleared => old.cleared[k].result \in Results
            /\ new.cleared[k] # NotCleared => new.cleared[k].result \in Results
      BY <1>2 DEF Extensions, RetainedResults
    <2>2. CASE /\ old.cleared[key] # NotCleared /\ new.cleared[key] = old.cleared[key]
               /\ sig.over.data = old.cleared[key].result
      BY <1>2, <2>1, <2>2
    <2>3. CASE /\ new.cleared[key] = [result |-> sig.over.data, expiresAt |-> now + ClearRetention]
               /\ new.cleared[key] # NotCleared
      BY <1>2, <2>1, <2>3
    <2>4. \/ sig.over.status = 0
          \/ /\ old.cleared[key] # NotCleared /\ new.cleared[key] = old.cleared[key]
             /\ sig.over.data = old.cleared[key].result
          \/ /\ new.cleared[key] = [result |-> sig.over.data, expiresAt |-> now + ClearRetention]
             /\ new.cleared[key] # NotCleared
      BY Zenon DEF ClearDelivered, key, old, new
    <2>. QED
      BY <2>2, <2>3, <2>4
  <1>6. SignedTyped'
    BY <1>1, <1>3, <1>5 DEF SignedTyped, IsClear
  <1>7. \A x \in Accounts : new.bids[key][x] # NoBid => new.bids[key][x] = old.bids[key][x]
    BY DEF ClearDelivered, key, old, new
  <1>8. \A k \in E!Keys, x \in Accounts : new.bids[k][x] # NoBid => new.bids[k][x] = old.bids[k][x]
    BY <1>2, <1>7
  <1>9. \A k \in E!Keys \ {key} : new.cleared[k] # NotCleared => old.cleared[k] # NotCleared
    BY <1>2 DEF Pruned
  <1>10. Key(1) \in E!Keys /\ ClearsSent(1)' = ClearsSent(1)
    BY <1>1, TheirBids DEF Key, E!Keys, ClearsSent
  <1>11. key = Key(1) => ClearsSent(1) # {}
    BY DEF key, Key, ClearsSent
  <1>12. \A o \in signed' : IsReceipt(o)' => o.over.data = E!BidReceipt(BidOf(o.over.instructionId))'
    BY <1>1, <1>3, <1>4 DEF AnswersTell, BidOf
  <1>13. \A u \in TeeIds, k \in E!Keys, x \in Accounts : exts'[u].bids[k][x] # NoBid =>
           exts'[u].bids[k][x].nonce = exts'[u].bids[k][x].commitment.keccakOf.nonce
    <2> HIDE DEF t
    <2> SUFFICES ASSUME NEW u \in TeeIds, NEW k \in E!Keys, NEW x \in Accounts,
                        exts'[u].bids[k][x] # NoBid
                 PROVE  exts'[u].bids[k][x].nonce = exts'[u].bids[k][x].commitment.keccakOf.nonce
      OBVIOUS
    <2>1. exts'[u].bids[k][x] = exts[u].bids[k][x]
      BY <1>1, <1>8 DEF old, new
    <2>. QED
      BY <2>1 DEF AnswersTell
  <1>14. \A u \in TeeIds : exts'[u].cleared[Key(1)] # NotCleared => ClearsSent(1) # {}
    BY <1>1, <1>9, <1>10, <1>11 DEF AnswersTell, old, new
  <1>15. AnswersTell'
    BY <1>10, <1>12, <1>13, <1>14 DEF AnswersTell, Key
  <1>. QED
    BY <1>1, <1>6, <1>15 DEF AnswersKept

\* Every step keeps what the answers tell.
LEMMA WorldKeepsAnswers ==
  ASSUME IndInv, GenuineInv, SignedTyped, AnswersTell, WorldStep
  PROVE  AnswersKept
  <1>1. LogKept /\ TypeOK /\ SysTypeOK
    BY WorldStepKeeps DEF IndInv, GenuineInv
  <1>2. CASE UNCHANGED teeVars
    BY <1>1, <1>2, ContractKeepsAnswers
  <1>3. ASSUME NEW i \in DOMAIN sent, NEW plaintext \in Plaintexts(i), NEW tag \in TagsOf(i),
               Deliver(i, plaintext, tag)
        PROVE  AnswersKept
    <2>1. CASE sent[i].opCommand = "QF_PRIVATE_BID"
      BY <1>1, <1>3, <2>1, DeliverBid, BidKeepsAnswers
    <2>2. CASE sent[i].opCommand = "QF_CLEAR"
      BY <1>1, <1>3, <2>2, DeliverClear, ClearKeepsAnswers
    <2>. QED
      BY <1>1, <2>1, <2>2, SentTyped
  <1>4. ASSUME NEW t \in TeeIds, RestartExtension(t) PROVE AnswersKept
    BY <1>4, RestartKeepsAnswers
  <1>5. CASE UNCHANGED sysVars \/ Minted \/ SettledAsSigned
    BY <1>2, <1>5 DEF sysVars, Minted, SettledAsSigned
  <1>. QED
    BY <1>2, <1>3, <1>4, <1>5 DEF WorldStep, SysNext

\* A settled auction and the winner's spent escrow stay as they are.
LEMMA SettledStays ==
  ASSUME IndInv, WorldStep, auctions[1].state = "Settled", quoteEscrow[1][Dealer] = 0
  PROVE  auctions'[1] = auctions[1] /\ quoteEscrow'[1][Dealer] = 0
  <1>1. /\ 1 \in AuctionIds /\ Dealer \in Accounts
        /\ auctions \in [AuctionIds -> AuctionType]
        /\ quoteEscrow \in [AuctionIds -> [Accounts -> Nat]]
    BY TheirBids, ClientAssumption DEF IndInv, TypeOK
  <1>2. CASE UNCHANGED <<auctions, quoteEscrow>>
    BY <1>2
  <1>3. ASSUME NEW a \in AuctionIds, auctions[a].state # "Settled",
               \A b \in AuctionIds \ {a} : auctions'[b] = auctions[b] /\ quoteEscrow'[b] = quoteEscrow[b]
        PROVE  auctions'[1] = auctions[1] /\ quoteEscrow'[1][Dealer] = 0
    BY <1>1, <1>3
  <1>4. ASSUME NEW a \in AuctionIds, NEW result, NEW sig, SettleAuction(a, result, sig)
        PROVE  auctions'[1] = auctions[1] /\ quoteEscrow'[1][Dealer] = 0
    <2>1. auctions[a].state # "Settled"
      BY <1>4 DEF SettleAuction
    <2>2. \A b \in AuctionIds \ {a} : auctions'[b] = auctions[b] /\ quoteEscrow'[b] = quoteEscrow[b]
      BY <1>1, <1>4 DEF SettleAuction, SettleNoFill, SettleFill
    <2>. QED
      BY <1>3, <2>1, <2>2
  <1>5. ASSUME NEW a \in AuctionIds, NEW caller \in Accounts, NEW c, SubmitPrivateBid(caller, a, c)
        PROVE  auctions'[1] = auctions[1] /\ quoteEscrow'[1][Dealer] = 0
    <2>1. auctions[a].state # "Settled" /\ UNCHANGED auctions
      BY <1>5 DEF SubmitPrivateBid
    <2>2. \A b \in AuctionIds \ {a} : quoteEscrow'[b] = quoteEscrow[b]
      BY <1>1, <1>5 DEF SubmitPrivateBid, EscrowCeiling
    <2>. QED
      BY <1>3, <2>1, <2>2
  <1>6. ASSUME NEW a \in AuctionIds, RequestClear(a) \/ CancelTimedOutAuction(a)
        PROVE  auctions'[1] = auctions[1] /\ quoteEscrow'[1][Dealer] = 0
    <2>1. auctions[a].state # "Settled" /\ UNCHANGED quoteEscrow
      BY <1>6 DEF RequestClear, CancelTimedOutAuction, LiveStates
    <2>2. \A b \in AuctionIds \ {a} : auctions'[b] = auctions[b]
      BY <1>1, <1>6 DEF RequestClear, CancelTimedOutAuction
    <2>. QED
      BY <1>3, <2>1, <2>2
  <1>7. ASSUME NEW a \in AuctionIds, NEW caller \in Accounts, WithdrawQuote(caller, a)
        PROVE  auctions'[1] = auctions[1] /\ quoteEscrow'[1][Dealer] = 0
    BY <1>1, <1>7 DEF WithdrawQuote
  <1>8. ASSUME NEW caller, NEW base, NEW floor, NEW ceiling, NEW bidDeadline, NEW settleDeadline, NEW teeId,
               CreateAuction(caller, base, floor, ceiling, bidDeadline, settleDeadline, teeId)
        PROVE  auctions'[1] = auctions[1] /\ quoteEscrow'[1][Dealer] = 0
    <2>1. nextAuctionId # 1
      BY <1>1 DEF IndInv, EscrowExact
    <2>. QED
      BY <1>1, <1>8, <2>1 DEF CreateAuction
  <1>9. CASE Tick \/ SetExtensionId \/ RegisterExtension(This) \/ UNCHANGED vars \/ Minted
    <2>1. UNCHANGED <<auctions, quoteEscrow>>
      BY <1>9 DEF Tick, SetExtensionId, RegisterExtension, vars, Minted
    <2>. QED
      BY <1>2, <2>1
  <1>10. CASE ContractCall
    BY <1>4, <1>5, <1>6, <1>7, <1>8, <1>9, <1>10 DEF ContractCall, Relay
  <1>11. CASE SettledAsSigned
    BY <1>4, <1>11 DEF SettledAsSigned
  <1>12. CASE [SysNext]_sysVars
    BY <1>9, <1>10, <1>12 DEF SysNext, Deliver, RestartExtension, sysVars
  <1>. QED
    BY <1>9, <1>11, <1>12 DEF WorldStep

\* Receipts stay valid.
LEMMA ReceiptsGrow ==
  ASSUME SysTypeOK, LogKept, signed \subseteq signed', NEW a
  PROVE  Receipts(a) \subseteq Receipts(a)'
  <1> SUFFICES ASSUME NEW r \in Receipts(a) PROVE r \in Receipts(a)'
    OBVIOUS
  <1>1. PICK sig \in signed : /\ sig.over.data = r /\ sig.over.status = 1
                              /\ sent[sig.over.instructionId].opCommand = "QF_PRIVATE_BID"
                              /\ sig.over.data.contractAddr = This /\ sig.over.data.auctionId = a
    BY DEF Receipts
  <1>2. sig \in signed' /\ sent'[sig.over.instructionId].opCommand = "QF_PRIVATE_BID"
    BY <1>1 DEF SysTypeOK, LogKept
  <1>. QED
    BY <1>1, <1>2 DEF Receipts

-----------------------------------------------------------------------------
(* What is logged                                                          *)

\* A step that appends an instruction, and one that appends a clear of the
\* auction or a bid of x on it.
NewEntry == Len(sent) + 1
Logged ==
  /\ NewEntry \in Nat \ {0} /\ NewEntry \notin DOMAIN sent
  /\ DOMAIN sent' = DOMAIN sent \cup {NewEntry}
  /\ \A i \in DOMAIN sent : sent'[i] = sent[i]
ClearLogged ==
  /\ Logged /\ sent'[NewEntry].opCommand = "QF_CLEAR"
  /\ ClearsSent(1)' = ClearsSent(1) \cup {NewEntry}
  /\ \A x : SentBy(x)' = SentBy(x)
BidLogged(x, bid) ==
  /\ Logged /\ sent'[NewEntry].opCommand = "QF_PRIVATE_BID"
  /\ sent'[NewEntry].teeId = auctions[1].teeId
  /\ sent'[NewEntry].message = [auctionId |-> 1, bidder |-> x,
                                ciphertext |-> Encrypt(bid, auctions[1].teeId)]
  /\ sent'[NewEntry].message.ciphertext.plaintext = bid
  /\ ClearsSent(1)' = ClearsSent(1)
  /\ SentBy(x)' = SentBy(x) \cup {NewEntry}
  /\ \A y : y # x => SentBy(y)' = SentBy(y)

\* An instruction is appended as it was sent.
LEMMA EntryIsLogged ==
  ASSUME TypeOK, NEW teeId, NEW command, NEW message,
         SendInstruction(teeId, command, message)
  PROVE  /\ Logged /\ sent'[NewEntry].teeId = teeId
         /\ sent'[NewEntry].opCommand = command /\ sent'[NewEntry].message = message
  <1> DEFINE k == Len(sent) + 1
  <1>1. /\ k \in Nat \ {0} /\ k \notin DOMAIN sent
        /\ DOMAIN sent' = DOMAIN sent \cup {k}
        /\ \A i \in DOMAIN sent : sent'[i] = sent[i]
        /\ sent'[k] = [teeId |-> teeId, opCommand |-> command, message |-> message]
    BY LogAppend
  <1>2. NewEntry = k
    BY DEF NewEntry
  <1> HIDE DEF k
  <1>. QED
    BY <1>1, <1>2 DEF Logged

\* requestClear appends a clear.
LEMMA ClearIsLogged ==
  ASSUME IndInv, RequestClear(1)
  PROVE  ClearLogged
  <1>1. TypeOK /\ SendInstruction(auctions[1].teeId, "QF_CLEAR", ClearMessage(1))
    BY DEF IndInv, RequestClear
  <1>2. ClearMessage(1).auctionId = 1
    BY DEF ClearMessage
  <1>3. Logged /\ sent'[NewEntry].opCommand = "QF_CLEAR"
    BY <1>1, EntryIsLogged
  <1>4. ClearsSent(1)' = ClearsSent(1) \cup {NewEntry} /\ BidsSent(1)' = BidsSent(1)
    BY <1>1, <1>2, ClearAppend DEF NewEntry
  <1>5. BidsSent(1) \subseteq DOMAIN sent
    BY DEF BidsSent
  <1>6. \A x : SentBy(x)' = SentBy(x)
    BY <1>3, <1>4, <1>5 DEF SentBy, Logged
  <1>. QED
    BY <1>3, <1>4, <1>6 DEF ClearLogged

\* submitPrivateBid appends a bid in its sender's name.
LEMMA BidIsLogged ==
  ASSUME IndInv, NEW x, NEW bid, SubmitPrivateBid(x, 1, Encrypt(bid, auctions[1].teeId))
  PROVE  BidLogged(x, bid)
  <1> DEFINE m == [auctionId |-> 1, bidder |-> x, ciphertext |-> Encrypt(bid, auctions[1].teeId)]
  <1>1. TypeOK /\ SendInstruction(auctions[1].teeId, "QF_PRIVATE_BID", m)
    BY DEF IndInv, SubmitPrivateBid, BidEnvelope
  <1>2. m.auctionId = 1 /\ m.bidder = x /\ m.ciphertext.plaintext = bid
    BY DEF Encrypt
  <1> HIDE DEF m
  <1>3. /\ Logged /\ sent'[NewEntry].opCommand = "QF_PRIVATE_BID"
        /\ sent'[NewEntry].teeId = auctions[1].teeId /\ sent'[NewEntry].message = m
    BY <1>1, EntryIsLogged
  <1>4. ClearsSent(1)' = ClearsSent(1) /\ BidsSent(1)' = BidsSent(1) \cup {NewEntry}
    BY <1>1, <1>2, BidAppend DEF NewEntry
  <1>5. BidsSent(1) \subseteq DOMAIN sent
    BY DEF BidsSent
  <1>6. \A y : SentBy(y)' = SentBy(y) \cup (IF y = x THEN {NewEntry} ELSE {})
    BY <1>2, <1>3, <1>4, <1>5 DEF SentBy, Logged
  <1>7. sent'[NewEntry].message.ciphertext.plaintext = bid
    BY <1>2, <1>3
  <1>. QED
    BY <1>3, <1>4, <1>6, <1>7 DEF BidLogged, m

-----------------------------------------------------------------------------
(* Whoever does not move stays where it was                                *)

\* The invariant by actor: run-test, the panel, and what surrounds them.
TestFits ==
  /\ test \in TestRecords
  /\ test.pc \in Before => Shown = 0
  /\ test.pc \in Bidding \cup After =>
       Shown = 1 /\ test.auction = 1 /\ auctions[1].teeId = test.tee
  /\ TestProgress
PanelFits ==
  /\ panel \in PanelRecords
  /\ Shown = 0 => panel.pc = "idle" /\ panel.acked = NoBid
  /\ PanelProgress
AroundFits ==
  /\ served \in TeeIds /\ faults \in Nat /\ disturbed \in BOOLEAN
  /\ wall \in now .. (now + 1) /\ wall <= MaxTime
  /\ nextAuctionId \in {1, 2}
  /\ Shown = 0 => wall = 0
  /\ Shown = 1 =>
       /\ auctions[1].bidDeadline = 1 /\ auctions[1].settleDeadline = 2
       /\ auctions[1].floorPriceWei = Floor /\ auctions[1].ceilingPriceWei = Ceiling

\* Nothing else is in it.
LEMMA InvByActor ==
  ClientInv <=> /\ TestFits /\ PanelFits /\ AroundFits
                /\ SignedTyped /\ LogOfClients /\ AnswersTell
  <1>1. ClientShape /\ ListedOnce /\ TestProgress /\ PanelProgress <=> TestFits /\ PanelFits /\ AroundFits
    BY DEF ClientShape, ListedOnce, TestFits, PanelFits, AroundFits
  <1>. QED
    BY <1>1 DEF ClientInv

\* What a step of the system leaves of the world.
WorldKept ==
  /\ IndInv' /\ GenuineInv' /\ SignedTyped' /\ AnswersTell'
  /\ LogKept /\ TermsKept /\ signed \subseteq signed'
  /\ Shown = 1 => /\ auctions'[1].teeId = auctions[1].teeId
                  /\ auctions'[1].bidDeadline = auctions[1].bidDeadline
                  /\ auctions'[1].settleDeadline = auctions[1].settleDeadline
                  /\ auctions'[1].floorPriceWei = auctions[1].floorPriceWei
                  /\ auctions'[1].ceilingPriceWei = auctions[1].ceilingPriceWei

\* A listed auction exists.
LEMMA ShownExists ==
  ASSUME IndInv, Shown = 1
  PROVE  auctions[1].state # "None"
  <1>1. nextAuctionId = 2
    BY DEF Shown, IndInv, TypeOK
  <1>. QED
    BY <1>1, TheirBids DEF IndInv, EscrowExact

\* Every step of the clients leaves the world so.
LEMMA StepKeepsWorld ==
  ASSUME IndInv, GenuineInv, ClientInv, [ClientNext]_clientVars
  PROVE  WorldKept /\ WorldStep
  <1>1. WorldStep /\ SignedTyped /\ AnswersTell
    BY ClientIsWorldStep DEF ClientInv
  <1>2. IndInv' /\ GenuineInv' /\ LogKept /\ TermsKept
    BY <1>1, WorldStepKeeps
  <1>3. SignedTyped' /\ AnswersTell' /\ signed \subseteq signed'
    BY <1>1, WorldKeepsAnswers DEF AnswersKept
  <1>4. Shown = 1 => auctions[1].state # "None"
    BY ShownExists
  <1>. QED
    BY <1>1, <1>2, <1>3, <1>4, TheirBids DEF WorldKept, TermsKept

\* Counting faults and noting a disturbance.
CountersTyped == faults' \in Nat /\ disturbed' \in BOOLEAN

\* Every step leaves the two of their types.
LEMMA CountersStayTyped ==
  ASSUME AroundFits, [ClientNext]_clientVars
  PROVE  CountersTyped
  <1>1. faults \in Nat /\ disturbed \in BOOLEAN
    BY DEF AroundFits
  <1> DEFINE noted == disturbed' = disturbed \/ disturbed' = TRUE \/ disturbed' = FALSE
             counted == faults' = faults \/ faults' = faults + 1
  <1>2. noted /\ counted => CountersTyped
    <2>1. counted => faults' \in Nat
      BY <1>1
    <2>2. noted => disturbed' \in BOOLEAN
      BY <1>1, Zenon
    <2>. QED
      BY <2>1, <2>2 DEF CountersTyped
  <1>3. CASE TestStep
    <2>1. noted /\ counted
      BY <1>3 DEF TestStep, ReadExtensionId, SetExtensionIdOnce, ReadTeeInfo, EnsureFunds, Create, Bid,
               PollInVain, PollHangs, ReadReceipt, WaitForDeadline, ClearWithRetry, ReadResult, Settle,
               VerifyFinalState, Mined, Hang, Calm, Fault
    <2>. QED
      BY <1>2, <2>1
  <1>4. CASE PanelStep
    <2>1. noted /\ counted
      BY <1>4 DEF PanelStep, SubmitBid, AbandonBid, ReadBidReceipt, PressBid, PressRequestClear,
               PressSettle, PressCancel, PressWithdraw, Calm
    <2>. QED
      BY <1>2, <2>1
  <1>5. CASE \/ \E i \in DOMAIN sent :
                  \E plaintext \in Plaintexts(i), tag \in TagsOf(i) : Forward(i, plaintext, tag)
             \/ \E t \in TeeIds : Replace(t)
    <2>1. noted /\ counted
      BY <1>5 DEF Forward, Replace, Calm, Fault
    <2>. QED
      BY <1>2, <2>1
  <1>6. CASE Elsewhere \/ WallTick \/ Block \/ UNCHANGED clientVars
    <2>1. noted /\ counted
      BY <1>6 DEF Elsewhere, WallTick, Block, clientVars, Calm, Fault
    <2>. QED
      BY <1>2, <2>1
  <1>. QED
    BY <1>3, <1>4, <1>5, <1>6 DEF ClientNext

\* The clients' surroundings.
LEMMA AroundStays ==
  ASSUME AroundFits, WorldKept, served' \in TeeIds, CountersTyped,
         UNCHANGED nextAuctionId, wall' \in now' .. (now' + 1), wall' <= MaxTime,
         Shown = 0 => wall' = 0
  PROVE  AroundFits'
  <1>1. Shown' = Shown
    BY DEF Shown
  <1>. QED
    BY <1>1 DEF AroundFits, WorldKept, CountersTyped

\* run-test, while the others move.
LEMMA TestStays ==
  ASSUME IndInv, TestFits, WorldKept, WorldStep, UNCHANGED <<test, nextAuctionId>>
  PROVE  TestFits'
  <1>1. Shown' = Shown
    BY DEF Shown
  <1>2. test' \in TestRecords'
    BY DEF TestFits, TestRecords, WorldKept
  <1>3. TestProgress'
    <2>1. At("settle")' => test'.response \in signed' /\ ExpectedOutcome(test.response.over.data)'
      BY DEF TestFits, TestProgress, WorldKept, At, ExpectedOutcome
    <2>2. ASSUME test.pc \in {"verify", "passed"}
          PROVE  /\ auctions'[1].state = "Settled"
                 /\ auctions'[1].winner = Dealer /\ auctions'[1].clearingPriceWei = BidPrice
                 /\ quoteEscrow'[1][Dealer] = 0
      BY <2>2, SettledStays DEF TestFits, TestProgress
    <2>. QED
      BY <2>1, <2>2 DEF TestProgress, At, ExpectedOutcome
  <1>. QED
    BY <1>1, <1>2, <1>3 DEF TestFits, WorldKept

\* The visitor's bids in the log are bids of its own, with a nonce.
LEMMA SentTold ==
  ASSUME LogOfClients, NEW x, NEW i \in SentBy(x)
  PROVE  /\ i \in DOMAIN sent /\ BidOf(i) \in ClientBids /\ BidOf(i).auctionId = 1
         /\ BidOf(i).bidder = x /\ BidOf(i).nonce \in Nat /\ BidOf(i).unitPriceWei \in Nat
  <1>1. i \in DOMAIN sent /\ sent[i].opCommand = "QF_PRIVATE_BID" /\ sent[i].message.bidder = x
    BY DEF SentBy, BidsSent
  <1>2. BidOf(i) \in ClientBids /\ BidOf(i).auctionId = 1 /\ BidOf(i).bidder = x
    BY <1>1 DEF LogOfClients
  <1>. QED
    BY <1>1, <1>2, ClientBidFacts

\* The panel, while the others move and nobody bids in its name.
LEMMA PanelStays ==
  ASSUME IndInv, GenuineInv, LogOfClients, AroundFits, PanelFits, WorldKept,
         UNCHANGED panel, wall' \in Nat, wall <= wall',
         SentBy(Visitor)' = SentBy(Visitor), Shown' = 0 => Shown = 0
  PROVE  PanelFits'
  <1>1. \A i \in SentBy(Visitor) : BidOf(i)' = BidOf(i) /\ BidOf(i).nonce \in Nat
    BY SentTold DEF SentBy, BidsSent, BidOf, WorldKept, LogKept
  <1>2. Receipts(1) \subseteq Receipts(1)'
    BY ReceiptsGrow DEF WorldKept, GenuineInv
  <1>3. wall \in Nat
    BY DEF AroundFits, IndInv, TypeOK, Times
  <1>4. panel' \in PanelRecords' /\ (Shown' = 0 => panel'.pc = "idle" /\ panel'.acked = NoBid)
    BY DEF PanelFits, PanelRecords
  <1>5. panel.bid \in ClientBids => panel.bid.nonce \in Nat
    BY ClientBidFacts
  <1>6. \A i \in SentBy(Visitor)' : BidOf(i)'.nonce <= wall' + 1
    BY <1>1, <1>3 DEF PanelFits, PanelProgress
  <1>7. panel.pc # "idle" =>
         /\ panel.bid \in ClientBids /\ panel.bid.bidder = Visitor /\ panel.bid.auctionId = 1
         /\ panel.bid.nonce <= wall' + 1
         /\ \A i \in SentBy(Visitor)' : BidOf(i)'.nonce <= panel.bid.nonce
    BY <1>1, <1>3, <1>5 DEF PanelFits, PanelProgress
  <1>8. panel.pc = "poll" => /\ panel.instruction \in SentBy(Visitor)'
                             /\ BidOf(panel.instruction)' = panel.bid
    BY <1>1 DEF PanelFits, PanelProgress, BidOf
  <1>9. panel.acked # NoBid =>
         /\ panel.acked.bidder = Visitor /\ panel.acked.auctionId = 1
         /\ E!BidReceipt(panel.acked) \in Receipts(1)'
         /\ \A i \in SentBy(Visitor)' :
              BidOf(i)' \in {panel.acked} \cup panel.later \/ BidOf(i)'.nonce <= panel.acked.nonce
    BY <1>1, <1>2 DEF PanelFits, PanelProgress
  <1>10. PanelProgress'
    BY <1>6, <1>7, <1>8, <1>9 DEF PanelProgress
  <1>. QED
    BY <1>4, <1>10 DEF PanelFits

-----------------------------------------------------------------------------
(* run-test's steps                                                        *)

\* run-test gives up, or waits for ever.
LEMMA FailedFits ==
  ASSUME TestFits, test' = Failed \/ test' = Stuck
  PROVE  TestFits'
  <1>1. PICK pc \in {"failed", "blocked"} :
          test' = [pc |-> pc, tee |-> ZeroAddress, auction |-> test.auction, instruction |-> 0,
                   attempts |-> 0, triedAt |-> 0, polls |-> 0, response |-> NoData]
    BY DEF Failed, Stuck, NewTest
  <1>2. test.auction \in Nat
    BY DEF TestFits, TestRecords
  <1>3. test' \in TestRecords'
    BY <1>1, <1>2 DEF TestRecords
  <1>. QED
    BY <1>1, <1>3 DEF TestFits, TestProgress, At, Before, Bidding, After

\* It moves on before the listing.
LEMMA BeforeFits ==
  ASSUME TestFits, UNCHANGED nextAuctionId, test' \in TestRecords',
         test.pc \in Before, test'.pc \in Before
  PROVE  TestFits'
  <1>1. Shown' = Shown
    BY DEF Shown
  <1>. QED
    BY <1>1 DEF TestFits, TestProgress, At, Before, Bidding, After

\* It moves on after the listing.
LEMMA AfterFits ==
  ASSUME TestFits, WorldKept, UNCHANGED nextAuctionId, test' \in TestRecords',
         test'.auction = test.auction, test'.tee = test.tee,
         test.pc \in Bidding \cup After, test'.pc \in Bidding \cup After, TestProgress'
  PROVE  TestFits'
  <1>1. Shown' = Shown
    BY DEF Shown
  <1>. QED
    BY <1>1 DEF TestFits, Before, Bidding, After, WorldKept

\* Up to the response there is nothing to hold on to.
LEMMA EarlyProgress ==
  ASSUME test'.pc \in Bidding \cup {"result"}
  PROVE  TestProgress'
  BY DEF TestProgress, At, Bidding

\* What run-test's record becomes.
LEMMA GotoTyped ==
  ASSUME test \in TestRecords, NEW pc \in Before \cup Bidding \cup After \cup {"failed"}
  PROVE  /\ Goto(pc) \in TestRecords /\ Goto(pc).pc = pc
         /\ Goto(pc).auction = test.auction /\ Goto(pc).tee = test.tee
         /\ Goto(pc).instruction = test.instruction /\ Goto(pc).attempts = test.attempts
         /\ Goto(pc).triedAt = test.triedAt /\ Goto(pc).response = test.response
         /\ Goto(pc).polls = test.polls
  BY DEF TestRecords, Goto

\* The steps up to the listing.
LEMMA EarlyStepFits ==
  ASSUME IndInv, ClientInv, WorldKept, UNCHANGED signed,
         ReadExtensionId \/ SetExtensionIdOnce \/ ReadTeeInfo \/ EnsureFunds
  PROVE  TestFits' /\ UNCHANGED <<nextAuctionId, sent, now>>
  <1>1. TestFits /\ test \in TestRecords /\ served \in TeeIds
    BY InvByActor DEF TestFits, AroundFits
  <1>2. TestRecords' = TestRecords
    BY DEF TestRecords
  <1>3. UNCHANGED <<nextAuctionId, sent, now>>
    BY DEF ReadExtensionId, SetExtensionIdOnce, ReadTeeInfo, EnsureFunds, SetExtensionId, vars
  <1>4. test.pc \in Before
    BY DEF ReadExtensionId, SetExtensionIdOnce, ReadTeeInfo, EnsureFunds, At, Before
  <1>5. \/ test' = Failed \/ test' = Stuck
        \/ \E pc \in Before : test' = Goto(pc)
        \/ test' = [Goto("fund") EXCEPT !.tee = served]
    BY DEF ReadExtensionId, SetExtensionIdOnce, ReadTeeInfo, EnsureFunds, Mined, Hang, Before
  <1>6. ASSUME NEW pc \in Before, test' = Goto(pc) PROVE TestFits'
    BY <1>1, <1>2, <1>3, <1>4, <1>6, GotoTyped, BeforeFits
  <1>7. CASE test' = [Goto("fund") EXCEPT !.tee = served]
    <2>1. test' \in TestRecords /\ test'.pc = "fund"
      BY <1>1, <1>7 DEF Goto, TestRecords, Before
    <2>. QED
      BY <1>1, <1>2, <1>3, <1>4, <2>1, BeforeFits DEF Before
  <1>. QED
    BY <1>1, <1>3, <1>5, <1>6, <1>7, FailedFits

\* The listing.
LEMMA CreateFits ==
  ASSUME IndInv, ClientInv, UNCHANGED <<signed, wall, panel, served>>, Create,
         CountersTyped
  PROVE  TestFits' /\ AroundFits' /\ UNCHANGED sent /\ Shown' = 1
  <1>1. TestFits /\ AroundFits /\ test \in TestRecords /\ nextAuctionId = 1 /\ wall = 0 /\ now = 0
    <2>1. TestFits /\ AroundFits /\ test.pc = "create"
      BY InvByActor DEF Create, At
    <2>2. Shown = 0
      BY <2>1 DEF TestFits, Before
    <2>. QED
      BY <2>1, <2>2 DEF TestFits, AroundFits, Shown, IndInv, TypeOK, Times
  <1>2. PICK teeId \in TeeIds :
          /\ CreateAuction(Seller, Lot, Floor, Ceiling, wall + 1, wall + 2, teeId)
          /\ IF teeId = test.tee
             THEN Mined([Goto("bid") EXCEPT !.auction = nextAuctionId])
             ELSE test' = Failed /\ disturbed' = TRUE /\ UNCHANGED faults
    BY DEF Create
  <1>3. /\ UNCHANGED <<now, sent>> /\ nextAuctionId' = 2
        /\ auctions' = [auctions EXCEPT ![1] = ListedAuction(Seller, Lot, Floor, Ceiling, 1, 2, teeId)]
    BY <1>1, <1>2 DEF CreateAuction
  <1>4. auctions'[1] = ListedAuction(Seller, Lot, Floor, Ceiling, 1, 2, teeId)
    BY <1>3, TheirBids DEF IndInv, TypeOK
  <1>5. /\ auctions'[1].teeId = teeId /\ auctions'[1].bidDeadline = 1 /\ auctions'[1].settleDeadline = 2
        /\ auctions'[1].floorPriceWei = Floor /\ auctions'[1].ceilingPriceWei = Ceiling
    BY <1>4 DEF ListedAuction, EmptyAuction
  <1>6. Shown' = 1
    BY <1>3 DEF Shown
  <1>7. \/ test' = Failed
        \/ teeId = test.tee /\ test' = [Goto("bid") EXCEPT !.auction = 1]
    BY <1>1, <1>2 DEF Mined
  <1>8. AroundFits'
    BY <1>1, <1>3, <1>5, <1>6 DEF AroundFits, CountersTyped
  <1>9. CASE teeId = test.tee /\ test' = [Goto("bid") EXCEPT !.auction = 1]
    <2>1. /\ test' \in TestRecords /\ test'.pc = "bid" /\ test'.auction = 1 /\ test'.tee = teeId
      BY <1>1, <1>9 DEF Goto, TestRecords, Bidding
    <2>2. test' \in TestRecords'
      BY <2>1 DEF TestRecords
    <2>. QED
      BY <1>3, <1>5, <1>6, <1>8, <2>1, <2>2 DEF TestFits, TestProgress, At, Before, Bidding, After
  <1>. QED
    BY <1>1, <1>3, <1>6, <1>7, <1>8, <1>9, FailedFits

\* settleAuction with the outcome run-test expects.
LEMMA ExpectedSettlement ==
  ASSUME IndInv, NEW result, NEW sig, SettleAuction(1, result, sig), ExpectedOutcome(result)
  PROVE  /\ auctions'[1].state = "Settled"
         /\ auctions'[1].winner = Dealer /\ auctions'[1].clearingPriceWei = BidPrice
         /\ quoteEscrow'[1][Dealer] = 0
  <1>1. /\ 1 \in AuctionIds /\ Dealer \in Accounts /\ Dealer # ZeroAddress
        /\ auctions \in [AuctionIds -> AuctionType]
        /\ quoteEscrow \in [AuctionIds -> [Accounts -> Nat]]
    BY TheirBids, ClientAssumption, AddressAssumption DEF IndInv, TypeOK
  <1>2. result.winner = Dealer /\ result.unitPriceWei = BidPrice
    BY DEF ExpectedOutcome
  <1>3. SettleFill(1, result)
    BY <1>1, <1>2 DEF SettleAuction, SettleNoFill
  <1>4. quoteEscrow' = [quoteEscrow EXCEPT ![1][Dealer] = 0]
    BY <1>2, <1>3 DEF SettleFill
  <1>5. auctions'[1].state = "Settled" /\ auctions'[1].winner = Dealer
        /\ auctions'[1].clearingPriceWei = BidPrice
    BY <1>1, <1>2, <1>3 DEF SettleFill, AuctionType
  <1>. QED
    BY <1>1, <1>4, <1>5

\* The next attempt of sendTxRetry.
Attempted(n, at) == [test EXCEPT !.attempts = n, !.triedAt = at]

\* It changes the two counters of the record only.
LEMMA AttemptTyped ==
  ASSUME test \in TestRecords, NEW n \in Nat, NEW at \in Int
  PROVE  /\ Attempted(n, at) \in TestRecords
         /\ Attempted(n, at).auction = test.auction /\ Attempted(n, at).tee = test.tee
         /\ Attempted(n, at).pc = test.pc /\ Attempted(n, at).attempts = n
         /\ Attempted(n, at).triedAt = at
  BY DEF Attempted, TestRecords

\* What AnotherAttempt makes of the record.
LEMMA AttemptEffect ==
  ASSUME test \in TestRecords, now \in Nat, NEW early \in BOOLEAN
  PROVE  /\ test.attempts + 1 \in Nat
         /\ \/ AnotherAttempt(early) = Failed /\ test.attempts + 1 = ClearAttempts
            \/ \E at \in Int : /\ AnotherAttempt(early) = Attempted(test.attempts + 1, at)
                               /\ early => at = now
  <1>1. test.attempts + 1 \in Nat
    BY DEF TestRecords
  <1>2. CASE early
    <2>1. now \in Int /\ (IF early THEN now ELSE -1) = now
      BY <1>2
    <2>2. AnotherAttempt(early) = IF test.attempts + 1 = ClearAttempts THEN Failed
                                  ELSE Attempted(test.attempts + 1, now)
      BY <2>1 DEF AnotherAttempt, Attempted
    <2>. QED
      BY <1>1, <2>1, <2>2
  <1>3. CASE ~early
    <2>1. -1 \in Int /\ (IF early THEN now ELSE -1) = -1
      BY <1>3
    <2>. QED
      BY <1>1, <1>3, <2>1 DEF AnotherAttempt, Attempted
  <1>. QED
    BY <1>2, <1>3

\* The steps from the bid to the result.
LEMMA MiddleStepFits ==
  ASSUME IndInv, ClientInv, WorldKept, UNCHANGED signed,
         Bid \/ PollInVain \/ PollHangs \/ ReadReceipt \/ WaitForDeadline \/ ClearWithRetry
  PROVE  TestFits' /\ UNCHANGED <<nextAuctionId, now>>
  <1>1. TestFits /\ test \in TestRecords /\ now \in Nat
    BY InvByActor DEF TestFits, IndInv, TypeOK, Times
  <1>2. TestRecords' = TestRecords
    BY DEF TestRecords
  <1>3. UNCHANGED <<nextAuctionId, now>>
    BY DEF Bid, PollInVain, PollHangs, ReadReceipt, WaitForDeadline, ClearWithRetry,
           SubmitPrivateBid, RequestClear, vars
  <1>4. test.pc \in Bidding \cup {"result"}
    BY DEF Bid, PollInVain, PollHangs, ReadReceipt, WaitForDeadline, ClearWithRetry, At, Bidding
  <1>5. Len(sent) + 1 \in Nat
    BY DEF IndInv, TypeOK
  <1>6. ASSUME test' \in TestRecords, test'.auction = test.auction, test'.tee = test.tee,
               test'.pc \in Bidding \cup {"result"}
        PROVE  TestFits'
    BY <1>1, <1>2, <1>3, <1>4, <1>6, AfterFits, EarlyProgress DEF After
  <1>7. CASE Bid
    <2>1. test' = Failed \/ test' = [Goto("receipt") EXCEPT !.instruction = Len(sent) + 1]
      BY <1>7 DEF Bid, Mined
    <2>2. ASSUME test' = [Goto("receipt") EXCEPT !.instruction = Len(sent) + 1] PROVE TestFits'
      <3>1. /\ test' \in TestRecords /\ test'.auction = test.auction /\ test'.tee = test.tee
            /\ test'.pc = "receipt"
        BY <1>1, <1>5, <2>2 DEF Goto, TestRecords, Bidding
      <3>. QED
        BY <1>6, <3>1 DEF Bidding
    <2>. QED
      BY <1>1, <1>3, <2>1, <2>2, FailedFits
  <1>8. CASE PollInVain
    <2>1. test' = Failed \/ test' = [test EXCEPT !.polls = NextPoll(test.polls)]
      BY <1>8 DEF PollInVain
    <2>2. ASSUME test' = [test EXCEPT !.polls = NextPoll(test.polls)] PROVE TestFits'
      <3>1. /\ test' \in TestRecords /\ test'.auction = test.auction /\ test'.tee = test.tee
            /\ test'.pc = test.pc
        BY <1>1, <2>2 DEF TestRecords, NextPoll
      <3>. QED
        BY <1>4, <1>6, <3>1
    <2>. QED
      BY <1>1, <1>3, <2>1, <2>2, FailedFits
  <1>9. CASE ReadReceipt
    <2>1. test' = Failed \/ test' = [Goto("wait") EXCEPT !.polls = 0]
      BY <1>9 DEF ReadReceipt
    <2>2. ASSUME test' = [Goto("wait") EXCEPT !.polls = 0] PROVE TestFits'
      <3>1. /\ test' \in TestRecords /\ test'.auction = test.auction /\ test'.tee = test.tee
            /\ test'.pc = "wait"
        BY <1>1, <2>2 DEF TestRecords, Goto, Bidding
      <3>. QED
        BY <1>6, <3>1 DEF Bidding
    <2>. QED
      BY <1>1, <1>3, <2>1, <2>2, FailedFits
  <1>10. CASE WaitForDeadline
    <2>1. test' = Goto("clear")
      BY <1>10 DEF WaitForDeadline
    <2>. QED
      BY <1>1, <1>3, <1>6, <2>1, GotoTyped DEF Bidding
  <1>11. CASE ClearWithRetry
    <2>1. \/ test' = [Goto("result") EXCEPT !.instruction = Len(sent) + 1]
          \/ test' = Failed
          \/ \E at \in Int : test' = Attempted(test.attempts + 1, at)
      <3>1. (now < Auction.bidDeadline) \in BOOLEAN
        OBVIOUS
      <3>2. \/ test' = [Goto("result") EXCEPT !.instruction = Len(sent) + 1]
            \/ test' = AnotherAttempt(FALSE) \/ test' = AnotherAttempt(now < Auction.bidDeadline)
        BY <1>11 DEF ClearWithRetry
      <3>. QED
        BY <1>1, <3>1, <3>2, AttemptEffect
    <2>2. ASSUME test' = [Goto("result") EXCEPT !.instruction = Len(sent) + 1] PROVE TestFits'
      <3>1. /\ test' \in TestRecords /\ test'.auction = test.auction /\ test'.tee = test.tee
            /\ test'.pc = "result"
        BY <1>1, <1>5, <2>2 DEF Goto, TestRecords, After
      <3>. QED
        BY <1>6, <3>1
    <2>3. ASSUME NEW at \in Int, test' = Attempted(test.attempts + 1, at)
          PROVE  TestFits'
      <3>1. /\ test' \in TestRecords /\ test'.auction = test.auction /\ test'.tee = test.tee
            /\ test'.pc = test.pc
        BY <1>1, <2>3, AttemptTyped, AttemptEffect, ZenonT(60)
      <3>. QED
        BY <1>4, <1>6, <3>1
    <2>. QED
      BY <1>1, <1>3, <2>1, <2>2, <2>3, FailedFits
  <1>12. CASE PollHangs
    BY <1>1, <1>3, <1>12, FailedFits DEF PollHangs, Hang
  <1>. QED
    BY <1>7, <1>8, <1>9, <1>10, <1>11, <1>12

\* The steps from the result on.
LEMMA LastStepFits ==
  ASSUME IndInv, ClientInv, WorldKept, UNCHANGED signed, ReadResult \/ Settle \/ VerifyFinalState
  PROVE  TestFits' /\ UNCHANGED <<nextAuctionId, sent, now>>
  <1>1. TestFits /\ test \in TestRecords /\ TestProgress
    BY InvByActor DEF TestFits
  <1>2. TestRecords' = TestRecords
    BY DEF TestRecords
  <1>3. UNCHANGED <<nextAuctionId, sent, now>>
    BY DEF ReadResult, Settle, VerifyFinalState, SettleAuction, vars
  <1>4. test.pc \in After
    BY DEF ReadResult, Settle, VerifyFinalState, At, After
  <1>5. ASSUME test' \in TestRecords, test'.auction = test.auction, test'.tee = test.tee,
               test'.pc \in After, TestProgress'
        PROVE  TestFits'
    BY <1>1, <1>2, <1>3, <1>4, <1>5, AfterFits
  <1>6. CASE ReadResult
    <2>1. PICK sig \in signed : \/ test' = Failed
                                \/ /\ ExpectedOutcome(sig.over.data)
                                   /\ test' = [Goto("settle") EXCEPT !.response = sig]
      BY <1>6 DEF ReadResult, ActionResult
    <2>2. ASSUME ExpectedOutcome(sig.over.data), test' = [Goto("settle") EXCEPT !.response = sig]
          PROVE  TestFits'
      <3>1. /\ test' \in TestRecords /\ test'.auction = test.auction /\ test'.tee = test.tee
            /\ test'.pc = "settle" /\ test'.response = sig
        BY <1>1, <2>2 DEF Goto, TestRecords, After
      <3>2. TestProgress'
        BY <2>2, <3>1 DEF TestProgress, At, ExpectedOutcome
      <3>. QED
        BY <1>5, <3>1, <3>2 DEF After
    <2>. QED
      BY <1>1, <1>3, <2>1, <2>2, FailedFits
  <1>7. CASE Settle
    <2>1. test.auction = 1 /\ ExpectedOutcome(test.response.over.data)
      BY <1>1, <1>4, <1>7 DEF TestFits, TestProgress, Settle
    <2>2. \/ test' = Failed
          \/ /\ SettleAuction(1, test.response.over.data, test.response)
             /\ test' = Goto("verify")
      BY <1>7, <2>1 DEF Settle, Mined
    <2>3. ASSUME SettleAuction(1, test.response.over.data, test.response), test' = Goto("verify")
          PROVE  TestFits'
      <3>1. /\ test' \in TestRecords /\ test'.auction = test.auction /\ test'.tee = test.tee
            /\ test'.pc = "verify"
        BY <1>1, <2>3, GotoTyped DEF After
      <3>2. TestProgress'
        BY <2>1, <2>3, <3>1, ExpectedSettlement DEF TestProgress, At
      <3>. QED
        BY <1>5, <3>1, <3>2 DEF After
    <2>. QED
      BY <1>1, <1>3, <2>2, <2>3, FailedFits
  <1>8. CASE VerifyFinalState
    <2>1. /\ test.pc = "verify" /\ test.auction = 1 /\ auctions[1].state = "Settled"
          /\ UNCHANGED <<auctions, quoteEscrow>>
      BY <1>1, <1>4, <1>8 DEF TestFits, TestProgress, VerifyFinalState, At, vars
    <2>2. test' = Goto("passed")
      BY <1>8, <2>1 DEF VerifyFinalState, Auction
    <2>3. /\ test' \in TestRecords /\ test'.auction = test.auction /\ test'.tee = test.tee
          /\ test'.pc = "passed"
      BY <1>1, <2>2, GotoTyped DEF After
    <2>4. TestProgress'
      BY <1>1, <2>1, <2>3 DEF TestProgress, At
    <2>. QED
      BY <1>3, <1>5, <2>3, <2>4 DEF After
  <1>. QED
    BY <1>6, <1>7, <1>8

\* The log stays one of the clients' own bids.
LEMMA SameLogFits ==
  ASSUME LogOfClients, UNCHANGED sent \/ ClearLogged
  PROVE  LogOfClients' /\ \A x : SentBy(x)' = SentBy(x)
  <1>1. CASE UNCHANGED sent
    BY <1>1 DEF LogOfClients, BidOf, SentBy, BidsSent, Encrypt
  <1>2. CASE ClearLogged
    <2>1. /\ DOMAIN sent' = DOMAIN sent \cup {NewEntry} /\ \A i \in DOMAIN sent : sent'[i] = sent[i]
          /\ sent'[NewEntry].opCommand = "QF_CLEAR"
      BY <1>2 DEF ClearLogged, Logged
    <2>2. LogOfClients'
      BY <2>1 DEF LogOfClients, BidOf, Encrypt
    <2>. QED
      BY <1>2, <2>2 DEF ClearLogged
  <1>. QED
    BY <1>1, <1>2

\* So it does with another bid of theirs.
LEMMA NewBidFits ==
  ASSUME LogOfClients, NEW x, NEW bid \in ClientBids, bid.auctionId = 1, bid.bidder = x,
         BidLogged(x, bid)
  PROVE  LogOfClients'
  <1>1. /\ DOMAIN sent' = DOMAIN sent \cup {NewEntry} /\ \A i \in DOMAIN sent : sent'[i] = sent[i]
        /\ sent'[NewEntry].message.ciphertext.plaintext = bid
        /\ sent'[NewEntry].teeId = auctions[1].teeId
        /\ sent'[NewEntry].message = [auctionId |-> 1, bidder |-> x,
                                      ciphertext |-> Encrypt(bid, auctions[1].teeId)]
    BY DEF BidLogged, Logged
  <1>2. /\ sent'[NewEntry].message.bidder = x
        /\ sent'[NewEntry].message.ciphertext = Encrypt(bid, sent'[NewEntry].teeId)
    BY <1>1
  <1> SUFFICES ASSUME NEW i \in DOMAIN sent', sent'[i].opCommand = "QF_PRIVATE_BID"
               PROVE  LET plain == sent'[i].message.ciphertext.plaintext IN
                      /\ plain \in ClientBids /\ plain.auctionId = 1
                      /\ plain.bidder = sent'[i].message.bidder
                      /\ sent'[i].message.ciphertext = Encrypt(plain, sent'[i].teeId)
    BY DEF LogOfClients, BidOf, Encrypt
  <1>3. CASE i \in DOMAIN sent
    BY <1>1, <1>3 DEF LogOfClients, BidOf
  <1>4. CASE i = NewEntry
    BY <1>1, <1>2, <1>4
  <1>. QED
    BY <1>1, <1>3, <1>4

\* run-test's only bid and its clear are all it logs.
LEMMA TestLogs ==
  ASSUME IndInv, ClientInv, TestStep
  PROVE  UNCHANGED sent \/ ClearLogged \/ BidLogged(Dealer, DealerBid)
  <1>1. TestFits
    BY InvByActor
  <1>2. CASE Bid
    <2>1. test.auction = 1 /\ auctions[1].teeId = test.tee
      BY <1>1, <1>2 DEF TestFits, Bid, At, Bidding
    <2>2. UNCHANGED vars \/ SubmitPrivateBid(Dealer, 1, Encrypt(DealerBid, auctions[1].teeId))
      BY <1>2, <2>1 DEF Bid, DealerBid
    <2>. QED
      BY <2>2, BidIsLogged DEF vars
  <1>3. CASE ClearWithRetry
    <2>1. test.auction = 1
      BY <1>1, <1>3 DEF TestFits, ClearWithRetry, At, Bidding
    <2>2. UNCHANGED vars \/ RequestClear(1)
      BY <1>3, <2>1 DEF ClearWithRetry
    <2>. QED
      BY <2>2, ClearIsLogged DEF vars
  <1>4. CASE ReadExtensionId \/ SetExtensionIdOnce \/ ReadTeeInfo \/ EnsureFunds \/ Create
             \/ PollInVain \/ PollHangs \/ ReadReceipt \/ WaitForDeadline \/ ReadResult
             \/ Settle \/ VerifyFinalState
    BY <1>4 DEF ReadExtensionId, SetExtensionIdOnce, ReadTeeInfo, EnsureFunds, Create, SetExtensionId,
                CreateAuction, PollInVain, PollHangs, ReadReceipt, WaitForDeadline, ReadResult, Settle,
                VerifyFinalState, SettleAuction, vars
  <1>. QED
    BY <1>2, <1>3, <1>4 DEF TestStep

\* The log and the visitor's bids in it after a step of run-test.
LEMMA TestLogFits ==
  ASSUME IndInv, ClientInv, TestStep
  PROVE  LogOfClients' /\ SentBy(Visitor)' = SentBy(Visitor)
  <1>1. LogOfClients
    BY DEF ClientInv
  <1>2. CASE UNCHANGED sent \/ ClearLogged
    BY <1>1, <1>2, SameLogFits
  <1>3. CASE BidLogged(Dealer, DealerBid)
    <2>1. DealerBid \in ClientBids /\ DealerBid.auctionId = 1 /\ DealerBid.bidder = Dealer
      BY TheirBids DEF DealerBid, PrivateBid
    <2>2. SentBy(Visitor)' = SentBy(Visitor)
      BY <1>3, ClientAssumption DEF BidLogged
    <2>. QED
      BY <1>1, <1>3, <2>1, <2>2, NewBidFits
  <1>. QED
    BY <1>2, <1>3, TestLogs

\* run-test keeps the invariant.
LEMMA TestKeepsInv ==
  ASSUME IndInv, GenuineInv, ClientInv, TestStep
  PROVE  ClientInv'
  <1>1. WorldKept /\ WorldStep
    BY StepKeepsWorld DEF ClientNext
  <1>2. UNCHANGED <<signed, panel, served, wall>>
    BY DEF TestStep, teeVars
  <1>3. TestFits /\ PanelFits /\ AroundFits /\ LogOfClients
    BY InvByActor
  <1>4. CountersTyped
    BY <1>3, CountersStayTyped DEF ClientNext
  <1>5. LogOfClients' /\ SentBy(Visitor)' = SentBy(Visitor)
    BY TestLogFits
  <1>6. TestFits' /\ AroundFits' /\ (Shown' = 0 => Shown = 0)
    <2>1. CASE Create
      BY <1>2, <1>4, <2>1, CreateFits
    <2>2. CASE \/ ReadExtensionId \/ SetExtensionIdOnce \/ ReadTeeInfo \/ EnsureFunds
               \/ Bid \/ PollInVain \/ PollHangs \/ ReadReceipt \/ WaitForDeadline \/ ClearWithRetry
               \/ ReadResult \/ Settle \/ VerifyFinalState
      <3>1. TestFits' /\ UNCHANGED <<nextAuctionId, now>>
        BY <1>1, <1>2, <2>2, EarlyStepFits, MiddleStepFits, LastStepFits
      <3>2. /\ served' \in TeeIds /\ wall' \in now' .. (now' + 1) /\ wall' <= MaxTime
            /\ (Shown = 0 => wall' = 0)
        BY <1>2, <1>3, <3>1 DEF AroundFits
      <3>. QED
        BY <1>1, <1>3, <1>4, <3>1, <3>2, AroundStays DEF Shown
    <2>. QED
      BY <2>1, <2>2 DEF TestStep
  <1>7. PanelFits'
    <2>1. wall' \in Nat /\ wall <= wall'
      BY <1>2, <1>3 DEF AroundFits, IndInv, TypeOK, Times
    <2>. QED
      BY <1>1, <1>2, <1>3, <1>5, <1>6, <2>1, PanelStays
  <1>8. SignedTyped' /\ AnswersTell'
    BY <1>1 DEF WorldKept
  <1>9. (ClientShape /\ ListedOnce /\ TestProgress /\ PanelProgress)'
    BY <1>6, <1>7 DEF ClientShape, ListedOnce, TestFits, PanelFits, AroundFits
  <1>. QED
    BY <1>5, <1>8, <1>9 DEF ClientInv

-----------------------------------------------------------------------------
(* The panel's steps                                                       *)

\* The panel's own fields, when it presses the button and when it is done.
LEMMA PanelMoves ==
  ASSUME panel \in PanelRecords
  PROVE  /\ IdlePanel \in PanelRecords /\ IdlePanel.pc = "idle" /\ IdlePanel.acked = panel.acked
         /\ IdlePanel.later = panel.later
         /\ panel.bid \in ClientBids =>
              LET acks == [IdlePanel EXCEPT !.acked = panel.bid, !.later = {}] IN
              /\ acks \in PanelRecords /\ acks.pc = "idle" /\ acks.acked = panel.bid /\ acks.later = {}
         /\ \A bid \in ClientBids :
              LET asks == [panel EXCEPT !.pc = "wallet", !.bids = @ + 1, !.bid = bid] IN
              /\ asks \in PanelRecords /\ asks.pc = "wallet" /\ asks.acked = panel.acked
              /\ asks.bid = bid /\ asks.later = panel.later
  <1>1. panel.bids \in Nat /\ panel.bids + 1 \in Nat
    BY DEF PanelRecords
  <1>2. /\ IdlePanel \in PanelRecords /\ IdlePanel.pc = "idle" /\ IdlePanel.acked = panel.acked
        /\ IdlePanel.later = panel.later
    BY DEF PanelRecords, IdlePanel
  <1>3. ASSUME panel.bid \in ClientBids
        PROVE  LET acks == [IdlePanel EXCEPT !.acked = panel.bid, !.later = {}] IN
               /\ acks \in PanelRecords /\ acks.pc = "idle" /\ acks.acked = panel.bid /\ acks.later = {}
    BY <1>2, <1>3 DEF PanelRecords
  <1>4. ASSUME NEW bid \in ClientBids
        PROVE  LET asks == [panel EXCEPT !.pc = "wallet", !.bids = @ + 1, !.bid = bid] IN
               /\ asks \in PanelRecords /\ asks.pc = "wallet" /\ asks.acked = panel.acked
               /\ asks.bid = bid /\ asks.later = panel.later
    BY <1>1 DEF PanelRecords
  <1>. QED
    BY <1>2, <1>3, <1>4

\* It asks the wallet: the clock has moved on since its earlier bids.
LEMMA PressBidFits ==
  ASSUME IndInv, PanelFits, AroundFits, LogOfClients, PressBid, UNCHANGED <<signed, wall>>
  PROVE  PanelFits'
  <1> DEFINE n == panel.bids + 1
             bid == PrivateBid(Visitor, 1, wall + 1, VisitorPrices[n], n)
  <1>1. Shown = 1
    BY DEF PressBid, Free, AroundFits, Shown
  <1>2. /\ panel' = [panel EXCEPT !.pc = "wallet", !.bids = @ + 1, !.bid = bid]
        /\ UNCHANGED <<sent, nextAuctionId>> /\ panel.bids < Len(VisitorPrices)
    BY <1>1 DEF PressBid, vars
  <1>3. bid \in ClientBids /\ bid.bidder = Visitor /\ bid.auctionId = 1 /\ bid.nonce = wall + 1
    <2>1. n \in DOMAIN VisitorPrices
      BY <1>2, ClientAssumption DEF PanelFits, PanelRecords
    <2>2. wall + 1 \in 1 .. (MaxTime + 1)
      BY BoundAssumption DEF AroundFits, IndInv, TypeOK, Times
    <2>. QED
      BY <2>1, <2>2, TheirBids DEF PrivateBid
  <1> HIDE DEF bid, n
  <1>4. /\ panel' \in PanelRecords /\ panel'.pc = "wallet" /\ panel'.acked = panel.acked
        /\ panel'.bid = bid /\ panel'.later = panel.later
    BY <1>2, <1>3, PanelMoves DEF PanelFits
  <1>5. SentBy(Visitor)' = SentBy(Visitor) /\ Receipts(1)' = Receipts(1)
        /\ \A i : BidOf(i)' = BidOf(i)
    BY <1>2 DEF SentBy, BidsSent, Receipts, BidOf
  <1>6. Shown' # 0
    BY <1>1, <1>2 DEF Shown
  <1>7. wall + 1 <= wall + 1
    BY DEF AroundFits, IndInv, TypeOK, Times
  <1>8. /\ \A i \in SentBy(Visitor) : BidOf(i).nonce <= wall + 1
        /\ panel.acked # NoBid =>
             /\ panel.acked.bidder = Visitor /\ panel.acked.auctionId = 1
             /\ E!BidReceipt(panel.acked) \in Receipts(1)
             /\ \A i \in SentBy(Visitor) :
                  BidOf(i) \in {panel.acked} \cup panel.later \/ BidOf(i).nonce <= panel.acked.nonce
    BY DEF PanelFits, PanelProgress
  <1>9. PanelProgress'
    BY <1>3, <1>4, <1>5, <1>7, <1>8 DEF PanelProgress
  <1>. QED
    BY <1>4, <1>6, <1>9 DEF PanelFits, PanelRecords

\* The bid is mined.
LEMMA SubmitBidFits ==
  ASSUME IndInv, GenuineInv, PanelFits, AroundFits, LogOfClients, WorldKept, SubmitBid,
         UNCHANGED <<signed, wall>>, BidLogged(Visitor, panel.bid)
  PROVE  PanelFits'
  <1> DEFINE later == IF panel.acked = NoBid THEN {} ELSE panel.later \cup {panel.bid}
  <1>1. /\ panel \in PanelRecords /\ panel.pc = "wallet" /\ Shown = 1 /\ UNCHANGED nextAuctionId
        /\ panel.bid \in ClientBids /\ panel.bid.bidder = Visitor /\ panel.bid.auctionId = 1
        /\ panel.bid.nonce <= wall + 1
        /\ \A i \in SentBy(Visitor) : BidOf(i).nonce <= panel.bid.nonce /\ BidOf(i).nonce <= wall + 1
    BY DEF SubmitBid, SubmitPrivateBid, PanelFits, PanelProgress, AroundFits, Shown
  <1>2. PICK k \in Nat : k = NewEntry
    BY DEF BidLogged, Logged
  <1>3. /\ sent'[k].message.ciphertext.plaintext = panel.bid
        /\ SentBy(Visitor)' = SentBy(Visitor) \cup {k}
        /\ \A i \in SentBy(Visitor) : sent'[i] = sent[i]
    BY <1>2 DEF BidLogged, Logged, SentBy, BidsSent
  <1>4. later \in SUBSET ClientBids
    BY <1>1 DEF PanelRecords
  <1>5. panel' = [panel EXCEPT !.pc = "poll", !.instruction = k, !.later = later]
    BY <1>2 DEF SubmitBid, NewEntry
  <1>6. panel.acked # NoBid => panel.later \subseteq later /\ panel.bid \in later
    OBVIOUS
  <1> HIDE DEF later
  <1>7. /\ panel' \in PanelRecords /\ panel'.pc = "poll" /\ panel'.acked = panel.acked
        /\ panel'.bid = panel.bid /\ panel'.instruction = k /\ panel'.later = later
    BY <1>1, <1>4, <1>5 DEF PanelRecords
  <1>8. BidOf(k)' = panel.bid /\ \A i \in SentBy(Visitor) : BidOf(i)' = BidOf(i)
    BY <1>3 DEF BidOf
  <1>9. Receipts(1) \subseteq Receipts(1)'
    BY ReceiptsGrow DEF WorldKept, GenuineInv
  <1>10. panel.bid.nonce <= panel.bid.nonce
    BY <1>1, ClientBidFacts
  <1>11. \A i \in SentBy(Visitor)' : BidOf(i)'.nonce <= panel.bid.nonce /\ BidOf(i)'.nonce <= wall + 1
    BY <1>1, <1>3, <1>8, <1>10
  <1>12. panel.acked # NoBid =>
          /\ panel.acked.bidder = Visitor /\ panel.acked.auctionId = 1
          /\ E!BidReceipt(panel.acked) \in Receipts(1)'
          /\ \A i \in SentBy(Visitor)' :
               BidOf(i)' \in {panel.acked} \cup later \/ BidOf(i)'.nonce <= panel.acked.nonce
    BY <1>3, <1>6, <1>8, <1>9 DEF PanelFits, PanelProgress
  <1>13. PanelProgress'
    <2>1. \A i \in SentBy(Visitor)' : BidOf(i)'.nonce <= wall' + 1
      BY <1>11
    <2>2. panel'.pc = "poll" => /\ panel'.instruction \in SentBy(Visitor)'
                                /\ BidOf(panel.instruction)' = panel'.bid
      BY <1>3, <1>7, <1>8 DEF BidOf
    <2>. QED
      BY <1>1, <1>7, <1>11, <1>12, <2>1, <2>2 DEF PanelProgress
  <1>14. Shown' # 0
    BY <1>1 DEF Shown
  <1>. QED
    BY <1>7, <1>13, <1>14 DEF PanelFits, PanelRecords

\* The panel gives up waiting, or it shows the receipt.
LEMMA PollFits ==
  ASSUME IndInv, GenuineInv, PanelFits, AroundFits, LogOfClients, AnswersTell,
         AbandonBid \/ ReadBidReceipt, UNCHANGED <<signed, wall>>
  PROVE  PanelFits'
  <1>1. /\ panel \in PanelRecords /\ UNCHANGED <<sent, nextAuctionId>> /\ Shown # 0
        /\ \A i \in SentBy(Visitor) : BidOf(i).nonce <= wall + 1
    BY DEF PanelFits, PanelProgress, AbandonBid, ReadBidReceipt, vars
  <1>2. /\ SentBy(Visitor)' = SentBy(Visitor) /\ Receipts(1)' = Receipts(1) /\ Shown' = Shown
        /\ \A i : BidOf(i)' = BidOf(i)
    BY <1>1 DEF SentBy, BidsSent, Receipts, BidOf, Shown
  <1>3. CASE panel' = IdlePanel
    <2>1. /\ panel' \in PanelRecords /\ panel'.pc = "idle" /\ panel'.acked = panel.acked
          /\ panel'.later = panel.later
      BY <1>1, <1>3, PanelMoves
    <2>2. panel.acked # NoBid =>
            /\ panel.acked.bidder = Visitor /\ panel.acked.auctionId = 1
            /\ E!BidReceipt(panel.acked) \in Receipts(1)
            /\ \A i \in SentBy(Visitor) :
                 BidOf(i) \in {panel.acked} \cup panel.later \/ BidOf(i).nonce <= panel.acked.nonce
      BY DEF PanelFits, PanelProgress
    <2>3. PanelProgress'
      BY <1>1, <1>2, <2>1, <2>2 DEF PanelProgress
    <2>. QED
      BY <1>1, <1>2, <2>1, <2>3 DEF PanelFits, PanelRecords
  <1>4. ASSUME NEW sig \in ActionResult(panel.instruction), panel.pc = "poll", sig.over.status = 1,
               panel' = [IdlePanel EXCEPT !.acked = panel.bid, !.later = {}]
        PROVE  PanelFits'
    <2>1. /\ panel.bid \in ClientBids /\ panel.bid.bidder = Visitor /\ panel.bid.auctionId = 1
          /\ panel.instruction \in SentBy(Visitor) /\ BidOf(panel.instruction) = panel.bid
          /\ \A i \in SentBy(Visitor) : BidOf(i).nonce <= panel.bid.nonce
      BY <1>4 DEF PanelFits, PanelProgress
    <2>2. /\ panel' \in PanelRecords /\ panel'.pc = "idle" /\ panel'.acked = panel.bid
          /\ panel'.later = {}
      BY <1>1, <1>4, <2>1, PanelMoves
    <2>3. /\ sig \in signed /\ sig.over.instructionId = panel.instruction
          /\ sent[panel.instruction].opCommand = "QF_PRIVATE_BID"
      BY <1>4, <2>1 DEF ActionResult, SentBy, BidsSent
    <2>4. sig.over.data = E!BidReceipt(panel.bid)
      BY <1>4, <2>1, <2>3 DEF AnswersTell, IsReceipt
    <2>5. sig.over.data.contractAddr = This /\ sig.over.data.auctionId = 1
      BY <2>1, <2>4, ClientBidFacts DEF E!BidReceipt
    <2>6. E!BidReceipt(panel.bid) \in Receipts(1)
      BY <1>4, <2>3, <2>4, <2>5 DEF Receipts
    <2>7. PanelProgress'
      BY <1>1, <1>2, <2>1, <2>2, <2>6 DEF PanelProgress
    <2>. QED
      BY <1>1, <1>2, <2>2, <2>7 DEF PanelFits, PanelRecords
  <1>. QED
    BY <1>3, <1>4 DEF AbandonBid, ReadBidReceipt

\* The panel keeps the invariant.
LEMMA PanelKeepsInv ==
  ASSUME IndInv, GenuineInv, ClientInv, PanelStep
  PROVE  ClientInv'
  <1>1. WorldKept /\ WorldStep
    BY StepKeepsWorld DEF ClientNext
  <1>2. UNCHANGED <<signed, test, served, wall>>
    BY DEF PanelStep, teeVars
  <1>3. TestFits /\ PanelFits /\ AroundFits /\ LogOfClients /\ AnswersTell
    BY InvByActor
  <1>4. CountersTyped
    BY <1>3, CountersStayTyped DEF ClientNext
  <1>5. UNCHANGED <<nextAuctionId, now>>
    BY DEF PanelStep, SubmitBid, AbandonBid, ReadBidReceipt, PressBid, PressRequestClear, PressSettle,
           PressCancel, PressWithdraw, SubmitPrivateBid, RequestClear, SettleAuction,
           CancelTimedOutAuction, WithdrawQuote, vars
  <1>6. AroundFits'
    <2>1. /\ served' \in TeeIds /\ wall' \in now' .. (now' + 1) /\ wall' <= MaxTime
          /\ (Shown = 0 => wall' = 0)
      BY <1>2, <1>3, <1>5 DEF AroundFits
    <2>. QED
      BY <1>1, <1>3, <1>4, <1>5, <2>1, AroundStays
  <1>7. TestFits'
    BY <1>1, <1>2, <1>3, <1>5, TestStays
  <1>8. LogOfClients' /\ PanelFits'
    <2>1. CASE SubmitBid
      <3>1. Shown = 1 /\ panel.bid \in ClientBids /\ panel.bid.bidder = Visitor /\ panel.bid.auctionId = 1
        BY <1>3, <2>1 DEF SubmitBid, PanelFits, PanelProgress, AroundFits, Shown
      <3>2. SubmitPrivateBid(Visitor, 1, Encrypt(panel.bid, auctions[1].teeId))
        BY <2>1, <3>1 DEF SubmitBid
      <3>3. BidLogged(Visitor, panel.bid)
        BY <3>2, BidIsLogged
      <3>. QED
        BY <1>1, <1>2, <1>3, <2>1, <3>1, <3>3, NewBidFits, SubmitBidFits
    <2>2. CASE AbandonBid \/ ReadBidReceipt \/ PressBid
      <3>1. UNCHANGED sent
        BY <2>2 DEF AbandonBid, ReadBidReceipt, PressBid, vars
      <3>. QED
        BY <1>2, <1>3, <2>2, <3>1, SameLogFits, PollFits, PressBidFits
    <2>3. CASE PressRequestClear \/ PressSettle \/ PressCancel \/ PressWithdraw
      <3>1. Shown = 1
        BY <1>3, <2>3 DEF PressRequestClear, PressSettle, PressCancel, PressWithdraw, Free, AroundFits, Shown
      <3>2. UNCHANGED sent \/ RequestClear(1)
        BY <2>3, <3>1 DEF PressRequestClear, PressSettle, PressCancel, PressWithdraw,
                         SettleAuction, CancelTimedOutAuction, WithdrawQuote
      <3>3. LogOfClients' /\ SentBy(Visitor)' = SentBy(Visitor)
        BY <1>3, <3>2, ClearIsLogged, SameLogFits
      <3>4. UNCHANGED panel
        BY <2>3 DEF PressRequestClear, PressSettle, PressCancel, PressWithdraw
      <3>5. wall' \in Nat /\ wall <= wall' /\ (Shown' = 0 => Shown = 0)
        BY <1>2, <1>3, <1>5 DEF AroundFits, IndInv, TypeOK, Times, Shown
      <3>. QED
        BY <1>1, <1>3, <3>3, <3>4, <3>5, PanelStays
    <2>. QED
      BY <2>1, <2>2, <2>3 DEF PanelStep
  <1>9. SignedTyped' /\ AnswersTell'
    BY <1>1 DEF WorldKept
  <1>10. (ClientShape /\ ListedOnce /\ TestProgress /\ PanelProgress)'
    BY <1>6, <1>7, <1>8 DEF ClientShape, ListedOnce, TestFits, PanelFits, AroundFits
  <1>. QED
    BY <1>8, <1>9, <1>10 DEF ClientInv

-----------------------------------------------------------------------------
(* The invariant                                                           *)

\* So do their surroundings: neither client moves, and nothing is logged.
LEMMA AroundKeepsInv ==
  ASSUME IndInv, GenuineInv, ClientInv,
         \/ Elsewhere \/ WallTick \/ Block \/ UNCHANGED clientVars
         \/ \E i \in DOMAIN sent :
              \E plaintext \in Plaintexts(i), tag \in TagsOf(i) : Forward(i, plaintext, tag)
         \/ \E t \in TeeIds : Replace(t)
  PROVE  ClientInv'
  <1>1. WorldKept /\ WorldStep
    BY StepKeepsWorld DEF ClientNext
  <1>2. TestFits /\ PanelFits /\ AroundFits /\ LogOfClients
    BY InvByActor
  <1>3. CountersTyped
    BY <1>2, CountersStayTyped DEF ClientNext
  <1>4. UNCHANGED <<sent, nextAuctionId, test, panel>>
    BY DEF Elsewhere, WallTick, Block, Forward, Replace, clientVars, sysVars, vars, RegisterExtension,
           SetExtensionId, Tick, Deliver
  <1>5. served' \in TeeIds
    BY <1>2 DEF Elsewhere, WallTick, Block, Forward, Replace, clientVars, AroundFits
  <1>6. \/ UNCHANGED <<wall, now>>
        \/ WallTick
        \/ Block
    BY DEF Elsewhere, Forward, Replace, clientVars, sysVars, vars, RegisterExtension,
           SetExtensionId, Deliver
  <1>7. now \in Nat /\ MaxTime \in Nat /\ wall \in now .. (now + 1) /\ wall <= MaxTime
    BY <1>2, BoundAssumption DEF AroundFits, IndInv, TypeOK, Times
  <1>8. /\ wall' \in now' .. (now' + 1) /\ wall' <= MaxTime /\ wall' \in Nat /\ wall <= wall'
        /\ (Shown = 0 => wall' = 0)
    <2>1. CASE UNCHANGED <<wall, now>>
      BY <1>2, <1>7, <2>1 DEF AroundFits
    <2>2. CASE WallTick
      <3>1. wall = now /\ wall < MaxTime /\ Shown > 0 /\ wall' = wall + 1 /\ now' = now
        BY <2>2 DEF WallTick, sysVars, vars
      <3>. QED
        BY <1>7, <3>1
    <2>3. CASE Block
      <3>1. now < wall /\ wall' = wall /\ now' = now + 1
        BY <2>3 DEF Block, Tick
      <3>. QED
        BY <1>2, <1>7, <3>1 DEF AroundFits
    <2>. QED
      BY <1>6, <2>1, <2>2, <2>3
  <1>9. LogOfClients' /\ SentBy(Visitor)' = SentBy(Visitor)
    BY <1>2, <1>4, SameLogFits
  <1>10. Shown' = Shown
    BY <1>4 DEF Shown
  <1>11. TestFits' /\ PanelFits' /\ AroundFits'
    BY <1>1, <1>2, <1>3, <1>4, <1>5, <1>8, <1>9, <1>10, TestStays, PanelStays, AroundStays
  <1>12. SignedTyped' /\ AnswersTell'
    BY <1>1 DEF WorldKept
  <1>13. (ClientShape /\ ListedOnce /\ TestProgress /\ PanelProgress)'
    BY <1>11 DEF ClientShape, ListedOnce, TestFits, PanelFits, AroundFits
  <1>. QED
    BY <1>9, <1>12, <1>13 DEF ClientInv

\* Every step keeps it.
LEMMA ClientStep ==
  IndInv /\ GenuineInv /\ ClientInv /\ [ClientNext]_clientVars => IndInv' /\ GenuineInv' /\ ClientInv'
  <1> SUFFICES ASSUME IndInv, GenuineInv, ClientInv, [ClientNext]_clientVars
               PROVE  IndInv' /\ GenuineInv' /\ ClientInv'
    OBVIOUS
  <1>1. IndInv' /\ GenuineInv'
    BY StepKeepsWorld DEF WorldKept
  <1>2. ClientInv'
    BY TestKeepsInv, PanelKeepsInv, AroundKeepsInv DEF ClientNext
  <1>. QED
    BY <1>1, <1>2

\* It holds at first.
LEMMA ClientInitInv == ClientInit => IndInv /\ GenuineInv /\ ClientInv
  <1> SUFFICES ASSUME ClientInit PROVE IndInv /\ GenuineInv /\ ClientInv
    OBVIOUS
  <1>1. SysInit /\ Init
    BY DEF ClientInit, SysInit
  <1>2. IndInv /\ GenuineInv
    BY <1>1, InitIndInv, SysInitGenuine
  <1>3. /\ signed = {} /\ sent = <<>> /\ nextAuctionId = 1 /\ now = 0 /\ wall = 0
        /\ exts = [t \in TeeIds |-> E!EmptyExtension] /\ Shown = 0
    BY <1>1 DEF ClientInit, SysInit, Init, Shown
  <1>4. TestFits
    <2>1. test \in TestRecords /\ test.pc = "extension"
      BY DEF ClientInit, NewTest, TestRecords, Before
    <2>. QED
      BY <1>3, <2>1 DEF TestFits, TestProgress, At, Bidding, After
  <1>5. PanelFits
    <2>1. panel \in PanelRecords /\ panel.pc = "idle" /\ panel.acked = NoBid
      BY DEF ClientInit, PanelRecords
    <2>2. SentBy(Visitor) = {}
      BY <1>3 DEF SentBy, BidsSent
    <2>. QED
      BY <2>1, <2>2 DEF PanelFits, PanelProgress
  <1>6. AroundFits
    <2>1. served \in TeeIds /\ faults = 0 /\ MaxTime \in Nat
      BY ClientAssumption, BoundAssumption DEF ClientInit
    <2>2. disturbed \in BOOLEAN
      BY Zenon DEF ClientInit
    <2>3. wall \in now .. (now + 1) /\ wall <= MaxTime
      BY <1>3, <2>1
    <2>. QED
      BY <1>3, <2>1, <2>2, <2>3 DEF AroundFits
  <1>7. SignedTyped /\ LogOfClients
    BY <1>3 DEF SignedTyped, LogOfClients
  <1>8. AnswersTell
    <2>1. \A k \in E!Keys : /\ E!EmptyExtension.cleared[k] = NotCleared
                           /\ \A x \in Accounts : E!EmptyExtension.bids[k][x] = NoBid
      BY DEF E!EmptyExtension
    <2>2. Key(1) \in E!Keys
      BY TheirBids DEF Key, E!Keys
    <2>. QED
      BY <1>3, <2>1, <2>2 DEF AnswersTell
  <1>. QED
    BY <1>2, <1>4, <1>5, <1>6, <1>7, <1>8, InvByActor

\* ClientInv is an invariant of the clients, with those of contract and
\* enclaves.
THEOREM ClientInvariance == ClientSpec => [](IndInv /\ GenuineInv /\ ClientInv)
  BY ClientInitInv, ClientStep, PTL DEF ClientSpec

\* run-test prints "QuietFill end-to-end auction PASSED" only if the dealer
\* bought the lot at the price it sealed for the machine whose key it had
\* read, and nothing of its escrow is left behind.
THEOREM PassedRunsSettled == ClientSpec => []PassedMeansSettled
  <1>1. ClientInv => PassedMeansSettled
    <2> SUFFICES ASSUME ClientInv, At("passed")
                 PROVE  /\ Auction.state = "Settled"
                        /\ Auction.winner = Dealer /\ Auction.clearingPriceWei = BidPrice
                        /\ Auction.teeId = test.tee
                        /\ quoteEscrow[test.auction][Dealer] = 0
      BY DEF PassedMeansSettled
    <2>1. TestFits /\ test.pc = "passed"
      BY InvByActor DEF At
    <2>2. test.auction = 1 /\ auctions[1].teeId = test.tee
      BY <2>1 DEF TestFits, After
    <2>. QED
      BY <2>1, <2>2 DEF TestFits, TestProgress, Auction
  <1>. QED
    BY <1>1, ClientInvariance, PTL

-----------------------------------------------------------------------------
(* The panel's receipt                                                     *)

\* The receipts' invariant is one of the clients too.
LEMMA ClientReceipts ==
  ClientSpec => []ReceiptInv
  <1>1. ClientInit => ReceiptInv
    BY SysInitReceipts DEF ClientInit
  <1>2. IndInv /\ GenuineInv /\ ClientInv /\ ReceiptInv /\ [ClientNext]_clientVars => ReceiptInv'
    <2> SUFFICES ASSUME IndInv, GenuineInv, ClientInv, ReceiptInv, [ClientNext]_clientVars
                 PROVE  ReceiptInv'
      OBVIOUS
    <2>1. WorldStep /\ SignedTyped
      BY StepKeepsWorld DEF ClientInv
    <2>. QED
      BY <2>1, WorldStepReceipts
  <1>. QED
    BY <1>1, <1>2, ClientInvariance, PTL DEF ClientSpec

\* Until its clear is answered, the machines remember all about the auction.
LEMMA Unanswered ==
  ASSUME IndInv, GenuineInv, ReceiptInv, ActionResult(auctions[1].clearInstructionId) = {}
  PROVE  Remembers(1) /\ \A t \in TeeIds : exts[t].cleared[Key(1)] = NotCleared
  <1>1. 1 \in AuctionIds
    BY TheirBids
  <1>2. ASSUME NEW sig \in signed, IsClear(sig), sent[sig.over.instructionId].message.auctionId = 1
        PROVE  FALSE
    <2>1. sig.over.instructionId \in ClearsSent(1)
      BY <1>2 DEF IsClear, ClearsSent, GenuineInv, SysTypeOK
    <2>2. sig.over.instructionId = auctions[1].clearInstructionId
      BY <1>1, <2>1 DEF IndInv, OneClearAfterAllBids
    <2>. QED
      BY <2>2 DEF ActionResult
  <1>3. ~Answered(1)
    BY <1>2 DEF Answered
  <1>. QED
    BY <1>1, <1>3 DEF Remembers, ReceiptInv, RetainedFromDeadline

\* The enclave holds the bid of the last receipt the panel showed, or one
\* submitted after it.
LEMMA ReceiptedBidStands ==
  ASSUME IndInv, GenuineInv, ClientInv, ReceiptInv, panel.acked # NoBid, restarts = 0,
         ActionResult(auctions[1].clearInstructionId) = {}
  PROVE  /\ Pinned(1).bids[Key(1)][Visitor] # NoBid
         /\ Pinned(1).bids[Key(1)][Visitor].commitment.keccakOf \in {panel.acked} \cup panel.later
  <1> DEFINE stored == Pinned(1).bids[Key(1)][Visitor]
             bid == stored.commitment.keccakOf
             receipt == E!BidReceipt(panel.acked)
  <1>1. PanelFits /\ AroundFits /\ LogOfClients /\ AnswersTell
    BY InvByActor
  <1>2. /\ panel.acked \in ClientBids /\ panel.acked.bidder = Visitor /\ Shown = 1
        /\ receipt \in Receipts(1)
        /\ \A i \in SentBy(Visitor) :
             BidOf(i) \in {panel.acked} \cup panel.later \/ BidOf(i).nonce <= panel.acked.nonce
    BY <1>1 DEF PanelFits, PanelRecords, PanelProgress, AroundFits, Shown
  <1>3. /\ receipt.bidder = Visitor /\ receipt.nonce = panel.acked.nonce
        /\ receipt.bidCommitment.keccakOf = panel.acked
    BY <1>2 DEF E!BidReceipt, E!Keccak256
  <1>4. auctions[1].state # "None"
    BY <1>2, ShownExists
  <1>5. auctions[1].teeId \in TeeIds /\ Key(1) \in E!Keys /\ Visitor \in Accounts /\ 1 \in AuctionIds
        /\ Key(1)[2] = 1
    BY <1>4, TheirBids, ClientAssumption DEF IndInv, TermsSound, Key, E!Keys
  <1>6. Held(1, receipt)
    BY <1>2, <1>4, <1>5, Unanswered DEF ReceiptInv, ReceiptsHeld, HeldOrHonoured, Pinned
  <1>7. /\ stored # NoBid /\ panel.acked.nonce <= stored.nonce
        /\ panel.acked.nonce = stored.nonce => bid = panel.acked
    BY <1>3, <1>6 DEF Held
  <1>8. GenuineBid(stored, Visitor, 1, auctions[1].teeId) /\ stored.nonce = bid.nonce
    BY <1>1, <1>5, <1>7 DEF GenuineInv, StoredBidsGenuine, AnswersTell, Pinned
  <1>9. PICK i \in SentBy(Visitor) : BidOf(i) = bid
    BY <1>8 DEF GenuineBid, OwnBids, SentBy, BidOf
  <1>10. bid.nonce \in Nat /\ panel.acked.nonce \in Nat
    BY <1>1, <1>2, <1>9, SentTold, ClientBidFacts
  <1>11. CASE BidOf(i) \in {panel.acked} \cup panel.later
    BY <1>7, <1>9, <1>11
  <1>12. CASE BidOf(i).nonce <= panel.acked.nonce
    <2>1. panel.acked.nonce = stored.nonce
      BY <1>7, <1>8, <1>9, <1>10, <1>12
    <2>. QED
      BY <1>7, <2>1
  <1>. QED
    BY <1>2, <1>11, <1>12

\* The last bid the panel showed a receipt for is the one the enclave holds,
\* or one submitted after it, until the clear is answered and unless the
\* enclave was restarted; however long results are retained.
THEOREM AcknowledgedBidsStand ==
  ClientSpec => []AcknowledgedBidStands
  <1>1. IndInv /\ GenuineInv /\ ClientInv /\ ReceiptInv => AcknowledgedBidStands
    <2> SUFFICES ASSUME IndInv, GenuineInv, ClientInv, ReceiptInv, panel.acked # NoBid, restarts = 0,
                        ActionResult(auctions[panel.acked.auctionId].clearInstructionId) = {}
                 PROVE  LET stored == exts[auctions[panel.acked.auctionId].teeId]
                                        .bids[<<This, panel.acked.auctionId>>][Visitor]
                        IN  /\ stored # NoBid
                            /\ stored.commitment.keccakOf \in {panel.acked} \cup panel.later
      BY DEF AcknowledgedBidStands
    <2>1. panel.acked.auctionId = 1
      BY DEF ClientInv, PanelProgress
    <2>2. /\ Pinned(1).bids[Key(1)][Visitor] # NoBid
          /\ Pinned(1).bids[Key(1)][Visitor].commitment.keccakOf \in {panel.acked} \cup panel.later
      BY <2>1, ReceiptedBidStands
    <2>. QED
      BY <2>1, <2>2 DEF Pinned, Key
  <1>. QED
    BY <1>1, ClientInvariance, ClientReceipts, PTL

-----------------------------------------------------------------------------
(* What the machine answers run-test                                       *)

\* What a machine holds for the auction was sealed by one of the two clients.
LEMMA StoredByClients ==
  ASSUME IndInv, GenuineInv, LogOfClients, NEW t \in TeeIds, NEW x \in Accounts,
         exts[t].bids[Key(1)][x] # NoBid
  PROVE  /\ x \in {Dealer, Visitor}
         /\ \E i \in SentBy(x) : BidOf(i).unitPriceWei = exts[t].bids[Key(1)][x].unitPriceWei
         /\ x = Dealer => exts[t].bids[Key(1)][x].unitPriceWei = BidPrice
  <1> DEFINE stored == exts[t].bids[Key(1)][x]
  <1>1. Key(1) \in E!Keys /\ Key(1)[2] = 1
    BY TheirBids DEF Key, E!Keys
  <1>2. GenuineBid(stored, x, 1, t)
    BY <1>1 DEF GenuineInv, StoredBidsGenuine
  <1> HIDE DEF stored
  <1>3. PICK i \in SentBy(x) : BidOf(i).unitPriceWei = stored.unitPriceWei
    BY <1>2 DEF GenuineBid, OwnBids, SentBy, BidOf
  <1>4. BidOf(i) \in ClientBids /\ BidOf(i).bidder = x
    BY <1>3, SentTold
  <1>5. x \in {Dealer, Visitor}
    BY <1>4, ClientBidFacts
  <1>6. x = Dealer => BidOf(i).unitPriceWei = BidPrice
    <2>1. x = Dealer => BidOf(i) = PrivateBid(Dealer, BidOf(i).auctionId, 1, BidPrice, 1)
      BY <1>4, ClientBidFacts
    <2>2. PrivateBid(Dealer, BidOf(i).auctionId, 1, BidPrice, 1).unitPriceWei = BidPrice
      BY DEF PrivateBid
    <2>. QED
      BY <2>1, <2>2
  <1>. QED
    BY <1>3, <1>5, <1>6 DEF stored

\* The sort puts the dealer first.
LEMMA DealerFirst ==
  ASSUME NEW bids, NEW S, Dealer \in S, S \subseteq {Dealer, Visitor},
         bids[Dealer].unitPriceWei = BidPrice,
         Visitor \in S => /\ bids[Visitor].unitPriceWei \in Nat
                          /\ ~Outbids(bids[Visitor].unitPriceWei)
  PROVE  E!Winner(bids, S) = Dealer
  <1>1. /\ AddressRank[Dealer] \in Nat /\ AddressRank[Visitor] \in Nat
        /\ AddressRank[Dealer] # AddressRank[Visitor] /\ BidPrice \in Nat /\ Dealer # Visitor
    BY ClientAssumption, OrderAssumption, FlagsTyped
  <1>2. Visitor \in S => E!SortsBefore(bids, Dealer, Visitor) /\ ~E!SortsBefore(bids, Visitor, Dealer)
    BY <1>1 DEF Outbids, E!SortsBefore
  <1>3. \A y \in S \ {Dealer} : E!SortsBefore(bids, Dealer, y)
    BY <1>2
  <1>4. \A x \in S : (\A y \in S \ {x} : E!SortsBefore(bids, x, y)) => x = Dealer
    BY <1>1, <1>2
  <1>. QED
    BY <1>3, <1>4 DEF E!Winner

\* So a result computed from its bid and the visitor's is the expected one.
LEMMA DealerWins ==
  ASSUME NEW ext \in Extensions, NEW m,
         m.contractAddr = This, m.auctionId = 1, m.floorPriceWei = Floor, m.ceilingPriceWei = Ceiling,
         ext.bids[Key(1)][Dealer] # NoBid, ext.bids[Key(1)][Dealer].unitPriceWei = BidPrice,
         \A x \in Accounts : ext.bids[Key(1)][x] # NoBid => x \in {Dealer, Visitor},
         ext.bids[Key(1)][Visitor] # NoBid => ~Outbids(ext.bids[Key(1)][Visitor].unitPriceWei)
  PROVE  ExpectedOutcome(E!ClearResult(ext, m))
  <1> DEFINE bids == ext.bids[Key(1)]
             S == E!Eligible(ext, m)
             r == E!ClearResult(ext, m)
  <1>1. E!AuctionKey(m) = Key(1) /\ Key(1) \in E!Keys /\ Dealer \in Accounts
    BY TheirBids, ClientAssumption DEF E!AuctionKey, Key, E!Keys
  <1>2. bids \in [Accounts -> StoredBids \cup {NoBid}]
    BY <1>1 DEF Extensions
  <1>3. S = {x \in Accounts : /\ bids[x] # NoBid
                              /\ bids[x].unitPriceWei >= Floor
                              /\ bids[x].unitPriceWei <= Ceiling}
    BY <1>1 DEF E!Eligible, E!Submitted
  <1>4. /\ r.winner = IF S # {} THEN E!Winner(bids, S) ELSE ZeroAddress
        /\ r.unitPriceWei = IF S # {} THEN bids[E!Winner(bids, S)].unitPriceWei ELSE 0
    BY <1>1 DEF E!ClearResult
  <1> HIDE DEF bids, S, r
  <1>5. Dealer \in S
    BY <1>1, <1>3, FlagsTyped DEF bids
  <1>6. S \subseteq {Dealer, Visitor}
    BY <1>3 DEF bids
  <1>7. Visitor \in S => bids[Visitor].unitPriceWei \in Nat /\ ~Outbids(bids[Visitor].unitPriceWei)
    <2>1. Visitor \in S => Visitor \in Accounts /\ bids[Visitor] \in StoredBids
      BY <1>2, <1>3
    <2>2. Visitor \in S => bids[Visitor].unitPriceWei \in Nat
      BY <2>1 DEF StoredBids
    <2>3. Visitor \in S => ~Outbids(bids[Visitor].unitPriceWei)
      BY <1>3 DEF bids
    <2>. QED
      BY <2>2, <2>3
  <1>8. E!Winner(bids, S) = Dealer
    BY <1>5, <1>6, <1>7, DealerFirst DEF bids
  <1>9. r.winner = Dealer /\ r.unitPriceWei = BidPrice
    BY <1>4, <1>5, <1>8 DEF bids
  <1>. QED
    BY <1>9 DEF ExpectedOutcome, r

\* The handler accepts the dealer's bid at its first delivery.
LEMMA BidIsAnswered ==
  ASSUME IndInv, GenuineInv, ClientInv, ReceiptInv, auctions[1].state = "Open",
         NEW i \in DOMAIN sent, SentBy(Dealer) = {i}, ActionResult(i) = {},
         NEW plaintext \in Plaintexts(i), plaintext # DecryptFailed
  PROVE  Answer(i, plaintext).status = 1
  <1> DEFINE t == sent[i].teeId
             ext == exts[t]
             pruned == E!PruneCleared(ext, now)
             m == sent[i].message
  <1>1. LogOfClients /\ AnswersTell /\ AroundFits
    BY InvByActor
  <1>2. i \in SentBy(Dealer)
    OBVIOUS
  <1>3. /\ sent[i].opCommand = "QF_PRIVATE_BID" /\ m.bidder = Dealer /\ m.auctionId = 1
        /\ m.ciphertext = Encrypt(BidOf(i), t) /\ BidOf(i) \in ClientBids
        /\ BidOf(i).auctionId = 1 /\ BidOf(i).bidder = Dealer
    BY <1>1, <1>2 DEF SentBy, BidsSent, LogOfClients
  <1>4. BidOf(i) = DealerBid
    BY <1>3, ClientBidFacts DEF DealerBid
  <1>5. plaintext = DealerBid /\ m.ciphertext.size = 1
    <2>1. m.ciphertext.recipient = t /\ m.ciphertext.plaintext = DealerBid /\ m.ciphertext.size = 1
      BY <1>3, <1>4 DEF Encrypt
    <2>. QED
      BY <1>3, <2>1 DEF Plaintexts, E!Decryptions
  <1>6. /\ DealerBid \notin {Undecodable, DecryptFailed} /\ DealerBid.contractAddr = This
        /\ DealerBid.auctionId = 1 /\ DealerBid.bidder = Dealer /\ DealerBid.salt # ZeroHash
        /\ DealerBid.nonce = 1 /\ DealerBid.unitPriceWei = BidPrice
    BY <1>3, <1>4, ClientBidFacts DEF DealerBid, PrivateBid
  <1>7. BidPrice \in Nat /\ BidPrice > 0
    <2>1. Floor # 0
      BY <1>1, TheirBids DEF IndInv, TermsSound, EscrowExact, ValidCollar, AroundFits, Shown
    <2>. QED
      BY <2>1, FlagsTyped
  <1>8. This # ZeroAddress /\ Dealer # ZeroAddress /\ Dealer \in Accounts
    BY ClientAssumption, AddressAssumption
  <1>9. E!Acceptable(m, plaintext)
    BY <1>3, <1>5, <1>6, <1>7, <1>8 DEF E!Acceptable, E!ValidBid, E!MatchesEnvelope
  <1>10. E!AuctionKey(plaintext) = Key(1) /\ Key(1) \in E!Keys /\ t \in TeeIds /\ ext \in Extensions
    BY <1>5, <1>6, TheirBids, SentTyped DEF E!AuctionKey, Key, E!Keys, IndInv, GenuineInv, SysTypeOK
  <1>11. ext.cleared[Key(1)] = NotCleared
    <2>1. ClearsSent(1) = {}
      BY TheirBids DEF IndInv, LogSound, OneClearAfterAllBids
    <2>. QED
      BY <1>1, <1>10, <2>1 DEF AnswersTell
  <1>12. ext.bids[Key(1)][Dealer] = NoBid
    <2> SUFFICES ASSUME ext.bids[Key(1)][Dealer] # NoBid PROVE FALSE
      OBVIOUS
    <2>1. PICK receipt \in Receipts(1) : receipt.bidder = Dealer
      BY <1>8, <1>10, TheirBids DEF ReceiptInv, StoredBidsReceipted
    <2>2. PICK sig \in signed : sig.over.data = receipt /\ IsReceipt(sig)
      BY <2>1 DEF Receipts, IsReceipt
    <2> DEFINE j == sig.over.instructionId
    <2>3. j \in DOMAIN sent /\ sent[j].opCommand = "QF_PRIVATE_BID"
          /\ receipt = E!BidReceipt(BidOf(j))
      BY <1>1, <2>2 DEF AnswersTell, GenuineInv, SysTypeOK, IsReceipt
    <2>4. BidOf(j).bidder = Dealer
      BY <2>1, <2>3 DEF E!BidReceipt
    <2>5. sent[j].message.bidder = Dealer
      BY <1>1, <2>3, <2>4 DEF LogOfClients
    <2>6. sent[j].message.auctionId = 1
      BY <1>1, <2>3, SentForAuction DEF AroundFits, IndInv, EscrowExact, AuctionIds
    <2>7. j \in SentBy(Dealer)
      BY <2>3, <2>5, <2>6 DEF SentBy, BidsSent
    <2>. QED
      BY <2>2, <2>7 DEF ActionResult
  <1>13. /\ pruned.cleared[Key(1)] = NotCleared /\ pruned.bids[Key(1)][Dealer] = NoBid
    BY <1>10, <1>11, <1>12, PruneEffect DEF Pruned
  <1>14. E!NonceIncreases(pruned.bids[E!AuctionKey(plaintext)][plaintext.bidder], plaintext)
    BY <1>5, <1>6, <1>10, <1>13 DEF E!NonceIncreases
  <1>15. Answer(i, plaintext) = E!HandlePrivateBid(ext, m, plaintext, now)
    BY <1>3 DEF Answer
  <1> HIDE DEF ext, m
  <1>16. E!HandlePrivateBid(ext, m, plaintext, now).status = 1
    BY <1>9, <1>10, <1>13, <1>14 DEF E!HandlePrivateBid, E!Success
  <1>. QED
    BY <1>15, <1>16

\* The auction's clear request as the handler reads it.
LEMMA ClearRequestRead ==
  ASSUME IndInv, ClientInv, NEW i \in ClearsSent(1)
  PROVE  LET m == sent[i].message IN
         /\ i \in DOMAIN sent /\ sent[i].opCommand = "QF_CLEAR" /\ sent[i].teeId = auctions[1].teeId
         /\ sent[i].teeId \in TeeIds
         /\ m.contractAddr = This /\ m.auctionId = 1
         /\ m.floorPriceWei = Floor /\ m.ceilingPriceWei = Ceiling
         /\ E!ValidClear(m) /\ E!AuctionKey(m) = Key(1)
         /\ auctions[1].state # "None" /\ Shown = 1
  <1> DEFINE m == sent[i].message
  <1>1. i \in DOMAIN sent /\ sent[i].opCommand = "QF_CLEAR" /\ m.auctionId = 1
    BY DEF ClearsSent
  <1>2. sent[i] \in ClearInstructions /\ sent[i].teeId \in TeeIds
    BY <1>1, SentTyped DEF IndInv
  <1>3. m.contractAddr = This
    BY <1>2 DEF ClearInstructions
  <1>4. /\ auctions[1].state # "None" /\ sent[i].teeId = auctions[1].teeId
        /\ m.floorPriceWei = auctions[1].floorPriceWei
        /\ m.ceilingPriceWei = auctions[1].ceilingPriceWei
    BY <1>1, SentForAuction
  <1>5. Shown = 1 /\ auctions[1].floorPriceWei = Floor /\ auctions[1].ceilingPriceWei = Ceiling
    <2>1. AroundFits
      BY InvByActor
    <2>. QED
      BY <1>4, <2>1, TheirBids DEF AroundFits, Shown, IndInv, EscrowExact
  <1>6. Floor # 0
    BY <1>4, <1>5, TheirBids DEF IndInv, TermsSound, ValidCollar
  <1>7. This # ZeroAddress
    BY AddressAssumption
  <1> HIDE DEF m
  <1>8. E!ValidClear(m) /\ E!AuctionKey(m) = Key(1)
    BY <1>1, <1>3, <1>4, <1>5, <1>6, <1>7, FlagsTyped DEF m, E!ValidClear, E!AuctionKey, Key
  <1>. QED
    BY <1>1, <1>2, <1>3, <1>4, <1>5, <1>8 DEF m

\* The handler answers the clear with the dealer's win, unless it computes it
\* again from what was left of the book.
LEMMA ClearIsAnswered ==
  ASSUME IndInv, GenuineInv, ClientInv, ReceiptInv, ClearAnswered, At("result"),
         restarts = 0, E!BidReceipt(DealerBid) \in Receipts(1),
         NEW i \in ClearsSent(1), ~Recomputed(i), NEW plaintext
  PROVE  LET out == Answer(i, plaintext) IN
         /\ out.status = 1 /\ ExpectedOutcome(out.data)
         /\ out.ext.cleared[Key(1)] # NotCleared => ExpectedOutcome(out.ext.cleared[Key(1)].result)
  <1> DEFINE t == sent[i].teeId
             ext == exts[t]
             m == sent[i].message
             pruned == E!PruneCleared(ext, now)
             result == E!ClearResult(pruned, m)
             out == E!HandleClear(ext, m, now)
             receipt == E!BidReceipt(DealerBid)
  <1>1. /\ t = auctions[1].teeId /\ t \in TeeIds /\ sent[i].opCommand = "QF_CLEAR"
        /\ m.contractAddr = This /\ m.auctionId = 1
        /\ m.floorPriceWei = Floor /\ m.ceilingPriceWei = Ceiling
        /\ E!ValidClear(m) /\ E!AuctionKey(m) = Key(1) /\ auctions[1].state # "None"
    BY ClearRequestRead
  <1>2. Answer(i, plaintext) = out
    BY <1>1 DEF Answer
  <1>3. ext \in Extensions /\ Key(1) \in E!Keys /\ 1 \in AuctionIds /\ Dealer \in Accounts
        /\ Visitor \in Accounts /\ LogOfClients
    BY <1>1, TheirBids, ClientAssumption, InvByActor DEF GenuineInv, SysTypeOK, Key, E!Keys
  <1>4. /\ pruned \in Extensions /\ pruned.bids = ext.bids
        /\ pruned.cleared[Key(1)] = Pruned(ext, Key(1), now)
    BY <1>3, PruneEffect
  <1>0. ActionResult(i) = {} => Remembers(1) /\ ext.cleared[Key(1)] = NotCleared
    <2>1. i = auctions[1].clearInstructionId
      BY <1>3 DEF IndInv, OneClearAfterAllBids
    <2>. QED
      BY <1>1, <2>1, Unanswered
  <1>5. pruned.cleared[Key(1)] = ext.cleared[Key(1)]
    <2>1. CASE ActionResult(i) = {}
      BY <1>0, <1>4, <2>1 DEF Pruned
    <2>2. CASE ActionResult(i) # {}
      <3>1. ~(ext.cleared[Key(1)].expiresAt <= now)
        BY <1>1, <2>2 DEF Recomputed
      <3>. QED
        BY <1>4, <3>1 DEF Pruned
    <2>. QED
      BY <2>1, <2>2
  <1>6. ext.cleared[Key(1)] # NotCleared => ExpectedOutcome(ext.cleared[Key(1)].result)
    BY <1>1 DEF ClearAnswered
  <1>7. ASSUME ext.cleared[Key(1)] = NotCleared PROVE ExpectedOutcome(result)
    <2>0. Remembers(1)
      BY <1>0, <1>1, <1>7 DEF Recomputed
    <2>1. Held(1, receipt)
      BY <1>1, <1>3, <1>7, <2>0 DEF ReceiptInv, ReceiptsHeld, HeldOrHonoured, Pinned
    <2>2. receipt.bidder = Dealer
      BY DEF DealerBid, PrivateBid, E!BidReceipt
    <2>3. ext.bids[Key(1)][Dealer] # NoBid
      BY <1>1, <2>1, <2>2 DEF Held, Pinned
    <2>4. ext.bids[Key(1)][Dealer].unitPriceWei = BidPrice
      BY <1>1, <1>3, <2>3, StoredByClients
    <2>5. \A x \in Accounts : ext.bids[Key(1)][x] # NoBid => x \in {Dealer, Visitor}
      BY <1>1, <1>3, StoredByClients
    <2>6. ext.bids[Key(1)][Visitor] # NoBid => ~Outbids(ext.bids[Key(1)][Visitor].unitPriceWei)
      <3>1. ext.bids[Key(1)][Visitor] # NoBid =>
              \E j \in SentBy(Visitor) : BidOf(j).unitPriceWei = ext.bids[Key(1)][Visitor].unitPriceWei
        BY <1>1, <1>3, StoredByClients
      <3> HIDE DEF ext
      <3>. QED
        BY <3>1 DEF ClearAnswered
    <2> HIDE DEF ext, m, pruned
    <2>. QED
      BY <1>1, <1>4, <2>3, <2>4, <2>5, <2>6, DealerWins
  <1>8. CASE ext.cleared[Key(1)] # NotCleared
    <2>1. out = E!Success(pruned.cleared[Key(1)].result, pruned)
      BY <1>1, <1>5, <1>8 DEF E!HandleClear
    <2>2. out.status = 1 /\ out.data = ext.cleared[Key(1)].result
          /\ out.ext.cleared[Key(1)] = ext.cleared[Key(1)]
      BY <1>5, <2>1 DEF E!Success
    <2>. QED
      BY <1>2, <1>6, <1>8, <2>2
  <1>9. CASE ext.cleared[Key(1)] = NotCleared
    <2>1. out = E!Success(result, E!RetainResult(pruned, Key(1), result, now))
      BY <1>1, <1>5, <1>9 DEF E!HandleClear
    <2>2. out.status = 1 /\ out.data = result /\ out.ext = E!RetainResult(pruned, Key(1), result, now)
      BY <2>1 DEF E!Success
    <2> HIDE DEF pruned, result, out
    <2>3. out.ext.cleared[Key(1)] = [result |-> result, expiresAt |-> now + ClearRetention]
      BY <1>3, <1>4, <2>2 DEF E!RetainResult, Extensions
    <2>4. out.ext.cleared[Key(1)].result = result
      BY <2>3
    <2>. QED
      BY <1>2, <1>7, <1>9, <2>2, <2>4
  <1>. QED
    BY <1>8, <1>9

-----------------------------------------------------------------------------
(* Undisturbed                                                             *)

\* The invariants so far, and what holds besides while nothing has disturbed
\* run-test.
AllInv == IndInv /\ GenuineInv /\ ClientInv /\ ReceiptInv
Quiet == InTime /\ BidAnswered /\ ClearAnswered

\* A disturbance is not forgotten.
LEMMA StaysDisturbed ==
  ASSUME [ClientNext]_clientVars, disturbed
  PROVE  disturbed'
  <1>1. CASE TestStep
    BY <1>1 DEF TestStep, ReadExtensionId, SetExtensionIdOnce, ReadTeeInfo, EnsureFunds, Create, Bid,
             PollInVain, PollHangs, ReadReceipt, WaitForDeadline, ClearWithRetry, ReadResult, Settle,
             VerifyFinalState, Mined, Hang, Calm, Fault
  <1>2. CASE PanelStep
    BY <1>2 DEF PanelStep, SubmitBid, AbandonBid, ReadBidReceipt, PressBid, PressRequestClear,
             PressSettle, PressCancel, PressWithdraw, Calm
  <1>3. CASE \/ \E i \in DOMAIN sent :
                  \E plaintext \in Plaintexts(i), tag \in TagsOf(i) : Forward(i, plaintext, tag)
             \/ \E t \in TeeIds : Replace(t)
    BY <1>3 DEF Forward, Replace, Calm, Fault
  <1>4. CASE Elsewhere \/ WallTick \/ Block \/ UNCHANGED clientVars
    BY <1>4 DEF Elsewhere, WallTick, Block, clientVars, Calm, Fault
  <1>. QED
    BY <1>1, <1>2, <1>3, <1>4 DEF ClientNext

\* Calls of the contract leave the answers to the clear alone.
LEMMA CallKeepsClearAnswered ==
  ASSUME GenuineInv, ClearAnswered, UNCHANGED teeVars,
         \/ UNCHANGED sent \/ ClearLogged \/ BidLogged(Dealer, DealerBid)
         \/ BidLogged(Visitor, panel.bid) /\ ~Outbids(panel.bid.unitPriceWei),
         At("result")' => test'.instruction \in ClearsSent(1)',
         At("result")' => \/ At("result")
                          \/ /\ ClearsSent(1) = {}
                             /\ \A t \in TeeIds : exts[t].cleared[Key(1)] = NotCleared
  PROVE  ClearAnswered'
  <1>1. UNCHANGED <<exts, signed>>
    BY DEF teeVars
  <1>2. \A i \in SentBy(Visitor)' : ~Outbids(sent'[i].message.ciphertext.plaintext.unitPriceWei)
    <2>1. \A i \in SentBy(Visitor) : ~Outbids(sent[i].message.ciphertext.plaintext.unitPriceWei)
      BY DEF ClearAnswered, BidOf
    <2>2. CASE UNCHANGED sent
      BY <2>1, <2>2 DEF SentBy, BidsSent
    <2>3. CASE ClearLogged \/ BidLogged(Dealer, DealerBid)
      <3>1. SentBy(Visitor)' = SentBy(Visitor) /\ \A i \in DOMAIN sent : sent'[i] = sent[i]
        BY <2>3, ClientAssumption DEF ClearLogged, BidLogged, Logged
      <3>. QED
        BY <2>1, <3>1 DEF SentBy, BidsSent
    <2>4. CASE BidLogged(Visitor, panel.bid) /\ ~Outbids(panel.bid.unitPriceWei)
      <3>1. /\ SentBy(Visitor)' = SentBy(Visitor) \cup {NewEntry}
            /\ sent'[NewEntry].message.ciphertext.plaintext = panel.bid
            /\ \A i \in DOMAIN sent : sent'[i] = sent[i]
        BY <2>4 DEF BidLogged, Logged
      <3>2. \A i \in SentBy(Visitor) : sent'[i] = sent[i]
        BY <3>1 DEF SentBy, BidsSent
      <3>. QED
        BY <2>1, <2>4, <3>1, <3>2
    <2>. QED
      BY <2>2, <2>3, <2>4
  <1>3. \A sig \in signed : sig.over.instructionId \in ClearsSent(1)' =>
                            sig.over.instructionId \in ClearsSent(1)
    <2>1. \A sig \in signed : sig.over.instructionId \in DOMAIN sent
      BY DEF GenuineInv, SysTypeOK
    <2>2. UNCHANGED sent => ClearsSent(1)' = ClearsSent(1)
      BY DEF ClearsSent
    <2>3. NewEntry \in DOMAIN sent => UNCHANGED sent
      BY DEF ClearLogged, BidLogged, Logged
    <2>4. ClearsSent(1)' \subseteq ClearsSent(1) \cup {NewEntry}
      BY <2>2 DEF ClearLogged, BidLogged
    <2>. QED
      BY <2>1, <2>2, <2>3, <2>4
  <1>4. \A i \in SentBy(Visitor)' : ~Outbids(BidOf(i).unitPriceWei)'
    BY <1>2 DEF BidOf, Outbids
  <1>5. At("result")' => \A t \in TeeIds : exts'[t].cleared[Key(1)] # NotCleared =>
          ExpectedOutcome(exts'[t].cleared[Key(1)].result)
    BY <1>1 DEF ClearAnswered
  <1>6. At("result")' => \A sig \in signed' : sig.over.instructionId \in ClearsSent(1)' =>
          sig.over.status = 1 /\ ExpectedOutcome(sig.over.data)
    BY <1>1, <1>3 DEF ClearAnswered
  <1>. QED
    BY <1>4, <1>5, <1>6 DEF ClearAnswered, ExpectedOutcome, Key

\* run-test's bid, while the others move.
LEMMA BidAnsweredStays ==
  ASSUME GenuineInv, BidAnswered, WorldKept, UNCHANGED test, SentBy(Dealer)' = SentBy(Dealer),
         At("receipt") => \A sig \in signed' \ signed :
                            sig.over.instructionId = test.instruction => sig.over.status = 1
  PROVE  BidAnswered'
  <1>1. Receipts(1) \subseteq Receipts(1)'
    BY ReceiptsGrow DEF WorldKept, GenuineInv
  <1>2. At("receipt")' => /\ SentBy(Dealer)' = {test'.instruction}
                          /\ \A sig \in ActionResult(test.instruction)' : sig.over.status = 1
    BY DEF BidAnswered, ActionResult, At
  <1>3. test.pc \in {"wait", "clear", "result", "settle"} => E!BidReceipt(DealerBid) \in Receipts(1)'
    BY <1>1 DEF BidAnswered
  <1>4. E!BidReceipt(DealerBid)' = E!BidReceipt(DealerBid)
    BY DEF E!BidReceipt, DealerBid, PrivateBid, E!Keccak256
  <1>. QED
    BY <1>2, <1>3, <1>4 DEF BidAnswered

\* run-test's time, while the others move.
LEMMA InTimeStays ==
  ASSUME InTime, UNCHANGED <<test, restarts, nextAuctionId, wall>>,
         At("setId") => extensionId' = extensionId,
         ~Ended => auctions'[1].state = auctions[1].state
  PROVE  InTime'
  <1>1. Shown' = Shown /\ Ended' = Ended
    BY DEF Shown, Ended
  <1>. QED
    BY <1>1 DEF InTime, At, Ended, Bidding

\* The log keeps its clears.
LEMMA ClearsKept ==
  ASSUME LogKept
  PROVE  ClearsSent(1) \subseteq ClearsSent(1)'
  BY DEF LogKept, ClearsSent

\* Undisturbed, the panel only bids lower, or too late to matter.
LEMMA PanelQuiet ==
  ASSUME AllInv, Quiet, WorldKept, PanelStep, ~disturbed'
  PROVE  Quiet'
  <1>1. /\ UNCHANGED <<test, served, wall>> /\ UNCHANGED teeVars /\ UNCHANGED <<exts, signed, restarts>>
    BY DEF PanelStep, teeVars
  <1>2. UNCHANGED <<nextAuctionId, now, extensionId>>
    BY DEF PanelStep, SubmitBid, AbandonBid, ReadBidReceipt, PressBid, PressRequestClear, PressSettle,
           PressCancel, PressWithdraw, SubmitPrivateBid, RequestClear, SettleAuction,
           CancelTimedOutAuction, WithdrawQuote, vars, registryVars
  <1>3. PanelFits /\ AroundFits /\ IndInv /\ GenuineInv /\ ClientInv /\ TestFits
    BY InvByActor DEF AllInv
  <1>4. Shown \in {0, 1}
    BY <1>3 DEF AroundFits, Shown
  <1>5. \/ UNCHANGED sent
        \/ BidLogged(Visitor, panel.bid) /\ ~Outbids(panel.bid.unitPriceWei)
    <2>1. CASE SubmitBid
      <3>1. Shown = 1
        BY <1>3, <1>4, <2>1 DEF SubmitBid, PanelFits
      <3>2. SubmitPrivateBid(Visitor, 1, Encrypt(panel.bid, auctions[1].teeId))
        BY <2>1, <3>1 DEF SubmitBid
      <3>3. ~Outbids(panel.bid.unitPriceWei)
        BY <2>1 DEF SubmitBid
      <3>. QED
        BY <1>3, <3>2, <3>3, BidIsLogged
    <2>2. CASE AbandonBid \/ ReadBidReceipt \/ PressBid \/ PressCancel \/ PressWithdraw
      BY <2>2 DEF AbandonBid, ReadBidReceipt, PressBid, PressCancel, PressWithdraw,
               CancelTimedOutAuction, WithdrawQuote, vars
    <2>. QED
      BY <2>1, <2>2 DEF PanelStep, PressRequestClear, PressSettle
  <1>6. ~Ended => auctions'[1].state = auctions[1].state
    <2>1. CASE PressCancel
      <3>1. Shown = 1 /\ CancelTimedOutAuction(1)
        BY <1>4, <2>1 DEF PressCancel, Free
      <3>2. now > 2 /\ now <= wall /\ now \in Nat /\ wall \in Nat
        BY <1>3, <3>1 DEF CancelTimedOutAuction, AroundFits, IndInv, TypeOK, Times
      <3>3. ~Ended => wall <= 2
        BY <3>1 DEF Quiet, InTime
      <3>. QED
        BY <3>2, <3>3
    <2>2. CASE SubmitBid \/ AbandonBid \/ ReadBidReceipt \/ PressBid \/ PressWithdraw
      BY <2>2 DEF SubmitBid, AbandonBid, ReadBidReceipt, PressBid, PressWithdraw,
               SubmitPrivateBid, WithdrawQuote, vars
    <2>. QED
      BY <2>1, <2>2 DEF PanelStep, PressRequestClear, PressSettle
  <1>7. InTime'
    BY <1>1, <1>2, <1>6, InTimeStays DEF Quiet
  <1>8. SentBy(Dealer)' = SentBy(Dealer)
    <2>1. UNCHANGED sent => SentBy(Dealer)' = SentBy(Dealer)
      BY DEF SentBy, BidsSent
    <2>. QED
      BY <1>5, <2>1, ClientAssumption DEF BidLogged
  <1>9. BidAnswered'
    BY <1>1, <1>3, <1>8, BidAnsweredStays DEF Quiet
  <1>10. At("result")' => test'.instruction \in ClearsSent(1)'
    BY <1>1, ClearsKept DEF WorldKept, Quiet, ClearAnswered, At
  <1>11. ClearAnswered'
    BY <1>1, <1>3, <1>5, <1>10, CallKeepsClearAnswered DEF Quiet, At
  <1>. QED
    BY <1>7, <1>9, <1>11 DEF Quiet

\* The clock and the registry.
LEMMA AroundQuiet ==
  ASSUME AllInv, Quiet, WorldKept, Elsewhere \/ WallTick \/ Block \/ UNCHANGED clientVars, ~disturbed'
  PROVE  Quiet'
  <1>1. /\ UNCHANGED <<test, panel, sent, auctions, nextAuctionId>>
        /\ UNCHANGED teeVars /\ UNCHANGED <<exts, signed, restarts>>
    BY DEF Elsewhere, WallTick, Block, clientVars, sysVars, vars, RegisterExtension,
           SetExtensionId, Tick, teeVars
  <1>2. AroundFits /\ IndInv /\ GenuineInv /\ TestFits
    BY InvByActor DEF AllInv
  <1>3. At("setId") => extensionId' = extensionId
    BY DEF Elsewhere, WallTick, Block, clientVars, sysVars, vars, RegisterExtension,
           SetExtensionId, Tick, registryVars
  <1>4. Shown' = Shown /\ Ended' = Ended
    BY <1>1 DEF Shown, Ended
  <1>5. InTime'
    <2>1. CASE UNCHANGED wall
      BY <1>1, <1>3, <2>1, InTimeStays DEF Quiet
    <2>2. CASE WallTick
      <3>1. /\ wall' = wall + 1 /\ wall \in Nat /\ Shown = 1
        BY <1>2, <2>2 DEF WallTick, AroundFits, IndInv, TypeOK, Times, Shown
      <3>2. ~Overdue(wall')
        BY <2>2 DEF WallTick
      <3>3. ~Ended => test.pc \in Bidding \cup After /\ test.auction = 1
        BY <1>2, <3>1 DEF TestFits, TestRecords, Ended
      <3>4. auctions[1].bidDeadline = 1 /\ auctions[1].settleDeadline = 2
        BY <1>2, <3>1 DEF AroundFits
      <3>5. ~Ended => ~(wall' > 2) /\ ~(At("bid") /\ wall' >= 1)
        BY <3>2, <3>3, <3>4 DEF Overdue, Auction
      <3>6. /\ ~Ended => wall' <= 2
            /\ ~At("bid")
            /\ At("clear") => wall' >= 1
        BY <3>1, <3>5 DEF Quiet, InTime, Ended, At
      <3>. QED
        BY <1>1, <1>3, <1>4, <3>6 DEF Quiet, InTime, At
    <2>. QED
      BY <2>1, <2>2 DEF Elsewhere, Block, clientVars
  <1>6. SentBy(Dealer)' = SentBy(Dealer)
    BY <1>1 DEF SentBy, BidsSent
  <1>7. BidAnswered'
    BY <1>1, <1>2, <1>6, BidAnsweredStays DEF Quiet
  <1>8. At("result")' => test'.instruction \in ClearsSent(1)'
    BY <1>1, ClearsKept DEF WorldKept, Quiet, ClearAnswered, At
  <1>9. ClearAnswered'
    BY <1>1, <1>2, <1>8, CallKeepsClearAnswered DEF Quiet, At
  <1>. QED
    BY <1>5, <1>7, <1>9 DEF Quiet

-----------------------------------------------------------------------------
(* run-test, undisturbed                                                   *)

\* Where a step of run-test leaves it.
Advances ==
  /\ InTime' /\ BidAnswered'
  /\ At("result")' => /\ test'.instruction \in ClearsSent(1)'
                      /\ At("result") \/ auctions[1].state = "Open"

\* The steps up to the listing find what they look for.
LEMMA EarlyQuiet ==
  ASSUME AllInv, Quiet, WorldKept, UNCHANGED teeVars, UNCHANGED wall, ~disturbed',
         ReadExtensionId \/ SetExtensionIdOnce \/ ReadTeeInfo \/ EnsureFunds
  PROVE  Advances
  <1>1. UNCHANGED <<signed, restarts>>
    BY DEF teeVars
  <1>2. UNCHANGED <<nextAuctionId, sent>> /\ TestFits /\ test \in TestRecords
    BY <1>1, EarlyStepFits, InvByActor DEF AllInv, TestFits
  <1>3. test.pc \in Before
    BY DEF ReadExtensionId, SetExtensionIdOnce, ReadTeeInfo, EnsureFunds, At, Before
  <1>4. test.attempts = 0 /\ Shown = 0 /\ SentBy(Dealer) = {} /\ restarts = 0
        /\ (At("setId") => extensionId = 0)
    BY <1>2, <1>3 DEF Quiet, InTime, BidAnswered, TestFits, Before, At
  <1>5. /\ test'.pc \in Before /\ test'.attempts = test.attempts
        /\ test'.pc = "setId" => extensionId' = 0
    <2>1. CASE ReadExtensionId
      <3>1. UNCHANGED extensionId
        BY <2>1 DEF ReadExtensionId, vars, registryVars
      <3>2. \/ test' = Goto("info")
            \/ extensionId = 0 /\ test' = Goto("setId")
        BY <2>1 DEF ReadExtensionId
      <3>. QED
        BY <1>2, <3>1, <3>2, GotoTyped DEF Before
    <2>2. CASE SetExtensionIdOnce
      <3>1. test' = Goto("info")
        BY <1>4, <2>2 DEF SetExtensionIdOnce, Hang
      <3>. QED
        BY <1>2, <3>1, GotoTyped DEF Before
    <2>3. CASE ReadTeeInfo
      <3>1. test' = [Goto("fund") EXCEPT !.tee = served]
        BY <2>3 DEF ReadTeeInfo, Hang
      <3>. QED
        BY <1>2, <3>1 DEF Goto, TestRecords, Before
    <2>4. CASE EnsureFunds
      <3>1. test' = Goto("create")
        BY <2>4 DEF EnsureFunds, Mined
      <3>. QED
        BY <1>2, <3>1, GotoTyped DEF Before
    <2>. QED
      BY <2>1, <2>2, <2>3, <2>4
  <1>6. Shown' = 0 /\ SentBy(Dealer)' = {}
    BY <1>2, <1>4 DEF Shown, SentBy, BidsSent
  <1>7. InTime'
    BY <1>1, <1>4, <1>5, <1>6 DEF InTime, At, Before, Bidding
  <1>8. BidAnswered'
    BY <1>5, <1>6 DEF BidAnswered, At, Before
  <1>. QED
    BY <1>5, <1>7, <1>8 DEF Advances, At, Before

\* The listing.
LEMMA CreateQuiet ==
  ASSUME AllInv, Quiet, WorldKept, UNCHANGED teeVars, UNCHANGED wall, ~disturbed', Create
  PROVE  Advances
  <1>1. UNCHANGED <<signed, restarts>>
    BY DEF teeVars
  <1>2. TestFits /\ AroundFits /\ test \in TestRecords /\ test.pc = "create"
    BY InvByActor DEF AllInv, TestFits, Create, At
  <1>3. /\ test.attempts = 0 /\ Shown = 0 /\ SentBy(Dealer) = {} /\ restarts = 0
        /\ nextAuctionId = 1 /\ wall = 0
    BY <1>2 DEF Quiet, InTime, BidAnswered, TestFits, AroundFits, Before, At, Shown
  <1>4. PICK teeId \in TeeIds :
          /\ CreateAuction(Seller, Lot, Floor, Ceiling, wall + 1, wall + 2, teeId)
          /\ test' = [Goto("bid") EXCEPT !.auction = nextAuctionId]
    BY DEF Create, Mined
  <1>5. auctions'[1].state = "Open" /\ UNCHANGED sent
    <2>1. /\ UNCHANGED sent
          /\ auctions' = [auctions EXCEPT ![1] = ListedAuction(Seller, Lot, Floor, Ceiling, 1, 2, teeId)]
      BY <1>3, <1>4 DEF CreateAuction
    <2>2. auctions'[1] = ListedAuction(Seller, Lot, Floor, Ceiling, 1, 2, teeId)
      BY <2>1, TheirBids DEF AllInv, IndInv, TypeOK
    <2>. QED
      BY <2>1, <2>2 DEF ListedAuction, EmptyAuction
  <1>6. test'.pc = "bid" /\ test'.attempts = 0
    BY <1>2, <1>3, <1>4 DEF Goto, TestRecords
  <1>7. SentBy(Dealer)' = {}
    BY <1>3, <1>5 DEF SentBy, BidsSent
  <1>8. InTime'
    BY <1>1, <1>3, <1>5, <1>6 DEF InTime, At, Before, Bidding
  <1>9. BidAnswered'
    BY <1>6, <1>7 DEF BidAnswered, At, Before
  <1>. QED
    BY <1>6, <1>8, <1>9 DEF Advances, At

\* The bid is sent in time.
LEMMA BidQuiet ==
  ASSUME AllInv, Quiet, WorldKept, UNCHANGED teeVars, UNCHANGED wall, ~disturbed', Bid
  PROVE  Advances
  <1>1. UNCHANGED <<signed, restarts>>
    BY DEF teeVars
  <1>2. /\ TestFits /\ AroundFits /\ IndInv /\ GenuineInv /\ test \in TestRecords /\ test.pc = "bid"
    BY InvByActor DEF AllInv, TestFits, Bid, At
  <1>3. /\ Shown = 1 /\ test.auction = 1 /\ auctions[1].teeId = test.tee
        /\ auctions[1].bidDeadline = 1
    BY <1>2 DEF TestFits, AroundFits, Bidding
  <1>4. /\ wall = 0 /\ now = 0 /\ test.attempts = 0 /\ restarts = 0 /\ auctions[1].state = "Open"
        /\ SentBy(Dealer) = {}
    BY <1>2 DEF Quiet, InTime, BidAnswered, At, AroundFits, IndInv, TypeOK, Times, Bidding
  <1>5. BidWindowOpen(test.auction)
    BY <1>3, <1>4 DEF BidWindowOpen
  <1>6. /\ SubmitPrivateBid(Dealer, 1, Encrypt(DealerBid, auctions[1].teeId))
        /\ test' = [Goto("receipt") EXCEPT !.instruction = NewEntry]
    BY <1>3, <1>5 DEF Bid, Mined, DealerBid, NewEntry
  <1>7. BidLogged(Dealer, DealerBid)
    BY <1>2, <1>6, BidIsLogged
  <1>8. PICK k : k = NewEntry
    OBVIOUS
  <1>9. k \notin DOMAIN sent /\ SentBy(Dealer)' = {k}
    BY <1>4, <1>7, <1>8 DEF BidLogged, Logged
  <1>10. test'.pc = "receipt" /\ test'.attempts = 0 /\ test'.instruction = k
    BY <1>2, <1>4, <1>6, <1>8 DEF Goto, TestRecords
  <1>11. UNCHANGED <<nextAuctionId, now>> /\ auctions'[1].state = "Open"
    BY <1>4, <1>6 DEF SubmitPrivateBid
  <1>12. InTime'
    BY <1>1, <1>4, <1>10, <1>11 DEF InTime, At, Before, Bidding
  <1>13. \A sig \in signed' : sig.over.instructionId # k
    BY <1>1, <1>2, <1>9 DEF GenuineInv, SysTypeOK
  <1>14. BidAnswered'
    BY <1>9, <1>10, <1>13 DEF BidAnswered, At, Before, ActionResult
  <1>. QED
    BY <1>10, <1>12, <1>14 DEF Advances, At

\* Waiting for a receipt or a result, and for the deadline.
LEMMA WaitQuiet ==
  ASSUME AllInv, Quiet, WorldKept, UNCHANGED teeVars, UNCHANGED wall, ~disturbed',
         PollInVain \/ WaitForDeadline
  PROVE  Advances
  <1>1. /\ UNCHANGED <<signed, restarts, sent, auctions, nextAuctionId, extensionId>>
    BY DEF teeVars, PollInVain, WaitForDeadline, vars, registryVars
  <1>2. /\ TestFits /\ AroundFits /\ test \in TestRecords
    BY InvByActor DEF AllInv, TestFits
  <1>3. /\ Shown' = Shown /\ SentBy(Dealer)' = SentBy(Dealer) /\ ClearsSent(1)' = ClearsSent(1)
        /\ Receipts(1)' = Receipts(1) /\ E!BidReceipt(DealerBid)' = E!BidReceipt(DealerBid)
        /\ \A i : ActionResult(i)' = ActionResult(i)
    BY <1>1 DEF Shown, SentBy, BidsSent, ClearsSent, Receipts, ActionResult, E!BidReceipt, DealerBid,
                PrivateBid, E!Keccak256
  <1>4. CASE PollInVain
    <2>1. test' = [test EXCEPT !.polls = NextPoll(test.polls)] /\ test.pc \in {"receipt", "result"}
      BY <1>4 DEF PollInVain
    <2>2. /\ test'.pc = test.pc /\ test'.attempts = test.attempts /\ test'.triedAt = test.triedAt
          /\ test'.instruction = test.instruction
      BY <1>2, <2>1 DEF TestRecords
    <2>3. InTime'
      BY <1>1, <1>3, <2>2 DEF Quiet, InTime, At, Before, Bidding, Ended
    <2>4. BidAnswered'
      BY <1>3, <2>2 DEF Quiet, BidAnswered, At
    <2>. QED
      BY <1>3, <2>2, <2>3, <2>4 DEF Advances, Quiet, ClearAnswered, At
  <1>5. CASE WaitForDeadline
    <2>1. test.pc = "wait" /\ wall >= Auction.bidDeadline /\ test' = Goto("clear")
      BY <1>5 DEF WaitForDeadline, At
    <2>2. test.auction = 1 /\ Shown = 1 /\ auctions[1].bidDeadline = 1
      BY <1>2, <2>1 DEF TestFits, AroundFits, Bidding
    <2>3. wall >= 1
      BY <2>1, <2>2 DEF Auction
    <2>4. /\ test'.pc = "clear" /\ test'.attempts = test.attempts
      BY <1>2, <2>1, GotoTyped DEF Bidding
    <2>5. test.attempts = 0 /\ restarts = 0 /\ wall <= 2 /\ auctions[1].state = "Open"
          /\ E!BidReceipt(DealerBid) \in Receipts(1)
      BY <2>1, <2>2 DEF Quiet, InTime, BidAnswered, At, Ended, Bidding
    <2>6. InTime'
      BY <1>1, <1>3, <2>3, <2>4, <2>5 DEF InTime, At, Before, Bidding, Ended
    <2>7. BidAnswered'
      BY <1>3, <2>4, <2>5 DEF BidAnswered, At, Before
    <2>. QED
      BY <2>4, <2>6, <2>7 DEF Advances, At
  <1>. QED
    BY <1>4, <1>5

\* The receipt is one, and for its bid.
LEMMA ReceiptQuiet ==
  ASSUME AllInv, Quiet, WorldKept, UNCHANGED teeVars, UNCHANGED wall, ~disturbed', ReadReceipt
  PROVE  Advances
  <1>1. /\ UNCHANGED <<signed, restarts, sent, auctions, nextAuctionId>>
    BY DEF teeVars, ReadReceipt, vars
  <1>2. /\ TestFits /\ AnswersTell /\ LogOfClients /\ SysTypeOK /\ test \in TestRecords
        /\ test.pc = "receipt"
    BY InvByActor DEF AllInv, TestFits, ReadReceipt, At, GenuineInv
  <1>3. /\ test.attempts = 0 /\ restarts = 0 /\ auctions[1].state = "Open"
        /\ SentBy(Dealer) = {test.instruction}
        /\ \A sig \in ActionResult(test.instruction) : sig.over.status = 1
        /\ Shown = 1 => wall <= 2
    BY <1>2 DEF Quiet, InTime, BidAnswered, At, Ended, Bidding
  <1>4. PICK sig \in ActionResult(test.instruction) :
          test' = IF sig.over.status = 1 /\ sig.over.data.bidder = Dealer
                  THEN [Goto("wait") EXCEPT !.polls = 0] ELSE Failed
    BY DEF ReadReceipt
  <1>5. sig \in signed /\ sig.over.status = 1 /\ sig.over.instructionId = test.instruction
    BY <1>3 DEF ActionResult
  <1>6. test.instruction \in SentBy(Dealer)
    BY <1>3
  <1>7. /\ BidOf(test.instruction) \in ClientBids /\ BidOf(test.instruction).auctionId = 1
        /\ BidOf(test.instruction).bidder = Dealer
        /\ sent[test.instruction].opCommand = "QF_PRIVATE_BID"
    BY <1>2, <1>6, SentTold DEF SentBy, BidsSent
  <1>8. BidOf(test.instruction) = DealerBid
    BY <1>7, ClientBidFacts DEF DealerBid
  <1>9. sig.over.data = E!BidReceipt(DealerBid)
    BY <1>2, <1>5, <1>7, <1>8 DEF AnswersTell, IsReceipt
  <1>10. /\ sig.over.data.bidder = Dealer /\ sig.over.data.contractAddr = This
         /\ sig.over.data.auctionId = 1
    BY <1>9 DEF E!BidReceipt, DealerBid, PrivateBid
  <1>11. E!BidReceipt(DealerBid) \in Receipts(1)
    BY <1>5, <1>7, <1>9, <1>10 DEF Receipts
  <1>12. test' = [Goto("wait") EXCEPT !.polls = 0]
    BY <1>4, <1>5, <1>10
  <1>13. test'.pc = "wait" /\ test'.attempts = 0
    BY <1>2, <1>3, <1>12 DEF Goto, TestRecords
  <1>14. /\ Shown' = Shown /\ Receipts(1)' = Receipts(1)
         /\ E!BidReceipt(DealerBid)' = E!BidReceipt(DealerBid)
    BY <1>1 DEF Shown, Receipts, E!BidReceipt, DealerBid, PrivateBid, E!Keccak256
  <1>15. InTime'
    BY <1>1, <1>3, <1>13, <1>14 DEF InTime, At, Before, Bidding, Ended
  <1>16. BidAnswered'
    BY <1>11, <1>13, <1>14 DEF BidAnswered, At, Before
  <1>. QED
    BY <1>13, <1>15, <1>16 DEF Advances, At

\* The clear succeeds at the first or the second attempt.
LEMMA ClearQuiet ==
  ASSUME AllInv, Quiet, WorldKept, UNCHANGED teeVars, UNCHANGED wall, ~disturbed', ClearWithRetry
  PROVE  Advances
  <1>1. /\ UNCHANGED <<signed, restarts>> /\ UNCHANGED nextAuctionId
    BY DEF teeVars, ClearWithRetry, RequestClear, vars
  <1>2. /\ TestFits /\ AroundFits /\ IndInv /\ GenuineInv /\ test \in TestRecords
        /\ test.pc = "clear" /\ now \in Nat
    BY InvByActor DEF AllInv, TestFits, ClearWithRetry, At, IndInv, TypeOK, Times
  <1>3. /\ Shown = 1 /\ test.auction = 1
        /\ auctions[1].bidDeadline = 1 /\ auctions[1].settleDeadline = 2
    BY <1>2 DEF TestFits, AroundFits, Bidding
  <1>4. /\ wall \in 1 .. 2 /\ now <= wall /\ restarts = 0 /\ auctions[1].state = "Open"
        /\ test.attempts # 0 => test.triedAt = 0
        /\ E!BidReceipt(DealerBid) \in Receipts(1)
    BY <1>2, <1>3 DEF Quiet, InTime, BidAnswered, At, AroundFits, Ended, Bidding
  <1>5. test.attempts # 0 => now > 0
    BY <1>4 DEF ClearWithRetry
  <1>6. Receipts(1) \subseteq Receipts(1)' /\ Shown' = Shown
        /\ E!BidReceipt(DealerBid)' = E!BidReceipt(DealerBid)
    BY <1>1, <1>2, ReceiptsGrow DEF WorldKept, GenuineInv, Shown, E!BidReceipt, DealerBid, PrivateBid,
                                    E!Keccak256
  <1>7. CASE now = 0
    <2>1. ~ClearWindowOpen(test.auction) /\ ~ClearWindowOpen(1)
      BY <1>3, <1>7 DEF ClearWindowOpen
    <2>2. /\ test' = AnotherAttempt(now < Auction.bidDeadline) /\ UNCHANGED auctions
      BY <2>1 DEF ClearWithRetry, RequestClear, vars
    <2>3. (now < Auction.bidDeadline) = TRUE
      BY <1>3, <1>7 DEF Auction
    <2>4. test.attempts = 0
      BY <1>2, <1>5, <1>7
    <2>5. test' = Attempted(1, 0)
      <3> DEFINE early == now < Auction.bidDeadline
      <3>1. early
        BY <2>3
      <3>2. test' = AnotherAttempt(early) /\ early
        BY <2>2, <3>1
      <3> HIDE DEF early
      <3>3. test.attempts + 1 = 1 /\ (IF early THEN now ELSE -1) = 0
        BY <1>7, <2>4, <3>2
      <3>4. ClearAttempts # 1
        BY DEF ClearAttempts
      <3>. QED
        BY <3>2, <3>3, <3>4 DEF AnotherAttempt, Attempted
    <2>6. test'.pc = "clear" /\ test'.attempts = 1 /\ test'.triedAt = 0
      BY <1>2, <2>5, AttemptTyped
    <2>7. InTime'
      BY <1>1, <1>4, <1>6, <2>2, <2>6 DEF InTime, At, Before, Bidding, Ended
    <2>8. BidAnswered'
      BY <1>4, <1>6, <2>6 DEF BidAnswered, At, Before
    <2>. QED
      BY <2>6, <2>7, <2>8 DEF Advances, At
  <1>8. CASE now # 0
    <2>1. ClearWindowOpen(1) /\ Auction.state = "Open"
      BY <1>2, <1>3, <1>4, <1>8 DEF ClearWindowOpen, Auction
    <2>2. RequestClear(1) /\ test' = [Goto("result") EXCEPT !.instruction = NewEntry]
      BY <1>3, <2>1 DEF ClearWithRetry, NewEntry
    <2>3. PICK k : k = NewEntry
      OBVIOUS
    <2>4. k \in ClearsSent(1)'
      BY <1>2, <2>2, <2>3, ClearIsLogged DEF ClearLogged
    <2>5. test'.pc = "result" /\ test'.instruction = k
      BY <1>2, <2>2, <2>3 DEF Goto, TestRecords
    <2>6. auctions'[1].state = "ClearRequested"
      BY <1>2, <2>2, TheirBids DEF RequestClear, IndInv, TypeOK, AuctionType
    <2>7. InTime'
      BY <1>1, <1>4, <1>6, <2>5, <2>6 DEF InTime, At, Before, Bidding, Ended
    <2>8. BidAnswered'
      BY <1>4, <1>6, <2>5 DEF BidAnswered, At, Before
    <2>. QED
      BY <1>4, <2>4, <2>5, <2>7, <2>8 DEF Advances, At
  <1>. QED
    BY <1>7, <1>8

\* The result is the expected one, in time to settle with it.
LEMMA LastQuiet ==
  ASSUME AllInv, Quiet, WorldKept, UNCHANGED teeVars, UNCHANGED wall, ~disturbed',
         ReadResult \/ Settle \/ VerifyFinalState
  PROVE  Advances
  <1>1. UNCHANGED <<signed, restarts, sent, nextAuctionId>>
    BY DEF teeVars, ReadResult, Settle, VerifyFinalState, SettleAuction, vars
  <1>2. /\ TestFits /\ AroundFits /\ test \in TestRecords /\ now \in Nat
    BY InvByActor DEF AllInv, TestFits, IndInv, TypeOK, Times
  <1>3. Shown = 1 /\ test.auction = 1 /\ auctions[1].settleDeadline = 2
    BY <1>2 DEF TestFits, AroundFits, ReadResult, Settle, VerifyFinalState, At, After
  <1>4. wall <= 2 /\ now <= 2 /\ restarts = 0
    BY <1>2, <1>3 DEF Quiet, InTime, AroundFits, ReadResult, Settle, VerifyFinalState, At, Ended
  <1>5. /\ Shown' = Shown /\ Receipts(1)' = Receipts(1)
        /\ E!BidReceipt(DealerBid)' = E!BidReceipt(DealerBid)
    BY <1>1 DEF Shown, Receipts, E!BidReceipt, DealerBid, PrivateBid, E!Keccak256
  <1>6. CASE ReadResult
    <2>1. /\ test.pc = "result" /\ auctions[1].state = "ClearRequested" /\ UNCHANGED auctions
          /\ E!BidReceipt(DealerBid) \in Receipts(1)
      BY <1>6 DEF ReadResult, At, Quiet, InTime, BidAnswered, vars
    <2>2. PICK sig \in ActionResult(test.instruction) :
            /\ test' = IF /\ sig.over.status = 1 /\ sig.over.submissionTag = "threshold"
                          /\ ExpectedOutcome(sig.over.data)
                       THEN [Goto("settle") EXCEPT !.response = sig] ELSE Failed
            /\ disturbed' = (disturbed \/ sig.over.submissionTag # "threshold")
      BY <1>6 DEF ReadResult
    <2>3. /\ sig.over.status = 1 /\ sig.over.submissionTag = "threshold"
          /\ ExpectedOutcome(sig.over.data)
      BY <2>1, <2>2 DEF Quiet, ClearAnswered, At, ActionResult
    <2>4. test'.pc = "settle"
      BY <1>2, <2>2, <2>3 DEF Goto, TestRecords
    <2>5. InTime'
      BY <1>1, <1>4, <1>5, <2>1, <2>4 DEF InTime, At, Before, Bidding, Ended
    <2>6. BidAnswered'
      BY <1>5, <2>1, <2>4 DEF BidAnswered, At, Before
    <2>. QED
      BY <2>4, <2>5, <2>6 DEF Advances, At
  <1>7. CASE Settle \/ VerifyFinalState
    <2>1. test' \in {Goto("verify"), Goto("passed")}
      <3>1. CASE Settle
        <4>1. Auction.state = "ClearRequested" /\ now <= Auction.settleDeadline
          BY <1>3, <1>4, <3>1 DEF Settle, At, Quiet, InTime, Auction
        <4>. QED
          BY <3>1, <4>1 DEF Settle, Mined
      <3>2. CASE VerifyFinalState
        <4>1. Auction.state = "Settled"
          BY <1>2, <1>3, <3>2 DEF VerifyFinalState, At, TestFits, TestProgress, Auction
        <4>. QED
          BY <3>2, <4>1 DEF VerifyFinalState
      <3>. QED
        BY <1>7, <3>1, <3>2
    <2>2. test'.pc \in {"verify", "passed"}
      BY <1>2, <2>1, GotoTyped DEF After
    <2>3. InTime'
      BY <1>1, <1>4, <1>5, <2>2 DEF InTime, At, Before, Bidding, Ended
    <2>4. BidAnswered'
      BY <2>2 DEF BidAnswered, At, Before
    <2>. QED
      BY <2>2, <2>3, <2>4 DEF Advances, At
  <1>. QED
    BY <1>6, <1>7

\* Undisturbed, run-test is where it should be after each of its steps.
LEMMA TestQuiet ==
  ASSUME AllInv, Quiet, WorldKept, TestStep, ~disturbed'
  PROVE  Quiet'
  <1>1. UNCHANGED teeVars /\ UNCHANGED wall
    BY DEF TestStep
  <1>2. Advances
    BY <1>1, EarlyQuiet, CreateQuiet, BidQuiet, WaitQuiet, ReceiptQuiet, ClearQuiet, LastQuiet
       DEF TestStep, PollHangs, Hang
  <1>3. UNCHANGED sent \/ ClearLogged \/ BidLogged(Dealer, DealerBid)
    BY TestLogs DEF AllInv
  <1>5. auctions[1].state = "Open" =>
          ClearsSent(1) = {} /\ \A t \in TeeIds : exts[t].cleared[Key(1)] = NotCleared
    <2>1. auctions[1].state = "Open" => ClearsSent(1) = {}
      BY TheirBids DEF AllInv, IndInv, LogSound, OneClearAfterAllBids
    <2>. QED
      BY <2>1 DEF AllInv, ClientInv, AnswersTell
  <1>4. ClearAnswered'
    BY <1>1, <1>2, <1>3, <1>5, CallKeepsClearAnswered DEF AllInv, Quiet, Advances
  <1>. QED
    BY <1>2, <1>4 DEF Quiet, Advances

-----------------------------------------------------------------------------
(* The machine, undisturbed                                                *)

\* What the machines retain and have signed after a delivery.
ClearStaysAnswered ==
  /\ \A t \in TeeIds : exts'[t].cleared[Key(1)] # NotCleared =>
       ExpectedOutcome(exts'[t].cleared[Key(1)].result)
  /\ \A sig \in signed' : sig.over.instructionId \in ClearsSent(1) =>
       sig.over.status = 1 /\ ExpectedOutcome(sig.over.data)

\* A delivered bid: run-test's own is accepted, and no bid makes a result.
LEMMA ForwardBidQuiet ==
  ASSUME AllInv, Quiet, NEW i \in DOMAIN sent, sent[i].opCommand = "QF_PRIVATE_BID",
         NEW plaintext \in Plaintexts(i), NEW tag, Forward(i, plaintext, tag), ~disturbed'
  PROVE  /\ At("receipt") => \A sig \in signed' \ signed :
              sig.over.instructionId = test.instruction => sig.over.status = 1
         /\ At("result") => ClearStaysAnswered
  <1>1. Deliver(i, plaintext, tag) /\ IndInv /\ GenuineInv /\ SysTypeOK /\ ClientInv /\ ReceiptInv
    BY DEF Forward, AllInv, GenuineInv
  <1>2. PICK new : new = SignedResult(i, Answer(i, plaintext), tag)
    OBVIOUS
  <1>3. /\ signed' = signed \cup {new} /\ new.over.instructionId = i
        /\ new.over.status = Answer(i, plaintext).status
    BY <1>1, <1>2 DEF Deliver, SignedResult
  <1>4. ASSUME At("receipt"), i = test.instruction PROVE Answer(i, plaintext).status = 1
    <2>1. plaintext # DecryptFailed /\ ActionResult(i) = {}
      BY <1>4 DEF Forward, Upsets
    <2>2. SentBy(Dealer) = {i} /\ auctions[1].state = "Open"
      BY <1>4 DEF Quiet, BidAnswered, InTime, At, Bidding
    <2>. QED
      BY <1>1, <2>1, <2>2, BidIsAnswered
  <1>5. PICK sig : BidDelivered(i, sig)
    BY <1>1, DeliverBid
  <1>6. Key(1) \in E!Keys
    BY TheirBids DEF Key, E!Keys
  <1>7. \A t \in TeeIds : exts'[t].cleared[Key(1)] # NotCleared =>
          exts'[t].cleared[Key(1)] = exts[t].cleared[Key(1)]
    <2>1. \A t \in TeeIds \ {sent[i].teeId} : exts'[t] = exts[t]
      BY <1>5 DEF BidDelivered, DeliveryAt
    <2>2. exts'[sent[i].teeId].cleared[Key(1)]
            \in {exts[sent[i].teeId].cleared[Key(1)], Pruned(exts[sent[i].teeId], Key(1), now)}
      BY <1>5, <1>6 DEF BidDelivered, PrunedOnly
    <2>3. Pruned(exts[sent[i].teeId], Key(1), now) \in {exts[sent[i].teeId].cleared[Key(1)], NotCleared}
      BY DEF Pruned
    <2>. QED
      BY <2>1, <2>2, <2>3
  <1>8. i \notin ClearsSent(1)
    BY DEF ClearsSent
  <1>9. At("result") => \A t \in TeeIds : exts'[t].cleared[Key(1)] # NotCleared =>
          ExpectedOutcome(exts'[t].cleared[Key(1)].result)
    BY <1>7 DEF Quiet, ClearAnswered
  <1>10. At("result") => \A o \in signed' : o.over.instructionId \in ClearsSent(1) =>
          o.over.status = 1 /\ ExpectedOutcome(o.over.data)
    BY <1>3, <1>8 DEF Quiet, ClearAnswered
  <1>. QED
    BY <1>3, <1>4, <1>9, <1>10 DEF ClearStaysAnswered

\* A delivered clear: run-test's bid has its receipt by then, so it wins.
LEMMA ForwardClearQuiet ==
  ASSUME AllInv, Quiet, NEW i \in DOMAIN sent, sent[i].opCommand = "QF_CLEAR",
         NEW plaintext \in Plaintexts(i), NEW tag, Forward(i, plaintext, tag), ~disturbed'
  PROVE  /\ At("receipt") => \A sig \in signed' \ signed :
              sig.over.instructionId = test.instruction => sig.over.status = 1
         /\ At("result") => ClearStaysAnswered
  <1>1. /\ Deliver(i, plaintext, tag) /\ IndInv /\ GenuineInv /\ SysTypeOK /\ ClientInv /\ ReceiptInv
        /\ auctions[sent[i].message.auctionId].state \in LiveStates
    BY DEF Forward, AllInv, GenuineInv
  <1>2. TestFits /\ AroundFits
    BY <1>1, InvByActor
  <1>3. sent[i].message.auctionId = 1
    BY <1>1, <1>2, SentForAuction DEF AroundFits, IndInv, EscrowExact, AuctionIds
  <1>4. i \in ClearsSent(1)
    BY <1>3 DEF ClearsSent
  <1>5. Shown = 1 /\ sent[i].teeId \in TeeIds
    BY <1>1, <1>4, ClearRequestRead
  <1>6. auctions[1].state # "Open" /\ auctions[1].state # "Settled"
    <2>1. auctions[1].state # "Open"
      BY <1>1, <1>4, TheirBids DEF IndInv, LogSound, OneClearAfterAllBids
    <2>. QED
      BY <1>1, <1>3, <2>1 DEF LiveStates
  <1>7. test.pc \in {"result", "settle"}
    <2>1. test.pc \in Before \cup Bidding \cup After /\ test.pc \notin Before
      BY <1>2, <1>5 DEF TestFits, TestRecords, Quiet, InTime, At
    <2>2. test.pc \notin Bidding /\ test.pc \notin {"verify", "passed"}
      BY <1>2, <1>6 DEF Quiet, InTime, TestFits, TestProgress
    <2>. QED
      BY <2>1, <2>2 DEF After
  <1>8. E!BidReceipt(DealerBid) \in Receipts(1) /\ restarts = 0 /\ ClearAnswered /\ ~At("receipt")
    BY <1>7 DEF Quiet, BidAnswered, InTime, At
  <1>9. PICK out : out = Answer(i, plaintext)
    OBVIOUS
  <1>10. /\ exts' = [exts EXCEPT ![sent[i].teeId] = out.ext]
         /\ signed' = signed \cup {SignedResult(i, out, tag)}
    BY <1>1, <1>9 DEF Deliver
  <1>11. PICK new : new = SignedResult(i, out, tag)
    OBVIOUS
  <1>12. ASSUME At("result") PROVE ClearStaysAnswered
    <2>1. test.instruction = i
      <3>1. test.instruction \in ClearsSent(1)
        BY <1>8, <1>12 DEF ClearAnswered
      <3>. QED
        BY <1>1, <1>4, <3>1, TheirBids DEF IndInv, OneClearAfterAllBids
    <2>2. ~Recomputed(i)
      BY <1>12, <2>1 DEF Forward, Upsets
    <2>3. /\ out.status = 1 /\ ExpectedOutcome(out.data)
          /\ out.ext.cleared[Key(1)] # NotCleared => ExpectedOutcome(out.ext.cleared[Key(1)].result)
      BY <1>1, <1>4, <1>8, <1>9, <1>12, <2>2, ClearIsAnswered
    <2>4. new.over.status = 1 /\ ExpectedOutcome(new.over.data)
      BY <1>11, <2>3 DEF SignedResult
    <2>5. \A t \in TeeIds : exts'[t].cleared[Key(1)] # NotCleared =>
            ExpectedOutcome(exts'[t].cleared[Key(1)].result)
      BY <1>1, <1>8, <1>10, <1>12, <2>3 DEF ClearAnswered, SysTypeOK
    <2>6. \A o \in signed' : o.over.instructionId \in ClearsSent(1) =>
            o.over.status = 1 /\ ExpectedOutcome(o.over.data)
      BY <1>8, <1>10, <1>11, <1>12, <2>4 DEF ClearAnswered
    <2>. QED
      BY <2>5, <2>6 DEF ClearStaysAnswered
  <1>. QED
    BY <1>8, <1>12

\* Undisturbed, the machine answers run-test as it should.
LEMMA ForwardQuiet ==
  ASSUME AllInv, Quiet, WorldKept, NEW i \in DOMAIN sent,
         NEW plaintext \in Plaintexts(i), NEW tag \in TagsOf(i), Forward(i, plaintext, tag), ~disturbed'
  PROVE  Quiet'
  <1>1. /\ UNCHANGED <<test, panel, served, wall, restarts, sent, auctions, nextAuctionId, extensionId>>
    BY DEF Forward, Deliver, vars, registryVars
  <1>2. sent[i].opCommand \in {"QF_PRIVATE_BID", "QF_CLEAR"}
    BY SentTyped DEF AllInv, IndInv
  <1>3. /\ At("receipt") => \A sig \in signed' \ signed :
              sig.over.instructionId = test.instruction => sig.over.status = 1
        /\ At("result") => ClearStaysAnswered
    <2>1. CASE sent[i].opCommand = "QF_PRIVATE_BID"
      BY <2>1, ForwardBidQuiet
    <2>2. CASE sent[i].opCommand = "QF_CLEAR"
      BY <2>2, ForwardClearQuiet
    <2>. QED
      BY <1>2, <2>1, <2>2
  <1>4. InTime'
    BY <1>1, InTimeStays DEF Quiet
  <1>5. SentBy(Dealer)' = SentBy(Dealer) /\ SentBy(Visitor)' = SentBy(Visitor)
        /\ ClearsSent(1)' = ClearsSent(1) /\ \A j : BidOf(j)' = BidOf(j)
    BY <1>1 DEF SentBy, BidsSent, ClearsSent, BidOf
  <1>6. BidAnswered'
    BY <1>1, <1>3, <1>5, BidAnsweredStays DEF Quiet, AllInv
  <1>7. \A j \in SentBy(Visitor)' : ~Outbids(BidOf(j).unitPriceWei)'
    BY <1>1, <1>5 DEF Quiet, ClearAnswered, Outbids, BidOf
  <1>8. At("result")' => test'.instruction \in ClearsSent(1)'
    BY <1>1, <1>5 DEF Quiet, ClearAnswered, At
  <1>9. ClearAnswered'
    BY <1>1, <1>3, <1>5, <1>7, <1>8 DEF ClearAnswered, ClearStaysAnswered, ExpectedOutcome, Key, At
  <1>. QED
    BY <1>4, <1>6, <1>9 DEF Quiet

\* Every step but a disturbing one.
LEMMA StepQuiet ==
  ASSUME AllInv, Undisturbed, [ClientNext]_clientVars
  PROVE  Undisturbed'
  <1> SUFFICES ASSUME ~disturbed' PROVE Quiet'
    BY DEF Undisturbed, Quiet
  <1>1. Quiet
    BY StaysDisturbed DEF Undisturbed, Quiet
  <1>2. WorldKept
    BY StepKeepsWorld DEF AllInv
  <1>3. CASE TestStep
    BY <1>1, <1>2, <1>3, TestQuiet
  <1>4. CASE PanelStep
    BY <1>1, <1>2, <1>4, PanelQuiet
  <1>5. CASE Elsewhere \/ WallTick \/ Block \/ UNCHANGED clientVars
    BY <1>1, <1>2, <1>5, AroundQuiet
  <1>6. ASSUME NEW i \in DOMAIN sent, NEW plaintext \in Plaintexts(i), NEW tag \in TagsOf(i),
               Forward(i, plaintext, tag)
        PROVE  Quiet'
    BY <1>1, <1>2, <1>6, ForwardQuiet
  <1>7. ASSUME NEW t \in TeeIds, Replace(t) PROVE FALSE
    BY <1>7 DEF Replace
  <1>. QED
    BY <1>3, <1>4, <1>5, <1>6, <1>7 DEF ClientNext

\* run-test starts undisturbed.
LEMMA ClientInitQuiet == ClientInit => Undisturbed
  <1> SUFFICES ASSUME ClientInit PROVE Quiet
    BY DEF Undisturbed, Quiet
  <1>1. /\ nextAuctionId = 1 /\ sent = <<>> /\ signed = {} /\ restarts = 0
        /\ exts = [t \in TeeIds |-> E!EmptyExtension] /\ test = NewTest
    BY DEF ClientInit, SysInit, Init
  <1>2. DOMAIN sent = {} /\ Shown = 0
    BY <1>1 DEF Shown
  <1>3. test.pc = "extension" /\ test.attempts = 0
    BY <1>1 DEF NewTest
  <1>4. BidsSent(1) = {} /\ SentBy(Dealer) = {} /\ SentBy(Visitor) = {}
    BY <1>2 DEF BidsSent, SentBy
  <1>5. InTime
    BY <1>1, <1>2, <1>3 DEF InTime, At, Before, Bidding
  <1>6. BidAnswered
    BY <1>3, <1>4 DEF BidAnswered, At
  <1>7. \A t \in TeeIds : exts[t].cleared[Key(1)] = NotCleared
    BY <1>1, TheirBids DEF E!EmptyExtension, Key, E!Keys
  <1>8. ClearAnswered
    BY <1>1, <1>3, <1>4, <1>7 DEF ClearAnswered, At
  <1>. QED
    BY <1>5, <1>6, <1>8 DEF Quiet

\* run-test fails only if something disturbed it: block time behind its
\* clock, results that come late, a losing competing bid, an extension id
\* already set, and a clear delivered again or under another tag never make it
\* fail by themselves, whatever the tags, the retention and the bounds.
THEOREM FailuresAreDisturbances ==
  ClientSpec => []FailsOnlyIfDisturbed
  <1>1. ClientInit => Undisturbed
    BY ClientInitQuiet
  <1>2. IndInv /\ GenuineInv /\ ClientInv /\ ReceiptInv /\ Undisturbed /\ [ClientNext]_clientVars
          => Undisturbed'
    BY StepQuiet DEF AllInv
  <1>3. Undisturbed => FailsOnlyIfDisturbed
    BY DEF Undisturbed, InTime, FailsOnlyIfDisturbed, At
  <1>4. ClientSpec => []ReceiptInv
    BY ClientReceipts
  <1>. QED
    BY <1>1, <1>2, <1>3, <1>4, ClientInvariance, PTL DEF ClientSpec
=============================================================================
