----------------------- MODULE QuietFillAuctionProofs ----------------------
(***************************************************************************)
(* Proofs about QuietFillAuction for every set of accounts and machines,   *)
(* every scale and component bound, any number of auctions and any inputs: *)
(* its arithmetic, its invariants, what a step may never do, and that it   *)
(* implements AtomicExchange.                                              *)
(***************************************************************************)
EXTENDS QuietFillAuction, SetLemmas

-----------------------------------------------------------------------------
(* The price arithmetic of Pricing, for every scale                        *)

\* Euclidean division by the scale, in the form the other proofs use.
LEMMA DivisionByScale ==
  ASSUME NEW n \in Nat
  PROVE  /\ n \div PRICE_SCALE \in Nat
         /\ (n \div PRICE_SCALE) * PRICE_SCALE <= n
         /\ n < (n \div PRICE_SCALE) * PRICE_SCALE + PRICE_SCALE
  BY ScaleAssumption, Z3

\* A product of naturals is a natural and grows with either factor.
LEMMA ProductMonotone ==
  ASSUME NEW b \in Nat, NEW p \in Nat, NEW q \in Nat, p <= q
  PROVE  b * p \in Nat /\ b * q \in Nat /\ b * p <= b * q
  OBVIOUS

\* _quoteFor returns a natural.
LEMMA QuoteForNat ==
  ASSUME NEW b \in Nat, NEW p \in Nat
  PROVE  QuoteFor(b, p) \in Nat
  <1>1. b * p \in Nat
    BY ProductMonotone
  <1>2. CASE b * p = 0
    BY <1>2 DEF QuoteFor
  <1>3. CASE b * p # 0
    <2>1. (b * p) - 1 \in Nat
      BY <1>1, <1>3
    <2>2. ((b * p) - 1) \div PRICE_SCALE \in Nat
      BY <2>1, DivisionByScale
    <2>. QED
      BY <1>3, <2>2 DEF QuoteFor
  <1>. QED
    BY <1>2, <1>3

\* The quote is the exact price rounded up: it covers the exact price, and
\* one unit less would not.
THEOREM QuoteForRoundsUp ==
  ASSUME NEW b \in Nat, NEW p \in Nat, b * p # 0
  PROVE  /\ b * p <= QuoteFor(b, p) * PRICE_SCALE
         /\ (QuoteFor(b, p) - 1) * PRICE_SCALE < b * p
         /\ QuoteFor(b, p) > 0
  <1> DEFINE n == (b * p) - 1
             k == n \div PRICE_SCALE
  <1>1. n \in Nat
    BY ProductMonotone
  <1>2. k \in Nat /\ k * PRICE_SCALE <= n /\ n < k * PRICE_SCALE + PRICE_SCALE
    BY <1>1, DivisionByScale
  <1>3. QuoteFor(b, p) = k + 1
    BY DEF QuoteFor
  <1>4. b * p = n + 1
    BY ProductMonotone
  <1> HIDE DEF n, k
  <1>5. (k + 1) * PRICE_SCALE = k * PRICE_SCALE + PRICE_SCALE
    BY <1>2, ScaleAssumption
  <1>6. k * PRICE_SCALE \in Nat
    BY <1>2, ScaleAssumption
  <1>7. n + 1 <= (k + 1) * PRICE_SCALE
    BY <1>1, <1>2, <1>5, <1>6, ScaleAssumption
  <1>8. ((k + 1) - 1) * PRICE_SCALE < n + 1
    <2>1. (k + 1) - 1 = k
      BY <1>2
    <2>. QED
      BY <1>1, <1>2, <1>6, <2>1
  <1>. QED
    BY <1>2, <1>3, <1>4, <1>7, <1>8

\* A higher unit price never costs less.
THEOREM QuoteForMonotone ==
  ASSUME NEW b \in Nat, NEW p \in Nat, NEW q \in Nat, p <= q
  PROVE  QuoteFor(b, p) <= QuoteFor(b, q)
  <1>1. b * p \in Nat /\ b * q \in Nat /\ b * p <= b * q
    BY ProductMonotone
  <1>2. QuoteFor(b, p) \in Nat /\ QuoteFor(b, q) \in Nat
    BY QuoteForNat
  <1>3. CASE b * p = 0
    BY <1>2, <1>3 DEF QuoteFor
  <1>4. CASE b * p # 0
    <2>1. b * q # 0
      BY <1>1, <1>4
    <2> DEFINE x == QuoteFor(b, p)
               y == QuoteFor(b, q)
    <2>2. (x - 1) * PRICE_SCALE < b * p
      BY <1>4, QuoteForRoundsUp
    <2>3. b * q <= y * PRICE_SCALE
      BY <2>1, QuoteForRoundsUp
    <2>4. x \in Nat /\ y \in Nat
      BY <1>2
    <2> HIDE DEF x, y
    <2>5. (x - 1) * PRICE_SCALE \in Int /\ y * PRICE_SCALE \in Int
      BY <2>4, ScaleAssumption
    <2>6. (x - 1) * PRICE_SCALE < y * PRICE_SCALE
      BY <1>1, <2>2, <2>3, <2>5
    <2>7. x - 1 < y
      <3> SUFFICES ASSUME y <= x - 1 PROVE FALSE
        BY <2>4
      <3>1. y * PRICE_SCALE <= (x - 1) * PRICE_SCALE
        BY <2>4, ScaleAssumption
      <3>. QED
        BY <2>5, <2>6, <3>1
    <2>8. x <= y
      BY <2>4, <2>7
    <2>. QED
      BY <2>8 DEF x, y
  <1>. QED
    BY <1>3, <1>4

-----------------------------------------------------------------------------
(* Token transfers                                                         *)

\* A transfer that the token accepts keeps balances natural.
LEMMA TransferType ==
  ASSUME NEW b \in [Tokens -> [Holders -> Nat]],
         NEW token \in Tokens, NEW from \in Holders, NEW to \in Holders,
         NEW amount \in Nat, CanTransfer(b, token, from, to, amount)
  PROVE  Transferred(b, token, from, to, amount) \in [Tokens -> [Holders -> Nat]]
  BY DEF Transferred, CanTransfer

\* What a transfer out of, or into, the contract does to its own balance.
LEMMA TransferOut ==
  ASSUME NEW b \in [Tokens -> [Holders -> Nat]],
         NEW token \in Tokens, NEW x \in Accounts, NEW amount \in Nat
  PROVE  \A t \in Tokens : Transferred(b, token, This, x, amount)[t][This] =
           IF t = token THEN b[t][This] - amount ELSE b[t][This]
  BY AddressAssumption DEF Transferred, Holders

\* What a transfer to the contract adds to its balances.
LEMMA TransferIn ==
  ASSUME NEW b \in [Tokens -> [Holders -> Nat]],
         NEW token \in Tokens, NEW x \in Accounts, NEW amount \in Nat
  PROVE  \A t \in Tokens : Transferred(b, token, x, This, amount)[t][This] =
           IF t = token THEN b[t][This] + amount ELSE b[t][This]
  BY AddressAssumption DEF Transferred, Holders

-----------------------------------------------------------------------------
(* The invariant holds initially and is kept by every action               *)

\* The invariant holds when the contract is deployed.
LEMMA InitIndInv == Init => IndInv
  <1> SUFFICES ASSUME Init PROVE IndInv
    OBVIOUS
  <1> USE DEF Init
  <1>1. TypeOK
    BY BoundAssumption, AddressAssumption
    DEF TypeOK, Times, AuctionIds, EmptyAuction, AuctionType, States, Holders, Tokens
  <1>2. EscrowExact
    BY BoundAssumption DEF EscrowExact, EmptyAuction, AuctionIds
  <1>3. TermsSound
    BY DEF TermsSound, EmptyAuction
  <1>4. EscrowHasBid
    BY DEF EscrowHasBid
  <1>5. LogSound
    BY DEF LogSound, EmptyAuction, BidsSent
  <1>6. WinnerHasBid
    BY DEF WinnerHasBid, EmptyAuction
  <1>7. OneClearAfterAllBids
    BY DEF OneClearAfterAllBids, EmptyAuction, BidsSent, ClearsSent
  <1>. QED
    BY <1>1, <1>2, <1>3, <1>4, <1>5, <1>6, <1>7 DEF IndInv

\* Steps that leave auctions, escrows, balances and the log alone.
LEMMA QuietSteps ==
  ASSUME IndInv,
         UNCHANGED <<nextAuctionId, auctions, quoteEscrow, bal, sent>>,
         now' \in Times, extensionId' \in Nat,
         extensionSenders' \in Seq({This, ForeignSender})
  PROVE  IndInv'
  <1>1. TypeOK'
    BY DEF IndInv, TypeOK
  <1>2. EscrowExact' /\ TermsSound'
    BY DEF IndInv, EscrowExact, TermsSound
  <1>3. EscrowHasBid' /\ LogSound' /\ WinnerHasBid'
    BY DEF IndInv, EscrowHasBid, LogSound, WinnerHasBid, BidsSent
  <1>4. OneClearAfterAllBids'
    BY DEF IndInv, OneClearAfterAllBids, BidsSent, ClearsSent
  <1>. QED
    BY <1>1, <1>2, <1>3, <1>4 DEF IndInv

\* The passing of time keeps the invariant.
LEMMA TickInv == IndInv /\ Tick => IndInv'
  <1> SUFFICES ASSUME IndInv, Tick PROVE IndInv'
    OBVIOUS
  <1>1. now' \in Times
    BY BoundAssumption DEF IndInv, TypeOK, Tick, Times
  <1>2. extensionId' \in Nat /\ extensionSenders' \in Seq({This, ForeignSender})
    BY DEF IndInv, TypeOK, Tick, registryVars
  <1>. QED
    BY <1>1, <1>2, QuietSteps DEF Tick

\* A registration in the registry keeps the invariant.
LEMMA RegisterExtensionInv ==
  ASSUME IndInv, NEW sender \in {This, ForeignSender}, RegisterExtension(sender)
  PROVE  IndInv'
  <1>1. extensionSenders' \in Seq({This, ForeignSender})
    BY DEF IndInv, TypeOK, RegisterExtension
  <1>2. now' \in Times /\ extensionId' \in Nat
    BY DEF IndInv, TypeOK, RegisterExtension
  <1>. QED
    BY <1>1, <1>2, QuietSteps DEF RegisterExtension

\* setExtensionId keeps the invariant.
LEMMA SetExtensionIdInv == IndInv /\ SetExtensionId => IndInv'
  <1> SUFFICES ASSUME IndInv, SetExtensionId PROVE IndInv'
    OBVIOUS
  <1>1. PICK first \in DOMAIN extensionSenders :
          extensionId' = FIRST_PUBLIC_EXTENSION_ID + first - 1
    BY DEF SetExtensionId
  <1>2. first \in Nat \ {0}
    BY DEF IndInv, TypeOK
  <1>3. extensionId' \in Nat
    BY <1>1, <1>2, BoundAssumption
  <1>4. now' \in Times /\ extensionSenders' \in Seq({This, ForeignSender})
    BY DEF IndInv, TypeOK, SetExtensionId
  <1>. QED
    BY <1>3, <1>4, QuietSteps DEF SetExtensionId

\* createAuction keeps the invariant: its checks give TermsSound.
LEMMA CreateAuctionInv ==
  ASSUME IndInv,
         NEW caller \in Accounts, NEW base \in BaseAmounts,
         NEW floor \in PricesWei, NEW ceiling \in PricesWei,
         NEW bidDeadline \in Deadlines, NEW settleDeadline \in Deadlines,
         NEW teeId \in TeeIds,
         CreateAuction(caller, base, floor, ceiling, bidDeadline, settleDeadline, teeId)
  PROVE  IndInv'
  <1> DEFINE n == nextAuctionId
             new == auctions'[n]
  <1>1. base \in Nat /\ floor \in Nat /\ ceiling \in Nat
        /\ bidDeadline \in Times /\ settleDeadline \in Times
    BY InputAssumption
  <1>2. QuoteFor(base, ceiling) \in Nat
    BY <1>1, QuoteForNat
  <1>3. /\ n \in AuctionIds
        /\ nextAuctionId' = n + 1
        /\ auctions \in [AuctionIds -> AuctionType]
        /\ auctions[n].state = "None"
        /\ UNCHANGED <<now, extensionSenders, extensionId, quoteEscrow, sent>>
    BY DEF IndInv, TypeOK, EscrowExact, CreateAuction, AuctionIds, registryVars, AuctionType, States
  <1>4. /\ new.seller = caller /\ new.teeId = teeId
        /\ new.baseAmount = base /\ new.floorPriceWei = floor /\ new.ceilingPriceWei = ceiling
        /\ new.maxQuoteAmount = QuoteFor(base, ceiling)
        /\ new.clearInstructionId = 0
        /\ new.state = "Open"
    BY <1>3 DEF CreateAuction, ListedAuction, EmptyAuction
  <1>5. new \in AuctionType
    BY <1>1, <1>2, <1>3, BoundAssumption DEF CreateAuction, ListedAuction, EmptyAuction, AuctionType, States, Times
  <1>6. \A a \in AuctionIds : a # n => auctions'[a] = auctions[a]
    BY <1>3 DEF CreateAuction
  <1>7. auctions' \in [AuctionIds -> AuctionType]
    BY <1>3, <1>5, <1>6 DEF CreateAuction, ListedAuction
  <1>8. bal' \in [Tokens -> [Holders -> Nat]]
    BY <1>1, TransferType DEF IndInv, TypeOK, CreateAuction, Tokens, Holders
  <1>9. TypeOK'
    BY <1>3, <1>7, <1>8, BoundAssumption DEF IndInv, TypeOK, AuctionIds
  <1>10. base # 0 /\ floor # 0 /\ ceiling >= floor /\ ValidComponents(base, floor, ceiling)
    BY DEF CreateAuction, ValidCollar
  <1>11. QuoteFor(base, ceiling) > 0
    <2>1. base * ceiling # 0
      BY <1>1, <1>10
    <2>. QED
      BY <1>1, <2>1, QuoteForRoundsUp
  <1> HIDE DEF n, new
  <1>12. EscrowExact'
    <2> SUFFICES ASSUME NEW a \in AuctionIds
                 PROVE  /\ auctions'[a].state # "None" <=> a < nextAuctionId'
                        /\ auctions'[a].state # "None" => auctions'[a].maxQuoteAmount > 0
                        /\ \A x \in Accounts :
                             /\ quoteEscrow[a][x] \in {0, auctions'[a].maxQuoteAmount}
                             /\ auctions'[a].state = "None" => quoteEscrow[a][x] = 0
      BY <1>3 DEF EscrowExact
    <2>1. CASE a = n
      BY <2>1, <1>3, <1>4, <1>11 DEF IndInv, EscrowExact, new, AuctionIds
    <2>2. CASE a # n
      BY <2>2, <1>3, <1>6, BoundAssumption DEF IndInv, EscrowExact, AuctionIds, n
    <2>. QED
      BY <2>1, <2>2
  <1>13. TermsSound'
    BY <1>3, <1>4, <1>6, <1>10 DEF IndInv, TermsSound, new, ValidCollar
  <1>14. EscrowHasBid' /\ LogSound'
    BY <1>3, <1>4, <1>6 DEF IndInv, EscrowHasBid, LogSound, BidsSent, new
  <1>15. WinnerHasBid'
    BY <1>3, <1>4, <1>6 DEF IndInv, WinnerHasBid, BidsSent, new
  <1>16. OneClearAfterAllBids'
    <2> SUFFICES ASSUME NEW a \in AuctionIds
                 PROVE  /\ \A i \in BidsSent(a) \cup ClearsSent(a) : sent[i].teeId = auctions'[a].teeId
                        /\ ClearsSent(a) = {auctions'[a].clearInstructionId} \ {0}
                        /\ \A i \in ClearsSent(a) :
                             /\ sent[i].message.floorPriceWei = auctions'[a].floorPriceWei
                             /\ sent[i].message.ceilingPriceWei = auctions'[a].ceilingPriceWei
                             /\ \A j \in BidsSent(a) : j < i
      BY <1>3 DEF OneClearAfterAllBids, BidsSent, ClearsSent
    <2>1. CASE a = n
      <3>1. BidsSent(a) = {} /\ ClearsSent(a) = {}
        BY <2>1, <1>3 DEF IndInv, LogSound, OneClearAfterAllBids
      <3>. QED
        BY <2>1, <3>1, <1>4 DEF new
    <2>2. CASE a # n
      BY <2>2, <1>6 DEF IndInv, OneClearAfterAllBids
    <2>. QED
      BY <2>1, <2>2
  <1>. QED
    BY <1>9, <1>12, <1>13, <1>14, <1>15, <1>16 DEF IndInv

\* What _sendInstruction does to the log, and to an auction's part of it.
LEMMA LogAppend ==
  ASSUME TypeOK, NEW teeId, NEW command, NEW message,
         SendInstruction(teeId, command, message)
  PROVE  /\ Len(sent) + 1 \in Nat \ {0}
         /\ Len(sent) + 1 \notin DOMAIN sent
         /\ DOMAIN sent' = DOMAIN sent \cup {Len(sent) + 1}
         /\ \A i \in DOMAIN sent : i \in Nat \ {0} /\ i < Len(sent) + 1 /\ sent'[i] = sent[i]
         /\ sent'[Len(sent) + 1] =
              [teeId |-> teeId, opCommand |-> command, message |-> message]
  BY DEF TypeOK, SendInstruction

\* A private bid appends one bid to the log and no clear.
LEMMA BidAppend ==
  ASSUME TypeOK, NEW teeId, NEW message, NEW a,
         SendInstruction(teeId, "QF_PRIVATE_BID", message)
  PROVE  /\ BidsSent(a)' = IF message.auctionId = a THEN BidsSent(a) \cup {Len(sent) + 1}
                                                    ELSE BidsSent(a)
         /\ ClearsSent(a)' = ClearsSent(a)
  <1> DEFINE k == Len(sent) + 1
  <1>1. /\ k \notin DOMAIN sent
        /\ DOMAIN sent' = DOMAIN sent \cup {k}
        /\ \A i \in DOMAIN sent : sent'[i] = sent[i]
        /\ sent'[k] = [teeId |-> teeId, opCommand |-> "QF_PRIVATE_BID", message |-> message]
    BY LogAppend
  <1> HIDE DEF k
  <1>2. sent'[k].opCommand = "QF_PRIVATE_BID" /\ sent'[k].message = message
    BY <1>1
  <1>3. BidsSent(a)' = IF message.auctionId = a THEN BidsSent(a) \cup {k} ELSE BidsSent(a)
    BY <1>1, <1>2 DEF BidsSent
  <1>4. ClearsSent(a)' = ClearsSent(a)
    BY <1>1, <1>2 DEF ClearsSent
  <1>. QED
    BY <1>3, <1>4 DEF k

\* A clear request appends one clear to the log and no bid.
LEMMA ClearAppend ==
  ASSUME TypeOK, NEW teeId, NEW message, NEW a,
         SendInstruction(teeId, "QF_CLEAR", message)
  PROVE  /\ ClearsSent(a)' = IF message.auctionId = a THEN ClearsSent(a) \cup {Len(sent) + 1}
                                                      ELSE ClearsSent(a)
         /\ BidsSent(a)' = BidsSent(a)
  <1> DEFINE k == Len(sent) + 1
  <1>1. /\ k \notin DOMAIN sent
        /\ DOMAIN sent' = DOMAIN sent \cup {k}
        /\ \A i \in DOMAIN sent : sent'[i] = sent[i]
        /\ sent'[k] = [teeId |-> teeId, opCommand |-> "QF_CLEAR", message |-> message]
    BY LogAppend
  <1> HIDE DEF k
  <1>2. sent'[k].opCommand = "QF_CLEAR" /\ sent'[k].message = message
    BY <1>1
  <1>3. ClearsSent(a)' = IF message.auctionId = a THEN ClearsSent(a) \cup {k} ELSE ClearsSent(a)
    BY <1>1, <1>2 DEF ClearsSent
  <1>4. BidsSent(a)' = BidsSent(a)
    BY <1>1, <1>2 DEF BidsSent
  <1>. QED
    BY <1>3, <1>4 DEF k

\* submitPrivateBid keeps the invariant.
LEMMA SubmitPrivateBidInv ==
  ASSUME IndInv, NEW caller \in Accounts, NEW b \in AuctionIds, NEW c \in Ciphertexts,
         SubmitPrivateBid(caller, b, c)
  PROVE  IndInv'
  <1> DEFINE k == Len(sent) + 1
             max == auctions[b].maxQuoteAmount
  <1>1. /\ TypeOK /\ auctions[b] \in AuctionType /\ auctions[b].state = "Open"
        /\ UNCHANGED <<now, extensionSenders, extensionId, nextAuctionId, auctions>>
    BY DEF IndInv, TypeOK, SubmitPrivateBid, registryVars
  <1>2. auctions[b].teeId \in TeeIds /\ max \in Nat
    BY <1>1 DEF IndInv, TermsSound, AuctionType
  <1>3. SendInstruction(auctions[b].teeId, "QF_PRIVATE_BID", BidEnvelope(caller, b, c))
    BY DEF SubmitPrivateBid
  <1>4. BidEnvelope(caller, b, c).auctionId = b /\ BidEnvelope(caller, b, c).bidder = caller
    BY DEF BidEnvelope
  <1>5. /\ k \notin DOMAIN sent /\ DOMAIN sent' = DOMAIN sent \cup {k}
        /\ \A i \in DOMAIN sent : i < k /\ sent'[i] = sent[i]
        /\ sent'[k].teeId = auctions[b].teeId
        /\ sent'[k].message = BidEnvelope(caller, b, c)
    <2>1. /\ k \in Nat \ {0} /\ k \notin DOMAIN sent /\ DOMAIN sent' = DOMAIN sent \cup {k}
          /\ \A i \in DOMAIN sent : i < k /\ sent'[i] = sent[i]
          /\ sent'[k] = [teeId |-> auctions[b].teeId, opCommand |-> "QF_PRIVATE_BID",
                         message |-> BidEnvelope(caller, b, c)]
      BY <1>1, <1>3 DEF TypeOK, SendInstruction
    <2>. QED
      BY <2>1
  <1>6. /\ \A a \in AuctionIds : ClearsSent(a)' = ClearsSent(a)
        /\ \A a \in AuctionIds \ {b} : BidsSent(a)' = BidsSent(a)
        /\ BidsSent(b)' = BidsSent(b) \cup {k}
    BY <1>1, <1>3, <1>4, BidAppend
  <1>7. \A a \in AuctionIds : BidsSent(a) \subseteq DOMAIN sent /\ ClearsSent(a) \subseteq DOMAIN sent
    BY DEF BidsSent, ClearsSent
  <1>8. sent' \in Seq(BidInstructions \cup ClearInstructions)
    <2>1. [teeId |-> auctions[b].teeId, opCommand |-> "QF_PRIVATE_BID",
           message |-> BidEnvelope(caller, b, c)] \in BidInstructions
      BY <1>2 DEF BidInstructions, BidEnvelope
    <2>. QED
      BY <1>1, <1>3, <2>1 DEF TypeOK, SendInstruction
  <1>9. /\ quoteEscrow' \in [AuctionIds -> [Accounts -> Nat]]
        /\ bal' \in [Tokens -> [Holders -> Nat]]
        /\ \A a \in AuctionIds, x \in Accounts :
             quoteEscrow'[a][x] = IF a = b /\ x = caller /\ quoteEscrow[a][x] = 0
                                  THEN max ELSE quoteEscrow[a][x]
    <2>0. EscrowCeiling(caller, b)
      BY DEF SubmitPrivateBid
    <2>1. CASE quoteEscrow[b][caller] = 0
      <3>1. /\ CanTransfer(bal, QUOTE_TOKEN, caller, This, max)
            /\ quoteEscrow' = [quoteEscrow EXCEPT ![b][caller] = max]
            /\ bal' = Transferred(bal, QUOTE_TOKEN, caller, This, max)
        BY <2>0, <2>1 DEF EscrowCeiling
      <3>2. bal' \in [Tokens -> [Holders -> Nat]]
        BY <1>1, <1>2, <3>1, TransferType DEF TypeOK, Tokens, Holders
      <3>. QED
        BY <1>1, <1>2, <2>1, <3>1, <3>2 DEF TypeOK
    <2>2. CASE quoteEscrow[b][caller] # 0
      BY <1>1, <2>0, <2>2 DEF TypeOK, EscrowCeiling
    <2>. QED
      BY <2>1, <2>2
  <1> HIDE DEF k, max
  <1>10. TypeOK'
    BY <1>1, <1>8, <1>9 DEF TypeOK
  <1>11. EscrowExact'
    BY <1>1, <1>9 DEF IndInv, EscrowExact, max
  <1>12. TermsSound'
    BY <1>1 DEF IndInv, TermsSound
  <1>13. EscrowHasBid'
    BY <1>4, <1>5, <1>6, <1>7, <1>9 DEF IndInv, EscrowHasBid
  <1>14. LogSound'
    BY <1>1, <1>6 DEF IndInv, LogSound
  <1>15. WinnerHasBid'
    BY <1>1, <1>5, <1>6, <1>7 DEF IndInv, WinnerHasBid
  <1>16. OneClearAfterAllBids'
    <2>1. ClearsSent(b) = {}
      BY <1>1 DEF IndInv, LogSound, OneClearAfterAllBids
    <2>. QED
      BY <2>1, <1>1, <1>5, <1>6, <1>7 DEF IndInv, OneClearAfterAllBids
  <1>. QED
    BY <1>10, <1>11, <1>12, <1>13, <1>14, <1>15, <1>16 DEF IndInv

\* requestClear keeps the invariant.
LEMMA RequestClearInv ==
  ASSUME IndInv, NEW b \in AuctionIds, RequestClear(b)
  PROVE  IndInv'
  <1> DEFINE k == Len(sent) + 1
  <1>1. /\ TypeOK /\ auctions[b] \in AuctionType /\ auctions[b].state = "Open"
        /\ UNCHANGED <<now, extensionSenders, extensionId, nextAuctionId, quoteEscrow, bal>>
    BY DEF IndInv, TypeOK, RequestClear, registryVars
  <1>2. auctions[b].teeId \in TeeIds
    BY <1>1 DEF IndInv, TermsSound
  <1>3. SendInstruction(auctions[b].teeId, "QF_CLEAR", ClearMessage(b))
    BY DEF RequestClear
  <1>4. /\ ClearMessage(b).auctionId = b
        /\ ClearMessage(b).floorPriceWei = auctions[b].floorPriceWei
        /\ ClearMessage(b).ceilingPriceWei = auctions[b].ceilingPriceWei
    BY DEF ClearMessage
  <1>5. /\ k \in Nat \ {0} /\ k \notin DOMAIN sent /\ DOMAIN sent' = DOMAIN sent \cup {k}
        /\ \A i \in DOMAIN sent : i < k /\ sent'[i] = sent[i]
        /\ sent'[k].teeId = auctions[b].teeId
        /\ sent'[k].message = ClearMessage(b)
    <2>1. /\ k \in Nat \ {0} /\ k \notin DOMAIN sent /\ DOMAIN sent' = DOMAIN sent \cup {k}
          /\ \A i \in DOMAIN sent : i < k /\ sent'[i] = sent[i]
          /\ sent'[k] = [teeId |-> auctions[b].teeId, opCommand |-> "QF_CLEAR",
                         message |-> ClearMessage(b)]
      BY <1>1, <1>3 DEF TypeOK, SendInstruction
    <2>. QED
      BY <2>1
  <1>6. /\ \A a \in AuctionIds : BidsSent(a)' = BidsSent(a)
        /\ \A a \in AuctionIds \ {b} : ClearsSent(a)' = ClearsSent(a)
        /\ ClearsSent(b)' = ClearsSent(b) \cup {k}
    BY <1>1, <1>3, <1>4, ClearAppend
  <1>7. \A a \in AuctionIds : BidsSent(a) \subseteq DOMAIN sent /\ ClearsSent(a) \subseteq DOMAIN sent
    BY DEF BidsSent, ClearsSent
  <1>8. sent' \in Seq(BidInstructions \cup ClearInstructions)
    <2>1. [teeId |-> auctions[b].teeId, opCommand |-> "QF_CLEAR",
           message |-> ClearMessage(b)] \in ClearInstructions
      BY <1>1, <1>2 DEF ClearInstructions, ClearMessage, AuctionType
    <2>. QED
      BY <1>1, <1>3, <2>1 DEF TypeOK, SendInstruction
  <1>9. /\ auctions' \in [AuctionIds -> AuctionType]
        /\ \A a \in AuctionIds \ {b} : auctions'[a] = auctions[a]
        /\ auctions'[b].state = "ClearRequested"
        /\ auctions'[b].clearInstructionId = k
        /\ \A f \in {"seller", "teeId", "baseAmount", "floorPriceWei", "ceilingPriceWei",
                     "maxQuoteAmount"} : auctions'[b][f] = auctions[b][f]
    BY <1>1, <1>5 DEF TypeOK, RequestClear, AuctionType, States
  <1> HIDE DEF k
  <1>10. TypeOK'
    BY <1>1, <1>8, <1>9 DEF TypeOK
  <1>11. EscrowExact'
    BY <1>1, <1>9 DEF IndInv, EscrowExact
  <1>12. TermsSound'
    BY <1>1, <1>9 DEF IndInv, TermsSound
  <1>13. EscrowHasBid'
    BY <1>1, <1>5, <1>6, <1>7 DEF IndInv, EscrowHasBid
  <1>14. LogSound'
    BY <1>1, <1>6, <1>9 DEF IndInv, LogSound
  <1>15. WinnerHasBid'
    BY <1>5, <1>6, <1>7, <1>9 DEF IndInv, WinnerHasBid
  <1>16. OneClearAfterAllBids'
    <2>1. ClearsSent(b) = {}
      BY <1>1 DEF IndInv, LogSound, OneClearAfterAllBids
    <2> SUFFICES ASSUME NEW a \in AuctionIds
                 PROVE  /\ \A i \in BidsSent(a)' \cup ClearsSent(a)' : sent'[i].teeId = auctions'[a].teeId
                        /\ ClearsSent(a)' = {auctions'[a].clearInstructionId} \ {0}
                        /\ \A i \in ClearsSent(a)' :
                             /\ sent'[i].message.floorPriceWei = auctions'[a].floorPriceWei
                             /\ sent'[i].message.ceilingPriceWei = auctions'[a].ceilingPriceWei
                             /\ \A j \in BidsSent(a)' : j < i
      BY DEF OneClearAfterAllBids
    <2>2. CASE a = b
      BY <2>1, <2>2, <1>4, <1>5, <1>6, <1>7, <1>9 DEF IndInv, OneClearAfterAllBids
    <2>3. CASE a # b
      BY <2>3, <1>5, <1>6, <1>7, <1>9 DEF IndInv, OneClearAfterAllBids
    <2>. QED
      BY <2>2, <2>3
  <1>. QED
    BY <1>10, <1>11, <1>12, <1>13, <1>14, <1>15, <1>16 DEF IndInv

\* Steps that end an auction or pay out an escrow of an ended one: its terms
\* and the log stay, escrows only vanish, a winner had an escrow.
LEMMA OutcomeSteps ==
  ASSUME IndInv, NEW b \in AuctionIds, auctions[b].state # "None",
         UNCHANGED <<now, extensionSenders, extensionId, nextAuctionId, sent>>,
         auctions' \in [AuctionIds -> AuctionType],
         bal' \in [Tokens -> [Holders -> Nat]],
         quoteEscrow' \in [AuctionIds -> [Accounts -> Nat]],
         \A a \in AuctionIds \ {b} : auctions'[a] = auctions[a],
         \A f \in {"seller", "teeId", "baseAmount", "floorPriceWei", "ceilingPriceWei",
                   "maxQuoteAmount", "clearInstructionId"} : auctions'[b][f] = auctions[b][f],
         auctions'[b].state \in TerminalStates,
         \A a \in AuctionIds, x \in Accounts : quoteEscrow'[a][x] \in {0, quoteEscrow[a][x]},
         \/ auctions'[b] = auctions[b]
         \/ auctions'[b].state = "Settled" =>
              /\ auctions'[b].winner \in Accounts
              /\ quoteEscrow[b][auctions'[b].winner] # 0
  PROVE  IndInv'
  <1>1. TypeOK'
    BY DEF IndInv, TypeOK
  <1>2. EscrowExact'
    <2> SUFFICES ASSUME NEW a \in AuctionIds
                 PROVE  /\ auctions'[a].state # "None" <=> a < nextAuctionId
                        /\ auctions'[a].state # "None" => auctions'[a].maxQuoteAmount > 0
                        /\ \A x \in Accounts :
                             /\ quoteEscrow'[a][x] \in {0, auctions'[a].maxQuoteAmount}
                             /\ auctions'[a].state = "None" => quoteEscrow'[a][x] = 0
      BY DEF EscrowExact
    <2>1. auctions'[a].maxQuoteAmount = auctions[a].maxQuoteAmount
      OBVIOUS
    <2>2. auctions'[a].state = "None" <=> auctions[a].state = "None"
      BY DEF TerminalStates
    <2>. QED
      <3>1. /\ auctions[a].state # "None" <=> a < nextAuctionId
            /\ auctions[a].state # "None" => auctions[a].maxQuoteAmount > 0
            /\ \A x \in Accounts :
                 /\ quoteEscrow[a][x] \in {0, auctions[a].maxQuoteAmount}
                 /\ auctions[a].state = "None" => quoteEscrow[a][x] = 0
        BY Zenon DEF IndInv, EscrowExact
      <3>2. \A x \in Accounts : quoteEscrow'[a][x] \in {0, quoteEscrow[a][x]}
        OBVIOUS
      <3>. QED
        BY <2>1, <2>2, <3>1, <3>2
  <1>3. TermsSound'
    <2> SUFFICES ASSUME NEW a \in AuctionIds, auctions'[a].state # "None"
                 PROVE  /\ auctions'[a].seller \in Accounts
                        /\ auctions'[a].teeId \in TeeIds
                        /\ auctions'[a].baseAmount # 0
                        /\ ValidCollar(auctions'[a].floorPriceWei, auctions'[a].ceilingPriceWei)
                        /\ ValidComponents(auctions'[a].baseAmount, auctions'[a].floorPriceWei,
                                           auctions'[a].ceilingPriceWei)
                        /\ auctions'[a].maxQuoteAmount =
                             QuoteFor(auctions'[a].baseAmount, auctions'[a].ceilingPriceWei)
      BY DEF TermsSound
    <2>1. CASE a = b
      BY <2>1 DEF IndInv, TermsSound
    <2>2. CASE a # b
      BY <2>2 DEF IndInv, TermsSound
    <2>. QED
      BY <2>1, <2>2
  <1>4. \A a \in AuctionIds : BidsSent(a)' = BidsSent(a) /\ ClearsSent(a)' = ClearsSent(a)
    BY DEF BidsSent, ClearsSent
  <1>5. EscrowHasBid'
    BY <1>4 DEF IndInv, EscrowHasBid
  <1>6. LogSound'
    BY <1>4 DEF IndInv, LogSound, TerminalStates
  <1>7. WinnerHasBid'
    <2> SUFFICES ASSUME NEW a \in AuctionIds, auctions'[a].state = "Settled"
                 PROVE  \E i \in BidsSent(a) : sent[i].message.bidder = auctions'[a].winner
      BY <1>4 DEF WinnerHasBid
    <2>1. CASE auctions'[a] = auctions[a]
      BY <2>1 DEF IndInv, WinnerHasBid
    <2>2. CASE auctions'[a] # auctions[a]
      BY <2>2 DEF IndInv, EscrowHasBid
    <2>. QED
      BY <2>1, <2>2
  <1>8. OneClearAfterAllBids'
    <2> SUFFICES ASSUME NEW a \in AuctionIds
                 PROVE  /\ \A i \in BidsSent(a) \cup ClearsSent(a) : sent[i].teeId = auctions'[a].teeId
                        /\ ClearsSent(a) = {auctions'[a].clearInstructionId} \ {0}
                        /\ \A i \in ClearsSent(a) :
                             /\ sent[i].message.floorPriceWei = auctions'[a].floorPriceWei
                             /\ sent[i].message.ceilingPriceWei = auctions'[a].ceilingPriceWei
                             /\ \A j \in BidsSent(a) : j < i
      BY <1>4 DEF OneClearAfterAllBids
    <2>1. \A f \in {"teeId", "floorPriceWei", "ceilingPriceWei", "clearInstructionId"} :
            auctions'[a][f] = auctions[a][f]
      OBVIOUS
    <2>. QED
      BY <2>1 DEF IndInv, OneClearAfterAllBids
  <1>. QED
    BY <1>1, <1>2, <1>3, <1>5, <1>6, <1>7, <1>8 DEF IndInv

\* The lot of an existing auction can be handed to its seller.
LEMMA LiveAuction ==
  ASSUME IndInv, NEW b \in AuctionIds, auctions[b].state # "None"
  PROVE  /\ auctions[b] \in AuctionType
         /\ auctions[b].seller \in Accounts
         /\ auctions[b].baseAmount \in Nat /\ auctions[b].maxQuoteAmount \in Nat
         /\ auctions[b].maxQuoteAmount > 0
         /\ bal \in [Tokens -> [Holders -> Nat]]
         /\ quoteEscrow \in [AuctionIds -> [Accounts -> Nat]]
  BY DEF IndInv, TypeOK, TermsSound, EscrowExact, AuctionType

\* What a fill writes into the records.
LEMMA FillRecord ==
  ASSUME auctions \in [AuctionIds -> AuctionType], NEW b \in AuctionIds, NEW result,
         SettleFill(b, result)
  PROVE  /\ auctions'[b].state = "Settled" /\ auctions'[b].winner = result.winner
         /\ auctions'[b].clearingPriceWei = result.unitPriceWei
         /\ auctions'[b].submittedBidCount = result.submittedBidCount
         /\ auctions'[b].eligibleBidCount = result.eligibleBidCount
         /\ \A f \in {"seller", "teeId", "baseAmount", "floorPriceWei", "ceilingPriceWei",
                      "maxQuoteAmount", "bidDeadline", "settleDeadline", "clearInstructionId"} :
              auctions'[b][f] = auctions[b][f]
         /\ \A a \in AuctionIds \ {b} : auctions'[a] = auctions[a]
  <1>1. PICK paid : auctions' = [auctions EXCEPT
          ![b].submittedBidCount = result.submittedBidCount,
          ![b].eligibleBidCount = result.eligibleBidCount,
          ![b].winner = result.winner,
          ![b].clearingPriceWei = result.unitPriceWei,
          ![b].quotePaid = paid,
          ![b].state = "Settled"]
    BY Zenon DEF SettleFill
  <1>2. PICK old \in AuctionType : old = auctions[b]
    OBVIOUS
  <1>3. auctions'[b] = [old EXCEPT
          !.submittedBidCount = result.submittedBidCount,
          !.eligibleBidCount = result.eligibleBidCount,
          !.winner = result.winner,
          !.clearingPriceWei = result.unitPriceWei,
          !.quotePaid = paid,
          !.state = "Settled"]
    BY <1>1, <1>2
  <1>4. \A a \in AuctionIds \ {b} : auctions'[a] = auctions[a]
    BY <1>1, Zenon
  <1>. QED
    BY <1>2, <1>3, <1>4 DEF AuctionType

\* cancelTimedOutAuction keeps the invariant.
LEMMA CancelInv ==
  ASSUME IndInv, NEW b \in AuctionIds, CancelTimedOutAuction(b)
  PROVE  IndInv'
  <1>1. auctions[b].state # "None"
    BY DEF CancelTimedOutAuction, LiveStates
  <1>2. bal' \in [Tokens -> [Holders -> Nat]]
    BY <1>1, LiveAuction, TransferType DEF CancelTimedOutAuction, Tokens, Holders
  <1>3. auctions' \in [AuctionIds -> AuctionType]
    <2>1. auctions \in [AuctionIds -> AuctionType]
      BY DEF IndInv, TypeOK
    <2>2. auctions' = [auctions EXCEPT ![b].state = "Cancelled"]
      BY DEF CancelTimedOutAuction
    <2>3. [auctions[b] EXCEPT !.state = "Cancelled"] \in AuctionType
      BY <2>1 DEF AuctionType, States
    <2>. QED
      BY <2>1, <2>2, <2>3
  <1>4. /\ \A a \in AuctionIds \ {b} : auctions'[a] = auctions[a]
        /\ \A f \in {"seller", "teeId", "baseAmount", "floorPriceWei", "ceilingPriceWei",
                     "maxQuoteAmount", "clearInstructionId"} : auctions'[b][f] = auctions[b][f]
        /\ auctions'[b].state = "Cancelled"
    BY DEF IndInv, TypeOK, CancelTimedOutAuction, AuctionType
  <1>5. UNCHANGED <<now, extensionSenders, extensionId, nextAuctionId, quoteEscrow, sent>>
    BY DEF CancelTimedOutAuction, registryVars
  <1>6. quoteEscrow' \in [AuctionIds -> [Accounts -> Nat]]
    BY <1>1, <1>5, LiveAuction
  <1>. QED
    BY <1>1, <1>2, <1>3, <1>4, <1>5, <1>6, OutcomeSteps DEF TerminalStates

\* withdrawQuote keeps the invariant.
LEMMA WithdrawInv ==
  ASSUME IndInv, NEW caller \in Accounts, NEW b \in AuctionIds, WithdrawQuote(caller, b)
  PROVE  IndInv'
  <1>1. auctions[b].state # "None" /\ auctions[b].state \in TerminalStates
    BY DEF WithdrawQuote, TerminalStates
  <1>2. quoteEscrow[b][caller] \in Nat
    BY <1>1, LiveAuction
  <1>3. bal' \in [Tokens -> [Holders -> Nat]]
    BY <1>1, <1>2, LiveAuction, TransferType DEF WithdrawQuote, Tokens, Holders
  <1>4. UNCHANGED <<now, extensionSenders, extensionId, nextAuctionId, auctions, sent>>
    BY DEF WithdrawQuote, registryVars
  <1>5. auctions' \in [AuctionIds -> AuctionType]
    BY <1>4 DEF IndInv, TypeOK
  <1>6. /\ quoteEscrow' \in [AuctionIds -> [Accounts -> Nat]]
        /\ \A a \in AuctionIds, x \in Accounts : quoteEscrow'[a][x] \in {0, quoteEscrow[a][x]}
    BY <1>1, LiveAuction DEF WithdrawQuote
  <1>. QED
    BY <1>1, <1>3, <1>4, <1>5, <1>6, OutcomeSteps

\* What a live auction's terms mean for the arithmetic of settleAuction.
LEMMA ArithmeticFromTerms == IndInv => SettlementArithmetic
  <1> SUFFICES ASSUME IndInv, NEW a \in AuctionIds, auctions[a].state \in LiveStates,
                      NEW price \in auctions[a].floorPriceWei .. auctions[a].ceilingPriceWei
               PROVE  /\ ProductFits(auctions[a].baseAmount, price)
                      /\ QuoteFor(auctions[a].baseAmount, price) <= auctions[a].maxQuoteAmount
    BY DEF SettlementArithmetic
  <1> DEFINE base == auctions[a].baseAmount
             ceiling == auctions[a].ceilingPriceWei
  <1>1. base \in Nat /\ ceiling \in Nat /\ auctions[a].floorPriceWei \in Nat
    BY DEF IndInv, TypeOK, AuctionType
  <1>2. /\ base <= MAX_COMPONENT /\ ceiling <= MAX_COMPONENT
        /\ auctions[a].maxQuoteAmount = QuoteFor(base, ceiling)
    BY DEF IndInv, TermsSound, LiveStates, ValidComponents, ComponentFits
  <1>3. price \in Nat /\ price <= ceiling
    BY <1>1
  <1>4. QuoteFor(base, price) <= QuoteFor(base, ceiling)
    BY <1>1, <1>3, QuoteForMonotone
  <1>5. base * price <= base * MAX_COMPONENT
    BY <1>1, <1>2, <1>3, ComponentAssumption, ProductMonotone
  <1>6. MAX_COMPONENT * base <= MAX_COMPONENT * MAX_COMPONENT
    BY <1>1, <1>2, ComponentAssumption, ProductMonotone
  <1>7. base * MAX_COMPONENT = MAX_COMPONENT * base
    BY <1>1, ComponentAssumption
  <1>8. base * price \in Nat /\ base * MAX_COMPONENT \in Nat /\ MAX_COMPONENT * MAX_COMPONENT \in Nat
    BY <1>1, <1>3, ComponentAssumption
  <1> HIDE DEF base, ceiling
  <1>9. base * price <= UINT256_MAX
    BY <1>5, <1>6, <1>7, <1>8, ComponentAssumption
  <1>. QED
    BY <1>2, <1>4, <1>9 DEF ProductFits, base

\* settleAuction keeps the invariant.
LEMMA SettleAuctionInv ==
  ASSUME IndInv, NEW b \in AuctionIds, NEW result, IsClearResult(result), NEW signature,
         SettleAuction(b, result, signature)
  PROVE  IndInv'
  <1>1. /\ auctions[b].state = "ClearRequested"
        /\ UNCHANGED <<now, extensionSenders, extensionId, nextAuctionId, sent>>
        /\ auctions \in [AuctionIds -> AuctionType]
    BY DEF SettleAuction, registryVars, IndInv, TypeOK
  <1>2. /\ auctions[b] \in AuctionType
        /\ auctions[b].seller \in Accounts
        /\ auctions[b].baseAmount \in Nat /\ auctions[b].maxQuoteAmount \in Nat
        /\ auctions[b].maxQuoteAmount > 0
        /\ bal \in [Tokens -> [Holders -> Nat]]
        /\ quoteEscrow \in [AuctionIds -> [Accounts -> Nat]]
    BY <1>1, LiveAuction
  <1>3. /\ result.winner \in Accounts \cup {ZeroAddress}
        /\ result.unitPriceWei \in Nat
        /\ result.submittedBidCount \in Nat /\ result.eligibleBidCount \in Nat
    BY DEF IsClearResult
  <1>4. CASE SettleNoFill(b, result)
    <2>1. bal' \in [Tokens -> [Holders -> Nat]]
      BY <1>2, <1>4, TransferType DEF SettleNoFill, Tokens, Holders
    <2>2. auctions' = [auctions EXCEPT ![b] =
            [auctions[b] EXCEPT !.submittedBidCount = result.submittedBidCount,
                                !.eligibleBidCount = result.eligibleBidCount,
                                !.state = "NoFill"]]
      BY <1>1, <1>2, <1>4 DEF SettleNoFill, AuctionType
    <2>3. auctions'[b] \in AuctionType
      BY <1>1, <1>2, <1>3, <2>2 DEF AuctionType, States
    <2>4. auctions' \in [AuctionIds -> AuctionType]
      BY <1>1, <2>2, <2>3
    <2>5. /\ \A a \in AuctionIds \ {b} : auctions'[a] = auctions[a]
          /\ \A f \in {"seller", "teeId", "baseAmount", "floorPriceWei", "ceilingPriceWei",
                       "maxQuoteAmount", "clearInstructionId"} : auctions'[b][f] = auctions[b][f]
          /\ auctions'[b].state = "NoFill"
      BY <1>1, <1>2, <2>2 DEF AuctionType
    <2>6. quoteEscrow' = quoteEscrow
      BY <1>4 DEF SettleNoFill
    <2>. QED
      BY <1>1, <1>2, <2>1, <2>4, <2>5, <2>6, OutcomeSteps DEF TerminalStates
  <1>5. CASE SettleFill(b, result)
    <2> DEFINE w == result.winner
               paid == QuoteFor(auctions[b].baseAmount, result.unitPriceWei)
               refund == auctions[b].maxQuoteAmount - paid
               afterLot == Transferred(bal, BASE_TOKEN, This, w, auctions[b].baseAmount)
               afterPay == Transferred(afterLot, QUOTE_TOKEN, This, auctions[b].seller, paid)
    <2>1. w \in Accounts /\ paid \in Nat
      BY <1>2, <1>3, <1>5, QuoteForNat DEF SettleFill
    <2>2. /\ paid <= auctions[b].maxQuoteAmount
          /\ CanTransfer(bal, BASE_TOKEN, This, w, auctions[b].baseAmount)
          /\ CanTransfer(afterLot, QUOTE_TOKEN, This, auctions[b].seller, paid)
          /\ refund # 0 => CanTransfer(afterPay, QUOTE_TOKEN, This, w, refund)
          /\ bal' = IF refund # 0 THEN Transferred(afterPay, QUOTE_TOKEN, This, w, refund)
                                  ELSE afterPay
          /\ quoteEscrow' = [quoteEscrow EXCEPT ![b][w] = 0]
          /\ quoteEscrow[b][w] = auctions[b].maxQuoteAmount
      BY <1>5 DEF SettleFill, WinnerEscrowed
    <2>3. refund \in Nat
      BY <1>2, <2>1, <2>2
    <2>4. auctions' = [auctions EXCEPT ![b] =
            [auctions[b] EXCEPT !.submittedBidCount = result.submittedBidCount,
                                !.eligibleBidCount = result.eligibleBidCount,
                                !.winner = w,
                                !.clearingPriceWei = result.unitPriceWei,
                                !.quotePaid = paid,
                                !.state = "Settled"]]
      BY <1>1, <1>2, <1>5 DEF SettleFill, AuctionType
    <2> HIDE DEF w, paid, refund
    <2>5. afterLot \in [Tokens -> [Holders -> Nat]]
      BY <1>2, <2>1, <2>2, TransferType DEF Tokens, Holders
    <2>6. afterPay \in [Tokens -> [Holders -> Nat]]
      <3> HIDE DEF afterLot
      <3>. QED
        BY <1>2, <2>1, <2>2, <2>5, TransferType DEF Tokens, Holders
    <2>7. bal' \in [Tokens -> [Holders -> Nat]]
      <3> HIDE DEF afterPay
      <3>. QED
        BY <2>1, <2>2, <2>3, <2>6, TransferType DEF Tokens, Holders
    <2>8. auctions'[b] \in AuctionType
      BY <1>1, <1>2, <1>3, <2>1, <2>4 DEF AuctionType, States
    <2>9. auctions' \in [AuctionIds -> AuctionType]
      BY <1>1, <2>4, <2>8
    <2>10. /\ \A a \in AuctionIds \ {b} : auctions'[a] = auctions[a]
           /\ \A f \in {"seller", "teeId", "baseAmount", "floorPriceWei", "ceilingPriceWei",
                        "maxQuoteAmount", "clearInstructionId"} : auctions'[b][f] = auctions[b][f]
           /\ auctions'[b].state = "Settled" /\ auctions'[b].winner = w
      BY <1>1, <1>2, <2>4 DEF AuctionType
    <2>11. /\ quoteEscrow' \in [AuctionIds -> [Accounts -> Nat]]
           /\ \A a \in AuctionIds, x \in Accounts : quoteEscrow'[a][x] \in {0, quoteEscrow[a][x]}
      BY <1>2, <2>1, <2>2
    <2>12. quoteEscrow[b][w] # 0
      BY <1>2, <2>2
    <2>. QED
      BY <1>1, <2>1, <2>7, <2>9, <2>10, <2>11, <2>12, OutcomeSteps DEF TerminalStates
  <1>. QED
    BY <1>4, <1>5 DEF SettleAuction

\* Every step keeps the invariant.
LEMMA NextIndInv == IndInv /\ [Next]_vars => IndInv'
  <1> SUFFICES ASSUME IndInv, [Next]_vars PROVE IndInv'
    OBVIOUS
  <1>1. CASE UNCHANGED vars
    <2>1. now \in Times /\ extensionId \in Nat /\ extensionSenders \in Seq({This, ForeignSender})
      BY DEF IndInv, TypeOK
    <2>. QED
      BY <1>1, <2>1, QuietSteps DEF vars
  <1>2. CASE Tick
    BY <1>2, TickInv
  <1>3. CASE SetExtensionId
    BY <1>3, SetExtensionIdInv
  <1>4. CASE \E sender \in {This, ForeignSender} : RegisterExtension(sender)
    BY <1>4, RegisterExtensionInv
  <1>5. CASE \E caller \in Accounts, base \in BaseAmounts, floor, ceiling \in PricesWei,
                bidDeadline, settleDeadline \in Deadlines, teeId \in TeeIds :
               CreateAuction(caller, base, floor, ceiling, bidDeadline, settleDeadline, teeId)
    BY <1>5, CreateAuctionInv
  <1>6. ASSUME NEW a \in AuctionIds, NEW caller \in Accounts, NEW c \in Ciphertexts,
               SubmitPrivateBid(caller, a, c)
        PROVE  IndInv'
    BY <1>6, SubmitPrivateBidInv
  <1>7. ASSUME NEW a \in AuctionIds, RequestClear(a) PROVE IndInv'
    BY <1>7, RequestClearInv
  <1>8. ASSUME NEW a \in AuctionIds, SettleWithSomeSignature(a) PROVE IndInv'
    BY <1>8, InputAssumption, SettleAuctionInv DEF SettleWithSomeSignature
  <1>9. ASSUME NEW a \in AuctionIds, CancelTimedOutAuction(a) PROVE IndInv'
    BY <1>9, CancelInv
  <1>10. ASSUME NEW a \in AuctionIds, NEW caller \in Accounts, WithdrawQuote(caller, a)
         PROVE  IndInv'
    BY <1>10, WithdrawInv
  <1>. QED
    BY <1>1, <1>2, <1>3, <1>4, <1>5, <1>6, <1>7, <1>8, <1>9, <1>10 DEF Next

\* The inductive invariant holds in every reachable state.
THEOREM Invariance == Spec => []IndInv
  BY InitIndInv, NextIndInv, PTL DEF Spec

-----------------------------------------------------------------------------
(* The safety properties                                                   *)

\* The contract's storage stays well typed; in particular no balance, escrow
\* or refund is ever negative.
THEOREM TypeCorrect == Spec => []TypeOK
  <1>1. IndInv => TypeOK
    BY DEF IndInv
  <1>. QED
    BY <1>1, Invariance, PTL

\* An escrow is all of a positive ceiling amount or nothing.
THEOREM EscrowsExact == Spec => []EscrowExact
  <1>1. IndInv => EscrowExact
    BY DEF IndInv
  <1>. QED
    BY <1>1, Invariance, PTL

\* Settlement at any price in the collar neither overflows nor underflows.
THEOREM SettlementNeverReverts == Spec => []SettlementArithmetic
  BY ArithmeticFromTerms, Invariance, PTL

\* Whatever TEEs sign, a winner has bid on chain itself.
THEOREM WinnersHaveBid == Spec => []WinnerHasBid
  <1>1. IndInv => WinnerHasBid
    BY DEF IndInv
  <1>. QED
    BY <1>1, Invariance, PTL

\* One clear per auction, to the pinned machine, after all its bids.
THEOREM ClearsFollowBids == Spec => []OneClearAfterAllBids
  <1>1. IndInv => OneClearAfterAllBids
    BY DEF IndInv
  <1>. QED
    BY <1>1, Invariance, PTL

-----------------------------------------------------------------------------
(* Action properties                                                       *)

\* Steps that touch neither lots nor escrows nor the contract's balance.
LEMMA IdleConserves ==
  ASSUME IndInv, UNCHANGED <<quoteEscrow, bal>>,
         \A a \in AuctionIds : LotHeld(a, BASE_TOKEN)' = LotHeld(a, BASE_TOKEN)
  PROVE  StepConserves
  <1>1. PICK a \in AuctionIds, x \in Accounts : TRUE
    BY AddressAssumption, BoundAssumption DEF AuctionIds
  <1>2. ASSUME NEW token \in Tokens
        PROVE  bal'[token][This] - bal[token][This] =
                 (LotHeld(a, token)' - LotHeld(a, token))
                 + (EscrowHeld(a, x, token)' - EscrowHeld(a, x, token))
    <2>1. LotHeld(a, token)' = LotHeld(a, token) /\ LotHeld(a, token) \in Nat
      BY DEF LotHeld, IndInv, TypeOK, AuctionType
    <2>2. EscrowHeld(a, x, token)' = EscrowHeld(a, x, token) /\ EscrowHeld(a, x, token) \in Nat
      BY DEF EscrowHeld, IndInv, TypeOK
    <2>3. bal'[token][This] = bal[token][This] /\ bal[token][This] \in Nat
      BY DEF IndInv, TypeOK, Holders
    <2>. QED
      BY <2>1, <2>2, <2>3
  <1>. QED
    BY <1>2 DEF StepConserves

\* Steps that change the lot of one auction and one of its escrows.
LEMMA ClaimConserves ==
  ASSUME IndInv, NEW b \in AuctionIds, NEW y \in Accounts,
         NEW lotDelta \in Int, NEW escrowDelta \in Int,
         \A a \in AuctionIds \ {b} : auctions'[a] = auctions[a],
         \A a \in AuctionIds, x \in Accounts :
           <<a, x>> # <<b, y>> => quoteEscrow'[a][x] = quoteEscrow[a][x],
         LotHeld(b, BASE_TOKEN)' = LotHeld(b, BASE_TOKEN) + lotDelta,
         quoteEscrow'[b][y] = quoteEscrow[b][y] + escrowDelta,
         \A token \in Tokens : bal'[token][This] =
           bal[token][This] + (IF token = BASE_TOKEN THEN lotDelta ELSE 0)
                            + (IF token = QUOTE_TOKEN THEN escrowDelta ELSE 0)
  PROVE  StepConserves
  <1>1. ASSUME NEW token \in Tokens
        PROVE  bal'[token][This] - bal[token][This] =
                 (LotHeld(b, token)' - LotHeld(b, token))
                 + (EscrowHeld(b, y, token)' - EscrowHeld(b, y, token))
    <2>1. bal[token][This] \in Nat
      BY DEF IndInv, TypeOK, Holders
    <2>2. LotHeld(b, BASE_TOKEN) \in Nat /\ quoteEscrow[b][y] \in Nat
      BY DEF IndInv, TypeOK, LotHeld, AuctionType
    <2>3. LotHeld(b, token)' - LotHeld(b, token) = IF token = BASE_TOKEN THEN lotDelta ELSE 0
      <3>1. CASE token = BASE_TOKEN
        BY <2>2, <3>1
      <3>2. CASE token # BASE_TOKEN
        BY <3>2 DEF LotHeld
      <3>. QED
        BY <3>1, <3>2
    <2>4. EscrowHeld(b, y, token)' - EscrowHeld(b, y, token) =
            IF token = QUOTE_TOKEN THEN escrowDelta ELSE 0
      BY <2>2 DEF EscrowHeld
    <2>. QED
      BY <2>1, <2>3, <2>4
  <1>2. \A a \in AuctionIds : a # b => LotHeld(a, BASE_TOKEN)' = LotHeld(a, BASE_TOKEN)
    BY DEF LotHeld
  <1>. QED
    BY <1>1, <1>2 DEF StepConserves

\* Every step conserves funds.
LEMMA NextConserves == IndInv /\ [Next]_vars => StepConserves \/ UNCHANGED vars
  <1> SUFFICES ASSUME IndInv, Next PROVE StepConserves
    BY DEF vars
  <1>0. /\ bal \in [Tokens -> [Holders -> Nat]]
        /\ quoteEscrow \in [AuctionIds -> [Accounts -> Nat]]
        /\ auctions \in [AuctionIds -> AuctionType]
        /\ BASE_TOKEN \in Tokens /\ QUOTE_TOKEN \in Tokens
    BY DEF IndInv, TypeOK, Tokens
  <1>1. CASE Tick \/ SetExtensionId \/ \E sender \in {This, ForeignSender} : RegisterExtension(sender)
    <2>1. UNCHANGED <<auctions, quoteEscrow, bal>>
      BY <1>1 DEF Tick, SetExtensionId, RegisterExtension
    <2>. QED
      BY <2>1, IdleConserves DEF LotHeld
  <1>2. ASSUME NEW caller \in Accounts, NEW base \in BaseAmounts,
               NEW floor \in PricesWei, NEW ceiling \in PricesWei,
               NEW bidDeadline \in Deadlines, NEW settleDeadline \in Deadlines,
               NEW teeId \in TeeIds,
               CreateAuction(caller, base, floor, ceiling, bidDeadline, settleDeadline, teeId)
        PROVE  StepConserves
    <2>0. PICK n \in AuctionIds : n = nextAuctionId
      BY <1>2 DEF CreateAuction
    <2>1. base \in Nat /\ quoteEscrow' = quoteEscrow
      BY <1>2, InputAssumption DEF CreateAuction
    <2>2. \A a \in AuctionIds \ {n} : auctions'[a] = auctions[a]
      BY <1>0, <1>2, <2>0 DEF CreateAuction
    <2>3. LotHeld(n, BASE_TOKEN) = 0
      BY <2>0 DEF LotHeld, LiveStates, IndInv, EscrowExact, AuctionIds
    <2>4. auctions'[n].state = "Open" /\ auctions'[n].baseAmount = base
      BY <1>0, <1>2, <2>0 DEF CreateAuction, ListedAuction, EmptyAuction
    <2>5. LotHeld(n, BASE_TOKEN)' = base
      BY <2>4 DEF LotHeld, LiveStates
    <2>6. \A t \in Tokens : bal'[t][This] =
            IF t = BASE_TOKEN THEN bal[t][This] + base ELSE bal[t][This]
      <3>1. bal' = Transferred(bal, BASE_TOKEN, caller, This, base)
        BY <1>2 DEF CreateAuction
      <3>. QED
        <4>1. \A t \in Tokens : Transferred(bal, BASE_TOKEN, caller, This, base)[t][This] =
                IF t = BASE_TOKEN THEN bal[t][This] + base ELSE bal[t][This]
          <5>1. bal \in [Tokens -> [Holders -> Nat]] /\ BASE_TOKEN \in Tokens /\ base \in Nat
            BY <1>0, <2>1, Zenon
          <5>. QED
            BY <5>1, TransferIn, SMT
        <4>. QED
          BY <3>1, <4>1, Zenon
    <2>7. \A t \in Tokens : bal[t][This] \in Nat
      BY <1>0 DEF Holders
    <2>8. quoteEscrow[n][caller] \in Nat
      BY <1>0, <2>1
    <2>9. LotHeld(n, BASE_TOKEN)' = LotHeld(n, BASE_TOKEN) + base
      BY <2>1, <2>3, <2>5
    <2>10. /\ 0 \in Int /\ base \in Int
             /\ quoteEscrow'[n][caller] = quoteEscrow[n][caller] + 0
             /\ \A a \in AuctionIds, z \in Accounts :
                  <<a, z>> # <<n, caller>> => quoteEscrow'[a][z] = quoteEscrow[a][z]
      BY <2>1, <2>8
    <2>11. \A t \in Tokens : bal'[t][This] =
             bal[t][This] + (IF t = BASE_TOKEN THEN base ELSE 0)
                          + (IF t = QUOTE_TOKEN THEN 0 ELSE 0)
      BY <2>1, <2>6, <2>7
    <2>. QED
      BY <2>1, <2>2, <2>9, <2>10, <2>11, ClaimConserves, ZenonT(120)
  <1>3. ASSUME NEW b \in AuctionIds, NEW caller \in Accounts, NEW c \in Ciphertexts,
               SubmitPrivateBid(caller, b, c)
        PROVE  StepConserves
    <2> DEFINE max == auctions[b].maxQuoteAmount
    <2>1. auctions' = auctions /\ EscrowCeiling(caller, b) /\ max \in Nat
      BY <1>0, <1>3 DEF SubmitPrivateBid, AuctionType
    <2>2. CASE quoteEscrow[b][caller] # 0
      BY <2>1, <2>2, IdleConserves DEF EscrowCeiling, LotHeld
    <2>3. CASE quoteEscrow[b][caller] = 0
      <3>1. /\ quoteEscrow' = [quoteEscrow EXCEPT ![b][caller] = max]
            /\ bal' = Transferred(bal, QUOTE_TOKEN, caller, This, max)
        BY <2>1, <2>3 DEF EscrowCeiling
      <3> HIDE DEF max
      <3>2. \A t \in Tokens : bal'[t][This] =
              IF t = QUOTE_TOKEN THEN bal[t][This] + max ELSE bal[t][This]
        BY <1>0, <2>1, <3>1, TransferIn
      <3>3. \A t \in Tokens : bal[t][This] \in Nat
        BY <1>0 DEF Holders
      <3>4. \A t \in Tokens : bal'[t][This] =
              bal[t][This] + (IF t = BASE_TOKEN THEN 0 ELSE 0)
                           + (IF t = QUOTE_TOKEN THEN max ELSE 0)
        BY <2>1, <3>2, <3>3
      <3>5. /\ quoteEscrow'[b][caller] = quoteEscrow[b][caller] + max
            /\ \A a \in AuctionIds, x \in Accounts :
                 <<a, x>> # <<b, caller>> => quoteEscrow'[a][x] = quoteEscrow[a][x]
        BY <1>0, <2>1, <2>3, <3>1
      <3>6. LotHeld(b, BASE_TOKEN)' = LotHeld(b, BASE_TOKEN) + 0
        BY <1>0, <2>1 DEF LotHeld, AuctionType
      <3>. QED
        BY <2>1, <3>4, <3>5, <3>6, ClaimConserves
    <2>. QED
      BY <2>2, <2>3
  <1>4. ASSUME NEW b \in AuctionIds, RequestClear(b)
        PROVE  StepConserves
    <2>1. /\ UNCHANGED <<quoteEscrow, bal>>
          /\ \A a \in AuctionIds \ {b} : auctions'[a] = auctions[a]
          /\ auctions[b].state = "Open" /\ auctions'[b].state = "ClearRequested"
          /\ auctions'[b].baseAmount = auctions[b].baseAmount
      BY <1>0, <1>4 DEF RequestClear, AuctionType
    <2>2. \A a \in AuctionIds : LotHeld(a, BASE_TOKEN)' = LotHeld(a, BASE_TOKEN)
      BY <2>1 DEF LotHeld, LiveStates
    <2>. QED
      BY <2>1, <2>2, IdleConserves
  <1>5. ASSUME NEW b \in AuctionIds, NEW result \in ClearResults, NEW signature,
               SettleAuction(b, result, signature)
        PROVE  StepConserves
    <2>0. /\ auctions[b].state = "ClearRequested"
          /\ auctions[b].seller \in Accounts
          /\ auctions[b].baseAmount \in Nat /\ auctions[b].maxQuoteAmount \in Nat
      BY <1>5, LiveAuction DEF SettleAuction
    <2>1. PICK base \in Nat : base = auctions[b].baseAmount
      BY <2>0
    <2>2. PICK seller \in Accounts : seller = auctions[b].seller
      BY <2>0
    <2>3. LotHeld(b, BASE_TOKEN) = base
      BY <2>0, <2>1 DEF LotHeld, LiveStates
    <2>4. PICK lotDelta \in Int : lotDelta = 0 - base
      OBVIOUS
    <2>5. \A t \in Tokens : bal[t][This] \in Nat
      BY <1>0 DEF Holders
    <2>6. CASE SettleNoFill(b, result)
      <3>1. /\ quoteEscrow' = quoteEscrow
            /\ \A a \in AuctionIds \ {b} : auctions'[a] = auctions[a]
            /\ auctions'[b].state = "NoFill"
            /\ bal' = Transferred(bal, BASE_TOKEN, This, seller, base)
        BY <1>0, <2>1, <2>2, <2>6 DEF SettleNoFill, AuctionType
      <3>2. LotHeld(b, BASE_TOKEN)' = LotHeld(b, BASE_TOKEN) + lotDelta
        <4>1. LotHeld(b, BASE_TOKEN)' = 0
          BY <3>1 DEF LotHeld, LiveStates
        <4>. QED
          BY <2>3, <2>4, <4>1
      <3>3. \A t \in Tokens : bal'[t][This] =
              IF t = BASE_TOKEN THEN bal[t][This] - base ELSE bal[t][This]
        <4>1. \A t \in Tokens : Transferred(bal, BASE_TOKEN, This, seller, base)[t][This] =
                IF t = BASE_TOKEN THEN bal[t][This] - base ELSE bal[t][This]
          <5>1. bal \in [Tokens -> [Holders -> Nat]] /\ BASE_TOKEN \in Tokens
            BY <1>0, Zenon
          <5>. QED
            BY <5>1, TransferOut, SMT
        <4>. QED
          BY <3>1, <4>1, Zenon
      <3>4. PICK x \in Accounts : quoteEscrow[b][x] \in Nat
        BY <1>0, AddressAssumption
      <3>5. \A t \in Tokens : bal'[t][This] =
              bal[t][This] + (IF t = BASE_TOKEN THEN lotDelta ELSE 0)
                           + (IF t = QUOTE_TOKEN THEN 0 ELSE 0)
        BY <2>4, <2>5, <3>3
      <3>6. /\ 0 \in Int
             /\ quoteEscrow'[b][x] = quoteEscrow[b][x] + 0
             /\ \A a \in AuctionIds, z \in Accounts :
                  <<a, z>> # <<b, x>> => quoteEscrow'[a][z] = quoteEscrow[a][z]
        BY <3>1, <3>4
      <3>. QED
        BY <3>1, <3>2, <3>5, <3>6, ClaimConserves, ZenonT(120)
    <2>7. CASE SettleFill(b, result)
      <3>1. PICK w \in Accounts : w = result.winner
        BY <2>7, InputAssumption DEF SettleFill, IsClearResult
      <3>2. PICK max \in Nat : max = auctions[b].maxQuoteAmount
        BY <2>0
      <3>3. PICK paid \in Nat : paid = QuoteFor(base, result.unitPriceWei)
        BY <2>7, InputAssumption, QuoteForNat DEF SettleFill, IsClearResult
      <3>4. paid <= max
        BY <2>1, <2>7, <3>2, <3>3 DEF SettleFill
      <3>5. PICK refund \in Nat : refund = max - paid
        BY <3>4
      <3>6. PICK afterLot : afterLot = Transferred(bal, BASE_TOKEN, This, w, base)
        OBVIOUS
      <3>7. PICK afterPay : afterPay = Transferred(afterLot, QUOTE_TOKEN, This, seller, paid)
        OBVIOUS
      <3>8. /\ CanTransfer(bal, BASE_TOKEN, This, w, base)
            /\ CanTransfer(afterLot, QUOTE_TOKEN, This, seller, paid)
            /\ bal' = IF refund # 0 THEN Transferred(afterPay, QUOTE_TOKEN, This, w, refund)
                                    ELSE afterPay
            /\ quoteEscrow' = [quoteEscrow EXCEPT ![b][w] = 0]
            /\ quoteEscrow[b][w] = max
        BY <2>1, <2>2, <2>7, <3>1, <3>2, <3>3, <3>5, <3>6, <3>7 DEF SettleFill, WinnerEscrowed
      <3>9. /\ \A a \in AuctionIds \ {b} : auctions'[a] = auctions[a]
            /\ auctions'[b].state = "Settled"
        BY <1>0, <2>7, FillRecord
      <3>10. /\ afterLot \in [Tokens -> [Holders -> Nat]]
             /\ \A t \in Tokens : afterLot[t][This] =
                  IF t = BASE_TOKEN THEN bal[t][This] - base ELSE bal[t][This]
        <4>1. bal \in [Tokens -> [Holders -> Nat]] /\ w \in Holders /\ This \in Holders
          BY <1>0 DEF Holders
        <4>2. Transferred(bal, BASE_TOKEN, This, w, base) \in [Tokens -> [Holders -> Nat]]
          BY <1>0, <3>8, <4>1, TransferType, ZenonT(30)
        <4>3. \A token \in Tokens : Transferred(bal, BASE_TOKEN, This, w, base)[token][This] =
                IF token = BASE_TOKEN THEN bal[token][This] - base ELSE bal[token][This]
          BY <1>0, <4>1, AddressAssumption DEF Transferred, Holders
        <4>. QED
          BY <3>6, <4>2, <4>3
      <3>11. /\ afterPay \in [Tokens -> [Holders -> Nat]]
             /\ \A t \in Tokens : afterPay[t][This] =
                  IF t = QUOTE_TOKEN THEN afterLot[t][This] - paid ELSE afterLot[t][This]
        <4>1. afterLot \in [Tokens -> [Holders -> Nat]] /\ seller \in Holders /\ This \in Holders
          BY <1>0, <3>10 DEF Holders
        <4>2. Transferred(afterLot, QUOTE_TOKEN, This, seller, paid) \in [Tokens -> [Holders -> Nat]]
          BY <1>0, <3>8, <4>1, TransferType, ZenonT(30)
        <4>3. \A token \in Tokens : Transferred(afterLot, QUOTE_TOKEN, This, seller, paid)[token][This] =
                IF token = QUOTE_TOKEN THEN afterLot[token][This] - paid ELSE afterLot[token][This]
          BY <1>0, <4>1, AddressAssumption DEF Transferred, Holders
        <4>. QED
          BY <3>7, <4>2, <4>3
      <3>12. \A t \in Tokens : bal'[t][This] =
              IF t = QUOTE_TOKEN THEN afterPay[t][This] - refund ELSE afterPay[t][This]
        <4>1. CASE refund # 0
          <5>1. bal' = Transferred(afterPay, QUOTE_TOKEN, This, w, refund)
            BY <3>8, <4>1
          <5>2. afterPay \in [Tokens -> [Holders -> Nat]]
            BY <3>11
          <5>. QED
            BY <1>0, <5>1, <5>2, AddressAssumption DEF Transferred, Holders
        <4>2. CASE refund = 0
          <5>1. \A t \in Tokens : afterPay[t][This] \in Nat
            BY <3>11 DEF Holders
          <5>. QED
            BY <3>8, <4>2, <5>1
        <4>. QED
          BY <4>1, <4>2
      <3>13. PICK escrowDelta \in Int : escrowDelta = 0 - max
        OBVIOUS
      <3>14. \A t \in Tokens : bal'[t][This] =
               bal[t][This] + (IF t = BASE_TOKEN THEN lotDelta ELSE 0)
                            + (IF t = QUOTE_TOKEN THEN escrowDelta ELSE 0)
        BY <2>4, <2>5, <3>5, <3>10, <3>11, <3>12, <3>13
      <3>15. LotHeld(b, BASE_TOKEN)' = LotHeld(b, BASE_TOKEN) + lotDelta
        <4>1. LotHeld(b, BASE_TOKEN)' = 0
          BY <3>9 DEF LotHeld, LiveStates
        <4>. QED
          BY <2>3, <2>4, <4>1
      <3>16. /\ quoteEscrow'[b][w] = quoteEscrow[b][w] + escrowDelta
             /\ \A a \in AuctionIds, x \in Accounts :
                  <<a, x>> # <<b, w>> => quoteEscrow'[a][x] = quoteEscrow[a][x]
        BY <1>0, <3>8, <3>13
      <3>. QED
        BY <3>9, <3>14, <3>15, <3>16, ClaimConserves
    <2>. QED
      BY <1>5, <2>6, <2>7 DEF SettleAuction
  <1>6. ASSUME NEW b \in AuctionIds, CancelTimedOutAuction(b)
        PROVE  StepConserves
    <2>0. /\ auctions[b].state \in LiveStates
          /\ auctions[b].seller \in Accounts /\ auctions[b].baseAmount \in Nat
      BY <1>6, LiveAuction DEF CancelTimedOutAuction, LiveStates
    <2>1. PICK base \in Nat : base = auctions[b].baseAmount
      BY <2>0
    <2>2. PICK seller \in Accounts : seller = auctions[b].seller
      BY <2>0
    <2>3. PICK delta \in Int : delta = 0 - base
      OBVIOUS
    <2>4. /\ quoteEscrow' = quoteEscrow
          /\ \A a \in AuctionIds \ {b} : auctions'[a] = auctions[a]
          /\ auctions'[b].state = "Cancelled"
          /\ bal' = Transferred(bal, BASE_TOKEN, This, seller, base)
      BY <1>0, <1>6, <2>1, <2>2 DEF CancelTimedOutAuction, AuctionType
    <2>5. LotHeld(b, BASE_TOKEN)' = LotHeld(b, BASE_TOKEN) + delta
      <3>1. LotHeld(b, BASE_TOKEN) = base /\ LotHeld(b, BASE_TOKEN)' = 0
        BY <2>0, <2>1, <2>4 DEF LotHeld, LiveStates
      <3>. QED
        BY <2>3, <3>1
    <2>6. \A t \in Tokens : bal'[t][This] =
            IF t = BASE_TOKEN THEN bal[t][This] - base ELSE bal[t][This]
      <3>1. \A t \in Tokens : Transferred(bal, BASE_TOKEN, This, seller, base)[t][This] =
              IF t = BASE_TOKEN THEN bal[t][This] - base ELSE bal[t][This]
        <4>1. bal \in [Tokens -> [Holders -> Nat]] /\ BASE_TOKEN \in Tokens
          BY <1>0, Zenon
        <4>. QED
          BY <4>1, TransferOut, SMT
      <3>. QED
        BY <2>4, <3>1, Zenon
    <2>7. PICK x \in Accounts : quoteEscrow[b][x] \in Nat
      BY <1>0, AddressAssumption
    <2>8. \A t \in Tokens : bal[t][This] \in Nat
      BY <1>0 DEF Holders
    <2>9. \A t \in Tokens : bal'[t][This] =
            bal[t][This] + (IF t = BASE_TOKEN THEN delta ELSE 0)
                         + (IF t = QUOTE_TOKEN THEN 0 ELSE 0)
      BY <2>3, <2>6, <2>8
    <2>10. /\ 0 \in Int
             /\ quoteEscrow'[b][x] = quoteEscrow[b][x] + 0
             /\ \A a \in AuctionIds, z \in Accounts :
                  <<a, z>> # <<b, x>> => quoteEscrow'[a][z] = quoteEscrow[a][z]
      BY <2>4, <2>7
    <2>. QED
      BY <2>4, <2>5, <2>9, <2>10, ClaimConserves, ZenonT(120)
  <1>7. ASSUME NEW b \in AuctionIds, NEW caller \in Accounts, WithdrawQuote(caller, b)
        PROVE  StepConserves
    <2> DEFINE amount == quoteEscrow[b][caller]
               delta == 0 - amount
    <2>1. /\ amount \in Nat /\ auctions' = auctions
          /\ quoteEscrow' = [quoteEscrow EXCEPT ![b][caller] = 0]
          /\ bal' = Transferred(bal, QUOTE_TOKEN, This, caller, amount)
      BY <1>0, <1>7 DEF WithdrawQuote
    <2>2. /\ quoteEscrow'[b][caller] = quoteEscrow[b][caller] + delta
          /\ \A a \in AuctionIds, x \in Accounts :
               <<a, x>> # <<b, caller>> => quoteEscrow'[a][x] = quoteEscrow[a][x]
      BY <1>0, <2>1
    <2> HIDE DEF amount
    <2>3. \A t \in Tokens : bal'[t][This] =
            IF t = QUOTE_TOKEN THEN bal[t][This] - amount ELSE bal[t][This]
      BY <1>0, <2>1, TransferOut
    <2>4. \A t \in Tokens : bal[t][This] \in Nat
      BY <1>0 DEF Holders
    <2>5. \A t \in Tokens : bal'[t][This] =
            bal[t][This] + (IF t = BASE_TOKEN THEN 0 ELSE 0)
                         + (IF t = QUOTE_TOKEN THEN delta ELSE 0)
      BY <2>1, <2>3, <2>4
    <2>6. LotHeld(b, BASE_TOKEN)' = LotHeld(b, BASE_TOKEN) + 0 /\ delta \in Int
      BY <1>0, <2>1 DEF LotHeld, AuctionType
    <2> HIDE DEF delta
    <2>. QED
      BY <2>1, <2>2, <2>5, <2>6, ClaimConserves
  <1>. QED
    BY <1>1, <1>2, <1>3, <1>4, <1>5, <1>6, <1>7 DEF Next, SettleWithSomeSignature

\* Every step moves into or out of the contract exactly what it adds to or
\* removes from one lot and one escrow, and disturbs no other claim.
THEOREM FundsAreConserved == Spec => FundsConserved
  <1>1. IndInv /\ [Next]_vars => [StepConserves]_vars
    BY NextConserves
  <1>. QED
    BY <1>1, Invariance, PTL DEF Spec, FundsConserved

-----------------------------------------------------------------------------
(* Solvency                                                                *)

LotsOf(token) == [a \in AuctionIds |-> LotHeld(a, token)]
EscrowsOf(token) == [c \in AuctionIds \X Accounts |-> EscrowHeld(c[1], c[2], token)]

\* Lots and escrows are functions to numbers, as the sums need.
LEMMA ClaimsTyped ==
  TypeOK => \A token : /\ LotsOf(token) \in [AuctionIds -> Int]
                       /\ EscrowsOf(token) \in [AuctionIds \X Accounts -> Int]
  <1> SUFFICES ASSUME TypeOK, NEW token
               PROVE  /\ LotsOf(token) \in [AuctionIds -> Int]
                      /\ EscrowsOf(token) \in [AuctionIds \X Accounts -> Int]
    OBVIOUS
  <1>1. \A a \in AuctionIds : LotHeld(a, token) \in Int
    BY DEF TypeOK, LotHeld, AuctionType
  <1>2. \A a \in AuctionIds, x \in Accounts : EscrowHeld(a, x, token) \in Int
    BY DEF TypeOK, EscrowHeld
  <1>. QED
    BY <1>1, <1>2 DEF LotsOf, EscrowsOf

\* There are finitely many lots and escrows.
LEMMA FiniteClaims == IsFiniteSet(AuctionIds) /\ IsFiniteSet(AuctionIds \X Accounts)
  <1>1. IsFiniteSet(AuctionIds)
    BY FS_Interval, BoundAssumption DEF AuctionIds
  <1>. QED
    BY <1>1, FS_Product, AddressAssumption

\* The contract is solvent when it is deployed: it owes nothing.
LEMMA InitSolvent == Init => Solvency
  <1> SUFFICES ASSUME Init, NEW token \in Tokens
               PROVE  bal[token][This] = SumFunction(LotsOf(token)) + SumFunction(EscrowsOf(token))
    BY DEF Solvency, LotsOf, EscrowsOf
  <1>1. bal[token][This] = 0
    BY DEF Init, Holders
  <1>2. LotsOf(token) = [a \in AuctionIds |-> 0]
    BY DEF Init, LotsOf, LotHeld, EmptyAuction, LiveStates
  <1>3. EscrowsOf(token) = [c \in AuctionIds \X Accounts |-> 0]
    BY DEF Init, EscrowsOf, EscrowHeld
  <1>. QED
    BY <1>1, <1>2, <1>3, FiniteClaims, SumOfZeros

\* A step that conserves funds keeps the sums in balance.
LEMMA StepSolvent ==
  ASSUME TypeOK, TypeOK', Solvency, StepConserves
  PROVE  Solvency'
  <1>1. PICK a \in AuctionIds, x \in Accounts :
          /\ \A token \in Tokens :
               bal'[token][This] - bal[token][This] =
                 (LotHeld(a, token)' - LotHeld(a, token))
                 + (EscrowHeld(a, x, token)' - EscrowHeld(a, x, token))
          /\ \A b \in AuctionIds, y \in Accounts :
               /\ b # a => LotHeld(b, BASE_TOKEN)' = LotHeld(b, BASE_TOKEN)
               /\ <<b, y>> # <<a, x>> => quoteEscrow'[b][y] = quoteEscrow[b][y]
    BY DEF StepConserves
  <1> SUFFICES ASSUME NEW token \in Tokens
               PROVE  bal'[token][This] = SumFunction(LotsOf(token)') + SumFunction(EscrowsOf(token)')
    BY DEF Solvency, LotsOf, EscrowsOf
  <1> DEFINE L == LotsOf(token)
             M == LotsOf(token)'
             F == EscrowsOf(token)
             G == EscrowsOf(token)'
             p == <<a, x>>
  <1>2. /\ L \in [AuctionIds -> Int] /\ F \in [AuctionIds \X Accounts -> Int]
        /\ M \in [AuctionIds -> Int] /\ G \in [AuctionIds \X Accounts -> Int]
    <2>1. \A b \in AuctionIds : LotHeld(b, token)' \in Int
      BY DEF TypeOK, LotHeld, AuctionType
    <2>2. \A b \in AuctionIds, y \in Accounts : EscrowHeld(b, y, token)' \in Int
      BY DEF TypeOK, EscrowHeld
    <2>3. /\ M \in [AuctionIds -> Int] /\ G \in [AuctionIds \X Accounts -> Int]
      BY <2>1, <2>2 DEF LotsOf, EscrowsOf
    <2>. QED
      BY <2>3, ClaimsTyped
  <1>3. /\ \A b \in AuctionIds : b # a => M[b] = L[b]
        /\ M[a] = LotHeld(a, token)' /\ L[a] = LotHeld(a, token)
    BY <1>1 DEF LotsOf, LotHeld
  <1>4. /\ p \in AuctionIds \X Accounts
        /\ \A c \in AuctionIds \X Accounts : c # p => G[c] = F[c]
        /\ G[p] = EscrowHeld(a, x, token)' /\ F[p] = EscrowHeld(a, x, token)
    BY <1>1 DEF EscrowsOf, EscrowHeld
  <1>5. bal[token][This] \in Int /\ bal'[token][This] \in Int
    BY DEF TypeOK, Holders
  <1>6. bal[token][This] = SumFunction(L) + SumFunction(F)
    BY DEF Solvency, LotsOf, EscrowsOf
  <1>7. bal'[token][This] - bal[token][This] = (M[a] - L[a]) + (G[p] - F[p])
    BY <1>1, <1>3, <1>4
  <1> HIDE DEF L, M, F, G, p
  <1>8. SumFunction(L) \in Int /\ SumFunction(M) = SumFunction(L) + (M[a] - L[a])
    BY <1>2, <1>3, FiniteClaims, SumChangesAt
  <1>9. SumFunction(F) \in Int /\ SumFunction(G) = SumFunction(F) + (G[p] - F[p])
    BY <1>2, <1>4, FiniteClaims, SumChangesAt
  <1>10. M[a] \in Int /\ L[a] \in Int /\ G[p] \in Int /\ F[p] \in Int
    BY <1>2, <1>4
  <1>11. bal'[token][This] = SumFunction(M) + SumFunction(G)
    BY <1>5, <1>6, <1>7, <1>8, <1>9, <1>10
  <1>. QED
    BY <1>11 DEF M, G

\* The contract owns exactly what it owes, in each token, also when lot and
\* quote token are the same: no interleaving of auctions, settlements,
\* cancellations and withdrawals loses or strands a token.
THEOREM ContractIsSolvent == Spec => []Solvency
  <1>1. IndInv /\ [Next]_vars /\ IndInv' /\ Solvency => Solvency'
    <2> SUFFICES ASSUME IndInv, [Next]_vars, IndInv', Solvency PROVE Solvency'
      OBVIOUS
    <2>1. CASE StepConserves
      BY <2>1, StepSolvent DEF IndInv
    <2>2. CASE UNCHANGED vars
      BY <2>2 DEF vars, Solvency, LotHeld, EscrowHeld
    <2>. QED
      BY <2>1, <2>2, NextConserves
  <1>. QED
    BY <1>1, InitSolvent, Invariance, PTL DEF Spec

-----------------------------------------------------------------------------
(* What is settled stays settled                                           *)

\* No step rewrites a record that is final.
LEMMA NextKeepsRecords == IndInv /\ [Next]_vars => StepKeepsRecords \/ UNCHANGED vars
  <1> SUFFICES ASSUME IndInv, Next PROVE StepKeepsRecords
    BY DEF vars
  <1>0. auctions \in [AuctionIds -> AuctionType]
    BY DEF IndInv, TypeOK
  <1>1. CASE auctions' = auctions /\ extensionId' = extensionId
    BY <1>1 DEF StepKeepsRecords, RecordKept
  <1>2. CASE SetExtensionId
    BY <1>2 DEF SetExtensionId, StepKeepsRecords, RecordKept
  <1>3. ASSUME NEW caller \in Accounts, NEW base \in BaseAmounts,
               NEW floor \in PricesWei, NEW ceiling \in PricesWei,
               NEW bidDeadline \in Deadlines, NEW settleDeadline \in Deadlines,
               NEW teeId \in TeeIds,
               CreateAuction(caller, base, floor, ceiling, bidDeadline, settleDeadline, teeId)
        PROVE  StepKeepsRecords
    <2>1. /\ extensionId' = extensionId
          /\ \A a \in AuctionIds : a # nextAuctionId => auctions'[a] = auctions[a]
      BY <1>0, <1>3 DEF CreateAuction, registryVars
    <2>2. \A a \in AuctionIds : a = nextAuctionId =>
            auctions[a].state = "None" /\ auctions[a].clearInstructionId = 0
      BY DEF IndInv, EscrowExact, LogSound, AuctionIds
    <2>. QED
      BY <2>1, <2>2 DEF StepKeepsRecords, RecordKept, TerminalStates
  <1>4. ASSUME NEW b \in AuctionIds,
               RequestClear(b) \/ CancelTimedOutAuction(b)
                 \/ \E result \in ClearResults : SettleNoFill(b, result) \/ SettleFill(b, result),
               auctions[b].state \in LiveStates, extensionId' = extensionId
        PROVE  StepKeepsRecords
    <2>1. \A a \in AuctionIds : a # b => auctions'[a] = auctions[a]
      BY <1>0, <1>4, ZenonT(30) DEF RequestClear, CancelTimedOutAuction, SettleNoFill, SettleFill
    <2>2. auctions[b].state \notin TerminalStates
      BY <1>4 DEF LiveStates, TerminalStates
    <2> DEFINE TermsKept ==
                 /\ auctions'[b].seller = auctions[b].seller
                 /\ auctions'[b].teeId = auctions[b].teeId
                 /\ auctions'[b].baseAmount = auctions[b].baseAmount
                 /\ auctions'[b].floorPriceWei = auctions[b].floorPriceWei
                 /\ auctions'[b].ceilingPriceWei = auctions[b].ceilingPriceWei
                 /\ auctions'[b].maxQuoteAmount = auctions[b].maxQuoteAmount
                 /\ auctions'[b].bidDeadline = auctions[b].bidDeadline
                 /\ auctions'[b].settleDeadline = auctions[b].settleDeadline
               RequestKept ==
                 auctions[b].clearInstructionId # 0 =>
                   auctions'[b].clearInstructionId = auctions[b].clearInstructionId
    <2>3. CASE RequestClear(b)
      <3>1. auctions[b].clearInstructionId = 0
        BY <2>3 DEF RequestClear, IndInv, LogSound
      <3>2. TermsKept
        BY <1>0, <2>3 DEF RequestClear, AuctionType
      <3>. QED
        BY <1>4, <2>1, <2>2, <3>1, <3>2 DEF StepKeepsRecords, RecordKept
    <2>4. CASE CancelTimedOutAuction(b)
      <3>1. TermsKept /\ RequestKept
        BY <1>0, <2>4 DEF CancelTimedOutAuction, AuctionType
      <3>. QED
        BY <1>4, <2>1, <2>2, <3>1 DEF StepKeepsRecords, RecordKept
    <2>5. ASSUME NEW result \in ClearResults, SettleNoFill(b, result) PROVE StepKeepsRecords
      <3>1. TermsKept /\ RequestKept
        BY <1>0, <2>5 DEF SettleNoFill, AuctionType
      <3>. QED
        BY <1>4, <2>1, <2>2, <3>1 DEF StepKeepsRecords, RecordKept
    <2>6. ASSUME NEW result \in ClearResults, SettleFill(b, result) PROVE StepKeepsRecords
      <3>1. TermsKept /\ RequestKept
        BY <1>0, <2>6, FillRecord
      <3>. QED
        BY <1>4, <2>1, <2>2, <3>1 DEF StepKeepsRecords, RecordKept
    <2>. QED
      BY <1>4, <2>3, <2>4, <2>5, <2>6
  <1>5. ASSUME NEW b \in AuctionIds, RequestClear(b) PROVE StepKeepsRecords
    BY <1>4, <1>5 DEF RequestClear, LiveStates, registryVars
  <1>6. ASSUME NEW b \in AuctionIds, CancelTimedOutAuction(b) PROVE StepKeepsRecords
    BY <1>4, <1>6 DEF CancelTimedOutAuction, registryVars
  <1>7. ASSUME NEW b \in AuctionIds, NEW result \in ClearResults, NEW signature,
               SettleAuction(b, result, signature)
        PROVE  StepKeepsRecords
    BY <1>4, <1>7 DEF SettleAuction, LiveStates, registryVars
  <1>8. CASE Tick \/ \E sender \in {This, ForeignSender} : RegisterExtension(sender)
    BY <1>1, <1>8 DEF Tick, RegisterExtension, registryVars
  <1>9. ASSUME NEW b \in AuctionIds, NEW caller \in Accounts,
               WithdrawQuote(caller, b) \/ \E c \in Ciphertexts : SubmitPrivateBid(caller, b, c)
        PROVE  StepKeepsRecords
    BY <1>1, <1>9 DEF WithdrawQuote, SubmitPrivateBid, registryVars
  <1>. QED
    BY <1>2, <1>3, <1>5, <1>6, <1>7, <1>8, <1>9 DEF Next, SettleWithSomeSignature

\* The terms a seller listed, the TEE pinned to an auction, the clear request
\* its signature answers and a terminal record are never rewritten.
THEOREM RecordsAreFrozen == Spec => RecordsFrozen
  <1>1. IndInv /\ [Next]_vars => [StepKeepsRecords]_vars
    BY NextKeepsRecords
  <1>. QED
    BY <1>1, Invariance, PTL DEF Spec, RecordsFrozen

-----------------------------------------------------------------------------
(***************************************************************************)
(* The contract implements the atomic exchange: under the refinement       *)
(* mapping Wealth and Lots, every step of QuietFillAuction is a listing, a *)
(* sale, a closing or nothing at all.                                      *)
(***************************************************************************)

(* Wealth                                                                  *)

\* What moving amount from one holder to another adds to the balance of h.
Moved(t, h, token, from, to, amount) ==
  IF t # token THEN 0
  ELSE (IF h = to THEN amount ELSE 0) - (IF h = from THEN amount ELSE 0)

Move(b, token, from, to, amount) ==
  [[b EXCEPT ![token][from] = @ - amount] EXCEPT ![token][to] = @ + amount]
IsBook(b, T, H) == b \in [T -> [H -> Int]]

\* Moving an amount changes two entries of a book and keeps it a book.
LEMMA MoveAdds ==
  ASSUME NEW T, NEW H, NEW b, IsBook(b, T, H), NEW token \in T,
         NEW from \in H, NEW to \in H, NEW amount \in Int
  PROVE  /\ IsBook(Move(b, token, from, to, amount), T, H)
         /\ \A t \in T, h \in H : Move(b, token, from, to, amount)[t][h]
                                 = b[t][h] + Moved(t, h, token, from, to, amount)
  <1> DEFINE d == [b EXCEPT ![token][from] = @ - amount]
             c == [d EXCEPT ![token][to] = @ + amount]
  <1>1. /\ d \in [T -> [H -> Int]]
        /\ \A t \in T, h \in H :
             d[t][h] = IF t = token /\ h = from THEN b[t][h] - amount ELSE b[t][h]
        /\ b \in [T -> [H -> Int]]
    BY DEF IsBook
  <1> HIDE DEF d
  <1>2. /\ c \in [T -> [H -> Int]]
        /\ \A t \in T, h \in H :
             c[t][h] = IF t = token /\ h = to THEN d[t][h] + amount ELSE d[t][h]
    BY <1>1
  <1> HIDE DEF c
  <1>3. ASSUME NEW t \in T, NEW h \in H
        PROVE  c[t][h] = b[t][h] + Moved(t, h, token, from, to, amount)
    <2>1. b[t][h] \in Int /\ d[t][h] \in Int
      BY <1>1
    <2>2. /\ d[t][h] = IF t = token /\ h = from THEN b[t][h] - amount ELSE b[t][h]
          /\ c[t][h] = IF t = token /\ h = to THEN d[t][h] + amount ELSE d[t][h]
      BY <1>1, <1>2
    <2>3. CASE t # token
      BY <2>1, <2>2, <2>3 DEF Moved
    <2>4. CASE t = token /\ h = from
      BY <2>1, <2>2, <2>4 DEF Moved
    <2>5. CASE t = token /\ h # from
      BY <2>1, <2>2, <2>5 DEF Moved
    <2>. QED
      BY <2>3, <2>4, <2>5
  <1>. QED
    BY <1>2, <1>3 DEF c, d, Move, IsBook

ClaimsOf(x, token) == [a \in AuctionIds |-> Claim(a, x, token)]

\* Wealth is a number, and no smaller than any of its parts.
LEMMA WealthTyped ==
  ASSUME TypeOK
  PROVE  /\ \A a \in AuctionIds, x \in Accounts, token \in Tokens : Claim(a, x, token) \in Nat
         /\ Wealth \in [Tokens -> [Accounts -> Int]]
         /\ \A token \in Tokens, x \in Accounts :
              /\ bal[token][x] \in Nat /\ Wealth[token][x] >= bal[token][x]
              /\ \A a \in AuctionIds : Wealth[token][x] >= Claim(a, x, token)
  <1>1. ASSUME NEW a \in AuctionIds, NEW x \in Accounts, NEW token \in Tokens
        PROVE  Claim(a, x, token) \in Nat
    <2>1. EscrowHeld(a, x, token) \in Nat
      BY DEF TypeOK, EscrowHeld
    <2>2. LotHeld(a, token) \in Nat
      BY DEF TypeOK, LotHeld, AuctionType
    <2>. QED
      BY <2>1, <2>2 DEF Claim
  <1>2. ASSUME NEW x \in Accounts, NEW token \in Tokens
        PROVE  /\ Wealth[token][x] = bal[token][x] + SumFunction(ClaimsOf(x, token))
               /\ bal[token][x] \in Nat
               /\ SumFunction(ClaimsOf(x, token)) \in Nat
               /\ \A a \in AuctionIds : SumFunction(ClaimsOf(x, token)) >= Claim(a, x, token)
    <2>1. /\ ClaimsOf(x, token) \in [AuctionIds -> Nat]
          /\ \A a \in AuctionIds : ClaimsOf(x, token)[a] = Claim(a, x, token)
      BY <1>1 DEF ClaimsOf
    <2>2. /\ SumFunction(ClaimsOf(x, token)) \in Nat
          /\ \A a \in AuctionIds : SumFunction(ClaimsOf(x, token)) >= ClaimsOf(x, token)[a]
      BY <2>1, FiniteClaims, SumAtLeast
    <2>. QED
      BY <2>1, <2>2 DEF TypeOK, Holders, Wealth, ClaimsOf
  <1>3. Wealth \in [Tokens -> [Accounts -> Int]]
    <2>1. Wealth = [token \in Tokens |-> [x \in Accounts |-> Wealth[token][x]]]
      BY DEF Wealth
    <2>. QED
      BY <1>2, <2>1
  <1>. QED
    BY <1>1, <1>2, <1>3

\* A step that touches one auction changes an account's wealth by what its
\* balance and its claim on that auction change.
LEMMA WealthFollows ==
  ASSUME TypeOK, TypeOK', NEW b \in AuctionIds,
         \A a \in AuctionIds \ {b} :
           auctions'[a] = auctions[a] /\ quoteEscrow'[a] = quoteEscrow[a],
         NEW token \in Tokens, NEW x \in Accounts
  PROVE  Wealth'[token][x] = Wealth[token][x] + (bal'[token][x] - bal[token][x])
                             + (Claim(b, x, token)' - Claim(b, x, token))
  <1> DEFINE F == ClaimsOf(x, token)
             G == ClaimsOf(x, token)'
  <1>1. F \in [AuctionIds -> Int] /\ F[b] = Claim(b, x, token)
    BY WealthTyped DEF ClaimsOf
  <1>2. G \in [AuctionIds -> Int] /\ G[b] = Claim(b, x, token)'
    <2>1. \A a \in AuctionIds : LotHeld(a, token)' \in Int /\ EscrowHeld(a, x, token)' \in Int
      BY DEF TypeOK, LotHeld, EscrowHeld, AuctionType
    <2>2. \A a \in AuctionIds : Claim(a, x, token)' \in Int
      BY <2>1 DEF Claim
    <2>. QED
      BY <2>2 DEF ClaimsOf
  <1>3. \A a \in AuctionIds : a # b => G[a] = F[a]
    BY DEF ClaimsOf, Claim, LotHeld, EscrowHeld
  <1>4. /\ Wealth[token][x] = bal[token][x] + SumFunction(F)
        /\ Wealth'[token][x] = bal'[token][x] + SumFunction(G)
    BY DEF Wealth, ClaimsOf
  <1>5. bal[token][x] \in Int /\ bal'[token][x] \in Int
    BY DEF TypeOK, Holders
  <1> HIDE DEF F, G
  <1>6. SumFunction(F) \in Int /\ SumFunction(G) = SumFunction(F) + (G[b] - F[b])
    BY <1>1, <1>2, <1>3, FiniteClaims, SumChangesAt
  <1>7. F[b] \in Int /\ G[b] \in Int
    BY <1>1, <1>2
  <1>. QED
    BY <1>1, <1>2, <1>4, <1>5, <1>6, <1>7

\* If each account gains in tokens what its claim on one auction loses, wealth stays.
LEMMA WealthKept ==
  ASSUME TypeOK, TypeOK', NEW b \in AuctionIds,
         \A a \in AuctionIds \ {b} :
           auctions'[a] = auctions[a] /\ quoteEscrow'[a] = quoteEscrow[a],
         \A token \in Tokens, x \in Accounts :
           bal'[token][x] + Claim(b, x, token)' = bal[token][x] + Claim(b, x, token)
  PROVE  Wealth' = Wealth
  <1>1. ASSUME NEW token \in Tokens, NEW x \in Accounts
        PROVE  Wealth'[token][x] = Wealth[token][x]
    <2>1. Wealth'[token][x] = Wealth[token][x] + (bal'[token][x] - bal[token][x])
                              + (Claim(b, x, token)' - Claim(b, x, token))
      BY WealthFollows
    <2>2. Wealth[token][x] \in Int /\ Claim(b, x, token) \in Int /\ bal[token][x] \in Int
      BY WealthTyped
    <2>3. bal'[token][x] \in Int
      BY DEF TypeOK, Holders
    <2>4. Claim(b, x, token)' \in Int
      <3>1. LotHeld(b, token)' \in Int /\ EscrowHeld(b, x, token)' \in Int
        BY DEF TypeOK, LotHeld, EscrowHeld, AuctionType
      <3>. QED
        BY <3>1 DEF Claim
    <2>. QED
      BY <2>1, <2>2, <2>3, <2>4
  <1>2. /\ Wealth = [token \in Tokens |-> [x \in Accounts |-> Wealth[token][x]]]
        /\ Wealth' = [token \in Tokens |-> [x \in Accounts |-> Wealth'[token][x]]]
    BY DEF Wealth
  <1>. QED
    BY <1>1, <1>2

\* What the contract's invariant gives to every case below.
LEMMA Basics ==
  ASSUME IndInv
  PROVE  /\ TypeOK /\ auctions \in [AuctionIds -> AuctionType]
         /\ quoteEscrow \in [AuctionIds -> [Accounts -> Nat]]
         /\ IsBook(bal, Tokens, Holders)
         /\ BASE_TOKEN \in Tokens /\ QUOTE_TOKEN \in Tokens
         /\ This \in Holders /\ Accounts \subseteq Holders /\ This \notin Accounts
  BY AddressAssumption DEF IndInv, TypeOK, Tokens, Holders, IsBook

\* What a transfer adds to the balance of an account.
LEMMA TransferAdds ==
  ASSUME NEW b, IsBook(b, Tokens, Holders), NEW token \in Tokens,
         NEW from \in Holders, NEW to \in Holders, NEW amount \in Int
  PROVE  /\ IsBook(Transferred(b, token, from, to, amount), Tokens, Holders)
         /\ \A t \in Tokens, x \in Accounts :
              /\ Transferred(b, token, from, to, amount)[t][x]
                   = b[t][x] + Moved(t, x, token, from, to, amount)
              /\ b[t][x] \in Int
  <1>1. Transferred(b, token, from, to, amount) = Move(b, token, from, to, amount)
    BY DEF Transferred, Move
  <1>2. \A t \in Tokens, x \in Accounts : x \in Holders /\ b[t][x] \in Int
    BY DEF IsBook, Holders
  <1>. QED
    BY <1>1, <1>2, MoveAdds

IsPayout(c, b, token, to, amount) == c = Transferred(b, token, This, to, amount)

\* A payout credits its recipient and no other account.
LEMMA PaidOut ==
  ASSUME NEW b, IsBook(b, Tokens, Holders), NEW token \in Tokens,
         NEW to \in Accounts, NEW amount \in Int,
         NEW c, IsPayout(c, b, token, to, amount)
  PROVE  /\ IsBook(c, Tokens, Holders)
         /\ \A t \in Tokens, x \in Accounts :
              /\ c[t][x] = b[t][x] + (IF t = token /\ x = to THEN amount ELSE 0)
              /\ b[t][x] \in Int
  <1>1. to \in Holders /\ This \in Holders /\ \A x \in Accounts : x # This
    BY AddressAssumption DEF Holders
  <1>2. /\ IsBook(c, Tokens, Holders)
        /\ \A t \in Tokens, x \in Accounts :
             c[t][x] = b[t][x] + Moved(t, x, token, This, to, amount) /\ b[t][x] \in Int
    BY <1>1, TransferAdds DEF IsPayout
  <1>3. \A t \in Tokens, x \in Accounts :
          Moved(t, x, token, This, to, amount) = IF t = token /\ x = to THEN amount ELSE 0
    BY <1>1 DEF Moved
  <1>. QED
    BY <1>2, <1>3

\* A lot is what its auction's record says.
LotOf(record) ==
  [status |-> CASE record.state = "None" -> "unlisted"
                [] record.state \in LiveStates -> "listed"
                [] record.state = "Settled" -> "sold"
                [] OTHER -> "closed",
   seller |-> record.seller, base |-> record.baseAmount,
   floor |-> record.floorPriceWei, ceiling |-> record.ceilingPriceWei]

\* A step that touches one auction changes at most that lot.
LEMMA LotsFollow ==
  ASSUME NEW b \in AuctionIds, \A a \in AuctionIds \ {b} : auctions'[a] = auctions[a]
  PROVE  /\ Lots' = [Lots EXCEPT ![b] = LotOf(auctions'[b])]
         /\ Lots[b] = LotOf(auctions[b])
         /\ DOMAIN Lots = AuctionIds
  BY DEF Lots, LotOf

-----------------------------------------------------------------------------
(* Steps that change nobody's wealth and no lot                            *)

\* A step that moves nothing is a stutter of the exchange.
LEMMA QuietMaps ==
  ASSUME UNCHANGED <<auctions, quoteEscrow, bal>>
  PROVE  UNCHANGED <<Wealth, Lots>>
  BY DEF Wealth, Claim, LotHeld, EscrowHeld, Lots

\* An escrow is still its dealer's: a bid is a stutter.
LEMMA SubmitMaps ==
  ASSUME IndInv, TypeOK', NEW caller \in Accounts, NEW b \in AuctionIds, NEW c,
         SubmitPrivateBid(caller, b, c)
  PROVE  UNCHANGED <<Wealth, Lots>>
  <1> DEFINE q == auctions[b].maxQuoteAmount
  <1>1. /\ TypeOK /\ QUOTE_TOKEN \in Tokens /\ caller \in Holders /\ This \in Holders
        /\ q \in Int /\ This \notin Accounts
        /\ quoteEscrow \in [AuctionIds -> [Accounts -> Nat]]
        /\ IsBook(bal, Tokens, Holders)
    BY Basics DEF AuctionType
  <1>2. UNCHANGED auctions
    BY DEF SubmitPrivateBid
  <1>3. Lots' = Lots
    BY <1>2 DEF Lots
  <1>4. CASE UNCHANGED <<quoteEscrow, bal>>
    BY <1>2, <1>4, QuietMaps
  <1>5. CASE /\ quoteEscrow[b][caller] = 0
             /\ quoteEscrow' = [quoteEscrow EXCEPT ![b][caller] = q]
             /\ bal' = Transferred(bal, QUOTE_TOKEN, caller, This, q)
    <2>1. \A a \in AuctionIds \ {b} : auctions'[a] = auctions[a] /\ quoteEscrow'[a] = quoteEscrow[a]
      BY <1>1, <1>2, <1>5
    <2>2. ASSUME NEW t \in Tokens, NEW x \in Accounts
          PROVE  bal'[t][x] + Claim(b, x, t)' = bal[t][x] + Claim(b, x, t)
      <3>1. bal'[t][x] = bal[t][x] - (IF t = QUOTE_TOKEN /\ x = caller THEN q ELSE 0)
        <4>1. /\ bal'[t][x] = bal[t][x] + Moved(t, x, QUOTE_TOKEN, caller, This, q)
              /\ bal[t][x] \in Int
          BY <1>1, <1>5, TransferAdds, SMTT(30)
        <4>. QED
          BY <1>1, <4>1 DEF Moved
      <3>2. Claim(b, x, t)' = Claim(b, x, t) + (IF t = QUOTE_TOKEN /\ x = caller THEN q ELSE 0)
        <4>1. LotHeld(b, t)' = LotHeld(b, t) /\ LotHeld(b, t) \in Int
          BY <1>1, <1>2 DEF LotHeld, TypeOK, AuctionType
        <4>2. EscrowHeld(b, x, t) \in Int
          BY <1>1 DEF EscrowHeld
        <4>3. EscrowHeld(b, x, t)' = EscrowHeld(b, x, t)
                                     + (IF t = QUOTE_TOKEN /\ x = caller THEN q ELSE 0)
          BY <1>1, <1>5 DEF EscrowHeld
        <4>. QED
          BY <1>1, <1>2, <4>1, <4>2, <4>3 DEF Claim
      <3>3. bal[t][x] \in Int /\ Claim(b, x, t) \in Int
        BY <1>1, WealthTyped
      <3>. QED
        BY <1>1, <3>1, <3>2, <3>3
    <2>. QED
      BY <1>1, <1>3, <2>1, <2>2, WealthKept
  <1>. QED
    BY <1>4, <1>5 DEF SubmitPrivateBid, EscrowCeiling

\* A withdrawal turns a claim into tokens: a stutter.
LEMMA WithdrawMaps ==
  ASSUME IndInv, TypeOK', NEW caller \in Accounts, NEW b \in AuctionIds, WithdrawQuote(caller, b)
  PROVE  UNCHANGED <<Wealth, Lots>>
  <1> DEFINE q == quoteEscrow[b][caller]
  <1>1. /\ TypeOK /\ QUOTE_TOKEN \in Tokens /\ caller \in Holders /\ This \in Holders
        /\ q \in Int /\ This \notin Accounts
        /\ quoteEscrow \in [AuctionIds -> [Accounts -> Nat]]
        /\ IsBook(bal, Tokens, Holders)
    BY Basics DEF AuctionType
  <1>2. /\ UNCHANGED auctions
        /\ quoteEscrow' = [quoteEscrow EXCEPT ![b][caller] = 0]
        /\ bal' = Transferred(bal, QUOTE_TOKEN, This, caller, q)
    BY DEF WithdrawQuote
  <1>3. Lots' = Lots
    BY <1>2 DEF Lots
  <1>4. \A a \in AuctionIds \ {b} : auctions'[a] = auctions[a] /\ quoteEscrow'[a] = quoteEscrow[a]
    BY <1>1, <1>2
  <1>5. ASSUME NEW t \in Tokens, NEW x \in Accounts
        PROVE  bal'[t][x] + Claim(b, x, t)' = bal[t][x] + Claim(b, x, t)
    <2>1. bal'[t][x] = bal[t][x] + (IF t = QUOTE_TOKEN /\ x = caller THEN q ELSE 0)
      <3>1. /\ bal'[t][x] = bal[t][x] + Moved(t, x, QUOTE_TOKEN, This, caller, q)
            /\ bal[t][x] \in Int
        BY <1>1, <1>2, TransferAdds
      <3>. QED
        BY <1>1, <3>1 DEF Moved
    <2>2. Claim(b, x, t)' = Claim(b, x, t) - (IF t = QUOTE_TOKEN /\ x = caller THEN q ELSE 0)
      <3>1. LotHeld(b, t)' = LotHeld(b, t) /\ LotHeld(b, t) \in Int
        BY <1>1, <1>2 DEF LotHeld, TypeOK, AuctionType
      <3>2. EscrowHeld(b, x, t) \in Int
        BY <1>1 DEF EscrowHeld
      <3>3. EscrowHeld(b, x, t)' = EscrowHeld(b, x, t)
                                   - (IF t = QUOTE_TOKEN /\ x = caller THEN q ELSE 0)
        BY <1>1, <1>2 DEF EscrowHeld
      <3>. QED
        BY <1>1, <1>2, <3>1, <3>2, <3>3 DEF Claim
    <2>3. bal[t][x] \in Int /\ Claim(b, x, t) \in Int
      BY <1>1, WealthTyped
    <2>. QED
      BY <1>1, <2>1, <2>2, <2>3
  <1>. QED
    BY <1>1, <1>3, <1>4, <1>5, WealthKept

\* A clear request is a stutter.
LEMMA RequestClearMaps ==
  ASSUME IndInv, TypeOK', NEW b \in AuctionIds, RequestClear(b)
  PROVE  UNCHANGED <<Wealth, Lots>>
  <1>1. TypeOK /\ auctions \in [AuctionIds -> AuctionType]
    BY DEF IndInv, TypeOK
  <1>2. /\ UNCHANGED <<quoteEscrow, bal>>
        /\ \A a \in AuctionIds \ {b} : auctions'[a] = auctions[a]
        /\ auctions[b].state = "Open" /\ auctions'[b].state = "ClearRequested"
        /\ \A f \in {"seller", "baseAmount", "floorPriceWei", "ceilingPriceWei"} :
             auctions'[b][f] = auctions[b][f]
    BY <1>1 DEF RequestClear, AuctionType
  <1>3. \A t, x : Claim(b, x, t)' = Claim(b, x, t)
    BY <1>2 DEF Claim, EscrowHeld, LotHeld, LiveStates
  <1>4. Wealth' = Wealth
    BY <1>1, <1>2, <1>3, WealthKept
  <1>5. LotOf(auctions'[b]) = LotOf(auctions[b])
    BY <1>2 DEF LotOf, LiveStates
  <1>6. Lots' = [Lots EXCEPT ![b] = Lots[b]] /\ Lots = [a \in AuctionIds |-> Lots[a]]
    <2>1. /\ Lots' = [Lots EXCEPT ![b] = LotOf(auctions'[b])]
          /\ Lots[b] = LotOf(auctions[b])
      BY <1>2, LotsFollow
    <2>. QED
      BY <1>5, <2>1 DEF Lots
  <1>7. Lots' = Lots
    BY <1>6
  <1>. QED
    BY <1>4, <1>7

-----------------------------------------------------------------------------
(* Steps of the exchange                                                   *)

\* Creating an auction lists a lot that the seller owns.
LEMMA CreateMaps ==
  ASSUME IndInv, TypeOK', NEW caller \in Accounts, NEW base \in BaseAmounts,
         NEW floor \in PricesWei, NEW ceiling \in PricesWei,
         NEW bidDeadline, NEW settleDeadline, NEW teeId,
         CreateAuction(caller, base, floor, ceiling, bidDeadline, settleDeadline, teeId)
  PROVE  Exchange!Next
  <1>0. PICK b \in AuctionIds : b = nextAuctionId
    BY DEF CreateAuction
  <1>1. /\ TypeOK /\ BASE_TOKEN \in Tokens /\ caller \in Holders /\ This \in Holders
        /\ This \notin Accounts /\ IsBook(bal, Tokens, Holders)
        /\ base \in Nat /\ floor \in Nat /\ ceiling \in Nat
    BY Basics, InputAssumption
  <1>2. /\ UNCHANGED quoteEscrow
        /\ \A a \in AuctionIds \ {b} : auctions'[a] = auctions[a]
        /\ bal' = Transferred(bal, BASE_TOKEN, caller, This, base)
        /\ auctions'[b] = ListedAuction(caller, base, floor, ceiling, bidDeadline, settleDeadline, teeId)
        /\ base # 0 /\ ValidCollar(floor, ceiling) /\ base <= bal[BASE_TOKEN][caller]
    BY <1>0, Basics DEF CreateAuction, CanTransfer
  <1>3. /\ auctions'[b].state = "Open" /\ auctions'[b].seller = caller
        /\ auctions'[b].baseAmount = base /\ auctions'[b].floorPriceWei = floor
        /\ auctions'[b].ceilingPriceWei = ceiling
    BY <1>2 DEF ListedAuction, EmptyAuction
  <1>4. auctions[b].state = "None" /\ \A x \in Accounts : quoteEscrow[b][x] = 0
    BY <1>0 DEF IndInv, EscrowExact, AuctionIds
  <1>5. ASSUME NEW t \in Tokens, NEW x \in Accounts
        PROVE  bal'[t][x] + Claim(b, x, t)' = bal[t][x] + Claim(b, x, t)
    <2>1. /\ bal'[t][x] = bal[t][x] + Moved(t, x, BASE_TOKEN, caller, This, base)
          /\ bal[t][x] \in Int
      BY <1>1, <1>2, TransferAdds
    <2>2. bal'[t][x] = bal[t][x] - (IF t = BASE_TOKEN /\ x = caller THEN base ELSE 0)
      BY <1>1, <2>1 DEF Moved
    <2>3. Claim(b, x, t) = 0
      BY <1>4 DEF Claim, EscrowHeld, LotHeld, LiveStates
    <2>4. Claim(b, x, t)' = IF t = BASE_TOKEN /\ x = caller THEN base ELSE 0
      <3>1. EscrowHeld(b, x, t)' = 0
        BY <1>2, <1>4 DEF EscrowHeld
      <3>2. LotHeld(b, t)' = IF t = BASE_TOKEN THEN base ELSE 0
        BY <1>3 DEF LotHeld, LiveStates
      <3>. QED
        BY <1>1, <1>3, <3>1, <3>2 DEF Claim
    <2>. QED
      BY <1>1, <2>1, <2>2, <2>3, <2>4
  <1>6. Wealth' = Wealth
    <2>1. \A a \in AuctionIds \ {b} : auctions'[a] = auctions[a] /\ quoteEscrow'[a] = quoteEscrow[a]
      BY <1>2
    <2>. QED
      BY <1>1, <1>5, <2>1, WealthKept
  <1>7. /\ Lots' = [Lots EXCEPT ![b] = [status |-> "listed", seller |-> caller, base |-> base,
                                       floor |-> floor, ceiling |-> ceiling]]
        /\ Lots[b].status = "unlisted"
    <2>1. LotOf(auctions'[b]) = [status |-> "listed", seller |-> caller, base |-> base,
                                 floor |-> floor, ceiling |-> ceiling]
      BY <1>3 DEF LotOf, LiveStates
    <2>2. LotOf(auctions[b]).status = "unlisted"
      <3>1. auctions[b].state \notin LiveStates /\ auctions[b].state # "Settled"
        BY <1>4 DEF LiveStates
      <3>. QED
        BY <1>4, <3>1 DEF LotOf, LiveStates
    <2>. QED
      BY <1>2, <2>1, <2>2, LotsFollow
  <1>8. base <= Wealth[BASE_TOKEN][caller]
    <2>1. /\ Wealth[BASE_TOKEN][caller] >= bal[BASE_TOKEN][caller]
          /\ Wealth[BASE_TOKEN][caller] \in Int /\ bal[BASE_TOKEN][caller] \in Int
      BY <1>1, WealthTyped
    <2>. QED
      BY <1>1, <1>2, <2>1
  <1>9. 0 < base /\ 0 < floor /\ floor <= ceiling
    BY <1>1, <1>2 DEF ValidCollar
  <1>10. Exchange!List(b, caller, base, floor, ceiling)
    BY <1>6, <1>7, <1>8, <1>9 DEF Exchange!List
  <1>. QED
    BY <1>10 DEF Exchange!Next

\* The two ways in which an auction ends without a sale return the lot.
LEMMA CloseMaps ==
  ASSUME IndInv, TypeOK', NEW b \in AuctionIds,
         auctions[b].state \in LiveStates, auctions'[b].state \in {"NoFill", "Cancelled"},
         \A f \in {"seller", "baseAmount", "floorPriceWei", "ceilingPriceWei"} :
           auctions'[b][f] = auctions[b][f],
         \A a \in AuctionIds \ {b} : auctions'[a] = auctions[a],
         UNCHANGED quoteEscrow,
         bal' = Transferred(bal, BASE_TOKEN, This, auctions[b].seller, auctions[b].baseAmount)
  PROVE  Exchange!Next
  <1> DEFINE base == auctions[b].baseAmount
             seller == auctions[b].seller
  <1>1. /\ TypeOK /\ BASE_TOKEN \in Tokens /\ seller \in Holders /\ This \in Holders
        /\ This \notin Accounts /\ IsBook(bal, Tokens, Holders) /\ base \in Nat
        /\ seller \in Accounts
    <2>1. seller \in Accounts
      BY DEF IndInv, TermsSound, LiveStates
    <2>. QED
      BY <2>1, Basics DEF AuctionType
  <1>2. ASSUME NEW t \in Tokens, NEW x \in Accounts
        PROVE  bal'[t][x] + Claim(b, x, t)' = bal[t][x] + Claim(b, x, t)
    <2>1. /\ bal'[t][x] = bal[t][x] + Moved(t, x, BASE_TOKEN, This, seller, base)
          /\ bal[t][x] \in Int
      BY <1>1, TransferAdds
    <2>2. bal'[t][x] = bal[t][x] + (IF t = BASE_TOKEN /\ x = seller THEN base ELSE 0)
      BY <1>1, <2>1 DEF Moved
    <2>3. Claim(b, x, t) = Claim(b, x, t)' + (IF t = BASE_TOKEN /\ x = seller THEN base ELSE 0)
      <3>1. EscrowHeld(b, x, t)' = EscrowHeld(b, x, t) /\ EscrowHeld(b, x, t) \in Int
        BY <1>1 DEF EscrowHeld, TypeOK
      <3>2. LotHeld(b, t) = (IF t = BASE_TOKEN THEN base ELSE 0) /\ LotHeld(b, t)' = 0
        BY DEF LotHeld, LiveStates
      <3>. QED
        BY <1>1, <3>1, <3>2 DEF Claim
    <2>4. Claim(b, x, t)' \in Int
      BY <1>1, SMTT(30) DEF Claim, EscrowHeld, LotHeld, TypeOK, LiveStates
    <2>. QED
      BY <1>1, <2>1, <2>2, <2>3, <2>4
  <1>3. Wealth' = Wealth
    BY <1>1, <1>2, WealthKept
  <1>4. /\ Lots[b].status = "listed" /\ Lots' = [Lots EXCEPT ![b].status = "closed"]
    <2>1. LotOf(auctions[b]).status = "listed"
      BY DEF LotOf, LiveStates
    <2>2. LotOf(auctions'[b]) = [LotOf(auctions[b]) EXCEPT !.status = "closed"]
      BY DEF LotOf, LiveStates
    <2>. QED
      BY <2>1, <2>2, LotsFollow
  <1>5. Exchange!Close(b)
    BY <1>3, <1>4 DEF Exchange!Close
  <1>. QED
    BY <1>5 DEF Exchange!Next

\* A settled fill: the lot goes to the winner, the price to the seller, and
\* the winner's escrow is the payment plus the refund.
LEMMA FillMaps ==
  ASSUME IndInv, TypeOK', NEW b \in AuctionIds, NEW result \in ClearResults,
         auctions[b].state = "ClearRequested", SettleFill(b, result)
  PROVE  Exchange!Next
  <1> DEFINE base == auctions[b].baseAmount
             seller == auctions[b].seller
             max == auctions[b].maxQuoteAmount
             winner == result.winner
             price == result.unitPriceWei
             paid == QuoteFor(base, price)
             refund == max - paid
             afterLot == Transferred(bal, BASE_TOKEN, This, winner, base)
             afterPay == Transferred(afterLot, QUOTE_TOKEN, This, seller, paid)
             afterAll == Transferred(afterPay, QUOTE_TOKEN, This, winner, refund)
  <1>1. /\ seller \in Accounts /\ winner \in Accounts
        /\ base \in Nat /\ max \in Nat /\ price \in Nat
        /\ auctions[b].floorPriceWei \in Nat /\ auctions[b].ceilingPriceWei \in Nat
    <2>1. seller \in Accounts
      BY DEF IndInv, TermsSound
    <2>2. IsClearResult(result) /\ winner # ZeroAddress
      BY InputAssumption DEF SettleFill
    <2>3. winner \in Accounts /\ price \in Nat
      BY <2>2 DEF IsClearResult
    <2>. QED
      BY <2>1, <2>3, Basics DEF AuctionType
  <1>2. paid \in Nat
    BY <1>1, QuoteForNat
  <1>3. /\ TypeOK /\ BASE_TOKEN \in Tokens /\ QUOTE_TOKEN \in Tokens
        /\ seller \in Holders /\ winner \in Holders /\ This \in Holders
        /\ This # seller /\ This # winner
        /\ IsBook(bal, Tokens, Holders)
        /\ quoteEscrow \in [AuctionIds -> [Accounts -> Nat]]
        /\ auctions \in [AuctionIds -> AuctionType]
    BY <1>1, Basics
  <1>4. /\ quoteEscrow[b][winner] = max
        /\ paid <= max
        /\ quoteEscrow' = [quoteEscrow EXCEPT ![b][winner] = 0]
        /\ bal' = IF refund # 0 THEN afterAll ELSE afterPay
        /\ auctions[b].floorPriceWei <= price /\ price <= auctions[b].ceilingPriceWei
    BY <1>1 DEF SettleFill, WinnerEscrowed, ValidFill
  <1>5. /\ auctions'[b].state = "Settled"
        /\ \A f \in {"seller", "baseAmount", "floorPriceWei", "ceilingPriceWei"} :
             auctions'[b][f] = auctions[b][f]
        /\ \A a \in AuctionIds \ {b} : auctions'[a] = auctions[a]
    <2>1. /\ auctions \in [AuctionIds -> AuctionType]
          /\ auctions' = [auctions EXCEPT
               ![b].submittedBidCount = result.submittedBidCount,
               ![b].eligibleBidCount = result.eligibleBidCount,
               ![b].winner = winner,
               ![b].clearingPriceWei = price,
               ![b].quotePaid = paid,
               ![b].state = "Settled"]
      BY <1>3 DEF SettleFill
    <2>2. \A a \in AuctionIds \ {b} : auctions'[a] = auctions[a]
      BY <2>1
    <2>3. auctions'[b] = [auctions[b] EXCEPT
               !.submittedBidCount = result.submittedBidCount,
               !.eligibleBidCount = result.eligibleBidCount,
               !.winner = winner,
               !.clearingPriceWei = price,
               !.quotePaid = paid,
               !.state = "Settled"]
      BY <2>1
    <2>4. auctions[b] \in AuctionType
      BY <2>1
    <2>. QED
      BY <2>2, <2>3, <2>4 DEF AuctionType
  <1>6. \A a \in AuctionIds \ {b} : auctions'[a] = auctions[a] /\ quoteEscrow'[a] = quoteEscrow[a]
    BY <1>3, <1>4, <1>5
  <1>7. refund \in Int /\ base \in Int /\ paid \in Int
    BY <1>1, <1>2
  <1>7a. /\ IsPayout(afterLot, bal, BASE_TOKEN, winner, base)
         /\ IsPayout(afterPay, afterLot, QUOTE_TOKEN, seller, paid)
         /\ IsPayout(afterAll, afterPay, QUOTE_TOKEN, winner, refund)
    BY DEF IsPayout
  <1> HIDE DEF paid, refund, base, max, price, winner, seller, afterLot, afterPay, afterAll
  <1>8. ASSUME NEW t \in Tokens, NEW x \in Accounts
        PROVE  /\ bal[t][x] \in Int
               /\ bal'[t][x] = bal[t][x] + (IF t = BASE_TOKEN /\ x = winner THEN base ELSE 0)
                                 + (IF t = QUOTE_TOKEN /\ x = seller THEN paid ELSE 0)
                                 + (IF t = QUOTE_TOKEN /\ x = winner THEN refund ELSE 0)
    <2>0. /\ seller \in Accounts /\ winner \in Accounts
          /\ BASE_TOKEN \in Tokens /\ QUOTE_TOKEN \in Tokens
          /\ IsBook(bal, Tokens, Holders)
      BY <1>1, <1>3
    <2>1. /\ IsBook(afterLot, Tokens, Holders) /\ bal[t][x] \in Int
          /\ afterLot[t][x] = bal[t][x] + (IF t = BASE_TOKEN /\ x = winner THEN base ELSE 0)
      BY <1>7, <1>7a, <2>0, PaidOut
    <2>2. /\ IsBook(afterPay, Tokens, Holders) /\ afterLot[t][x] \in Int
          /\ afterPay[t][x] = afterLot[t][x] + (IF t = QUOTE_TOKEN /\ x = seller THEN paid ELSE 0)
      BY <1>7, <1>7a, <2>0, <2>1, PaidOut
    <2>3. /\ afterPay[t][x] \in Int
          /\ afterAll[t][x] = afterPay[t][x] + (IF t = QUOTE_TOKEN /\ x = winner THEN refund ELSE 0)
      BY <1>7, <1>7a, <2>0, <2>2, PaidOut
    <2>4. bal'[t][x] = afterPay[t][x] + (IF t = QUOTE_TOKEN /\ x = winner THEN refund ELSE 0)
      <3>1. CASE refund # 0
        BY <1>4, <2>3, <3>1
      <3>2. CASE refund = 0
        BY <1>4, <2>3, <3>2
      <3>. QED
        BY <3>1, <3>2
    <2>. QED
      BY <1>7, <2>1, <2>2, <2>4
  <1>9. ASSUME NEW t \in Tokens, NEW x \in Accounts
        PROVE  Claim(b, x, t)' - Claim(b, x, t)
                 = (0 - (IF t = QUOTE_TOKEN /\ x = winner THEN max ELSE 0))
                   - (IF t = BASE_TOKEN /\ x = seller THEN base ELSE 0)
    <2>1. /\ LotHeld(b, t) = IF t = BASE_TOKEN THEN base ELSE 0
          /\ LotHeld(b, t)' = 0
      BY <1>5 DEF LotHeld, LiveStates, base
    <2>2. /\ EscrowHeld(b, x, t) \in Int
          /\ EscrowHeld(b, x, t)' = EscrowHeld(b, x, t)
                                    - (IF t = QUOTE_TOKEN /\ x = winner THEN max ELSE 0)
      BY <1>1, <1>3, <1>4 DEF EscrowHeld
    <2>3. Claim(b, x, t) = EscrowHeld(b, x, t)
                           + (IF t = BASE_TOKEN /\ x = seller THEN base ELSE 0)
      BY <1>1, <2>1, <2>2 DEF Claim, seller
    <2>4. Claim(b, x, t)' = EscrowHeld(b, x, t)'
      BY <1>1, <2>1, <2>2 DEF Claim
    <2>. QED
      BY <1>1, <2>2, <2>3, <2>4
  <1>10. /\ Wealth \in [Tokens -> [Accounts -> Int]]
         /\ paid <= Wealth[QUOTE_TOKEN][winner]
    <2>1. /\ Wealth \in [Tokens -> [Accounts -> Int]]
          /\ Wealth[QUOTE_TOKEN][winner] >= Claim(b, winner, QUOTE_TOKEN)
          /\ Claim(b, winner, QUOTE_TOKEN) \in Int
      BY <1>1, <1>3, WealthTyped
    <2>2. Claim(b, winner, QUOTE_TOKEN) >= max
      <3>1. LotHeld(b, QUOTE_TOKEN) \in Nat
        BY <1>1 DEF LotHeld, base
      <3>2. EscrowHeld(b, winner, QUOTE_TOKEN) = max
        BY <1>4 DEF EscrowHeld
      <3>. QED
        BY <1>1, <3>1, <3>2 DEF Claim
    <2>3. Wealth[QUOTE_TOKEN][winner] \in Int
      BY <1>1, <1>3, <2>1
    <2>. QED
      BY <1>1, <1>2, <1>4, <2>1, <2>2, <2>3
  <1> DEFINE mid == Move(Wealth, BASE_TOKEN, seller, winner, base)
             end == Move(mid, QUOTE_TOKEN, winner, seller, paid)
  <1>11. Wealth' = end
    <2>1. /\ IsBook(mid, Tokens, Accounts)
          /\ \A t \in Tokens, x \in Accounts :
               mid[t][x] = Wealth[t][x] + Moved(t, x, BASE_TOKEN, seller, winner, base)
      <3>1. IsBook(Wealth, Tokens, Accounts) /\ base \in Int
        BY <1>1, <1>10 DEF IsBook
      <3>. QED
        BY <1>1, <1>3, <3>1, MoveAdds, SMTT(60)
    <2> HIDE DEF mid
    <2>2. /\ IsBook(end, Tokens, Accounts)
          /\ \A t \in Tokens, x \in Accounts :
               end[t][x] = mid[t][x] + Moved(t, x, QUOTE_TOKEN, winner, seller, paid)
      <3>1. paid \in Int
        BY <1>2
      <3>. QED
        BY <1>1, <1>3, <2>1, <3>1, MoveAdds, SMTT(60)
    <2> HIDE DEF end
    <2>3. ASSUME NEW t \in Tokens, NEW x \in Accounts
          PROVE  Wealth'[t][x] = end[t][x]
      <3> DEFINE e == Claim(b, x, t)' - Claim(b, x, t)
      <3>1. /\ Wealth[t][x] \in Int
            /\ end[t][x] = (Wealth[t][x] + Moved(t, x, BASE_TOKEN, seller, winner, base))
                           + Moved(t, x, QUOTE_TOKEN, winner, seller, paid)
        BY <1>10, <2>1, <2>2
      <3>2. Wealth'[t][x] = Wealth[t][x] + (bal'[t][x] - bal[t][x]) + e
        BY <1>3, <1>6, WealthFollows
      <3>3. e = (0 - (IF t = QUOTE_TOKEN /\ x = winner THEN max ELSE 0))
                - (IF t = BASE_TOKEN /\ x = seller THEN base ELSE 0)
        BY <1>9
      <3> HIDE DEF e
      <3>4. /\ bal[t][x] \in Int
            /\ bal'[t][x] = bal[t][x] + (IF t = BASE_TOKEN /\ x = winner THEN base ELSE 0)
                              + (IF t = QUOTE_TOKEN /\ x = seller THEN paid ELSE 0)
                              + (IF t = QUOTE_TOKEN /\ x = winner THEN refund ELSE 0)
        BY <1>8
      <3>5. base \in Int /\ paid \in Int /\ max \in Int /\ refund = max - paid
        BY <1>1, <1>2 DEF refund
      <3>6. Moved(t, x, BASE_TOKEN, seller, winner, base)
              = (IF t = BASE_TOKEN /\ x = winner THEN base ELSE 0)
                - (IF t = BASE_TOKEN /\ x = seller THEN base ELSE 0)
        BY <3>5 DEF Moved
      <3>7. Moved(t, x, QUOTE_TOKEN, winner, seller, paid)
              = (IF t = QUOTE_TOKEN /\ x = seller THEN paid ELSE 0)
                - (IF t = QUOTE_TOKEN /\ x = winner THEN paid ELSE 0)
        BY <3>5 DEF Moved
      <3>8. CASE t = QUOTE_TOKEN /\ x = winner
        BY <3>1, <3>2, <3>3, <3>4, <3>5, <3>6, <3>7, <3>8
      <3>9. CASE ~(t = QUOTE_TOKEN /\ x = winner)
        BY <3>1, <3>2, <3>3, <3>4, <3>5, <3>6, <3>7, <3>9
      <3>. QED
        BY <3>8, <3>9
    <2>4. /\ end = [t \in Tokens |-> [x \in Accounts |-> end[t][x]]]
          /\ Wealth' = [t \in Tokens |-> [x \in Accounts |-> Wealth'[t][x]]]
      <3>1. end = [t \in Tokens |-> [x \in Accounts |-> end[t][x]]]
        BY <2>2 DEF IsBook
      <3>2. Wealth' = [t \in Tokens |-> [x \in Accounts |-> Wealth'[t][x]]]
        BY DEF Wealth
      <3>. QED
        BY <3>1, <3>2
    <2>. QED
      BY <2>3, <2>4
  <1>12. /\ Lots[b].status = "listed" /\ Lots[b].seller = seller /\ Lots[b].base = base
         /\ Lots[b].floor = auctions[b].floorPriceWei
         /\ Lots[b].ceiling = auctions[b].ceilingPriceWei
         /\ Lots' = [Lots EXCEPT ![b].status = "sold"]
    <2>1. LotOf(auctions[b]).status = "listed"
      BY DEF LotOf, LiveStates
    <2>2. LotOf(auctions'[b]) = [LotOf(auctions[b]) EXCEPT !.status = "sold"]
      BY <1>5 DEF LotOf, LiveStates
    <2>3. /\ LotOf(auctions[b]).seller = seller /\ LotOf(auctions[b]).base = base
          /\ LotOf(auctions[b]).floor = auctions[b].floorPriceWei
          /\ LotOf(auctions[b]).ceiling = auctions[b].ceilingPriceWei
      BY DEF LotOf, seller, base
    <2>. QED
      BY <1>5, <2>1, <2>2, <2>3, LotsFollow
  <1>13. Exchange!QuoteFor(base, price) = paid
    BY DEF Exchange!QuoteFor, QuoteFor, paid
  <1>14. Exchange!Sell(b, winner, price)
    <2>1. end = Exchange!Pay(Exchange!Pay(Wealth, BASE_TOKEN, seller, winner, base),
                             QUOTE_TOKEN, winner, seller, paid)
      BY DEF Exchange!Pay, Move
    <2> HIDE DEF end
    <2>. QED
      BY <1>4, <1>10, <1>11, <1>12, <1>13, <2>1 DEF Exchange!Sell
  <1>15. price \in Lots[b].floor .. Lots[b].ceiling
    BY <1>1, <1>4, <1>12
  <1>. QED
    BY <1>1, <1>14, <1>15 DEF Exchange!Next

-----------------------------------------------------------------------------
(* The refinement                                                          *)

\* A settlement is a sale at the signed price, or a closing.
LEMMA SettleMaps ==
  ASSUME IndInv, TypeOK', NEW b \in AuctionIds, NEW result \in ClearResults, NEW signature,
         SettleAuction(b, result, signature)
  PROVE  Exchange!Next
  <1>1. auctions[b].state = "ClearRequested" /\ auctions \in [AuctionIds -> AuctionType]
    BY Basics DEF SettleAuction
  <1>2. CASE SettleFill(b, result)
    BY <1>1, <1>2, FillMaps
  <1>3. CASE SettleNoFill(b, result)
    <2>1. /\ auctions'[b].state = "NoFill"
          /\ \A f \in {"seller", "baseAmount", "floorPriceWei", "ceilingPriceWei"} :
               auctions'[b][f] = auctions[b][f]
          /\ \A a \in AuctionIds \ {b} : auctions'[a] = auctions[a]
      BY <1>1, <1>3 DEF SettleNoFill, AuctionType
    <2>2. /\ UNCHANGED quoteEscrow
          /\ bal' = Transferred(bal, BASE_TOKEN, This, auctions[b].seller, auctions[b].baseAmount)
      BY <1>3 DEF SettleNoFill
    <2>3. auctions[b].state \in LiveStates
      BY <1>1 DEF LiveStates
    <2>. QED
      BY <2>1, <2>2, <2>3, CloseMaps
  <1>. QED
    BY <1>2, <1>3 DEF SettleAuction

\* A cancellation is a closing.
LEMMA CancelMaps ==
  ASSUME IndInv, TypeOK', NEW b \in AuctionIds, CancelTimedOutAuction(b)
  PROVE  Exchange!Next
  <1>1. auctions \in [AuctionIds -> AuctionType]
    BY Basics
  <1>2. /\ auctions'[b].state = "Cancelled"
        /\ \A f \in {"seller", "baseAmount", "floorPriceWei", "ceilingPriceWei"} :
             auctions'[b][f] = auctions[b][f]
        /\ \A a \in AuctionIds \ {b} : auctions'[a] = auctions[a]
    BY <1>1 DEF CancelTimedOutAuction, AuctionType
  <1>3. /\ UNCHANGED quoteEscrow /\ auctions[b].state \in LiveStates
        /\ bal' = Transferred(bal, BASE_TOKEN, This, auctions[b].seller, auctions[b].baseAmount)
    BY DEF CancelTimedOutAuction
  <1>. QED
    BY <1>2, <1>3, CloseMaps

\* The contract's initial states are initial states of the exchange.
LEMMA InitMaps == Init => Exchange!Init
  <1> SUFFICES ASSUME Init PROVE Exchange!Init
    OBVIOUS
  <1>1. ASSUME NEW token \in Tokens, NEW x \in Accounts
        PROVE  Wealth[token][x] = InitialBalance
    <2>1. bal[token][x] = InitialBalance
      BY AddressAssumption DEF Init, Holders
    <2>2. ClaimsOf(x, token) = [a \in AuctionIds |-> 0]
      <3>1. \A a \in AuctionIds : Claim(a, x, token) = 0
        BY DEF Init, Claim, EscrowHeld, LotHeld, EmptyAuction, LiveStates
      <3>. QED
        BY <3>1 DEF ClaimsOf
    <2>3. SumFunction(ClaimsOf(x, token)) = 0
      BY <2>2, FiniteClaims, SumOfZeros
    <2>4. Wealth[token][x] = bal[token][x] + SumFunction(ClaimsOf(x, token))
      BY DEF Wealth, ClaimsOf
    <2>. QED
      BY <2>1, <2>3, <2>4, BoundAssumption
  <1>2. Wealth = [t \in {BASE_TOKEN, QUOTE_TOKEN} |-> [x \in Accounts |-> InitialBalance]]
    <2>1. Wealth = [t \in Tokens |-> [x \in Accounts |-> Wealth[t][x]]]
      BY DEF Wealth
    <2>. QED
      BY <1>1, <2>1 DEF Tokens
  <1>3. Lots = [a \in AuctionIds |-> Exchange!Unlisted]
    BY DEF Init, Lots, EmptyAuction, Exchange!Unlisted, LiveStates
  <1>. QED
    BY <1>2, <1>3 DEF Exchange!Init

\* Every step of the contract is a step of the exchange or leaves wealth and
\* lots as they are.
LEMMA StepMaps ==
  IndInv /\ IndInv' /\ [Next]_vars => [Exchange!Next]_(Exchange!exchangeVars)
  <1> SUFFICES ASSUME IndInv, IndInv', [Next]_vars
               PROVE  Exchange!Next \/ UNCHANGED <<Wealth, Lots>>
    BY DEF Exchange!exchangeVars
  <1>0. TypeOK'
    BY DEF IndInv
  <1>1. CASE UNCHANGED vars \/ Tick \/ SetExtensionId
    BY <1>1, QuietMaps DEF vars, Tick, SetExtensionId
  <1>2. ASSUME NEW sender \in {This, ForeignSender}, RegisterExtension(sender)
        PROVE  UNCHANGED <<Wealth, Lots>>
    BY <1>2, QuietMaps DEF RegisterExtension
  <1>3. ASSUME NEW caller \in Accounts, NEW base \in BaseAmounts,
               NEW floor \in PricesWei, NEW ceiling \in PricesWei,
               NEW bidDeadline \in Deadlines, NEW settleDeadline \in Deadlines,
               NEW teeId \in TeeIds,
               CreateAuction(caller, base, floor, ceiling, bidDeadline, settleDeadline, teeId)
        PROVE  Exchange!Next
    BY <1>0, <1>3, CreateMaps
  <1>4. ASSUME NEW a \in AuctionIds, NEW caller \in Accounts, NEW c \in Ciphertexts,
               SubmitPrivateBid(caller, a, c)
        PROVE  UNCHANGED <<Wealth, Lots>>
    BY <1>0, <1>4, SubmitMaps
  <1>5. ASSUME NEW a \in AuctionIds, RequestClear(a)
        PROVE  UNCHANGED <<Wealth, Lots>>
    BY <1>0, <1>5, RequestClearMaps
  <1>6. ASSUME NEW a \in AuctionIds, SettleWithSomeSignature(a)
        PROVE  Exchange!Next
    BY <1>0, <1>6, SettleMaps DEF SettleWithSomeSignature
  <1>7. ASSUME NEW a \in AuctionIds, CancelTimedOutAuction(a)
        PROVE  Exchange!Next
    BY <1>0, <1>7, CancelMaps
  <1>8. ASSUME NEW a \in AuctionIds, NEW caller \in Accounts, WithdrawQuote(caller, a)
        PROVE  UNCHANGED <<Wealth, Lots>>
    BY <1>0, <1>8, WithdrawMaps
  <1>. QED
    BY <1>1, <1>2, <1>3, <1>4, <1>5, <1>6, <1>7, <1>8 DEF Next

\* The contract implements the atomic exchange: for any accounts, amounts,
\* prices and signed results, also when the two tokens are one, the only
\* transaction that changes anybody's wealth is settleAuction's fill, and it
\* swaps the lot for the rounded-up price in one step on the listed terms.
THEOREM ContractImplementsExchange == Spec => ImplementsExchange
  <1>1. Init => Exchange!Init
    BY InitMaps
  <1>2. IndInv /\ IndInv' /\ [Next]_vars => [Exchange!Next]_(Exchange!exchangeVars)
    BY StepMaps
  <1>3. Spec => []IndInv
    BY Invariance
  <1>. QED
    BY <1>1, <1>2, <1>3, PTL DEF Spec, ImplementsExchange, Exchange!Spec
=============================================================================
