------------------------------- MODULE Client -------------------------------
(***************************************************************************)
(* The two programs that drive the system: tools/cmd/run-test, which plays *)
(* one auction end to end as Seller and Dealer, and the web panel          *)
(* (web/src/components/AuctionPanel.tsx) in the browser of Visitor, who    *)
(* may bid on that auction, reprice, and press every button it shows.      *)
(*                                                                         *)
(* Both see the chain and the enclaves from outside.  They read, and act   *)
(* later on what they read; their clock runs ahead of block.timestamp;     *)
(* they poll the proxy for results only so often; the machine behind the   *)
(* proxy may be replaced; a transaction may be mined and its receipt never *)
(* arrive.  Allowances are not modelled: the approvals before an escrow    *)
(* change nothing here.                                                    *)
(***************************************************************************)
EXTENDS QuietFill

CONSTANTS
  Seller, Dealer, Visitor,
  LiveTee,                         \* the machine behind the proxy at first
  Lot, Floor, Ceiling, BidPrice,   \* flags of run-test
  VisitorPrices,                   \* the price of each bid, within the collar (bound)
  MaxPolls,                        \* polls of pollResult (20)
  MaxFaults                        \* bound; faults are a replaced machine, a lost
                                   \* receipt, a failed decryption, a redelivery, a
                                   \* wait without end, delay

\* The two encodings of a bid and its encryption to the machine's key.
PrivateBid(bidder, auctionId, nonce, price, nthSalt) ==
  [bidder |-> bidder, contractAddr |-> This, auctionId |-> auctionId, nonce |-> nonce,
   unitPriceWei |-> price, salt |-> nthSalt]
Encrypt(plaintext, teeId) == [size |-> 1, recipient |-> teeId, plaintext |-> plaintext]

\* All that the two clients bid: run-test once, and the visitor with its clock
\* for a nonce.
ClientBids ==
  {PrivateBid(Dealer, a, 1, BidPrice, 1) : a \in AuctionIds}
    \cup {PrivateBid(Visitor, a, nonce, VisitorPrices[n], n) :
            a \in AuctionIds, nonce \in 1 .. (MaxTime + 1), n \in DOMAIN VisitorPrices}

\* The flags make sense: in particular run-test bids within its own collar.
ASSUME ClientAssumption ==
  /\ {Seller, Dealer, Visitor} \subseteq Accounts /\ Dealer # Visitor
  /\ LiveTee \in TeeIds
  /\ Lot \in BaseAmounts /\ {Floor, Ceiling} \subseteq PricesWei
  /\ {1, 2} \subseteq Deadlines
  /\ BidPrice \in Floor .. Ceiling
  /\ VisitorPrices \in Seq(Nat)
  /\ {MaxPolls, MaxFaults} \subseteq Nat
ASSUME CiphertextAssumption ==
  {Encrypt(bid, t) : bid \in ClientBids, t \in TeeIds} \subseteq Ciphertexts
\* Markers are no bids, and a random salt is not zero.
ASSUME MarkerAssumption ==
  {NoBid, Undecodable, DecryptFailed} \cap ClientBids = {} /\ ZeroHash \notin Nat

VARIABLES
  test,        \* run-test
  panel,       \* AuctionPanel
  served,      \* the machine behind the proxy
  wall,        \* the clients' clock
  faults,
  disturbed    \* whether anything happened that run-test need not survive

clientVars == <<sysVars, test, panel, served, wall, faults, disturbed>>

NewTest ==
  [pc |-> "extension", tee |-> ZeroAddress, auction |-> 0, instruction |-> 0,
   attempts |-> 0, triedAt |-> 0, polls |-> 0, response |-> NoData]

ClientInit ==
  /\ SysInit
  /\ test = NewTest
  /\ panel = [pc |-> "idle", bid |-> NoBid, instruction |-> 0,
              acked |-> NoBid, later |-> {}, bids |-> 0]
  /\ served = LiveTee
  /\ wall = 0
  /\ faults = 0
  /\ disturbed = FALSE

Ended == test.pc \in {"passed", "failed", "blocked"}
Fault == ~Ended /\ ~disturbed /\ faults < MaxFaults /\ faults' = faults + 1
Calm == UNCHANGED <<faults, disturbed>>

\* What the proxy may answer to /action/result/<i>: a result for i.
ActionResult(i) == {sig \in signed : sig.over.instructionId = i}

-----------------------------------------------------------------------------
(* run-test                                                                *)

At(pc) == test.pc = pc
Goto(pc) == [test EXCEPT !.pc = pc]
Failed == [NewTest EXCEPT !.pc = "failed", !.auction = test.auction]
Stuck == [NewTest EXCEPT !.pc = "blocked", !.auction = test.auction]
Auction == auctions[test.auction]

\* A transaction that was mined: the tool sees its receipt, or fails although
\* the transaction took effect.
Mined(next) ==
  \/ test' = next /\ Calm
  \/ test' = Failed /\ Fault /\ disturbed' = TRUE

\* A wait without a limit: http.Get of a proxy that accepts and does not
\* answer, WaitMined of a transaction that is not mined.
Hang == test' = Stuck /\ Fault /\ disturbed' = TRUE

ReadExtensionId ==
  /\ At("extension")
  /\ test' = Goto(IF extensionId # 0 THEN "info" ELSE "setId")
  /\ Calm /\ UNCHANGED vars

\* Its receipt is waited for without a limit.  Somebody else may have been
\* faster; whether the error text shows it depends on the RPC node.  Before
\* pre-build.sh there is nothing to find.
SetExtensionIdOnce ==
  /\ At("setId")
  /\ \/ SetExtensionId /\ test' = Goto("info") /\ Calm
     \/ SetExtensionId /\ Hang
     \/ extensionId = 0 /\ extensionSenders # <<>> /\ Hang /\ UNCHANGED vars
     \/ /\ extensionId # 0
        /\ test' \in {Goto("info"), Failed}
        /\ Calm /\ UNCHANGED vars
     \/ /\ extensionSenders = <<>>
        /\ test' = Failed /\ disturbed' = TRUE
        /\ UNCHANGED <<vars, faults>>

ReadTeeInfo ==
  /\ At("info")
  /\ \/ test' = [Goto("fund") EXCEPT !.tee = served] /\ Calm
     \/ Hang
  /\ UNCHANGED vars

\* ensureFunds: the needed amount is minted when the balance is short of it.
\* A token that is no test token refuses.
TopUp(b, token, holder, needed) ==
  IF b[token][holder] >= needed THEN b ELSE [b EXCEPT ![token][holder] = @ + needed]

EnsureFunds ==
  LET base == TopUp(bal, BASE_TOKEN, Seller, Lot)
      both == TopUp(base, QUOTE_TOKEN, Dealer, QuoteFor(Lot, Ceiling))
  IN
  /\ At("fund")
  /\ \/ bal' = both /\ Mined(Goto("create"))
     \/ /\ bal' \in {bal, base} \ {both}
        /\ test' = Failed /\ disturbed' = TRUE /\ UNCHANGED faults
  /\ UNCHANGED <<now, registryVars, nextAuctionId, auctions, quoteEscrow, sent>>

\* Deadlines come from the local clock; the machine is the registry's choice
\* and must be the one whose key was read.
Create ==
  /\ At("create")
  /\ \E teeId \in TeeIds :
       /\ CreateAuction(Seller, Lot, Floor, Ceiling, wall + 1, wall + 2, teeId)
       /\ IF teeId = test.tee
          THEN Mined([Goto("bid") EXCEPT !.auction = nextAuctionId])
          ELSE test' = Failed /\ disturbed' = TRUE /\ UNCHANGED faults

Bid ==
  /\ At("bid")
  /\ \/ /\ SubmitPrivateBid(Dealer, test.auction,
                            Encrypt(PrivateBid(Dealer, test.auction, 1, BidPrice, 1), test.tee))
        /\ Mined([Goto("receipt") EXCEPT !.instruction = Len(sent) + 1])
     \/ ~BidWindowOpen(test.auction) /\ test' = Failed /\ Calm /\ UNCHANGED vars

\* Faulty variant: the counter of polls stands still.
NextPollSame(polls) == polls

NextPoll(polls) == polls + 1

\* pollResult: nothing yet, until the last poll.
PollInVain ==
  /\ test.pc \in {"receipt", "result"}
  /\ ActionResult(test.instruction) = {}
  /\ IF NextPoll(test.polls) < MaxPolls
     THEN test' = [test EXCEPT !.polls = NextPoll(@)] /\ Calm
     ELSE test' = Failed /\ disturbed' = TRUE /\ UNCHANGED faults
  /\ UNCHANGED vars

\* A poll that the proxy accepts and does not answer.
PollHangs == test.pc \in {"receipt", "result"} /\ Hang /\ UNCHANGED vars

ReadReceipt ==
  /\ At("receipt")
  /\ \E sig \in ActionResult(test.instruction) :
       test' = IF sig.over.status = 1 /\ sig.over.data.bidder = Dealer
               THEN [Goto("wait") EXCEPT !.polls = 0] ELSE Failed
  /\ Calm /\ UNCHANGED vars

WaitForDeadline ==
  /\ At("wait")
  /\ wall >= Auction.bidDeadline
  /\ test' = Goto("clear")
  /\ Calm /\ UNCHANGED vars

\* Faulty variant: sent once, as the other transactions are.
ClearAttemptsSingle == 1

ClearAttempts == 5

AnotherAttempt(early) ==
  IF test.attempts + 1 = ClearAttempts THEN Failed
  ELSE [test EXCEPT !.attempts = @ + 1, !.triedAt = IF early THEN now ELSE -1]

\* sendTxRetry.  While the block time is short of the deadline the call
\* reverts; a block is mined during the pause before the next attempt.  A
\* clear that was mined without a receipt makes the later attempts revert.
ClearWithRetry ==
  /\ At("clear")
  /\ test.attempts = 0 \/ now > test.triedAt
  /\ \/ /\ RequestClear(test.auction)
        /\ \/ /\ test' = [Goto("result") EXCEPT !.instruction = Len(sent) + 1]
              /\ Calm
           \/ test' = AnotherAttempt(FALSE) /\ Fault /\ disturbed' = TRUE
     \/ /\ ~(Auction.state = "Open" /\ ClearWindowOpen(test.auction))
        /\ test' = AnotherAttempt(now < Auction.bidDeadline)
        /\ Calm /\ UNCHANGED vars

\* Faulty variant: whoever won is fine.
ExpectedOutcomeAny(result) == TRUE

ExpectedOutcome(result) == result.winner = Dealer /\ result.unitPriceWei = BidPrice

\* The request names no tag: the proxy may serve the result under another
\* one, which run-test does not survive.
ReadResult ==
  /\ At("result")
  /\ \E sig \in ActionResult(test.instruction) :
       /\ test' = IF /\ sig.over.status = 1 /\ sig.over.submissionTag = "threshold"
                     /\ ExpectedOutcome(sig.over.data)
                  THEN [Goto("settle") EXCEPT !.response = sig] ELSE Failed
       /\ disturbed' = (disturbed \/ sig.over.submissionTag # "threshold")
  /\ UNCHANGED <<vars, faults>>

Settle ==
  /\ At("settle")
  /\ \/ SettleAuction(test.auction, test.response.over.data, test.response) /\ Mined(Goto("verify"))
     \/ /\ ~(Auction.state = "ClearRequested" /\ now <= Auction.settleDeadline)
        /\ test' = Failed
        /\ Calm /\ UNCHANGED vars

VerifyFinalState ==
  /\ At("verify")
  /\ test' = Goto(IF Auction.state = "Settled" THEN "passed" ELSE "failed")
  /\ Calm /\ UNCHANGED vars

TestStep ==
  /\ \/ ReadExtensionId \/ SetExtensionIdOnce \/ ReadTeeInfo \/ EnsureFunds \/ Create \/ Bid
     \/ PollInVain \/ PollHangs \/ ReadReceipt \/ WaitForDeadline \/ ClearWithRetry \/ ReadResult
     \/ Settle \/ VerifyFinalState
  /\ UNCHANGED <<teeVars, panel, served, wall>>

-----------------------------------------------------------------------------
(* The web panel.  It shows buttons by a state and a clock it has read     *)
(* some seconds ago.  A button shown too long leads to a call the contract *)
(* rejects, which is only logged; and whatever the contract accepts was    *)
(* shown once the panel had refreshed.  So a press is an action where the  *)
(* contract accepts it.  The panel is busy until an operation is over.     *)

Shown == nextAuctionId - 1
Free == Shown > 0 /\ panel.pc = "idle"

\* The TEE check, the nonce, the encryption: up to the wallet's question.
PressBid ==
  /\ Free /\ auctions[Shown].state = "Open"
  /\ panel.bids < Len(VisitorPrices)
  /\ served = auctions[Shown].teeId
  /\ panel' = [panel EXCEPT !.pc = "wallet", !.bids = @ + 1,
                            !.bid = PrivateBid(Visitor, Shown, wall + 1,
                                              VisitorPrices[panel.bids + 1], panel.bids + 1)]
  /\ Calm /\ UNCHANGED vars

Outbids(price) ==
  price > BidPrice \/ (price = BidPrice /\ AddressRank[Visitor] < AddressRank[Dealer])

SubmitBid ==
  /\ panel.pc = "wallet"
  /\ SubmitPrivateBid(Visitor, Shown, Encrypt(panel.bid, auctions[Shown].teeId))
  /\ panel' = [panel EXCEPT !.pc = "poll", !.instruction = Len(sent) + 1,
                            !.later = IF panel.acked = NoBid THEN {} ELSE @ \cup {panel.bid}]
  /\ disturbed' = (disturbed \/ Outbids(panel.bid.unitPriceWei))
  /\ UNCHANGED faults

IdlePanel == [panel EXCEPT !.pc = "idle", !.bid = NoBid, !.instruction = 0]

\* The transaction reverts, or polling has lasted 45 s.
AbandonBid ==
  /\ \/ panel.pc = "wallet" /\ ~(auctions[Shown].state = "Open" /\ BidWindowOpen(Shown))
     \/ panel.pc = "poll" /\ ActionResult(panel.instruction) = {}
  /\ panel' = IdlePanel
  /\ Calm /\ UNCHANGED vars

ReadBidReceipt ==
  /\ panel.pc = "poll"
  /\ \E sig \in ActionResult(panel.instruction) :
       panel' = IF sig.over.status = 1
                THEN [IdlePanel EXCEPT !.acked = panel.bid, !.later = {}] ELSE IdlePanel
  /\ Calm /\ UNCHANGED vars

\* Nothing run-test does survives that somebody else clears or settles.
PressRequestClear ==
  /\ Free
  /\ RequestClear(Shown)
  /\ disturbed' = TRUE /\ UNCHANGED <<panel, faults>>

PressSettle ==
  /\ Free
  /\ \E sig \in ActionResult(auctions[Shown].clearInstructionId) :
       /\ sig.over.status = 1 /\ sig.over.submissionTag = "threshold"
       /\ SettleAuction(Shown, sig.over.data, sig)
  /\ disturbed' = TRUE /\ UNCHANGED <<panel, faults>>

PressCancel == Free /\ CancelTimedOutAuction(Shown) /\ Calm /\ UNCHANGED panel

PressWithdraw == Free /\ WithdrawQuote(Visitor, Shown) /\ Calm /\ UNCHANGED panel

PanelStep ==
  /\ \/ SubmitBid \/ AbandonBid \/ ReadBidReceipt
     \/ PressBid \/ PressRequestClear \/ PressSettle \/ PressCancel \/ PressWithdraw
  /\ UNCHANGED <<teeVars, test, served, wall>>

-----------------------------------------------------------------------------
(* Their surroundings.                                                     *)

\* pre-build.sh registers the extension; anyone may call setExtensionId.
Elsewhere ==
  /\ \/ RegisterExtension(This) /\ UNCHANGED disturbed
     \/ SetExtensionId /\ disturbed' = (disturbed \/ At("setId"))
  /\ UNCHANGED <<teeVars, test, panel, served, wall, faults>>

\* The delivery of an instruction went wrong: not decrypted, or repeated.
Faulty(i, plaintext, tag) ==
  plaintext = DecryptFailed \/ \E sig \in ActionResult(i) : sig.over.submissionTag = tag

\* A clear that was answered is computed again: its result is past its time.
Recomputed(i) ==
  LET retained == exts[sent[i].teeId].cleared[Key(sent[i].message.auctionId)]
  IN  /\ sent[i].opCommand = "QF_CLEAR" /\ ActionResult(i) # {}
      /\ retained = NotCleared \/ retained.expiresAt <= now

\* run-test relies on its bid being decrypted, on the proxy not serving it the
\* rejection of a second delivery, and on reading the result before the clear
\* is computed again.
Upsets(i, plaintext) ==
  /\ i = test.instruction
  /\ \/ At("receipt") /\ (plaintext = DecryptFailed \/ ActionResult(i) # {})
     \/ At("result") /\ Recomputed(i)

\* The machine behind the proxy is the only one alive.  (What arrives after
\* the auction's end is left out.)
Forward(i, plaintext, tag) ==
  /\ sent[i].teeId = served
  /\ auctions[sent[i].message.auctionId].state \in LiveStates
  /\ Deliver(i, plaintext, tag)
  /\ IF Faulty(i, plaintext, tag) THEN Fault ELSE UNCHANGED faults
  /\ disturbed' = (disturbed \/ Upsets(i, plaintext))
  /\ UNCHANGED <<test, panel, served, wall>>

\* The process restarts, or another machine takes its place.  (A process with
\* an empty memory loses nothing, and which machine it is does not matter
\* before run-test has read it.)
Replace(t) ==
  /\ restarts < MaxRestarts /\ Fault
  /\ IF t = served THEN exts[t] # E!EmptyExtension ELSE test.tee # ZeroAddress
  /\ exts' = [exts EXCEPT ![t] = E!EmptyExtension]
  /\ restarts' = restarts + 1
  /\ served' = t
  /\ disturbed' = TRUE
  /\ UNCHANGED <<vars, signed, test, panel, wall>>

\* run-test is slower than its bid window, or than the time to settle.
Overdue(time) ==
  /\ ~Ended
  /\ \/ At("bid") /\ time >= Auction.bidDeadline
     \/ time > Auction.settleDeadline

\* The clock matters while the auction or run-test goes on.
WallTick ==
  /\ wall = now /\ wall < MaxTime
  /\ Shown > 0
  /\ ~Ended \/ auctions[Shown].state \in LiveStates
  /\ wall' = wall + 1
  /\ IF Overdue(wall') THEN Fault /\ disturbed' = TRUE ELSE Calm
  /\ UNCHANGED <<sysVars, test, panel, served>>

\* A block: its time follows the clients' clock.
Block ==
  /\ now < wall
  /\ Tick
  /\ UNCHANGED <<teeVars, test, panel, served, wall, faults, disturbed>>

ClientNext ==
  \/ TestStep
  \/ PanelStep
  \/ Elsewhere
  \/ \E i \in DOMAIN sent :
       \E plaintext \in Plaintexts(i), tag \in TagsOf(i) : Forward(i, plaintext, tag)
  \/ \E t \in TeeIds : Replace(t)
  \/ WallTick
  \/ Block

\* run-test runs, and time passes; nobody else need do anything.
ClientSpec ==
  /\ ClientInit /\ [][ClientNext]_clientVars
  /\ WF_clientVars(TestStep) /\ WF_clientVars(WallTick) /\ WF_clientVars(Block)

-----------------------------------------------------------------------------
(* Properties                                                              *)

\* "QuietFill end-to-end auction PASSED" is printed only if the dealer bought
\* the lot at the price it sealed for the machine whose key it had read, and
\* nothing of its escrow is left behind.
PassedMeansSettled ==
  At("passed") =>
    /\ Auction.state = "Settled"
    /\ Auction.winner = Dealer /\ Auction.clearingPriceWei = BidPrice
    /\ Auction.teeId = test.tee
    /\ quoteEscrow[test.auction][Dealer] = 0

\* run-test does not fail for reasons of its own: block time behind its
\* clock, results that come late, a losing competing bid, an extension id
\* that is already set, and a clear delivered again or under another tag are
\* all survived.  What it does not survive is what sets disturbed: above all,
\* the proxy serving the result under the other tag, and a clear computed
\* again past clearRetentionMs while the tool still polls.
FailsOnlyIfDisturbed == At("failed") => disturbed

\* The last bid the panel showed a receipt for is the one the enclave holds,
\* or one submitted after it: neither an abandoned bid that is delivered late
\* nor two bids in the same second bring an older price back.  (Until the
\* clear is answered, and unless the enclave was restarted.)
AcknowledgedBidStands ==
  LET auction == auctions[panel.acked.auctionId]
      stored == exts[auction.teeId].bids[<<This, panel.acked.auctionId>>][Visitor]
  IN  panel.acked # NoBid /\ restarts = 0 /\ ActionResult(auction.clearInstructionId) = {} =>
        stored # NoBid /\ stored.commitment.keccakOf \in {panel.acked} \cup panel.later

\* Every loop of run-test gives up: it ends, whatever the other parties do,
\* unless one of the waits that have no limit never returns.
RunEnds == <>(test.pc \in {"passed", "failed", "blocked"})

-----------------------------------------------------------------------------
(* What makes the first three inductive.  There is one auction, number 1,  *)
(* once run-test has listed it.                                            *)

Before == {"extension", "setId", "info", "fund", "create"}
Bidding == {"bid", "receipt", "wait", "clear"}
After == {"result", "settle", "verify", "passed"}
TestRecords ==
  [pc : Before \cup Bidding \cup After \cup {"failed", "blocked"}, tee : TeeIds \cup {ZeroAddress},
   auction : Nat, instruction : Nat, attempts : Nat, triedAt : Int, polls : Nat,
   response : signed \cup {NoData}]
PanelRecords ==
  [pc : {"idle", "wallet", "poll"}, bid : ClientBids \cup {NoBid}, instruction : Nat,
   acked : ClientBids \cup {NoBid}, later : SUBSET ClientBids, bids : Nat]
ClientShape ==
  /\ test \in TestRecords /\ panel \in PanelRecords
  /\ served \in TeeIds /\ faults \in Nat /\ disturbed \in BOOLEAN
  /\ wall \in now .. (now + 1) /\ wall <= MaxTime
  /\ nextAuctionId \in {1, 2}

\* Both programs and the clock wait for the listing.
ListedOnce ==
  /\ Shown = 0 => wall = 0 /\ panel.pc = "idle" /\ panel.acked = NoBid
  /\ test.pc \in Before => Shown = 0
  /\ test.pc \in Bidding \cup After =>
       Shown = 1 /\ test.auction = 1 /\ auctions[1].teeId = test.tee
  /\ Shown = 1 =>
       /\ auctions[1].bidDeadline = 1 /\ auctions[1].settleDeadline = 2
       /\ auctions[1].floorPriceWei = Floor /\ auctions[1].ceilingPriceWei = Ceiling

\* What run-test settles with, and what it has then.
TestProgress ==
  /\ At("settle") => test.response \in signed /\ ExpectedOutcome(test.response.over.data)
  /\ test.pc \in {"verify", "passed"} =>
       /\ auctions[1].state = "Settled"
       /\ auctions[1].winner = Dealer /\ auctions[1].clearingPriceWei = BidPrice
       /\ quoteEscrow[1][Dealer] = 0

\* Signatures are over what the handlers answer.
SignedTyped == \A sig \in signed : IsClear(sig) => sig.over.data \in Results

\* The log: dealers seal their own bids for the pinned machine.
BidOf(i) == sent[i].message.ciphertext.plaintext
SentBy(x) == {i \in BidsSent(1) : sent[i].message.bidder = x}
LogOfClients ==
  \A i \in DOMAIN sent : sent[i].opCommand = "QF_PRIVATE_BID" =>
    /\ BidOf(i) \in ClientBids /\ BidOf(i).auctionId = 1
    /\ BidOf(i).bidder = sent[i].message.bidder
    /\ sent[i].message.ciphertext = Encrypt(BidOf(i), sent[i].teeId)

\* Receipts and stored bids tell what was sealed; only a clear leaves a result.
AnswersTell ==
  /\ \A sig \in signed : IsReceipt(sig) =>
       sig.over.data = E!BidReceipt(BidOf(sig.over.instructionId))
  /\ \A t \in TeeIds, k \in E!Keys, x \in Accounts : exts[t].bids[k][x] # NoBid =>
       exts[t].bids[k][x].nonce = exts[t].bids[k][x].commitment.keccakOf.nonce
  /\ \A t \in TeeIds : exts[t].cleared[Key(1)] # NotCleared => ClearsSent(1) # {}

\* The visitor's nonces do not decrease from bid to bid.
PanelProgress ==
  /\ \A i \in SentBy(Visitor) : BidOf(i).nonce <= wall + 1
  /\ panel.pc # "idle" =>
       /\ panel.bid \in ClientBids /\ panel.bid.bidder = Visitor /\ panel.bid.auctionId = 1
       /\ panel.bid.nonce <= wall + 1
       /\ \A i \in SentBy(Visitor) : BidOf(i).nonce <= panel.bid.nonce
  /\ panel.pc = "poll" => panel.instruction \in SentBy(Visitor) /\ BidOf(panel.instruction) = panel.bid
  /\ panel.acked # NoBid =>
       /\ panel.acked.bidder = Visitor /\ panel.acked.auctionId = 1
       /\ E!BidReceipt(panel.acked) \in Receipts(1)
       /\ \A i \in SentBy(Visitor) :
            BidOf(i) \in {panel.acked} \cup panel.later \/ BidOf(i).nonce <= panel.acked.nonce

ClientInv ==
  /\ ClientShape /\ ListedOnce /\ TestProgress /\ SignedTyped
  /\ LogOfClients /\ AnswersTell /\ PanelProgress

\* Undisturbed, run-test is in time, alone with its auction, and ahead of the
\* visitor; a machine answers its bid with a receipt and its clear with its win.
InTime ==
  /\ restarts = 0
  /\ At("setId") => extensionId = 0
  /\ ~Ended /\ Shown = 1 => wall <= 2
  /\ At("bid") => wall = 0
  /\ At("clear") => wall >= 1
  /\ test.pc \in Bidding => auctions[1].state = "Open"
  /\ test.pc \in {"result", "settle"} => auctions[1].state = "ClearRequested"
  /\ test.pc \in Before \cup Bidding /\ test.attempts # 0 =>
       At("clear") /\ test.attempts = 1 /\ test.triedAt = 0
  /\ test.pc \notin {"failed", "blocked"}
DealerBid == PrivateBid(Dealer, 1, 1, BidPrice, 1)
BidAnswered ==
  /\ test.pc \in Before \cup {"bid"} => SentBy(Dealer) = {}
  /\ At("receipt") => /\ SentBy(Dealer) = {test.instruction}
                      /\ \A sig \in ActionResult(test.instruction) : sig.over.status = 1
  /\ test.pc \in {"wait", "clear", "result", "settle"} => E!BidReceipt(DealerBid) \in Receipts(1)
ClearAnswered ==
  /\ At("result") => test.instruction \in ClearsSent(1)
  /\ \A i \in SentBy(Visitor) : ~Outbids(BidOf(i).unitPriceWei)
  /\ At("result") =>
       /\ \A t \in TeeIds : exts[t].cleared[Key(1)] # NotCleared =>
            ExpectedOutcome(exts[t].cleared[Key(1)].result)
       /\ \A sig \in signed : sig.over.instructionId \in ClearsSent(1) =>
            sig.over.status = 1 /\ ExpectedOutcome(sig.over.data)

Undisturbed == ~disturbed => InTime /\ BidAnswered /\ ClearAnswered
=============================================================================
