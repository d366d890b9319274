----------------------------- MODULE QuietFill -----------------------------
(***************************************************************************)
(* The system: the auction contract, the enclave extensions of the         *)
(* registered machines, and the untrusted rest between them.               *)
(*                                                                         *)
(* Transport (indexer, proxy, tee-node) forwards an instruction to the     *)
(* machine it was sent to at any time after it was sent, in any order, any *)
(* number of times, or never; a retired machine is one that is never       *)
(* reached again.  tee-node signs what its extension answers, bound to the *)
(* instruction id, the submission tag and the status.  The extension       *)
(* process may be restarted on its own and then loses its memory, while    *)
(* tee-node keeps its identity (deploy/render/boot.sh).  Any relayer       *)
(* presents any signature ever made with any result.                       *)
(***************************************************************************)
EXTENDS QuietFillAuction

CONSTANTS
  AddressRank, ClearRetention,
  NoBid, NotCleared, Undecodable, DecryptFailed, NoData,
  SubmissionTags,  \* subset of {"threshold", "end", "submit"}
  MaxRestarts      \* bound on extension restarts

VARIABLES
  exts,      \* machine -> state of its extension process
  signed,    \* every [signer, over] that a tee-node has produced
  restarts

teeVars == <<exts, signed, restarts>>
sysVars == <<vars, teeVars>>

E == INSTANCE ExtensionHandlers WITH
  Bidders <- Accounts, Contracts <- {This, ForeignSender}, Auctions <- AuctionIds,
  Zero <- ZeroAddress, ZeroBytes32 <- ZeroHash

\* What ciphertexts decode to, what an extension stores of it, and what it
\* retains of a clear.
PlainBids == {c.plaintext : c \in Ciphertexts} \ {Undecodable}
Commitments == {E!Keccak256(bid) : bid \in PlainBids}
StoredBids == [nonce : Nat, unitPriceWei : Nat, commitment : Commitments]
Results ==
  [contractAddr : {This}, auctionId : AuctionIds, winner : Accounts \cup {ZeroAddress},
   unitPriceWei : Nat, winningNonce : Nat, winningCommitment : Commitments \cup {ZeroHash},
   submittedBidCount : Nat, eligibleBidCount : Nat]
RetainedResults == [result : Results, expiresAt : Nat]
Extensions ==
  [bids : [E!Keys -> [Accounts -> StoredBids \cup {NoBid}]],
   cleared : [E!Keys -> RetainedResults \cup {NotCleared}]]

\* Integers of a decoded bid are unsigned; ForeignSender stands for every
\* other contract.  Addresses are totally ordered.
ASSUME BidAssumption ==
  \A bid \in PlainBids :
    /\ bid.contractAddr \in {This, ForeignSender}
    /\ bid.auctionId \in Nat /\ bid.nonce \in Nat /\ bid.unitPriceWei \in Nat
ASSUME OrderAssumption ==
  /\ AddressRank \in [Accounts -> Nat]
  /\ \A x, y \in Accounts : AddressRank[x] = AddressRank[y] => x = y
ASSUME ExtensionAssumption ==
  /\ ClearRetention \in Nat /\ MaxRestarts \in Nat
  /\ NoBid \notin StoredBids /\ NotCleared \notin RetainedResults

SysInit ==
  /\ Init
  /\ exts = [t \in TeeIds |-> E!EmptyExtension]
  /\ signed = {}
  /\ restarts = 0

\* What the node may answer while instruction i is handled.
Plaintexts(i) ==
  IF sent[i].opCommand = "QF_PRIVATE_BID"
  THEN E!Decryptions(sent[i].teeId, sent[i].message.ciphertext)
  ELSE {NoData}

\* Nobody looks at the submission tag of a bid's result.
TagsOf(i) == IF sent[i].opCommand = "QF_CLEAR" THEN SubmissionTags ELSE {"threshold"}

\* What the extension of the addressed machine answers to instruction i: the
\* framework dispatches on the command (register).
Answer(i, plaintext) ==
  LET ext == exts[sent[i].teeId]
  IN  CASE sent[i].opCommand = "QF_PRIVATE_BID" ->
             E!HandlePrivateBid(ext, sent[i].message, plaintext, now)
        [] sent[i].opCommand = "QF_CLEAR" ->
             E!HandleClear(ext, sent[i].message, now)

\* processAction echoes the instruction id and the submission tag; tee-node
\* signs the result.
SignedResult(i, answer, tag) ==
  [signer |-> sent[i].teeId,
   over |-> [data |-> answer.data, instructionId |-> i,
             submissionTag |-> tag, status |-> answer.status]]

Deliver(i, plaintext, tag) ==
  LET answer == Answer(i, plaintext) IN
  /\ exts' = [exts EXCEPT ![sent[i].teeId] = answer.ext]
  /\ signed' = signed \cup {SignedResult(i, answer, tag)}
  /\ UNCHANGED <<vars, restarts>>

RestartExtension(t) ==
  /\ restarts < MaxRestarts
  /\ exts' = [exts EXCEPT ![t] = E!EmptyExtension]
  /\ restarts' = restarts + 1
  /\ UNCHANGED <<vars, signed>>

\* settleAuction is open to anyone: any result with any existing signature.
Relay(a) ==
  \E signature \in signed, result \in ClearResults : SettleAuction(a, result, signature)

ContractCall ==
  \/ Tick
  \/ SetExtensionId
  \/ RegisterExtension(This)
  \/ \E caller \in Accounts, base \in BaseAmounts, floor, ceiling \in PricesWei,
        bidDeadline, settleDeadline \in Deadlines, teeId \in TeeIds :
       CreateAuction(caller, base, floor, ceiling, bidDeadline, settleDeadline, teeId)
  \/ \E a \in AuctionIds :
       \/ \E caller \in Accounts, c \in Ciphertexts : SubmitPrivateBid(caller, a, c)
       \/ RequestClear(a)
       \/ Relay(a)
       \/ CancelTimedOutAuction(a)
       \/ \E caller \in Accounts : WithdrawQuote(caller, a)

SysNext ==
  \/ ContractCall /\ UNCHANGED teeVars
  \/ \E i \in DOMAIN sent :
       \E plaintext \in Plaintexts(i), tag \in TagsOf(i) : Deliver(i, plaintext, tag)
  \/ \E t \in TeeIds : RestartExtension(t)

SysSpec == SysInit /\ [][SysNext]_sysVars

-----------------------------------------------------------------------------
(* Properties                                                              *)

\* The plaintext bids for auction a that account x itself put on chain under
\* its own name, encrypted to machine t.
OwnBids(x, a, t) ==
  {sent[i].message.ciphertext.plaintext : i \in
     {j \in BidsSent(a) :
        LET m == sent[j].message IN
        /\ m.bidder = x
        /\ m.ciphertext.recipient = t /\ m.ciphertext.plaintext # Undecodable
        /\ m.ciphertext.plaintext.bidder = x
        /\ m.ciphertext.plaintext.auctionId = a}}
GenuineBid(stored, x, a, t) ==
  LET bid == stored.commitment.keccakOf
  IN  bid \in OwnBids(x, a, t) /\ bid.unitPriceWei = stored.unitPriceWei

\* "No bidder can spoof or displace another": every bid an extension holds
\* for a dealer is one that this dealer sent through the contract to this
\* machine, for this auction, even when others copy its ciphertext and after
\* restarts.
StoredBidsGenuine ==
  \A t \in TeeIds, k \in E!Keys, x \in Accounts :
    exts[t].bids[k][x] # NoBid => GenuineBid(exts[t].bids[k][x], x, k[2], t)

\* The outcome the contract recorded is one that the machine pinned at
\* creation signed for this auction's own clear instruction: no relayer can
\* alter, replay or cross-apply a result.
OutcomeSignedByPinnedTee ==
  \A a \in AuctionIds : auctions[a].state \in {"Settled", "NoFill"} =>
    \E sig \in signed :
      /\ sig.signer = auctions[a].teeId
      /\ sig.over.instructionId = auctions[a].clearInstructionId
      /\ sig.over.submissionTag = "threshold"
      /\ sig.over.status = 1
      /\ sig.over.data.contractAddr = This
      /\ sig.over.data.auctionId = a
      /\ sig.over.data.winner = auctions[a].winner
      /\ sig.over.data.unitPriceWei = auctions[a].clearingPriceWei
      /\ sig.over.data.submittedBidCount = auctions[a].submittedBidCount
      /\ sig.over.data.eligibleBidCount = auctions[a].eligibleBidCount

\* A dealer only ever pays a price that it bid itself, for this auction, in a
\* bid it sent on chain before the deadline.
WinnerPaysOwnBid ==
  \A a \in AuctionIds : auctions[a].state = "Settled" =>
    \E bid \in OwnBids(auctions[a].winner, a, auctions[a].teeId) :
      bid.unitPriceWei = auctions[a].clearingPriceWei

\* Receipts that auction a's machine signed for bids on it.
Receipts(a) ==
  {sig.over.data : sig \in
     {o \in signed : /\ o.over.status = 1
                     /\ sent[o.over.instructionId].opCommand = "QF_PRIVATE_BID"
                     /\ o.over.data.contractAddr = This
                     /\ o.over.data.auctionId = a}}

\* What makes the four inductive.  Extensions hold what their handlers put
\* there; a signature answers a sent instruction in the name of the machine
\* it was sent to.
SysTypeOK ==
  /\ exts \in [TeeIds -> Extensions]
  /\ \A sig \in signed :
       /\ sig.over.instructionId \in DOMAIN sent
       /\ sig.signer = sent[sig.over.instructionId].teeId
  /\ restarts \in Nat

\* An auction has an outcome when it is settled, not before.
OutcomeOnlyWhenSettled ==
  \A a \in AuctionIds : auctions[a].state # "Settled" =>
    auctions[a].winner = ZeroAddress /\ auctions[a].clearingPriceWei = 0

\* Results, retained or signed, name a price that the winner itself bid.
IsClear(sig) == sig.over.status = 1 /\ sent[sig.over.instructionId].opCommand = "QF_CLEAR"
IsReceipt(sig) == sig.over.status = 1 /\ sent[sig.over.instructionId].opCommand = "QF_PRIVATE_BID"
Genuine(result, t) ==
  result.winner # ZeroAddress =>
    \E bid \in OwnBids(result.winner, result.auctionId, t) :
      bid.unitPriceWei = result.unitPriceWei
ResultsGenuine ==
  /\ \A t \in TeeIds, k \in E!Keys :
       exts[t].cleared[k] # NotCleared => Genuine(exts[t].cleared[k].result, t)
  /\ \A sig \in signed : IsClear(sig) => Genuine(sig.over.data, sig.signer)

GenuineInv ==
  SysTypeOK /\ OutcomeOnlyWhenSettled /\ StoredBidsGenuine /\ ResultsGenuine
  /\ OutcomeSignedByPinnedTee /\ WinnerPaysOwnBid

\* A clear is requested at the bid deadline at the earliest, so nothing that
\* was retained for auction a is dropped from memory before this has passed.
WithinRetention(a) == now < auctions[a].bidDeadline + ClearRetention

\* A dealer whose latest receipted bid lies in the collar is not passed over:
\* an auction that ends within clearRetentionMs of its bid deadline does not
\* end unfilled or at a lower price, however instructions are reordered or
\* repeated.  Not claimed after a restart; nor later, when a clear that is
\* delivered again is computed again, from an emptied book, and still settles.
ReceiptHonoured ==
  \A a \in AuctionIds :
    restarts = 0 /\ WithinRetention(a) /\ auctions[a].state \in {"Settled", "NoFill"} =>
    \A receipt \in Receipts(a) :
      LET bid == receipt.bidCommitment.keccakOf IN
      /\ bid.unitPriceWei \in auctions[a].floorPriceWei .. auctions[a].ceilingPriceWei
      /\ \A o \in Receipts(a) : o.bidder = receipt.bidder => o.nonce <= receipt.nonce
      => /\ auctions[a].state = "Settled"
         /\ auctions[a].clearingPriceWei >= bid.unitPriceWei

\* What makes that inductive.  Receipts tell of bids in the log, and every
\* stored bid was receipted.
Key(a) == <<This, a>>
Pinned(a) == exts[auctions[a].teeId]
ReceiptsSound ==
  \A sig \in signed : IsReceipt(sig) =>
    /\ sig.over.data.auctionId = sent[sig.over.instructionId].message.auctionId
    /\ sig.over.data.bidder \in Accounts /\ sig.over.data.nonce \in Nat
    /\ sig.over.data.bidCommitment \in Commitments
StoredBidsReceipted ==
  \A t \in TeeIds, a \in AuctionIds, x \in Accounts :
    LET stored == exts[t].bids[Key(a)][x] IN
    stored # NoBid => \E receipt \in Receipts(a) :
      receipt.bidder = x /\ receipt.nonce = stored.nonce

\* What is retained for an auction answered its clear, and is retained from
\* its bid deadline on.
Answered(a) ==
  \E sig \in signed : IsClear(sig) /\ sent[sig.over.instructionId].message.auctionId = a
RetainedFromDeadline ==
  /\ \A a \in AuctionIds : auctions[a].clearInstructionId # 0 => now >= auctions[a].bidDeadline
  /\ \A t \in TeeIds, a \in AuctionIds : exts[t].cleared[Key(a)] # NotCleared =>
       /\ auctions[a].clearInstructionId # 0 /\ Answered(a)
       /\ exts[t].cleared[Key(a)].expiresAt >= auctions[a].bidDeadline + ClearRetention

\* Without a restart, a receipted bid is held until it is replaced by one of a
\* higher nonce or the auction is cleared; while it is retained the result is
\* what was signed, and it passes over no latest receipted bid in the collar.
Held(a, receipt) ==
  LET stored == Pinned(a).bids[Key(a)][receipt.bidder] IN
  /\ stored # NoBid
  /\ receipt.nonce <= stored.nonce
  /\ receipt.nonce = stored.nonce => receipt.bidCommitment = stored.commitment
Latest(a, receipt) ==
  /\ receipt.bidCommitment.keccakOf.unitPriceWei
       \in auctions[a].floorPriceWei .. auctions[a].ceilingPriceWei
  /\ \A o \in Receipts(a) : o.bidder = receipt.bidder => o.nonce <= receipt.nonce
Honours(result, receipt) ==
  /\ result.winner # ZeroAddress
  /\ result.unitPriceWei >= receipt.bidCommitment.keccakOf.unitPriceWei
HeldOrHonoured(a) ==
  LET retained == Pinned(a).cleared[Key(a)]
  IN  IF retained = NotCleared
      THEN \A receipt \in Receipts(a) : Held(a, receipt)
      ELSE \A receipt \in Receipts(a) : Latest(a, receipt) => Honours(retained.result, receipt)
Remembers(a) == WithinRetention(a) \/ ~Answered(a)
ReceiptsHeld ==
  \A a \in AuctionIds : auctions[a].state # "None" /\ Remembers(a) => HeldOrHonoured(a)
SignedIsRetained ==
  \A sig \in signed : IsClear(sig) =>
    LET a == sent[sig.over.instructionId].message.auctionId IN
    WithinRetention(a) =>
      /\ Pinned(a).cleared[Key(a)] # NotCleared
      /\ Pinned(a).cleared[Key(a)].result = sig.over.data
ReceiptInv ==
  /\ ReceiptsSound /\ StoredBidsReceipted /\ RetainedFromDeadline
  /\ restarts = 0 => ReceiptsHeld /\ SignedIsRetained
=============================================================================
