----------------------------- MODULE Extension -----------------------------
(***************************************************************************)
(* One enclave extension process answering the instructions that its       *)
(* tee-node forwards: any instruction at any time, in any order, any       *)
(* number of times or never (the transport gives no guarantee, and each    *)
(* instruction is forwarded again under another submission tag).  Handlers *)
(* are atomic, as the server's promise chain makes them.                   *)
(***************************************************************************)
EXTENDS ExtensionHandlers, Sequences, FiniteSetsExt

CONSTANTS
  TeeId,           \* the node's identity, hence the key bids are encrypted to
  Instructions,    \* id -> [opCommand, message], as the contract sent them
  MaxDeliveries,   \* bound on handled deliveries
  MaxDecryptFailures,  \* bound on failed decryptions
  MaxClock         \* bound on the process clock

VARIABLES
  ext,      \* the process state: handlers.ts's two maps
  clock,    \* Date.now()
  answers   \* the action results returned so far: [id, at, plaintext, status, data]

extensionVars == <<ext, clock, answers>>

Init ==
  /\ ext = EmptyExtension
  /\ clock = 0
  /\ answers = <<>>

IsBid(id) == Instructions[id].opCommand = "QF_PRIVATE_BID"

\* Whether handling instruction id awaits the node's decrypt.
Suspends(id) == IsBid(id) /\ Instructions[id].message.ciphertext.size # 0

\* What the node may answer meanwhile.
Plaintexts(id) ==
  IF Suspends(id) THEN Decryptions(TeeId, Instructions[id].message.ciphertext) ELSE {NoData}

\* What instructions decrypt to, when that is a bid.
PlainBids ==
  (UNION {Plaintexts(id) : id \in {j \in DOMAIN Instructions : Suspends(j)}})
    \ {DecryptFailed, Undecodable}

\* The contract sends instructions for its own auctions, a clear with the
\* collar it checked at creation; the integers of a decoded bid are unsigned.
ASSUME InstructionAssumption ==
  /\ IsFiniteSet(Bidders) /\ Zero \notin Bidders /\ Auctions \subseteq Nat
  /\ \A id \in DOMAIN Instructions : LET m == Instructions[id].message IN
       IF IsBid(id) THEN m.bidder \in Bidders /\ m.auctionId \in Auctions
       ELSE /\ m.contractAddr \in Contracts /\ m.auctionId \in Auctions
            /\ m.floorPriceWei \in Nat /\ m.ceilingPriceWei \in Nat
            /\ ValidClear(m)
  /\ \A bid \in PlainBids :
       /\ bid.contractAddr \in Contracts
       /\ bid.auctionId \in Nat /\ bid.nonce \in Nat /\ bid.unitPriceWei \in Nat
ASSUME BoundAssumption == MaxDeliveries \in Nat /\ MaxDecryptFailures \in Nat /\ MaxClock \in Nat

\* The two handlers registered with the framework (register).
Outcome(id, plaintext) ==
  IF IsBid(id) THEN HandlePrivateBid(ext, Instructions[id].message, plaintext, clock)
               ELSE HandleClear(ext, Instructions[id].message, clock)

Failures == {p \in DOMAIN answers : answers[p].plaintext = DecryptFailed}

Handle(id, plaintext) ==
  LET outcome == Outcome(id, plaintext) IN
  /\ Len(answers) < MaxDeliveries
  /\ plaintext = DecryptFailed => Cardinality(Failures) < MaxDecryptFailures
  /\ ext' = outcome.ext
  /\ answers' = Append(answers, [id |-> id, at |-> clock, plaintext |-> plaintext,
                                 status |-> outcome.status, data |-> outcome.data])
  /\ UNCHANGED clock

Advance ==
  /\ clock < MaxClock
  /\ clock' = clock + 1
  /\ UNCHANGED <<ext, answers>>

Next ==
  \/ Advance
  \/ \E id \in DOMAIN Instructions : \E plaintext \in Plaintexts(id) : Handle(id, plaintext)

Spec == Init /\ [][Next]_extensionVars

-----------------------------------------------------------------------------
(* Properties                                                              *)

\* What an extension stores of a decrypted bid, retains of a clear, answers.
Commitments == {Keccak256(bid) : bid \in PlainBids}
StoredBids == [nonce : Nat, unitPriceWei : Nat, commitment : Commitments]
Results ==
  [contractAddr : Contracts, auctionId : Auctions, winner : Bidders \cup {Zero},
   unitPriceWei : Nat, winningNonce : Nat, winningCommitment : Commitments \cup {ZeroBytes32},
   submittedBidCount : Nat, eligibleBidCount : Nat]
RetainedResults == [result : Results, expiresAt : Nat]
Receipts ==
  [contractAddr : Contracts, auctionId : Auctions, bidder : Bidders, nonce : Nat,
   bidCommitment : Commitments]
Extensions ==
  [bids : [Keys -> [Bidders -> StoredBids \cup {NoBid}]],
   cleared : [Keys -> RetainedResults \cup {NotCleared}]]
Answers ==
  [id : DOMAIN Instructions, at : 0 .. MaxClock,
   plaintext : UNION {Plaintexts(id) : id \in DOMAIN Instructions},
   status : {0, 1}, data : Results \cup Receipts \cup {NoData}]

\* The markers of the two maps are no entries of theirs.
ASSUME MarkerAssumption == NoBid \notin StoredBids /\ NotCleared \notin RetainedResults

\* The maps hold stored bids and retained results under their own keys, no
\* result is retained for too long, and answers are in the order of time.
TypeOK ==
  /\ clock \in 0 .. MaxClock
  /\ answers \in Seq(Answers) /\ Len(answers) <= MaxDeliveries
  /\ \A q \in DOMAIN answers :
       /\ answers[q].plaintext \in Plaintexts(answers[q].id)
       /\ answers[q].at <= clock
       /\ \A p \in 1 .. q : answers[p].at <= answers[q].at
  /\ ext \in Extensions
  /\ \A k \in Keys : ext.cleared[k] # NotCleared =>
       /\ ext.cleared[k].expiresAt <= clock + ClearRetention
       /\ AuctionKey(ext.cleared[k].result) = k

\* The positions of a log at which a clear of key was answered, and the first.
ClearsOf(log, key) ==
  {p \in DOMAIN log : /\ ~IsBid(log[p].id)
                      /\ AuctionKey(Instructions[log[p].id].message) = key}
FirstClear(log, key) == Min(ClearsOf(log, key))

\* Positions up to p at which a well-formed bid of x for key arrived, was
\* decrypted, and was sent on chain by x for that auction.
GenuineBid(answer, key, x) ==
  LET message == Instructions[answer.id].message
      bid == answer.plaintext
  IN  /\ Suspends(answer.id)
      /\ bid \notin {DecryptFailed, Undecodable}
      /\ ValidBid(bid)
      /\ message.bidder = x /\ bid.bidder = x
      /\ AuctionKey(bid) = key /\ message.auctionId = key[2]
GenuineBids(log, key, x, p) == {q \in DOMAIN log : q <= p /\ GenuineBid(log[q], key, x)}

\* The reference: x's standing bid is the one with its highest nonce and, of
\* several with that nonce, the one that arrived first.
StandingBid(log, key, x, p) ==
  LET arrived == GenuineBids(log, key, x, p)
      nonce(q) == log[q].plaintext.nonce
      top == {q \in arrived : \A o \in arrived : nonce(o) <= nonce(q)}
  IN  log[Min(top)].plaintext

\* Until an auction is cleared, the process holds for each dealer exactly its
\* standing bid, in whatever order and however often instructions arrived.
StandingBidsStored ==
  \A key \in Keys : ClearsOf(answers, key) = {} => \A x \in Bidders :
    IF GenuineBids(answers, key, x, Len(answers)) = {}
    THEN ext.bids[key][x] = NoBid
    ELSE /\ ext.bids[key][x] # NoBid
         /\ ext.bids[key][x].commitment = Keccak256(StandingBid(answers, key, x, Len(answers)))

\* The answer at position p of a log, to a clear of key, names the dealer
\* whose standing bid is the highest inside the collar (the lowest address
\* among equals) and its price and commitment, counts every dealer that bid
\* and every one inside the collar, and is an explicit no-fill when there is
\* none.
ClearCorrect(log, key, p) ==
  LET m == Instructions[log[p].id].message
      r == log[p].data
      dealers == {x \in Bidders : GenuineBids(log, key, x, p) # {}}
      offer(x) == StandingBid(log, key, x, p).unitPriceWei
      inside == {x \in dealers : offer(x) \in m.floorPriceWei .. m.ceilingPriceWei}
  IN  /\ log[p].status = 1
      /\ r.submittedBidCount = Cardinality(dealers)
      /\ r.eligibleBidCount = Cardinality(inside)
      /\ inside = {} => r.winner = Zero /\ r.unitPriceWei = 0
      /\ inside # {} =>
           /\ r.winner \in inside
           /\ r.unitPriceWei = Max({offer(x) : x \in inside})
           /\ \A x \in inside : offer(x) = r.unitPriceWei =>
                AddressRank[r.winner] <= AddressRank[x]
           /\ r.winningCommitment = Keccak256(StandingBid(log, key, r.winner, p))

\* The first answer to a clear of an auction is the correct one.
FirstClearCorrect ==
  \A key \in Keys : ClearsOf(answers, key) # {} =>
    ClearCorrect(answers, key, FirstClear(answers, key))

\* Whether a result given at position p of a log was still retained at q.
StillRetained(log, p, q) == log[q].at < log[p].at + ClearRetention

\* A clear delivered again (under another submission tag, by a retry) while
\* its result is retained gets the first answer, whatever bids arrived since.
ClearStableWhileRetained ==
  \A key \in Keys : LET first == FirstClear(answers, key) IN
    \A q \in ClearsOf(answers, key) : StillRetained(answers, first, q) =>
      answers[q].data = answers[first].data

\* From the clear of an auction on, while its result is retained, no delivery
\* brings a plaintext bid of it back into memory.
PurgedWhileRetained ==
  \A key \in Keys : LET first == FirstClear(answers, key) IN
    /\ ClearsOf(answers, key) # {}
    /\ \A q \in DOMAIN answers : q > first => StillRetained(answers, first, q)
    => Submitted(ext, key) = {}

\* What makes these inductive.  An auction that was never cleared has no
\* retained result and holds the standing bids, nonce and price included;
\* while nothing was delivered after its retention, a cleared auction has the
\* first answer in memory and no bids.
StoredBid(bid) ==
  [nonce |-> bid.nonce, unitPriceWei |-> bid.unitPriceWei, commitment |-> Keccak256(bid)]
HoldsStandingBids(log, e, key) ==
  ClearsOf(log, key) = {} =>
    /\ e.cleared[key] = NotCleared
    /\ \A x \in Bidders : e.bids[key][x] =
         IF GenuineBids(log, key, x, Len(log)) = {} THEN NoBid
         ELSE StoredBid(StandingBid(log, key, x, Len(log)))
RemembersFirstClear(log, e, key) ==
  LET first == FirstClear(log, key) IN
  /\ ClearsOf(log, key) # {}
  /\ \A q \in DOMAIN log : q > first => StillRetained(log, first, q)
  => /\ e.cleared[key] # NotCleared
     /\ e.cleared[key] = [result |-> log[first].data, expiresAt |-> log[first].at + ClearRetention]
     /\ Submitted(e, key) = {}
ExtensionInv ==
  /\ TypeOK /\ FirstClearCorrect /\ ClearStableWhileRetained
  /\ \A key \in Keys : HoldsStandingBids(answers, ext, key) /\ RemembersFirstClear(answers, ext, key)

\* The first of the two without the retention, as the documentation states it:
\* "re-delivered clears get a cached, byte-identical result" (README.md:66).
ClearAnswersIdentical ==
  \A key \in Keys : \A p, q \in ClearsOf(answers, key) : answers[p].data = answers[q].data
=============================================================================
