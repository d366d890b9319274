----------------------------- MODULE MCServer ------------------------------
(***************************************************************************)
(* Instances of Server for TLC: two dealers' bids, a clear between them, a *)
(* state query, a bid that this machine cannot decrypt, rejected requests. *)
(***************************************************************************)
EXTENDS Server

CONSTANTS d, e, this, elsewhere, salt

Bid(x, nonce, price) ==
  [bidder |-> x, contractAddr |-> this, auctionId |-> 1, nonce |-> nonce,
   unitPriceWei |-> price, salt |-> salt]
BidFrom(x, to, plaintext) ==
  [opCommand |-> "QF_PRIVATE_BID",
   message |-> [auctionId |-> 1, bidder |-> x,
                ciphertext |-> [size |-> 1, recipient |-> to, plaintext |-> plaintext]]]

MCInstructions ==
  << BidFrom(d, TeeId, Bid(d, 1, 2)),
     BidFrom(e, TeeId, Bid(e, 1, 3)),
     BidFrom(e, elsewhere, Bid(e, 2, 3)),
     [opCommand |-> "QF_CLEAR",
      message |-> [auctionId |-> 1, contractAddr |-> this,
                   floorPriceWei |-> 2, ceilingPriceWei |-> 3]],
     [opCommand |-> "QF_PRIVATE_BID",
      message |-> [auctionId |-> 1, bidder |-> d, ciphertext |-> [size |-> 0]]] >>
MCRank == [x \in Bidders |-> IF x = d THEN 1 ELSE 2]
=============================================================================
