---------------------------- MODULE MCExtension ----------------------------
(***************************************************************************)
(* Instances of Extension for TLC: two dealers, one auction, the bids and  *)
(* the clear that the contract would send, and ones it relays unopened.    *)
(***************************************************************************)
EXTENDS Extension

CONSTANTS d, e, this, elsewhere, salt

Bid(x, addr, nonce, price, slt) ==
  [bidder |-> x, contractAddr |-> addr, auctionId |-> 1, nonce |-> nonce,
   unitPriceWei |-> price, salt |-> slt]
Sealed(to, plaintext) == [size |-> 1, recipient |-> to, plaintext |-> plaintext]
BidFrom(x, ciphertext) ==
  [opCommand |-> "QF_PRIVATE_BID",
   message |-> [auctionId |-> 1, bidder |-> x, ciphertext |-> ciphertext]]
ClearOf(addr, floor, ceiling) ==
  [opCommand |-> "QF_CLEAR",
   message |-> [auctionId |-> 1, contractAddr |-> addr,
                floorPriceWei |-> floor, ceilingPriceWei |-> ceiling]]

MCInstructions ==
  << BidFrom(d, Sealed(TeeId, Bid(d, this, 1, 2, salt))),
     BidFrom(d, Sealed(TeeId, Bid(d, this, 2, 4, salt))),        \* above the collar
     BidFrom(d, Sealed(TeeId, Bid(d, this, 2, 3, salt))),        \* the same nonce again
     BidFrom(e, Sealed(TeeId, Bid(e, this, 1, 3, salt))),
     ClearOf(this, 2, 3),
     BidFrom(e, Sealed(TeeId, Bid(d, this, 1, 2, salt))),        \* d's ciphertext, copied
     BidFrom(d, Sealed(TeeId, Bid(d, elsewhere, 1, 3, salt))),   \* another contract
     BidFrom(e, Sealed(elsewhere, Bid(e, this, 2, 3, salt))),    \* another machine's key
     BidFrom(e, Sealed(TeeId, Bid(e, this, 0, 3, salt))) >>      \* nonce zero
MCRank == [x \in Bidders |-> IF x = d THEN 1 ELSE 2]
\* For the runs that need few instructions: one bid, one clear.
MCFewInstructions == << MCInstructions[1], MCInstructions[5] >>
=============================================================================
