---------------------------- MODULE MCQuietFill ----------------------------
(***************************************************************************)
(* An instance of QuietFill for TLC.                                       *)
(***************************************************************************)
EXTENDS QuietFill

CONSTANTS d, e, t1, salt

Sealed(to, x, nonce, price) ==
  [size |-> 1, recipient |-> to,
   plaintext |-> [bidder |-> x, contractAddr |-> This, auctionId |-> 1, nonce |-> nonce,
                  unitPriceWei |-> price, salt |-> salt]]

\* d bids more than e.  A collar holds both prices or one of them.
MCCiphertexts ==
  { Sealed(t1, d, 1, 3), Sealed(t1, e, 1, 2) }

Result(a, w, p, n, com, sub, elig) ==
  [contractAddr |-> This, auctionId |-> a, winner |-> w, unitPriceWei |-> p,
   winningNonce |-> n, winningCommitment |-> com,
   submittedBidCount |-> sub, eligibleBidCount |-> elig]

\* Every result an extension can compute from these bids, and tampered ones
\* (another price, another winner).
MCResults ==
  LET plain == {c.plaintext : c \in Ciphertexts}
  IN  {Result(1, ZeroAddress, 0, 0, ZeroHash, n, 0) : n \in 0 .. 2}
      \cup {Result(1, b.bidder, b.unitPriceWei, b.nonce, [keccakOf |-> b], n[1], n[2]) :
              b \in plain, n \in {<<1, 1>>, <<2, 1>>, <<2, 2>>}}
      \cup {Result(1, b.bidder, 2, 1, [keccakOf |-> b], 1, 1) : b \in plain}
      \cup {Result(1, e, 3, 1, [keccakOf |-> b], 1, 1) : b \in plain}

MCRank == [x \in Accounts |-> IF x = d THEN 1 ELSE 2]
NoneBlocked == {}
=============================================================================
