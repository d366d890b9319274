----------------------------- MODULE MCAuction -----------------------------
(***************************************************************************)
(* Instances of QuietFillAuction for TLC.                                  *)
(***************************************************************************)
EXTENDS QuietFillAuction, TLC

CONSTANTS s, d, r, c1

\* Results a TEE might sign: fills at every price of interest (below, in and
\* above the collars) for every account, no-fills, and malformed ones.
Fill(addr, a, w, p, n, com, sub, elig) ==
  [contractAddr |-> addr, auctionId |-> a, winner |-> w, unitPriceWei |-> p,
   winningNonce |-> n, winningCommitment |-> com,
   submittedBidCount |-> sub, eligibleBidCount |-> elig]

MCResults ==
  {Fill(This, a, w, p, 1, c1, 1, 1) : a \in AuctionIds, w \in Accounts, p \in 0 .. 4}
  \cup {Fill(This, a, ZeroAddress, 0, 0, ZeroHash, 1, 0) : a \in AuctionIds}
  \cup {Fill(This, 1, ZeroAddress, 1, 0, ZeroHash, 1, 0),
        Fill(This, 1, ZeroAddress, 0, 0, ZeroHash, 1, 1),
        Fill(This, 1, d, 3, 0, c1, 1, 1),
        Fill(This, 1, d, 3, 1, ZeroHash, 1, 1),
        Fill(This, 1, d, 3, 1, c1, 1, 2),
        Fill(This, 1, d, 3, 1, c1, 1, 0),
        Fill(ForeignSender, 1, d, 3, 1, c1, 1, 1)}

MCCiphertexts == {[size |-> 1]}
NoneBlocked == {}
SellerBlocked == {<<BASE_TOKEN, s>>}
=============================================================================
