------------------------------ MODULE MCClient ------------------------------
(***************************************************************************)
(* An instance of Client for TLC.                                          *)
(***************************************************************************)
EXTENDS Client

CONSTANTS s, d, e, t1, t2

MCRank == [x \in Accounts |-> IF x = d THEN 1 ELSE IF x = e THEN 2 ELSE 3]
\* A losing bid, then one that wins.
MCPrices == <<2, 3>>
MCCiphertexts == {Encrypt(bid, t) : bid \in ClientBids, t \in TeeIds}
None == {}
=============================================================================
