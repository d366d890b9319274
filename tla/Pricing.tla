------------------------------ MODULE Pricing ------------------------------
(***************************************************************************)
(* The price arithmetic of QuietFillAuction (contracts/InstructionSender   *)
(* .sol).  Prices are quote units per PRICE_SCALE base units; amounts are  *)
(* uint256 and Solidity 0.8 reverts on overflow and underflow.             *)
(***************************************************************************)
EXTENDS Integers

CONSTANTS
  PRICE_SCALE,    \* 1e18 in the contract
  MAX_COMPONENT,  \* 1e36 in the contract: bound on a lot and on a price
  UINT256_MAX     \* 2^256 - 1 in the EVM

\* The contract divides by the scale.
ASSUME ScaleAssumption == PRICE_SCALE \in Nat \ {0}

\* What the choice 1e36 is for: the product of two admitted components fits
\* a word (1e72 < 2^256).
ASSUME ComponentAssumption ==
  /\ MAX_COMPONENT \in Nat
  /\ UINT256_MAX \in Nat
  /\ MAX_COMPONENT * MAX_COMPONENT <= UINT256_MAX

\* The component bounds that createAuction and quoteAmount enforce.
ComponentFits(x) == x <= MAX_COMPONENT

\* Whether the checked multiplication in _quoteFor returns (else: Panic).
ProductFits(baseAmount, unitPriceWei) == baseAmount * unitPriceWei <= UINT256_MAX

\* Faulty variant: rounds down.
QuoteForFloor(baseAmount, unitPriceWei) == (baseAmount * unitPriceWei) \div PRICE_SCALE

\* _quoteFor: the quote a lot costs at a unit price, rounded up.
QuoteFor(baseAmount, unitPriceWei) ==
  LET product == baseAmount * unitPriceWei
  IN  IF product = 0 THEN 0 ELSE ((product - 1) \div PRICE_SCALE) + 1
=============================================================================
