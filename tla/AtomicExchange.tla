-------------------------- MODULE AtomicExchange ---------------------------
(***************************************************************************)
(* What the auction contract promises its users, without contracts,        *)
(* escrows, enclaves or clocks.  Each account has a wealth in each token.  *)
(* A lot is listed once, under fixed terms, and ends sold or closed.  The  *)
(* only step that changes anybody's wealth is a sale: in one step the lot  *)
(* goes from the seller to the winner and the rounded-up price goes from   *)
(* the winner to the seller.                                               *)
(***************************************************************************)
EXTENDS Pricing

CONSTANTS
  Accounts, Nobody, Ids,
  BASE_TOKEN, QUOTE_TOKEN, InitialBalance,
  BaseAmounts, PricesWei

VARIABLES
  wealth,  \* token -> account -> amount
  lots     \* id -> [status, seller, base, floor, ceiling]

exchangeVars == <<wealth, lots>>

Unlisted == [status |-> "unlisted", seller |-> Nobody, base |-> 0, floor |-> 0, ceiling |-> 0]

Init ==
  /\ wealth = [t \in {BASE_TOKEN, QUOTE_TOKEN} |-> [x \in Accounts |-> InitialBalance]]
  /\ lots = [a \in Ids |-> Unlisted]

Pay(w, token, from, to, amount) ==
  [[w EXCEPT ![token][from] = @ - amount] EXCEPT ![token][to] = @ + amount]

List(a, seller, base, floor, ceiling) ==
  /\ lots[a].status = "unlisted"
  /\ 0 < base /\ base <= wealth[BASE_TOKEN][seller]
  /\ 0 < floor /\ floor <= ceiling
  /\ lots' = [lots EXCEPT ![a] = [status |-> "listed", seller |-> seller, base |-> base,
                                  floor |-> floor, ceiling |-> ceiling]]
  /\ UNCHANGED wealth

Sell(a, winner, price) ==
  LET lot == lots[a]
      paid == QuoteFor(lot.base, price)
  IN
  /\ lot.status = "listed"
  /\ lot.floor <= price /\ price <= lot.ceiling
  /\ paid <= wealth[QUOTE_TOKEN][winner]
  /\ lots' = [lots EXCEPT ![a].status = "sold"]
  /\ wealth' = Pay(Pay(wealth, BASE_TOKEN, lot.seller, winner, lot.base),
                   QUOTE_TOKEN, winner, lot.seller, paid)

Close(a) ==
  /\ lots[a].status = "listed"
  /\ lots' = [lots EXCEPT ![a].status = "closed"]
  /\ UNCHANGED wealth

Next ==
  \E a \in Ids :
    \/ \E seller \in Accounts, base \in BaseAmounts, floor, ceiling \in PricesWei :
         List(a, seller, base, floor, ceiling)
    \/ \E winner \in Accounts : \E price \in lots[a].floor .. lots[a].ceiling :
         Sell(a, winner, price)
    \/ Close(a)

Spec == Init /\ [][Next]_exchangeVars
=============================================================================
