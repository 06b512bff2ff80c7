-------------------------- MODULE MCInventoryPrices --------------------------
(***************************************************************************)
(* Two cards; and, for their prices, a wallet of two decimals with a grid  *)
(* of one, one of two decimals with a grid of five, one without decimals,  *)
(* one of three, and an older one with a fixed fee of Steam.               *)
(***************************************************************************)
EXTENDS InventoryPrices, MarketMoney

Percent(n) == [num |-> n, den |-> 100]

MCWallet(currency, minor, minimum, increment, base) ==
    [currency |-> currency, minor |-> minor, minimum |-> minimum, increment |-> increment,
     steamRate |-> Percent(5), steamBase |-> base]

MCWallets == {MCWallet(1, 2, 1, 1, 0), MCWallet(2, 2, 10, 5, 0), MCWallet(3, 0, 100, 100, 0),
              MCWallet(4, 3, 1, 1, 0), MCWallet(5, 2, 2, 1, 1)}

MCRates == {Percent(0), Percent(10), Percent(33)}

MCReferences == 0..70 \cup {100 * n : n \in 1..30}

MCRuleSets ==
    [adjustment : {-10, -1, 0, 2}, min : {None, 3, 22}, max : {None, 22, 45},
     currency : {None, 1, 3, 4}]

\* A quote is the highest that the price of the market, the fees and the limits of the
\* user allow (quoteFromBuyerCap, quoteWithRules).  It depends on no variable, so the
\* first state is enough to evaluate it.
QuotesAreBest == Init => SearchIsExact /\ LimitsAreKept
=============================================================================
