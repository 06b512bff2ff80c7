---------------------------- MODULE MCMarketSales ----------------------------
(***************************************************************************)
(* One item in two assets: a stack of two copies and a single one, so that *)
(* a part of a stack, an asset and the last copy can all be sold.          *)
(***************************************************************************)
EXTENDS MarketSales

MCAssets == {"stack", "single"}
MCCopies == [a \in MCAssets |-> IF a = "stack" THEN 2 ELSE 1]

One(asset) == [asset |-> asset, quantity |-> 1]
MCBaskets  == {<<One("stack")>>, <<One("single")>>, <<One("stack"), One("single")>>}
=============================================================================
