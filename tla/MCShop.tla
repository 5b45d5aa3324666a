------------------------------- MODULE MCShop -------------------------------
(***************************************************************************)
(* Safety of what a shop sells: small instances of the three parts of      *)
(* Goods.                                                                  *)
(***************************************************************************)
EXTENDS Goods, TLC

CONSTANTS i1, i2, i3, h1, h2, h3, c1, c2, v1       \* model values
-----------------------------------------------------------------------------
\* Stock: purchases and sales at two places, one of them the default location.
StockAsk(key, where, type, quantity) ==
  [key |-> key, by |-> "ann", where |-> where, type |-> type, quantity |-> quantity,
   rest |-> "plain"]

MCHandlers == {h1, h2, h3}
MCIds == {i1, i2, i3}
MCCreates ==
  {StockAsk("k1", Unspecified, "IN_PURCHASE", 2), StockAsk("k2", "shop", "OUT_SALE", 1)}
MCEdits ==
  {StockAsk("k2", "shop", "IN_PURCHASE", 1), StockAsk("k3", Unspecified, "OUT_LOSS", 1)}

Symmetric == Permutations({i1, i2, i3}) \union Permutations({h1, h2, h3})

\* Catalogue: two writes of one variant and its images.
MCCalls == {c1, c2}
MCImageAsks == {Keep, NoImage, "p"}
MCPublicAsks == {Omit, TRUE, FALSE}

\* Preorder items: bodies with whole and partial rules, baskets of one or two items.
Rule(variant, min, max, step) == [variant |-> variant, min |-> min, max |-> max, step |-> step]

RuleLists ==
  {<<>>, <<Rule("a", 1, 3, 2)>>, <<Rule("a", 2, 3, 1), Rule("b", 1, 3, 1)>>,
   <<Rule("b", Omit, Omit, Omit)>>, <<Rule("b", Omit, 1, Omit)>>,
   <<Rule(Omit, Omit, Omit, Omit), Rule("b", Omit, Omit, Omit)>>,
   <<Rule(Omit, 1, Omit, Omit), Rule("a", 1, 3, 1)>>}
ItemAsks == [variant : {"a", "b"}, quantity : 1..3, price : {1, 3}]

MCSettings == [enabled : {TRUE, FALSE, Omit}, rules : RuleLists \union {Omit}]
MCBaskets == {<<i>> : i \in ItemAsks} \union {<<i, j>> : i, j \in ItemAsks}
=============================================================================
