----------------------------- MODULE MCCoreList -----------------------------
(* Instances of CoreList for TLC: a short line, one that just fits a page, *)
(* and one longer than two pages.                                          *)
EXTENDS CoreList

CONSTANTS a, b, c

MCNames == {a, b, c}
MCPartials == {b}
MCSize == [n \in MCNames |-> CASE n = a -> 1 [] n = b -> 2 [] n = c -> 5]
MCMaxChoices == {0, 2, 3}

=============================================================================
