------------------------------ MODULE MCCrawl -------------------------------
(* Two items, one of them up to three levels deep, under names that may be    *)
(* read as percent-encoded text or not.                                       *)
EXTENDS Crawl

MCDeep == {<<"a">>, <<"a", "x">>, <<"a", "x", "y">>, <<"b">>}
MCFlat == {<<"a">>, <<"b">>}

MCPlain == [n \in Names |-> n]

\* "a" stands for a name like 50%20off, "b" for 50 off.
MCPercent == [n \in Names |-> IF n = "a" THEN "b" ELSE n]
=============================================================================
