---------------------------- MODULE MCDownloads ----------------------------
(* Downloads on a small instance: two cards, two workers; a release whose    *)
(* second number is smaller, one that differs in the suffix, a newer one.    *)
EXTENDS Downloads
MCTag == {<<V, 1, Dot, 0, Dot, 9>>, <<V, 1, Dot, 2, Rest>>, <<V, 2>>}
MCCurrent == <<1, Dot, 2, Dot, 0>>
=============================================================================
