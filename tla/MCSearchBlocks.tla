--------------------------- MODULE MCSearchBlocks ---------------------------
(* Texts of two letters, with a hash that lets different trigrams collide. *)
EXTENDS SearchBlocks

MCLetters == {"a", "b"}
MCSlots == 0..2
Weight(c) == IF c = "a" THEN 0 ELSE 1
MCHash == [g \in MCLetters \X MCLetters \X MCLetters |->
             {(Weight(g[1]) + 2 * Weight(g[2])) % 3, (Weight(g[2]) + Weight(g[3])) % 3}]

MCTexts == {<<"a">>, <<"b", "a", "b">>, <<"a", "a", "b">>}
MCQueries ==
  {<< >>, <<"b">>, <<"a", "b">>, <<"b", "b">>, <<"a", "a", "b">>, <<"a", "b", "a">>}
MCLimits == {0, 1, 3}
MCLayouts == {<<1, 0>>, <<2, 0>>, <<1, 2>>, <<2, 2>>, <<2, 4>>, <<1, 3>>}
=============================================================================
