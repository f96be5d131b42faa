-------------------------------- MODULE MCSearch --------------------------------
(* SearchQuery with keywords in both cases, parentheses, whole predicates in one
   argument, and values with a blank, a quote or a parenthesis in them. *)
EXTENDS SearchQuery, TLC

MCArgs ==
  {<<"or">>, <<"and">>, <<"not">>, <<"(">>, <<"a">>, <<"like">>, <<"OR">>,
   <<"CONTAINS">>, <<"contains">>, <<"a", "=", "5">>, <<"(", "b", "<", "=", "a">>,
   <<"a", "!", "=">>, <<"b", ")">>, <<"b", "_", "or">>, <<"b", "\\", "'", "_">>,
   <<"b", "'", "_", "or">>}
MCAsc == <<"b">>
MCDes == <<"a", "b">>
================================================================================
