------------------------------- MODULE MCScreen -------------------------------
(* Terminals so small that lines wrap, wide characters do not fit and lines   *)
(* move up.                                                                   *)
EXTENDS TerminalScreen

Sizes == {<<2, 3>>, <<1, 4>>}
Queries == {<< >>, <<"a">>, <<"A", "a">>, <<"W", ".">>}
==============================================================================
