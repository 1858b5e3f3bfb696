--------------------------- MODULE MCWindowFocus ----------------------------
(* Two clients whose surfaces have the same ids, as objects of different   *)
(* clients do.                                                             *)
EXTENDS WindowFocus

CONSTANTS c1, c2

TwoWindows == {<<c1, 1>>, <<c2, 1>>}
ThreeWindows == {<<c1, 1>>, <<c1, 2>>, <<c2, 1>>}
OneEach == {<<c1, 1>>, <<c2, 1>>}
OnlyTheFirst == {<<c1, 1>>}
LateKeyboard == {<<c1, 1>>, <<c1, 2>>}
=============================================================================
