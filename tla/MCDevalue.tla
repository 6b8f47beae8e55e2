----------------------------- MODULE MCDevalue ------------------------------
(* Two things that may hold each other and themselves, a buffer and one     *)
(* primitive: two items each, or three and none; arrays with one item in   *)
(* 30, the shortest that both writers write by its position.               *)
EXTENDS Devalue

ThreeNodes == 1..3
OneBuffer == {3}
Thirty == {30}
TwoSizes == {<<2, 2, 0>>, <<3, 0, 0>>}
=============================================================================
