---------------------------- MODULE MCFakeClient ----------------------------
(* A small instance of FakeClient. *)
EXTENDS FakeClient

CONSTANT k1

OneKey == {k1}
EightCells == 101 .. 108
OneValue == {10}
TwoValues == {10, 20}
=============================================================================
