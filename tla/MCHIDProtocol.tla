--------------------------- MODULE MCHIDProtocol ---------------------------
(* Instances of HIDProtocol for TLC.                                       *)
EXTENDS HIDProtocol, TLC

FewMasks  == {ModCurrent, Bits({}), [current |-> TRUE, bits |-> {"ShiftOn"}]}
SomeMoves == {-3, 1, 2}
ManyMasks == {ModCurrent, Bits({"LeftShift"})}
             \cup [current : {TRUE}, bits : {{"ShiftOn", "RightAltOff"}, {"ShiftOff", "RightAltOn"}}]
KeySymmetry == Permutations(Keys)
=============================================================================
