--------------------------- MODULE MCKeyboardForm ---------------------------
(* Instances of KeyboardForm for TLC.                                      *)
EXTENDS KeyboardForm

(* What changes what is shown; every message is asked about by AnswersTrue. *)
Resets == {m \in ControlMessages :
             \/ m.type = "HIDControl" /\ m.code = "SoftReset"
             \/ m.type = "SetReport" /\ ~ m.short /\ m.report = "Output" /\ m.id = 1}
=============================================================================
