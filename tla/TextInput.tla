----------------------------- MODULE TextInput -----------------------------
(***************************************************************************)
(* What the person types into and what holds the player meanwhile.  The    *)
(* keyboard and the control switch meet only in the dialog window, whose   *)
(* input buttons the keyboard takes at any time: a behaviour exercises one *)
(* of the two (inputPart), so that their states add up and not multiply.   *)
(***************************************************************************)
EXTENDS Keyboard, PlayerControl

VARIABLE inputPart   \* what this behaviour is about

inputVars == <<keyboardVars, controlVars, inputPart>>

InputInit == KeyboardInit /\ ControlInit /\ inputPart \in {"keyboard", "control"}

InputNext ==
    \/ inputPart = "keyboard" /\ KeyboardNext /\ UNCHANGED <<controlVars, inputPart>>
    \/ inputPart = "control" /\ ControlNext /\ UNCHANGED <<keyboardVars, inputPart>>

InputSpec == InputInit /\ [][InputNext]_inputVars

-----------------------------------------------------------------------------

InputTypeOK == KeyboardTypeOK /\ ControlTypeOK /\ inputPart \in {"keyboard", "control"}
=============================================================================
