------------------------------- MODULE Voice -------------------------------
(***************************************************************************)
(* The voice chat's connection and its microphone.  They meet in whether   *)
(* the voice chat is off, which the microphone's model leaves open: a      *)
(* behaviour exercises one of them (part), so that their states add up     *)
(* instead of multiplying.                                                 *)
(***************************************************************************)
EXTENDS VoiceLink, Microphone

VARIABLE part   \* what this behaviour is about: the ring shares nothing with the orders

voiceVars == <<vars, micVars, part>>

VoiceInit == Init /\ MicInit /\ part \in {"link", "microphone", "ring"}

VoiceNext ==
    \/ part = "link" /\ Next /\ UNCHANGED <<micVars, part>>
    \/ part = "microphone" /\ OrdersNext /\ UNCHANGED <<vars, part>>
    \/ part = "ring" /\ RingNext /\ UNCHANGED <<vars, part>>

(* The network thread, as in VoiceLink; the consumer, too, never waits for *)
(* anybody.                                                                *)
VoiceSpec ==
    /\ VoiceInit /\ [][VoiceNext]_voiceVars
    /\ WF_voiceVars(part = "link" /\ Process /\ UNCHANGED <<micVars, part>>)
    /\ WF_voiceVars(part = "microphone" /\ Consumer /\ UNCHANGED <<vars, part>>)

(* Neither side is left hanging: a voice chat that should be on dials      *)
(* again (VoiceRedials), and a microphone asked to stop does stop, whatever *)
(* the network thread did to it in between (MicComesOff).                  *)
VoiceSettles == (part = "link" => VoiceRedials) /\ MicComesOff
=============================================================================
