---------------------------- MODULE EntityPools ----------------------------
(***************************************************************************)
(* The pools of what a game mode puts into the world and on the screen,    *)
(* under the one thread that runs their RPCs and their processing, and the *)
(* restart that replaces all of them.                                      *)
(*                                                                         *)
(* The pools share no state: a behaviour exercises one of them (part), so  *)
(* that their states add up instead of multiplying.                        *)
(***************************************************************************)
EXTENDS Pickups, TextDraws, SlotPools

VARIABLE part   \* the pool this behaviour is about

vars == <<pickupVars, textDrawVars, slotPoolVars, part>>

Parts == {"pickups", "textdraws"} \cup Kinds

Init == PickupsInit /\ TextDrawsInit /\ SlotPoolsInit /\ part \in Parts

(* ShutDownForGameRestart. *)
ShutDownForGameRestart ==
    /\ ResetSlotPools /\ ResetPickupPool /\ ResetTextDrawPool
    /\ UNCHANGED part

Next ==
    \/ part = "pickups" /\ PickupsNext /\ UNCHANGED <<textDrawVars, slotPoolVars, part>>
    \/ part = "textdraws" /\ TextDrawsNext /\ UNCHANGED <<pickupVars, slotPoolVars, part>>
    \/ part \in Kinds /\ SlotPoolsNext(part) /\ UNCHANGED <<pickupVars, textDrawVars, part>>
    \/ ShutDownForGameRestart

Spec == Init /\ [][Next]_vars

-----------------------------------------------------------------------------

TypeOK == PickupsTypeOK /\ TextDrawsTypeOK /\ SlotPoolsTypeOK /\ part \in Parts

(* What the server shows, and has not taken away, is what every pool draws *)
(* and processes and what exists in the game: nothing is left behind by a  *)
(* re-creation, a refusal or a restart.                                    *)
PoolsAsShown == PickupsAsShown /\ DrawsAsShown /\ SlotsAsWanted
=============================================================================
