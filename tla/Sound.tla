------------------------------- MODULE Sound -------------------------------
(***************************************************************************)
(* What the player hears of the others: the streams of those who talk and  *)
(* those the server places in the world.  Each has a thread and a queue of *)
(* its own, and they share nothing but the sound card: a behaviour is      *)
(* about one of them (heard), while the other stays as it began.           *)
(***************************************************************************)
EXTENDS VoiceStreams, StreamPool

VARIABLE heard  \* what this behaviour is about

soundVars == <<vars, poolVars, heard>>

SoundInit == Init /\ PoolInit /\ heard \in {"voices", "streams"}

VoicesNext == heard = "voices" /\ Next /\ UNCHANGED <<poolVars, heard>>
StreamsNext == heard = "streams" /\ PoolNext /\ UNCHANGED <<vars, heard>>

(* The fairness is that of the two threads. *)
SoundSpec ==
    /\ SoundInit /\ [][VoicesNext \/ StreamsNext]_soundVars
    /\ WF_vars(heard = "voices" /\ Consume) /\ SF_vars(heard = "voices" /\ PacketsDone)
    /\ WF_poolVars(heard = "streams" /\ Worker)
=============================================================================
