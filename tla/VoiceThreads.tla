---------------------------- MODULE VoiceThreads ----------------------------
(***************************************************************************)
(* The threads of the voice chat: what they say to one another about the   *)
(* connection and the microphone (Voice), and the queue they say it        *)
(* through (SPSCQueue), of which Voice uses only that it keeps the order.  *)
(* A behaviour is about one of the two (level), while the other stays as   *)
(* it began, in one of its initial states.                                 *)
(***************************************************************************)
EXTENDS Voice, SPSCQueue

VARIABLE level  \* what this behaviour is about

threadVars == <<voiceVars, queueVars, level>>

ThreadsInit ==
    /\ VoiceInit /\ QueueInit /\ level \in {"accesses", "messages"}
    /\ level = "accesses" => part = "ring"
    /\ level = "messages" => readyToRead = [n \in Nodes |-> FALSE]

AccessesNext == level = "accesses" /\ QueueNext /\ UNCHANGED <<voiceVars, level>>
MessagesNext == level = "messages" /\ VoiceNext /\ UNCHANGED <<queueVars, level>>

(* The fairness of the two: no thread ever waits for another. *)
ThreadsSpec ==
    /\ ThreadsInit /\ [][AccessesNext \/ MessagesNext]_threadVars
    /\ WF_queueVars(level = "accesses" /\ Producer)
    /\ WF_queueVars(level = "accesses" /\ QueueConsumer)
    /\ WF_voiceVars(level = "messages" /\ part = "link" /\ Process /\ UNCHANGED <<micVars, part>>)
    /\ WF_voiceVars(level = "messages" /\ part = "microphone" /\ Consumer /\ UNCHANGED <<vars, part>>)
=============================================================================
