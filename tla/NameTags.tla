------------------------------ MODULE NameTags ------------------------------
(***************************************************************************)
(* The list of those who talk, which is made while the names over heads    *)
(* are drawn (playertags.cpp): anew in every frame, out of a count per     *)
(* player number that outlives the player's being seen.  Which players are *)
(* near enough and in sight is the game's; what a tag looks like is left   *)
(* out.                                                                    *)
(***************************************************************************)
EXTENDS Sequences, SequencesExt

CONSTANTS
    Tagged,     \* the remote players
    VoiceLimit, \* 999990, in frames; one more stands for 999999
    VoiceRows   \* how many rows the list has at most, 7

ASSUME NameTagsAssumption ==
    VoiceLimit \in Nat \ {0, 1} /\ VoiceRows \in Nat \ {0} /\ IsFiniteSet(Tagged)

Silent == VoiceLimit + 1
Beyond == VoiceLimit + 2  \* any count above that

VARIABLES
    m_iVoiceTime,  \* how long each has talked
    sinceUpdated,  \* frames since m_iLastVoiceTimeUpdated, as far as they count
    voiceRows,     \* the list the last frame drew: players with their counts
    heardNow,      \* who talked under a tag in the last frame
    unbroken       \* for how many frames each has talked and been drawn without a
                   \* break since the count began, likewise

tagVars == <<m_iVoiceTime, sinceUpdated, voiceRows, heardNow, unbroken>>

TagsInit ==
    /\ m_iVoiceTime = [p \in Tagged |-> 0]
    /\ sinceUpdated = [p \in Tagged |-> 0]
    /\ unbroken = [p \in Tagged |-> 0]
    /\ voiceRows = <<>> /\ heardNow = {}

-----------------------------------------------------------------------------

UpTo(n) == IF n > Beyond THEN Beyond ELSE n

(* What Render does with one whose tag is drawn while he talks: the count  *)
(* starts at a second and some jitter, ...                                 *)
Starts(p) == m_iVoiceTime[p] \in {0, Silent}

VoiceTime(p, jitter) ==
    IF Starts(p) THEN 1 + jitter[p] ELSE UpTo(m_iVoiceTime[p] + sinceUpdated[p])

(* ... and it is Silent for one who is drawn and does not.                 *)
VoiceTimes(drawn, talking, jitter) ==
    [p \in Tagged |-> IF p \notin drawn THEN m_iVoiceTime[p]
                      ELSE IF p \in talking THEN VoiceTime(p, jitter) ELSE Silent]

(* aVoiceSortTime, sorted: those who do not talk, or are not drawn, come   *)
(* last, where the list ends, and so do those counted to the limit.        *)
Orders(times, talkers) ==
    {o \in SetToSeqs({p \in talkers : times[p] < VoiceLimit}) :
        \A i, j \in 1 .. Len(o) : i < j => times[o[i]] <= times[o[j]]}

(* CPlayerTags::Render, with the tags, the voice and its list switched on  *)
RenderTags(drawn, talking, jitter) ==
    LET times == VoiceTimes(drawn, talking, jitter)
        talkers == drawn \cap talking
    IN
    /\ m_iVoiceTime' = times
    /\ sinceUpdated' = [p \in Tagged |->
                           IF p \in drawn THEN 1 ELSE UpTo(sinceUpdated[p] + 1)]
    /\ \E o \in Orders(times, talkers) :
          voiceRows' = [i \in 1 .. (IF Len(o) < VoiceRows THEN Len(o) ELSE VoiceRows) |-> o[i]]
    /\ heardNow' = talkers
    /\ unbroken' = [p \in Tagged |->
                      IF p \notin talkers THEN 0
                      ELSE IF Starts(p) THEN 1 ELSE UpTo(unbroken[p] + 1)]

(* drawn: those of the pool, active and in the world, near and in sight.   *)
TagsNext ==
    \E drawn, talking \in SUBSET Tagged, jitter \in [Tagged -> {0, 1}] :
        RenderTags(drawn, talking, jitter)

-----------------------------------------------------------------------------
(* The list has just those who are heard under a tag that is drawn, each   *)
(* once, the latest to begin first, and leaves one out only when it is     *)
(* full or he has been counted to the limit; who has talked without a      *)
(* break since the count began is counted for all of it.                   *)
TalkersListed ==
    /\ \A i \in 1 .. Len(voiceRows) :
          /\ voiceRows[i] \in heardNow
          /\ \A j \in 1 .. i - 1 : /\ voiceRows[j] # voiceRows[i]
                                 /\ m_iVoiceTime[voiceRows[j]] <= m_iVoiceTime[voiceRows[i]]
    /\ \A p \in heardNow :
          \/ \E i \in 1 .. Len(voiceRows) : voiceRows[i] = p
          \/ m_iVoiceTime[p] >= VoiceLimit
          \/ Len(voiceRows) = VoiceRows
    /\ \A p \in heardNow : m_iVoiceTime[p] >= unbroken[p]
=============================================================================
