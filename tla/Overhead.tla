------------------------------ MODULE Overhead ------------------------------
(***************************************************************************)
(* What is drawn over heads and at places: the chat bubbles                *)
(* (playertags.cpp) and the 3D labels (textlabelpool.cpp), while the       *)
(* players and vehicles they hang on come, go and leave the world's        *)
(* sectors.                                                                *)
(***************************************************************************)
EXTENDS Naturals

CONSTANTS
    Talkers,     \* the remote players
    LabelCars,   \* the vehicles labels hang on
    LabelMe,     \* the local player
    NoAnchor,    \* INVALID_PLAYER_ID and INVALID_VEHICLE_ID
    BubbleTimes  \* how many frames a bubble may be meant to last

ASSUME OverheadAssumption ==
    /\ LabelMe \notin Talkers /\ NoAnchor \notin Talkers \cup LabelCars \cup {LabelMe}
    /\ BubbleTimes \subseteq Nat /\ BubbleTimes # {}

Texts == {"first", "second"}
LongestBubble == CHOOSE n \in BubbleTimes : \A k \in BubbleTimes : k <= n

VARIABLES
    presence,   \* of each player and vehicle: "gone", "unadded" (not in the world),
                \* "there"; the local player's ped may be "dead", too
    m_bChatBubbleStatus, m_dwTime,
    age,        \* frames since m_dwStartTime, as far as they count
    m_pSzText,  \* the bubble's buffer and what is in it
    said,       \* what each player last said
    late,       \* how often a bubble was drawn although its time was over
    bubbles,    \* those the last frame drew, with their text
    label,      \* the players' and the vehicles' label: where it hangs
    marks       \* where the last frame drew it

bubbleVars == <<m_bChatBubbleStatus, m_dwTime, age, m_pSzText, said, late>>
overheadVars == <<presence, bubbleVars, bubbles, label, marks>>

Anchors == Talkers \cup LabelCars \cup {LabelMe}

OverheadInit ==
    /\ presence = [a \in Anchors |-> IF a = LabelMe THEN "there" ELSE "gone"]
    /\ m_bChatBubbleStatus = [p \in Talkers |-> FALSE]
    /\ m_dwTime = [p \in Talkers |-> 0] /\ age = [p \in Talkers |-> 0]
    /\ m_pSzText = [p \in Talkers |-> NoAnchor] /\ said = [p \in Talkers |-> NoAnchor]
    /\ late = [p \in Talkers |-> 0]
    /\ bubbles = {} /\ marks = {}
    /\ label \in {[player |-> p, vehicle |-> v] :
                     p \in Talkers \cup {LabelMe, NoAnchor}, v \in LabelCars \cup {NoAnchor}}

-----------------------------------------------------------------------------

(* The pools and the game: what hangs on an entity stays behind. *)
Comes(a, how) ==
    /\ presence[a] # how /\ presence' = [presence EXCEPT ![a] = how]
    /\ bubbles' = {} /\ marks' = {}
    /\ UNCHANGED <<bubbleVars, label>>

(* AddChatBubble.  Over a bubble that still shows it writes into that      *)
(* one's buffer, else into a new one; the time begins anew in both cases.  *)
AddChatBubble(p, t, time) ==
    /\ m_pSzText' = [m_pSzText EXCEPT ![p] = t] /\ said' = [said EXCEPT ![p] = t]
    /\ m_bChatBubbleStatus' = [m_bChatBubbleStatus EXCEPT ![p] = TRUE]
    /\ m_dwTime' = [m_dwTime EXCEPT ![p] = time]
    /\ age' = [age EXCEPT ![p] = 0] /\ late' = [late EXCEPT ![p] = 0]
    /\ bubbles' = {} /\ marks' = {}
    /\ UNCHANGED <<presence, label>>

(* CPlayerTags::Render, with the tags switched on: near are the players    *)
(* within their bubble's distance.  No text is drawn for a dead one.       *)
IsActive(p) == presence[p] # "gone"

BubbleDrawn(p, near) ==
    /\ IsActive(p) /\ m_bChatBubbleStatus[p] /\ p \in near /\ presence[p] = "there"
    /\ presence[LabelMe] # "dead"

(* Mutant: only a bubble out of sight is looked at. *)
Expires_OnlyNear(p, near) ==
    /\ IsActive(p) /\ m_bChatBubbleStatus[p] /\ age[p] >= m_dwTime[p]
    /\ p \notin near

(* One that is near and not in the world is passed over. *)
Expires(p, near) ==
    /\ IsActive(p) /\ m_bChatBubbleStatus[p] /\ age[p] >= m_dwTime[p]
    /\ ~(p \in near /\ presence[p] = "unadded")

ResetChatBubbles(who) ==
    /\ m_bChatBubbleStatus' = [p \in Talkers |-> m_bChatBubbleStatus[p] /\ p \notin who]
    /\ m_dwTime' = [p \in Talkers |-> IF p \in who THEN 0 ELSE m_dwTime[p]]

(* A label on a player or on a vehicle is drawn while that one is in the   *)
(* world, ...                                                              *)
DrawAttachedToPlayer == {p \in Talkers : p = label.player /\ presence[p] = "there"}
DrawAttachedToVehicle == {v \in LabelCars : v = label.vehicle /\ presence[v] = "there"}

(* ... and any while the local player is, who is not drawn one himself;    *)
(* what is within sight and distance is the game's.                        *)
DrawTextLabel(where) == IF presence[LabelMe] = "there" THEN where ELSE {}

(* CText3DLabelsPool::Draw: the player comes first, then the vehicle.      *)
LabelDrawn ==
    DrawTextLabel(
        IF label.player # NoAnchor THEN DrawAttachedToPlayer
        ELSE IF label.vehicle # NoAnchor THEN DrawAttachedToVehicle
        ELSE {NoAnchor})

DrawOverhead(near) ==
    /\ bubbles' = {<<p, m_pSzText[p]>> : p \in {q \in Talkers : BubbleDrawn(q, near)}}
    /\ late' = [p \in Talkers |->
                   IF BubbleDrawn(p, near) /\ age[p] >= m_dwTime[p] THEN late[p] + 1 ELSE late[p]]
    /\ ResetChatBubbles({p \in Talkers : Expires(p, near)})
    /\ age' = [p \in Talkers |-> IF age[p] < LongestBubble THEN age[p] + 1 ELSE age[p]]
    /\ marks' = LabelDrawn
    /\ UNCHANGED <<presence, m_pSzText, said, label>>

OverheadNext ==
    \/ \E a \in Anchors, how \in {"gone", "unadded", "there"} : Comes(a, how)
    \/ Comes(LabelMe, "dead")
    \/ \E p \in Talkers, t \in Texts, time \in BubbleTimes : AddChatBubble(p, t, time)
    \/ \E near \in SUBSET Talkers : DrawOverhead(near)

-----------------------------------------------------------------------------
(* A bubble that is drawn has its player's last words and hangs on a ped   *)
(* in the world; over its time it is drawn once at most, wherever the      *)
(* player has been since; and a label is only where its anchor is.         *)
OverheadTrue ==
    /\ \A b \in bubbles : b[2] = said[b[1]] /\ presence[b[1]] = "there"
    /\ \A p \in Talkers : late[p] <= 1 /\ (m_bChatBubbleStatus[p] => m_pSzText[p] \in Texts)
    /\ \A a \in marks \ {NoAnchor} : presence[a] = "there" /\ presence[LabelMe] = "there"
=============================================================================
