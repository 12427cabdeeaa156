---------------------------- MODULE PlayerControl ----------------------------
(***************************************************************************)
(* Who takes the player's control away and who gives it back: the dialog   *)
(* window (dialog.cpp) and the activity's dialogs, the selection of text   *)
(* draws (textdrawpool.cpp), the score board, the server's RPC and the     *)
(* local player's life.  They share one switch with no owner and no count. *)
(*                                                                         *)
(* What a window shows, and its answer to the server, are left out.        *)
(***************************************************************************)

VARIABLES
    m_bIsActive,     \* the dialog window is up
    activityDialog,  \* the activity shows a dialog (iDialog)
    m_bSelectState,  \* text draws are being selected
    m_bToggle,       \* the score board is up
    frozenBy,        \* who last switched the pad off; "none" while it is on
    lockedBy,        \* who last locked the actor; "none" while it is free
    cut              \* a restart ended a selection and nobody released the player since

controlVars == <<m_bIsActive, activityDialog, m_bSelectState, m_bToggle, frozenBy, lockedBy, cut>>

Holders == {"dialog", "select", "server", "class"}

ControlInit ==
    /\ m_bIsActive = FALSE /\ activityDialog = FALSE
    /\ m_bSelectState = FALSE /\ m_bToggle = FALSE
    /\ frozenBy = "none" /\ lockedBy = "none" /\ cut = FALSE

-----------------------------------------------------------------------------

(* TogglePlayerControllable(false) and (true). *)
Freeze(who) == frozenBy' = who /\ lockedBy' = who /\ UNCHANGED cut
Release == frozenBy' = "none" /\ lockedBy' = "none" /\ cut' = FALSE

(* CDialogWindow::Show: a selection in progress keeps the player. *)
ShowDialog(bShow) ==
    /\ \/ m_bSelectState /\ UNCHANGED <<frozenBy, lockedBy, cut>>
       \/ ~m_bSelectState /\ IF bShow THEN Freeze("dialog") ELSE Release
    /\ m_bIsActive' = bShow
    /\ UNCHANGED <<activityDialog, m_bSelectState, m_bToggle>>

(* DialogBox: as the settings have it, the window or the activity's own. *)
DialogBox ==
    \/ ShowDialog(TRUE)
    \/ /\ Freeze("dialog") /\ activityDialog' = TRUE
       /\ UNCHANGED <<m_bIsActive, m_bSelectState, m_bToggle>>

(* A button of the window. *)
PressButton == m_bIsActive /\ ShowDialog(FALSE)

(* The activity's answer releases the player whatever else holds him. *)
sendDialogResponse ==
    /\ activityDialog /\ activityDialog' = FALSE
    /\ Release
    /\ UNCHANGED <<m_bIsActive, m_bSelectState, m_bToggle>>

(* CTextDrawPool::SetSelectState, from the SelectTextDraw RPC. *)
SetSelectState_Keeps(bState) ==
    /\ m_bSelectState' = bState
    /\ IF bState THEN Freeze("select") ELSE UNCHANGED <<frozenBy, lockedBy, cut>>
    /\ UNCHANGED <<m_bIsActive, activityDialog, m_bToggle>>
SetSelectState(bState) ==
    /\ m_bSelectState' = bState
    /\ IF bState THEN Freeze("select") ELSE Release
    /\ UNCHANGED <<m_bIsActive, activityDialog, m_bToggle>>

(* ScrTogglePlayerControllable. *)
ScrTogglePlayerControllable ==
    /\ Freeze("server") \/ Release
    /\ UNCHANGED <<m_bIsActive, activityDialog, m_bSelectState, m_bToggle>>

(* CScoreBoard::Toggle switches the pad and leaves the lock. *)
Toggle ==
    /\ m_bToggle' = ~m_bToggle
    /\ frozenBy' = IF m_bToggle THEN "none" ELSE "board"
    /\ UNCHANGED <<m_bIsActive, activityDialog, m_bSelectState, lockedBy, cut>>

(* The local player dies, chooses a class, spawns. *)
Died == Release /\ UNCHANGED <<m_bIsActive, activityDialog, m_bSelectState, m_bToggle>>
HandleClassSelection ==
    Freeze("class") /\ UNCHANGED <<m_bIsActive, activityDialog, m_bSelectState, m_bToggle>>
Spawn == Release /\ UNCHANGED <<m_bIsActive, activityDialog, m_bSelectState, m_bToggle>>

(* ResetTextDrawPool makes a pool that selects nothing, and releases nobody. *)
LeaveTextDrawPool ==
    /\ m_bSelectState' = FALSE
    /\ cut' = (cut \/ m_bSelectState)
    /\ UNCHANGED <<m_bIsActive, activityDialog, m_bToggle, frozenBy, lockedBy>>

ControlNext ==
    \/ DialogBox \/ PressButton \/ sendDialogResponse
    \/ \E bState \in BOOLEAN : SetSelectState(bState)
    \/ ScrTogglePlayerControllable \/ Toggle
    \/ Died \/ HandleClassSelection \/ Spawn
    \/ LeaveTextDrawPool

-----------------------------------------------------------------------------

ControlTypeOK ==
    /\ m_bIsActive \in BOOLEAN /\ activityDialog \in BOOLEAN
    /\ m_bSelectState \in BOOLEAN /\ m_bToggle \in BOOLEAN
    /\ frozenBy \in Holders \cup {"none", "board"}
    /\ lockedBy \in Holders \cup {"none"}
    /\ cut \in BOOLEAN

(* Who took the player for a window or a selection still has something to  *)
(* end it with: no order of dialogs, selections and the score board leaves *)
(* him frozen with nothing on the screen, but for a restart in the middle  *)
(* of a selection.                                                         *)
NotStuck ==
    /\ {frozenBy, lockedBy} \cap {"dialog", "select"} # {} =>
          m_bIsActive \/ activityDialog \/ m_bSelectState \/ cut
    /\ frozenBy = "board" => m_bToggle
=============================================================================
