----------------------------- MODULE ChatWindow -----------------------------
(***************************************************************************)
(* The chat's window (chatwindow.cpp) and the bar it is scrolled with      *)
(* (scrollbar.cpp).  The messages are kept newest first; the bar, the      *)
(* settings and the activity's keyboard, which pushes the window up, each  *)
(* move what is seen of them.                                              *)
(*                                                                         *)
(* Heights are in lines.  SetLowerBound comes from the activity's thread   *)
(* and is taken as one step.                                               *)
(***************************************************************************)
EXTENDS Integers, Sequences, SequencesExt, FiniteSetsExt

CONSTANTS
    NumMessages,  \* NUM_OF_MESSAGES: how far back the bar goes
    Sizes,        \* iChatMaxMessages, as the settings may have it
    TopY,         \* fChatPosY
    Box,          \* the height of the bar's handle
    Bounds,       \* where the activity's keyboard may begin
    MaxPushed     \* bound on the messages

ASSUME ChatWindowAssumption ==
    /\ NumMessages \in Nat \ {0} /\ Sizes \subseteq Nat \ {0} /\ MaxPushed \in Nat
    /\ TopY \in Nat /\ Box \in Nat /\ Bounds \subseteq Nat

VARIABLES
    m_vChatWindowEntries,  \* the messages, newest first, by their number
    pushed,                \* how many there have been
    iChatMaxMessages,      \* the setting
    m_bPendingReInit,      \* it has changed
    m_iMaxMessages,        \* the window's copy
    m_fChatPosY, m_fPosBeforeBoundChat, m_fOffsetBefore,
    bar,                   \* CScrollbar
    held                   \* where the finger is on the bar; -1 where it is not

placeVars == <<m_fChatPosY, m_fPosBeforeBoundChat, m_fOffsetBefore>>
chatVars == <<m_vChatWindowEntries, pushed, iChatMaxMessages, m_bPendingReInit, m_iMaxMessages,
              placeVars, bar, held>>

(* ReInit. *)
BarAt(top, size) ==
    [fY |-> top + size + 1 - Box, upY |-> top - 1, downY |-> top + size + 1,
     value |-> NumMessages, drawState |-> FALSE]

ChatInit ==
    /\ m_vChatWindowEntries = << >> /\ pushed = 0
    /\ iChatMaxMessages \in Sizes /\ m_iMaxMessages = iChatMaxMessages
    /\ m_bPendingReInit = FALSE
    /\ m_fChatPosY = TopY /\ m_fPosBeforeBoundChat = TopY /\ m_fOffsetBefore = 0
    /\ bar = BarAt(TopY, m_iMaxMessages) /\ held = -1

-----------------------------------------------------------------------------

PushBack(entries, n, limit) ==
    <<n>> \o (IF Len(entries) >= limit THEN Front(entries) ELSE entries)

(* AddToChatWindowBuffer, of a message of one part or of two. *)
AddToChatWindowBuffer(parts) ==
    /\ pushed + parts <= MaxPushed
    /\ pushed' = pushed + parts
    /\ LET limit == NumMessages + m_iMaxMessages
           once == PushBack(m_vChatWindowEntries, pushed + 1, limit)
       IN m_vChatWindowEntries' = IF parts = 1 THEN once ELSE PushBack(once, pushed + 2, limit)
    /\ UNCHANGED <<iChatMaxMessages, m_bPendingReInit, m_iMaxMessages, placeVars, bar, held>>

(* setNativeHudElementPosition and the like. *)
SetMaxMessages(n) ==
    /\ iChatMaxMessages' = n /\ m_bPendingReInit' = TRUE
    /\ UNCHANGED <<m_vChatWindowEntries, pushed, m_iMaxMessages, placeVars, bar, held>>

(* A frame: the bar is there to be used while the chat's keyboard is open, *)
(* and keeps its state while the chat is switched off.                     *)
Render(shown, typing) ==
    /\ m_bPendingReInit' = FALSE
    /\ LET placed == IF m_bPendingReInit
                     THEN [BarAt(TopY, iChatMaxMessages) EXCEPT !.drawState = bar.drawState]
                     ELSE bar
       IN bar' = IF shown THEN [placed EXCEPT !.drawState = typing] ELSE placed
    /\ IF m_bPendingReInit
       THEN /\ m_iMaxMessages' = iChatMaxMessages
            /\ m_fChatPosY' = TopY /\ m_fPosBeforeBoundChat' = TopY /\ m_fOffsetBefore' = 0
       ELSE UNCHANGED <<m_iMaxMessages, placeVars>>
    /\ UNCHANGED <<m_vChatWindowEntries, pushed, iChatMaxMessages, held>>

(* The window goes up line by line until it is clear of the keyboard. *)
SetLowerBound(y) ==
    LET raised == Max({0, m_fPosBeforeBoundChat + m_iMaxMessages + 2 - y + 1})
    IN  /\ m_fChatPosY' = m_fPosBeforeBoundChat - raised
        /\ m_fOffsetBefore' = raised
        /\ bar' = [bar EXCEPT !.fY = @ + m_fOffsetBefore - raised,
                              !.downY = @ + m_fOffsetBefore - raised]
        /\ UNCHANGED <<m_vChatWindowEntries, pushed, iChatMaxMessages, m_bPendingReInit,
                       m_iMaxMessages, m_fPosBeforeBoundChat, held>>

(* CScrollbar::OnTouchEvent. *)
PushBar(y) ==
    /\ bar.drawState
    /\ held' = IF y \in bar.fY .. bar.fY + Box THEN y ELSE -1
    /\ UNCHANGED <<m_vChatWindowEntries, pushed, iChatMaxMessages, m_bPendingReInit,
                   m_iMaxMessages, placeVars, bar>>

Distance == bar.downY - bar.upY - Box

MoveBar(y) ==
    /\ bar.drawState /\ held # -1
    /\ held' = y
    /\ LET fY == Max({Min({bar.fY + y - held, bar.downY - Box}), bar.upY})
       IN bar' = [bar EXCEPT !.fY = fY,
                             !.value = IF Distance = 0 THEN @
                                       ELSE IF fY = bar.upY THEN 0
                                       ELSE ((fY - bar.upY) * NumMessages) \div Distance]
    /\ UNCHANGED <<m_vChatWindowEntries, pushed, iChatMaxMessages, m_bPendingReInit,
                   m_iMaxMessages, placeVars>>

PopBar ==
    /\ bar.drawState /\ held' = -1
    /\ UNCHANGED <<m_vChatWindowEntries, pushed, iChatMaxMessages, m_bPendingReInit,
                   m_iMaxMessages, placeVars, bar>>

Heights == 0 .. TopY + Max(Sizes) + 3

ChatNext ==
    \/ \E parts \in {1, 2} : AddToChatWindowBuffer(parts)
    \/ \E n \in Sizes : SetMaxMessages(n)
    \/ \E shown, typing \in BOOLEAN : Render(shown, typing)
    \/ \E y \in Bounds : SetLowerBound(y)
    \/ \E y \in Heights : PushBar(y) \/ MoveBar(y)
    \/ PopBar

-----------------------------------------------------------------------------
(* What a frame shows: as many lines as the window has, and one more, from *)
(* where the bar stands.                                                   *)
Shown ==
    LET first == NumMessages - bar.value
    IN {m_vChatWindowEntries[i] :
            i \in {j \in DOMAIN m_vChatWindowEntries : j - 1 \in first .. first + m_iMaxMessages}}

(* The chat shows an unbroken run of the newest messages and never looks   *)
(* before the first one; the bar at its end is the newest message; nothing *)
(* is dropped that the bar could reach; and the window and its bar are     *)
(* raised alike and come back together, whatever is touched meanwhile.     *)
ChatInOrder ==
    /\ \A i \in DOMAIN m_vChatWindowEntries : m_vChatWindowEntries[i] = pushed + 1 - i
    /\ Len(m_vChatWindowEntries) >= Min({pushed, NumMessages + Min(Sizes)})
    /\ bar.value \in 0 .. NumMessages
    /\ bar.value = NumMessages /\ pushed > 0 => pushed \in Shown
    /\ bar.value > 0 /\ pushed > NumMessages => Shown # {}
    /\ m_fChatPosY = m_fPosBeforeBoundChat - m_fOffsetBefore
    /\ bar.downY = m_fChatPosY + m_iMaxMessages + 1
=============================================================================
