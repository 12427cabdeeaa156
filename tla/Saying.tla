------------------------------- MODULE Saying -------------------------------
(***************************************************************************)
(* What is said and read: coloured texts, the chat's window, what is drawn *)
(* over heads, and the dialogs' tables.  A behaviour exercises one of them *)
(* (sayPart).                                                              *)
(***************************************************************************)
EXTENDS ChatText, ChatWindow, Overhead, NameTags, TabList

VARIABLE sayPart  \* what this behaviour is about

sayVars == <<text, chatVars, overheadVars, tagVars, tabVars, sayPart>>

(* The other parts stay in one initial state. *)
SayInit ==
    /\ TextInit /\ ChatInit /\ OverheadInit /\ TagsInit /\ TabInit
    /\ sayPart \in {"text", "window", "overhead", "tags", "table"}
    /\ sayPart # "window" => iChatMaxMessages = Max(Sizes)
    /\ sayPart # "overhead" => label.player = NoAnchor /\ label.vehicle = NoAnchor

SayNext ==
    \/ /\ sayPart = "text" /\ TextNext
       /\ UNCHANGED <<chatVars, overheadVars, tagVars, tabVars, sayPart>>
    \/ /\ sayPart = "window" /\ ChatNext
       /\ UNCHANGED <<text, overheadVars, tagVars, tabVars, sayPart>>
    \/ /\ sayPart = "overhead" /\ OverheadNext
       /\ UNCHANGED <<text, chatVars, tagVars, tabVars, sayPart>>
    \/ /\ sayPart = "tags" /\ TagsNext
       /\ UNCHANGED <<text, chatVars, overheadVars, tabVars, sayPart>>
    \/ /\ sayPart = "table" /\ TabNext
       /\ UNCHANGED <<text, chatVars, overheadVars, tagVars, sayPart>>

(* What is said is what is read: the parsers of colour tags agree, no part *)
(* of a message is lost between its two lines, the chat is in order under  *)
(* its bar, what hangs over heads is current, the list of who talks is     *)
(* right, and a table answers for the row the player has pointed at.       *)
SaidIsShown ==
    /\ TagsAgree /\ NothingCutOff
    /\ ChatInOrder
    /\ OverheadTrue
    /\ TalkersListed
    /\ AnswersRight /\ RowsAligned
=============================================================================
