------------------------------ MODULE Keyboard ------------------------------
(***************************************************************************)
(* The one keyboard that all text fields share (keyboard.cpp), its history *)
(* (keyboardhistory.cpp) and the ways to it: the chat window, the input    *)
(* button of a dialog, touches, the back key, a pause and, with the new    *)
(* keyboard, the activity's own layout, which answers from another thread  *)
(* through a queue.                                                        *)
(*                                                                         *)
(* A text is the field whose keyboard it was typed on; an empty text is    *)
(* NoField.  A tap is its push and its pop.  The chat window keeps clear of   *)
(* the history buttons, where touches pass through the open keyboard.      *)
(***************************************************************************)
EXTENDS Integers, Sequences

CONSTANTS Fields,       \* what a text can be typed for
          Chat,         \* the field of the chat window
          Secret,       \* the password fields, opened hidden
          NoField,         \* no field
          HistorySize,  \* the bound of the history (20)
          MaxStrings    \* the bound on strings waiting in bufferedStrings

ASSUME FieldsAssumption ==
    /\ Chat \in Fields /\ Secret \subseteq Fields /\ Chat \notin Secret
    /\ NoField \notin Fields
    /\ HistorySize \in Nat /\ HistorySize >= 2 /\ MaxStrings \in Nat

VARIABLES
    m_bEnable,        \* the keyboard is open
    m_pHandler,       \* the field it was opened for; NoField for a null handler
    m_bInputFlag,     \* it was opened hidden
    m_sInput,         \* the text in the input line
    m_iLayout,
    m_iCase,
    m_Buffer,         \* the history, newest first
    m_iCounter,       \* the entry of the history that is shown
    m_bNewKeyboard,   \* the activity's keyboard is used
    asked,            \* what the activity was last asked to show a layout for
    displayed,        \* what it shows one for
    bufferedStrings,  \* what it sent; late: the keyboard was closed since
    received          \* the last text a handler took, and for which field

keyboardVars == <<m_bEnable, m_pHandler, m_bInputFlag, m_sInput, m_iLayout, m_iCase, m_Buffer,
                  m_iCounter, m_bNewKeyboard, asked, displayed, bufferedStrings, received>>

lineVars == <<m_sInput, m_iLayout, m_iCase, m_iCounter>>
javaVars == <<m_bNewKeyboard, asked, displayed>>

Layouts == {"eng", "rus", "num"}
MaybeField == Fields \cup {NoField}

-----------------------------------------------------------------------------
(* The rows of keys.  A row is its half key widths from left to right.     *)

Wide(halves, kind) == [i \in 1 .. halves |-> kind]
Letters(keys) == Wide(2 * keys, "letter")

Bottom == Letters(2) \o Wide(2, "switch") \o Wide(8, "space") \o Letters(2) \o Wide(2, "send")

EngTop == Letters(10)
EngHome == Wide(1, "gap") \o Letters(9) \o Wide(1, "gap")
EngLow == Wide(3, "shift") \o Letters(7) \o Wide(3, "backspace")
EngBottom == Bottom
RusTop == Letters(11)
RusHome == Letters(11)
RusLow == Wide(2, "shift") \o Letters(9) \o Wide(2, "backspace")
RusBottom == Bottom
NumTop == Letters(10)
NumHome == Letters(10)
NumLow == Letters(9) \o Wide(2, "backspace")
NumBottom == Bottom

Rows == [eng |-> <<EngTop, EngHome, EngLow, EngBottom>>,
         rus |-> <<RusTop, RusHome, RusLow, RusBottom>>,
         num |-> <<NumTop, NumHome, NumLow, NumBottom>>]

(* GetKeyFromPos: the keys a touch can meet on the layout. *)
KeysOf == [l \in Layouts |->
             UNION {{Rows[l][r][x] : x \in DOMAIN Rows[l][r]} : r \in DOMAIN Rows[l]}]

NextLayout == [eng |-> "rus", rus |-> "num", num |-> "eng"]

-----------------------------------------------------------------------------

KeyboardInit ==
    /\ m_bEnable = FALSE /\ m_pHandler = NoField /\ m_bInputFlag = FALSE
    /\ m_sInput = NoField /\ m_iLayout = "eng" /\ m_iCase = "lower"
    /\ m_Buffer = <<>> /\ m_iCounter = 0
    /\ m_bNewKeyboard \in BOOLEAN /\ asked = NoField /\ displayed = NoField
    /\ bufferedStrings = <<>>
    /\ received = [of |-> NoField, to |-> NoField, late |-> FALSE]

(* What waits in the queue has missed the keyboard it was sent to. *)
Late(strings) == [i \in DOMAIN strings |-> [strings[i] EXCEPT !.late = TRUE]]

(* What Close() leaves, but for the queue, and with the handler f. *)
Reset(f) ==
    /\ m_sInput' = NoField /\ m_iCase' = "lower"
    /\ m_pHandler' = f
    /\ asked' = IF m_bNewKeyboard THEN f ELSE asked

Close ==
    /\ Reset(NoField)
    /\ m_bEnable' = FALSE
    /\ bufferedStrings' = Late(bufferedStrings)
    /\ UNCHANGED <<m_bInputFlag, m_iLayout, m_Buffer, m_iCounter, m_bNewKeyboard, displayed>>

(* Open closes first; nothing of that is left but the empty line. *)
Open(f) ==
    /\ Reset(f)
    /\ m_iCounter' = 0
    /\ m_bEnable' = TRUE /\ m_bInputFlag' = (f \in Secret)
    /\ UNCHANGED <<m_iLayout, m_Buffer, m_bNewKeyboard, displayed, bufferedStrings, received>>

(* CChatWindow::OnTouchEvent, reached by touches the keyboard passes on. *)
TapChat == ~m_bEnable /\ Open(Chat)

(* The input button of a dialog, for its INPUT or its PASSWORD style. *)
PressInput_Always(f) == f \in Fields \ {Chat} /\ Open(f)
PressInput(f) == f \in Fields \ {Chat} /\ ~m_bEnable /\ Open(f)

(* CKeyBoard::OnTouchEvent: a tap above the keyboard closes it. *)
TapAbove == m_bEnable /\ Close /\ UNCHANGED received

(* onEventBackPressed. *)
onEventBackPressed == m_bEnable /\ Close /\ UNCHANGED received

(* CTimer__StartUserPause_hook. *)
StartUserPause == m_bNewKeyboard /\ Close /\ UNCHANGED received

(* Text reaches the line: AddCharToInput, with room left or not. *)
AddCharToInput ==
    /\ m_sInput' = IF m_sInput = NoField THEN m_pHandler ELSE m_sInput
    /\ UNCHANGED <<m_bEnable, m_pHandler, m_bInputFlag, m_iLayout, m_iCase, m_Buffer, m_iCounter,
                   javaVars, bufferedStrings, received>>

DeleteCharFromInput ==
    /\ m_sInput' \in {m_sInput, NoField}
    /\ UNCHANGED <<m_bEnable, m_pHandler, m_bInputFlag, m_iLayout, m_iCase, m_Buffer, m_iCounter,
                   javaVars, bufferedStrings, received>>

(* KEY_SWITCH and KEY_SHIFT. *)
Switch ==
    /\ m_iLayout' = NextLayout[m_iLayout] /\ m_iCase' = "lower"
    /\ UNCHANGED <<m_bEnable, m_pHandler, m_bInputFlag, m_sInput, m_Buffer, m_iCounter,
                   javaVars, bufferedStrings, received>>

Shift ==
    /\ m_iCase' = IF m_iCase = "lower" THEN "upper" ELSE "lower"
    /\ UNCHANGED <<m_bEnable, m_pHandler, m_bInputFlag, m_sInput, m_iLayout, m_Buffer, m_iCounter,
                   javaVars, bufferedStrings, received>>

(* AddStringToHistory. *)
WithString(text) ==
    LET longer == <<text>> \o m_Buffer
    IN  IF Len(longer) < HistorySize THEN longer ELSE SubSeq(longer, 1, HistorySize - 1)

(* What a handler makes of a text: the empty one it ignores. *)
Handled(text, late) ==
    received' = IF text = NoField \/ m_pHandler = NoField THEN received
            ELSE [of |-> text, to |-> m_pHandler, late |-> late]

(* Send: the line and the handler stay until the next Open or Close. *)
Send ==
    /\ Handled(m_sInput, FALSE)
    /\ m_Buffer' = IF m_sInput = NoField \/ m_bInputFlag THEN m_Buffer ELSE WithString(m_sInput)
    /\ m_bEnable' = FALSE
    /\ bufferedStrings' = Late(bufferedStrings)
    /\ UNCHANGED <<m_pHandler, m_bInputFlag, lineVars, javaVars>>

(* HandleInput.  No touch asks whether the new keyboard is in use. *)
HandleInput(kind) ==
    \/ kind \in {"letter", "space"} /\ AddCharToInput
    \/ kind = "backspace" /\ DeleteCharFromInput
    \/ kind = "switch" /\ Switch
    \/ kind = "shift" /\ Shift
    \/ kind = "send" /\ Send

TapKey == m_bEnable /\ \E kind \in KeysOf[m_iLayout] : HandleInput(kind)

(* A double tap on the line puts in the clipboard. *)
Paste == m_bEnable /\ AddCharToInput

(* The two buttons of the history: PageUp and PageDown. *)
Recall(counter) ==
    /\ m_iCounter' = counter
    /\ m_sInput' = IF counter = 0 THEN NoField ELSE m_pHandler
    /\ UNCHANGED <<m_bEnable, m_pHandler, m_bInputFlag, m_iLayout, m_iCase, m_Buffer,
                   javaVars, bufferedStrings, received>>

PageUp ==
    /\ m_bEnable /\ ~m_bNewKeyboard
    /\ m_iCounter < Len(m_Buffer)
    /\ Recall(m_iCounter + 1)

PageDown ==
    /\ m_bEnable /\ ~m_bNewKeyboard
    /\ Recall(IF m_iCounter <= 1 THEN 0 ELSE m_iCounter - 1)

-----------------------------------------------------------------------------

(* EnableNewKeyboard and EnableOldKeyboard: an open keyboard stays open. *)
setNativeKeyboardSettings ==
    /\ m_bNewKeyboard' = ~m_bNewKeyboard
    /\ UNCHANGED <<m_bEnable, m_pHandler, m_bInputFlag, lineVars, m_Buffer, asked, displayed,
                   bufferedStrings, received>>

(* The activity shows and hides its layout when its own thread gets to it. *)
ShowInputLayout ==
    /\ displayed # asked /\ displayed' = asked
    /\ UNCHANGED <<m_bEnable, m_pHandler, m_bInputFlag, lineVars, m_Buffer, m_bNewKeyboard, asked,
                   bufferedStrings, received>>

(* onInputEnd: what was typed on the layout that is still up. *)
OnNewKeyboardInput ==
    /\ displayed # NoField /\ Len(bufferedStrings) < MaxStrings
    /\ bufferedStrings' = Append(bufferedStrings,
            [of |-> displayed, late |-> ~(m_bEnable /\ m_pHandler = displayed)])
    /\ UNCHANGED <<m_bEnable, m_pHandler, m_bInputFlag, lineVars, m_Buffer, javaVars, received>>

(* One turn of the loop of ProcessInputCommands: whoever holds the         *)
(* keyboard now gets the text, and loses the keyboard.                     *)
ProcessInputCommands ==
    /\ bufferedStrings # <<>>
    /\ Handled(Head(bufferedStrings).of, Head(bufferedStrings).late)
    /\ Reset(NoField)
    /\ m_bEnable' = FALSE
    /\ bufferedStrings' = Late(Tail(bufferedStrings))
    /\ UNCHANGED <<m_bInputFlag, m_iLayout, m_Buffer, m_iCounter, m_bNewKeyboard, displayed>>

KeyboardNext ==
    \/ TapChat
    \/ \E f \in Fields : PressInput(f)
    \/ TapAbove \/ onEventBackPressed \/ StartUserPause
    \/ TapKey \/ Paste \/ PageUp \/ PageDown
    \/ setNativeKeyboardSettings \/ ShowInputLayout \/ OnNewKeyboardInput
    \/ ProcessInputCommands

-----------------------------------------------------------------------------

Strings == [of : Fields, late : BOOLEAN]

KeyboardTypeOK ==
    /\ m_bEnable \in BOOLEAN /\ m_pHandler \in MaybeField /\ m_bInputFlag \in BOOLEAN
    /\ m_sInput \in MaybeField
    /\ m_iLayout \in Layouts /\ m_iCase \in {"lower", "upper"}
    /\ m_Buffer \in Seq(Fields) /\ Len(m_Buffer) < HistorySize
    /\ m_iCounter \in 0 .. Len(m_Buffer)
    /\ m_bNewKeyboard \in BOOLEAN /\ asked \in MaybeField /\ displayed \in MaybeField
    /\ bufferedStrings \in Seq(Strings) /\ Len(bufferedStrings) <= MaxStrings
    /\ received \in [of : MaybeField, to : MaybeField, late : BOOLEAN]

(* A text goes to the field it was typed for: the line never holds text of *)
(* another field, the queue's text finds its handler as long as the        *)
(* keyboard was neither closed nor sent since, and a password never enters *)
(* the history, from where any field could recall it.                      *)
TextToItsField ==
    /\ received.of = received.to \/ received.late
    /\ m_sInput \in {NoField, m_pHandler}
    /\ \A i \in DOMAIN bufferedStrings :
          bufferedStrings[i].late \/ (m_bEnable /\ bufferedStrings[i].of = m_pHandler)
    /\ \A i \in DOMAIN m_Buffer : m_Buffer[i] \notin Secret
=============================================================================
