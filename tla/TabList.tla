------------------------------- MODULE TabList -------------------------------
(***************************************************************************)
(* The dialog window's tables (CDialogWindow::RenderTabList): which row is *)
(* chosen, what the server is answered, and in which column a row begins.  *)
(*                                                                         *)
(* A row is its number of cells; what its first cell says is told by the   *)
(* row's place.  Rows count from 0, as in the code.                        *)
(***************************************************************************)
EXTENDS Integers, Sequences, SequencesExt, FiniteSetsExt

CONSTANTS
    MaxTabs,  \* columns of a table: 4
    MaxRows   \* bound on the rows of a dialog

ASSUME TabListAssumption == MaxTabs \in Nat \ {0} /\ MaxRows \in Nat \ {0}

VARIABLES
    dialog,           \* the dialog in the window: its style and rows
    m_bRendered,      \* it is up
    m_iSelectedItem,  \* the row last pointed at, in whichever dialog; -1 before the first
    pointed,          \* in this dialog
    answer            \* what the server was answered, and the row it was meant for

tabVars == <<dialog, m_bRendered, m_iSelectedItem, pointed, answer>>

Styles == {"list", "tablist", "headers"}
NoAnswer == [by |-> "nobody"]

(* An empty info leaves the last one's rows in the window (SetInfo). *)
TabInit ==
    /\ dialog = [style |-> "list", rows |-> << >>]
    /\ m_bRendered = FALSE /\ m_iSelectedItem = -1 /\ pointed = FALSE
    /\ answer = NoAnswer

ShowTable(style, rows) ==
    /\ dialog' = [style |-> style, rows |-> IF rows = << >> THEN dialog.rows ELSE rows]
    /\ m_bRendered' = TRUE /\ pointed' = FALSE /\ answer' = NoAnswer
    /\ UNCHANGED m_iSelectedItem

-----------------------------------------------------------------------------

(* The columns are those of the first row, as far as there are any. *)
iTabsCount(d) == IF d.style = "list" THEN 0 ELSE Min({d.rows[1], MaxTabs})

Style(d) == IF d.style = "tablist" /\ iTabsCount(d) = 1 THEN "list" ELSE d.style

(* The texts that answer for the rows: of a list every line, of a table    *)
(* the first cells, and an empty line has none.                            *)
KeepText(rows, texts, i) == IF rows[i + 1] > 0 THEN Append(texts, i) ELSE texts

firstTabs(d) ==
    LET lines == [i \in DOMAIN d.rows |-> i - 1]
    IN IF d.style = "list" THEN lines
       ELSE FoldLeft(LAMBDA texts, i : KeepText(d.rows, texts, i), << >>, lines)

FirstRow(d) == IF Style(d) = "headers" THEN 1 ELSE 0
TableRows(d) == FirstRow(d) .. Len(d.rows) - 1

(* The finger is on a row. *)
Point(row) ==
    /\ m_bRendered /\ row \in TableRows(dialog)
    /\ m_iSelectedItem' = row /\ pointed' = TRUE
    /\ UNCHANGED <<dialog, m_bRendered, answer>>

(* Reading past the texts gives whatever is there. *)
TextOf(row) ==
    IF row + 1 \in DOMAIN firstTabs(dialog) THEN firstTabs(dialog)[row + 1] ELSE -1

SendDialogResponse(item, by) ==
    /\ answer' = [by |-> by, item |-> item, text |-> TextOf(m_iSelectedItem),
                  row |-> m_iSelectedItem, sure |-> pointed]
    /\ m_bRendered' = FALSE
    /\ UNCHANGED <<dialog, m_iSelectedItem, pointed>>

DoubleClick ==
    /\ m_bRendered /\ TableRows(dialog) # {}
    /\ SendDialogResponse(m_iSelectedItem, "double click")

(* A button; the header is no row. *)
TempItem ==
    IF Style(dialog) = "headers" THEN Max({m_iSelectedItem, 1}) - 1 ELSE m_iSelectedItem

TableButton == m_bRendered /\ SendDialogResponse(TempItem, "button")

-----------------------------------------------------------------------------

(* Where each row begins.  A row is given its cells, one more than there   *)
(* are columns at the most, and as many empty ones as are left.            *)
PlaceRow(n, columns, cells) ==
    LET moves == Max({Min({cells, n + 1}), n})
    IN Append(columns, (Last(columns) + moves) % n)

RowColumns(d) ==
    FoldLeft(LAMBDA columns, cells : PlaceRow(iTabsCount(d), columns, cells), <<0>>,
             SubSeq(d.rows, FirstRow(d) + 1, Len(d.rows)))

Tables == UNION {[1 .. n -> 0 .. MaxTabs + 1] : n \in 0 .. MaxRows}

(* A table's first line has a cell; the other lines are the server's. *)
TabNext ==
    \/ \E style \in Styles, rows \in {t \in Tables : t = << >> \/ t[1] > 0} :
           /\ rows = << >> => dialog.rows # << >>
           /\ ShowTable(style, rows)
    \/ \E row \in 0 .. MaxRows - 1 : Point(row)
    \/ DoubleClick
    \/ TableButton

-----------------------------------------------------------------------------
(* Of a table without empty lines the server is told the text of the row   *)
(* the player has pointed at, and its number: by the button from the row   *)
(* after the headers, by a double click from the headers.                  *)
AnswersRight ==
    (/\ answer # NoAnswer /\ answer.sure
     /\ 0 \notin ToSet(dialog.rows) \/ dialog.style = "list")
    =>      /\ answer.text = answer.row
            /\ answer.item = IF Style(dialog) = "headers" /\ answer.by = "button"
                             THEN answer.row - 1 ELSE answer.row

(* The rows of such a table stand below each other unless one is wider     *)
(* than the first.                                                         *)
RowsAligned ==
    (dialog.rows # << >> /\ Style(dialog) # "list"
     /\ \A i \in DOMAIN dialog.rows : dialog.rows[i] <= iTabsCount(dialog))
    => \A i \in DOMAIN RowColumns(dialog) : RowColumns(dialog)[i] = 0
=============================================================================
