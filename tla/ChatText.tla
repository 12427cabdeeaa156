------------------------------ MODULE ChatText ------------------------------
(***************************************************************************)
(* Colour tags.  A text from the server may hold {RRGGBB}; the chat, the   *)
(* dialogs and the labels each draw it with a parser of its own, and a     *)
(* fourth one strips the tags to measure what the others draw.  And the    *)
(* chat's cutting of a long message in two.                                *)
(*                                                                         *)
(* A text is a sequence of symbols; a behaviour types one, so that every   *)
(* text up to MaxText symbols is looked at.                                *)
(***************************************************************************)
EXTENDS Naturals, Sequences, SequencesExt, FiniteSetsExt

CONSTANTS
    Digits,      \* of a colour: 6
    LongDigits,  \* with its alpha: 8
    MaxLine,     \* MAX_LINE_LENGTH
    Slack,       \* how far before it a space is looked for: 12
    MaxText      \* bound on the texts

ASSUME ChatTextAssumption ==
    /\ 0 < Digits /\ Digits < LongDigits
    /\ 0 < Slack /\ Slack < MaxLine
    /\ {Digits, LongDigits, MaxLine, Slack, MaxText} \subseteq Nat

(* A hexadecimal digit, any other letter, a space, the end of a line. *)
Symbols == {"open", "close", "hex", "letter", "space", "line"}

VARIABLE text

TextInit == text = << >>

Type(c) == Len(text) < MaxText /\ text' = Append(text, c)

TextNext ==
    \/ \E c \in Symbols : Type(c)
    \/ Len(text) = MaxText /\ text' = << >>

-----------------------------------------------------------------------------
(* The rule of FilterColors, CalcTextSizeWithoutTags, SetInfo and          *)
(* removeColorTags, and of the chat: braces at the right distance.         *)
TagAt(t, i) ==
    /\ i + Digits + 1 <= Len(t)
    /\ t[i] = "open" /\ t[i + Digits + 1] = "close"

Positions(t) == [i \in DOMAIN t |-> i]

(* What a parser has come to: where it reads on, and what it has so far.   *)
SkimSymbol(t, s, i) ==
    IF i < s.next THEN s
    ELSE IF TagAt(t, i) THEN [s EXCEPT !.next = i + Digits + 2]
    ELSE [s EXCEPT !.out = Append(@, t[i])]

FilterColors(t) ==
    FoldLeft(LAMBDA s, i : SkimSymbol(t, s, i), [next |-> 1, out |-> << >>], Positions(t)).out

(* sscanf takes leading blanks and stops at what is not a digit. *)
ProcessInlineHexColor(digits) ==
    /\ Len(digits) \in {Digits, LongDigits}
    /\ \E i \in DOMAIN digits :
           digits[i] = "hex" /\ \A j \in 1 .. i - 1 : digits[j] \in {"space", "line"}

(* A drawn character is a symbol and its colour: the text's own, or the    *)
(* digits of a tag.                                                        *)
Own == << >>

(* CChatWindow::RenderText. *)
ChatColour(t, s, i) ==
    LET digits == SubSeq(t, i + 1, i + Digits)
    IN IF ProcessInlineHexColor(digits) THEN digits ELSE s.colour

DrawSymbol(t, s, i) ==
    IF i < s.next THEN s
    ELSE IF TagAt(t, i)
         THEN [s EXCEPT !.next = i + Digits + 2, !.colour = ChatColour(t, s, i)]
    ELSE [s EXCEPT !.out = Append(@, <<t[i], s.colour>>)]

RenderChat(t) ==
    FoldLeft(LAMBDA s, i : DrawSymbol(t, s, i), [next |-> 1, colour |-> Own, out |-> << >>],
             Positions(t)).out

(* TextWithColors, of the dialogs and of the labels: anything up to the    *)
(* next closing brace is a tag.  After one that is no colour a dialog goes *)
(* back to the text's own and a label keeps the last; a brace that is      *)
(* never closed takes the reader past the end of the text (over).          *)
Closing(t, i) == Min({j \in i + 1 .. Len(t) : t[j] = "close"} \cup {Len(t) + 1})

TagColour(t, keeps, s, i) ==
    LET digits == SubSeq(t, i + 1, Closing(t, i) - 1)
    IN IF ProcessInlineHexColor(digits) THEN digits ELSE IF keeps THEN s.colour ELSE Own

ReadSymbol(t, keeps, s, i) ==
    IF i < s.next THEN s
    ELSE IF t[i] = "open"
         THEN [s EXCEPT !.next = Closing(t, i) + 1, !.colour = TagColour(t, keeps, s, i),
                        !.over = Closing(t, i) > Len(t)]
    ELSE IF t[i] = "line" THEN [s EXCEPT !.lines = Append(@, << >>)]
    ELSE [s EXCEPT !.lines[Len(s.lines)] = Append(@, <<t[i], s.colour>>)]

TextWithColors(t, keeps) ==
    FoldLeft(LAMBDA s, i : ReadSymbol(t, keeps, s, i),
             [next |-> 1, colour |-> Own, over |-> FALSE, lines |-> << << >> >>], Positions(t))

DialogText(t) == TextWithColors(t, FALSE)
LabelText(t) == TextWithColors(t, TRUE)

(* A text's lines, which ends stand between. *)
LineSymbol(ends, lines, c) ==
    IF c \in ends THEN Append(lines, << >>) ELSE [lines EXCEPT ![Len(lines)] = Append(@, c)]

Lines(t, ends) == FoldLeft(LAMBDA s, c : LineSymbol(ends, s, c), << << >> >>, t)

(* A label's lines are centred by the widths of the stripped text's lines, *)
(* each measured without its last character; a text without characters has *)
(* none.                                                                   *)
fLineOffsets(stripped) ==
    LET lines == Lines(stripped, {"line"})
    IN IF stripped = << >> THEN << >>
       ELSE [k \in DOMAIN lines |-> Max({0, Len(lines[k]) - 1})]

-----------------------------------------------------------------------------
(* AddToChatWindowBuffer: a message of the chat longer than a line is cut  *)
(* at the last space of the line, or through a word when that is too far   *)
(* back, and only its first part has the name.                             *)
iBestLineLength(t) == Max({0} \cup {i \in 1 .. MaxLine : t[i + 1] = "space"})

CutMessage(t) ==
    IF Len(t) <= MaxLine THEN <<t>>
    ELSE IF MaxLine - iBestLineLength(t) > Slack
         THEN <<SubSeq(t, 1, MaxLine), SubSeq(t, MaxLine + 1, Len(t))>>
    ELSE <<SubSeq(t, 1, iBestLineLength(t)), SubSeq(t, iBestLineLength(t) + 2, Len(t))>>

-----------------------------------------------------------------------------
(* The parsers agree.  What the chat draws is what is left of any text     *)
(* without its tags.  A dialog and a label draw just that, line by line    *)
(* and in the chat's colours, of a text whose braces are all colours; and  *)
(* every line of such a label has a measured width, which is at most one   *)
(* character short.                                                        *)
Drawn(cs) == [i \in DOMAIN cs |-> cs[i][1]]
LineEnds == {"line"} \X Seq(Symbols)

WellFormed(t) ==
    /\ \A i \in DOMAIN t : t[i] = "open" =>
           TagAt(t, i) /\ \A j \in i + 1 .. i + Digits : t[j] = "hex"
    /\ \A i \in DOMAIN t : t[i] = "close" => i > Digits + 1 /\ TagAt(t, i - Digits - 1)

TagsAgree ==
    LET drawn == RenderChat(text)
        stripped == FilterColors(text)
        label == LabelText(text)
        widths == fLineOffsets(stripped)
    IN  /\ Drawn(drawn) = stripped
        /\ WellFormed(text) =>
               /\ ~label.over /\ label.lines = DialogText(text).lines
               /\ label.lines = Lines(drawn, LineEnds)
               /\ [k \in DOMAIN label.lines |-> Drawn(label.lines[k])] = Lines(stripped, {"line"})
               /\ stripped # << >> =>
                      /\ Len(widths) = Len(label.lines)
                      /\ \A k \in DOMAIN widths : Len(label.lines[k]) - widths[k] \in {0, 1}

(* A message is cut where nothing but a space is lost, and its first part  *)
(* fits the line.                                                          *)
NothingCutOff ==
    LET parts == CutMessage(text)
    IN  /\ Len(parts[1]) <= MaxLine
        /\ Len(parts) = 2 => text \in {parts[1] \o parts[2], parts[1] \o <<"space">> \o parts[2]}
=============================================================================
