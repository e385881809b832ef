--------------------------- MODULE FormattedText ---------------------------
(***************************************************************************)
(* parseFormattedText and consoleLines: what a bot printed, into the lines *)
(* of its console and each text into spans of one style.  A section sign   *)
(* and the character after it are a code: a colour, a format, a reset, or  *)
(* the start of a colour given by its digits.  The page keys lines and     *)
(* spans by where they start.  One character stands for each kind that the *)
(* parser tells apart.                                                     *)
(***************************************************************************)
EXTENDS Naturals, Sequences, SequencesExt, FiniteSets

CONSTANTS HexDigits,    \* 6: the digits of a colour, each after a section sign
          MaxCharacters \* bound

ASSUME TextAssumption == HexDigits \in Nat \ {0} /\ MaxCharacters \in Nat

VARIABLE printed        \* what the bot printed

Section == "s"
Newline == "n"
\* A colour code, which is a digit too; a format; a reset; the mark of a colour in digits; any other.
Codes == {"c", "l", "r", "x", "t"}
Characters == Codes \cup {Section, Newline}
Digits == {"c"}

Reset == [color |-> "none", bold |-> FALSE]

\* applyCode: a colour forgets the formats.
ApplyCode(style, code) ==
    CASE code = "c" -> [Reset EXCEPT !.color = "named"]
      [] code = "l" -> [style EXCEPT !.bold = TRUE]
      [] code = "r" -> Reset
      [] OTHER -> style

\* readHexColor, of the character after a section sign
ReadHexColor(source, at) ==
    /\ source[at] = "x"
    /\ at + 2 * HexDigits <= Len(source)
    /\ \A k \in 1..HexDigits : source[at + 2 * k - 1] = Section /\ source[at + 2 * k] \in Digits

Span(style, text, start) == [style |-> style, text |-> text, start |-> start]

\* flush
Flush(parse, at) ==
    [parse EXCEPT !.spans = IF parse.text = <<>> THEN @ ELSE Append(@, Span(parse.style, parse.text, parse.start)),
                  !.text = <<>>, !.start = at]

\* Mutation of AfterCode: the text before a code takes the style of the code.
AfterCodeLate(parse, style, next) == Flush([parse EXCEPT !.style = style, !.next = next], next)

\* The text before a code keeps its style; the next text starts after the code.
AfterCode(parse, style, next) == [Flush(parse, next) EXCEPT !.style = style, !.next = next]

\* The loop's body at index: a character of a code is passed over.
ReadCharacter(parse, source, index) ==
    CASE index < parse.next -> parse
      [] index = parse.next /\ (source[index] # Section \/ index = Len(source)) ->
            [parse EXCEPT !.text = Append(@, source[index]), !.next = @ + 1]
      [] OTHER ->
            IF ReadHexColor(source, index + 1)
            THEN AfterCode(parse, [Reset EXCEPT !.color = "digits"], index + 2 + 2 * HexDigits)
            ELSE AfterCode(parse, ApplyCode(parse.style, source[index + 1]), index + 2)

ParseFormattedText(source) ==
    LET begun == [spans |-> <<>>, style |-> Reset, text |-> <<>>, start |-> 1, next |-> 1]
        read == FoldLeft(LAMBDA parse, k : ReadCharacter(parse, source, k), begun, [k \in 1..Len(source) |-> k])
    IN Flush(read, Len(source)).spans

\* stripFormatting
StripFormatting(source) == FlattenSeq([k \in DOMAIN ParseFormattedText(source) |-> ParseFormattedText(source)[k].text])

\* consoleLines: one newline at the end is dropped, and every line gets its own; keyed by its offset.
ConsoleLines(output) ==
    LET kept == IF output # <<>> /\ Last(output) = Newline THEN Front(output) ELSE output
        ends == {0, Len(kept) + 1} \cup {k \in DOMAIN kept : kept[k] = Newline}
        starts == SetToSortSeq(ends \ {Len(kept) + 1}, <)
        EndAfter(k) == CHOOSE e \in ends : e > k /\ \A f \in ends : f > k => e <= f
    IN [k \in DOMAIN starts |->
            [key |-> starts[k], text |-> Append(SubSeq(kept, starts[k] + 1, EndAfter(starts[k]) - 1), Newline)]]

-----------------------------------------------------------------------------
PrintCharacter ==
    /\ Len(printed) < MaxCharacters
    /\ \E character \in Characters : printed' = Append(printed, character)

TextInit == printed = <<>>
TextNext == PrintCharacter
TextSpec == TextInit /\ [][TextNext]_printed

-----------------------------------------------------------------------------
(* Properties. *)

\* How far the code that starts at a character reaches, by looking at it alone.
CodeLength(source, k) == IF k < Len(source) /\ ReadHexColor(source, k + 1) THEN 2 + 2 * HexDigits ELSE 2

\* The place a code that a character is part of starts at; 0 for text.
CodeOf(source) ==
    LET at[k \in 0..Len(source)] ==
            IF k = 0 THEN 0
            ELSE IF at[k - 1] # 0 /\ k < at[k - 1] + CodeLength(source, at[k - 1]) THEN at[k - 1]
            ELSE IF source[k] = Section /\ k < Len(source) THEN k ELSE 0
    IN at

\* The style of a place, from the last colour or reset before it and the formats since.
StyleAt(source, k) ==
    LET code == CodeOf(source)
        begun == {j \in 1..(k - 1) : code[j] = j}
        Sets(j) == CodeLength(source, j) > 2 \/ source[j + 1] \in {"c", "r"}
        setting == {j \in begun : Sets(j) /\ \A i \in begun : Sets(i) => i <= j}
    IN [color |-> IF \E j \in setting : CodeLength(source, j) > 2 THEN "digits"
                  ELSE IF \E j \in setting : source[j + 1] = "c" THEN "named" ELSE "none",
        bold |-> \E j \in begun : source[j + 1] = "l" /\ \A i \in setting : i < j]

\* A bot's console shows what it printed (parseFormattedText, stripFormatting, consoleLines): every
\* character that is no part of a code is in one span, in order and in the style of the last codes
\* before it; a span is keyed by where it starts, a line by where it starts in the output, so that no
\* two are taken for each other; and the lines are the output, ended by one newline.
ConsoleIsFaithful ==
    LET spans == ParseFormattedText(printed)
        code == CodeOf(printed)
        lines == ConsoleLines(printed)
        whole == FlattenSeq([k \in DOMAIN lines |-> lines[k].text])
    IN /\ \A k \in DOMAIN spans : \A i \in DOMAIN spans[k].text :
            LET at == spans[k].start + i - 1 IN
            /\ at \in DOMAIN printed /\ code[at] = 0 /\ printed[at] = spans[k].text[i]
            /\ spans[k].style = StyleAt(printed, at)
       /\ StripFormatting(printed) = FlattenSeq([k \in DOMAIN printed |-> IF code[k] = 0 THEN <<printed[k]>> ELSE <<>>])
       /\ \A j, k \in DOMAIN spans : j < k => spans[j].start < spans[k].start
       /\ whole = printed \/ whole = Append(printed, Newline)
       /\ \A k \in DOMAIN lines : \A i \in DOMAIN lines[k].text :
            lines[k].key + i <= Len(printed) => printed[lines[k].key + i] = lines[k].text[i]
       /\ \A j, k \in DOMAIN lines : j # k => lines[j].key # lines[k].key
=============================================================================
