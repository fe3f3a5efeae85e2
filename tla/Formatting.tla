----------------------------- MODULE Formatting -----------------------------
(***************************************************************************)
(* The formatter (crates/service-core/src/format.rs): a whole document, or *)
(* the lines of a range of it.                                             *)
(*                                                                         *)
(* A text is the sequence of its lines, as split at LF, and a line the     *)
(* sequence of its symbols: blanks, brackets, the three comment marks, a   *)
(* clause keyword, and two words, one in ASCII.  A blank stands after a    *)
(* comment mark that does not end its line, so that no two run together.   *)
(* Which of LF and CRLF ends the lines is kept by the formatter and left   *)
(* out.                                                                    *)
(***************************************************************************)
EXTENDS Integers, Sequences, SequencesExt

CONSTANTS
    IndentWidth,        \* 4 in the program
    Symbols,            \* the symbols typed, of those below
    MaxTyped            \* bound: symbols and line breaks typed

Blank == " "
Open == "{"
Close == "}"
Line == "//"
BlockOpen == "/*"
BlockClose == "*/"
Clause == "requires"
Word == "x"
WideWord == "wide"      \* a word that is not ASCII

VARIABLES
    text,
    typed       \* symbols typed so far

vars == <<text, typed>>

NoText == << << >> >>
Panic == << >>      \* no text at all: the split of any text has a line

-----------------------------------------------------------------------------
IsBlank(line) == \A i \in DOMAIN line : line[i] = Blank

TrimEnd(line) ==
    SubSeq(line, 1, CHOOSE n \in 0 .. Len(line) :
        /\ n > 0 => line[n] # Blank
        /\ \A i \in n + 1 .. Len(line) : line[i] = Blank)

TrimStart(line) == Reverse(TrimEnd(Reverse(line)))

(* is_clause_continuation: the first word of the line, up to a blank.      *)
ClauseLine(line) ==
    LET content == TrimStart(line)
    IN  content # << >> /\ content[1] = Clause /\ (Len(content) > 1 => content[2] = Blank)

(* scan_line.  The scan goes by bytes and slices the line at each of them: *)
(* inside a character of more than one it panics.  Nothing after // is     *)
(* scanned.                                                                *)
ScanStep(s, symbol) ==
    IF s.comment \/ s.panic THEN s
    ELSE IF symbol = WideWord THEN [s EXCEPT !.panic = TRUE]
    ELSE IF s.block THEN [s EXCEPT !.block = (symbol # BlockClose)]
    ELSE CASE symbol = Line      -> [s EXCEPT !.comment = TRUE]
           [] symbol = BlockOpen -> [s EXCEPT !.block = TRUE]
           [] symbol = Open      -> [s EXCEPT !.net = s.net + 1, !.code = TRUE]
           [] symbol = Close     -> [s EXCEPT !.net = s.net - 1, !.code = TRUE,
                                              !.closes = s.closes + (IF s.code THEN 0 ELSE 1)]
           [] symbol = Blank     -> s
           [] OTHER              -> [s EXCEPT !.code = TRUE]

Scan(line, block) ==
    FoldLeft(ScanStep,
             [block |-> block, comment |-> FALSE, code |-> FALSE, panic |-> FALSE,
              closes |-> 0, net |-> 0],
             line)

Monus(m, n) == IF m > n THEN m - n ELSE 0

(* The loop of format_text over the lines.  Only the first close of a line *)
(* counts as leading, for it counts as code itself: the bound of eight on  *)
(* leading closes is never met.                                            *)
IndentStepKeepsLead(s, line) ==
    IF IsBlank(line) THEN [s EXCEPT !.out = Append(@, << >>)]
    ELSE LET scan == Scan(TrimEnd(line), s.block)
             indent == Monus(s.depth, scan.closes) + (IF ClauseLine(line) THEN 1 ELSE 0)
         IN  [depth |-> Monus(s.depth + scan.net, 0), block |-> scan.block,
              panic |-> s.panic \/ scan.panic,
              out |-> Append(s.out, [i \in 1 .. indent * IndentWidth |-> Blank]
                                      \o TrimEnd(line))]

IndentStep(s, line) ==
    IF IsBlank(line) THEN [s EXCEPT !.out = Append(@, << >>)]
    ELSE LET scan == Scan(TrimEnd(line), s.block)
             indent == Monus(s.depth, scan.closes) + (IF ClauseLine(line) THEN 1 ELSE 0)
         IN  [depth |-> Monus(s.depth + scan.net, 0), block |-> scan.block,
              panic |-> s.panic \/ scan.panic,
              out |-> Append(s.out, [i \in 1 .. indent * IndentWidth |-> Blank]
                                      \o TrimStart(TrimEnd(line)))]

Indented(lines) ==
    FoldLeft(IndentStep, [depth |-> 0, block |-> FALSE, panic |-> FALSE, out |-> << >>], lines)

(* One blank line for a run of them, none at the ends.                     *)
Collapse(lines) ==
    LET Keep(out, line) ==
            IF line = << >> /\ (out = << >> \/ Last(out) = << >>) THEN out ELSE Append(out, line)
        kept == FoldLeft(Keep, << >>, lines)
    IN  IF kept # << >> /\ Last(kept) = << >> THEN Front(kept) ELSE kept

(* format_text                                                             *)
Format(t) ==
    IF t = NoText THEN NoText
    ELSE LET lines == IF Last(t) = << >> THEN Front(t) ELSE t
             indented == Indented(lines)
             kept == Collapse(indented.out)
         IN  IF indented.panic THEN Panic
             ELSE Append(IF kept = << >> THEN NoText ELSE kept, << >>)

(* range_formatting, and the edits applied: the formatted text, line for   *)
(* line, inside the range, its ends in either order; refused when the      *)
(* counts of lines differ.                                                 *)
RangeFormat(t, first, last) ==
    LET formatted == Format(t)
    IN  IF Len(formatted) # Len(t) THEN t
        ELSE [i \in DOMAIN t |-> IF i \in (first .. last) \cup (last .. first) THEN formatted[i] ELSE t[i]]

-----------------------------------------------------------------------------
Init == text = NoText /\ typed = 0

Type ==
    /\ typed < MaxTyped
    /\ typed' = typed + 1
    /\ \/ \E symbol \in Symbols : text' = Append(Front(text), Append(Last(text), symbol))
       \/ text' = Append(text, << >>)

FormatDocument ==
    /\ Format(text) # Panic
    /\ text' = Format(text)
    /\ UNCHANGED typed

FormatRange ==
    /\ Format(text) # Panic
    /\ \E first, last \in DOMAIN text : text' = RangeFormat(text, first, last)
    /\ UNCHANGED typed

Next == Type \/ FormatDocument \/ FormatRange

Spec == Init /\ [][Next]_vars

-----------------------------------------------------------------------------
(* Properties                                                              *)

Contents(t) ==
    LET code == SelectSeq(t, LAMBDA line : ~IsBlank(line))
    IN  [i \in DOMAIN code |-> TrimStart(TrimEnd(code[i]))]

(* A formatted text stays as it is when it is formatted again, and has the *)
(* lines it had, none of them lost, split or moved (format.rs:1-11).       *)
FormatSettles ==
    LET formatted == Format(text)
    IN  formatted # Panic =>
          Format(formatted) = formatted /\ Contents(formatted) = Contents(text)

(* Formatting a range loses no line and repeats none (format.rs:36-41:     *)
(* "outside lines are untouched", "equals formatting that range").         *)
RangeKeepsContents ==
    Format(text) # Panic =>
        \A first, last \in DOMAIN text :
            Contents(RangeFormat(text, first, last)) = Contents(text)

(* Every document can be formatted.                                        *)
FormatAnswers == Format(text) # Panic
=============================================================================
