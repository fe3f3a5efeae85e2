----------------------------- MODULE Coordinates ----------------------------
(***************************************************************************)
(* Positions in a text: byte offsets against lines and UTF-16 columns      *)
(* (crates/service-core/src/coords.rs PositionMap, native_coords.rs and    *)
(* the kernels of mncs/coordinate_map.mncs).                               *)
(*                                                                         *)
(* A line is indexed in chunks.  A chunk ends on a scalar boundary and     *)
(* keeps a checkpoint every CheckpointBytes: the units and the offset of   *)
(* the scalar the checkpoint falls in.  A query maps a short window from   *)
(* one checkpoint byte by byte.  The caches of indexes and windows hold    *)
(* what the operators here compute, by line and by checkpoint, and the     *)
(* packing of a pair in one integer loses nothing at the code's sizes, so  *)
(* neither is a variable.                                                  *)
(*                                                                         *)
(* A text is a sequence of bytes, and of a byte only its part in UTF-8     *)
(* matters: a scalar of n bytes is an n and n - 1 continuations.           *)
(***************************************************************************)
EXTENDS Integers, Sequences, FiniteSets

CONSTANTS
    ChunkBytes,         \* 1020 in the program
    CheckpointBytes,    \* 64
    LookaheadBytes,     \* 3: what a scalar can need beyond its first byte
    CutScalarIsValid    \* external: whether the library accepts a scalar
                        \* that the end of its input cuts

Continuation == 0
LF == 10
CR == 13
Lead == {1, 2, 3, 4, LF, CR}
Byte == Lead \cup {Continuation}

Panic == -1     \* in place of an offset: the program panics

Ascii(b) == b \in {1, LF, CR}
Smaller(m, n) == IF m <= n THEN m ELSE n

(* UTF-16 units of the scalars that begin in the first n bytes.            *)
Units(view, n) ==
    Cardinality({i \in 1 .. n : view[i] # Continuation})
    + Cardinality({i \in 1 .. n : view[i] = 4})

-----------------------------------------------------------------------------
(* Lines.  CRLF ends a line as LF does, and belongs to it.                 *)

LineOf(text, byte) == Cardinality({i \in 1 .. byte : text[i] = LF})

LineCount(text) == LineOf(text, Len(text)) + 1

LineStart(text, line) ==
    CHOOSE o \in 0 .. Len(text) :
        LineOf(text, o) = line /\ (o > 0 => text[o] = LF)

LineEnd(text, line) ==
    IF line + 1 < LineCount(text)
    THEN LET next == LineStart(text, line + 1)
         IN  IF next > 1 /\ text[next - 1] = CR THEN next - 2 ELSE next - 1
    ELSE Len(text)

LineBytes(text, line) == SubSeq(text, LineStart(text, line) + 1, LineEnd(text, line))

-----------------------------------------------------------------------------
(* The kernels.  They walk the scalars of a view that starts on one; a     *)
(* byte inside a scalar stands for its start.                              *)

SnapDown(view, o) ==
    CHOOSE b \in 0 .. o :
        /\ b = Len(view) \/ view[b + 1] # Continuation
        /\ \A i \in b + 1 .. o : i < Len(view) /\ view[i + 1] = Continuation

(* The last scalar of the view is there only in part.                      *)
Cut(view) ==
    view # << >> /\
        LET last == SnapDown(view, Len(view) - 1)
            lead == view[last + 1]
        IN  ~Ascii(lead) /\ last + lead > Len(view)

Refused(view) == Cut(view) /\ ~CutScalarIsValid

(* An entry every stride bytes and one for the end, <<units, bytes>>.  An  *)
(* ASCII view takes a shortcut to the same entries.                        *)
Checkpoints(view, stride) ==
    LET end == (Len(view) + stride - 1) \div stride
    IN  [k \in 0 .. end |->
            LET at == IF k = end THEN Len(view) ELSE SnapDown(view, k * stride)
            IN  <<Units(view, at), at>>]

(* position_chunk: progress stops before a scalar that passes the target.  *)
Chunk(line, start, before) ==
    LET target == Smaller(Len(line) - start, ChunkBytes)
        progress == SubSeq(line, start + 1, start + target)
        ahead == IF \A i \in DOMAIN progress : Ascii(progress[i]) THEN 0 ELSE LookaheadBytes
        view == SubSeq(line, start + 1, Smaller(start + target + ahead, Len(line)))
        bytes == SnapDown(view, target)
    IN  [start |-> start, before |-> before, map |-> Checkpoints(view, CheckpointBytes),
         bytes |-> bytes, units |-> Units(view, bytes), refused |-> Refused(view)]

(* build_line_index: chunk after chunk, each from where the last stopped.  *)
LineIndex(line) ==
    LET from[start \in 0 .. Len(line), before \in 0 .. Len(line)] ==
            IF start = Len(line) THEN << >>
            ELSE LET c == Chunk(line, start, before)
                 IN  <<c>> \o from[start + c.bytes, before + c.units]
    IN  from[0, 0]

LineUnits(index) ==
    IF index = << >> THEN 0
    ELSE index[Len(index)].before + index[Len(index)].units

NarrowWindow(line, c, k) ==
    LET start == c.start + c.map[k][2]
        view == SubSeq(line, start + 1, Smaller(start + CheckpointBytes, Len(line)))
    IN  [start |-> start, before |-> c.before + c.map[k][1],
         map |-> Checkpoints(view, 1), refused |-> Refused(view)]

(* window_index: a checkpoint can lie a lookahead before its stride, and   *)
(* the scalar at the end of the stride can end a lookahead after it.       *)
Window(line, c, k) ==
    LET start == c.start + c.map[k][2]
        view == SubSeq(line, start + 1,
                       Smaller(start + CheckpointBytes + 2 * LookaheadBytes, Len(line)))
    IN  [start |-> start, before |-> c.before + c.map[k][1],
         map |-> Checkpoints(view, 1), refused |-> Refused(view)]

-----------------------------------------------------------------------------
(* position_of.  A place on a line is <<units, bytes>> from its start.      *)

UnitsAt(w, at) ==
    IF w.refused \/ at \notin DOMAIN w.map THEN <<0, Panic>>
    ELSE <<w.before + w.map[at][1], w.start + w.map[at][2]>>

WindowUnits(w, local) == UnitsAt(w, local - w.start)

(* chunk_for_byte, the checkpoint of the byte, and its window.             *)
ChunkUnits(line, c, local) ==
    WindowUnits(Window(line, c, Smaller((local - c.start) \div CheckpointBytes,
                                        Cardinality(DOMAIN c.map) - 1)),
                local)

LineUnitsTo(line, index, local) ==
    IF \E i \in DOMAIN index : index[i].refused THEN <<0, Panic>>
    ELSE IF local > Len(line) THEN <<LineUnits(index) + (local - Len(line)), local>>
    ELSE IF index = << >> THEN <<0, local>>
    ELSE ChunkUnits(line, index[Cardinality({i \in DOMAIN index : index[i].start <= local})],
                    local)

Position(line, start, place) ==
    [line |-> line, character |-> place[1],
     byte |-> IF place[2] = Panic THEN Panic ELSE start + place[2]]

PositionOnLine(text, line, requested) ==
    Position(line, LineStart(text, line),
             LineUnitsTo(LineBytes(text, line), LineIndex(LineBytes(text, line)),
                         requested - LineStart(text, line)))

PositionOf(text, byte) ==
    PositionOnLine(text, LineOf(text, Smaller(byte, Len(text))), Smaller(byte, Len(text)))

-----------------------------------------------------------------------------
(* offset_of: a line or a column out of range is clamped, a column inside  *)
(* a surrogate pair moves past it.                                         *)

WindowColumn(w, column) ==
    LET at == Cardinality({j \in DOMAIN w.map : w.map[j][1] < column - w.before})
    IN  IF w.refused THEN Panic
        ELSE w.start + w.map[Smaller(at, Cardinality(DOMAIN w.map) - 1)][2]

(* chunk_for_column, the last checkpoint not past the column, its window.  *)
ChunkColumn(line, c, column) ==
    WindowColumn(Window(line, c,
                        Cardinality({j \in DOMAIN c.map : c.map[j][1] <= column - c.before}) - 1),
                 column)

LineColumn(line, index, column) ==
    IF \E i \in DOMAIN index : index[i].refused THEN Panic
    ELSE IF column >= LineUnits(index) THEN Len(line)
    ELSE Smaller(Len(line),
                 ChunkColumn(line,
                             index[Cardinality({i \in DOMAIN index : index[i].before <= column})],
                             column))

OffsetOnLine(start, column) == IF column = Panic THEN Panic ELSE start + column

OffsetOf(text, wanted, character) ==
    LET line == Smaller(wanted, LineCount(text) - 1)
    IN  OffsetOnLine(LineStart(text, line),
                     LineColumn(LineBytes(text, line), LineIndex(LineBytes(text, line)),
                                character))

-----------------------------------------------------------------------------
(* What the two promise, said of the whole text at once: the references    *)
(* the unit tests of coords.rs compare them with.                          *)

WholeScalars(text, byte) == SnapDown(text, Smaller(byte, Len(text)))

ReferencePosition(text, byte) ==
    LET b == WholeScalars(text, byte)
        line == LineOf(text, b)
        start == LineStart(text, line)
    IN  [line |-> line, byte |-> b, character |-> Units(text, b) - Units(text, start)]

ReferenceOffset(text, wanted, character) ==
    LET line == Smaller(wanted, LineCount(text) - 1)
        start == LineStart(text, line)
        end == LineEnd(text, line)
        reached == {b \in start .. end :
                       /\ WholeScalars(text, b) = b
                       /\ Units(text, b) - Units(text, start) >= character}
    IN  IF reached = {} THEN end
        ELSE CHOOSE b \in reached : \A other \in reached : b <= other
=============================================================================
