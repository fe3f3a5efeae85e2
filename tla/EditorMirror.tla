---------------------------- MODULE EditorMirror ----------------------------
(***************************************************************************)
(* The copy of an editor's text that the service edits along with it       *)
(* (crates/lsp/src/lib.rs did_open and did_change, document.rs             *)
(* did_change_incremental, edits.rs).  The editor never sends its text     *)
(* again: a change names a range by line and UTF-16 column, and the        *)
(* service finds the bytes through Coordinates.                            *)
(*                                                                         *)
(* The editor's text is a sequence of scalars, each standing by its number *)
(* of bytes, LF and CR by themselves.                                      *)
(***************************************************************************)
EXTENDS Coordinates, FiniteSetsExt, SequencesExt

CONSTANTS
    Inserts,        \* what an editor puts in place of a range
    MaxScalars,     \* bound: scalars of the editor's text
    MaxPair,        \* bound: scalars of a text edited twice at once
    MaxBytes        \* MAX_DOCUMENT_BYTES

VARIABLES
    editor,     \* the text in the editor
    service,    \* the buffer of the service
    refused,    \* history: a change was refused and no full text came since
    mixed       \* history: a notification held a full text and ranges, and
                \* no full text came since

vars == <<editor, service, refused, mixed>>

Scalar == Lead
Encoded(scalars) ==
    FlattenSeq([i \in DOMAIN scalars |->
        <<scalars[i]>> \o [j \in 1 .. (IF Ascii(scalars[i]) THEN 0 ELSE scalars[i] - 1)
                              |-> Continuation]])

-----------------------------------------------------------------------------
(* The editor (external).  A place is a number of scalars from the start;  *)
(* none lies inside CRLF.                                                  *)

Places(scalars) ==
    {p \in 0 .. Len(scalars) :
        ~(p \in 1 .. Len(scalars) - 1 /\ scalars[p] = CR /\ scalars[p + 1] = LF)}

PlacePosition(scalars, p) ==
    LET line == {i \in 1 .. p : scalars[i] = LF}
        start == IF line = {} THEN 0 ELSE Max(line)
    IN  [line |-> Cardinality(line),
         character |-> (p - start) + Cardinality({i \in start + 1 .. p : scalars[i] = 4})]

EditorReplace(scalars, p, q, insert) ==
    LET start == Smaller(p, q)
    IN  SubSeq(scalars, 1, start) \o insert \o SubSeq(scalars, p + q - start + 1, Len(scalars))

(* A change as it is sent: a range, its ends in either order, or none.     *)
Ranged(scalars, p, q, insert) ==
    [full |-> FALSE, start |-> PlacePosition(scalars, p), end |-> PlacePosition(scalars, q),
     text |-> Encoded(insert)]
Full(scalars) == [full |-> TRUE, text |-> Encoded(scalars)]

-----------------------------------------------------------------------------
(* edits.rs                                                                *)

SpliceUnswapped(text, one, other, insert) ==
    SubSeq(text, 1, one) \o insert \o SubSeq(text, other + 1, Len(text))

Splice(text, one, other, insert) ==
    SubSeq(text, 1, Smaller(one, other)) \o insert
        \o SubSeq(text, one + other - Smaller(one, other) + 1, Len(text))

ApplyOne(text, change) ==
    IF change.full THEN change.text
    ELSE Splice(text, OffsetOf(text, change.start.line, change.start.character),
                OffsetOf(text, change.end.line, change.end.character), change.text)

ApplyChanges(text, changes) == FoldLeft(ApplyOne, text, changes)

(* did_change_incremental and did_open: the text a notification leaves.  A *)
(* full text wins over every range sent with it.                           *)
AfterChange(text, changes) ==
    LET full == SelectSeq(changes, LAMBDA c : c.full)
    IN  IF full # << >> THEN Last(full).text ELSE ApplyChanges(text, changes)

Accept(text, full, ranges) ==
    IF Len(text) > MaxBytes
    THEN service' = service /\ refused' = TRUE /\ mixed' = mixed
    ELSE /\ service' = text
         /\ refused' = (refused /\ ~full)
         /\ mixed' = ((full /\ ranges) \/ (mixed /\ ~full))

(* The handler of a notification: a text that is too large is refused, the *)
(* refusal is logged and the buffer stays.                                 *)
DidChange(changes) ==
    Accept(AfterChange(service, changes),
           \E i \in DOMAIN changes : changes[i].full,
           \E i \in DOMAIN changes : ~changes[i].full)

-----------------------------------------------------------------------------
Init == editor = << >> /\ service = << >> /\ refused = FALSE /\ mixed = FALSE

(* What ranges do to a service whose text is already another no property   *)
(* says: the model goes on with the full text that puts it right.          *)
InStep == ~refused /\ ~mixed

(* One edit, one notification.                                             *)
EditOnce ==
    /\ InStep
    /\ \E p, q \in Places(editor), insert \in Inserts :
          /\ editor' = EditorReplace(editor, p, q, insert)
          /\ Len(editor') <= MaxScalars
          /\ DidChange(<<Ranged(editor, p, q, insert)>>)

(* Two edits in one notification, the second in the text the first left.   *)
EditTwice ==
    /\ InStep
    /\ Len(editor) <= MaxPair
    /\ \E p, q \in Places(editor), insert \in Inserts :
          LET between == EditorReplace(editor, p, q, insert)
          IN  \E r \in Places(between), second \in Inserts :
                  /\ editor' = EditorReplace(between, r, r, second)
                  /\ Len(editor') <= MaxScalars
                  /\ DidChange(<<Ranged(editor, p, q, insert), Ranged(between, r, r, second)>>)

(* The editor sends everything, opening the document or replacing it; one  *)
(* that mixes sends what came after along with it.                         *)
SendFull ==
    /\ UNCHANGED editor
    /\ DidChange(<<Full(editor)>>)

SendMixed ==
    /\ InStep
    /\ \E r \in Places(editor), second \in Inserts :
          /\ editor' = EditorReplace(editor, r, r, second)
          /\ Len(editor') <= MaxScalars
          /\ DidChange(<<Full(editor), Ranged(editor, r, r, second)>>)

Next == EditOnce \/ EditTwice \/ SendFull \/ SendMixed

Spec == Init /\ [][Next]_vars

-----------------------------------------------------------------------------
(* Properties                                                              *)

(* Whatever is sent, a text of the service is made of whole scalars.       *)
TypeOK ==
    /\ editor \in Seq(Scalar)
    /\ service \in Seq(Byte)
    /\ \A i \in DOMAIN service :
          service[i] \in 2 .. 4 =>
            /\ i + service[i] - 1 <= Len(service)
            /\ \A j \in i + 1 .. i + service[i] - 1 : service[j] = Continuation
    /\ Cardinality({i \in DOMAIN service : service[i] = Continuation})
          = MapThenSumSet(LAMBDA i : service[i] - 1,
                          {i \in DOMAIN service : service[i] \in 2 .. 4})
    /\ {refused, mixed} \subseteq BOOLEAN

(* The editor and the service hold the same text after every notification  *)
(* that kept to the protocol and was not refused, whatever scalars, line   *)
(* ends and order of ends the ranges had (edits.rs apply_one, coords.rs    *)
(* offset_of).                                                             *)
Mirrored == InStep => service = Encoded(editor)

(* The same of notifications that mix a full text and ranges, which        *)
(* edits.rs applies in order.                                              *)
MirroredMixed == ~refused => service = Encoded(editor)

(* The indexed mapping is the plain one, for every offset and every line   *)
(* and column a request can name, in range or not; it never leaves a       *)
(* window it mapped (coords.rs position_of and offset_of).                 *)
PositionsExact ==
    /\ \A byte \in 0 .. Len(service) + 1 :
          PositionOf(service, byte) = ReferencePosition(service, byte)
    /\ \A line \in 0 .. LineCount(service), character \in 0 .. Len(service) + 1 :
          OffsetOf(service, line, character) = ReferenceOffset(service, line, character)
=============================================================================
