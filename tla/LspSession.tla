----------------------------- MODULE LspSession -----------------------------
(***************************************************************************)
(* A session of the language server (crates/lsp/src/lib.rs): the           *)
(* notifications of one editor, the diagnostics sent back.                 *)
(*                                                                         *)
(* Notifications arrive in order and each is handled to its end before the *)
(* next: no handler awaits anything.  Each sends its diagnostics from a    *)
(* task of its own (spawn_client_message), so messages reach the editor in *)
(* any order.  Diagnostics stand for the text they were computed from.     *)
(*                                                                         *)
(* A text is a number; 0 is what every file holds at first.  A ranged edit *)
(* is one of a text: of any other it makes Garbled.                        *)
(***************************************************************************)
EXTENDS Naturals, Sequences

CONSTANTS
    Docs,
    Large,          \* texts of more than MAX_DOCUMENT_BYTES
    None,           \* no text, no version
    Garbled,        \* the outcome of an edit of another text
    MaxTexts,       \* bound: texts the editor writes
    MaxMessages,    \* bound: notifications it sends
    ChecksVersion,  \* external: the editor drops diagnostics of another version
    ReopensLate     \* external: it reopens a document only when every message
                    \*   about it has arrived

VARIABLES
    editor,     \* document -> what the editor holds and shows
    texts,      \* texts written so far
    sent,       \* notifications sent so far
    inbox,      \* notifications on their way, in order
    service,    \* document -> what the service holds
    outbox      \* diagnostics on their way

vars == <<editor, texts, sent, inbox, service, outbox>>

Init ==
    /\ editor = [d \in Docs |-> [open |-> FALSE, version |-> None, text |-> 0, file |-> 0,
                                 shown |-> None, synced |-> TRUE]]
    /\ texts = 0
    /\ sent = 0
    /\ inbox = << >>
    /\ service = [d \in Docs |-> [buffer |-> None, version |-> None, disk |-> None]]
    /\ outbox = {}

-----------------------------------------------------------------------------
(* The editor (external)                                                   *)

Notify(m) ==
    /\ sent < MaxMessages
    /\ sent' = sent + 1
    /\ inbox' = Append(inbox, m)
    /\ UNCHANGED <<service, outbox>>

Settled(d) ==
    /\ \A k \in DOMAIN inbox : inbox[k].doc # d
    /\ \A m \in outbox : m.doc # d

(* A document is opened with the text of its file, as version 1 again.     *)
EditorOpen(d) ==
    /\ ~editor[d].open
    /\ ReopensLate => Settled(d)
    /\ Notify([kind |-> "open", doc |-> d, version |-> 1, text |-> editor[d].file, of |-> None])
    /\ editor' = [editor EXCEPT ![d].open = TRUE, ![d].version = 1, ![d].text = editor[d].file]
    /\ UNCHANGED texts

(* A ranged edit, or the whole text anew (of = None).                      *)
EditorChange(d, whole) ==
    /\ editor[d].open
    /\ texts < MaxTexts
    /\ texts' = texts + 1
    /\ Notify([kind |-> "change", doc |-> d, version |-> editor[d].version + 1,
               text |-> texts', of |-> IF whole THEN None ELSE editor[d].text])
    /\ editor' = [editor EXCEPT ![d].version = @ + 1, ![d].text = texts']

EditorSave(d) ==
    /\ editor[d].open
    /\ Notify([kind |-> "save", doc |-> d, version |-> None, text |-> None, of |-> None])
    /\ editor' = [editor EXCEPT ![d].file = editor[d].text]
    /\ UNCHANGED texts

EditorClose(d) ==
    /\ editor[d].open
    /\ Notify([kind |-> "close", doc |-> d, version |-> None, text |-> None, of |-> None])
    /\ editor' = [editor EXCEPT ![d].open = FALSE, ![d].version = None,
                                ![d].text = editor[d].file]
    /\ UNCHANGED texts

-----------------------------------------------------------------------------
(* The service (DocumentStore has its whole)                               *)

(* What it analyses: buffer, disk text, or the file, which is read then.   *)
Content(held, file) ==
    IF held.buffer # None THEN held.buffer
    ELSE IF held.disk # None THEN held.disk
    ELSE IF file \notin Large THEN file ELSE None

(* did_change_incremental *)
Edited(m) ==
    IF m.of \in {None, Content(service[m.doc], editor[m.doc].file)} THEN m.text ELSE Garbled

Accepted(m) == Edited(m) \notin Large

After(m) ==
    LET s == service[m.doc]
    IN  CASE m.kind \in {"open", "change"} ->
               [buffer |-> Edited(m), version |-> m.version, disk |-> None]
          [] m.kind = "save" -> [s EXCEPT !.disk = IF s.buffer # None THEN s.buffer ELSE @]
          [] m.kind = "close" -> [s EXCEPT !.buffer = None, !.version = None]

-----------------------------------------------------------------------------
(* The handlers                                                            *)

DiagnosticsOfBefore(m, held) ==
    [doc |-> m.doc, text |-> Content(service[m.doc], editor[m.doc].file), version |-> held.version]

(* publish_diagnostics, of the service as the handler leaves it.           *)
Diagnostics(m, held) ==
    [doc |-> m.doc, text |-> Content(held, editor[m.doc].file), version |-> held.version]

PublishUnlessChanged(m, held) ==
    IF m.kind = "change" THEN UNCHANGED outbox ELSE outbox' = outbox \cup {Diagnostics(m, held)}

Publish(m, held) == outbox' = outbox \cup {Diagnostics(m, held)}

(* did_open, did_change, did_save, did_close, of a document the service    *)
(* takes.  What the editor and the service hold is the same text again     *)
(* when a whole one has been taken.                                        *)
Handle ==
    /\ inbox # << >>
    /\ LET m == Head(inbox)
       IN  /\ Accepted(m)
           /\ service' = [service EXCEPT ![m.doc] = After(m)]
           /\ editor' = [editor EXCEPT ![m.doc].synced =
                             @ \/ (m.kind \in {"open", "change"} /\ m.of = None)]
           /\ Publish(m, After(m))
    /\ inbox' = Tail(inbox)
    /\ UNCHANGED <<texts, sent>>

(* A text that is too large is logged and nothing else.                    *)
Refuse ==
    /\ inbox # << >>
    /\ LET m == Head(inbox)
       IN  /\ ~Accepted(m)
           /\ editor' = [editor EXCEPT ![m.doc].synced = FALSE]
    /\ inbox' = Tail(inbox)
    /\ UNCHANGED <<texts, sent, service, outbox>>

(* A message reaches the editor, which shows it or drops it.               *)
Deliver(m) ==
    /\ outbox' = outbox \ {m}
    /\ editor' = IF ~ChecksVersion \/ m.version \in {None, editor[m.doc].version}
                 THEN [editor EXCEPT ![m.doc].shown = m.text]
                 ELSE editor
    /\ UNCHANGED <<texts, sent, inbox, service>>

Next ==
    \/ \E d \in Docs : EditorOpen(d) \/ EditorSave(d) \/ EditorClose(d)
                       \/ \E whole \in BOOLEAN : EditorChange(d, whole)
    \/ Handle \/ Refuse
    \/ \E m \in outbox : Deliver(m)

(* The server reads on and its tasks run; nothing is asked of the editor.  *)
Fairness == WF_vars(Handle \/ Refuse) /\ WF_vars(\E m \in outbox : Deliver(m))

Spec == Init /\ [][Next]_vars /\ Fairness

-----------------------------------------------------------------------------
(* Properties                                                              *)

(* Diagnostics that carry the version the editor has were computed from    *)
(* the text it has, as long as no change of the document was refused: what *)
(* follows a refused change is edited on a text the service does not have  *)
(* (publish_diagnostics, did_change).                                      *)
DiagnosticsOfVersion ==
    \A m \in outbox :
        LET e == editor[m.doc]
        IN  (e.open /\ e.synced /\ m.version = e.version) => m.text = e.text

(* When the editor rests, what it shows of an open document is about the   *)
(* text it holds, whatever the order in which messages arrived, unless     *)
(* the service has refused one of its changes (did_open, did_change,       *)
(* did_save, did_close, spawn_client_message).                             *)
DiagnosticsSettle ==
    <>[](\A d \in Docs : (editor[d].open /\ editor[d].synced) => editor[d].shown = editor[d].text)
=============================================================================
