\* Formatting some of the lines of a document.
SPECIFICATION Spec
CONSTANTS
    IndentWidth = 1
    Symbols = {" ", "{", "}"}
    MaxTyped = 4
INVARIANTS
    RangeKeepsContents
\* The model stops when everything is typed; an editor does not.
CHECK_DEADLOCK FALSE
