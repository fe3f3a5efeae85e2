------------------------- MODULE MCWorkspaceChanges -------------------------
(* Two documents and two texts; what the environment does is chosen by     *)
(* each configuration.                                                     *)
EXTENDS WorkspaceChanges, TLC

CONSTANTS a, b, t1, t2, c1, c2, m1

MCUriOrder == <<a, b>>
MCEdited == [c \in Contents \X Edits |-> c[1]]
MCModuleOf == [c \in Contents |-> IF c = c1 THEN m1 ELSE NoModule]
=============================================================================
