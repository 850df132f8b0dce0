--------------------------- MODULE DocumentsRefinement ---------------------------
(* A document's rows and what its editors show, without the handlers.      *)
EXTENDS Documents

Register == INSTANCE DocumentRegister

(* However handlers interleave, conflict and crash, the draft is the       *)
(* compare-and-set register and its snapshots and answers those of the     *)
(* abstract document.                                                      *)
ImplementsRegister == Register!Spec
=============================================================================
