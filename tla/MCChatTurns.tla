------------------------------ MODULE MCChatTurns ------------------------------
(* Which room the messages of the run of ChatTurns are posted to.          *)
EXTENDS ChatTurnsRefinement, TLC

CONSTANTS r1, r2, r3, a, b

TwoAndOne == r1 :> a @@ r2 :> a @@ r3 :> b
=============================================================================
