--------------------------- MODULE ChatTurnsRefinement ---------------------------
(* What listeners and the stores see of the requests, without the workers. *)
EXTENDS ChatTurns

Room == INSTANCE ChatRoom

(* Requeues, failures, restarts and keys that run out never show: each     *)
(* step of a handler or worker is one of the room, or none.                *)
ImplementsRoom == Room!Spec
=============================================================================
