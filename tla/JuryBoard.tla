------------------------------- MODULE JuryBoard -------------------------------
(***************************************************************************)
(* What jury matching promises whoever polls a batch: the result of a run  *)
(* appears at once and whole, with a pair for every project, and changes   *)
(* only where an administrator gives a project another pair, until all     *)
(* batches are cleared at once.  A run that fails shows nothing.  Jobs,    *)
(* resets in flight and the rows they hold are invisible here.             *)
(***************************************************************************)

CONSTANTS Batches, Projects, Pairs

VARIABLES
    status,
    shown   \* of each batch: which pairs a poll lists for which projects

board == <<status, shown>>

Init ==
    /\ status = [b \in Batches |-> "absent"]
    /\ shown = [b \in Batches |-> {}]

Become(b, from, to) ==
    /\ status[b] = from
    /\ status' = [status EXCEPT ![b] = to]

(* A batch is asked for once; the job of one that was cleared asks again.  *)
Ask(b) == Become(b, "absent", "processing") /\ UNCHANGED shown
Reopen(b) == Become(b, "deleted", "processing") /\ UNCHANGED shown
Fail(b) == Become(b, "processing", "failed") /\ UNCHANGED shown

Whole(result) == \A p \in Projects : \E r \in Pairs : <<r, p>> \in result

Publish(b, result) ==
    /\ Become(b, "processing", "completed")
    /\ result \subseteq Pairs \X Projects
    /\ Whole(result)
    /\ shown' = [shown EXCEPT ![b] = result]

Exchange(b, p, old, new) ==
    /\ <<old, p>> \in shown[b] /\ <<new, p>> \notin shown[b]
    /\ shown' = [shown EXCEPT ![b] = (@ \ {<<old, p>>}) \cup {<<new, p>>}]
    /\ UNCHANGED status

Clear ==
    /\ status' = [b \in Batches |->
                     IF status[b] = "absent" THEN "absent" ELSE "deleted"]
    /\ shown' = [b \in Batches |-> {}]

Next ==
    \/ \E b \in Batches : \/ Ask(b) \/ Reopen(b) \/ Fail(b)
                          \/ Publish(b, shown'[b])
                          \/ \E p \in Projects, old, new \in Pairs : Exchange(b, p, old, new)
    \/ Clear

Spec == Init /\ [][Next]_board
=============================================================================
