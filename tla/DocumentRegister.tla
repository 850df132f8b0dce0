---------------------------- MODULE DocumentRegister ----------------------------
(***************************************************************************)
(* What the document handlers promise: the draft is a register that an     *)
(* editor writes, in one atomic step, only while it shows the current text *)
(* under the current lock_version, and that a save or an apply changes by  *)
(* one edit.  A text leaves the draft by a restore alone, of a snapshot    *)
(* that exists.  Proposals are answered once, and accepted only after the  *)
(* draft contained them.  Handlers, locks and failures are invisible here. *)
(***************************************************************************)
EXTENDS Integers, Sequences

CONSTANTS Users, Edits, Proposals

VARIABLES text, lock, versions, status, saved, view

register == <<text, lock, versions, status, saved, view>>

Init ==
    /\ text = {}
    /\ lock = 1
    /\ versions = <<[number |-> 1, text |-> {}]>>
    /\ status = [x \in Proposals |-> "none"]
    /\ saved = {}
    /\ view = [u \in Users |-> [text |-> {}, lock |-> 1]]

Shown == [text |-> text, lock |-> lock]

(* Compare and set; the editor may or may not learn of it.                 *)
Put(u, new) ==
    /\ view[u] = Shown
    /\ text' = new
    /\ lock' = lock + 1
    /\ saved' = saved \cup (new \cap Proposals)
    /\ view' = view \/ view' = [view EXCEPT ![u] = Shown']

Save(u, e) ==
    /\ e \notin text
    /\ Put(u, text \cup {e})
    /\ UNCHANGED <<versions, status>>

(* The proposal may have been rejected since the handler looked.           *)
Apply(u, x) ==
    /\ status[x] # "none"
    /\ Put(u, text \cup {x})
    /\ UNCHANGED <<versions, status>>

(* Numbers may repeat, but each follows one that was given.                *)
Numbers == {versions[i].number : i \in DOMAIN versions}
Add(new) ==
    \E n \in Numbers \cup {0} :
        versions' = Append(versions, [number |-> n + 1, text |-> new])

Restore(u, i) ==
    /\ Put(u, versions[i].text)
    /\ Add(versions[i].text)
    /\ UNCHANGED status

(* A snapshot is of the draft as it was, maybe some saves ago.             *)
Snapshot(new) ==
    /\ new \cap Proposals \subseteq saved
    /\ Add(new)
    /\ UNCHANGED <<text, lock, status, saved, view>>

Refresh(u) ==
    /\ view' = [view EXCEPT ![u] = Shown]
    /\ UNCHANGED <<text, lock, versions, status, saved>>

Answer(x, from, to) ==
    /\ status[x] = from
    /\ status' = [status EXCEPT ![x] = to]
    /\ UNCHANGED <<text, lock, versions, saved, view>>

Next ==
    \/ \E u \in Users : Refresh(u)
    \/ \E u \in Users, e \in Edits : Save(u, e)
    \/ \E u \in Users, x \in Proposals : Apply(u, x)
    \/ \E u \in Users, i \in DOMAIN versions : Restore(u, i)
    \/ \E new \in SUBSET (Edits \cup Proposals) : Snapshot(new)
    \/ \E x \in Proposals : \/ Answer(x, "none", "pending")
                            \/ Answer(x, "pending", "rejected")
                            \/ x \in saved /\ Answer(x, "pending", "accepted")

Spec == Init /\ [][Next]_register
=============================================================================
