---------------------------- MODULE AccountRegister ----------------------------
(***************************************************************************)
(* What bulk registration promises whoever reads the rows of a file, the   *)
(* users and the students: rows are settled together with the accounts     *)
(* they make, a success makes one account under an email and a roll number *)
(* that nobody has, an invalid row fails, and any other row is skipped     *)
(* because its email or roll number is in use.  Tasks, runs, what they     *)
(* have read and flushed, and the status of the files are invisible here.  *)
(***************************************************************************)

CONSTANTS
    Jobs, Items, JobOf, Emails, EmailOf, Rolls, RollOf, Invalid,
    None, Other, NoRoll

VARIABLES item, owner, rolls

register == <<item, owner, rolls>>

Init ==
    /\ item = [i \in Items |-> "none"]
    /\ owner = [e \in Emails |-> None]
    /\ rolls = [r \in Rolls |-> None]

Numbered(i) == RollOf[i] # NoRoll

(* The rows of a file are offered, and those that failed once more.        *)
Offer(j, from) ==
    /\ item' = [i \in Items |-> IF JobOf[i] = j /\ item[i] = from THEN "pending" ELSE item[i]]
    /\ UNCHANGED <<owner, rolls>>

(* Rows that take an email, or a roll number, each one of its own.         *)
Given(table, key, made) ==
    [k \in DOMAIN table |-> IF \E i \in made : key[i] = k
                            THEN CHOOSE i \in made : key[i] = k ELSE table[k]]

Free(i) == owner[EmailOf[i]] = None /\ (Numbered(i) => rolls[RollOf[i]] = None)
Apart(i, k) == EmailOf[i] # EmailOf[k] /\ (Numbered(i) => RollOf[i] # RollOf[k])
InUse(i) == owner[EmailOf[i]] # None \/ (Numbered(i) /\ rolls[RollOf[i]] # None)

(* One commit: the verdicts on some rows and the accounts of the successes. *)
Settle(ruling) ==
    LET rows == DOMAIN ruling
        made == {i \in rows : ruling[i] = "success"}
    IN  /\ \A i \in rows : item[i] # "none"
        /\ \A i \in made : i \notin Invalid /\ Free(i)
        /\ \A i, k \in made : i # k => Apart(i, k)
        /\ owner' = Given(owner, EmailOf, made) /\ rolls' = Given(rolls, RollOf, made)
        /\ \A i \in rows \ made :
              IF i \in Invalid THEN ruling[i] = "failed" ELSE ruling[i] = "skipped" /\ InUse(i)'
        /\ item' = [i \in Items |-> IF i \in rows THEN ruling[i] ELSE item[i]]

(* The form for a single user; a supervisor has no roll number.            *)
Register(e, r) ==
    /\ owner[e] = None /\ owner' = [owner EXCEPT ![e] = Other]
    /\ r # NoRoll => rolls[r] = None
    /\ rolls' = IF r = NoRoll THEN rolls ELSE [rolls EXCEPT ![r] = Other]
    /\ UNCHANGED item

Next ==
    \/ \E j \in Jobs : Offer(j, "none") \/ Offer(j, "failed")
    \/ \E rows \in SUBSET Items : Settle([i \in rows |-> item'[i]])
    \/ \E e \in Emails, r \in Rolls \cup {NoRoll} : Register(e, r)

Spec == Init /\ [][Next]_register
=============================================================================
