----------------------------- MODULE MCBulkImport -----------------------------
(* Instances of BulkImport: a file with two rows of one roll number and one   *)
(* that does not validate, and a file whose row repeats an email.             *)
EXTENDS BulkImport

MCItems == 1..4
MCJobOf == [i \in MCItems |-> IF i = 4 THEN "second" ELSE "first"]
MCEmailOf == [i \in MCItems |-> IF i \in {1, 4} THEN "ann" ELSE IF i = 2 THEN "bob" ELSE "cyd"]
MCRollOf == [i \in MCItems |-> IF i = 4 THEN "R2" ELSE "R1"]
\* Each pair of ways to take up a job again, with and without restarts, and
\* registrations during a run: one instance with every operation is too large.
MCOpSets == {{"upload", "run", "retry", "resume"},
             {"upload", "run", "retry", "crash"},
             {"upload", "run", "resume", "crash"},
             {"upload", "retry", "resume", "crash"},
             {"upload", "run", "register"}}
=============================================================================
