------------------------------- MODULE Listings -------------------------------
(***************************************************************************)
(* Two lists that handlers keep current: the admins' pages of students,    *)
(* kept in Redis for a minute and cleared when a student is switched on or *)
(* off, and a group's shortlist of supervisors.  A page is a filter; of a  *)
(* student only is_active is shown.  The shortlist is not kept in Redis:   *)
(* its ids cannot be written as JSON, which set_json passes over.  Admins  *)
(* have no account here.                                                   *)
(***************************************************************************)
EXTENDS Workspaces

CONSTANT Supervisors    \* faculty that can be shortlisted

VARIABLES
    active,     \* students.is_active
    page,       \* admin:students:...: what each page shows, or None
    behind,     \* history: pages that show rows read before a change they missed
    short       \* shortlisted_supervisors of the group: rows of each supervisor

listing == <<active, page, behind>>
lists == <<listing, short>>

Pages == {"all", "assigned"}
Differs(k, now) == page[k] # None /\ page[k] # now

ListingsInit ==
    /\ active = [u \in Users |-> TRUE]
    /\ page = [k \in Pages |-> None]
    /\ behind = {}
    /\ short = [f \in Supervisors |-> 0]

-----------------------------------------------------------------------------
(* Students.                                                               *)

(* A page that is kept is returned as it is; otherwise the rows are read.  *)
ListStudents(p, k) ==
    /\ page[k] = None
    /\ Start(p, [op |-> "students", phase |-> "cache", on |-> {}, k |-> k, rows |-> active])
    /\ UNCHANGED lists

CachePage(p) ==
    /\ At(p, "students", "cache")
    /\ LET t == txn[p] IN
       /\ page' = [page EXCEPT ![t.k] = t.rows]
       /\ behind' = IF t.rows = active THEN behind \ {t.k} ELSE behind \cup {t.k}
    /\ Done(p)
    /\ UNCHANGED <<active, short>>

ToggleLoad(p, u, to) ==
    /\ Start(p, [op |-> "toggle", phase |-> "commit", on |-> {}, u |-> u, to |-> to,
                 read |-> active[u]])
    /\ UNCHANGED lists

(* A value that equals the one read is not written.                        *)
ToggleCommit(p) ==
    /\ At(p, "toggle", "commit")
    /\ LET t == txn[p] IN
       active' = IF t.to = t.read THEN active ELSE [active EXCEPT ![t.u] = t.to]
    /\ Goto(p, [txn[p] EXCEPT !.phase = "clear"])
    /\ UNCHANGED <<page, behind, short>>

(* clear_pattern("admin:students:*").                                      *)
BugMatching == {"all"}
Matching == Pages

ClearPages(p) ==
    /\ At(p, "toggle", "clear")
    /\ page' = [k \in Pages |-> IF k \in Matching THEN None ELSE page[k]]
    /\ behind' = behind \ Matching
    /\ Done(p)
    /\ UNCHANGED <<active, short>>

(* Redis refuses a page, or keeps all of them, which nobody is told.       *)
CacheFails(p) ==
    /\ "cache_fails" \in ops
    /\ At(p, "students", "cache") \/ At(p, "toggle", "clear")
    /\ behind' = IF txn[p].op = "toggle" THEN behind \cup {k \in Pages : Differs(k, active)}
                 ELSE behind
    /\ Done(p)
    /\ UNCHANGED <<active, page, short>>

PageExpires(k) ==
    /\ AtOnce("minute") /\ page[k] # None
    /\ page' = [page EXCEPT ![k] = None]
    /\ behind' = behind \ {k}
    /\ UNCHANGED <<active, short>>

(* The weekly job, which clears nothing: students whose time is over.      *)
Deactivate(S) ==
    /\ AtOnce("lifecycle")
    /\ active' = [u \in Users |-> active[u] /\ u \notin S]
    /\ behind' = behind \cup {k \in Pages : Differs(k, active')}
    /\ UNCHANGED <<page, short>>

-----------------------------------------------------------------------------
(* The shortlist.                                                          *)

Entry(op, f) == [op |-> op, phase |-> "commit", on |-> {<<"shortlist", f>>}, f |-> f]

Shortlisted(f) == short[f] > 0

(* No constraint keeps two handlers from adding the supervisor.            *)
AddLoad(p, f) ==
    /\ Free(p, "shortlist") /\ Caller /\ ~Shortlisted(f)
    /\ Start(p, Entry("shortlist", f))
    /\ UNCHANGED lists

AddCommit(p) ==
    /\ At(p, "shortlist", "commit")
    /\ short' = [short EXCEPT ![txn[p].f] = @ + 1]
    /\ Done(p)
    /\ UNCHANGED listing

RemoveLoad(p, f) ==
    /\ Free(p, "unlist") /\ Caller /\ Shortlisted(f)
    /\ Start(p, Entry("unlist", f))
    /\ UNCHANGED lists

(* All rows of the supervisor go; that there is none is not an error.      *)
RemoveCommit(p) ==
    /\ At(p, "unlist", "commit")
    /\ short' = [short EXCEPT ![txn[p].f] = 0]
    /\ Done(p)
    /\ UNCHANGED listing

ListingsNext ==
    \/ \E p \in Procs : \/ CachePage(p) \/ ToggleCommit(p) \/ ClearPages(p) \/ CacheFails(p)
                        \/ AddCommit(p) \/ RemoveCommit(p)
                        \/ \E k \in Pages : ListStudents(p, k)
                        \/ \E u \in Users, to \in BOOLEAN : ToggleLoad(p, u, to)
                        \/ \E f \in Supervisors : AddLoad(p, f) \/ RemoveLoad(p, f)
    \/ \E k \in Pages : PageExpires(k)
    \/ \E S \in SUBSET Users \ {{}} : Deactivate(S)

-----------------------------------------------------------------------------
(* Properties.                                                             *)

\* "Clear cache for this admin view" (admin_students.py:251): once a switch is
\* answered every kept page shows the students as they are, whatever pages were
\* read and switches made meanwhile, unless a page was kept from rows read before
\* the change, Redis failed, or it was the weekly job that switched.
PagesAreCurrent ==
    \A k \in Pages \ behind :
        Differs(k, active) => \E p \in Procs : At(p, "toggle", "clear")
=============================================================================
