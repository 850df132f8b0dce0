------------------------------ MODULE Workspaces ------------------------------
(***************************************************************************)
(* Workspaces of a group: a MongoDB session that lists its documents, and  *)
(* PostgreSQL documents that name their workspace.  The two are written    *)
(* one after the other and reconciled when workspaces are read.  Titles,   *)
(* types and messages are left out, and so is what a document contains: a  *)
(* request for an empty tab that finds a filled one changes nothing.       *)
(***************************************************************************)
EXTENDS Accounts, Sequences

CONSTANTS
    MaxSpaces,  \* bound: workspaces ever created
    MaxDocs     \* bound: documents ever created

Spaces == 1..MaxSpaces
Docs == 1..MaxDocs

ASSUME WorkspacesAssumptions ==
    /\ {MaxSpaces, MaxDocs} \subseteq Nat
    /\ None \notin BOOLEAN
    /\ {None, Deleted} \cap Spaces = {}

VARIABLES
    space,      \* document_chat_sessions: None, or is_active
    listed,     \* document_ids of each workspace
    doc,        \* group_documents: chat_session_id, None before the row, Deleted after it
    drift       \* history: workspaces and documents whose last link was not written or is lost

workspaces == <<space, listed, doc, drift>>

Caller == \E u \in Users : SignedIn(u)

(* Signed-in students start with one empty workspace.                      *)
WorkspacesInit ==
    /\ space = [w \in Spaces |-> IF w = 1 /\ Caller THEN TRUE ELSE None]
    /\ listed = [w \in Spaces |-> {}]
    /\ doc = [d \in Docs |-> None]
    /\ drift = {}

Exists(d) == doc[d] \notin {None, Deleted}
Active == {w \in Spaces : space[w] = TRUE}

-----------------------------------------------------------------------------
(* Reconciliation: what was read of each workspace, and of it what exists. *)

Reading(W, now) ==
    [op |-> "reconcile", phase |-> "read", on |-> {}, raw |-> [w \in W |-> now[w]]]

(* The ids a client names for a new workspace are not checked; they are of *)
(* documents it has seen.                                                  *)
CreateWorkspace(p, w, D) ==
    /\ "workspace" \in ops /\ Caller /\ space[w] = None /\ \A k \in 1..w - 1 : space[k] # None
    /\ \A d \in D : doc[d] # None
    /\ space' = [space EXCEPT ![w] = TRUE]
    /\ listed' = [listed EXCEPT ![w] = D]
    /\ Start(p, Reading({w}, listed'))
    /\ UNCHANGED <<accounts, doc, drift>>

ListWorkspaces(p) ==
    /\ "read" \in ops /\ Caller /\ Active # {}
    /\ Start(p, Reading(Active, listed))
    /\ UNCHANGED <<accounts, workspaces>>

RenameWorkspace(p, w) ==
    /\ "read" \in ops /\ Caller /\ w \in Active
    /\ Start(p, Reading({w}, listed))
    /\ UNCHANGED <<accounts, workspaces>>

BugValid(raw) == {d \in raw : doc[d] \in Active}
Valid(raw) == {d \in raw : Exists(d)}

ReconcileRead(p) ==
    /\ At(p, "reconcile", "read")
    /\ LET raw == txn[p].raw
           valid == Valid(UNION {raw[w] : w \in DOMAIN raw}) IN
       Goto(p, [op |-> "reconcile", phase |-> "write", on |-> {}, raw |-> raw,
                kept |-> [w \in DOMAIN raw |-> raw[w] \cap valid]])
    /\ UNCHANGED <<accounts, workspaces>>

Changed(p) == {w \in DOMAIN txn[p].raw : txn[p].kept[w] # txn[p].raw[w]}

(* The whole list is replaced, one workspace after the other; a link made  *)
(* since it was read is lost.                                              *)
ReconcileWrite(p) ==
    /\ At(p, "reconcile", "write")
    /\ \/ Changed(p) = {} /\ Done(p) /\ UNCHANGED listed
       \/ \E w \in Changed(p) :
             /\ listed' = [listed EXCEPT ![w] = txn[p].kept[w]]
             /\ Goto(p, [txn[p] EXCEPT !.raw[w] = txn[p].kept[w]])
    /\ UNCHANGED <<accounts, space, doc, drift>>

DeleteWorkspace(w) ==
    /\ AtOnce("delete") /\ Caller /\ w \in Active
    /\ space' = [space EXCEPT ![w] = FALSE]
    /\ UNCHANGED <<accounts, listed, doc, drift>>

-----------------------------------------------------------------------------
(* Documents.                                                              *)

(* A workspace is looked up; that it was deleted is not asked.             *)
Place(op, phase, w, d) == [op |-> op, phase |-> phase, on |-> {}, w |-> w, d |-> d]
Begin(p, w, t) == Free(p, t.op) /\ Caller /\ space[w] # None /\ Start(p, t) /\ UNCHANGED <<accounts, workspaces>>

New(p) == txn[p].op \in {"upload", "create", "import"}
Making(d) == \E q \in Procs : New(q) /\ txn[q].d = d
Unmade(d) == doc[d] = None /\ ~Making(d) /\ \A k \in 1..d - 1 : doc[k] # None \/ Making(k)

Upload(p, w, d) == Begin(p, w, Place("upload", "insert", w, d)) /\ Unmade(d)
Create(p, w, d) == Begin(p, w, Place("create", "insert", w, d)) /\ Unmade(d)
Import(p, w, d) == Begin(p, w, Place("import", "insert", w, d)) /\ Unmade(d)

(* The row and its first snapshot are committed.                           *)
InsertDocument(p) ==
    /\ New(p) /\ txn[p].phase = "insert"
    /\ doc' = [doc EXCEPT ![txn[p].d] = txn[p].w]
    /\ Goto(p, [txn[p] EXCEPT !.phase = "link"])
    /\ UNCHANGED <<accounts, space, listed, drift>>

LinkDocument(p, w, d) == Begin(p, w, Place("link", "attach", w, d)) /\ Exists(d)

(* attach_to_session keeps the row locked until the commit.                *)
Attaching(d) == \E q \in Procs : txn[q].op = "link" /\ txn[q].phase # "attach" /\ txn[q].d = d

Attach(p) ==
    /\ At(p, "link", "attach") /\ ~Attaching(txn[p].d)
    /\ IF Exists(txn[p].d) THEN Goto(p, [txn[p] EXCEPT !.phase = "link"]) ELSE Done(p)
    /\ UNCHANGED <<accounts, workspaces>>

(* A reconciliation has read the workspace and will replace its list.      *)
Stale(w, d) == \E q \in Procs : txn[q].op = "reconcile" /\ w \in DOMAIN txn[q].raw
                                /\ d \notin txn[q].raw[w]

(* link_document_to_session: $addToSet.                                    *)
BugLinked(w, d) == {d}
Linked(w, d) == listed[w] \cup {d}

Link(p) ==
    /\ txn[p].phase = "link"
    /\ LET t == txn[p] IN
       /\ listed' = [listed EXCEPT ![t.w] = Linked(t.w, t.d)]
       /\ drift' = IF Stale(t.w, t.d) THEN drift \cup {<<t.w, t.d>>} ELSE drift \ {<<t.w, t.d>>}
       /\ IF New(p) THEN Done(p) ELSE Goto(p, [t EXCEPT !.phase = "commit"])
    /\ UNCHANGED <<accounts, space, doc>>

LinkCommit(p) ==
    /\ At(p, "link", "commit")
    /\ doc' = [doc EXCEPT ![txn[p].d] = txn[p].w]
    /\ Done(p)
    /\ UNCHANGED <<accounts, space, listed, drift>>

(* MongoDB or the process fails, which an upload does not report: a        *)
(* document that was inserted stays, one that was attached goes back.      *)
LinkFails(p) ==
    /\ "fails" \in ops /\ (New(p) \/ txn[p].op = "link")
    /\ drift' = IF New(p) /\ txn[p].phase = "link"
                THEN drift \cup {<<txn[p].w, txn[p].d>>} ELSE drift
    /\ Done(p)
    /\ UNCHANGED <<accounts, space, listed, doc>>

(* The rows of a document go, with its group or by hand.                   *)
RemoveDocument(d) ==
    /\ AtOnce("remove") /\ Exists(d) /\ ~Attaching(d)
    /\ doc' = [doc EXCEPT ![d] = Deleted]
    /\ UNCHANGED <<accounts, space, listed, drift>>

WorkspacesNext ==
    \/ \E p \in Procs, w \in Spaces :
          \/ RenameWorkspace(p, w)
          \/ \E D \in SUBSET Docs : CreateWorkspace(p, w, D)
          \/ \E d \in Docs : \/ Upload(p, w, d) \/ Create(p, w, d) \/ Import(p, w, d)
                            \/ LinkDocument(p, w, d)
    \/ \E p \in Procs : \/ ListWorkspaces(p) \/ ReconcileRead(p) \/ ReconcileWrite(p)
                        \/ InsertDocument(p) \/ Attach(p) \/ Link(p) \/ LinkCommit(p)
                        \/ LinkFails(p)
    \/ \E w \in Spaces : DeleteWorkspace(w)
    \/ \E d \in Docs : RemoveDocument(d)

-----------------------------------------------------------------------------
(* Properties.                                                             *)

Moving(d) == \E q \in Procs : (New(q) \/ txn[q].op = "link") /\ txn[q].d = d

\* "appends its UUID to the MongoDB session's document_ids array"
\* (student_documents.py:609): a document that nobody is moving is listed by the
\* workspace it names, however many documents are added, moved and pruned at once,
\* unless the link failed or fell between the two halves of a reconciliation.
TabsListed ==
    \A d \in Docs : Exists(d) /\ ~Moving(d) /\ <<doc[d], d>> \notin drift => d \in listed[doc[d]]
=============================================================================
