------------------------------- MODULE Documents -------------------------------
(***************************************************************************)
(* One group document: the live draft that several students save under an  *)
(* optimistic lock, the numbered snapshots of it, and the edits an AI turn *)
(* proposes and a student applies or rejects.                              *)
(*                                                                         *)
(* The draft and the snapshots are PostgreSQL rows, written in the         *)
(* transaction of a handler p at READ COMMITTED; an UPDATE of the draft    *)
(* keeps its row locked until the commit.  A proposal is a MongoDB         *)
(* document, and each write to it takes effect at once.  A text is the set *)
(* of the edits and proposals merged into it.  What a student's editor     *)
(* shows (view) is external: it sends what it shows with one edit more,    *)
(* and the lock_version it was loaded with.                                *)
(***************************************************************************)
EXTENDS Integers, Sequences

(* Operators named Bug... are plausible mistakes in the operator that      *)
(* follows them; they are used only to show that a property notices.       *)

CONSTANTS
    Users,          \* students with the document open
    Edits,          \* changes a student can type
    Proposals,      \* edits an AI turn may propose
    Procs,          \* request handlers that may be in flight at once
    MaxLock,        \* bound: largest lock_version
    MaxVersions     \* bound: snapshots ever taken

ASSUME DocumentsAssumptions ==
    /\ Edits \cap Proposals = {}
    /\ MaxLock \in Nat \ {0}
    /\ MaxVersions \in Nat \ {0}

VARIABLES
    text,           \* group_documents.content
    lock,           \* group_documents.lock_version
    versions,       \* document_versions rows, in the order of their commits
    status,         \* status of each proposal; "none" before it is made
    saved,          \* history: proposals some committed draft contained
    view,           \* the text and lock_version each editor shows
    txn             \* the handler each process is running

stored == <<text, lock, versions, status, saved>>
vars == <<text, lock, versions, status, saved, view, txn>>

Texts == SUBSET (Edits \cup Proposals)
Version == [number : Nat, text : Texts]
Numbers == {versions[i].number : i \in DOMAIN versions}

-----------------------------------------------------------------------------
(* What a handler remembers.  new and expected are what an UPDATE of the   *)
(* draft will write and the lock_version it asks for.                      *)

Idle == [op |-> "idle"]
WriteTxn == [op : {"save", "save_commit", "restore", "restore_number"},
             u : Users, new : Texts, expected : Nat]
ApplyTxn == [op : {"apply", "apply_commit"}, u : Users, new : Texts,
             expected : Nat, x : Proposals]
ResolveTxn == [op : {"resolve"}, x : Proposals]
RestoredTxn == [op : {"restore_commit"}, u : Users, new : Texts,
                expected : Nat, number : Nat]
SnapTxn == [op : {"snap_number"}, new : Texts]
SnappedTxn == [op : {"snap_commit"}, new : Texts, number : Nat]
Txn == {Idle} \cup WriteTxn \cup ApplyTxn \cup ResolveTxn \cup RestoredTxn
       \cup SnapTxn \cup SnappedTxn

TypeOK ==
    /\ text \in Texts
    /\ lock \in Nat \ {0}
    /\ versions \in Seq(Version)
    /\ status \in [Proposals -> {"none", "pending", "accepted", "rejected"}]
    /\ saved \subseteq Proposals
    /\ view \in [Users -> [text : Texts, lock : Nat]]
    /\ txn \in [Procs -> Txn]

(* create_document commits the draft together with its first snapshot, so  *)
(* _ensure_initial_version_snapshot finds one at every later save.         *)
Init ==
    /\ text = {}
    /\ lock = 1
    /\ versions = <<[number |-> 1, text |-> {}]>>
    /\ status = [x \in Proposals |-> "none"]
    /\ saved = {}
    /\ view = [u \in Users |-> [text |-> {}, lock |-> 1]]
    /\ txn = [p \in Procs |-> Idle]

Goto(p, t) == txn' = [txn EXCEPT ![p] = t]
Start(p, t) ==
    /\ txn[p] = Idle
    /\ Goto(p, t)
    /\ UNCHANGED <<stored, view>>

(* The draft's row is locked by a handler whose UPDATE has run.            *)
Writing(p) == txn[p].op \in {"save_commit", "apply_commit", "restore_number",
                             "restore_commit"}
RowFree == \A q \in Procs : ~Writing(q)

(* UPDATE ... WHERE lock_version = expected; no row is a conflict (409).   *)
BugMatches(t) == TRUE
Matches(t) == lock = t.expected

Update(p, from, to) ==
    /\ txn[p].op = from
    /\ RowFree
    /\ Goto(p, IF Matches(txn[p]) THEN [txn[p] EXCEPT !.op = to] ELSE Idle)
    /\ UNCHANGED <<stored, view>>

(* The commit of a draft, and the response that tells the editor, unless   *)
(* it is lost.                                                             *)
BugNextLock(t) == t.expected
NextLock(t) == lock + 1

Write(p) ==
    LET t == txn[p] IN
    /\ text' = t.new
    /\ lock' = NextLock(t)
    /\ saved' = saved \cup (t.new \cap Proposals)
    /\ \/ view' = [view EXCEPT ![t.u] = [text |-> t.new, lock |-> lock']]
       \/ UNCHANGED view

-----------------------------------------------------------------------------
(* Saving.                                                                 *)

Refresh(u) ==
    /\ view[u].lock # lock
    /\ view' = [view EXCEPT ![u] = [text |-> text, lock |-> lock]]
    /\ UNCHANGED <<stored, txn>>

MayWrite == lock < MaxLock                                               \* bound

Save(p, u, e) ==
    /\ MayWrite
    /\ e \notin view[u].text
    /\ Start(p, [op |-> "save", u |-> u, new |-> view[u].text \cup {e},
                 expected |-> view[u].lock])

SaveUpdate(p) == Update(p, "save", "save_commit")

SaveCommit(p) ==
    /\ txn[p].op = "save_commit"
    /\ Write(p)
    /\ Goto(p, Idle)
    /\ UNCHANGED <<versions, status>>

-----------------------------------------------------------------------------
(* Snapshots.  The text is read, then the largest number, then the row is  *)
(* inserted; nothing makes the number unique.                              *)

Largest == CHOOSE n \in Numbers \cup {0} : \A k \in Numbers : k <= n

NextNumber == Largest + 1

Snapshotting == {q \in Procs : txn[q].op \in {"snap_number", "snap_commit", "restore",
                                              "restore_number", "restore_commit"}}
MayAdd == Len(versions) < MaxVersions /\ Snapshotting \in {{}} \cup {{q} : q \in Procs}
\* bound

SnapLoad(p) ==
    /\ MayAdd
    /\ Start(p, [op |-> "snap_number", new |-> text])

SnapNumber(p) ==
    /\ txn[p].op = "snap_number"
    /\ Goto(p, [op |-> "snap_commit", new |-> txn[p].new, number |-> NextNumber])
    /\ UNCHANGED <<stored, view>>

(* Mutant: a restore snapshots the draft it is about to replace.           *)
BugAdded(p) == Append(versions, [number |-> txn[p].number, text |-> text])
Added(p) == Append(versions, [number |-> txn[p].number, text |-> txn[p].new])

SnapCommit(p) ==
    /\ txn[p].op = "snap_commit"
    /\ versions' = Added(p)
    /\ Goto(p, Idle)
    /\ UNCHANGED <<text, lock, status, saved, view>>

(* restore_document_to_version: some snapshot of that number becomes the   *)
(* draft, and is added once more as the newest snapshot.                   *)
RestoreLoad(p, u, i) ==
    /\ MayWrite
    /\ MayAdd
    /\ i \in DOMAIN versions
    /\ Start(p, [op |-> "restore", u |-> u, new |-> versions[i].text,
                 expected |-> view[u].lock])

RestoreUpdate(p) == Update(p, "restore", "restore_number")

RestoreNumber(p) ==
    /\ txn[p].op = "restore_number"
    /\ Goto(p, [op |-> "restore_commit", u |-> txn[p].u, new |-> txn[p].new,
                expected |-> txn[p].expected, number |-> NextNumber])
    /\ UNCHANGED <<stored, view>>

RestoreCommit(p) ==
    /\ txn[p].op = "restore_commit"
    /\ Write(p)
    /\ versions' = Added(p)
    /\ Goto(p, Idle)
    /\ UNCHANGED status

-----------------------------------------------------------------------------
(* Proposals.                                                              *)

Propose(x) ==
    /\ status[x] = "none"
    /\ status' = [status EXCEPT ![x] = "pending"]
    /\ UNCHANGED <<text, lock, versions, saved, view, txn>>

(* update_status with only_if_pending: one atomic update_one.              *)
Resolved(x, s) == IF status[x] = "pending" THEN s ELSE status[x]

Resolve(x, s) == status' = [status EXCEPT ![x] = Resolved(x, s)]

Reject(x) ==
    /\ status[x] # "none"
    /\ Resolve(x, "rejected")
    /\ UNCHANGED <<text, lock, versions, saved, view, txn>>

(* apply_proposal reads the status, saves the merged draft, and resolves.  *)
ApplyCheck(p, u, x) ==
    /\ MayWrite
    /\ status[x] = "pending"
    /\ Start(p, [op |-> "apply", u |-> u, new |-> view[u].text \cup {x},
                 expected |-> view[u].lock, x |-> x])

(* Mutant: a conflict is overlooked and the proposal resolved anyway.      *)
BugApplyUpdate(p) ==
    /\ txn[p].op = "apply"
    /\ RowFree
    /\ Goto(p, IF Matches(txn[p]) THEN [txn[p] EXCEPT !.op = "apply_commit"]
               ELSE [op |-> "resolve", x |-> txn[p].x])
    /\ UNCHANGED <<stored, view>>

ApplyUpdate(p) == Update(p, "apply", "apply_commit")

ApplyCommit(p) ==
    /\ txn[p].op = "apply_commit"
    /\ Write(p)
    /\ Goto(p, [op |-> "resolve", x |-> txn[p].x])
    /\ UNCHANGED <<versions, status>>

ApplyResolve(p) ==
    /\ txn[p].op = "resolve"
    /\ Resolve(txn[p].x, "accepted")
    /\ Goto(p, Idle)
    /\ UNCHANGED <<text, lock, versions, saved, view>>

(* The process stops: open transactions are undone, a saved draft whose    *)
(* proposal is not resolved stays.                                         *)
Crash ==
    /\ \E p \in Procs : txn[p] # Idle
    /\ txn' = [p \in Procs |-> Idle]
    /\ UNCHANGED <<stored, view>>

-----------------------------------------------------------------------------
Call(p) ==
    \/ \E u \in Users, e \in Edits : Save(p, u, e)
    \/ \E u \in Users, i \in 1..MaxVersions : RestoreLoad(p, u, i)
    \/ \E u \in Users, x \in Proposals : ApplyCheck(p, u, x)
    \/ SnapLoad(p)

Proceed(p) ==
    \/ SaveUpdate(p) \/ SaveCommit(p)
    \/ SnapNumber(p) \/ SnapCommit(p)
    \/ RestoreUpdate(p) \/ RestoreNumber(p) \/ RestoreCommit(p)
    \/ ApplyUpdate(p) \/ ApplyCommit(p) \/ ApplyResolve(p)

Next ==
    \/ \E p \in Procs : Call(p) \/ Proceed(p)
    \/ \E u \in Users : Refresh(u)
    \/ \E x \in Proposals : Propose(x) \/ Reject(x)
    \/ Crash

Spec == Init /\ [][Next]_vars

-----------------------------------------------------------------------------
(* Properties.                                                             *)

(* An editor that shows the current lock_version shows the current text,   *)
(* and so does whoever holds the row: a lock_version never stands for two  *)
(* texts, whatever is saved, applied, restored or lost in between.         *)
LockNamesText ==
    /\ \A u \in Users : view[u].lock <= lock /\ (view[u].lock = lock => view[u].text = text)
    /\ \A p \in Procs : Writing(p) => txn[p].expected = lock

(* "Your teammate made changes. Please refresh to sync.": no save and no   *)
(* apply drops an edit that is in the draft when it commits; only a        *)
(* restore takes edits away.                                               *)
NoLostEdit ==
    [][text \subseteq text' \/ \E p \in Procs : txn[p].op = "restore_commit"]_vars

(* A proposal that is accepted has been in the draft: a conflict or a      *)
(* crash during apply leaves it pending, although draft and proposal are   *)
(* in different databases.                                                 *)
AcceptedIsSaved == \A x \in Proposals : status[x] = "accepted" => x \in saved

(* A proposal is resolved once: an apply and a reject in flight together   *)
(* do not overwrite each other's answer.                                   *)
ResolutionIsFinal ==
    [][\A x \in Proposals :
          status[x] \in {"accepted", "rejected"} => status'[x] = status[x]]_vars

(* The numbers of the snapshots have no gap, although several are computed *)
(* before any is inserted.                                                 *)
NumbersHaveNoGap == \A n \in Numbers : \A k \in 1..n : k \in Numbers
=============================================================================
