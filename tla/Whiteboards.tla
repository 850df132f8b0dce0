------------------------------ MODULE Whiteboards ------------------------------
(***************************************************************************)
(* Whiteboards of a group: rows with a title and a scene of several JSON   *)
(* parts.  A patch names the parts it saves; when it names a part of the   *)
(* scene it writes the whole scene, the other parts as it had read them.   *)
(* Saves are numbered, and a part stands for the save it came with.  Two   *)
(* of the three parts of a scene are modelled.                             *)
(***************************************************************************)
EXTENDS Workspaces

CONSTANTS
    MaxBoards,  \* bound: whiteboards ever created
    MaxSaves    \* bound: patches ever sent

Scene == {"elements", "files"}
Parts == {"title"} \cup Scene

ASSUME WhiteboardsAssumptions ==
    /\ {MaxBoards, MaxSaves} \subseteq Nat
    /\ {None, Deleted} \cap [Parts -> Nat] = {}

VARIABLES
    board,      \* whiteboards: the save behind each part, None before the row, Deleted after
    saves,      \* patches sent so far
    latest      \* history: the last save of each part that was answered with success

boards == <<board, saves, latest>>

Boards == 1..MaxBoards
Live(b) == board[b] \notin {None, Deleted}

BoardsInit ==
    /\ board = [b \in Boards |-> None]
    /\ saves = 0
    /\ latest = [b \in Boards |-> [k \in Parts |-> 0]]

CreateBoard(b) ==
    /\ AtOnce("board") /\ Caller /\ board[b] = None /\ \A k \in 1..b - 1 : board[k] # None
    /\ board' = [board EXCEPT ![b] = [k \in Parts |-> 0]]
    /\ UNCHANGED <<saves, latest>>

(* The board is read, then the membership; a second look at the board      *)
(* finds the object of the first.                                          *)
PatchLoad(p, b, K) ==
    /\ Free(p, "patch") /\ Caller /\ Live(b) /\ saves < MaxSaves
    /\ Start(p, [op |-> "patch", phase |-> "save", on |-> {<<"board", b>>},
                 b |-> b, K |-> K, n |-> saves + 1, read |-> board[b]])
    /\ saves' = saves + 1
    /\ UNCHANGED <<board, latest>>

(* values: the parts of the patch, the rest of the scene when it has any   *)
(* part of it, and no other column.                                        *)
BugValues(t) ==
    [k \in Parts |-> IF k \in t.K THEN t.n
                     ELSE IF k \in Scene /\ t.K \cap Scene # {} THEN 0 ELSE board[t.b][k]]
Values(t) ==
    [k \in Parts |-> IF k \in t.K THEN t.n
                     ELSE IF k \in Scene /\ t.K \cap Scene # {} THEN t.read[k] ELSE board[t.b][k]]

(* A board deleted meanwhile is not updated, and answered as not found.    *)
PatchSave(p) ==
    /\ At(p, "patch", "save")
    /\ LET t == txn[p] IN
       IF ~Live(t.b) THEN UNCHANGED <<board, latest>> ELSE
          /\ board' = [board EXCEPT ![t.b] = Values(t)]
          /\ latest' = [latest EXCEPT ![t.b] = [k \in Parts |-> IF k \in t.K THEN t.n ELSE @[k]]]
    /\ Done(p)
    /\ UNCHANGED saves

(* The row stays, and no query shows it again.                             *)
DeleteBoard(b) ==
    /\ AtOnce("erase") /\ Caller /\ Live(b)
    /\ board' = [board EXCEPT ![b] = Deleted]
    /\ UNCHANGED <<saves, latest>>

BoardsNext ==
    \/ \E b \in Boards : \/ CreateBoard(b) \/ DeleteBoard(b)
                         \/ \E p \in Procs, K \in SUBSET Parts \ {{}} : PatchLoad(p, b, K)
    \/ \E p \in Procs : PatchSave(p)

-----------------------------------------------------------------------------
(* Properties.                                                             *)

\* "Partial update: rename (`title`) and/or save Excalidraw scene"
\* (student_whiteboards.py:131): what a patch saved stays until a later patch saves
\* the same part; only a part of the scene may return to an older save, and only
\* after patches of the board overlapped.
SavesAreKept ==
    \A b \in Boards : Live(b) =>
        \A k \in Parts : \/ board[b][k] = latest[b][k]
                         \/ k \in Scene /\ <<"board", b>> \in clash
=============================================================================
