---------------------------- MODULE SessionsProofs ----------------------------
(***************************************************************************)
(* What holds of the sessions for any number of users, sockets, documents, *)
(* boards, links and handlers in flight.  A step is of one component, and  *)
(* of one handler: the first part says so, once, and each of the others    *)
(* keeps the inductive invariant of one component.                         *)
(***************************************************************************)
EXTENDS Sessions, FiniteSetTheorems, SequenceTheorems, TLAPS

-----------------------------------------------------------------------------
(* Requests: what a step does to the handlers in flight.                   *)

AccountOps == {"signup", "oauth", "role", "forgot", "reset"}
SpaceOps == {"reconcile", "upload", "create", "import", "link"}
TalkOps == {"ask", "post"}
BoardOps == {"patch"}
ListOps == {"students", "toggle", "shortlist", "unlist"}
ProfileOps == {"wizard", "profile"}

Shape(t) ==
    /\ {"op", "phase", "on"} \subseteq DOMAIN t
    /\ t.phase = "link" => t.op \in SpaceOps
    /\ t.op = "ask" => t.on = {<<"chat", t.w>>}

(* Two handlers that work on an object at the same time are recorded.      *)
RequestsInv ==
    /\ txn = [p \in Procs |-> txn[p]]
    /\ \A p \in Procs : Shape(txn[p])
    /\ \A p, q \in Procs : p # q => txn[p].on \cap txn[q].on \subseteq clash

(* A step in which one handler of the operations S, or none, goes on.      *)
Begins(S) == \E p \in Procs : \E t : Start(p, t) /\ Shape(t) /\ t.op \in S
GoesOn(S) == \E p \in Procs : \E t :
    /\ Goto(p, t) /\ Shape(t)
    /\ txn[p].op \in S /\ t.op \in S \cup {"idle"} /\ t.on \subseteq txn[p].on
Only(S) == UNCHANGED requests \/ Begins(S) \/ GoesOn(S)

LEMMA RequestsStart == Init => RequestsInv
BY DEF Init, HandlersInit, RequestsInv, Shape, Idle

LEMMA RequestsKept ==
    ASSUME RequestsInv, NEW S, Only(S)
    PROVE  /\ RequestsInv'
           /\ clash \subseteq clash'
           /\ \A q \in Procs : \/ txn'[q] = txn[q]
                               \/ {txn[q].op, txn'[q].op} \subseteq S \cup {"idle"}
<1>1. CASE UNCHANGED requests
  BY <1>1 DEF RequestsInv, requests
<1>2. ASSUME NEW p \in Procs, NEW t, Start(p, t), Shape(t), t.op \in S
      PROVE  /\ RequestsInv' /\ clash \subseteq clash'
             /\ \A q \in Procs : \/ txn'[q] = txn[q]
                                 \/ {txn[q].op, txn'[q].op} \subseteq S \cup {"idle"}
  <2>1. \A q \in Procs : txn'[q] = IF q = p THEN t ELSE txn[q]
    BY <1>2 DEF Start, RequestsInv
  <2>2. txn[p].op = "idle"
    BY <1>2 DEF Start, Free, Idle
  <2>3. \A q \in Procs : txn[q].on \cap t.on \subseteq clash'
    BY <1>2 DEF Start
  <2>4. clash \subseteq clash' /\ txn' = [q \in Procs |-> txn'[q]]
    BY <1>2 DEF Start, RequestsInv
  <2>. QED
    BY <1>2, <2>1, <2>2, <2>3, <2>4 DEF RequestsInv
<1>3. ASSUME NEW p \in Procs, NEW t, Goto(p, t), Shape(t), txn[p].op \in S,
             t.op \in S \cup {"idle"}, t.on \subseteq txn[p].on
      PROVE  /\ RequestsInv' /\ clash \subseteq clash'
             /\ \A q \in Procs : \/ txn'[q] = txn[q]
                                 \/ {txn[q].op, txn'[q].op} \subseteq S \cup {"idle"}
  <2>1. \A q \in Procs : txn'[q] = IF q = p THEN t ELSE txn[q]
    BY <1>3 DEF Goto, RequestsInv
  <2>2. clash = clash' /\ txn' = [q \in Procs |-> txn'[q]]
    BY <1>3 DEF Goto, RequestsInv
  <2>. QED
    BY <1>3, <2>1, <2>2 DEF RequestsInv
<1>. QED
  BY <1>1, <1>2, <1>3 DEF Only, Begins, GoesOn

LEMMA Ended == ASSUME NEW S, NEW p \in Procs, Done(p), txn[p].op \in S PROVE Only(S)
<1>1. Shape(Idle) /\ Idle.op = "idle" /\ Idle.on = {}
  BY DEF Idle, Shape
<1>. QED
  BY <1>1 DEF Done, Only, GoesOn

LEMMA Went ==
    ASSUME NEW S, NEW p \in Procs, NEW t, Goto(p, t), Shape(t), txn[p].op \in S, t.op \in S,
           t.on \subseteq txn[p].on
    PROVE  Only(S)
BY DEF Only, GoesOn

LEMMA Began ==
    ASSUME NEW S, NEW p \in Procs, NEW t, Start(p, t), Shape(t), t.op \in S
    PROVE  Only(S)
BY DEF Only, Begins

(* A handler that only changes its phase.                                  *)
LEMMA NextPhase ==
    ASSUME RequestsInv, NEW S, NEW p \in Procs, NEW phase,
           Goto(p, [txn[p] EXCEPT !.phase = phase]), txn[p].op \in S,
           phase = "link" => txn[p].op \in SpaceOps, "ask" \notin S
    PROVE  Only(S)
<1> DEFINE t == [txn[p] EXCEPT !.phase = phase]
<1>1. Shape(t) /\ t.op = txn[p].op /\ t.on = txn[p].on
  BY DEF RequestsInv, Shape
<1>. QED
  BY <1>1, Went

LEMMA AccountTurns == ASSUME RequestsInv, AccountsNext PROVE Only(AccountOps)
<1>1. ASSUME NEW u \in Users, Login(u) \/ OauthLogin(u) \/ ChangePassword(u)
      PROVE  UNCHANGED requests
  BY <1>1 DEF Login, OauthLogin, ChangePassword, AtOnce
<1>2. ASSUME NEW p \in Procs, NEW op \in {"oauth", "signup", "role"}, NEW u, NEW r,
             Start(p, [op |-> op, phase |-> "commit", on |-> {}, u |-> u, r |-> r])
      PROVE  Only(AccountOps)
  BY <1>2, Began DEF Shape, AccountOps
<1>3. ASSUME NEW p \in Procs, NEW u \in Users, ForgotPassword(p, u) PROVE Only(AccountOps)
  BY <1>3, Began DEF ForgotPassword, Forgot, Shape, AccountOps
<1>4. ASSUME NEW p \in Procs, NEW n \in Links, ResetLoad(p, n) PROVE Only(AccountOps)
  BY <1>4, Began DEF ResetLoad, Shape, AccountOps
<1>5. ASSUME NEW p \in Procs,
             InsertUser(p) \/ UpdateRoleCommit(p) \/ MailAnswered(p) \/ ResetCommit(p)
      PROVE  Only(AccountOps)
  BY <1>5, Ended DEF InsertUser, UpdateRoleCommit, MailAnswered, ResetCommit, At, AccountOps
<1>6. ASSUME NEW p \in Procs, ForgotCommit(p) PROVE Only(AccountOps)
  BY <1>6, NextPhase DEF ForgotCommit, At, AccountOps
<1>7. ASSUME NEW p \in Procs, MailArrives(p) PROVE UNCHANGED requests
  BY <1>7 DEF MailArrives
<1>8. ASSUME NEW n \in Links, HourPasses(n) PROVE UNCHANGED requests
  BY <1>8 DEF HourPasses, AtOnce
<1>. QED
  BY <1>1, <1>2, <1>3, <1>4, <1>5, <1>6, <1>7, <1>8
  DEF AccountsNext, Only, OauthLoad, SignupLoad, UpdateRoleLoad

LEMMA RoomTurns == ASSUME RoomsNext PROVE UNCHANGED requests
BY DEF RoomsNext, Connect, Greet, PeerLeaves, Cleanup, Farewell, StartEditing, StopEditing,
   Published, Say, Token, Reply, Mirror, ReplyFails, Send, Sent, Take, ListenerStops, HubTake,
   Unregister, Register, Tell, AtOnce

LEMMA SpaceTurns == ASSUME RequestsInv, WorkspacesNext PROVE Only(SpaceOps)
<1>1. ASSUME NEW p \in Procs, NEW W, NEW now, Start(p, Reading(W, now)) PROVE Only(SpaceOps)
  BY <1>1, Began DEF Reading, Shape, SpaceOps
<1>2. ASSUME NEW p \in Procs, NEW w, NEW d, NEW op \in SpaceOps, NEW phase \in {"insert", "attach"},
             Start(p, Place(op, phase, w, d))
      PROVE  Only(SpaceOps)
  BY <1>2, Began DEF Place, Shape, SpaceOps
<1>3. ASSUME NEW p \in Procs, NEW w \in Spaces,
             RenameWorkspace(p, w) \/ \E D \in SUBSET Docs : CreateWorkspace(p, w, D)
      PROVE  Only(SpaceOps)
  BY <1>1, <1>3 DEF RenameWorkspace, CreateWorkspace
<1>4. ASSUME NEW p \in Procs, NEW w \in Spaces, NEW d \in Docs,
             Upload(p, w, d) \/ Create(p, w, d) \/ Import(p, w, d) \/ LinkDocument(p, w, d)
      PROVE  Only(SpaceOps)
  BY <1>2, <1>4 DEF Upload, Create, Import, LinkDocument, Begin, SpaceOps
<1>5. ASSUME NEW p \in Procs, ReconcileRead(p) PROVE Only(SpaceOps)
  <2>1. PICK raw, kept : Goto(p, [op |-> "reconcile", phase |-> "write", on |-> {}, raw |-> raw,
                                  kept |-> kept])
    BY <1>5 DEF ReconcileRead
  <2>. QED
    BY <1>5, <2>1, Went DEF ReconcileRead, At, Shape, SpaceOps
<1>6. ASSUME NEW p \in Procs, ReconcileWrite(p) PROVE Only(SpaceOps)
  <2>1. ASSUME NEW w, Goto(p, [txn[p] EXCEPT !.raw[w] = txn[p].kept[w]]) PROVE Only(SpaceOps)
    <3> DEFINE t == [txn[p] EXCEPT !.raw[w] = txn[p].kept[w]]
    <3>1. Shape(t) /\ t.op = txn[p].op /\ t.on = txn[p].on
      BY DEF RequestsInv, Shape
    <3>2. txn[p].op \in SpaceOps
      BY <1>6 DEF ReconcileWrite, At, SpaceOps
    <3> HIDE DEF t
    <3>. QED
      BY <2>1, <3>1, <3>2, Went DEF t
  <2>. QED
    BY <1>6, <2>1, Ended DEF ReconcileWrite, At, SpaceOps
<1>7. ASSUME NEW p \in Procs, InsertDocument(p) PROVE Only(SpaceOps)
  BY <1>7, NextPhase DEF InsertDocument, New, SpaceOps
<1>8. ASSUME NEW p \in Procs, Attach(p) PROVE Only(SpaceOps)
  BY <1>8, NextPhase, Ended DEF Attach, At, SpaceOps
<1>9. ASSUME NEW p \in Procs, Link(p) PROVE Only(SpaceOps)
  <2>1. txn[p].op \in SpaceOps
    BY <1>9 DEF Link, RequestsInv, Shape
  <2>. QED
    BY <1>9, <2>1, NextPhase, Ended DEF Link, SpaceOps
<1>10. ASSUME NEW p \in Procs, LinkCommit(p) \/ LinkFails(p) PROVE Only(SpaceOps)
  BY <1>10, Ended DEF LinkCommit, LinkFails, At, New, SpaceOps
<1>11. ASSUME NEW w, NEW d, DeleteWorkspace(w) \/ RemoveDocument(d) PROVE UNCHANGED requests
  BY <1>11 DEF DeleteWorkspace, RemoveDocument, AtOnce
<1>. QED
  BY <1>3, <1>4, <1>5, <1>6, <1>7, <1>8, <1>9, <1>10, <1>11, <1>1
  DEF WorkspacesNext, Only, ListWorkspaces

LEMMA TalkTurns == ASSUME RequestsInv, ConversationsNext PROVE Only(TalkOps)
<1>1. ASSUME NEW p \in Procs, NEW w \in Spaces, SendMessage(p, w) \/ PostLoad(p, w)
      PROVE  Only(TalkOps)
  BY <1>1, Began DEF SendMessage, PostLoad, Asked, Shape, TalkOps
<1>2. ASSUME NEW p \in Procs, SaveReply(p) \/ SendFails(p) \/ PostSave(p) PROVE Only(TalkOps)
  BY <1>2, Ended DEF SaveReply, SendFails, PostSave, At, TalkOps
<1>3. ASSUME NEW p \in Procs, NEW phase \in {"history", "call"}, NEW own, NEW prompt,
             Goto(p, Asked(p, txn[p].w, phase, own, prompt)), txn[p].op = "ask"
      PROVE  Only(TalkOps)
  <2>1. txn[p].on = {<<"chat", txn[p].w>>}
    BY <1>3 DEF RequestsInv, Shape
  <2>. QED
    BY <1>3, <2>1, Went DEF Asked, Shape, TalkOps
<1>. QED
  BY <1>1, <1>2, <1>3 DEF ConversationsNext, SaveQuestion, ReadHistory, At

LEMMA BoardTurns == ASSUME RequestsInv, BoardsNext PROVE Only(BoardOps)
<1>1. ASSUME NEW b \in Boards, NEW p \in Procs, NEW K, PatchLoad(p, b, K) PROVE Only(BoardOps)
  BY <1>1, Began DEF PatchLoad, Shape, BoardOps
<1>2. ASSUME NEW p \in Procs, PatchSave(p) PROVE Only(BoardOps)
  BY <1>2, Ended DEF PatchSave, At, BoardOps
<1>. QED
  BY <1>1, <1>2 DEF BoardsNext, CreateBoard, DeleteBoard, AtOnce, Only

LEMMA ListTurns == ASSUME RequestsInv, ListingsNext PROVE Only(ListOps)
<1>1. ASSUME NEW p \in Procs, NEW k, ListStudents(p, k) PROVE Only(ListOps)
  BY <1>1, Began DEF ListStudents, Shape, ListOps
<1>2. ASSUME NEW p \in Procs, NEW u, NEW to, ToggleLoad(p, u, to) PROVE Only(ListOps)
  BY <1>2, Began DEF ToggleLoad, Shape, ListOps
<1>3. ASSUME NEW p \in Procs, NEW f, AddLoad(p, f) \/ RemoveLoad(p, f) PROVE Only(ListOps)
  BY <1>3, Began DEF AddLoad, RemoveLoad, Entry, Shape, ListOps
<1>4. ASSUME NEW p \in Procs,
             CachePage(p) \/ ClearPages(p) \/ CacheFails(p) \/ AddCommit(p) \/ RemoveCommit(p)
      PROVE  Only(ListOps)
  BY <1>4, Ended DEF CachePage, ClearPages, CacheFails, AddCommit, RemoveCommit, At, ListOps
<1>5. ASSUME NEW p \in Procs, ToggleCommit(p) PROVE Only(ListOps)
  BY <1>5, NextPhase DEF ToggleCommit, At, ListOps
<1>. QED
  BY <1>1, <1>2, <1>3, <1>4, <1>5 DEF ListingsNext, PageExpires, Deactivate, AtOnce, Only

LEMMA ProfileTurns == ASSUME ProfilesNext PROVE Only(ProfileOps)
<1>1. ASSUME NEW p \in Procs, NEW op \in {"wizard", "profile"},
              NEW u, NEW row, Submit(p, op, u, row)
      PROVE  Only(ProfileOps)
  BY <1>1, Began DEF Submit, Shape, ProfileOps
<1>2. ASSUME NEW p \in Procs, ProfileCommit(p) PROVE Only(ProfileOps)
  BY <1>2, Ended DEF ProfileCommit, At, ProfileOps
<1>. QED
  BY <1>1, <1>2 DEF ProfilesNext, WizardLoad, ProfileLoad

(* Whichever component steps, the handlers of the others stay as they are. *)
LEMMA Steps ==
    ASSUME RequestsInv, [Next]_vars
    PROVE  \/ AccountsNext /\ Only(AccountOps) /\ UNCHANGED <<rooms, workspaces, shared>>
           \/ RoomsNext /\ UNCHANGED <<requests, accounts, workspaces, shared>>
           \/ WorkspacesNext /\ Only(SpaceOps) /\ UNCHANGED <<accounts, rooms, shared>>
           \/ /\ ConversationsNext /\ Only(TalkOps)
              /\ UNCHANGED <<accounts, rooms, workspaces, boards, lists, student>>
           \/ /\ BoardsNext /\ Only(BoardOps)
              /\ UNCHANGED <<accounts, rooms, workspaces, messages, lists, student>>
           \/ /\ ListingsNext /\ Only(ListOps)
              /\ UNCHANGED <<accounts, rooms, workspaces, messages, boards, student>>
           \/ /\ ProfilesNext /\ Only(ProfileOps)
              /\ UNCHANGED <<accounts, rooms, workspaces, messages, boards, lists>>
           \/ UNCHANGED vars
<1>1. RoomsNext => UNCHANGED accounts
  BY DEF RoomsNext, Connect, Greet, PeerLeaves, Cleanup, Farewell, StartEditing, StopEditing,
     Published, Say, Token, Reply, Mirror, ReplyFails, Send, Sent, Take, ListenerStops, HubTake,
     Unregister, Register, Tell, AtOnce, elsewhere
<1>2. WorkspacesNext => UNCHANGED accounts
  BY DEF WorkspacesNext, RenameWorkspace, CreateWorkspace, Upload, Create, Import, LinkDocument,
     ListWorkspaces, ReconcileRead, ReconcileWrite, InsertDocument, Attach, Link, LinkCommit,
     LinkFails, DeleteWorkspace, RemoveDocument, Begin
<1>. QED
  BY <1>1, <1>2, AccountTurns, RoomTurns, SpaceTurns, TalkTurns, BoardTurns, ListTurns, ProfileTurns
  DEF Next, SharedNext, shared, vars

LEMMA RequestsInvariant == RequestsInv /\ [Next]_vars => RequestsInv'
<1> SUFFICES ASSUME RequestsInv, [Next]_vars PROVE RequestsInv'
  OBVIOUS
<1>1. UNCHANGED requests => RequestsInv'
  BY DEF requests, RequestsInv
<1>. QED
  BY <1>1, Steps, RequestsKept DEF vars

-----------------------------------------------------------------------------
(* Whiteboards.                                                            *)

Rows == [Parts -> Nat]
Patch == [op : {"patch"}, phase : {"save"}, on : {{<<"board", b>>} : b \in Boards}, b : Boards,
          K : SUBSET Parts, n : Nat, read : Rows]

BoardsType ==
    /\ board \in [Boards -> Rows \cup {None, Deleted}]
    /\ saves \in Nat
    /\ latest \in [Boards -> Rows]
    /\ \A p \in Procs : txn[p].op = "patch" =>
          txn[p] \in Patch /\ txn[p].on = {<<"board", txn[p].b>>}

(* What a patch in flight has read of a board that no other patch worked   *)
(* on is what the board holds.                                             *)
SavesInv ==
    /\ \A b \in Boards :
          /\ board[b] = None => latest[b] = [k \in Parts |-> 0]
          /\ Live(b) => board[b]["title"] = latest[b]["title"]
          /\ Live(b) /\ <<"board", b>> \notin clash => board[b] = latest[b]
    /\ \A p \in Procs : txn[p].op = "patch" =>
          LET b == txn[p].b IN
          /\ board[b] # None
          /\ Live(b) /\ <<"board", b>> \notin clash => txn[p].read = board[b]

BoardInv == RequestsInv /\ BoardsType /\ SavesInv

LEMMA BoardStarts == Init => BoardInv
<1>1. Init => BoardsType /\ SavesInv
  BY DEF Init, HandlersInit, BoardsInit, BoardsType, SavesInv, Live, Rows, Idle
<1>. QED
  BY <1>1, RequestsStart DEF BoardInv

(* Steps that neither patch nor change a board.                            *)
LEMMA BoardsRest ==
    ASSUME BoardInv, RequestsInv', UNCHANGED boards, clash \subseteq clash',
           \A q \in Procs : txn'[q].op = "patch" => txn'[q] = txn[q]
    PROVE  BoardInv'
BY DEF BoardInv, BoardsType, SavesInv, Live, boards

LEMMA BoardSteps == BoardInv /\ [Next]_vars => BoardInv'
<1> SUFFICES ASSUME BoardInv, [Next]_vars PROVE BoardInv'
  OBVIOUS
<1>0. RequestsInv /\ BoardsType /\ RequestsInv' /\ txn = [p \in Procs |-> txn[p]]
  BY RequestsInvariant DEF BoardInv, RequestsInv
<1>1. ASSUME NEW S, Only(S), "patch" \notin S, UNCHANGED boards PROVE BoardInv'
  BY <1>0, <1>1, RequestsKept, BoardsRest
<1>2. CASE UNCHANGED <<requests, boards>>
  BY <1>0, <1>2, BoardsRest DEF requests
<1>3. ASSUME NEW b \in Boards, CreateBoard(b) PROVE BoardInv'
  <2>1. /\ board[b] = None /\ board' = [board EXCEPT ![b] = [k \in Parts |-> 0]]
        /\ UNCHANGED <<requests, saves, latest>>
    BY <1>3 DEF CreateBoard, AtOnce
  <2>2. BoardsType'
    BY <1>0, <2>1 DEF BoardsType, Rows, requests
  <2>3. SavesInv'
    BY <1>0, <2>1 DEF BoardInv, BoardsType, SavesInv, Live, requests, Parts, Patch
  <2>. QED
    BY <1>0, <2>2, <2>3 DEF BoardInv
<1>4. ASSUME NEW b \in Boards, DeleteBoard(b) PROVE BoardInv'
  <2>1. /\ Live(b) /\ board' = [board EXCEPT ![b] = Deleted]
        /\ UNCHANGED <<requests, saves, latest>>
    BY <1>4 DEF DeleteBoard, AtOnce
  <2>2. BoardsType'
    BY <1>0, <2>1 DEF BoardsType, Rows, requests
  <2>3. SavesInv'
    BY <1>0, <2>1, AccountsAssumptions DEF BoardInv, BoardsType, SavesInv, Live, requests, Patch
  <2>. QED
    BY <1>0, <2>2, <2>3 DEF BoardInv
<1>5. ASSUME NEW b \in Boards, NEW p \in Procs, NEW K \in SUBSET Parts, PatchLoad(p, b, K)
      PROVE  BoardInv'
  <2> DEFINE t == [op |-> "patch", phase |-> "save", on |-> {<<"board", b>>},
                   b |-> b, K |-> K, n |-> saves + 1, read |-> board[b]]
  <2>1. Start(p, t) /\ Live(b) /\ saves' = saves + 1 /\ UNCHANGED <<board, latest>>
    BY <1>5 DEF PatchLoad
  <2>2. board[b] \in Rows
    BY <2>1, <1>0 DEF BoardsType, Live
  <2>3. t \in Patch /\ t.on = {<<"board", t.b>>}
    BY <1>0, <2>2 DEF Patch, BoardsType
  <2>4. clash \subseteq clash' /\ \A q \in Procs : txn'[q] = IF q = p THEN t ELSE txn[q]
    BY <2>1, <1>0 DEF Start
  <2>5. BoardsType'
    <3> HIDE DEF t
    <3>. QED
      BY <1>0, <2>1, <2>3, <2>4 DEF BoardsType
  <2>6. SavesInv'
    BY <1>0, <2>1, <2>4 DEF BoardInv, SavesInv, Live
  <2>. QED
    BY <1>0, <2>5, <2>6 DEF BoardInv
<1>6. ASSUME NEW p \in Procs, PatchSave(p) PROVE BoardInv'
  <2> DEFINE t == txn[p]
             b == txn[p].b
             saved == [k \in Parts |-> IF k \in t.K THEN t.n ELSE latest[b][k]]
  <2>1. /\ t.op = "patch" /\ UNCHANGED <<saves, clash>>
        /\ \A q \in Procs : txn'[q] = IF q = p THEN Idle ELSE txn[q]
    BY <1>6, <1>0 DEF PatchSave, At, Done, Goto
  <2>2. t \in Patch /\ t.on = {<<"board", b>>} /\ b \in Boards
    BY <2>1, <1>0 DEF BoardsType, Patch
  <2>3. CASE ~Live(b)
    <3>1. UNCHANGED boards
      BY <1>6, <2>1, <2>3 DEF PatchSave, boards
    <3>. QED
      BY <1>0, <2>1, <3>1, BoardsRest DEF Idle
  <2>4. CASE Live(b)
    <3>1. board' = [board EXCEPT ![b] = Values(t)] /\ latest' = [latest EXCEPT ![b] = saved]
      BY <1>6, <1>0, <2>2, <2>4 DEF PatchSave, BoardsType
    <3>2. /\ Values(t) \in Rows /\ saved \in Rows /\ board[b] \in Rows /\ latest[b] \in Rows
      BY <1>0, <2>2, <2>4 DEF BoardsType, Values, Rows, Patch, Live
    <3>3. Values(t)["title"] = saved["title"]
      BY <2>2, <2>4, <3>2 DEF BoardInv, SavesInv, Values, Parts, Scene
    <3>4. <<"board", b>> \notin clash => Values(t) = saved
      <4>1. <<"board", b>> \notin clash => board[b] = latest[b] /\ t.read = board[b]
        BY <2>1, <2>2, <2>4 DEF BoardInv, SavesInv
      <4>. QED
        BY <4>1 DEF Values
    <3>5. ASSUME NEW q \in Procs, q # p, txn[q].op = "patch", txn[q].b = b
          PROVE  <<"board", b>> \in clash
      BY <3>5, <1>0, <2>2 DEF BoardsType, RequestsInv
    <3>6. BoardsType'
      BY <1>0, <2>1, <2>2, <3>1, <3>2 DEF BoardsType, Idle
    <3>7. Values(t) # None /\ Values(t) # Deleted
      BY <3>2, WhiteboardsAssumptions DEF Rows
    <3>8. ASSUME NEW c \in Boards, c # b PROVE board'[c] = board[c] /\ latest'[c] = latest[c]
      BY <3>1, <3>8, <1>0 DEF BoardsType
    <3>9. board'[b] = Values(t) /\ latest'[b] = saved
      BY <3>1, <1>0, <2>2 DEF BoardsType
    <3> HIDE DEF saved
    <3>10. SavesInv'
      <4>1. ASSUME NEW c \in Boards
            PROVE  /\ board'[c] = None => latest'[c] = [k \in Parts |-> 0]
                   /\ Live(c)' => board'[c]["title"] = latest'[c]["title"]
                   /\ Live(c)' /\ <<"board", c>> \notin clash' => board'[c] = latest'[c]
        BY <2>1, <3>3, <3>4, <3>7, <3>8, <3>9 DEF BoardInv, SavesInv, Live
      <4>2. ASSUME NEW q \in Procs, txn'[q].op = "patch"
            PROVE  /\ txn'[q] = txn[q]
                   /\ board'[txn'[q].b] # None
                   /\ Live(txn[q].b)' /\ <<"board", txn'[q].b>> \notin clash'
                         => txn'[q].read = board'[txn'[q].b]
        <5>1. q # p /\ txn'[q] = txn[q] /\ txn[q].b \in Boards
          BY <4>2, <2>1, <1>0 DEF Idle, BoardsType, Patch
        <5>2. /\ board[txn[q].b] # None
              /\ Live(txn[q].b) /\ <<"board", txn[q].b>> \notin clash
                    => txn[q].read = board[txn[q].b]
          BY <4>2, <5>1 DEF BoardInv, SavesInv
        <5>3. CASE txn[q].b = b
          BY <4>2, <5>1, <5>3, <2>1, <3>5, <3>7, <3>9
        <5>4. CASE txn[q].b # b
          BY <5>1, <5>2, <5>4, <2>1, <3>8 DEF Live
        <5>. QED
          BY <5>1, <5>3, <5>4
      <4>. QED
        BY <4>1, <4>2 DEF SavesInv, Live
    <3>. QED
      BY <1>0, <3>6, <3>10 DEF BoardInv
  <2>. QED
    BY <2>3, <2>4
<1>. QED
  BY <1>0, <1>1, <1>2, <1>3, <1>4, <1>5, <1>6, Steps
  DEF BoardsNext, AccountOps, SpaceOps, TalkOps, ListOps, ProfileOps, shared, vars

\* What a patch of a whiteboard saved stays until a later one saves the same part,
\* for any number of boards, patches and members (student_whiteboards.py:131): a
\* part of the scene can return to an older save only after patches overlapped, and
\* a title never.
THEOREM PatchesStay == Spec => []SavesAreKept
<1>1. BoardInv => SavesAreKept
  BY DEF BoardInv, BoardsType, SavesInv, SavesAreKept, Parts, Live, Rows
<1>. QED
  BY BoardStarts, BoardSteps, <1>1, PTL DEF Spec

-----------------------------------------------------------------------------
(* Profiles.                                                               *)

Profile == [roll : Rolls \cup {None}, skills : SUBSET Skills, levels : Levels]
Columns == [roll : Rolls \cup {None}, skills : {None} \cup SUBSET Skills,
            levels : Levels \cup {None}]
ProfileTxn(t) ==
    /\ t.u \in Users /\ t.set \in Columns /\ t.on = {<<"profile", t.u>>}

ProfilesType ==
    /\ student \in [Users -> Profile \cup {None}]
    /\ \A p \in Procs : txn[p].op \in ProfileOps => ProfileTxn(txn[p])

Complete(skills, levels) == skills \subseteq DOMAIN levels

(* What a request in flight will store fits what is stored now, unless     *)
(* another request of the student may have stored something else.          *)
LevelsInv ==
    /\ \A u \in Users : <<"profile", u>> \notin clash => Complete(Read(u).skills, Read(u).levels)
    /\ \A p \in Procs : txn[p].op \in ProfileOps =>
          LET t == txn[p] IN
          <<"profile", t.u>> \notin clash =>
              Complete(Or(t.set.skills, Read(t.u).skills), Or(t.set.levels, Read(t.u).levels))

ProfileInv == RequestsInv /\ ProfilesType /\ LevelsInv

LEMMA NoLevelsType == NoLevels \in Levels
<1>1. NoLevels \in [{} -> {1, 2}]
  BY DEF NoLevels
<1>. QED
  BY <1>1 DEF Levels

LEMMA ReadType == ASSUME ProfilesType, NEW u \in Users PROVE Read(u) \in Profile
<1>1. NoLevels \in Levels
  BY NoLevelsType
<1>2. [roll |-> None, skills |-> {}, levels |-> NoLevels] \in Profile
  BY <1>1 DEF Profile
<1>. QED
  BY <1>2 DEF ProfilesType, Read, Or

LEMMA LeveledType ==
    ASSUME NEW skills \in SUBSET Skills, NEW levels \in Levels
    PROVE  /\ Leveled(skills, levels) \in Levels
           /\ DOMAIN Leveled(skills, levels) = skills \cup DOMAIN levels
<1>1. PICK S \in SUBSET Skills : levels \in [S -> {1, 2}]
  BY DEF Levels
<1>2. Leveled(skills, levels) \in [skills \cup S -> {1, 2}]
  BY <1>1 DEF Leveled
<1>3. skills \cup S \in SUBSET Skills
  OBVIOUS
<1>. QED
  BY <1>1, <1>2, <1>3 DEF Levels

(* Normalization: the row a request computes has a level for every skill,  *)
(* whichever of the two it was given, if the row it has read had.          *)
LEMMA UpdateIsComplete ==
    ASSUME ProfilesType, NEW u \in Users, NEW roll \in {None} \cup Rolls,
           NEW skills \in NamedSkills,
           NEW levels \in {None} \cup Given, NEW base \in Levels
    PROVE  LET row == Update(u, roll, skills, levels, base) IN
           /\ row \in Profile
           /\ Complete(Read(u).skills, Read(u).levels) => Complete(row.skills, row.levels)
<1> DEFINE stored == IF skills \in {None, {}} THEN Read(u).skills ELSE skills
           given == Leveled(Or(skills, stored), Or(levels, base))
           row == Update(u, roll, skills, levels, base)
<1>1. Read(u) \in Profile /\ Read(u).skills \in SUBSET Skills /\ Read(u).levels \in Levels
      /\ Read(u).roll \in Rolls \cup {None}
  BY ReadType DEF Profile
<1>2. stored \in SUBSET Skills /\ Or(skills, stored) \in SUBSET Skills
  BY <1>1 DEF NamedSkills, Or
<1>3. Or(levels, base) \in Levels
  BY DEF Given, Levels, Or
<1>4. given \in Levels
  BY <1>2, <1>3, LeveledType
<1>5. Leveled(stored, given) \in Levels /\ stored \subseteq DOMAIN Leveled(stored, given)
  <2> HIDE DEF stored, given
  <2>. QED
    BY <1>2, <1>4, LeveledType
<1>6. row = [roll |-> Or(roll, Read(u).roll), skills |-> stored,
             levels |-> IF skills = None /\ levels = None THEN Read(u).levels
                        ELSE Leveled(stored, given)]
  BY DEF Update
<1>7. Or(roll, Read(u).roll) \in Rolls \cup {None}
  BY <1>1 DEF Or
<1>8. skills = None => stored = Read(u).skills
  OBVIOUS
<1> HIDE DEF stored, given, row
<1>9. row \in Profile
  BY <1>1, <1>2, <1>5, <1>6, <1>7 DEF Profile
<1>10. Complete(Read(u).skills, Read(u).levels) => Complete(row.skills, row.levels)
  BY <1>5, <1>6, <1>8 DEF Complete
<1>. QED
  BY <1>9, <1>10 DEF row

LEMMA ChangesType ==
    ASSUME ProfilesType, NEW u \in Users, NEW row \in Profile
    PROVE  /\ Changes(u, row) \in Columns
           /\ Or(Changes(u, row).skills, Read(u).skills) = row.skills
           /\ Or(Changes(u, row).levels, Read(u).levels) = row.levels
<1>1. Read(u) \in Profile
  BY ReadType
<1>2. row.skills # None /\ row.levels # None
  BY ProfilesAssumptions DEF Profile
<1>3. Changes(u, row) = [k \in DOMAIN row |->
          IF student[u] # None /\ row[k] = Read(u)[k] THEN None ELSE row[k]]
  BY DEF Changes
<1>4. DOMAIN row = {"roll", "skills", "levels"}
  BY DEF Profile
<1>5. Changes(u, row) \in Columns
  <2> DEFINE ch == Changes(u, row)
  <2>1. /\ ch.roll \in {None, row.roll} /\ ch.skills \in {None, row.skills}
        /\ ch.levels \in {None, row.levels}
    BY <1>3, <1>4
  <2>2. ch = [roll |-> ch.roll, skills |-> ch.skills, levels |-> ch.levels]
    BY <1>3, <1>4
  <2>3. /\ row.roll \in Rolls \cup {None} /\ row.skills \in SUBSET Skills
        /\ row.levels \in Levels
    BY DEF Profile
  <2> HIDE DEF ch
  <2>4. /\ ch.roll \in Rolls \cup {None} /\ ch.skills \in {None} \cup SUBSET Skills
        /\ ch.levels \in Levels \cup {None}
    BY <2>1, <2>3
  <2>5. ch \in Columns
    BY <2>2, <2>4 DEF Columns
  <2>. QED
    BY <2>5 DEF ch
<1>6. /\ \/ Changes(u, row).skills = row.skills
          \/ (Changes(u, row).skills = None /\ row.skills = Read(u).skills)
      /\ \/ Changes(u, row).levels = row.levels
          \/ (Changes(u, row).levels = None /\ row.levels = Read(u).levels)
  BY <1>3, <1>4
<1>. QED
  BY <1>2, <1>5, <1>6 DEF Or

LEMMA ProfileStarts == Init => ProfileInv
<1>1. Init => ProfilesType /\ LevelsInv
  BY DEF Init, HandlersInit, ProfilesInit, ProfilesType, LevelsInv, Read, Or,
         Complete, NoLevels, Idle,
     ProfileOps
<1>. QED
  BY <1>1, RequestsStart DEF ProfileInv

LEMMA ProfilesRest ==
    ASSUME ProfileInv, RequestsInv', UNCHANGED student, clash \subseteq clash',
           \A q \in Procs : txn'[q].op \in ProfileOps => txn'[q] = txn[q]
    PROVE  ProfileInv'
BY DEF ProfileInv, ProfilesType, ProfileTxn, LevelsInv, Read, Or

LEMMA ProfileSteps == ProfileInv /\ [Next]_vars => ProfileInv'
<1> SUFFICES ASSUME ProfileInv, [Next]_vars PROVE ProfileInv'
  OBVIOUS
<1>0. RequestsInv /\ ProfilesType /\ RequestsInv' /\ txn = [p \in Procs |-> txn[p]]
  BY RequestsInvariant DEF ProfileInv, RequestsInv
<1>1. ASSUME NEW S, Only(S), S \cap ProfileOps = {}, UNCHANGED student PROVE ProfileInv'
  BY <1>0, <1>1, RequestsKept, ProfilesRest DEF ProfileOps
<1>2. CASE UNCHANGED <<requests, student>>
  BY <1>0, <1>2, ProfilesRest DEF requests
<1>3. ASSUME NEW p \in Procs, NEW op \in ProfileOps, NEW u \in Users, NEW row \in Profile,
             Submit(p, op, u, row),
             <<"profile", u>> \notin clash => Complete(row.skills, row.levels)
      PROVE  ProfileInv'
  <2> DEFINE t == [op |-> op, phase |-> "commit", on |-> {<<"profile", u>>}, u |-> u,
                   new |-> student[u] = None, set |-> Changes(u, row)]
  <2>1. Start(p, t) /\ UNCHANGED student
    BY <1>3 DEF Submit
  <2>2. ProfileTxn(t) /\ t.u = u /\ t.set = Changes(u, row)
    BY <1>0, <1>3, ChangesType DEF ProfileTxn
  <2>3. clash \subseteq clash' /\ \A q \in Procs : txn'[q] = IF q = p THEN t ELSE txn[q]
    BY <2>1, <1>0 DEF Start
  <2> HIDE DEF t
  <2>4. ProfilesType'
    BY <1>0, <2>1, <2>2, <2>3 DEF ProfilesType, ProfileTxn
  <2>5. LevelsInv'
    BY <1>0, <1>3, <2>1, <2>2, <2>3, ChangesType DEF ProfileInv, LevelsInv, Read, Or
  <2>. QED
    BY <1>0, <2>4, <2>5 DEF ProfileInv
<1>4. ASSUME NEW u \in Users, NEW roll \in {None} \cup Rolls, NEW skills \in NamedSkills,
             NEW levels \in {None} \cup Given, NEW base \in Levels
      PROVE  LET row == Update(u, roll, skills, levels, base) IN
             row \in Profile /\ (<<"profile", u>> \notin clash => Complete(row.skills, row.levels))
  BY <1>0, <1>4, UpdateIsComplete DEF ProfileInv, LevelsInv
<1>5. ASSUME NEW p \in Procs, NEW u \in Users, WizardLoad(p, u) PROVE ProfileInv'
  BY <1>3, <1>4, <1>5, NoLevelsType DEF WizardLoad, ProfileOps
<1>6. ASSUME NEW p \in Procs, NEW u \in Users, ProfileLoad(p, u) PROVE ProfileInv'
  <2>1. Read(u).levels \in Levels
    BY <1>0, ReadType DEF Profile
  <2>. QED
    BY <1>3, <1>4, <1>6, <2>1 DEF ProfileLoad, ProfileOps
<1>7. ASSUME NEW p \in Procs, ProfileCommit(p) PROVE ProfileInv'
  <2> DEFINE t == txn[p]
             u == txn[p].u
             row == Read(u)
             stored == [k \in DOMAIN row |-> Or(t.set[k], row[k])]
  <2>1. /\ t.op \in ProfileOps /\ UNCHANGED clash
        /\ \A q \in Procs : txn'[q] = IF q = p THEN Idle ELSE txn[q]
    BY <1>7, <1>0 DEF ProfileCommit, At, Done, Goto, ProfileOps
  <2>2. t.set \in Columns /\ t.on = {<<"profile", u>>} /\ u \in Users
    BY <2>1, <1>0 DEF ProfilesType, ProfileTxn
  <2>3. CASE UNCHANGED student
    BY <1>0, <2>1, <2>3, ProfilesRest DEF Idle, ProfileOps
  <2>4. CASE student' = [student EXCEPT ![u] = stored]
    <3>1. row \in Profile
      BY <1>0, <2>2, ReadType
    <3>2. stored \in Profile /\ stored.skills = Or(t.set.skills, row.skills)
          /\ stored.levels = Or(t.set.levels, row.levels)
      <4>1. DOMAIN row = {"roll", "skills", "levels"}
        BY <3>1 DEF Profile
      <4>2. /\ stored.skills = Or(t.set.skills, row.skills)
            /\ stored.levels = Or(t.set.levels, row.levels)
            /\ stored.roll = Or(t.set.roll, row.roll)
        <5> HIDE DEF row
        <5>. QED
          BY <4>1
      <4>3. stored = [roll |-> stored.roll, skills |-> stored.skills, levels |-> stored.levels]
        <5> HIDE DEF row
        <5>. QED
          BY <4>1
      <4>4. /\ Or(t.set.roll, row.roll) \in Rolls \cup {None}
            /\ Or(t.set.skills, row.skills) \in SUBSET Skills
            /\ Or(t.set.levels, row.levels) \in Levels
        <5>1. /\ t.set.roll \in Rolls \cup {None} /\ t.set.skills \in {None} \cup SUBSET Skills
              /\ t.set.levels \in Levels \cup {None}
          BY <2>2 DEF Columns
        <5>2. /\ row.roll \in Rolls \cup {None} /\ row.skills \in SUBSET Skills
              /\ row.levels \in Levels
          BY <3>1 DEF Profile
        <5> HIDE DEF row, t
        <5>. QED
          BY <5>1, <5>2 DEF Or
      <4>. QED
        BY <4>2, <4>3, <4>4 DEF Profile
    <3>3. ASSUME NEW q \in Procs, q # p, txn[q].op \in ProfileOps, txn[q].u = u
          PROVE  <<"profile", u>> \in clash
      BY <3>3, <1>0, <2>2 DEF ProfilesType, ProfileTxn, RequestsInv
    <3>4. <<"profile", u>> \notin clash => Complete(stored.skills, stored.levels)
      BY <2>1, <3>2 DEF ProfileInv, LevelsInv
    <3> HIDE DEF stored
    <3>5. ProfilesType'
      BY <1>0, <2>1, <2>2, <2>4, <3>2 DEF ProfilesType, ProfileTxn, Idle, ProfileOps
    <3>6. student'[u] = stored /\ \A v \in Users \ {u} : student'[v] = student[v]
      BY <1>0, <2>2, <2>4 DEF ProfilesType
    <3>7. ASSUME NEW v \in Users
          PROVE  IF v = u
                 THEN Read(v)' \in {stored,
                                  [roll |-> None, skills |-> {}, levels |-> NoLevels]}
                 ELSE Read(v)' = Read(v)
      BY <3>6 DEF Read, Or
    <3>8. LevelsInv'
      <4>1. ASSUME NEW v \in Users, <<"profile", v>> \notin clash'
            PROVE  Complete(Read(v).skills, Read(v).levels)'
        BY <4>1, <2>1, <3>4, <3>7 DEF ProfileInv, LevelsInv, Complete
      <4>2. ASSUME NEW q \in Procs, txn'[q].op \in ProfileOps,
                   <<"profile", txn'[q].u>> \notin clash'
            PROVE  /\ txn'[q] = txn[q]
                   /\ Read(txn[q].u)' = Read(txn[q].u)
                   /\ Complete(Or(txn[q].set.skills, Read(txn[q].u).skills),
                               Or(txn[q].set.levels, Read(txn[q].u).levels))
        <5>1. q # p /\ txn'[q] = txn[q] /\ txn[q].u \in Users
          BY <4>2, <2>1, <1>0 DEF Idle, ProfilesType, ProfileTxn, ProfileOps
        <5>2. txn[q].u # u
          BY <4>2, <5>1, <2>1, <3>3
        <5>. QED
          BY <4>2, <5>1, <5>2, <3>7, <2>1 DEF ProfileInv, LevelsInv
      <4>. QED
        BY <4>1, <4>2 DEF LevelsInv, Or
    <3>. QED
      BY <1>0, <3>5, <3>8 DEF ProfileInv
  <2>. QED
    BY <1>7, <2>3, <2>4 DEF ProfileCommit
<1>. QED
  BY <1>0, <1>1, <1>2, <1>5, <1>6, <1>7, Steps
  DEF ProfilesNext, AccountOps, SpaceOps, TalkOps, ListOps, BoardOps, ProfileOps, shared, vars

\* Every stored skill has a level (student_profile.py:31), for any number of
\* students and skills, whichever of the two columns a sequence of requests wrote,
\* unless requests of the same student overlapped.
THEOREM SkillsKeepLevels == Spec => []SkillsHaveLevels
<1>1. ProfileInv => SkillsHaveLevels
  BY DEF ProfileInv, LevelsInv, SkillsHaveLevels, Complete
<1>. QED
  BY ProfileStarts, ProfileSteps, <1>1, PTL DEF Spec

-----------------------------------------------------------------------------
(* The admins' pages.                                                      *)

PagesInv == RequestsInv /\ page = [k \in Pages |-> page[k]] /\ PagesAreCurrent

LEMMA PagesStart == Init => PagesInv
<1>1. Init => page = [k \in Pages |-> page[k]] /\ PagesAreCurrent
  BY DEF Init, ListingsInit, PagesAreCurrent, Differs
<1>. QED
  BY <1>1, RequestsStart DEF PagesInv

(* Steps that keep every handler that is about to clear the pages.         *)
LEMMA PagesRest ==
    ASSUME PagesInv, RequestsInv', page' = [k \in Pages |-> page'[k]],
           \A q \in Procs : At(q, "toggle", "clear") => txn'[q] = txn[q],
           \A k \in Pages \ behind' : Differs(k, active)' => k \notin behind /\ Differs(k, active)
    PROVE  PagesInv'
BY DEF PagesInv, PagesAreCurrent, At

LEMMA PagesSteps == PagesInv /\ [Next]_vars => PagesInv'
<1> SUFFICES ASSUME PagesInv, [Next]_vars PROVE PagesInv'
  OBVIOUS
<1>0. /\ RequestsInv /\ RequestsInv' /\ txn = [p \in Procs |-> txn[p]]
      /\ page = [k \in Pages |-> page[k]]
  BY RequestsInvariant DEF PagesInv, RequestsInv
<1>1. ASSUME NEW S, Only(S), S \cap ListOps = {}, UNCHANGED lists PROVE PagesInv'
  <2>1. \A q \in Procs : At(q, "toggle", "clear") => txn'[q] = txn[q]
    BY <1>0, <1>1, RequestsKept DEF ListOps, At
  <2>. QED
    BY <1>0, <1>1, <2>1, PagesRest DEF lists, listing, Differs
<1>2. CASE UNCHANGED <<requests, lists>>
  BY <1>0, <1>2, PagesRest DEF requests, lists, listing, Differs
<1>3. ASSUME NEW p \in Procs, NEW t, Start(p, t), UNCHANGED listing PROVE PagesInv'
  <2>1. \A q \in Procs : At(q, "toggle", "clear") => txn'[q] = txn[q]
    BY <1>0, <1>3 DEF Start, Free, At, Idle
  <2>. QED
    BY <1>0, <1>3, <2>1, PagesRest DEF listing, Differs
<1>4. ASSUME NEW p \in Procs, AddCommit(p) \/ RemoveCommit(p) PROVE PagesInv'
  <2>1. \A q \in Procs : At(q, "toggle", "clear") => txn'[q] = txn[q]
    BY <1>0, <1>4 DEF AddCommit, RemoveCommit, Done, Goto, At
  <2>. QED
    BY <1>0, <1>4, <2>1, PagesRest DEF AddCommit, RemoveCommit, listing, Differs
<1>5. ASSUME NEW p \in Procs, CachePage(p) PROVE PagesInv'
  <2>1. \A q \in Procs : At(q, "toggle", "clear") => txn'[q] = txn[q]
    BY <1>0, <1>5 DEF CachePage, Done, Goto, At
  <2>2. \A k \in Pages \ behind' : Differs(k, active)' => k \notin behind /\ Differs(k, active)
    BY <1>0, <1>5 DEF CachePage, Differs
  <2>3. page' = [k \in Pages |-> page'[k]]
    BY <1>0, <1>5 DEF CachePage
  <2>. QED
    BY <1>0, <2>1, <2>2, <2>3, PagesRest
<1>6. ASSUME NEW p \in Procs, ToggleCommit(p) PROVE PagesInv'
  <2>1. At(p, "toggle", "clear")'
    BY <1>0, <1>6 DEF ToggleCommit, Goto, At, RequestsInv, Shape
  <2>. QED
    BY <1>0, <1>6, <2>1 DEF ToggleCommit, PagesInv, PagesAreCurrent
<1>7. ASSUME NEW p \in Procs, ClearPages(p) PROVE PagesInv'
  BY <1>0, <1>7 DEF ClearPages, Matching, PagesInv, PagesAreCurrent, Differs
<1>8. ASSUME NEW p \in Procs, CacheFails(p) PROVE PagesInv'
  <2>1. /\ UNCHANGED <<active, page>> /\ \A q \in Procs \ {p} : txn'[q] = txn[q]
        /\ behind' = IF txn[p].op = "toggle" THEN behind \cup {k \in Pages : Differs(k, active)}
                     ELSE behind
    BY <1>0, <1>8 DEF CacheFails, Done, Goto
  <2>2. CASE txn[p].op = "toggle"
    BY <1>0, <2>1, <2>2 DEF PagesInv, PagesAreCurrent, Differs
  <2>3. CASE txn[p].op # "toggle"
    BY <1>0, <2>1, <2>3, PagesRest DEF At, Differs
  <2>. QED
    BY <2>2, <2>3
<1>9. ASSUME NEW k \in Pages, PageExpires(k) PROVE PagesInv'
  BY <1>0, <1>9, PagesRest DEF PageExpires, AtOnce, requests, Differs
<1>10. ASSUME NEW S, Deactivate(S) PROVE PagesInv'
  BY <1>0, <1>10 DEF Deactivate, PagesInv, PagesAreCurrent, Differs
<1>11. ASSUME ListingsNext PROVE PagesInv'
  BY <1>3, <1>4, <1>5, <1>6, <1>7, <1>8, <1>9, <1>10, <1>11
  DEF ListingsNext, ListStudents, ToggleLoad, AddLoad, RemoveLoad, lists
<1>. QED
  BY <1>0, <1>1, <1>2, <1>11, Steps
  DEF AccountOps, SpaceOps, TalkOps, BoardOps, ProfileOps, ListOps, shared, vars

\* Every kept page of the students shows them as they are once a switch is answered
\* (admin_students.py:251), for any number of students, admins reading pages and
\* admins switching at once, but for the pages the code may leave behind.
THEOREM KeptPagesAreCurrent == Spec => []PagesAreCurrent
<1>1. PagesInv => PagesAreCurrent
  BY DEF PagesInv
<1>. QED
  BY PagesStart, PagesSteps, <1>1, PTL DEF Spec

-----------------------------------------------------------------------------
(* Conversations.                                                          *)

(* Questions are asked with the newest messages of their workspace: while  *)
(* nothing else works on it, the question is the last of them.             *)
IsQuestion(t) ==
    /\ t.on = {<<"chat", t.w>>}
    /\ t.phase \in {"history", "call"} /\ <<"chat", t.w>> \notin clash =>
          /\ t.own \in DOMAIN messages /\ messages[t.own] = t.w
          /\ \A i \in DOMAIN messages : messages[i] = t.w => i <= t.own
    /\ t.phase = "call" /\ <<"chat", t.w>> \notin clash =>
          /\ t.own \in t.prompt
          /\ \A i \in t.prompt : i \in DOMAIN messages /\ messages[i] = t.w

TalkInv ==
    /\ RequestsInv
    /\ messages \in Seq(Spaces)
    /\ \A p \in Procs :
          /\ txn[p].op \in TalkOps => txn[p].w \in Spaces /\ txn[p].on = {<<"chat", txn[p].w>>}
          /\ txn[p].op = "ask" => IsQuestion(txn[p])

LEMMA TalkStarts == Init => TalkInv
<1>1. Init => messages \in Seq(Spaces) /\ \A p \in Procs : txn[p].op \notin TalkOps
  BY DEF Init, HandlersInit, ConversationsInit, Idle, TalkOps
<1>. QED
  BY <1>1, RequestsStart DEF TalkInv, TalkOps

LEMMA TalkRest ==
    ASSUME TalkInv, RequestsInv', UNCHANGED messages, clash \subseteq clash',
           \A q \in Procs : txn'[q].op \in TalkOps => txn'[q] = txn[q]
    PROVE  TalkInv'
BY DEF TalkInv, IsQuestion, TalkOps

(* A message of a workspace only meets a question of the workspace that it *)
(* overlaps with.                                                          *)

LEMMA MessageSaved ==
    ASSUME TalkInv, NEW p \in Procs, txn[p].op \in TalkOps, SaveMessage(txn[p].w),
           UNCHANGED clash, \A q \in Procs \ {p} : txn'[q] = txn[q]
    PROVE  /\ messages' \in Seq(Spaces) /\ Len(messages') = Len(messages) + 1
           /\ DOMAIN messages' = DOMAIN messages \cup {Len(messages')}
           /\ Len(messages') > Len(messages) /\ DOMAIN messages = 1..Len(messages)
           /\ messages'[Len(messages')] = txn[p].w
           /\ \A i \in DOMAIN messages : messages'[i] = messages[i]
           /\ \A q \in Procs \ {p} :
                 /\ txn'[q].op \in TalkOps =>
                       txn'[q].w \in Spaces /\ txn'[q].on = {<<"chat", txn'[q].w>>}
                 /\ txn'[q].op = "ask" => IsQuestion(txn[q])'
<1>0. messages \in Seq(Spaces) /\ txn[p].w \in Spaces /\ txn[p].on = {<<"chat", txn[p].w>>}
  BY DEF TalkInv
<1>1. /\ messages' = Append(messages, txn[p].w) /\ messages' \in Seq(Spaces)
      /\ Len(messages') = Len(messages) + 1 /\ Len(messages) \in Nat
  BY <1>0 DEF SaveMessage
<1>2. /\ DOMAIN messages = 1..Len(messages) /\ DOMAIN messages' = 1..Len(messages')
      /\ messages'[Len(messages')] = txn[p].w
      /\ \A i \in DOMAIN messages : messages'[i] = messages[i]
  BY <1>0, <1>1
<1>3. DOMAIN messages' = DOMAIN messages \cup {Len(messages')}
  BY <1>1, <1>2
<1>4. ASSUME NEW q \in Procs \ {p}
      PROVE  /\ txn'[q].op \in TalkOps =>
                   txn'[q].w \in Spaces /\ txn'[q].on = {<<"chat", txn'[q].w>>}
             /\ txn'[q].op = "ask" => IsQuestion(txn[q])'
  <2>1. txn'[q] = txn[q]
    OBVIOUS
  <2>2. txn[q].op \in TalkOps => txn[q].w \in Spaces /\ txn[q].on = {<<"chat", txn[q].w>>}
    BY DEF TalkInv
  <2>3. CASE txn[q].op = "ask"
    <3>1. IsQuestion(txn[q])
      BY <2>3 DEF TalkInv
    <3>2. <<"chat", txn[q].w>> \notin clash => txn[q].w # txn[p].w
      BY <1>0, <2>2, <2>3 DEF TalkInv, RequestsInv, TalkOps
    <3>. QED
      BY <2>1, <2>2, <3>1, <3>2, <1>2, <1>3 DEF IsQuestion
  <2>. QED
    BY <2>1, <2>2, <2>3
<1>. QED
  BY <1>1, <1>2, <1>3, <1>4

LEMMA TalkSteps == TalkInv /\ [Next]_vars => TalkInv'
<1> SUFFICES ASSUME TalkInv, [Next]_vars PROVE TalkInv'
  OBVIOUS
<1>0. /\ RequestsInv /\ RequestsInv' /\ txn = [p \in Procs |-> txn[p]]
      /\ messages \in Seq(Spaces)
  BY RequestsInvariant DEF TalkInv, RequestsInv
<1>1. ASSUME NEW S, Only(S), S \cap TalkOps = {}, UNCHANGED messages PROVE TalkInv'
  BY <1>0, <1>1, RequestsKept, TalkRest DEF TalkOps
<1>2. CASE UNCHANGED <<requests, messages>>
  BY <1>0, <1>2, TalkRest DEF requests
<1>3. ASSUME NEW p \in Procs, NEW w \in Spaces, NEW t, Start(p, t), UNCHANGED messages,
             t.op \in TalkOps, t.w = w, t.on = {<<"chat", w>>}, t.phase \notin {"history", "call"}
      PROVE  TalkInv'
  <2>1. clash \subseteq clash' /\ \A q \in Procs : txn'[q] = IF q = p THEN t ELSE txn[q]
    BY <1>0, <1>3 DEF Start
  <2>. QED
    BY <1>0, <1>3, <2>1 DEF TalkInv, IsQuestion
<1>4. ASSUME NEW p \in Procs, NEW w \in Spaces, SendMessage(p, w) \/ PostLoad(p, w) PROVE TalkInv'
  BY <1>3, <1>4 DEF SendMessage, PostLoad, Asked, TalkOps
<1>5. ASSUME NEW p \in Procs, NEW t, Goto(p, t)
      PROVE  UNCHANGED clash /\ \A q \in Procs : txn'[q] = IF q = p THEN t ELSE txn[q]
  BY <1>0, <1>5 DEF Goto
<1>6. ASSUME NEW p \in Procs, SaveReply(p) \/ PostSave(p) PROVE TalkInv'
  <2>1. txn[p].op \in TalkOps /\ SaveMessage(txn[p].w) /\ Goto(p, Idle)
    BY <1>6 DEF SaveReply, PostSave, At, Done, TalkOps
  <2>2. txn'[p].op \notin TalkOps
    BY <1>5, <2>1 DEF Idle, TalkOps
  <2>. QED
    BY <1>0, <1>5, <2>1, <2>2, MessageSaved DEF TalkInv, TalkOps
<1>7. ASSUME NEW p \in Procs, SendFails(p) PROVE TalkInv'
  BY <1>0, <1>5, <1>7, TalkRest DEF SendFails, Done, Idle, TalkOps
<1>8. ASSUME NEW p \in Procs, SaveQuestion(p) PROVE TalkInv'
  <2> DEFINE w == txn[p].w
             n == Len(messages')
             t == Asked(p, w, "history", n, {})
  <2>1. txn[p].op = "ask" /\ SaveMessage(w) /\ Goto(p, t)
    BY <1>8 DEF SaveQuestion, At
  <2>2. w \in Spaces
    BY <2>1 DEF TalkInv, TalkOps
  <2>3. /\ n \in DOMAIN messages' /\ messages'[n] = w /\ messages' \in Seq(Spaces)
        /\ \A i \in DOMAIN messages' : i <= n
    BY <1>0, <1>5, <2>1, MessageSaved DEF TalkOps
  <2>4. /\ t.op = "ask" /\ t.w = w /\ t.on = {<<"chat", w>>} /\ t.phase = "history" /\ t.own = n
    BY DEF Asked
  <2>5. txn'[p] = t
    BY <1>5, <2>1
  <2>6. IsQuestion(txn[p])' /\ txn'[p].w \in Spaces /\ txn'[p].on = {<<"chat", txn'[p].w>>}
    <3> HIDE DEF t, n
    <3>. QED
      BY <2>2, <2>3, <2>4, <2>5 DEF IsQuestion
  <2>7. \A q \in Procs \ {p} :
                 /\ txn'[q].op \in TalkOps =>
                       txn'[q].w \in Spaces /\ txn'[q].on = {<<"chat", txn'[q].w>>}
                 /\ txn'[q].op = "ask" => IsQuestion(txn[q])'
    BY <1>5, <2>1, MessageSaved DEF TalkOps
  <2>. QED
    BY <1>0, <2>3, <2>6, <2>7 DEF TalkInv
<1>9. ASSUME NEW p \in Procs, ReadHistory(p) PROVE TalkInv'
  <2> DEFINE w == txn[p].w
             t == Asked(p, w, "call", txn[p].own, Recent(w))
  <2>1. txn[p].op = "ask" /\ txn[p].phase = "history" /\ Goto(p, t) /\ UNCHANGED messages
    BY <1>9 DEF ReadHistory, At
  <2>2. w \in Spaces /\ IsQuestion(txn[p])
    BY <2>1 DEF TalkInv, TalkOps
  <2>3. \A i \in Recent(w) : i \in DOMAIN messages /\ messages[i] = w
    BY DEF Recent
  <2>4. ASSUME <<"chat", w>> \notin clash PROVE txn[p].own \in Recent(w)
    <3> DEFINE I == {i \in DOMAIN messages : messages[i] = w}
    <3>1. txn[p].own \in I /\ \A i \in I : i <= txn[p].own
      BY <2>1, <2>2, <2>4 DEF IsQuestion
    <3>2. DOMAIN messages \subseteq Nat
      BY <1>0
    <3>3. {j \in I : j > txn[p].own} = {}
      BY <3>1, <3>2
    <3>4. Cardinality({j \in I : j > txn[p].own}) < Window
      BY <3>3, FS_EmptySet, ConversationsAssumptions
    <3>. QED
      BY <3>1, <3>4 DEF Recent
  <2>5. /\ t.op = "ask" /\ t.w = w /\ t.on = {<<"chat", w>>} /\ t.phase = "call"
        /\ t.own = txn[p].own /\ t.prompt = Recent(w)
    BY DEF Asked
  <2>6. UNCHANGED clash /\ \A q \in Procs : txn'[q] = IF q = p THEN t ELSE txn[q]
    BY <1>5, <2>1
  <2>7. txn'[p] = t
    BY <2>6
  <2>8. IsQuestion(txn[p])' /\ txn'[p].w \in Spaces /\ txn'[p].on = {<<"chat", txn'[p].w>>}
    <3> HIDE DEF t
    <3>. QED
      BY <2>1, <2>2, <2>3, <2>4, <2>5, <2>6, <2>7 DEF IsQuestion
  <2>9. \A q \in Procs \ {p} :
                 /\ txn'[q].op \in TalkOps =>
                       txn'[q].w \in Spaces /\ txn'[q].on = {<<"chat", txn'[q].w>>}
                 /\ txn'[q].op = "ask" => IsQuestion(txn[q])'
    BY <2>1, <2>6 DEF TalkInv, IsQuestion
  <2>. QED
    BY <1>0, <2>1, <2>8, <2>9 DEF TalkInv
<1>. QED
  BY <1>0, <1>1, <1>2, <1>4, <1>6, <1>7, <1>8, <1>9, Steps
  DEF ConversationsNext, AccountOps, SpaceOps, TalkOps, BoardOps, ProfileOps, ListOps, shared, vars

\* The model's last turn is the question it is asked to answer
\* (document_chat_service.py:165), for any window, any length of history and any
\* number of members, unless messages of the workspace overlapped.
THEOREM QuestionIsLastTurn == Spec => []AnswersOwnQuestion
<1>1. TalkInv => AnswersOwnQuestion
  BY DEF TalkInv, IsQuestion, AnswersOwnQuestion, At
<1>. QED
  BY TalkStarts, TalkSteps, <1>1, PTL DEF Spec

-----------------------------------------------------------------------------
(* Reset links.                                                            *)

LinksType ==
    /\ link \in [Links -> LinkRow \cup {None, Deleted}]
    /\ asked \in 0..MaxLinks
    /\ uses \in [Links -> Nat]

OfUser(n, u) == Row(n) /\ link[n].user = u
Asks(p) == txn[p].op = "forgot"
Resets(p) == txn[p].op = "reset"

(* A number is given to one request, and names one user's link for good.   *)
LinksHistory ==
    /\ \A n \in Links : n > asked => link[n] = None
    /\ \A n \in Links : uses[n] > 0 => link[n] # None /\ (Row(n) => link[n].used)
    /\ \A p \in Procs : Asks(p) =>
          /\ txn[p].n \in Links /\ txn[p].u \in Users /\ txn[p].on = {txn[p].u}
          /\ txn[p].n <= asked
          /\ txn[p].phase = "commit" =>
                link[txn[p].n] = None /\ \A k \in Links : k \in txn[p].old => link[k] # None
          /\ \A q \in Procs : Asks(q) /\ txn[q].n = txn[p].n => q = p
    /\ \A p \in Procs : Resets(p) =>
          /\ txn[p].n \in Links /\ txn[p].on = {txn[p].u}
          /\ link[txn[p].n] # None
          /\ Row(txn[p].n) => link[txn[p].n].user = txn[p].u

(* While no two requests about a user's links overlap, an unused link is   *)
(* the newest of the user, a request for another has seen all there are,   *)
(* and a link that is about to be used still has not been.                 *)
LinksClean ==
    /\ \A n, k \in Links, u \in Users \ clash :
          OfUser(n, u) /\ OfUser(k, u) /\ ~link[n].used => k <= n
    /\ \A p \in Procs, k \in Links :
          Asks(p) /\ txn[p].phase = "commit" /\ txn[p].u \notin clash /\ OfUser(k, txn[p].u)
          => k < txn[p].n /\ (~link[k].used => k \in txn[p].old)
    /\ \A p \in Procs :
          Resets(p) /\ txn[p].phase = "commit" /\ txn[p].u \notin clash /\ Row(txn[p].n)
          => ~link[txn[p].n].used

LinksInv == RequestsInv /\ LinksType /\ LinksHistory /\ LinksClean

LEMMA LinksStart == Init => LinksInv
<1>1. Init => LinksType /\ LinksHistory /\ LinksClean
  BY AccountsAssumptions DEF Init, HandlersInit, AccountsInit, LinksType, LinksHistory, LinksClean,
     OfUser, Asks, Resets, Row, Idle
<1>. QED
  BY <1>1, RequestsStart DEF LinksInv

LinkTables == <<link, asked, uses>>
LEMMA LinksRest ==
    ASSUME LinksInv, RequestsInv', UNCHANGED LinkTables, clash \subseteq clash',
           \A q \in Procs : txn'[q].op \in {"forgot", "reset"} => txn'[q] = txn[q]
    PROVE  LinksInv'
<1>1. LinksType'
  BY DEF LinksInv, LinksType, LinkTables
<1>2. LinksHistory'
  BY DEF LinksInv, LinksHistory, LinkTables, Row, Asks, Resets
<1>3. LinksClean'
  BY DEF LinksInv, LinksClean, LinkTables, OfUser, Row, Asks, Resets
<1>. QED
  BY <1>1, <1>2, <1>3 DEF LinksInv

LEMMA ForgotKeeps ==
    ASSUME LinksInv, RequestsInv', NEW p \in Procs, NEW u \in Users, ForgotPassword(p, u)
    PROVE  LinksInv'
<1> DEFINE t == Forgot(p, "commit", u, asked + 1, Outdated(u))
<1>0. LinksType /\ RequestsInv /\ txn = [q \in Procs |-> txn[q]] /\ MaxLinks \in Nat
  BY AccountsAssumptions DEF LinksInv, RequestsInv
<1>1. /\ Start(p, t) /\ asked < MaxLinks /\ asked' = asked + 1 /\ UNCHANGED <<link, uses>>
  BY DEF ForgotPassword
<1>2. /\ t.op = "forgot" /\ t.phase = "commit" /\ t.on = {u} /\ t.u = u /\ t.n = asked + 1
      /\ t.old = Unused(u)
  BY DEF Forgot, Outdated
<1> HIDE DEF t
<1>3. /\ clash \subseteq clash' /\ \A q \in Procs : txn'[q] = IF q = p THEN t ELSE txn[q]
  BY <1>0, <1>1 DEF Start
<1>4. asked \in Nat /\ asked + 1 \in Links /\ Links \subseteq Nat
  BY <1>0, <1>1 DEF LinksType, Links
<1>8. \A n \in Links : n > asked => link[n] = None
  BY DEF LinksInv, LinksHistory
<1>5. LinksType'
  BY <1>0, <1>1, <1>4 DEF LinksType, Links
<1>6. LinksHistory'
  <2>1. \A n \in Links : n > asked' => link'[n] = None
    BY <1>1, <1>4, <1>8
  <2>2. \A n \in Links : uses'[n] > 0 => link'[n] # None /\ (Row(n)' => link'[n].used)
    BY <1>1 DEF LinksInv, LinksHistory, Row
  <2>3. ASSUME NEW q \in Procs, Asks(q)'
        PROVE  /\ txn'[q].n \in Links /\ txn'[q].u \in Users /\ txn'[q].on = {txn'[q].u}
               /\ txn'[q].n <= asked'
               /\ txn'[q].phase = "commit" =>
                     /\ link'[txn'[q].n] = None
                     /\ \A k \in Links : k \in txn'[q].old => link'[k] # None
               /\ \A r \in Procs : Asks(r)' /\ txn'[r].n = txn'[q].n => r = q
    <3>1. \A r \in Procs \ {p} : Asks(r)' => Asks(r) /\ txn'[r] = txn[r] /\ txn[r].n <= asked
      BY <1>3 DEF LinksInv, LinksHistory, Asks
    <3>2. CASE q = p
      <4>1. \A r \in Procs \ {p} : Asks(r)' => txn'[r].n # t.n
        BY <3>1, <1>2, <1>4 DEF LinksInv, LinksHistory
      <4>2. link[asked + 1] = None
        BY <1>4, <1>8
      <4>3. \A k \in Links : k \in t.old => link[k] # None
        BY <1>2 DEF Unused, Row
      <4>. QED
        BY <3>2, <4>1, <4>2, <4>3, <1>1, <1>2, <1>3, <1>4
    <3>3. CASE q # p
      <4>1. Asks(q) /\ txn'[q] = txn[q] /\ txn[q].n <= asked /\ txn[q].n \in Links
        BY <2>3, <3>1, <3>3 DEF LinksInv, LinksHistory
      <4>2. \A r \in Procs : Asks(r)' /\ txn'[r].n = txn[q].n => r = q
        BY <3>1, <4>1, <1>2, <1>3, <1>4 DEF LinksInv, LinksHistory
      <4>3. txn[q].n <= asked'
        <5>1. txn[q].n \in Nat /\ txn[q].n <= asked /\ asked' = asked + 1 /\ asked \in Nat
          BY <4>1, <1>1, <1>4
        <5>. QED
          BY <5>1
      <4>. QED
        BY <4>1, <4>2, <4>3, <1>1 DEF LinksInv, LinksHistory
    <3>. QED
      BY <3>2, <3>3
  <2>4. ASSUME NEW q \in Procs, Resets(q)'
        PROVE  /\ txn'[q].n \in Links /\ txn'[q].on = {txn'[q].u}
               /\ link'[txn'[q].n] # None
               /\ Row(txn[q].n)' => link'[txn'[q].n].user = txn'[q].u
    <3>1. Resets(q) /\ txn'[q] = txn[q]
      BY <2>4, <1>2, <1>3 DEF Resets
    <3>. QED
      BY <3>1, <1>1 DEF LinksInv, LinksHistory, Row
  <2>. QED
    BY <2>1, <2>2, <2>3, <2>4 DEF LinksHistory
<1>7. LinksClean'
  <2>1. \A k \in Links : OfUser(k, u) => k < t.n /\ (~link[k].used => k \in t.old)
    <3>1. \A k \in Links : OfUser(k, u) => k <= asked
      BY <1>4, <1>8 DEF OfUser, Row
    <3>2. \A k \in Links : OfUser(k, u) /\ ~link[k].used => k \in t.old
      BY <1>2 DEF OfUser, Row, Unused
    <3>3. \A k \in Links : k <= asked => k < asked + 1
      BY <1>4
    <3>. QED
      BY <1>2, <3>1, <3>2, <3>3
  <2>. QED
    BY <1>1, <1>2, <1>3, <2>1 DEF LinksInv, LinksClean, OfUser, Row, Asks, Resets
<1>. QED
  BY <1>5, <1>6, <1>7 DEF LinksInv

LEMMA ForgotCommitKeeps ==
    ASSUME LinksInv, RequestsInv', NEW p \in Procs, ForgotCommit(p) PROVE LinksInv'
<1> DEFINE t == txn[p]
           mail == [txn[p] EXCEPT !.phase = "mail"]
<1>0. LinksType /\ RequestsInv /\ txn = [q \in Procs |-> txn[q]] /\ Shape(t)
  BY DEF LinksInv, RequestsInv
<1>1. /\ t.op = "forgot" /\ t.phase = "commit" /\ UNCHANGED <<clash, asked, uses>>
      /\ txn' = [txn EXCEPT ![p] = mail]
      /\ link' = [n \in Links |-> IF n = t.n THEN [user |-> t.u, used |-> FALSE]
                                  ELSE IF n \in t.old THEN Deleted ELSE link[n]]
  BY DEF ForgotCommit, Goto, At
<1>2. mail.op = "forgot" /\ mail.phase = "mail" /\ mail.n = t.n /\ mail.u = t.u /\ mail.on = t.on
  BY <1>0, <1>1 DEF Shape
<1>3. \A q \in Procs : txn'[q] = IF q = p THEN mail ELSE txn[q]
  BY <1>0, <1>1
<1>4. t.n \in Links /\ t.u \in Users /\ t.on = {t.u} /\ t.n <= asked /\ link[t.n] = None
      /\ \A q \in Procs : Asks(q) /\ txn[q].n = t.n => q = p
  BY <1>1 DEF LinksInv, LinksHistory, Asks
<1>5. [user |-> t.u, used |-> FALSE] \in LinkRow
  BY <1>4 DEF LinkRow
<1>6. LinksType'
  BY <1>0, <1>1, <1>5 DEF LinksType
<1>7. \A n \in Links : link'[n] = IF n = t.n THEN [user |-> t.u, used |-> FALSE]
                                  ELSE IF n \in t.old THEN Deleted ELSE link[n]
  BY <1>1
<1>8. \A n \in Links : Row(n)' => IF n = t.n THEN link'[n].user = t.u /\ ~link'[n].used
                                 ELSE n \notin t.old /\ Row(n) /\ link'[n] = link[n]
  BY <1>7 DEF Row
<1>9. [user |-> t.u, used |-> FALSE] # None /\ Deleted # None
  BY <1>5, AccountsAssumptions
<1>11. \A k \in Links : k \in t.old => link[k] # None
  BY <1>1 DEF LinksInv, LinksHistory, Asks
<1>12. asked \in Nat /\ Links \subseteq Nat
  BY <1>0 DEF LinksType, Links
<1> HIDE DEF t, mail
<1>10. LinksHistory'
  <2>1. \A n \in Links : n > asked => link'[n] = None
    BY <1>1, <1>4, <1>7, <1>11, <1>12 DEF LinksInv, LinksHistory
  <2>2. \A n \in Links : uses'[n] > 0 => link'[n] # None /\ (Row(n)' => link'[n].used)
    BY <1>1, <1>4, <1>7, <1>8, <1>9 DEF LinksInv, LinksHistory
  <2>3. ASSUME NEW q \in Procs, Asks(q)'
        PROVE  /\ txn'[q].n \in Links /\ txn'[q].u \in Users /\ txn'[q].on = {txn'[q].u}
               /\ txn'[q].n <= asked'
               /\ txn'[q].phase = "commit" =>
                     /\ link'[txn'[q].n] = None
                     /\ \A k \in Links : k \in txn'[q].old => link'[k] # None
               /\ \A r \in Procs : Asks(r)' /\ txn'[r].n = txn'[q].n => r = q
    <3>1. Asks(q) /\ (\A r \in Procs : Asks(r)' => Asks(r) /\ txn'[r].n = txn[r].n)
      BY <2>3, <1>1, <1>2, <1>3 DEF Asks, t
    <3>2. CASE q = p
      BY <3>1, <3>2, <1>1, <1>2, <1>3, <1>4
    <3>3. CASE q # p
      <4>1. txn'[q] = txn[q] /\ txn[q].n # t.n
        BY <3>1, <3>3, <1>3, <1>4
      <4>2. txn[q].phase = "commit" =>
               link[txn[q].n] = None /\ \A k \in Links : k \in txn[q].old => link[k] # None
        BY <3>1 DEF LinksInv, LinksHistory
      <4>3. \A k \in Links : link[k] # None => link'[k] # None
        BY <1>7, <1>9
      <4>4. txn[q].n \in Links
        BY <3>1 DEF LinksInv, LinksHistory
      <4>5. txn[q].phase = "commit" => link'[txn[q].n] = None
        BY <4>1, <4>2, <4>4, <1>7, <1>11
      <4>. QED
        BY <3>1, <4>1, <4>2, <4>3, <4>5, <1>1 DEF LinksInv, LinksHistory
    <3>. QED
      BY <3>2, <3>3
  <2>4. \A q \in Procs : Resets(q)' =>
          /\ txn'[q].n \in Links /\ txn'[q].on = {txn'[q].u}
          /\ link'[txn'[q].n] # None
          /\ Row(txn[q].n)' => link'[txn'[q].n].user = txn'[q].u
    BY <1>2, <1>3, <1>4, <1>7, <1>8, <1>9 DEF LinksInv, LinksHistory, Resets
  <2>. QED
    BY <2>1, <2>2, <2>3, <2>4, <1>1 DEF LinksHistory
<1>13. LinksClean'
  <2>1. ASSUME NEW n \in Links, NEW k \in Links, NEW u \in Users \ clash,
               OfUser(n, u)', OfUser(k, u)', ~link'[n].used
        PROVE  k <= n
    <3>1. n # t.n => OfUser(n, u) /\ n \notin t.old /\ ~link[n].used
      BY <2>1, <1>8 DEF OfUser
    <3>2. k # t.n => OfUser(k, u)
      BY <2>1, <1>8 DEF OfUser
    <3>3. u = t.u /\ OfUser(k, u) => k < t.n
      BY <1>1 DEF LinksInv, LinksClean, Asks, t
    <3>4. u = t.u /\ OfUser(n, u) => n < t.n /\ (~link[n].used => n \in t.old)
      BY <1>1 DEF LinksInv, LinksClean, Asks, t
    <3>5. (n = t.n \/ k = t.n) => u = t.u
      BY <2>1, <1>8 DEF OfUser
    <3>6. OfUser(n, u) /\ OfUser(k, u) /\ ~link[n].used => k <= n
      BY DEF LinksInv, LinksClean
    <3>. QED
      BY <3>1, <3>2, <3>3, <3>4, <3>5, <3>6, <1>4, <1>12
  <2>2. ASSUME NEW q \in Procs, q # p, Asks(q) \/ Resets(q), txn[q].u \notin clash
        PROVE  txn[q].u # t.u
    <3>1. txn[q].on = {txn[q].u}
      BY <2>2 DEF LinksInv, LinksHistory
    <3>. QED
      BY <2>2, <3>1, <1>0, <1>4 DEF RequestsInv, t
  <2>3. ASSUME NEW q \in Procs, NEW k \in Links, Asks(q)', txn'[q].phase = "commit",
               txn'[q].u \notin clash, OfUser(k, txn[q].u)'
        PROVE  txn'[q] = txn[q] /\ k < txn[q].n /\ (~link'[k].used => k \in txn[q].old)
    <3>1. q # p /\ txn'[q] = txn[q] /\ Asks(q)
      BY <2>3, <1>2, <1>3 DEF Asks
    <3>2. k # t.n
      BY <2>2, <2>3, <3>1, <1>8 DEF OfUser
    <3>3. OfUser(k, txn[q].u) /\ link'[k] = link[k]
      BY <2>3, <3>1, <3>2, <1>8 DEF OfUser
    <3>. QED
      BY <2>3, <3>1, <3>3 DEF LinksInv, LinksClean
  <2>4. ASSUME NEW q \in Procs, Resets(q)', txn'[q].phase = "commit", txn'[q].u \notin clash,
               Row(txn[q].n)'
        PROVE  txn'[q] = txn[q] /\ ~link'[txn[q].n].used
    <3>1. q # p /\ txn'[q] = txn[q] /\ Resets(q)
      BY <2>4, <1>2, <1>3 DEF Resets
    <3>2. txn[q].n \in Links /\ link[txn[q].n] # None
      BY <3>1 DEF LinksInv, LinksHistory
    <3>3. Row(txn[q].n) /\ link'[txn[q].n] = link[txn[q].n]
      BY <2>4, <3>1, <3>2, <1>4, <1>8
    <3>. QED
      BY <2>4, <3>1, <3>3 DEF LinksInv, LinksClean
  <2>. QED
    BY <2>1, <2>3, <2>4, <1>1 DEF LinksClean
<1>. QED
  BY <1>6, <1>10, <1>13 DEF LinksInv

LEMMA MailAnsweredKeeps ==
    ASSUME LinksInv, RequestsInv', NEW p \in Procs, MailAnswered(p) PROVE LinksInv'
<1> DEFINE n == txn[p].n
<1>0. LinksType /\ RequestsInv /\ txn = [q \in Procs |-> txn[q]]
  BY DEF LinksInv, RequestsInv
<1>1. /\ txn[p].op = "forgot" /\ UNCHANGED <<clash, asked, uses>>
      /\ link' = link \/ link' = [link EXCEPT ![n] = Deleted]
      /\ \A q \in Procs : txn'[q] = IF q = p THEN Idle ELSE txn[q]
  BY <1>0 DEF MailAnswered, At, Done, Goto
<1>2. n \in Links /\ \A q \in Procs : Asks(q) /\ txn[q].n = n => q = p
  BY <1>1 DEF LinksInv, LinksHistory, Asks
<1>3. Deleted # None
  BY AccountsAssumptions
<1>4. CASE link' = link
  BY <1>0, <1>1, <1>4, LinksRest DEF LinkTables, Idle
<1>5. CASE link' = [link EXCEPT ![n] = Deleted]
  <2>1. \A k \in Links : link'[k] = IF k = n THEN Deleted ELSE link[k]
    BY <1>0, <1>2, <1>5 DEF LinksType
  <2>2. \A k \in Links : Row(k)' => Row(k) /\ link'[k] = link[k]
    BY <2>1 DEF Row
  <2>3. \A q \in Procs : Asks(q)' \/ Resets(q)' => q # p /\ txn'[q] = txn[q]
    BY <1>1 DEF Asks, Resets, Idle
  <2>4. LinksType'
    BY <1>0, <1>1, <1>2, <1>5 DEF LinksType
  <2> HIDE DEF n
  <2>5. LinksHistory'
    <3>0. n <= asked /\ asked \in Nat /\ Links \subseteq Nat
      BY <1>0, <1>1 DEF LinksInv, LinksHistory, LinksType, Links, Asks, n
    <3>1. \A k \in Links : k > asked' => link'[k] = None
      BY <2>1, <3>0, <1>1, <1>2 DEF LinksInv, LinksHistory
    <3>2. \A k \in Links : uses'[k] > 0 => link'[k] # None /\ (Row(k)' => link'[k].used)
      BY <1>1, <1>3, <2>1, <2>2 DEF LinksInv, LinksHistory
    <3>3. ASSUME NEW q \in Procs, Asks(q)'
          PROVE  /\ txn'[q].n \in Links /\ txn'[q].u \in Users /\ txn'[q].on = {txn'[q].u}
                 /\ txn'[q].n <= asked'
                 /\ txn'[q].phase = "commit" =>
                      /\ link'[txn'[q].n] = None
                      /\ \A k \in Links : k \in txn'[q].old => link'[k] # None
                 /\ \A r \in Procs : Asks(r)' /\ txn'[r].n = txn'[q].n => r = q
      <4>1. Asks(q) /\ q # p /\ txn'[q] = txn[q] /\ txn[q].n # n
        BY <3>3, <2>3, <1>2 DEF Asks
      <4>2. \A r \in Procs : Asks(r)' => Asks(r) /\ txn'[r] = txn[r]
        BY <2>3 DEF Asks
      <4>. QED
        BY <4>1, <4>2, <1>1, <1>3, <2>1 DEF LinksInv, LinksHistory
    <3>4. ASSUME NEW q \in Procs, Resets(q)'
          PROVE  /\ txn'[q].n \in Links /\ txn'[q].on = {txn'[q].u}
                 /\ link'[txn'[q].n] # None
                 /\ Row(txn[q].n)' => link'[txn'[q].n].user = txn'[q].u
      <4>1. Resets(q) /\ txn'[q] = txn[q]
        BY <3>4, <2>3 DEF Resets
      <4>. QED
        BY <4>1, <1>3, <2>1, <2>2 DEF LinksInv, LinksHistory
    <3>. QED
      BY <3>1, <3>2, <3>3, <3>4 DEF LinksHistory
  <2>6. LinksClean'
    BY <1>0, <1>1, <2>2, <2>3 DEF LinksInv, LinksClean, LinksHistory, OfUser, Asks, Resets
  <2>. QED
    BY <2>4, <2>5, <2>6 DEF LinksInv
<1>. QED
  BY <1>1, <1>4, <1>5

LEMMA ResetLoadKeeps ==
    ASSUME LinksInv, RequestsInv', NEW p \in Procs, NEW n \in Links, ResetLoad(p, n)
    PROVE  LinksInv'
<1> DEFINE t == [op |-> "reset", phase |-> IF n \in expired THEN "expire" ELSE "commit",
                 on |-> {link[n].user}, u |-> link[n].user, n |-> n]
<1>0. LinksType /\ RequestsInv /\ txn = [q \in Procs |-> txn[q]]
  BY DEF LinksInv, RequestsInv
<1>1. Row(n) /\ ~link[n].used /\ Start(p, t) /\ UNCHANGED <<link, asked, uses>>
  BY DEF ResetLoad, accounts
<1>2. t.op = "reset" /\ t.on = {t.u} /\ t.u = link[n].user /\ t.n = n
  OBVIOUS
<1> HIDE DEF t
<1>3. clash \subseteq clash' /\ \A q \in Procs : txn'[q] = IF q = p THEN t ELSE txn[q]
  BY <1>0, <1>1 DEF Start
<1>4. \A q \in Procs : Asks(q)' => Asks(q) /\ txn'[q] = txn[q]
  BY <1>2, <1>3 DEF Asks
<1>5. \A q \in Procs : Resets(q)' => txn'[q] = t \/ (Resets(q) /\ txn'[q] = txn[q])
  BY <1>3 DEF Resets
<1>6. LinksType'
  BY <1>0, <1>1 DEF LinksType
<1>7. LinksHistory'
  BY <1>1, <1>2, <1>4, <1>5 DEF LinksInv, LinksHistory, Row
<1>8. LinksClean'
  BY <1>1, <1>2, <1>3, <1>4, <1>5 DEF LinksInv, LinksClean, OfUser, Row
<1>. QED
  BY <1>6, <1>7, <1>8 DEF LinksInv

LEMMA ResetCommitKeeps ==
    ASSUME LinksInv, RequestsInv', NEW p \in Procs, ResetCommit(p)
    PROVE  /\ LinksInv'
           /\ \A n \in Links : uses'[n] > uses[n] =>
                 /\ txn[p].phase = "commit" /\ n = txn[p].n /\ Row(n)
                 /\ txn[p].u = link[n].user /\ uses[n] \in Nat
<1> DEFINE t == txn[p]
           n == txn[p].n
<1>0. LinksType /\ RequestsInv /\ txn = [q \in Procs |-> txn[q]]
  BY DEF LinksInv, RequestsInv
<1>1. /\ t.op = "reset" /\ UNCHANGED <<clash, asked>>
      /\ \A q \in Procs : txn'[q] = IF q = p THEN Idle ELSE txn[q]
  BY <1>0 DEF ResetCommit, At, Done, Goto
<1>2. n \in Links /\ link[n] # None /\ t.on = {t.u} /\ (Row(n) => link[n].user = t.u)
  BY <1>1 DEF LinksInv, LinksHistory, Resets
<1>3. CASE ~Row(n)
  <2>1. UNCHANGED <<link, uses>>
    BY <1>3 DEF ResetCommit
  <2>2. LinksInv'
    BY <1>0, <1>1, <2>1, LinksRest DEF LinkTables, Idle
  <2>. QED
    BY <2>1, <2>2, <1>0 DEF LinksType
<1>4. CASE Row(n)
  <2>1. /\ link' = [link EXCEPT ![n].used = TRUE]
        /\ uses' = IF t.phase = "commit" THEN [uses EXCEPT ![n] = @ + 1] ELSE uses
    BY <1>4 DEF ResetCommit, Spent
  <2>2. link[n] \in LinkRow
    BY <1>0, <1>2, <1>4 DEF LinksType, Row
  <2>3. link'[n] = [user |-> link[n].user, used |-> TRUE] /\ link'[n] \in LinkRow
    BY <1>0, <1>2, <2>1, <2>2 DEF LinksType, LinkRow
  <2>4. \A k \in Links \ {n} : link'[k] = link[k]
    BY <1>0, <1>2, <2>1 DEF LinksType
  <2>5. LinksType'
    <3>1. link' = [link EXCEPT ![n] = link'[n]]
      BY <1>0, <1>2, <2>1 DEF LinksType
    <3>2. link' \in [Links -> LinkRow \cup {None, Deleted}]
      BY <1>0, <1>2, <2>3, <3>1 DEF LinksType
    <3>. QED
      BY <1>0, <1>1, <1>2, <2>1, <3>2 DEF LinksType
  <2>6. \A k \in Links : uses'[k] = uses[k] \/ (k = n /\ t.phase = "commit")
    BY <1>0, <1>2, <2>1 DEF LinksType
  <2>7. \A q \in Procs : Asks(q)' \/ Resets(q)' => q # p /\ txn'[q] = txn[q]
    BY <1>1 DEF Asks, Resets, Idle
  <2>8. link'[n] # None /\ link'[n] # Deleted
    BY <2>3, AccountsAssumptions
  <2>9. \A k \in Links : /\ Row(k)' => Row(k) /\ link'[k].user = link[k].user
                         /\ Row(k) /\ ~link'[k].used => k # n /\ ~link[k].used
                         /\ link[k] = None => link'[k] = None
                         /\ link[k] # None => link'[k] # None
    BY <1>2, <1>4, <2>3, <2>4, <2>8 DEF Row
  <2>10. link'[n].used = TRUE
    BY <2>3
  <2> HIDE DEF n, t
  <2>11. LinksHistory'
    <3>1. \A k \in Links : k > asked' => link'[k] = None
      BY <1>1, <2>9 DEF LinksInv, LinksHistory
    <3>2. \A k \in Links : uses'[k] > 0 => link'[k] # None /\ (Row(k)' => link'[k].used)
      BY <2>4, <2>6, <2>8, <2>9, <2>10 DEF LinksInv, LinksHistory
    <3>3. ASSUME NEW q \in Procs, Asks(q)'
          PROVE  /\ txn'[q].n \in Links /\ txn'[q].u \in Users /\ txn'[q].on = {txn'[q].u}
                 /\ txn'[q].n <= asked'
                 /\ txn'[q].phase = "commit" =>
                      /\ link'[txn'[q].n] = None
                      /\ \A k \in Links : k \in txn'[q].old => link'[k] # None
                 /\ \A r \in Procs : Asks(r)' /\ txn'[r].n = txn'[q].n => r = q
      <4>1. \A r \in Procs : Asks(r)' => Asks(r) /\ txn'[r] = txn[r]
        BY <2>7 DEF Asks
      <4>. QED
        BY <3>3, <4>1, <1>1, <2>9 DEF LinksInv, LinksHistory
    <3>4. ASSUME NEW q \in Procs, Resets(q)'
          PROVE  /\ txn'[q].n \in Links /\ txn'[q].on = {txn'[q].u}
                 /\ link'[txn'[q].n] # None
                 /\ Row(txn[q].n)' => link'[txn'[q].n].user = txn'[q].u
      <4>1. Resets(q) /\ txn'[q] = txn[q]
        BY <3>4, <2>7 DEF Resets
      <4>. QED
        BY <4>1, <2>9 DEF LinksInv, LinksHistory
    <3>. QED
      BY <3>1, <3>2, <3>3, <3>4 DEF LinksHistory
  <2>12. ASSUME NEW q \in Procs, q # p, Resets(q), txn[q].u \notin clash
         PROVE  txn[q].u # t.u
    <3>1. txn[q].on = {txn[q].u}
      BY <2>12 DEF LinksInv, LinksHistory
    <3>. QED
      BY <2>12, <3>1, <1>0, <1>2 DEF RequestsInv, t
  <2>13. LinksClean'
    <3>1. ASSUME NEW j \in Links, NEW k \in Links, NEW u \in Users \ clash',
                 OfUser(j, u)', OfUser(k, u)', ~link'[j].used
          PROVE  k <= j
      BY <3>1, <1>1, <2>9 DEF LinksInv, LinksClean, OfUser
    <3>2. ASSUME NEW q \in Procs, NEW k \in Links, Asks(q)', txn'[q].phase = "commit",
                 txn'[q].u \notin clash', OfUser(k, txn[q].u)'
          PROVE  txn'[q] = txn[q] /\ k < txn[q].n /\ (~link'[k].used => k \in txn[q].old)
      <4>1. Asks(q) /\ txn'[q] = txn[q]
        BY <3>2, <2>7 DEF Asks
      <4>. QED
        BY <3>2, <4>1, <1>1, <2>9 DEF LinksInv, LinksClean, OfUser
    <3>3. ASSUME NEW q \in Procs, Resets(q)', txn'[q].phase = "commit", txn'[q].u \notin clash',
                 Row(txn[q].n)'
          PROVE  txn'[q] = txn[q] /\ ~link'[txn[q].n].used
      <4>1. Resets(q) /\ txn'[q] = txn[q] /\ q # p /\ txn[q].n \in Links
        BY <3>3, <2>7 DEF Resets, LinksInv, LinksHistory
      <4>2. Row(txn[q].n) /\ link[txn[q].n].user = txn[q].u
        BY <3>3, <4>1, <2>9 DEF LinksInv, LinksHistory
      <4>3. txn[q].n # n
        BY <3>3, <4>1, <4>2, <1>1, <1>2, <1>4, <2>12 DEF t
      <4>. QED
        BY <3>3, <4>1, <4>2, <4>3, <1>1, <2>4 DEF LinksInv, LinksClean
    <3>. QED
      BY <3>1, <3>2, <3>3 DEF LinksClean
  <2>. QED
    BY <1>0, <1>2, <1>4, <2>5, <2>6, <2>11, <2>13 DEF LinksInv, LinksType, t, n
<1>. QED
  BY <1>3, <1>4

LEMMA LinksSteps ==
    ASSUME LinksInv, [Next]_vars
    PROVE  /\ LinksInv'
           /\ UNCHANGED uses \/ \E p \in Procs : ResetCommit(p)
<1>0. RequestsInv /\ LinksType /\ RequestsInv' /\ txn = [q \in Procs |-> txn[q]]
  BY RequestsInvariant DEF LinksInv, RequestsInv
<1>1. ASSUME NEW S, Only(S), S \cap {"forgot", "reset"} = {}, UNCHANGED LinkTables PROVE LinksInv'
  BY <1>0, <1>1, RequestsKept, LinksRest
<1>2. ASSUME UNCHANGED <<requests, LinkTables>> PROVE LinksInv'
  BY <1>0, <1>2, LinksRest DEF requests
<1>3. ASSUME NEW p \in Procs, NEW t, Start(p, t), t.op \notin {"forgot", "reset"},
             UNCHANGED LinkTables
      PROVE  LinksInv'
  <2>1. clash \subseteq clash' /\ \A q \in Procs : txn'[q] = IF q = p THEN t ELSE txn[q]
    BY <1>0, <1>3 DEF Start
  <2>. QED
    BY <1>0, <1>3, <2>1, LinksRest
<1>4. ASSUME NEW p \in Procs, InsertUser(p) \/ UpdateRoleCommit(p) PROVE LinksInv' /\ UNCHANGED uses
  <2>1. UNCHANGED <<LinkTables, clash>> /\ \A q \in Procs : txn'[q] = IF q = p THEN Idle ELSE txn[q]
    BY <1>0, <1>4 DEF InsertUser, UpdateRoleCommit, Done, Goto, resets, LinkTables
  <2>. QED
    BY <1>0, <2>1, LinksRest DEF Idle, LinkTables
<1>5. CASE AccountsNext
  <2>1. ASSUME NEW u \in Users, Login(u) \/ OauthLogin(u) \/ ChangePassword(u)
        PROVE  UNCHANGED <<requests, LinkTables>>
    BY <2>1 DEF Login, OauthLogin, ChangePassword, AtOnce, resets, LinkTables
  <2>2. ASSUME NEW n \in Links, HourPasses(n) PROVE UNCHANGED <<requests, LinkTables>>
    BY <2>2 DEF HourPasses, AtOnce, LinkTables
  <2>3. ASSUME NEW p \in Procs, MailArrives(p) PROVE UNCHANGED <<requests, LinkTables>>
    BY <2>3 DEF MailArrives, LinkTables
  <2>4. ASSUME NEW p \in Procs, NEW u \in Users, NEW r \in Roles,
               OauthLoad(p, u) \/ SignupLoad(p, u, r) \/ UpdateRoleLoad(p, u, r)
        PROVE  LinksInv' /\ UNCHANGED uses
    BY <2>4, <1>3 DEF OauthLoad, SignupLoad, UpdateRoleLoad, accounts, LinkTables
  <2>5. ASSUME NEW p \in Procs, NEW u \in Users, ForgotPassword(p, u)
        PROVE  LinksInv' /\ UNCHANGED uses
    BY <2>5, ForgotKeeps, <1>0 DEF ForgotPassword
  <2>6. ASSUME NEW p \in Procs, ForgotCommit(p) \/ MailAnswered(p) PROVE LinksInv' /\ UNCHANGED uses
    BY <2>6, ForgotCommitKeeps, MailAnsweredKeeps, <1>0 DEF ForgotCommit, MailAnswered
  <2>7. ASSUME NEW p \in Procs, NEW n \in Links, ResetLoad(p, n) PROVE LinksInv' /\ UNCHANGED uses
    BY <2>7, ResetLoadKeeps, <1>0 DEF ResetLoad, accounts
  <2>8. ASSUME NEW p \in Procs, ResetCommit(p) PROVE LinksInv'
    BY <2>8, ResetCommitKeeps, <1>0
  <2>. QED
    BY <1>2, <1>4, <1>5, <2>1, <2>2, <2>3, <2>4, <2>5, <2>6, <2>7, <2>8
    DEF AccountsNext, LinkTables, Roles
<1>6. UNCHANGED accounts => UNCHANGED LinkTables
  BY DEF accounts, LinkTables
<1>. QED
  BY <1>0, <1>1, <1>2, <1>5, <1>6, Steps
  DEF SpaceOps, TalkOps, BoardOps, ProfileOps, ListOps, vars, LinkTables

LEMMA NewestUsed ==
    ASSUME LinksInv, LinksInv', NEW p \in Procs, ResetCommit(p), NEW n \in Links, uses'[n] > uses[n]
    PROVE  \/ link[n].user \in clash
           \/ uses[n] = 0 /\ \A k \in Links : k > n => link[k] = None \/ link[k] = Deleted
                                                        \/ link[k].user # link[n].user
<1>1. /\ txn[p].phase = "commit" /\ n = txn[p].n /\ Row(n)
      /\ txn[p].u = link[n].user /\ uses[n] \in Nat
  BY ResetCommitKeeps DEF LinksInv
<1>2. link[n] \in LinkRow
  BY <1>1 DEF LinksInv, LinksType, Row
<1>3. Resets(p) /\ link[n].user \in Users
  BY <1>2 DEF ResetCommit, At, Resets, LinkRow
<1>4. ASSUME link[n].user \notin clash
      PROVE  ~link[n].used
  BY <1>1, <1>3, <1>4 DEF LinksInv, LinksClean
<1>5. ASSUME link[n].user \notin clash PROVE uses[n] = 0
  <2>1. ~(uses[n] > 0)
    BY <1>1, <1>4, <1>5 DEF LinksInv, LinksHistory
  <2>. QED
    BY <2>1, <1>1
<1>6. ASSUME link[n].user \notin clash, NEW k \in Links, k > n, Row(k), link[k].user = link[n].user
      PROVE  FALSE
  <2>1. OfUser(k, link[n].user) /\ OfUser(n, link[n].user)
    BY <1>1, <1>6 DEF OfUser
  <2>2. k <= n
    BY <2>1, <1>3, <1>4, <1>6 DEF LinksInv, LinksClean
  <2>. QED
    BY <2>2, <1>6 DEF Links
<1>. QED
  BY <1>5, <1>6 DEF Row

\* "Delete any existing unused tokens for this user" (routes.py:1194) and "Mark token
\* as used" (1315), for any number of users, links and requests: a link sets a
\* password once and only while it is the newest, unless requests about the user's
\* links overlapped.
THEOREM OnlyNewestLinkResets == Spec => NewestLinkOnly
<1> DEFINE Newest == \A n \in Links : uses'[n] > uses[n] =>
              \/ link[n].user \in clash
              \/ uses[n] = 0 /\ \A k \in Links : k > n => link[k] = None \/ link[k] = Deleted
                                                            \/ link[k].user # link[n].user
<1>1. ASSUME LinksInv, [Next]_vars PROVE LinksInv' /\ [Newest]_<<requests, accounts>>
  <2>1. UNCHANGED uses => Newest
    BY <1>1 DEF LinksInv, LinksType
  <2>. QED
    BY <1>1, <2>1, LinksSteps, NewestUsed
<1>2. Init => LinksInv
  BY LinksStart
<1>3. [][Newest]_<<requests, accounts>> => NewestLinkOnly
  BY PTL DEF NewestLinkOnly
<1>. QED
  BY <1>1, <1>2, <1>3, PTL DEF Spec

-----------------------------------------------------------------------------
(* Rooms: an edit lock is never left behind.                               *)

RoomsType ==
    /\ sock \in [Sockets -> Socket \cup {None}]
    /\ lock \in [DocRooms -> Users \cup {None}]

(* A socket whose handler is still to run its cleanup.                     *)
Holder(c, r, u) ==
    sock[c] # None /\ sock[c].phase = "open" /\ sock[c].room = r /\ sock[c].user = u

LockInv ==
    /\ RoomsType
    /\ \A r \in DocRooms : lock[r] # None => \E c \in Sockets : Holder(c, r, lock[r])

(* The sockets and locks only change in the room's own actions.            *)
LEMMA RoomsStart == Init => LockInv
BY RoomsAssumptions DEF Init, RoomsInit, LockInv, RoomsType

(* A step that keeps the locks, and every open socket of a document open.  *)
LEMMA LocksKept ==
    ASSUME LockInv, RoomsType', lock' = lock,
           \A c \in Sockets :
             sock[c] # None /\ sock[c].phase = "open" /\ sock[c].room \in DocRooms =>
               /\ sock'[c] # None /\ sock'[c].phase = "open"
               /\ sock'[c].room = sock[c].room /\ sock'[c].user = sock[c].user
    PROVE  LockInv'
BY DEF LockInv, Holder

LEMMA RoomsStep == LockInv /\ [Next]_vars => LockInv'
<1> SUFFICES ASSUME LockInv, [Next]_vars PROVE LockInv'
  OBVIOUS
<1> USE RoomsAssumptions DEF RoomsType, Socket, Phases, Rooms, ChatRooms
<1>0. RoomsType
  BY DEF LockInv
<1>1. CASE UNCHANGED rooms
  BY <1>1 DEF LockInv, Holder, rooms, sockets
<1>2. ASSUME NEW c \in Sockets, NEW u \in Users, NEW r \in Rooms, Connect(c, u, r) PROVE LockInv'
  BY <1>2, <1>0, LocksKept DEF Connect, NextNew
<1>3. ASSUME NEW c \in Sockets, Greet(c) PROVE LockInv'
  <2>. DEFINE phase == IF sock[c].up THEN "open" ELSE "closed"
  <2>1. sock' = [sock EXCEPT ![c].phase = phase] /\ lock' = lock
    BY <1>3 DEF Greet, Turn
  <2>2. sock[c] # None /\ sock[c].phase = "greet" /\ phase \in Phases
    BY <1>3 DEF Greet, In
  <2>. QED
    BY <2>1, <2>2, <1>0, LocksKept
<1>4. ASSUME NEW c \in Sockets, PeerLeaves(c) PROVE LockInv'
  <2> DEFINE row == [sock[c] EXCEPT !.up = FALSE]
  <2>1. sock' = [sock EXCEPT ![c] = row] /\ lock' = lock /\ sock[c] # None
    BY <1>4 DEF PeerLeaves
  <2>2. /\ row \in Socket /\ row.phase = sock[c].phase
        /\ row.room = sock[c].room /\ row.user = sock[c].user
    BY <2>1, <1>0
  <2> HIDE DEF row
  <2>3. sock' \in [Sockets -> Socket \cup {None}]
    BY <2>1, <2>2, <1>0
  <2>4. RoomsType'
    BY <2>1, <2>3, <1>0
  <2>. QED
    BY <2>1, <2>2, <2>4, <1>0, LocksKept
<1>5. ASSUME NEW c \in Sockets, Cleanup(c) PROVE LockInv'
  <2>. DEFINE r == sock[c].room
              u == sock[c].user
              phase == IF lock' # lock THEN "left" ELSE "closed"
  <2>1. /\ sock[c] # None /\ sock[c].phase = "open"
        /\ lock' = IF r \in DocRooms THEN Released(r, u) ELSE lock
        /\ sock' = [sock EXCEPT ![c].phase = phase]
    BY <1>5 DEF Cleanup, In, Turn, Freed
  <2>2. RoomsType'
    BY <2>1, <1>0 DEF Released
  <2>3. ASSUME NEW d \in DocRooms, lock'[d] # None
        PROVE  lock'[d] = lock[d] /\ ~Holder(c, d, lock[d])
    BY <2>1, <2>3, <1>0 DEF Released, Holder
  <2>4. ASSUME NEW d, NEW v, NEW b \in Sockets, Holder(b, d, v), b # c PROVE Holder(b, d, v)'
    BY <2>1, <2>4, <1>0 DEF Holder
  <2>. QED
    BY <2>2, <2>3, <2>4 DEF LockInv, Holder
<1>6. ASSUME NEW c \in Sockets, Farewell(c) PROVE LockInv'
  BY <1>6, <1>0, LocksKept DEF Farewell, In, Turn
<1>7. ASSUME NEW c \in Sockets, StartEditing(c) PROVE LockInv'
  <2>1. RoomsType'
    BY <1>7, <1>0 DEF StartEditing, In
  <2>2. Holder(c, sock[c].room, sock[c].user)' /\ sock' = sock
    BY <1>7, <1>0 DEF StartEditing, In, Holder
  <2>. QED
    BY <1>7, <1>0, <2>1, <2>2 DEF StartEditing, LockInv, Holder
<1>8. ASSUME NEW c \in Sockets, StopEditing(c) PROVE LockInv'
  BY <1>8, <1>0 DEF StopEditing, In, Released, LockInv, Holder
<1>9. ASSUME NEW c \in Sockets, Published(c) PROVE LockInv'
  BY <1>9, <1>0, LocksKept DEF Published
<1>10. ASSUME NEW c \in Sockets, Say(c) PROVE LockInv'
  BY <1>10, <1>0, LocksKept DEF Say, Tell, In, Turn
<1>11. ASSUME NEW c \in Sockets, Token(c) \/ Reply(c) PROVE LockInv'
  <2>1. PICK phase \in {"said", "answered"} :
           sock' = [sock EXCEPT ![c].phase = phase] /\ lock' = lock
    BY <1>11 DEF Token, Reply, Tell, Turn
  <2>2. sock[c] # None /\ sock[c].phase = "reply" /\ phase \in Phases
    BY <1>11 DEF Token, Reply, In
  <2>. QED
    BY <2>1, <2>2, <1>0, LocksKept
<1>12. ASSUME NEW c \in Sockets, Mirror(c) PROVE LockInv'
  BY <1>12, <1>0, LocksKept DEF Mirror, In, Turn
<1>13. ASSUME NEW c \in Sockets, ReplyFails(c) PROVE LockInv'
  <2>. DEFINE open == [sock EXCEPT ![c].phase = "open"]
  <2>1. /\ open \in [Sockets -> Socket \cup {None}]
        /\ open[c] = [sock[c] EXCEPT !.phase = "open"]
        /\ \A b \in Sockets \ {c} : open[b] = sock[b]
    BY <1>13, <1>0 DEF ReplyFails, In
  <2>2. sock' = [open EXCEPT ![c].up = FALSE] /\ lock' = lock
    BY <1>13 DEF ReplyFails
  <2>3. sock[c] \in Socket
    BY <1>13, <1>0 DEF ReplyFails, In
  <2>4. open[c] \in Socket
    BY <2>1, <2>3
  <2> HIDE DEF open
  <2>5. sock'[c] = [open[c] EXCEPT !.up = FALSE] /\ \A b \in Sockets \ {c} : sock'[b] = sock[b]
    BY <2>1, <2>2
  <2>6. /\ sock'[c] \in Socket /\ sock'[c].phase = "open"
        /\ sock'[c].room = sock[c].room /\ sock'[c].user = sock[c].user
    BY <2>1, <2>3, <2>4, <2>5
  <2>7. RoomsType'
    BY <1>0, <2>1, <2>2, <2>6
  <2>. QED
    BY <2>2, <2>5, <2>6, <2>7, <1>0, LocksKept
<1>14. ASSUME NEW h \in Sockets \cup {Listener}, Send(h) \/ Sent(h) PROVE LockInv'
  BY <1>14, <1>0, LocksKept DEF Send, Sent
<1>15. ASSUME Take \/ ListenerStops \/ HubTake PROVE LockInv'
  BY <1>15, <1>0, LocksKept DEF Take, ListenerStops, HubTake, sockets
<1>16. ASSUME NEW s \in Streams, Unregister(s) \/ \E r \in ChatRooms : Register(s, r) PROVE LockInv'
  BY <1>16, <1>0, LocksKept DEF Unregister, Register, sockets
<1>. QED
  BY <1>1, <1>2, <1>3, <1>4, <1>5, <1>6, <1>7, <1>8, <1>9, <1>10, <1>11, <1>12, <1>13, <1>14,
     <1>15, <1>16 DEF Next, RoomsNext, SharedNext, vars

\* "Always clean up on disconnect, error, or normal close" (document.py:150), for any number of
\* users, sockets and documents: whoever holds a document's lock still has a socket
\* of it open, so a lock is never left without a handler that will release it.
THEOREM LocksAreReleased == Spec => []LockHolderPresent
<1>1. LockInv => LockHolderPresent
  BY DEF LockInv, LockHolderPresent, Holder
<1>. QED
  BY RoomsStart, RoomsStep, <1>1, PTL DEF Spec

-----------------------------------------------------------------------------
(* Event streams.                                                          *)

IsOpen(s) == stream[s] \notin {None, Deleted}
Carried(n) == \E i \in 1..Len(wire) : wire[i] = n

StreamsType ==
    /\ stream \in [Streams -> {None, Deleted} \cup StreamRow]
    /\ queues = {s \in Streams : IsOpen(s)}
    /\ events \in Seq(Rooms) /\ Len(events) <= MaxEvents
    /\ wire \in Seq(1..Len(events))
    /\ got \in [Streams -> [1..MaxEvents -> Nat]]

(* An event is on the wire once, and only with Redis; a stream that was    *)
(* never opened, and an event that is still to come, have no deliveries.   *)
WireInv ==
    /\ redis \/ wire = <<>>
    /\ \A i, j \in 1..Len(wire) : wire[i] = wire[j] => i = j
    /\ \A s \in Streams, n \in 1..MaxEvents :
          stream[s] = None \/ n > Len(events) => got[s][n] = 0

(* While the event is on the wire, its second delivery is still to come.   *)
HeardOf(s, n) ==
    IF events[n] # stream[s].room THEN got[s][n] = 0
    ELSE n > stream[s].from =>
           got[s][n] >= 1 /\ got[s][n] <= IF redis /\ ~Carried(n) THEN 2 ELSE 1

StreamsInv ==
    /\ LockInv /\ StreamsType /\ WireInv
    /\ \A s \in Streams, n \in 1..Len(events) : IsOpen(s) => HeardOf(s, n)

LEMMA StreamsStart == Init => StreamsInv
<1> SUFFICES ASSUME Init PROVE StreamsInv
  OBVIOUS
<1> USE RoomsAssumptions
<1>1. /\ stream = [s \in Streams |-> None] /\ queues = {} /\ events = <<>> /\ wire = <<>>
      /\ got = [s \in Streams |-> [n \in 1..MaxEvents |-> 0]]
  BY DEF Init, RoomsInit
<1>2. StreamsType
  BY <1>1 DEF StreamsType, IsOpen
<1>. QED
  BY <1>1, <1>2, RoomsStart DEF StreamsInv, WireInv

LEMMA PublishKeeps ==
    ASSUME StreamsInv, LockInv', UNCHANGED redis, NEW r \in Rooms, Publish(r)
    PROVE  StreamsInv'
<1> DEFINE m == Len(events) + 1
<1>0. StreamsType /\ WireInv /\ MaxEvents \in Nat
  BY RoomsAssumptions DEF StreamsInv
<1>1. /\ Len(events) < MaxEvents /\ events' = Append(events, r)
      /\ wire' = IF redis THEN Append(wire, Len(events')) ELSE wire
      /\ UNCHANGED <<stream, queues>>
  BY DEF Publish
<1>2. /\ events' \in Seq(Rooms) /\ Len(events') = m /\ events'[m] = r /\ m \in 1..MaxEvents
      /\ \A n \in 1..Len(events) : events'[n] = events[n]
  BY <1>0, <1>1 DEF StreamsType
<1>3. /\ wire' \in Seq(1..m)
      /\ \A i \in 1..Len(wire) : wire[i] \in 1..Len(events) /\ wire'[i] = wire[i]
      /\ Len(wire') = IF redis THEN Len(wire) + 1 ELSE Len(wire)
      /\ redis => wire'[Len(wire) + 1] = m
  <2>1. wire \in Seq(1..m) /\ \A i \in 1..Len(wire) : wire[i] \in 1..Len(events)
    BY <1>0 DEF StreamsType
  <2>2. CASE redis
    <3>1. wire' = Append(wire, m) /\ m \in 1..m
      BY <2>2, <1>0, <1>1, <1>2 DEF StreamsType
    <3>. QED
      BY <2>1, <2>2, <3>1, AppendProperties
  <2>. QED
    BY <1>1, <2>1, <2>2
<1>a. Len(wire) \in Nat /\ Len(events) \in Nat /\ m \in Nat /\ m > Len(events)
  BY <1>0 DEF StreamsType
<1>4. ASSUME NEW n \in 1..Len(events), Carried(n)' PROVE Carried(n)
  <2>1. PICK i \in 1..Len(wire') : wire'[i] = n
    BY <1>4 DEF Carried
  <2>2. i \in 1..Len(wire)
    BY <2>1, <1>3, <1>a
  <2>. QED
    BY <2>1, <2>2, <1>3 DEF Carried
<1>5. ASSUME NEW n \in 1..Len(events), Carried(n) PROVE Carried(n)'
  <2>1. PICK i \in 1..Len(wire) : wire[i] = n
    BY <1>5 DEF Carried
  <2>2. i \in 1..Len(wire')
    BY <1>3, <1>a
  <2>. QED
    BY <2>1, <2>2, <1>3 DEF Carried
<1>6. ASSUME NEW s \in Streams, NEW n \in 1..MaxEvents
      PROVE  got'[s][n] = IF n = m THEN got[s][n] + Heard(s, r) ELSE got[s][n]
  <2>1. got' = [v \in Streams |-> [got[v] EXCEPT ![m] = @ + Heard(v, r)]]
    BY <1>2 DEF Publish, Delivered
  <2>. QED
    BY <2>1, <1>0, <1>2 DEF StreamsType
<1>7. got' \in [Streams -> [1..MaxEvents -> Nat]]
  <2>1. \A s \in Streams : Heard(s, r) \in Nat
    BY DEF Heard
  <2>. QED
    BY <2>1, <1>2, <1>0 DEF Publish, Delivered, StreamsType
<1>8. StreamsType'
  BY <1>0, <1>1, <1>2, <1>3, <1>7 DEF StreamsType, IsOpen
<1>9. WireInv'
  <2>1. redis' \/ wire' = <<>>
    BY <1>0, <1>1 DEF WireInv
  <2>2. \A i, j \in 1..Len(wire') : wire'[i] = wire'[j] => i = j
    <3>1. \A i, j \in 1..Len(wire) : wire[i] = wire[j] => i = j
      BY <1>0 DEF WireInv
    <3>2. \A i \in 1..Len(wire') :
            \/ i \in 1..Len(wire) /\ wire'[i] = wire[i] /\ wire'[i] # m
            \/ i = Len(wire) + 1 /\ wire'[i] = m
      BY <1>3, <1>a
    <3>. QED
      BY <3>1, <3>2
  <2>3. \A s \in Streams : stream[s] = None => Heard(s, r) = 0
    BY <1>0 DEF Heard, StreamsType, IsOpen
  <2>4. \A s \in Streams, n \in 1..MaxEvents :
          stream'[s] = None \/ n > Len(events') => got'[s][n] = 0
    <3>1. \A s \in Streams, n \in 1..MaxEvents :
            stream[s] = None \/ n > Len(events) => got[s][n] = 0
      BY <1>0 DEF WireInv
    <3>. QED
      BY <2>3, <3>1, <1>a, <1>1, <1>2, <1>6
  <2>. QED
    BY <2>1, <2>2, <2>4 DEF WireInv
<1>10. ASSUME NEW s \in Streams, NEW n \in 1..m, IsOpen(s)' PROVE HeardOf(s, n)'
  <2>1. IsOpen(s) /\ s \in queues
    BY <1>10, <1>0, <1>1 DEF IsOpen, StreamsType
  <2>2. CASE n = m
    <3>1. got'[s][m] = Heard(s, r)
      <4>1. got[s][m] = 0
        BY <1>0, <1>2, <1>a DEF WireInv
      <4>. QED
        BY <4>1, <1>2, <1>6 DEF Heard
    <3>. QED
      BY <2>1, <2>2, <3>1, <1>1, <1>2 DEF HeardOf, Heard
  <2>3. CASE n # m
    <3>1. n \in 1..Len(events) /\ got'[s][n] = got[s][n]
      <4>1. n \in 1..Len(events) /\ n \in 1..MaxEvents
        BY <2>3, <1>0, <1>1, <1>a
      <4>. QED
        BY <4>1, <2>3, <1>6
    <3>2. HeardOf(s, n)
      BY <2>1, <3>1 DEF StreamsInv
    <3>. QED
      BY <3>1, <3>2, <1>1, <1>2, <1>4, <1>5 DEF HeardOf
  <2>. QED
    BY <2>2, <2>3
<1>. QED
  BY <1>2, <1>8, <1>9, <1>10 DEF StreamsInv

LEMMA HubTakeKeeps == ASSUME StreamsInv, LockInv', HubTake PROVE StreamsInv'
<1>m. PICK m : m = Head(wire)
  OBVIOUS
<1>0. StreamsType /\ WireInv /\ MaxEvents \in Nat
  BY RoomsAssumptions DEF StreamsInv
<1>1. /\ wire # <<>> /\ wire' = Tail(wire) /\ redis' = redis
      /\ UNCHANGED <<stream, queues, events>>
  BY DEF HubTake, elsewhere
<1>2. /\ redis /\ m = wire[1] /\ m \in 1..Len(events) /\ m \in 1..MaxEvents
      /\ Len(wire') = Len(wire) - 1 /\ Len(wire) >= 1
      /\ \A i \in 1..Len(wire) - 1 : wire'[i] = wire[i + 1]
  BY <1>m, <1>0, <1>1 DEF WireInv, StreamsType
<1>3. wire' \in Seq(1..Len(events))
  BY <1>0, <1>1 DEF StreamsType
<1>a. Len(wire) \in Nat /\ Len(events) \in Nat
  BY <1>0 DEF StreamsType
<1>b. \A i, j \in 1..Len(wire) : wire[i] = wire[j] => i = j
  BY <1>0 DEF WireInv
<1>4. ASSUME NEW n, Carried(n)' PROVE n # m /\ Carried(n)
  <2>1. PICK i \in 1..Len(wire') : wire'[i] = n
    BY <1>4 DEF Carried
  <2>2. i \in 1..Len(wire) - 1 /\ i + 1 \in 1..Len(wire) /\ wire[i + 1] = n /\ i + 1 # 1
    BY <2>1, <1>2, <1>a
  <2>3. 1 \in 1..Len(wire)
    BY <1>2, <1>a
  <2>. QED
    BY <2>2, <2>3, <1>b, <1>2 DEF Carried
<1>5. ASSUME NEW n \in 1..Len(events), n # m, Carried(n) PROVE Carried(n)'
  <2>1. PICK i \in 1..Len(wire) : wire[i] = n
    BY <1>5 DEF Carried
  <2>2. i # 1 /\ i - 1 \in 1..Len(wire) - 1 /\ (i - 1) + 1 = i
    BY <1>5, <2>1, <1>2, <1>a
  <2>3. wire'[i - 1] = n /\ i - 1 \in 1..Len(wire')
    BY <2>1, <2>2, <1>2
  <2>. QED
    BY <2>3 DEF Carried
<1>6. /\ got' \in [Streams -> [1..MaxEvents -> Nat]]
      /\ \A s \in Streams, n \in 1..MaxEvents :
           got'[s][n] \in {got[s][n], IF n = m THEN got[s][n] + Heard(s, events[m]) ELSE got[s][n]}
  <2>1. CASE UNCHANGED got
    BY <2>1, <1>0 DEF StreamsType
  <2>2. CASE got' = Delivered(m, events[m])
    <3>1. got' = [v \in Streams |-> [got[v] EXCEPT ![m] = @ + Heard(v, events[m])]]
      BY <2>2 DEF Delivered
    <3>2. \A s \in Streams : Heard(s, events[m]) \in Nat
      BY DEF Heard
    <3>3. got \in [Streams -> [1..MaxEvents -> Nat]]
      BY <1>0 DEF StreamsType
    <3>4. ASSUME NEW s \in Streams
          PROVE  /\ got'[s] \in [1..MaxEvents -> Nat]
                 /\ \A n \in 1..MaxEvents :
                      got'[s][n] = IF n = m THEN got[s][n] + Heard(s, events[m]) ELSE got[s][n]
      <4>1. got'[s] = [got[s] EXCEPT ![m] = @ + Heard(s, events[m])]
        BY <3>1
      <4>2. got[s] \in [1..MaxEvents -> Nat] /\ Heard(s, events[m]) \in Nat /\ m \in 1..MaxEvents
        BY <3>2, <3>3, <1>2
      <4>. QED
        <5> DEFINE f == got[s]
                   h == Heard(s, events[m])
        <5>1. f \in [1..MaxEvents -> Nat] /\ h \in Nat /\ m \in 1..MaxEvents
          BY <4>2
        <5> HIDE DEF f, h
        <5>2. /\ [f EXCEPT ![m] = @ + h] \in [1..MaxEvents -> Nat]
              /\ \A n \in 1..MaxEvents :
                   [f EXCEPT ![m] = @ + h][n] = IF n = m THEN f[n] + h ELSE f[n]
          BY <5>1
        <5>. QED
          BY <4>1, <5>2 DEF f, h
    <3>. QED
      BY <3>1, <3>4
  <2>. QED
    BY <1>m, <2>1, <2>2 DEF HubTake
<1>7. StreamsType'
  BY <1>0, <1>1, <1>3, <1>6 DEF StreamsType, IsOpen
<1>8. WireInv'
  <2>1. \A i, j \in 1..Len(wire') : wire'[i] = wire'[j] => i = j
    <3>1. \A i \in 1..Len(wire') : i \in Nat /\ i + 1 \in 1..Len(wire) /\ wire'[i] = wire[i + 1]
      BY <1>2, <1>a
    <3>. QED
      BY <3>1, <1>b
  <2>2. \A s \in Streams : stream[s] = None => Heard(s, events[m]) = 0
    BY <1>0 DEF Heard, StreamsType, IsOpen
  <2>3. \A s \in Streams, n \in 1..MaxEvents :
          stream'[s] = None \/ n > Len(events') => got'[s][n] = 0
    BY <2>2, <1>0, <1>1, <1>2, <1>6 DEF WireInv, StreamsType
  <2>. QED
    BY <1>1, <1>2, <2>1, <2>3 DEF WireInv
<1>9. ASSUME NEW s \in Streams, NEW n \in 1..Len(events), IsOpen(s)' PROVE HeardOf(s, n)'
  <2>1. IsOpen(s) /\ s \in queues
    BY <1>9, <1>0, <1>1 DEF IsOpen, StreamsType
  <2>2. HeardOf(s, n) /\ n \in 1..MaxEvents /\ got[s][n] \in Nat
    BY <2>1, <1>0 DEF StreamsInv, StreamsType
  <2>3. CASE n = m
    <3>1. Carried(m)
      BY <1>2, <1>0 DEF Carried, StreamsType
    <3>2. got'[s][m] \in {got[s][m], got[s][m] + Heard(s, events[m])}
      BY <2>2, <2>3, <1>6
    <3>3. Heard(s, events[m]) = IF stream[s].room = events[m] THEN 1 ELSE 0
      BY <2>1 DEF Heard
    <3>4. ~Carried(m)' /\ redis'
      BY <1>1, <1>2, <1>4
    <3>. QED
      <4>1. events' = events /\ stream' = stream
        BY <1>1
      <4>2. CASE events[n] # stream[s].room
        <5>1. got[s][n] = 0 /\ got'[s][n] = 0
          <6>1. got[s][n] = 0
            BY <4>2, <2>2 DEF HeardOf
          <6>2. Heard(s, events[m]) = 0
            BY <4>2, <2>3, <3>3
          <6>. QED
            BY <2>3, <3>2, <6>1, <6>2
        <5>. QED
          BY <4>1, <4>2, <5>1 DEF HeardOf
      <4>3. CASE events[n] = stream[s].room
        <5>1. n > stream[s].from => got[s][n] >= 1 /\ got[s][n] <= 1
          BY <4>3, <2>2, <2>3, <3>1 DEF HeardOf
        <5>2. n > stream[s].from => got'[s][n] >= 1 /\ got'[s][n] <= 2
          BY <5>1, <4>3, <2>2, <2>3, <3>2, <3>3
        <5>. QED
          BY <4>1, <4>3, <5>2, <2>3, <3>4 DEF HeardOf
      <4>. QED
        BY <4>2, <4>3
  <2>4. CASE n # m
    <3>1. got'[s][n] = got[s][n]
      BY <2>2, <2>4, <1>6
    <3>. QED
      BY <2>2, <2>4, <3>1, <1>1, <1>4, <1>5 DEF HeardOf
  <2>. QED
    BY <2>3, <2>4
<1>. QED
  BY <1>1, <1>7, <1>8, <1>9 DEF StreamsInv

LEMMA RegisterKeeps ==
    ASSUME StreamsInv, LockInv', NEW s \in Streams, NEW r \in ChatRooms, Register(s, r)
    PROVE  StreamsInv'
<1> DEFINE row == [room |-> r, from |-> Len(events)]
<1>0. StreamsType /\ WireInv /\ MaxEvents \in Nat
  BY RoomsAssumptions DEF StreamsInv
<1>1. /\ stream[s] = None /\ stream' = [stream EXCEPT ![s] = row]
      /\ queues' = queues \cup {s} /\ UNCHANGED <<redis, events, wire, got>>
  BY DEF Register, NextNew, elsewhere
<1>2. row \in StreamRow /\ row \notin {None, Deleted}
  BY <1>0, RoomsAssumptions DEF StreamRow, ChatRooms, StreamsType
<1>3. row.room = r /\ row.from = Len(events)
  OBVIOUS
<1> HIDE DEF row
<1>4. StreamsType'
  BY <1>0, <1>1, <1>2 DEF StreamsType, IsOpen
<1>5. WireInv'
  BY <1>0, <1>1, <1>2 DEF WireInv, StreamsType
<1>6. ASSUME NEW v \in Streams, NEW n \in 1..Len(events), IsOpen(v)' PROVE HeardOf(v, n)'
  <2>1. CASE v = s
    <3>1. stream'[v] = row /\ got'[v][n] = 0
      BY <2>1, <1>0, <1>1 DEF StreamsType, WireInv
    <3>. QED
      BY <3>1, <1>0, <1>3 DEF HeardOf, StreamsType
  <2>2. CASE v # s
    <3>1. stream'[v] = stream[v] /\ IsOpen(v)
      BY <2>2, <1>6, <1>0, <1>1 DEF StreamsType, IsOpen
    <3>. QED
      BY <3>1, <1>1 DEF StreamsInv, HeardOf, Carried
  <2>. QED
    BY <2>1, <2>2
<1>. QED
  BY <1>1, <1>4, <1>5, <1>6 DEF StreamsInv

LEMMA UnregisterKeeps ==
    ASSUME StreamsInv, LockInv', NEW s \in Streams, Unregister(s) PROVE StreamsInv'
<1>0. StreamsType /\ WireInv /\ Deleted # None
  BY AccountsAssumptions DEF StreamsInv
<1>1. /\ stream' = [stream EXCEPT ![s] = Deleted] /\ queues' = queues \ {s}
      /\ stream[s] # None /\ UNCHANGED <<redis, events, wire, got>>
  BY DEF Unregister, Kept, elsewhere
<1>2. \A v \in Streams : IsOpen(v)' => v # s /\ stream'[v] = stream[v] /\ IsOpen(v)
  BY <1>0, <1>1 DEF IsOpen, StreamsType
<1>3. StreamsType'
  BY <1>0, <1>1, <1>2 DEF StreamsType, IsOpen
<1>4. WireInv'
  BY <1>0, <1>1 DEF WireInv, StreamsType
<1>. QED
  BY <1>1, <1>2, <1>3, <1>4 DEF StreamsInv, HeardOf, Carried

LEMMA StreamsRest ==
    ASSUME StreamsInv, LockInv', UNCHANGED <<redis, hub>> PROVE StreamsInv'
<1>1. UNCHANGED <<redis, stream, queues, events, wire, got>>
  BY DEF hub
<1>2. StreamsType' /\ WireInv'
  BY <1>1 DEF StreamsInv, StreamsType, WireInv, IsOpen
<1>. QED
  BY <1>1, <1>2 DEF StreamsInv, HeardOf, Carried, IsOpen

LEMMA StreamsSteps == StreamsInv /\ [Next]_vars => StreamsInv'
<1> SUFFICES ASSUME StreamsInv, [Next]_vars PROVE StreamsInv'
  OBVIOUS
<1>0. LockInv'
  BY RoomsStep DEF StreamsInv
<1>1. CASE RoomsNext
  <2>1. ASSUME NEW c \in Sockets, Mirror(c) PROVE StreamsInv'
    <3>1. sock[c].room \in Rooms
      BY <2>1, RoomsAssumptions DEF Mirror, In, StreamsInv, LockInv, RoomsType, Socket
    <3>. QED
      BY <2>1, <3>1, <1>0, PublishKeeps DEF Mirror, elsewhere
  <2>2. ASSUME NEW c \in Sockets,
               \/ \E u \in Users, r \in Rooms : Connect(c, u, r)
               \/ Greet(c) \/ PeerLeaves(c) \/ Cleanup(c) \/ Farewell(c)
               \/ StartEditing(c) \/ StopEditing(c) \/ Published(c)
               \/ Say(c) \/ Token(c) \/ Reply(c) \/ ReplyFails(c)
        PROVE  UNCHANGED <<redis, hub>>
    BY <2>2 DEF Connect, Greet, PeerLeaves, Cleanup, Farewell, StartEditing, StopEditing,
       Published, Say, Token, Reply, Tell, ReplyFails, elsewhere
  <2>3. ASSUME NEW h, Send(h) \/ Sent(h) \/ Take \/ ListenerStops PROVE UNCHANGED <<redis, hub>>
    BY <2>3 DEF Send, Sent, Take, ListenerStops, elsewhere
  <2>. QED
    BY <1>0, <1>1, <2>1, <2>2, <2>3, HubTakeKeeps, RegisterKeeps, UnregisterKeeps, StreamsRest
    DEF RoomsNext
<1>2. ASSUME UNCHANGED rooms PROVE StreamsInv'
  BY <1>0, <1>2, StreamsRest DEF rooms
<1>. QED
  BY <1>1, <1>2 DEF Next, SharedNext, vars

\* "Deliver to local SSE clients" (chat_sse_hub.py:96), for any number of streams, events,
\* rooms and sockets: an open stream has got every event of its room published since it
\* was opened, once without Redis and at most twice with it, and no event of another.
THEOREM StreamsMissNothing == Spec => []StreamComplete
<1>1. StreamsInv => StreamComplete
  <2> SUFFICES ASSUME StreamsInv, NEW s \in Streams, IsOpen(s), NEW n \in 1..Len(events)
               PROVE  IF n > stream[s].from /\ events[n] = stream[s].room
                      THEN got[s][n] >= 1 /\ got[s][n] <= IF redis THEN 2 ELSE 1
                      ELSE events[n] # stream[s].room => got[s][n] = 0
    BY DEF StreamComplete, IsOpen
  <2>1. HeardOf(s, n) /\ got[s][n] \in Nat
    <3>1. n \in 1..MaxEvents
      BY RoomsAssumptions DEF StreamsInv, StreamsType
    <3>. QED
      BY <3>1 DEF StreamsInv, StreamsType
  <2>. QED
    BY <2>1 DEF HeardOf
<1>. QED
  BY StreamsStart, StreamsSteps, <1>1, PTL DEF Spec

-----------------------------------------------------------------------------
(* Workspaces: a document that is not on its way is on its list.           *)

Placing(p) == New(p) \/ txn[p].op = "link"
Reads(p) == txn[p].op = "reconcile"

Lists == UNION {[W -> SUBSET Docs] : W \in SUBSET Spaces}
PlaceTxn(op) ==
    [op : {op}, phase : {"insert", "attach", "link", "commit"}, on : {{}}, w : Spaces, d : Docs]
ReadTxn == [op : {"reconcile"}, phase : {"read"}, on : {{}}, raw : Lists]
WriteTxn == [op : {"reconcile"}, phase : {"write"}, on : {{}}, raw : Lists, kept : Lists]

TabsType ==
    /\ space \in [Spaces -> {None} \cup BOOLEAN]
    /\ listed \in [Spaces -> SUBSET Docs]
    /\ doc \in [Docs -> {None, Deleted} \cup Spaces]
    /\ \A p \in Procs : Placing(p) => txn[p] \in PlaceTxn(txn[p].op)
    /\ \A p \in Procs : Reads(p) => txn[p] \in ReadTxn \cup WriteTxn

HomesInv ==
    /\ \A d \in Docs : Exists(d) => space[doc[d]] # None
    /\ \A p \in Procs : Placing(p) => space[txn[p].w] # None
    /\ \A p \in Procs : New(p) =>
          /\ txn[p].phase = "insert" => doc[txn[p].d] = None
          /\ doc[txn[p].d] = None => txn[p].phase = "insert"
          /\ \A q \in Procs : New(q) /\ txn[q].d = txn[p].d => q = p
    /\ \A p \in Procs : txn[p].op = "link" /\ txn[p].phase # "attach" =>
          doc[txn[p].d] \notin {None, Deleted}

ListsInv ==
    /\ \A w \in Spaces : \A d \in listed[w] : doc[d] # None
    /\ \A p \in Procs : Reads(p) => \A w \in DOMAIN txn[p].raw : \A d \in txn[p].raw[w] :
          /\ doc[d] # None
          /\ txn[p].phase = "write" /\ d \notin txn[p].kept[w] => doc[d] = Deleted
    /\ \A p \in Procs : Reads(p) /\ txn[p].phase = "write" =>
          /\ DOMAIN txn[p].kept = DOMAIN txn[p].raw
          /\ \A w \in DOMAIN txn[p].raw : txn[p].kept[w] \subseteq txn[p].raw[w]

Belongs(w, d) ==
    \/ /\ doc[d] = w
       /\ \A q \in Procs : New(q) /\ txn[q].phase = "link" => <<txn[q].w, txn[q].d>> # <<w, d>>
    \/ \E q \in Procs : At(q, "link", "commit") /\ <<txn[q].w, txn[q].d>> = <<w, d>>

OnList(w, d) ==
    /\ d \in listed[w]
    /\ \A q \in Procs : Reads(q) /\ w \in DOMAIN txn[q].raw => d \in txn[q].raw[w]

TabsInv == \A w \in Spaces, d \in Docs : Belongs(w, d) /\ <<w, d>> \notin drift => OnList(w, d)

SpaceInv == RequestsInv /\ TabsType /\ HomesInv /\ ListsInv /\ TabsInv

LEMMA SpaceStarts == Init => SpaceInv
<1> SUFFICES ASSUME Init PROVE SpaceInv
  OBVIOUS
<1>1. /\ txn = [p \in Procs |-> Idle]
      /\ \A w \in Spaces : space[w] \in {TRUE, None}
      /\ space = [w \in Spaces |-> space[w]]
      /\ listed = [w \in Spaces |-> {}] /\ doc = [d \in Docs |-> None]
  BY DEF Init, HandlersInit, WorkspacesInit
<1>2. \A p \in Procs : ~New(p) /\ ~Placing(p) /\ ~Reads(p) /\ txn[p].op # "link"
  BY <1>1 DEF New, Placing, Reads, Idle
<1>3. \A d \in Docs : ~Exists(d) /\ doc[d] \notin Spaces
  BY <1>1, WorkspacesAssumptions DEF Exists
<1>4. TabsType
  BY <1>1, <1>2 DEF TabsType
<1>5. HomesInv
  BY <1>2, <1>3 DEF HomesInv
<1>6. ListsInv
  BY <1>1, <1>2 DEF ListsInv
<1>7. TabsInv
  BY <1>2, <1>3 DEF TabsInv, Belongs, At
<1>. QED
  BY <1>4, <1>5, <1>6, <1>7, RequestsStart DEF SpaceInv

(* Steps of the handlers of other components.                              *)
LEMMA SpacesRest ==
    ASSUME SpaceInv, RequestsInv', UNCHANGED workspaces,
           \A q \in Procs : {txn[q].op, txn'[q].op} \cap SpaceOps # {} => txn'[q] = txn[q]
    PROVE  SpaceInv'
<1>1. /\ UNCHANGED <<space, listed, doc, drift>>
      /\ \A q \in Procs :
            /\ Placing(q)' => Placing(q) /\ txn'[q] = txn[q]
            /\ New(q)' => New(q) /\ txn'[q] = txn[q]
            /\ New(q) => New(q)' /\ txn'[q] = txn[q]
            /\ txn'[q].op = "link" => txn'[q] = txn[q]
            /\ Reads(q)' => Reads(q) /\ txn'[q] = txn[q]
  BY DEF workspaces, Placing, New, Reads, SpaceOps
<1>2. TabsType'
  BY <1>1 DEF SpaceInv, TabsType
<1>3. HomesInv'
  BY <1>1 DEF SpaceInv, HomesInv, Exists
<1>4. ListsInv'
  BY <1>1 DEF SpaceInv, ListsInv
<1>5. \A w \in Spaces, d \in Docs : Belongs(w, d)' => Belongs(w, d)
  BY <1>1 DEF Belongs, At
<1>6. TabsInv'
  BY <1>1, <1>5 DEF SpaceInv, TabsInv, OnList
<1>. QED
  BY <1>2, <1>3, <1>4, <1>6 DEF SpaceInv

(* What a handler of a workspace becomes.                                  *)
Becomes(p, t) == \A q \in Procs : txn'[q] = IF q = p THEN t ELSE txn[q]
LEMMA Turned ==
    ASSUME RequestsInv, NEW p \in Procs, NEW t, Start(p, t) \/ Goto(p, t) PROVE Becomes(p, t)
BY DEF Start, Goto, RequestsInv, Becomes

LEMMA ReadingStarts ==
    ASSUME SpaceInv, RequestsInv', NEW p \in Procs, NEW W \in SUBSET Spaces,
           Start(p, Reading(W, listed)), UNCHANGED workspaces
    PROVE  SpaceInv'
<1> DEFINE t == Reading(W, listed)
<1>0. RequestsInv /\ TabsType /\ HomesInv /\ ListsInv /\ TabsInv
  BY DEF SpaceInv
<1>1. Becomes(p, t) /\ txn[p].op = "idle" /\ UNCHANGED <<space, listed, doc, drift>>
  <2>1. Becomes(p, t)
    BY <1>0, Turned
  <2>. QED
    BY <2>1 DEF Start, Free, Idle, workspaces
<1>2. /\ t \in ReadTxn /\ t.op = "reconcile" /\ t.phase = "read"
      /\ DOMAIN t.raw = W /\ \A w \in W : t.raw[w] = listed[w]
  BY <1>0 DEF Reading, ReadTxn, TabsType, Lists
<1> HIDE DEF t
<1>3. \A q \in Procs :
         /\ Placing(q)' => q # p /\ Placing(q) /\ txn'[q] = txn[q]
         /\ New(q)' => q # p /\ New(q) /\ txn'[q] = txn[q]
         /\ New(q) => q # p /\ txn'[q] = txn[q] /\ New(q)'
         /\ txn'[q].op = "link" => q # p /\ txn'[q] = txn[q]
         /\ Reads(q)' /\ q # p => Reads(q) /\ txn'[q] = txn[q]
  BY <1>1, <1>2 DEF Placing, New, Reads, Becomes
<1>4. TabsType'
  BY <1>0, <1>1, <1>2, <1>3 DEF TabsType, Becomes
<1>5. HomesInv'
  BY <1>0, <1>1, <1>3 DEF HomesInv, Exists
<1>6. ListsInv'
  <2>1. ASSUME NEW q \in Procs, Reads(q)', NEW w \in DOMAIN txn'[q].raw, NEW d \in txn'[q].raw[w]
        PROVE  doc'[d] # None
    BY <2>1, <1>0, <1>1, <1>2, <1>3 DEF ListsInv, Becomes
  <2>2. ASSUME NEW q \in Procs, Reads(q)', txn'[q].phase = "write"
        PROVE  Reads(q) /\ txn'[q] = txn[q]
    BY <2>2, <1>1, <1>2, <1>3 DEF Becomes
  <2>. QED
    BY <2>1, <2>2, <1>0, <1>1 DEF ListsInv
<1>7. \A w \in Spaces, d \in Docs : Belongs(w, d)' => Belongs(w, d)
  BY <1>1, <1>3 DEF Belongs, At
<1>8. TabsInv'
  BY <1>0, <1>1, <1>2, <1>3, <1>7 DEF TabsInv, OnList, Becomes
<1>. QED
  BY <1>4, <1>5, <1>6, <1>8 DEF SpaceInv

LEMMA CreateKeeps ==
    ASSUME SpaceInv, RequestsInv', NEW p \in Procs, NEW v \in Spaces, NEW D \in SUBSET Docs,
           CreateWorkspace(p, v, D)
    PROVE  SpaceInv'
<1> DEFINE t == Reading({v}, listed')
<1>0. RequestsInv /\ TabsType /\ HomesInv /\ ListsInv /\ TabsInv
  BY DEF SpaceInv
<1>1. /\ Start(p, t) /\ space[v] = None /\ \A d \in D : doc[d] # None
      /\ space' = [space EXCEPT ![v] = TRUE] /\ listed' = [listed EXCEPT ![v] = D]
      /\ UNCHANGED <<doc, drift>>
  BY DEF CreateWorkspace
<1>2. Becomes(p, t) /\ txn[p].op = "idle"
  <2>1. Becomes(p, t)
    BY <1>0, <1>1, Turned
  <2>2. txn[p] = Idle
    BY <1>1 DEF Start, Free
  <2>. QED
    BY <2>1, <2>2 DEF Idle
<1>3. /\ listed' \in [Spaces -> SUBSET Docs] /\ listed'[v] = D
      /\ \A w \in Spaces \ {v} : listed'[w] = listed[w]
      /\ space' \in [Spaces -> {None} \cup BOOLEAN] /\ space'[v] # None
      /\ \A w \in Spaces \ {v} : space'[w] = space[w]
  BY <1>0, <1>1, WorkspacesAssumptions DEF TabsType
<1>4. /\ t \in ReadTxn /\ t.op = "reconcile" /\ t.phase = "read"
      /\ DOMAIN t.raw = {v} /\ t.raw[v] = D
  <2>1. {v} \in SUBSET Spaces /\ t.raw \in [{v} -> SUBSET Docs]
    BY <1>3 DEF Reading
  <2>2. t.raw \in Lists
    BY <2>1 DEF Lists
  <2>. QED
    BY <1>3, <2>2 DEF Reading, ReadTxn
<1> HIDE DEF t
<1>5. \A q \in Procs :
         /\ Placing(q)' => q # p /\ Placing(q) /\ txn'[q] = txn[q] /\ txn[q].w # v
         /\ New(q)' => q # p /\ New(q) /\ txn'[q] = txn[q]
         /\ New(q) => q # p /\ txn'[q] = txn[q] /\ New(q)'
         /\ txn'[q].op = "link" => q # p /\ txn'[q] = txn[q]
         /\ Reads(q)' /\ q # p => Reads(q) /\ txn'[q] = txn[q]
  BY <1>0, <1>1, <1>2, <1>4 DEF Placing, New, Reads, HomesInv, Becomes
<1>6. TabsType'
  BY <1>0, <1>1, <1>2, <1>3, <1>4, <1>5 DEF TabsType, Becomes
<1>7. HomesInv'
  <2>1. \A d \in Docs : Exists(d)' => space'[doc'[d]] # None
    BY <1>0, <1>1, <1>3 DEF HomesInv, Exists, TabsType
  <2>2. \A q \in Procs : Placing(q)' => space'[txn'[q].w] # None
    <3>1. \A q \in Procs : Placing(q) => txn[q].w \in Spaces /\ space[txn[q].w] # None
      BY <1>0 DEF HomesInv, TabsType, PlaceTxn
    <3>. QED
      BY <3>1, <1>3, <1>5
  <2>. QED
    BY <2>1, <2>2, <1>0, <1>1, <1>5 DEF HomesInv, Exists
<1>8. ListsInv'
  <2>1. ASSUME NEW q \in Procs, Reads(q)', NEW w \in DOMAIN txn'[q].raw, NEW d \in txn'[q].raw[w]
        PROVE  doc'[d] # None
    BY <2>1, <1>0, <1>1, <1>2, <1>4, <1>5 DEF ListsInv, Becomes
  <2>2. ASSUME NEW q \in Procs, Reads(q)', txn'[q].phase = "write"
        PROVE  Reads(q) /\ txn'[q] = txn[q]
    BY <2>2, <1>2, <1>4, <1>5 DEF Becomes
  <2>3. \A w \in Spaces : \A d \in listed'[w] : doc'[d] # None
    BY <1>0, <1>1, <1>3 DEF ListsInv
  <2>. QED
    BY <2>1, <2>2, <2>3, <1>0, <1>1 DEF ListsInv
<1>9. ASSUME NEW w \in Spaces, NEW d \in Docs, Belongs(w, d)' PROVE Belongs(w, d) /\ w # v
  <2>1. Belongs(w, d)
    BY <1>9, <1>1, <1>5 DEF Belongs, At
  <2>2. Exists(d) /\ doc[d] = w => w # v
    BY <1>0, <1>1 DEF HomesInv
  <2>3. doc[d] = w => Exists(d)
    BY WorkspacesAssumptions DEF Exists
  <2>. QED
    BY <2>1, <2>2, <2>3, <1>0, <1>1 DEF Belongs, At, HomesInv, Placing
<1>10. TabsInv'
  BY <1>0, <1>1, <1>2, <1>3, <1>4, <1>5, <1>9 DEF TabsInv, OnList, Becomes
<1>. QED
  BY <1>6, <1>7, <1>8, <1>10 DEF SpaceInv

LEMMA PlacingStarts ==
    ASSUME SpaceInv, RequestsInv', NEW p \in Procs, NEW v \in Spaces, NEW e \in Docs,
           NEW op \in {"upload", "create", "import", "link"}, NEW phase \in {"insert", "attach"},
           phase = "insert" <=> op # "link", op # "link" => Unmade(e),
           Begin(p, v, Place(op, phase, v, e))
    PROVE  SpaceInv'
<1> DEFINE t == Place(op, phase, v, e)
<1>0. RequestsInv /\ TabsType /\ HomesInv /\ ListsInv /\ TabsInv
  BY DEF SpaceInv
<1>1. /\ Becomes(p, t) /\ txn[p].op = "idle" /\ space[v] # None
      /\ UNCHANGED <<space, listed, doc, drift>>
  <2>1. Start(p, t)
    BY DEF Begin
  <2>2. Becomes(p, t)
    BY <1>0, <2>1, Turned
  <2>. QED
    BY <2>1, <2>2 DEF Start, Free, Idle, workspaces, Begin
<1>2. t \in PlaceTxn(op) /\ t.op = op /\ t.phase = phase /\ t.w = v /\ t.d = e
  BY DEF Place, PlaceTxn
<1> HIDE DEF t
<1>3. \A q \in Procs :
         /\ Placing(q)' /\ q # p => Placing(q) /\ txn'[q] = txn[q]
         /\ New(q)' /\ q # p => New(q) /\ txn'[q] = txn[q]
         /\ New(q) => q # p /\ txn'[q] = txn[q] /\ New(q)'
         /\ txn'[q].op = "link" /\ q # p => txn'[q] = txn[q]
         /\ Reads(q)' => q # p /\ Reads(q) /\ txn'[q] = txn[q]
  BY <1>1, <1>2 DEF Placing, New, Reads, Becomes
<1>4. New(p)' => phase = "insert" /\ doc[e] = None /\ \A q \in Procs : New(q) => txn[q].d # e
  BY <1>1, <1>2 DEF New, Unmade, Making, Becomes
<1>5. TabsType'
  <2>1. Placing(p)' => txn'[p] \in PlaceTxn(txn'[p].op)
    BY <1>1, <1>2 DEF Becomes
  <2>. QED
    BY <2>1, <1>0, <1>1, <1>3 DEF TabsType
<1>6. HomesInv'
  <2>1. \A q \in Procs : Placing(q)' => space'[txn'[q].w] # None
    BY <1>0, <1>1, <1>2, <1>3 DEF HomesInv, Becomes
  <2>2. ASSUME NEW q \in Procs, New(q)'
        PROVE  /\ txn'[q].phase = "insert" => doc'[txn'[q].d] = None
               /\ doc'[txn'[q].d] = None => txn'[q].phase = "insert"
               /\ \A r \in Procs : New(r)' /\ txn'[r].d = txn'[q].d => r = q
    BY <2>2, <1>0, <1>1, <1>2, <1>3, <1>4 DEF HomesInv, Becomes
  <2>3. \A q \in Procs : txn'[q].op = "link" /\ txn'[q].phase # "attach" =>
          doc'[txn'[q].d] \notin {None, Deleted}
    BY <1>0, <1>1, <1>2, <1>3 DEF HomesInv, Becomes, Exists
  <2>. QED
    BY <2>1, <2>2, <2>3, <1>0, <1>1 DEF HomesInv, Exists
<1>7. ListsInv'
  BY <1>0, <1>1, <1>3 DEF ListsInv
<1>8. \A w \in Spaces, d \in Docs : Belongs(w, d)' => Belongs(w, d)
  BY <1>1, <1>2, <1>3 DEF Belongs, At, Becomes
<1>9. TabsInv'
  BY <1>0, <1>1, <1>3, <1>8 DEF TabsInv, OnList
<1>. QED
  BY <1>5, <1>6, <1>7, <1>9 DEF SpaceInv

LEMMA ReconcileReadKeeps ==
    ASSUME SpaceInv, RequestsInv', NEW p \in Procs, ReconcileRead(p) PROVE SpaceInv'
<1> DEFINE raw == txn[p].raw
           kept == [w \in DOMAIN raw |-> raw[w] \cap Valid(UNION {raw[k] : k \in DOMAIN raw})]
           t == [op |-> "reconcile", phase |-> "write", on |-> {}, raw |-> raw, kept |-> kept]
<1>0. RequestsInv /\ TabsType /\ HomesInv /\ ListsInv /\ TabsInv
  BY DEF SpaceInv
<1>1. Goto(p, t) /\ Reads(p) /\ txn[p].phase = "read" /\ UNCHANGED <<space, listed, doc, drift>>
  BY DEF ReconcileRead, At, Reads, workspaces
<1>2. Becomes(p, t)
  BY <1>0, <1>1, Turned
<1>3. raw \in Lists
  BY <1>0, <1>1 DEF TabsType, ReadTxn, WriteTxn
<1>4. PICK W \in SUBSET Spaces : raw \in [W -> SUBSET Docs]
  BY <1>3 DEF Lists
<1> HIDE DEF raw
<1>5. /\ kept \in Lists /\ DOMAIN kept = DOMAIN raw
      /\ \A w \in DOMAIN raw : kept[w] = {d \in raw[w] : Exists(d)}
  BY <1>4 DEF Valid, Lists
<1> HIDE DEF kept
<1>6. t \in WriteTxn /\ t.op = "reconcile" /\ t.phase = "write" /\ t.raw = raw /\ t.kept = kept
  BY <1>3, <1>5 DEF WriteTxn
<1> HIDE DEF t
<1>7. \A q \in Procs :
         /\ Placing(q)' => q # p /\ Placing(q) /\ txn'[q] = txn[q]
         /\ New(q)' => q # p /\ New(q) /\ txn'[q] = txn[q]
         /\ New(q) => q # p /\ txn'[q] = txn[q] /\ New(q)'
         /\ txn'[q].op = "link" => q # p /\ txn'[q] = txn[q]
         /\ Reads(q)' /\ q # p => Reads(q) /\ txn'[q] = txn[q]
  BY <1>1, <1>2, <1>6 DEF Placing, New, Reads, Becomes
<1>8. TabsType'
  BY <1>0, <1>1, <1>2, <1>6, <1>7 DEF TabsType, Becomes
<1>9. HomesInv'
  BY <1>0, <1>1, <1>7 DEF HomesInv, Exists
<1>10. ListsInv'
  <2>1. \A w \in DOMAIN raw : \A d \in raw[w] :
           doc[d] # None /\ (d \notin kept[w] => doc[d] = Deleted)
    BY <1>0, <1>1, <1>5 DEF ListsInv, Exists, raw
  <2>2. txn'[p].raw = raw /\ txn'[p].kept = kept
    BY <1>2, <1>6 DEF Becomes
  <2>. QED
    BY <2>1, <2>2, <1>0, <1>1, <1>5, <1>7 DEF ListsInv
<1>11. \A w \in Spaces, d \in Docs : Belongs(w, d)' => Belongs(w, d)
  BY <1>1, <1>7 DEF Belongs, At
<1>12. ASSUME NEW w \in Spaces, NEW d \in Docs, OnList(w, d) PROVE OnList(w, d)'
  BY <1>12, <1>1, <1>2, <1>6, <1>7 DEF OnList, Becomes, raw
<1>13. TabsInv'
  BY <1>0, <1>1, <1>11, <1>12 DEF TabsInv
<1>. QED
  BY <1>8, <1>9, <1>10, <1>13 DEF SpaceInv

LEMMA ReconcileWriteKeeps ==
    ASSUME SpaceInv, RequestsInv', NEW p \in Procs, NEW v \in Changed(p), Reads(p),
           txn[p].phase = "write", listed' = [listed EXCEPT ![v] = txn[p].kept[v]],
           Goto(p, [txn[p] EXCEPT !.raw[v] = txn[p].kept[v]]), UNCHANGED <<space, doc, drift>>
    PROVE  SpaceInv'
<1> DEFINE s == txn[p]
           raw == s.raw
           kept == s.kept
           now == [raw EXCEPT ![v] = kept[v]]
           t == [s EXCEPT !.raw = now]
<1>0. RequestsInv /\ TabsType /\ HomesInv /\ ListsInv /\ TabsInv
  BY DEF SpaceInv
<1>1. s \in WriteTxn
  BY <1>0 DEF TabsType, ReadTxn
<1>2. Goto(p, t)
  OBVIOUS
<1>3. Becomes(p, t)
  BY <1>0, <1>2, Turned
<1>4. raw \in Lists /\ kept \in Lists /\ DOMAIN kept = DOMAIN raw /\ v \in DOMAIN raw
  BY <1>0, <1>1 DEF WriteTxn, ListsInv, Changed
<1>5. PICK W \in SUBSET Spaces : raw \in [W -> SUBSET Docs]
  BY <1>4 DEF Lists
<1>6. v \in Spaces /\ kept \in [W -> SUBSET Docs]
  BY <1>4, <1>5 DEF Lists
<1>7. \A w \in DOMAIN raw : /\ kept[w] \subseteq raw[w]
                            /\ \A d \in raw[w] :
                                 doc[d] # None /\ (d \notin kept[w] => doc[d] = Deleted)
  BY <1>0 DEF ListsInv
<1>8. \A w \in Spaces, d \in Docs : OnList(w, d) /\ w \in DOMAIN raw => d \in raw[w]
  BY DEF OnList
<1>a. s.op = "reconcile" /\ s.phase = "write"
  BY DEF Reads
<1> HIDE DEF s
<1>b. /\ t.op = "reconcile" /\ t.phase = "write" /\ t.raw = now /\ t.kept = kept
      /\ (now \in Lists => t \in WriteTxn)
  BY <1>1, <1>a DEF WriteTxn
<1> HIDE DEF raw, kept, t
<1>9. /\ now \in [W -> SUBSET Docs] /\ DOMAIN now = DOMAIN raw /\ now[v] = kept[v]
      /\ \A w \in DOMAIN raw \ {v} : now[w] = raw[w]
  BY <1>4, <1>5, <1>6
<1> HIDE DEF now
<1>10. t \in WriteTxn
  BY <1>b, <1>9 DEF Lists
<1>11. /\ listed' \in [Spaces -> SUBSET Docs] /\ listed'[v] = kept[v]
       /\ \A w \in Spaces \ {v} : listed'[w] = listed[w]
  BY <1>0, <1>4, <1>5, <1>6 DEF TabsType, kept, s
<1>12. \A q \in Procs :
         /\ Placing(q)' => q # p /\ Placing(q) /\ txn'[q] = txn[q]
         /\ New(q)' => q # p /\ New(q) /\ txn'[q] = txn[q]
         /\ New(q) => q # p /\ txn'[q] = txn[q] /\ New(q)'
         /\ txn'[q].op = "link" => q # p /\ txn'[q] = txn[q]
         /\ Reads(q)' /\ q # p => Reads(q) /\ txn'[q] = txn[q]
         /\ q = p => txn'[q] = t
  BY <1>3, <1>a, <1>b DEF Placing, New, Reads, Becomes, s
<1>13. TabsType'
  BY <1>0, <1>10, <1>11, <1>12 DEF TabsType
<1>14. HomesInv'
  BY <1>0, <1>12 DEF HomesInv, Exists
<1>15. ListsInv'
  <2>1. \A w \in Spaces : \A d \in listed'[w] : doc'[d] # None
    BY <1>0, <1>4, <1>7, <1>11 DEF ListsInv
  <2>2. \A w \in DOMAIN now : /\ kept[w] \subseteq now[w]
                              /\ \A d \in now[w] :
                                   doc[d] # None /\ (d \notin kept[w] => doc[d] = Deleted)
    BY <1>7, <1>9
  <2>. QED
    BY <2>1, <2>2, <1>0, <1>4, <1>9, <1>12, <1>b DEF ListsInv
<1>16. ASSUME NEW w \in Spaces, NEW d \in Docs, Belongs(w, d)'
       PROVE  Belongs(w, d) /\ doc[d] # Deleted
  <2>1. Belongs(w, d)
    BY <1>16, <1>12 DEF Belongs, At
  <2>2. doc[d] = w => doc[d] # Deleted
    BY WorkspacesAssumptions
  <2>3. \A q \in Procs : At(q, "link", "commit") /\ txn[q].d = d => doc[d] # Deleted
    BY <1>0 DEF At, HomesInv, Exists
  <2>. QED
    BY <2>1, <2>2, <2>3 DEF Belongs
<1>17. ASSUME NEW w \in Spaces, NEW d \in Docs, OnList(w, d), doc[d] # Deleted PROVE OnList(w, d)'
  <2>1. w \in DOMAIN raw => d \in raw[w] /\ d \in kept[w]
    BY <1>17, <1>7, <1>8
  <2>2. d \in listed'[w]
    BY <1>17, <2>1, <1>4, <1>11 DEF OnList
  <2>3. w \in DOMAIN now => d \in now[w]
    BY <2>1, <1>9
  <2>. QED
    BY <1>17, <2>2, <2>3, <1>12, <1>b DEF OnList
<1>18. TabsInv'
  BY <1>0, <1>16, <1>17 DEF TabsInv
<1>. QED
  BY <1>13, <1>14, <1>15, <1>18 DEF SpaceInv

(* A handler that ends, with nothing written.                              *)
LEMMA EndsKeep ==
    ASSUME SpaceInv, RequestsInv', NEW p \in Procs, Done(p), UNCHANGED <<space, listed, doc>>,
           drift \subseteq drift',
           New(p) /\ txn[p].phase = "link" => <<txn[p].w, txn[p].d>> \in drift'
    PROVE  SpaceInv'
<1>0. RequestsInv /\ TabsType /\ HomesInv /\ ListsInv /\ TabsInv
  BY DEF SpaceInv
<1>1. Becomes(p, Idle)
  BY <1>0, Turned DEF Done
<1>2. \A q \in Procs :
         /\ Placing(q)' => q # p /\ Placing(q) /\ txn'[q] = txn[q]
         /\ New(q)' => q # p /\ New(q) /\ txn'[q] = txn[q]
         /\ New(q) /\ q # p => txn'[q] = txn[q] /\ New(q)'
         /\ txn'[q].op = "link" => q # p /\ txn'[q] = txn[q]
         /\ Reads(q)' => q # p /\ Reads(q) /\ txn'[q] = txn[q]
  BY <1>1 DEF Placing, New, Reads, Becomes, Idle
<1>3. TabsType'
  BY <1>0, <1>2 DEF TabsType
<1>4. HomesInv'
  BY <1>0, <1>2 DEF HomesInv, Exists
<1>5. ListsInv'
  BY <1>0, <1>2 DEF ListsInv
<1>6. \A w \in Spaces, d \in Docs : Belongs(w, d)' => Belongs(w, d) \/ <<w, d>> \in drift'
  BY <1>2 DEF Belongs, At
<1>7. TabsInv'
  BY <1>0, <1>2, <1>6 DEF TabsInv, OnList
<1>. QED
  BY <1>3, <1>4, <1>5, <1>7 DEF SpaceInv

LEMMA InsertKeeps ==
    ASSUME SpaceInv, RequestsInv', NEW p \in Procs, InsertDocument(p) PROVE SpaceInv'
<1> DEFINE s == txn[p]
           t == [s EXCEPT !.phase = "link"]
<1>0. RequestsInv /\ TabsType /\ HomesInv /\ ListsInv /\ TabsInv
  BY DEF SpaceInv
<1>1. /\ New(p) /\ Placing(p) /\ s.phase = "insert" /\ Goto(p, t)
      /\ doc' = [doc EXCEPT ![s.d] = s.w] /\ UNCHANGED <<space, listed, drift>>
  BY DEF InsertDocument, Placing
<1>2. Becomes(p, t)
  BY <1>0, <1>1, Turned
<1>3. s \in PlaceTxn(s.op)
  BY <1>0, <1>1 DEF TabsType
<1>4. s.op \in {"upload", "create", "import"} /\ s.op # "link" /\ s.op # "reconcile"
  BY <1>1 DEF New
<1>5. doc[s.d] = None /\ space[s.w] # None /\ \A q \in Procs : New(q) /\ txn[q].d = s.d => q = p
  BY <1>0, <1>1 DEF HomesInv
<1> HIDE DEF s
<1>6. /\ t \in PlaceTxn(t.op) /\ t.op = s.op /\ t.phase = "link" /\ t.w = s.w /\ t.d = s.d
      /\ s.w \in Spaces /\ s.d \in Docs
  BY <1>3 DEF PlaceTxn
<1> HIDE DEF t
<1>7. \A q \in Procs :
         /\ Placing(q)' => Placing(q) /\ (q # p => txn'[q] = txn[q])
         /\ New(q)' => New(q) /\ (q # p => txn'[q] = txn[q])
         /\ New(q) => New(q)'
         /\ txn'[q].op = "link" => q # p /\ txn'[q] = txn[q]
         /\ Reads(q)' => q # p /\ Reads(q) /\ txn'[q] = txn[q]
         /\ q = p => txn'[q] = t
  BY <1>2, <1>4, <1>6 DEF Placing, New, Reads, Becomes, s
<1>8. /\ doc' \in [Docs -> {None, Deleted} \cup Spaces] /\ doc'[s.d] = s.w
      /\ s.w \notin {None, Deleted} /\ \A d \in Docs \ {s.d} : doc'[d] = doc[d]
  BY <1>0, <1>1, <1>6, WorkspacesAssumptions DEF TabsType
<1>9. TabsType'
  BY <1>0, <1>1, <1>6, <1>7, <1>8 DEF TabsType
<1>10. HomesInv'
  <2>1. \A d \in Docs : Exists(d)' => space'[doc'[d]] # None
    BY <1>0, <1>1, <1>5, <1>8 DEF HomesInv, Exists
  <2>2. \A q \in Procs : Placing(q)' => space'[txn'[q].w] # None
    BY <1>0, <1>1, <1>5, <1>6, <1>7 DEF HomesInv
  <2>3. ASSUME NEW q \in Procs, New(q)'
        PROVE  /\ txn'[q].phase = "insert" => doc'[txn'[q].d] = None
               /\ doc'[txn'[q].d] = None => txn'[q].phase = "insert"
               /\ \A r \in Procs : New(r)' /\ txn'[r].d = txn'[q].d => r = q
    <3>1. CASE q = p
      BY <2>3, <3>1, <1>5, <1>6, <1>7, <1>8
    <3>2. CASE q # p
      <4>1. /\ txn'[q] = txn[q] /\ New(q) /\ txn[q].d # s.d /\ txn[q].d \in Docs
            /\ txn[q].phase = "insert" => doc[txn[q].d] = None
            /\ doc[txn[q].d] = None => txn[q].phase = "insert"
            /\ \A r \in Procs : New(r) /\ txn[r].d = txn[q].d => r = q
        BY <2>3, <3>2, <1>0, <1>5, <1>7 DEF HomesInv, TabsType, Placing, PlaceTxn
      <4>. QED
        BY <3>2, <4>1, <1>6, <1>7, <1>8
    <3>. QED
      BY <3>1, <3>2
  <2>4. \A q \in Procs : txn'[q].op = "link" /\ txn'[q].phase # "attach" =>
          doc'[txn'[q].d] \notin {None, Deleted}
    <3>1. \A q \in Procs : txn[q].op = "link" => txn[q].d \in Docs
      BY <1>0 DEF TabsType, Placing, PlaceTxn
    <3>. QED
      BY <3>1, <1>0, <1>7, <1>8 DEF HomesInv, Exists
  <2>. QED
    BY <2>1, <2>2, <2>3, <2>4 DEF HomesInv
<1>11. ListsInv'
  <2>1. \A w \in Spaces : listed[w] \subseteq Docs
    BY <1>0 DEF TabsType
  <2>2. \A q \in Procs : Reads(q) => \A w \in DOMAIN txn[q].raw : txn[q].raw[w] \subseteq Docs
    BY <1>0 DEF TabsType, ReadTxn, WriteTxn, Lists
  <2>3. \A d \in Docs : (doc[d] # None => doc'[d] = doc[d])
    BY <1>5, <1>8
  <2>4. \A w \in Spaces : \A d \in listed'[w] : doc'[d] # None
    BY <2>1, <2>3, <1>0, <1>1 DEF ListsInv
  <2>5. ASSUME NEW q \in Procs, Reads(q)', NEW w \in DOMAIN txn'[q].raw, NEW d \in txn'[q].raw[w]
        PROVE  /\ doc'[d] # None
               /\ txn'[q].phase = "write" /\ d \notin txn'[q].kept[w] => doc'[d] = Deleted
    BY <2>5, <2>2, <2>3, <1>0, <1>7 DEF ListsInv
  <2>. QED
    BY <2>4, <2>5, <1>0, <1>7 DEF ListsInv
<1>12. ASSUME NEW w \in Spaces, NEW d \in Docs, Belongs(w, d)' PROVE Belongs(w, d)
  <2>1. CASE d = s.d
    <3>1. doc'[d] # w \/ <<t.w, t.d>> = <<w, d>>
      BY <2>1, <1>6, <1>8
    <3>2. New(p)' /\ txn'[p] = t /\ t.phase = "link"
      BY <1>1, <1>6, <1>7
    <3>. QED
      BY <3>1, <3>2, <1>12, <1>7 DEF Belongs, At
  <2>2. CASE d # s.d
    BY <2>2, <1>12, <1>6, <1>7, <1>8 DEF Belongs, At, s
  <2>. QED
    BY <2>1, <2>2
<1>13. TabsInv'
  BY <1>0, <1>1, <1>7, <1>12 DEF TabsInv, OnList
<1>. QED
  BY <1>9, <1>10, <1>11, <1>13 DEF SpaceInv

LEMMA AttachKeeps ==
    ASSUME SpaceInv, RequestsInv', NEW p \in Procs, Attach(p), Exists(txn[p].d) PROVE SpaceInv'
<1> DEFINE s == txn[p]
           t == [s EXCEPT !.phase = "link"]
<1>0. RequestsInv /\ TabsType /\ HomesInv /\ ListsInv /\ TabsInv
  BY DEF SpaceInv
<1>1. /\ Placing(p) /\ s.op = "link" /\ Goto(p, t) /\ UNCHANGED <<space, listed, doc, drift>>
  BY DEF Attach, At, Placing, workspaces
<1>2. Becomes(p, t)
  BY <1>0, <1>1, Turned
<1>3. s \in PlaceTxn("link") /\ space[s.w] # None /\ Exists(s.d)
  BY <1>0, <1>1 DEF TabsType, HomesInv
<1> HIDE DEF s
<1>4. t \in PlaceTxn(t.op) /\ t.op = "link" /\ t.phase = "link" /\ t.w = s.w /\ t.d = s.d
  BY <1>1, <1>3 DEF PlaceTxn
<1> HIDE DEF t
<1>5. \A q \in Procs :
         /\ Placing(q)' => Placing(q) /\ (q # p => txn'[q] = txn[q])
         /\ New(q)' => q # p /\ New(q) /\ txn'[q] = txn[q]
         /\ New(q) => New(q)' /\ txn'[q] = txn[q]
         /\ txn'[q].op = "link" /\ q # p => txn'[q] = txn[q]
         /\ Reads(q)' => q # p /\ Reads(q) /\ txn'[q] = txn[q]
         /\ q = p => txn'[q] = t
  BY <1>1, <1>2, <1>4 DEF Placing, New, Reads, Becomes, s
<1>6. TabsType'
  BY <1>0, <1>1, <1>4, <1>5 DEF TabsType
<1>7. HomesInv'
  <2>1. \A q \in Procs : txn'[q].op = "link" /\ txn'[q].phase # "attach" =>
          doc'[txn'[q].d] \notin {None, Deleted}
    BY <1>0, <1>1, <1>3, <1>4, <1>5 DEF HomesInv, Exists
  <2>2. \A q \in Procs : Placing(q)' => space'[txn'[q].w] # None
    BY <1>0, <1>1, <1>3, <1>4, <1>5 DEF HomesInv
  <2>. QED
    BY <2>1, <2>2, <1>0, <1>1, <1>5 DEF HomesInv, Exists
<1>8. ListsInv'
  BY <1>0, <1>1, <1>5 DEF ListsInv
<1>9. \A w \in Spaces, d \in Docs : Belongs(w, d)' => Belongs(w, d)
  BY <1>1, <1>4, <1>5 DEF Belongs, At
<1>10. TabsInv'
  BY <1>0, <1>1, <1>5, <1>9 DEF TabsInv, OnList
<1>. QED
  BY <1>6, <1>7, <1>8, <1>10 DEF SpaceInv

LEMMA LinkKeeps ==
    ASSUME SpaceInv, RequestsInv', NEW p \in Procs, Link(p) PROVE SpaceInv'
<1> DEFINE s == txn[p]
           t == IF New(p) THEN Idle ELSE [s EXCEPT !.phase = "commit"]
<1>0. RequestsInv /\ TabsType /\ HomesInv /\ ListsInv /\ TabsInv
  BY DEF SpaceInv
<1>1. /\ s.phase = "link" /\ Goto(p, t) /\ listed' = [listed EXCEPT ![s.w] = @ \cup {s.d}]
      /\ drift' = IF Stale(s.w, s.d) THEN drift \cup {<<s.w, s.d>>} ELSE drift \ {<<s.w, s.d>>}
      /\ UNCHANGED <<space, doc>>
  BY DEF Link, Linked, Done
<1>2. Becomes(p, t)
  BY <1>0, <1>1, Turned
<1>3. Placing(p) /\ s.op \in {"upload", "create", "import", "link"}
  <2>1. s.op \in SpaceOps
    BY <1>0, <1>1 DEF RequestsInv, Shape
  <2>2. s.op # "reconcile"
    BY <1>0, <1>1 DEF TabsType, Reads, ReadTxn, WriteTxn
  <2>. QED
    BY <2>1, <2>2 DEF SpaceOps, Placing, New
<1>4. /\ s \in PlaceTxn(s.op) /\ s.w \in Spaces /\ s.d \in Docs
      /\ space[s.w] # None /\ doc[s.d] # None /\ (s.op = "link" => Exists(s.d))
  <2>1. s \in PlaceTxn(s.op) /\ space[s.w] # None
    BY <1>0, <1>3 DEF TabsType, HomesInv
  <2>2. s.op # "link" => New(p)
    BY <1>3 DEF New
  <2>. QED
    BY <2>1, <2>2, <1>0, <1>1 DEF HomesInv, PlaceTxn, Exists
<1>5. New(p) <=> s.op # "link"
  BY <1>3 DEF New
<1> HIDE DEF s
<1>6. \/ /\ t \in PlaceTxn("link") /\ t.op = "link" /\ t.phase = "commit" /\ t.w = s.w /\ t.d = s.d
         /\ s.op = "link"
      \/ t.op = "idle"
  BY <1>4, <1>5 DEF PlaceTxn, Idle
<1> HIDE DEF t
<1>7. \A q \in Procs :
         /\ Placing(q)' => Placing(q) /\ (q # p => txn'[q] = txn[q])
         /\ New(q)' => q # p /\ New(q) /\ txn'[q] = txn[q]
         /\ New(q) /\ q # p => New(q)' /\ txn'[q] = txn[q]
         /\ txn'[q].op = "link" /\ q # p => txn'[q] = txn[q]
         /\ Reads(q)' => q # p /\ Reads(q) /\ txn'[q] = txn[q]
         /\ q = p => txn'[q] = t
  BY <1>2, <1>3, <1>6 DEF Placing, New, Reads, Becomes, s
<1>8. /\ listed' \in [Spaces -> SUBSET Docs] /\ listed'[s.w] = listed[s.w] \cup {s.d}
      /\ \A w \in Spaces \ {s.w} : listed'[w] = listed[w]
  BY <1>0, <1>1, <1>4 DEF TabsType
<1>9. TabsType'
  BY <1>0, <1>1, <1>6, <1>7, <1>8 DEF TabsType, Placing, New
<1>10. HomesInv'
  <2>1. \A q \in Procs : txn'[q].op = "link" /\ txn'[q].phase # "attach" =>
          doc'[txn'[q].d] \notin {None, Deleted}
    BY <1>0, <1>1, <1>4, <1>6, <1>7 DEF HomesInv, Exists
  <2>2. \A q \in Procs : Placing(q)' => space'[txn'[q].w] # None
    BY <1>0, <1>1, <1>4, <1>6, <1>7 DEF HomesInv, Placing, New
  <2>. QED
    BY <2>1, <2>2, <1>0, <1>1, <1>7 DEF HomesInv, Exists
<1>11. ListsInv'
  <2>1. \A w \in Spaces : \A d \in listed'[w] : doc'[d] # None
    BY <1>0, <1>1, <1>4, <1>8 DEF ListsInv
  <2>. QED
    BY <2>1, <1>0, <1>1, <1>7 DEF ListsInv
<1>12. ASSUME NEW w \in Spaces, NEW d \in Docs, Belongs(w, d)', <<w, d>> # <<s.w, s.d>>
       PROVE  Belongs(w, d)
  BY <1>12, <1>1, <1>6, <1>7 DEF Belongs, At, s
<1>13. ASSUME NEW w \in Spaces, NEW d \in Docs, Belongs(w, d)', <<w, d>> \notin drift'
       PROVE  OnList(w, d)'
  <2>1. CASE <<w, d>> = <<s.w, s.d>>
    <3>1. ~Stale(w, d)
      BY <2>1, <1>13, <1>1
    <3>. QED
      BY <2>1, <3>1, <1>7, <1>8 DEF Stale, OnList, Reads
  <2>2. CASE <<w, d>> # <<s.w, s.d>>
    <3>1. <<w, d>> \notin drift
      BY <2>2, <1>13, <1>1
    <3>2. OnList(w, d)
      BY <2>2, <3>1, <1>0, <1>12, <1>13 DEF TabsInv
    <3>. QED
      BY <3>2, <1>7, <1>8 DEF OnList
  <2>. QED
    BY <2>1, <2>2
<1>14. TabsInv'
  BY <1>13 DEF TabsInv
<1>. QED
  BY <1>9, <1>10, <1>11, <1>14 DEF SpaceInv

LEMMA LinkCommitKeeps ==
    ASSUME SpaceInv, RequestsInv', NEW p \in Procs, LinkCommit(p) PROVE SpaceInv'
<1> DEFINE s == txn[p]
<1>0. RequestsInv /\ TabsType /\ HomesInv /\ ListsInv /\ TabsInv
  BY DEF SpaceInv
<1>1. /\ At(p, "link", "commit") /\ Done(p) /\ doc' = [doc EXCEPT ![s.d] = s.w]
      /\ UNCHANGED <<space, listed, drift>>
  BY DEF LinkCommit
<1>2. Becomes(p, Idle)
  BY <1>0, <1>1, Turned DEF Done
<1>3. s \in PlaceTxn("link") /\ space[s.w] # None /\ Exists(s.d)
  BY <1>0, <1>1 DEF At, TabsType, HomesInv, Placing, Exists
<1>4. \A q \in Procs :
         /\ Placing(q)' => q # p /\ Placing(q) /\ txn'[q] = txn[q]
         /\ New(q)' => q # p /\ New(q) /\ txn'[q] = txn[q]
         /\ New(q) => txn'[q] = txn[q] /\ New(q)'
         /\ txn'[q].op = "link" => q # p /\ txn'[q] = txn[q]
         /\ Reads(q)' => q # p /\ Reads(q) /\ txn'[q] = txn[q]
  BY <1>1, <1>2 DEF Placing, New, Reads, Becomes, Idle, At
<1>5. s.w \in Spaces /\ s.d \in Docs /\ s.w \notin {None, Deleted}
  BY <1>3, WorkspacesAssumptions DEF PlaceTxn
<1>6. Belongs(s.w, s.d)
  BY <1>1 DEF Belongs
<1> HIDE DEF s
<1>7. /\ doc' \in [Docs -> {None, Deleted} \cup Spaces] /\ doc'[s.d] = s.w
      /\ \A d \in Docs \ {s.d} : doc'[d] = doc[d]
  BY <1>0, <1>1, <1>5 DEF TabsType
<1>8. \A d \in Docs : /\ Exists(d) => Exists(d)'
                      /\ Exists(d)' => Exists(d)
                      /\ doc'[d] = None <=> doc[d] = None
                      /\ doc[d] = Deleted => doc'[d] = Deleted
  BY <1>3, <1>5, <1>7 DEF Exists
<1>9. TabsType'
  BY <1>0, <1>1, <1>4, <1>7 DEF TabsType
<1>10. HomesInv'
  <2>1. \A q \in Procs : Placing(q) => txn[q].d \in Docs
    BY <1>0 DEF TabsType, PlaceTxn
  <2>2. \A d \in Docs : Exists(d)' => space'[doc'[d]] # None
    BY <1>0, <1>1, <1>3, <1>7, <1>8 DEF HomesInv
  <2>3. \A q \in Procs : New(q)' =>
          /\ txn'[q].phase = "insert" => doc'[txn'[q].d] = None
          /\ doc'[txn'[q].d] = None => txn'[q].phase = "insert"
    BY <2>1, <1>0, <1>4, <1>8 DEF HomesInv, Placing
  <2>4. \A q \in Procs : txn'[q].op = "link" /\ txn'[q].phase # "attach" =>
          doc'[txn'[q].d] \notin {None, Deleted}
    BY <2>1, <1>0, <1>4, <1>8 DEF HomesInv, Placing, Exists
  <2>. QED
    BY <2>2, <2>3, <2>4, <1>0, <1>1, <1>4 DEF HomesInv
<1>11. ListsInv'
  <2>1. \A w \in Spaces : listed[w] \subseteq Docs
    BY <1>0 DEF TabsType
  <2>2. \A q \in Procs : Reads(q) => \A w \in DOMAIN txn[q].raw : txn[q].raw[w] \subseteq Docs
    BY <1>0 DEF TabsType, ReadTxn, WriteTxn, Lists
  <2>3. \A w \in Spaces : \A d \in listed'[w] : doc'[d] # None
    BY <2>1, <1>0, <1>1, <1>8 DEF ListsInv
  <2>4. ASSUME NEW q \in Procs, Reads(q)', NEW w \in DOMAIN txn'[q].raw, NEW d \in txn'[q].raw[w]
        PROVE  /\ doc'[d] # None
               /\ txn'[q].phase = "write" /\ d \notin txn'[q].kept[w] => doc'[d] = Deleted
    BY <2>4, <2>2, <1>0, <1>4, <1>8 DEF ListsInv
  <2>. QED
    BY <2>3, <2>4, <1>0, <1>4 DEF ListsInv
<1>12. ASSUME NEW w \in Spaces, NEW d \in Docs, Belongs(w, d)' PROVE Belongs(w, d)
  <2>1. CASE <<w, d>> = <<s.w, s.d>>
    BY <2>1, <1>6
  <2>2. CASE <<w, d>> # <<s.w, s.d>>
    BY <2>2, <1>12, <1>4, <1>5, <1>7 DEF Belongs, At
  <2>. QED
    BY <2>1, <2>2
<1>13. TabsInv'
  BY <1>0, <1>1, <1>4, <1>12 DEF TabsInv, OnList
<1>. QED
  BY <1>9, <1>10, <1>11, <1>13 DEF SpaceInv

LEMMA RemovalKeeps ==
    ASSUME SpaceInv, RequestsInv', UNCHANGED requests,
           \/ \E w \in Spaces : DeleteWorkspace(w)
           \/ \E d \in Docs : RemoveDocument(d)
    PROVE  SpaceInv'
<1>0. RequestsInv /\ TabsType /\ HomesInv /\ ListsInv /\ TabsInv /\ txn' = txn
  BY DEF SpaceInv, requests
<1>1. ASSUME NEW v \in Spaces, DeleteWorkspace(v) PROVE SpaceInv'
  <2>1. v \in Spaces /\ space' = [space EXCEPT ![v] = FALSE] /\ UNCHANGED <<listed, doc, drift>>
    BY <1>1 DEF DeleteWorkspace
  <2>2. /\ space' \in [Spaces -> {None} \cup BOOLEAN]
        /\ \A w \in Spaces : space[w] # None => space'[w] # None
    BY <2>1, <1>0, WorkspacesAssumptions DEF TabsType
  <2>3. \A d \in Docs : Exists(d) => doc[d] \in Spaces
    BY <1>0 DEF TabsType, Exists
  <2>4. \A q \in Procs : Placing(q) => txn[q].w \in Spaces
    BY <1>0 DEF TabsType, PlaceTxn
  <2>5. TabsType'
    BY <1>0, <2>1, <2>2 DEF TabsType, Placing, New, Reads
  <2>6. HomesInv'
    BY <1>0, <2>1, <2>2, <2>3, <2>4 DEF HomesInv, Exists, Placing, New
  <2>7. ListsInv' /\ TabsInv'
    BY <1>0, <2>1 DEF ListsInv, TabsInv, Belongs, OnList, Reads, New, At
  <2>. QED
    BY <2>5, <2>6, <2>7 DEF SpaceInv
<1>2. ASSUME NEW e \in Docs, RemoveDocument(e) PROVE SpaceInv'
  <2>1. /\ Exists(e) /\ ~Attaching(e) /\ doc' = [doc EXCEPT ![e] = Deleted]
        /\ UNCHANGED <<space, listed, drift>>
    BY <1>2 DEF RemoveDocument
  <2>2. /\ doc' \in [Docs -> {None, Deleted} \cup Spaces] /\ doc'[e] = Deleted
        /\ \A d \in Docs \ {e} : doc'[d] = doc[d]
    BY <2>1, <1>0 DEF TabsType
  <2>3. Deleted # None /\ Deleted \notin Spaces
    BY AccountsAssumptions, WorkspacesAssumptions
  <2>4. \A d \in Docs : /\ Exists(d)' => Exists(d) /\ d # e
                        /\ Exists(d) /\ d # e => Exists(d)'
                        /\ (doc'[d] = None <=> doc[d] = None)
                        /\ (doc[d] = Deleted => doc'[d] = Deleted)
    BY <2>1, <2>2, <2>3 DEF Exists
  <2>5. \A q \in Procs : /\ New(q)' <=> New(q)
                         /\ Placing(q)' <=> Placing(q)
                         /\ Reads(q)' <=> Reads(q)
                         /\ Placing(q) => txn[q].d \in Docs
    BY <1>0 DEF New, Placing, Reads, TabsType, PlaceTxn
  <2>6. TabsType'
    BY <1>0, <2>1, <2>2, <2>5 DEF TabsType
  <2>7. HomesInv'
    <3>1. \A d \in Docs : Exists(d)' => space'[doc'[d]] # None
      BY <1>0, <2>1, <2>2, <2>4 DEF HomesInv
    <3>2. \A q \in Procs : New(q)' =>
          /\ txn'[q].phase = "insert" => doc'[txn'[q].d] = None
          /\ doc'[txn'[q].d] = None => txn'[q].phase = "insert"
      BY <1>0, <2>4, <2>5 DEF HomesInv, Placing
    <3>3. \A q \in Procs : txn'[q].op = "link" /\ txn'[q].phase # "attach" =>
          doc'[txn'[q].d] \notin {None, Deleted}
      BY <1>0, <2>1, <2>4, <2>5 DEF HomesInv, Placing, Attaching
    <3>. QED
      BY <3>1, <3>2, <3>3, <1>0, <2>1, <2>5 DEF HomesInv
  <2>8. ListsInv'
    <3>1. \A w \in Spaces : listed[w] \subseteq Docs
      BY <1>0 DEF TabsType
    <3>2. \A q \in Procs : Reads(q) => \A w \in DOMAIN txn[q].raw : txn[q].raw[w] \subseteq Docs
      BY <1>0 DEF TabsType, ReadTxn, WriteTxn, Lists
    <3>3. \A w \in Spaces : \A d \in listed'[w] : doc'[d] # None
      BY <3>1, <1>0, <2>1, <2>4 DEF ListsInv
    <3>4. ASSUME NEW q \in Procs, Reads(q)', NEW w \in DOMAIN txn'[q].raw, NEW d \in txn'[q].raw[w]
          PROVE  /\ doc'[d] # None
                 /\ txn'[q].phase = "write" /\ d \notin txn'[q].kept[w] => doc'[d] = Deleted
      BY <3>4, <3>2, <1>0, <2>4, <2>5 DEF ListsInv
    <3>. QED
      BY <3>3, <3>4, <1>0, <2>5 DEF ListsInv
  <2>9. \A w \in Spaces, d \in Docs : Belongs(w, d)' => Belongs(w, d)
    BY <1>0, <2>2, <2>3, <2>5 DEF Belongs, At
  <2>10. TabsInv'
    BY <1>0, <2>1, <2>5, <2>9 DEF TabsInv, OnList
  <2>. QED
    BY <2>6, <2>7, <2>8, <2>10 DEF SpaceInv
<1>. QED
  BY <1>1, <1>2

LEMMA SpaceSteps == SpaceInv /\ [Next]_vars => SpaceInv'
<1> SUFFICES ASSUME SpaceInv, [Next]_vars PROVE SpaceInv'
  OBVIOUS
<1>0. RequestsInv /\ RequestsInv'
  BY RequestsInvariant DEF SpaceInv
<1>1. CASE WorkspacesNext
  <2>1. Active \subseteq Spaces
    BY DEF Active
  <2>2. ASSUME NEW p \in Procs, NEW w \in Spaces, RenameWorkspace(p, w) \/ ListWorkspaces(p)
        PROVE  SpaceInv'
    BY <2>1, <2>2, <1>0, ReadingStarts DEF RenameWorkspace, ListWorkspaces
  <2>3. ASSUME NEW p \in Procs, ListWorkspaces(p) PROVE SpaceInv'
    BY <2>1, <2>3, <1>0, ReadingStarts DEF ListWorkspaces
  <2>4. ASSUME NEW p \in Procs, NEW w \in Spaces, NEW D \in SUBSET Docs, CreateWorkspace(p, w, D)
        PROVE  SpaceInv'
    BY <2>4, <1>0, CreateKeeps
  <2>5. ASSUME NEW p \in Procs, NEW w \in Spaces, NEW d \in Docs,
               Upload(p, w, d) \/ Create(p, w, d) \/ Import(p, w, d) \/ LinkDocument(p, w, d)
        PROVE  SpaceInv'
    BY <2>5, <1>0, PlacingStarts DEF Upload, Create, Import, LinkDocument
  <2>6. ASSUME NEW p \in Procs, ReconcileWrite(p) PROVE SpaceInv'
    <3>1. Reads(p) /\ txn[p].phase = "write" /\ UNCHANGED <<space, doc, drift>>
      BY <2>6 DEF ReconcileWrite, At, Reads
    <3>2. CASE Done(p) /\ UNCHANGED listed
      BY <3>1, <3>2, <1>0, EndsKeep DEF Reads, New
    <3>3. ASSUME NEW w \in Changed(p), listed' = [listed EXCEPT ![w] = txn[p].kept[w]],
                 Goto(p, [txn[p] EXCEPT !.raw[w] = txn[p].kept[w]])
          PROVE  SpaceInv'
      BY <3>1, <3>3, <1>0, ReconcileWriteKeeps
    <3>. QED
      BY <2>6, <3>2, <3>3 DEF ReconcileWrite
  <2>7. ASSUME NEW p \in Procs, Attach(p) PROVE SpaceInv'
    <3>1. CASE ~Exists(txn[p].d)
      BY <2>7, <3>1, <1>0, EndsKeep DEF Attach, At, New, workspaces
    <3>. QED
      BY <2>7, <3>1, <1>0, AttachKeeps
  <2>8. ASSUME NEW p \in Procs, LinkFails(p) PROVE SpaceInv'
    BY <2>8, <1>0, EndsKeep DEF LinkFails
  <2>9. (\E w \in Spaces : DeleteWorkspace(w)) \/ (\E d \in Docs : RemoveDocument(d)) => SpaceInv'
    BY <1>0, RemovalKeeps DEF DeleteWorkspace, RemoveDocument, AtOnce
  <2>. QED
    BY <1>0, <1>1, <2>2, <2>3, <2>4, <2>5, <2>6, <2>7, <2>8, <2>9, ReconcileReadKeeps, InsertKeeps,
       LinkKeeps, LinkCommitKeeps
    DEF WorkspacesNext
<1>2. ASSUME UNCHANGED workspaces, NEW S, S \cap SpaceOps = {}, "idle" \notin SpaceOps, Only(S)
      PROVE  SpaceInv'
  BY <1>0, <1>2, RequestsKept, SpacesRest
<1>3. /\ \A S \in {AccountOps, TalkOps, BoardOps, ListOps, ProfileOps} : S \cap SpaceOps = {}
      /\ "idle" \notin SpaceOps
  BY DEF AccountOps, TalkOps, BoardOps, ListOps, ProfileOps, SpaceOps
<1>4. ASSUME UNCHANGED <<requests, workspaces>> PROVE SpaceInv'
  BY <1>0, <1>4, SpacesRest DEF requests
<1>. QED
  BY <1>0, <1>1, <1>2, <1>3, <1>4, Steps DEF vars

\* "appends its UUID to the MongoDB session's document_ids array"
\* (student_documents.py:609), for any number of workspaces, documents and handlers: a
\* document that nobody is moving is listed by the workspace it names, unless its last
\* link failed or fell between the two halves of a reconciliation.
THEOREM DocumentsStayListed == Spec => []TabsListed
<1>1. SpaceInv => TabsListed
  <2> SUFFICES ASSUME SpaceInv, NEW d \in Docs, Exists(d), ~Moving(d), <<doc[d], d>> \notin drift
               PROVE  d \in listed[doc[d]]
    BY DEF TabsListed
  <2>1. doc[d] \in Spaces
    BY DEF SpaceInv, TabsType, Exists
  <2>2. Belongs(doc[d], d)
    BY DEF Belongs, Moving
  <2>. QED
    BY <2>1, <2>2 DEF SpaceInv, TabsInv, OnList
<1>. QED
  BY SpaceStarts, SpaceSteps, <1>1, PTL DEF Spec

-----------------------------------------------------------------------------
(* Rooms: who is shown to be there.                                        *)

Senders == Sockets \cup {Listener}

OfRoom(c, r) == sock[c] # None /\ sock[c].room = r
Here(c, r) == OfRoom(c, r) /\ sock[c].phase \notin {"left", "closed"}
Due(c, r) == OfRoom(c, r) /\ sock[c].phase \in {"greet", "left"}
Who(r) == {u \in Users : entries[r][u] # None}

PresenceType ==
    /\ sending \in [Senders -> {None, Halted} \cup Cast]
    /\ shown \in [Sockets -> SUBSET Users]
    /\ entries \in [Rooms -> [Users -> {None} \cup Sockets]]
    /\ channel \in Seq(Message)

CastsInv ==
    /\ \A c \in Sockets : sending[c] # None =>
          /\ sending[c] \in Cast /\ OfRoom(c, sending[c].m.room)
          /\ sending[c].how = "publish" => redis
    /\ sending[Listener] \in Cast => sending[Listener].how = "send"
    /\ redis \/ (channel = <<>> /\ sending[Listener] = None)
    /\ \A h \in Senders : sending[h] \in Cast =>
          \A d \in sending[h].to : OfRoom(d[2], sending[h].m.room)
    /\ \A r \in Rooms, u \in Users : entries[r][u] # None => OfRoom(entries[r][u], r)
    /\ \A c \in Sockets : sock[c] # None /\ sock[c].phase = "left" => ~sock[c].up

Tells(r, h) == Busy(r, h) /\ sending[h].m.kind = "presence"
Queued(r, i) == channel[i].kind = "presence" /\ channel[i].room = r
Quiet(r) == \A c \in Sockets : ~Tells(r, c)
Empty(r) == \A i \in 1..Len(channel) : ~Queued(r, i)

Fresh(r, h) ==
    /\ sending[h].m.who = Who(r)
    /\ sending[h].how = "send" =>
         \A c \in Sockets : Here(c, r) =>
            shown[c] = Who(r) \/ \E u \in Users : <<u, c>> \in sending[h].to

Ill(r) == \E h \in Senders : Busy(r, h) /\ sending[h].how = "send" /\ sending[h].dead # {}
Announced(r) == \E c \in Sockets : Tells(r, c) /\ Fresh(r, c)
Latest(r) == \E i \in 1..Len(channel) : /\ Queued(r, i) /\ channel[i].who = Who(r)
                                         /\ \A j \in i + 1..Len(channel) : ~Queued(r, j)
Enqueued(r) == Quiet(r) /\ Latest(r)
Underway(r) == Quiet(r) /\ Empty(r) /\ Tells(r, Listener) /\ Fresh(r, Listener)
Seen(r) ==
    /\ Quiet(r) /\ Empty(r) /\ ~Tells(r, Listener)
    /\ \A c \in Sockets : Here(c, r) => shown[c] = Who(r)

InStep(r) ==
    \/ Ill(r) \/ \E c \in Sockets : Due(c, r)
    \/ Announced(r) \/ Enqueued(r) \/ Underway(r) \/ Seen(r)

RoomInv(r) ==
    /\ \A c, d \in Sockets : Busy(r, c) /\ Busy(r, d) => c = d
    /\ \A c \in Sockets : Busy(r, c) /\ sending[c].how = "send" => ~Waiting(r)
    /\ \A c \in Sockets : Here(c, r) => entries[r][sock[c].user] = c
    /\ InStep(r)

PresenceInv == PresenceType /\ CastsInv /\ \A r \in Rooms \ overlap : RoomInv(r)

LEMMA PresenceStarts == Init => PresenceInv
<1> SUFFICES ASSUME Init PROVE PresenceInv
  OBVIOUS
<1>1. /\ sock = [c \in Sockets |-> None] /\ shown = [c \in Sockets |-> {}]
      /\ entries = [r \in Rooms |-> [u \in Users |-> None]]
      /\ sending = [h \in Senders |-> None] /\ channel = <<>>
  BY DEF Init, RoomsInit, Senders
<1>2. Listener \in Senders
  BY DEF Senders
<1>3. \A r \in Rooms, h \in Senders : ~Busy(r, h)
  BY <1>1 DEF Busy
<1>4. \A r \in Rooms, c \in Sockets : ~Here(c, r) /\ ~Due(c, r)
  BY <1>1 DEF Here, Due, OfRoom
<1>5. PresenceType
  BY <1>1 DEF PresenceType
<1>6. CastsInv
  BY <1>1, <1>2, RoomsAssumptions DEF CastsInv, Senders
<1>7. ASSUME NEW r \in Rooms PROVE RoomInv(r)
  <2>1. Len(channel) = 0
    BY <1>1
  <2>2. Seen(r)
    BY <1>2, <1>3, <1>4, <2>1 DEF Seen, Quiet, Empty, Tells, Senders
  <2>. QED
    BY <2>2, <1>3, <1>4 DEF RoomInv, InStep, Senders
<1>. QED
  BY <1>5, <1>6, <1>7 DEF PresenceInv

(* What a step that does not concern a room keeps.                         *)
LEMMA RoomStays ==
    ASSUME NEW r \in Rooms, RoomInv(r), entries'[r] = entries[r],
           Empty(r) => Empty(r)', Latest(r) /\ Who(r)' = Who(r) => Latest(r)',
           Waiting(r)' => Waiting(r),
           \A h \in Senders : /\ Busy(r, h) => sending'[h] = sending[h]
                              /\ Busy(r, h)' => sending'[h] = sending[h],
           \A c \in Sockets : /\ Here(c, r)' => Here(c, r) /\ shown'[c] = shown[c]
                                                /\ sock'[c].user = sock[c].user
                              /\ Due(c, r) => Due(c, r)'
    PROVE  RoomInv(r)'
<1>0. \A c \in Sockets \cup {Listener} : c \in Senders
  BY DEF Senders
<1>1. Who(r)' = Who(r)
  BY DEF Who
<1>2. \A h \in Senders : /\ Busy(r, h) => Busy(r, h)'
                         /\ Busy(r, h)' => Busy(r, h)
                         /\ Tells(r, h) => Tells(r, h)'
                         /\ Tells(r, h)' => Tells(r, h)
  BY DEF Busy, Tells
<1>3. Quiet(r) => Quiet(r)'
  BY <1>0, <1>2 DEF Quiet
<1>4. \A h \in Senders : Tells(r, h) /\ Fresh(r, h) => Fresh(r, h)'
  BY <1>1, <1>2 DEF Fresh, Tells
<1>5. InStep(r)'
  <2>1. Ill(r) => Ill(r)'
    BY <1>2 DEF Ill
  <2>2. Announced(r) => Announced(r)'
    BY <1>0, <1>2, <1>4 DEF Announced
  <2>3. Enqueued(r) => Enqueued(r)'
    BY <1>1, <1>3 DEF Enqueued
  <2>4. Underway(r) => Underway(r)'
    BY <1>0, <1>2, <1>3, <1>4 DEF Underway
  <2>5. Seen(r) => Seen(r)'
    BY <1>0, <1>1, <1>2, <1>3 DEF Seen
  <2>. QED
    BY <2>1, <2>2, <2>3, <2>4, <2>5 DEF RoomInv, InStep
<1>. QED
  BY <1>0, <1>2, <1>5 DEF RoomInv

LEMMA RoomRests ==
    ASSUME NEW r \in Rooms, RoomInv(r), entries'[r] = entries[r], channel' = channel,
           \A h \in Senders : /\ Busy(r, h) => sending'[h] = sending[h]
                              /\ Busy(r, h)' => sending'[h] = sending[h],
           \A c \in Sockets : /\ Here(c, r)' => Here(c, r) /\ shown'[c] = shown[c]
                                                /\ sock'[c].user = sock[c].user
                              /\ Due(c, r) => Due(c, r)'
    PROVE  RoomInv(r)'
<1>1. (Empty(r) => Empty(r)') /\ (Latest(r) /\ Who(r)' = Who(r) => Latest(r)')
  BY DEF Empty, Latest, Queued
<1>2. Waiting(r)' => Waiting(r)
  BY DEF Waiting, Busy, Senders
<1>. QED
  BY <1>1, <1>2, RoomStays

(* The types that every step of a room keeps.                              *)
LEMMA MessageTypes ==
    ASSUME NEW r \in Rooms, NEW e \in [Rooms -> [Users -> {None} \cup Sockets]]
    PROVE  /\ Present(r, e) \in Message /\ Present(r, e).room = r /\ Present(r, e).kind = "presence"
           /\ Present(r, e).who = {u \in Users : e[r][u] # None}
           /\ Other(r) \in Message /\ Other(r).room = r /\ Other(r).kind = "other"
BY DEF Present, Other, Message

Posted(m, e) == [Copy(m, e) EXCEPT !.how = "publish", !.to = {}]
LEMMA CastTypes ==
    ASSUME NEW m \in Message, NEW e \in [Rooms -> [Users -> {None} \cup Sockets]]
    PROVE  /\ Copy(m, e) \in Cast /\ Copy(m, e).m = m /\ Copy(m, e).how = "send"
           /\ Copy(m, e).dead = {}
           /\ \A u \in Users, c \in Sockets : e[m.room][u] = c => <<u, c>> \in Copy(m, e).to
           /\ \A d \in Copy(m, e).to : \E u \in Users : d = <<u, e[m.room][u]>> /\ d[2] # None
           /\ Posted(m, e) \in Cast
           /\ Posted(m, e).m = m
           /\ Posted(m, e).how = "publish"
           /\ Posted(m, e).to = {}
           /\ Posted(m, e).dead = {}
<1> DEFINE to == {<<u, e[m.room][u]>> : u \in {v \in Users : e[m.room][v] # None}}
<1>1. m.room \in Rooms
  BY DEF Message
<1>2. /\ to \subseteq Users \X Sockets
      /\ \A u \in Users, c \in Sockets : e[m.room][u] = c /\ c # None => <<u, c>> \in to
      /\ \A u \in Users, c \in Sockets : <<u, c>> \in to => e[m.room][u] = c
      /\ \A x \in to : \E u \in Users : x = <<u, e[m.room][u]>> /\ x[2] # None
  BY <1>1
<1>3. \A c \in Sockets : c # None
  BY RoomsAssumptions
<1> HIDE DEF to
<1>4. Copy(m, e) = [m |-> m, how |-> "send", dead |-> {}, to |-> to]
  BY DEF Copy, to
<1> DEFINE s == Copy(m, e)
           p == [s EXCEPT !.how = "publish", !.to = {}]
<1>5. s \in Cast /\ s.m = m /\ s.how = "send" /\ s.dead = {} /\ s.to = to
  BY <1>2, <1>4 DEF Cast
<1> HIDE DEF s
<1> DEFINE q == [s EXCEPT !.how = "publish"]
<1>6. q \in Cast /\ q.m = m /\ q.how = "publish" /\ q.dead = {} /\ q.to = to
  BY <1>5 DEF Cast
<1> HIDE DEF q
<1>7. /\ p = [q EXCEPT !.to = {}]
      /\ [q EXCEPT !.to = {}] \in Cast /\ [q EXCEPT !.to = {}].m = m
      /\ [q EXCEPT !.to = {}].how = "publish" /\ [q EXCEPT !.to = {}].dead = {}
      /\ [q EXCEPT !.to = {}].to = {}
  <2>1. p = [q EXCEPT !.to = {}]
    BY DEF q
  <2>. QED
    BY <2>1, <1>6 DEF Cast
<1> HIDE DEF p
<1>. QED
  BY <1>2, <1>3, <1>5, <1>7 DEF s, p, Posted

LEMMA SendersDiffer == Listener \notin Sockets /\ Listener \in Senders /\ Sockets \subseteq Senders
BY RoomsAssumptions DEF Listener, Sockets, Senders

LEMMA Casting ==
    ASSUME PresenceType, CastsInv, NEW r \in Rooms, NEW h \in Senders, Busy(r, h)
    PROVE  sending[h] \in Cast /\ sending[h].m \in Message /\ sending[h].m.room = r
BY RoomsAssumptions DEF PresenceType, CastsInv, Busy, Cast, Halted, Other

(* What a broadcast sends, and to whom.                                    *)
LEMMA Broadcasts ==
    ASSUME PresenceType, NEW c \in Sockets, sending[c] = None,
           NEW m \in Message, NEW e \in [Rooms -> [Users -> {None} \cup Sockets]], NEW late,
           Broadcast(c, m, e, late)
    PROVE  /\ sending' \in [Senders -> {None, Halted} \cup Cast]
           /\ \A h \in Senders \ {c} : sending'[h] = sending[h]
           /\ sending'[c] \in Cast /\ sending'[c].m = m /\ sending'[c].dead = {}
           /\ sending'[c].how = IF redis THEN "publish" ELSE "send"
           /\ \A u \in Users, b \in Sockets :
                sending'[c].how = "send" /\ e[m.room][u] = b => <<u, b>> \in sending'[c].to
           /\ \A d \in sending'[c].to : \E u \in Users : e[m.room][u] = d[2] /\ d[2] # None
           /\ overlap \subseteq overlap'
           /\ m.room \notin overlap' => ~late /\ \A h \in Sockets : ~Busy(m.room, h)
<1> DEFINE s == Copy(m, e)
           q == Posted(m, e)
           x == IF redis THEN q ELSE s
<1>1. sending' = [sending EXCEPT ![c] = x]
  BY DEF Broadcast, Posted
<1>2. /\ s \in Cast /\ s.m = m /\ s.how = "send" /\ s.dead = {}
      /\ \A u \in Users, b \in Sockets : e[m.room][u] = b => <<u, b>> \in s.to
      /\ \A d \in s.to : \E u \in Users : d = <<u, e[m.room][u]>> /\ d[2] # None
  BY CastTypes
<1>7. q \in Cast /\ q.m = m /\ q.how = "publish" /\ q.to = {} /\ q.dead = {}
  BY CastTypes
<1>3. /\ overlap \subseteq overlap'
      /\ m.room \notin overlap' => ~late /\ \A h \in Sockets : ~Busy(m.room, h)
  BY DEF Broadcast, Lagging
<1> HIDE DEF s, q
<1>4. /\ x \in Cast /\ x.m = m /\ x.dead = {} /\ x.how = IF redis THEN "publish" ELSE "send"
      /\ \A u \in Users, b \in Sockets : x.how = "send" /\ e[m.room][u] = b => <<u, b>> \in x.to
      /\ \A d \in x.to : \E u \in Users : e[m.room][u] = d[2] /\ d[2] # None
  BY <1>2, <1>7
<1> HIDE DEF x
<1>5. sending' \in [Senders -> {None, Halted} \cup Cast]
  BY <1>1, <1>4, SendersDiffer DEF PresenceType
<1>6. sending'[c] = x /\ \A h \in Senders \ {c} : sending'[h] = sending[h]
  BY <1>1, SendersDiffer DEF PresenceType
<1>. QED
  BY <1>3, <1>4, <1>5, <1>6

(* The bookkeeping of a broadcast, whatever it says.                       *)
LEMMA BroadcastTypes ==
    ASSUME PresenceType, CastsInv, NEW c \in Sockets, sending[c] = None, NEW m \in Message,
           NEW e \in [Rooms -> [Users -> {None} \cup Sockets]], e = entries', NEW late,
           Broadcast(c, m, e, late), UNCHANGED <<redis, channel, shown>>,
           \A r \in Rooms, u \in Users : entries'[r][u] # None => OfRoom(entries[r][u], r)',
           \A b \in Sockets : sock'[b] # None /\ sock'[b].phase = "left" => ~sock'[b].up,
           \A b \in Sockets, r \in Rooms : OfRoom(b, r) => OfRoom(b, r)',
           OfRoom(c, m.room)'
    PROVE  PresenceType' /\ CastsInv'
<1>1. /\ sending' \in [Senders -> {None, Halted} \cup Cast]
      /\ \A h \in Senders \ {c} : sending'[h] = sending[h]
      /\ sending'[c] \in Cast /\ sending'[c].m = m
      /\ sending'[c].how = IF redis THEN "publish" ELSE "send"
      /\ \A d \in sending'[c].to : \E u \in Users : e[m.room][u] = d[2] /\ d[2] # None
  BY Broadcasts
<1>2. PresenceType'
  BY <1>1 DEF PresenceType
<1>3. m.room \in Rooms /\ \A x \in Cast : x.m.room \in Rooms /\ \A d \in x.to : d[2] \in Sockets
  BY DEF Message, Cast
<1>4. ASSUME NEW b \in Sockets, sending'[b] # None
      PROVE  /\ sending'[b] \in Cast /\ OfRoom(b, sending[b].m.room)'
             /\ sending'[b].how = "publish" => redis'
  <2>1. CASE b = c
    BY <2>1, <1>1
  <2>2. CASE b # c
    BY <2>2, <1>1, <1>3, <1>4, SendersDiffer DEF CastsInv
  <2>. QED
    BY <2>1, <2>2
<1>5. sending'[Listener] = sending[Listener]
  BY <1>1, SendersDiffer
<1>6. ASSUME NEW h \in Senders, sending'[h] \in Cast, NEW d \in sending'[h].to
      PROVE  OfRoom(d[2], sending[h].m.room)'
  <2>1. CASE h = c
    <3>1. PICK u \in Users : e[m.room][u] = d[2] /\ d[2] # None
      BY <2>1, <1>1, <1>6
    <3>2. OfRoom(d[2], m.room)'
      BY <3>1, <1>3
    <3>. QED
      BY <2>1, <3>2, <1>1
  <2>2. CASE h # c
    BY <2>2, <1>1, <1>3, <1>6 DEF CastsInv
  <2>. QED
    BY <2>1, <2>2
<1>7. sending'[Listener] \in Cast => sending'[Listener].how = "send"
  BY <1>5 DEF CastsInv
<1>8. redis' \/ (channel' = <<>> /\ sending'[Listener] = None)
  BY <1>5 DEF CastsInv
<1>. QED
  BY <1>2, <1>4, <1>6, <1>7, <1>8 DEF CastsInv

LEMMA BroadcastKeeps ==
    ASSUME PresenceInv, NEW c \in Sockets, sending[c] = None, NEW m \in Message,
           NEW e \in [Rooms -> [Users -> {None} \cup Sockets]], e = entries', NEW late,
           Broadcast(c, m, e, late), UNCHANGED <<redis, channel, shown>>,
           PresenceType', CastsInv',
           \A r \in Rooms \ {m.room} :
              /\ entries'[r] = entries[r]
              /\ \A b \in Sockets : /\ Here(b, r)' => Here(b, r) /\ sock'[b].user = sock[b].user
                                    /\ Due(b, r) => Due(b, r)',
           m.room \notin overlap' =>
              \A b \in Sockets : Here(b, m.room)' => entries'[m.room][sock'[b].user] = b,
           \A b \in Sockets : Here(b, m.room)' => sock'[b].user \in Users,
           \/ m.kind = "presence" /\ m.who = Who(m.room)'
           \/ \E b \in Sockets : Due(b, m.room)'
           \/ /\ m.kind = "other" /\ entries' = entries
              /\ \A b \in Sockets : /\ Here(b, m.room)' => Here(b, m.room)
                                    /\ Due(b, m.room) => Due(b, m.room)'
    PROVE  PresenceInv'
<1>0. PresenceType /\ CastsInv
  BY DEF PresenceInv
<1>1. /\ \A h \in Senders \ {c} : sending'[h] = sending[h]
      /\ sending'[c] \in Cast /\ sending'[c].m = m /\ sending'[c].dead = {}
      /\ sending'[c].how = IF redis THEN "publish" ELSE "send"
      /\ \A u \in Users, b \in Sockets :
           sending'[c].how = "send" /\ e[m.room][u] = b => <<u, b>> \in sending'[c].to
      /\ overlap \subseteq overlap'
      /\ m.room \notin overlap' => ~late /\ \A h \in Sockets : ~Busy(m.room, h)
  BY <1>0, Broadcasts
<1>2. c \in Senders /\ c # Listener /\ m.room \in Rooms /\ sending'[c] # None
  BY <1>1, SendersDiffer, RoomsAssumptions DEF Message
<1>3. ASSUME NEW r \in Rooms, r \notin overlap', r # m.room PROVE RoomInv(r)'
  <2>1. RoomInv(r)
    BY <1>1, <1>3 DEF PresenceInv
  <2>2. \A h \in Senders : /\ Busy(r, h) => sending'[h] = sending[h]
                           /\ Busy(r, h)' => sending'[h] = sending[h]
    BY <1>1, <1>3 DEF Busy
  <2>. QED
    BY <1>3, <2>1, <2>2, RoomRests
<1>4. ASSUME NEW r, r = m.room, r \notin overlap' PROVE RoomInv(r)'
  <2>1. RoomInv(r) /\ \A h \in Sockets : ~Busy(r, h)
    BY <1>1, <1>2, <1>4 DEF PresenceInv
  <2>2. \A h \in Sockets : Busy(r, h)' => h = c
    BY <2>1, <1>1, SendersDiffer DEF Busy
  <2>3. Busy(r, c)'
    BY <1>1, <1>2, <1>4 DEF Busy
  <2>4. sending'[c].how = "send" => ~Waiting(r)'
    <3>1. ~redis => Len(channel) = 0 /\ sending[Listener] = None
      BY <1>0 DEF CastsInv
    <3>2. sending'[Listener] = sending[Listener]
      BY <1>1, <1>2, SendersDiffer
    <3>. QED
      BY <3>1, <3>2, <1>1 DEF Waiting, Busy, CastsInv, PresenceInv
  <2>5. \A b \in Sockets : Here(b, r)' => entries'[r][sock'[b].user] = b
    BY <1>4
  <2>6. InStep(r)'
    <3>1. CASE m.kind = "presence" /\ m.who = Who(m.room)'
      <4>1. Tells(r, c)' /\ sending'[c].m.who = Who(r)'
        BY <3>1, <2>3, <1>1, <1>4 DEF Tells
      <4>2. sending'[c].how = "send" =>
              \A b \in Sockets : Here(b, r)' => \E u \in Users : <<u, b>> \in sending'[c].to
        BY <2>5, <1>1, <1>4
      <4>3. Fresh(r, c)'
        BY <4>1, <4>2 DEF Fresh
      <4>. QED
        BY <4>1, <4>3 DEF InStep, Announced
    <3>2. CASE \E b \in Sockets : Due(b, m.room)'
      BY <3>2, <1>4 DEF InStep
    <3>3. CASE /\ m.kind = "other" /\ entries' = entries
               /\ \A b \in Sockets : /\ Here(b, m.room)' => Here(b, m.room)
                                     /\ Due(b, m.room) => Due(b, m.room)'
      <4>1. Quiet(r) /\ Quiet(r)' /\ ~Announced(r)
        BY <2>1, <2>2, <1>1, <3>3 DEF Quiet, Tells, Announced
      <4>2. Who(r)' = Who(r) /\ (Empty(r) => Empty(r)')
        BY <3>3 DEF Who, Empty, Queued
      <4>3. /\ Busy(r, Listener) => Busy(r, Listener)'
            /\ Tells(r, Listener) => Tells(r, Listener)'
            /\ Tells(r, Listener)' => Tells(r, Listener)
            /\ sending'[Listener] = sending[Listener]
        BY <1>1, <1>2, SendersDiffer DEF Busy, Tells
      <4>4. Ill(r) => Ill(r)'
        BY <1>1, <2>1, <4>3, SendersDiffer DEF Ill, Busy, Senders
      <4>5. Enqueued(r) => Enqueued(r)'
        BY <4>1, <4>2 DEF Enqueued, Latest, Queued
      <4>6. Underway(r) => Underway(r)'
        BY <4>1, <4>2, <4>3, <3>3, <1>4 DEF Underway, Fresh
      <4>7. Seen(r) => Seen(r)'
        BY <4>1, <4>2, <4>3, <3>3, <1>4 DEF Seen
      <4>. QED
        BY <2>1, <4>1, <4>4, <4>5, <4>6, <4>7, <3>3, <1>4 DEF RoomInv, InStep
    <3>. QED
      BY <3>1, <3>2, <3>3
  <2>. QED
    BY <2>2, <2>4, <2>5, <2>6 DEF RoomInv
<1>. QED
  BY <1>3, <1>4 DEF PresenceInv

LEMMA Turning ==
    ASSUME RoomsType, NEW c \in Sockets, sock[c] # None, NEW phase \in Phases, Turn(c, phase)
    PROVE  /\ sock'[c] # None /\ sock'[c].phase = phase /\ sock'[c].room = sock[c].room
           /\ sock'[c].user = sock[c].user /\ sock'[c].up = sock[c].up
           /\ sock[c].room \in Rooms /\ sock[c].user \in Users
           /\ \A b \in Sockets \ {c} : sock'[b] = sock[b]
<1>1. sock[c] \in Socket
  BY DEF RoomsType
<1>2. [sock[c] EXCEPT !.phase = phase] \in Socket
  BY <1>1 DEF Socket
<1>. QED
  BY <1>1, <1>2, RoomsAssumptions DEF Turn, RoomsType, Socket

(* Steps that send nothing and tell nobody.                                *)
LEMMA SilentKeeps ==
    ASSUME PresenceInv, UNCHANGED <<redis, entries, channel, sending, shown>>,
           overlap \subseteq overlap',
           \A b \in Sockets, r \in Rooms :
              /\ OfRoom(b, r) => OfRoom(b, r)'
              /\ Here(b, r)' => Here(b, r) /\ sock'[b].user = sock[b].user
              /\ Due(b, r) => Due(b, r)' \/ r \in overlap',
           \A b \in Sockets : sock'[b] # None /\ sock'[b].phase = "left" => ~sock'[b].up
    PROVE  PresenceInv'
<1>0. PresenceType /\ CastsInv
  BY DEF PresenceInv
<1>1. PresenceType'
  BY <1>0 DEF PresenceType
<1>2. \A x \in Cast : x.m.room \in Rooms /\ \A d \in x.to : d[2] \in Sockets
  BY DEF Message, Cast
<1>3. \A r \in Rooms, u \in Users : entries[r][u] # None => entries[r][u] \in Sockets
  BY <1>0 DEF PresenceType
<1>4. /\ \A c \in Sockets : sending[c] # None => OfRoom(c, sending[c].m.room)'
      /\ \A h \in Senders : sending[h] \in Cast =>
            \A d \in sending[h].to : OfRoom(d[2], sending[h].m.room)'
      /\ \A r \in Rooms, u \in Users : entries[r][u] # None => OfRoom(entries[r][u], r)'
  <2>1. ASSUME NEW c \in Sockets, sending[c] # None PROVE OfRoom(c, sending[c].m.room)'
    <3>1. sending[c].m.room \in Rooms /\ OfRoom(c, sending[c].m.room) /\ sending' = sending
      BY <2>1, <1>0, <1>2 DEF CastsInv
    <3>. QED
      BY <3>1
  <2>2. ASSUME NEW h \in Senders, sending[h] \in Cast, NEW d \in sending[h].to
        PROVE  OfRoom(d[2], sending[h].m.room)'
    <3>1. /\ sending[h].m.room \in Rooms /\ d[2] \in Sockets /\ sending' = sending
          /\ OfRoom(d[2], sending[h].m.room)
      BY <2>2, <1>0, <1>2 DEF CastsInv
    <3>. QED
      BY <3>1
  <2>3. ASSUME NEW r \in Rooms, NEW u \in Users, entries[r][u] # None
        PROVE  OfRoom(entries[r][u], r)'
    <3>1. entries[r][u] \in Sockets /\ OfRoom(entries[r][u], r) /\ entries' = entries
      BY <2>3, <1>0, <1>3 DEF CastsInv
    <3>. QED
      BY <3>1
  <2>. QED
    BY <2>1, <2>2, <2>3
<1>5. CastsInv'
  BY <1>0, <1>4 DEF CastsInv
<1>6. ASSUME NEW r \in Rooms \ overlap' PROVE RoomInv(r)'
  <2>1. RoomInv(r) /\ \A h \in Senders : Busy(r, h)' => sending'[h] = sending[h]
    BY DEF PresenceInv
  <2>. QED
    BY <2>1, RoomRests
<1>. QED
  BY <1>1, <1>5, <1>6 DEF PresenceInv

(* A handler that tells the room something while the entries stay.         *)
LEMMA SpeaksKeep ==
    ASSUME PresenceInv, LockInv, NEW c \in Sockets, sending[c] = None, sock[c] # None,
           NEW m \in Message, m.room = sock[c].room, sock[c].room \in Rooms,
           Broadcast(c, m, entries, FALSE), UNCHANGED <<redis, entries, channel, shown>>,
           sock'[c] # None, sock'[c].room = sock[c].room, sock'[c].user = sock[c].user,
           sock'[c].up = sock[c].up, \A b \in Sockets \ {c} : sock'[b] = sock[b],
           sock'[c].phase \notin {"greet", "left"},
           sock'[c].phase # "closed" => sock[c].phase \notin {"left", "closed"},
           \/ m.kind = "presence" /\ m.who = Who(m.room)
           \/ m.kind = "other" /\ sock[c].phase \notin {"greet", "left"}
    PROVE  PresenceInv'
<1>0. PresenceType /\ CastsInv
  BY DEF PresenceInv
<1>1. entries \in [Rooms -> [Users -> {None} \cup Sockets]] /\ entries = entries'
  BY <1>0 DEF PresenceType
<1>2. \A b \in Sockets, r \in Rooms :
         /\ OfRoom(b, r) => OfRoom(b, r)'
         /\ OfRoom(b, r)' => OfRoom(b, r) /\ sock'[b].user = sock[b].user
         /\ Here(b, r)' => Here(b, r) /\ sock'[b].user = sock[b].user
         /\ r # m.room \/ sock[c].phase \notin {"greet", "left"} => (Due(b, r) => Due(b, r)')
  BY DEF OfRoom, Here, Due
<1>3. \A b \in Sockets : sock'[b] # None /\ sock'[b].phase = "left" => ~sock'[b].up
  BY <1>0 DEF CastsInv
<1>4. \A r \in Rooms, u \in Users : entries'[r][u] # None => OfRoom(entries[r][u], r)'
  <2>1. ASSUME NEW r \in Rooms, NEW u \in Users, entries[r][u] # None
        PROVE  OfRoom(entries[r][u], r)'
    <3>1. entries[r][u] \in Sockets /\ OfRoom(entries[r][u], r) /\ entries' = entries
      BY <2>1, <1>0, <1>1 DEF CastsInv
    <3>. QED
      BY <3>1, <1>2
  <2>. QED
    BY <2>1
<1>5. OfRoom(c, m.room)'
  BY DEF OfRoom
<1>6. PresenceType' /\ CastsInv'
  BY <1>0, <1>1, <1>2, <1>3, <1>4, <1>5, BroadcastTypes
<1>7. m.room \notin overlap' =>
         \A b \in Sockets : Here(b, m.room)' => entries'[m.room][sock'[b].user] = b
  <2>1. m.room \notin overlap' => m.room \notin overlap
    BY <1>0, <1>1, Broadcasts
  <2>. QED
    BY <2>1, <1>2 DEF PresenceInv, RoomInv
<1>8. \A b \in Sockets : Here(b, m.room)' => sock'[b].user \in Users
  BY <1>2, RoomsAssumptions DEF LockInv, RoomsType, Socket, Here, OfRoom
<1>9. Who(m.room)' = Who(m.room)
  BY DEF Who
<1>. QED
  BY <1>0, <1>1, <1>2, <1>6, <1>7, <1>8, <1>9, BroadcastKeeps

LEMMA CleanupKeeps ==
    ASSUME PresenceInv, LockInv, NEW c \in Sockets, Cleanup(c) PROVE PresenceInv'
<1>0. PresenceType /\ CastsInv /\ RoomsType
  BY DEF PresenceInv, LockInv
<1>p. PICK r, u, late, phase, m :
         /\ r = sock[c].room /\ u = sock[c].user
         /\ late = (entries[r][u] # c)
         /\ phase = (IF lock' # lock THEN "left" ELSE "closed")
         /\ m = (IF lock' # lock THEN Other(r) ELSE Present(r, entries'))
  OBVIOUS
<1>1. /\ sock[c] # None /\ sock[c].phase = "open" /\ sending[c] = None /\ ~sock[c].up
      /\ entries' = Without(entries, r, {u}) /\ Turn(c, phase) /\ Broadcast(c, m, entries', late)
      /\ UNCHANGED <<redis, channel, shown>>
  BY <1>p DEF Cleanup, In, elsewhere, Gone
<1>2. /\ sock'[c] # None /\ sock'[c].phase = phase /\ sock'[c].room = r /\ sock'[c].user = u
      /\ sock'[c].up = sock[c].up /\ r \in Rooms /\ u \in Users
      /\ \A b \in Sockets \ {c} : sock'[b] = sock[b]
  BY <1>0, <1>1, <1>p, Turning DEF Phases
<1>3. /\ entries' \in [Rooms -> [Users -> {None} \cup Sockets]]
      /\ \A v \in Users : entries'[r][v] = IF v = u THEN None ELSE entries[r][v]
      /\ \A s \in Rooms \ {r} : entries'[s] = entries[s]
  BY <1>0, <1>1, <1>2 DEF PresenceType, Without
<1>4. m \in Message /\ m.room = r /\ m.kind = (IF lock' # lock THEN "other" ELSE "presence")
      /\ (lock' = lock => m.who = Who(r)')
  BY <1>2, <1>3, <1>p, MessageTypes DEF Who
<1>a. phase \in {"left", "closed"} /\ (phase = "left" <=> lock' # lock)
  BY <1>p
<1>b. sock[c].room = r /\ sock[c].user = u /\ late = (entries[r][u] # c)
  BY <1>p
<1>5. \A b \in Sockets, s \in Rooms :
         /\ OfRoom(b, s) => OfRoom(b, s)'
         /\ Here(b, s)' => b # c /\ Here(b, s) /\ sock'[b].user = sock[b].user
         /\ Due(b, s) => Due(b, s)'
  BY <1>1, <1>2, <1>a, <1>b DEF OfRoom, Here, Due
<1>6. \A b \in Sockets : sock'[b] # None /\ sock'[b].phase = "left" => ~sock'[b].up
  BY <1>0, <1>1, <1>2 DEF CastsInv
<1>7. \A s \in Rooms, v \in Users : entries'[s][v] # None => OfRoom(entries[s][v], s)'
  <2>1. ASSUME NEW s \in Rooms, NEW v \in Users, entries'[s][v] # None
        PROVE  OfRoom(entries[s][v], s)'
    <3>1. entries'[s][v] = entries[s][v]
      BY <2>1, <1>3
    <3>2. entries[s][v] \in Sockets /\ OfRoom(entries[s][v], s)
      BY <2>1, <3>1, <1>0 DEF CastsInv, PresenceType
    <3>. QED
      BY <3>1, <3>2, <1>5
  <2>. QED
    BY <2>1
<1>8. OfRoom(c, m.room)'
  <2>1. OfRoom(c, r)'
    BY <1>2 DEF OfRoom
  <2>. QED
    BY <2>1, <1>4
<1>9. PresenceType' /\ CastsInv'
  BY <1>0, <1>1, <1>3, <1>4, <1>5, <1>6, <1>7, <1>8, BroadcastTypes
<1>10. m.room \notin overlap' =>
         \A b \in Sockets : Here(b, m.room)' => entries'[m.room][sock'[b].user] = b
  <2>1. r \notin overlap' => r \notin overlap /\ ~late
    BY <1>0, <1>1, <1>3, <1>4, Broadcasts
  <2>2. ASSUME r \notin overlap', NEW b \in Sockets, Here(b, r)'
        PROVE  entries'[r][sock'[b].user] = b
    <3>1. b # c /\ Here(b, r) /\ sock'[b].user = sock[b].user /\ sock[b].user \in Users
      BY <2>2, <1>2, <1>5, <1>0, RoomsAssumptions DEF RoomsType, Socket, Here, OfRoom
    <3>2. entries[r][sock[b].user] = b /\ entries[r][u] = c
      BY <2>1, <2>2, <3>1, <1>2, <1>b DEF PresenceInv, RoomInv
    <3>. QED
      BY <3>1, <3>2, <1>3
  <2>. QED
    BY <2>2, <1>4
<1>11. \A b \in Sockets : Here(b, m.room)' => sock'[b].user \in Users
  BY <1>0, <1>2, <1>4, <1>5, RoomsAssumptions DEF RoomsType, Socket, Here, OfRoom
<1>12. \/ m.kind = "presence" /\ m.who = Who(m.room)'
       \/ \E b \in Sockets : Due(b, m.room)'
  <2>1. lock' # lock => Due(c, r)'
    BY <1>2, <1>a DEF Due, OfRoom
  <2>. QED
    BY <2>1, <1>4
<1>13. \A s \in Rooms \ {m.room} :
          /\ entries'[s] = entries[s]
          /\ \A b \in Sockets : /\ Here(b, s)' => Here(b, s) /\ sock'[b].user = sock[b].user
                                /\ Due(b, s) => Due(b, s)'
  BY <1>3, <1>4, <1>5
<1>. QED
  BY <1>1, <1>3, <1>4, <1>9, <1>10, <1>11, <1>12, <1>13, BroadcastKeeps

LEMMA ConnectKeeps ==
    ASSUME PresenceInv, LockInv, NEW c \in Sockets, NEW u \in Users, NEW r \in Rooms,
           Connect(c, u, r)
    PROVE  PresenceInv'
<1> DEFINE held == r \in DocRooms /\ lock[r] # None
           late == entries[r][u] # None
           row == [user |-> u, room |-> r, up |-> TRUE,
                   phase |-> IF held THEN "greet" ELSE "open"]
           m == Present(r, entries')
<1>0. PresenceType /\ CastsInv /\ RoomsType
  BY DEF PresenceInv, LockInv
<1>1. /\ sock[c] = None /\ sock' = [sock EXCEPT ![c] = row]
      /\ entries' = [entries EXCEPT ![r][u] = c]
      /\ held => overlap' = Lagging(r, late) /\ UNCHANGED sending
      /\ ~held => Broadcast(c, m, entries', late)
      /\ UNCHANGED <<redis, channel, shown>>
  BY DEF Connect, NextNew, elsewhere
<1>2. /\ row # None /\ row.user = u /\ row.room = r /\ row.up
      /\ row.phase = IF held THEN "greet" ELSE "open"
  <2>1. row \in Socket
    BY DEF Socket, Phases
  <2>. QED
    BY <2>1, RoomsAssumptions
<1> HIDE DEF row
<1>3. sock'[c] = row /\ \A b \in Sockets \ {c} : sock'[b] = sock[b]
  BY <1>0, <1>1 DEF RoomsType
<1>4. /\ entries' \in [Rooms -> [Users -> {None} \cup Sockets]]
      /\ \A v \in Users : entries'[r][v] = IF v = u THEN c ELSE entries[r][v]
      /\ \A s \in Rooms \ {r} : entries'[s] = entries[s]
  BY <1>0, <1>1 DEF PresenceType
<1>5. m \in Message /\ m.room = r /\ m.kind = "presence" /\ m.who = Who(r)'
  BY <1>4, MessageTypes DEF Who
<1> HIDE DEF m
<1>6. \A b \in Sockets, s \in Rooms :
         /\ OfRoom(b, s) => OfRoom(b, s)' /\ b # c
         /\ Here(b, s)' /\ b # c => Here(b, s) /\ sock'[b].user = sock[b].user
         /\ Here(b, s)' /\ b = c => s = r
         /\ Due(b, s) => Due(b, s)'
  BY <1>1, <1>2, <1>3 DEF OfRoom, Here, Due
<1>7. \A b \in Sockets : sock'[b] # None /\ sock'[b].phase = "left" => ~sock'[b].up
  BY <1>0, <1>2, <1>3 DEF CastsInv
<1>8. \A s \in Rooms, v \in Users : entries'[s][v] # None => OfRoom(entries[s][v], s)'
  <2>1. ASSUME NEW s \in Rooms, NEW v \in Users, entries'[s][v] # None
        PROVE  OfRoom(entries[s][v], s)'
    <3>1. CASE s = r /\ v = u
      BY <3>1, <1>2, <1>3, <1>4 DEF OfRoom
    <3>2. CASE ~(s = r /\ v = u)
      <4>1. entries'[s][v] = entries[s][v]
        BY <3>2, <2>1, <1>4
      <4>2. entries[s][v] \in Sockets /\ OfRoom(entries[s][v], s)
        BY <2>1, <4>1, <1>0 DEF CastsInv, PresenceType
      <4>. QED
        BY <4>1, <4>2, <1>6
    <3>. QED
      BY <3>1, <3>2
  <2>. QED
    BY <2>1
<1>9. OfRoom(c, r)' /\ sending[c] = None
  BY <1>0, <1>1, <1>2, <1>3 DEF OfRoom, CastsInv
<1>10. ASSUME r \notin overlap, ~late, NEW b \in Sockets, Here(b, r)'
       PROVE  entries'[r][sock'[b].user] = b
  <2>1. CASE b = c
    BY <2>1, <1>2, <1>3, <1>4
  <2>2. CASE b # c
    <3>1. Here(b, r) /\ sock'[b].user = sock[b].user /\ sock[b].user \in Users /\ b # None
      BY <2>2, <1>10, <1>6, <1>0, RoomsAssumptions DEF RoomsType, Socket, Here, OfRoom
    <3>2. entries[r][sock[b].user] = b
      BY <3>1, <1>10 DEF PresenceInv, RoomInv
    <3>. QED
      BY <3>1, <3>2, <1>4, <1>10
  <2>. QED
    BY <2>1, <2>2
<1>11. \A s \in Rooms \ {r} :
          /\ entries'[s] = entries[s]
          /\ \A b \in Sockets : /\ Here(b, s)' => Here(b, s) /\ sock'[b].user = sock[b].user
                                /\ Due(b, s) => Due(b, s)'
  BY <1>4, <1>6
<1>12. CASE held
  <2>1. /\ UNCHANGED <<redis, channel, shown, sending>> /\ overlap \subseteq overlap'
        /\ r \notin overlap' => ~late
    BY <1>1, <1>12 DEF Lagging
  <2>2. PresenceType'
    BY <1>0, <1>4, <2>1 DEF PresenceType
  <2>3. \A x \in Cast : x.m.room \in Rooms /\ \A d \in x.to : d[2] \in Sockets
    BY DEF Message, Cast
  <2>4. /\ \A b \in Sockets : sending[b] # None => OfRoom(b, sending[b].m.room)'
        /\ \A h \in Senders : sending[h] \in Cast =>
              \A d \in sending[h].to : OfRoom(d[2], sending[h].m.room)'
    <3>1. ASSUME NEW b \in Sockets, sending[b] # None PROVE OfRoom(b, sending[b].m.room)'
      <4>1. sending[b].m.room \in Rooms /\ OfRoom(b, sending[b].m.room) /\ sending' = sending
        BY <3>1, <1>0, <2>1, <2>3 DEF CastsInv
      <4>. QED
        BY <4>1, <1>6
    <3>2. ASSUME NEW h \in Senders, sending[h] \in Cast, NEW d \in sending[h].to
          PROVE  OfRoom(d[2], sending[h].m.room)'
      <4>1. /\ sending[h].m.room \in Rooms /\ d[2] \in Sockets /\ sending' = sending
            /\ OfRoom(d[2], sending[h].m.room)
        BY <3>2, <1>0, <2>1, <2>3 DEF CastsInv
      <4>. QED
        BY <4>1, <1>6
    <3>. QED
      BY <3>1, <3>2
  <2>5. CastsInv'
    BY <1>0, <1>7, <1>8, <2>1, <2>4 DEF CastsInv
  <2>6. ASSUME NEW s \in Rooms, s \notin overlap', s # r PROVE RoomInv(s)'
    BY <2>1, <2>6, <1>11, RoomRests DEF PresenceInv
  <2>7. r \notin overlap' => RoomInv(r)'
    <3>1. Due(c, r)'
      BY <1>2, <1>3, <1>12 DEF Due, OfRoom
    <3>2. \A h \in Senders : (Busy(r, h)' => Busy(r, h))
      BY <2>1 DEF Busy
    <3>3. \A h \in Sockets : h \in Senders
      BY SendersDiffer
    <3>4. Waiting(r)' => Waiting(r)
      BY <2>1 DEF Waiting, Busy
    <3>. QED
      BY <3>1, <3>2, <3>3, <3>4, <2>1, <1>10 DEF PresenceInv, RoomInv, InStep
  <2>. QED
    BY <2>2, <2>5, <2>6, <2>7 DEF PresenceInv
<1>13. CASE ~held
  <2>1. PresenceType' /\ CastsInv'
    BY <1>0, <1>1, <1>4, <1>5, <1>6, <1>7, <1>8, <1>9, <1>13, BroadcastTypes
  <2>2. r \notin overlap' => r \notin overlap /\ ~late
    BY <1>0, <1>1, <1>4, <1>5, <1>9, <1>13, Broadcasts
  <2>3. \A b \in Sockets : Here(b, r)' => sock'[b].user \in Users
    BY <1>0, <1>2, <1>3, <1>6, RoomsAssumptions DEF RoomsType, Socket, Here, OfRoom
  <2>. QED
    BY <1>1, <1>4, <1>5, <1>9, <1>10, <1>11, <1>13, <2>1, <2>2, <2>3, BroadcastKeeps
<1>. QED
  BY <1>12, <1>13

(* The handler of a socket, after it has connected.                        *)
LEMMA HandlerKeeps ==
    ASSUME PresenceInv, LockInv, NEW c \in Sockets,
           \/ Greet(c) \/ Farewell(c) \/ StartEditing(c) \/ StopEditing(c)
           \/ Say(c) \/ Token(c) \/ Reply(c)
    PROVE  PresenceInv'
<1>0. PresenceType /\ CastsInv /\ RoomsType
  BY DEF PresenceInv, LockInv
<1>1. sock[c] # None /\ sending[c] = None /\ sock[c] \in Socket
  BY <1>0 DEF RoomsType, Greet, Farewell, StartEditing, StopEditing, Say, Token, Reply, In
<1>2. PICK r \in Rooms : r = sock[c].room
  BY <1>1 DEF Socket
<1>3. UNCHANGED <<redis, entries, channel, shown>>
  BY DEF Greet, Farewell, StartEditing, StopEditing, Say, Token, Reply, Tell, elsewhere
<1>4. entries \in [Rooms -> [Users -> {None} \cup Sockets]]
  BY <1>0 DEF PresenceType
<1>5. /\ Present(r, entries) \in Message /\ Present(r, entries).room = r
      /\ Present(r, entries).kind = "presence" /\ Present(r, entries).who = Who(r)
      /\ Other(r) \in Message /\ Other(r).room = r /\ Other(r).kind = "other"
  BY <1>4, MessageTypes DEF Who
<1>6. ASSUME NEW phase \in Phases \ {"greet", "left"}, Turn(c, phase),
             phase # "closed" => sock[c].phase \notin {"left", "closed"},
             \/ Broadcast(c, Present(r, entries), entries, FALSE)
             \/ /\ Broadcast(c, Other(r), entries, FALSE)
                /\ sock[c].phase \notin {"greet", "left"}
      PROVE  PresenceInv'
  <2>1. /\ sock'[c] # None /\ sock'[c].phase = phase /\ sock'[c].room = sock[c].room
        /\ sock'[c].user = sock[c].user /\ sock'[c].up = sock[c].up
        /\ \A b \in Sockets \ {c} : sock'[b] = sock[b]
    BY <1>0, <1>1, <1>6, Turning
  <2>2. CASE Broadcast(c, Present(r, entries), entries, FALSE)
    BY <2>1, <2>2, <1>1, <1>2, <1>3, <1>5, <1>6, SpeaksKeep
  <2>3. CASE Broadcast(c, Other(r), entries, FALSE) /\ sock[c].phase \notin {"greet", "left"}
    BY <2>1, <2>3, <1>1, <1>2, <1>3, <1>5, <1>6, SpeaksKeep
  <2>. QED
    BY <2>2, <2>3, <1>6
<1>7. CASE Greet(c) /\ sock[c].up
  BY <1>7, <1>2, <1>6 DEF Greet, In, Phases
<1>8. CASE Greet(c) /\ ~sock[c].up
  <2>1. /\ Turn(c, "closed") /\ overlap' = overlap \cup {r} /\ UNCHANGED sending
        /\ sock[c].phase = "greet"
    BY <1>8, <1>2 DEF Greet, Lagging, In
  <2>2. /\ sock'[c] # None /\ sock'[c].phase = "closed" /\ sock'[c].room = r
        /\ \A b \in Sockets \ {c} : sock'[b] = sock[b]
    BY <2>1, <1>0, <1>1, <1>2, Turning DEF Phases
  <2>3. \A b \in Sockets, s \in Rooms :
           /\ OfRoom(b, s) => OfRoom(b, s)'
           /\ Here(b, s)' => Here(b, s) /\ sock'[b].user = sock[b].user
           /\ Due(b, s) => Due(b, s)' \/ s \in overlap'
    BY <2>1, <2>2, <1>2 DEF OfRoom, Here, Due
  <2>4. \A b \in Sockets : sock'[b] # None /\ sock'[b].phase = "left" => ~sock'[b].up
    BY <2>2, <1>0 DEF CastsInv
  <2>. QED
    BY <2>1, <2>3, <2>4, <1>3, SilentKeeps
<1>9. CASE Farewell(c)
  BY <1>9, <1>2, <1>6 DEF Farewell, Gone, Phases
<1>10. CASE Say(c) \/ Token(c) \/ Reply(c)
  <2>1. PICK phase \in {"said", "answered"} : Tell(c, phase)
    BY <1>10 DEF Say, Token, Reply
  <2>2. sock[c].phase \in {"open", "reply"}
    BY <1>10 DEF Say, Token, Reply, In
  <2>3. Turn(c, phase) /\ Broadcast(c, Other(r), entries, FALSE)
    BY <2>1, <1>2 DEF Tell
  <2>. QED
    BY <2>2, <2>3, <1>6 DEF Phases
<1>11. CASE StartEditing(c) \/ StopEditing(c)
  <2>1. /\ sock' = sock /\ sock[c].phase = "open" /\ Broadcast(c, Other(r), entries, FALSE)
    BY <1>11, <1>2 DEF StartEditing, StopEditing, In
  <2>. QED
    BY <2>1, <1>1, <1>2, <1>3, <1>5, SpeaksKeep
<1>. QED
  BY <1>7, <1>8, <1>9, <1>10, <1>11

(* Steps of a socket that send nothing.                                    *)
LEMMA QuietKeeps ==
    ASSUME PresenceInv, LockInv, NEW c \in Sockets,
           PeerLeaves(c) \/ Mirror(c) \/ ReplyFails(c)
    PROVE  PresenceInv'
<1>0. PresenceType /\ CastsInv /\ RoomsType
  BY DEF PresenceInv, LockInv
<1>1. UNCHANGED <<redis, entries, channel, sending, shown, overlap>>
  BY DEF PeerLeaves, Mirror, ReplyFails, elsewhere
<1>2. sock[c] # None /\ sock[c] \in Socket
  BY <1>0 DEF RoomsType, PeerLeaves, Mirror, ReplyFails, In
<1>3. ASSUME NEW row \in Socket, sock' = [sock EXCEPT ![c] = row], row.room = sock[c].room,
             row.user = sock[c].user, row.phase # "left" \/ ~row.up,
             \/ row.phase = sock[c].phase
             \/ sock[c].phase \notin {"greet", "left", "closed"} /\ row.phase # "left"
      PROVE  PresenceInv'
  <2>1. sock'[c] = row /\ row # None /\ \A b \in Sockets \ {c} : sock'[b] = sock[b]
    BY <1>0, <1>3, RoomsAssumptions DEF RoomsType
  <2>2. \A b \in Sockets, s \in Rooms :
           /\ OfRoom(b, s) => OfRoom(b, s)'
           /\ Here(b, s)' => Here(b, s) /\ sock'[b].user = sock[b].user
           /\ Due(b, s) => Due(b, s)'
    BY <2>1, <1>2, <1>3 DEF OfRoom, Here, Due
  <2>3. \A b \in Sockets : sock'[b] # None /\ sock'[b].phase = "left" => ~sock'[b].up
    BY <2>1, <1>0, <1>3 DEF CastsInv
  <2>. QED
    BY <2>2, <2>3, <1>1, SilentKeeps
<1>4. CASE PeerLeaves(c)
  <2>1. sock' = [sock EXCEPT ![c] = [sock[c] EXCEPT !.up = FALSE]]
    BY <1>4 DEF PeerLeaves
  <2>2. /\ [sock[c] EXCEPT !.up = FALSE] \in Socket
        /\ [sock[c] EXCEPT !.up = FALSE].room = sock[c].room
        /\ [sock[c] EXCEPT !.up = FALSE].user = sock[c].user
        /\ [sock[c] EXCEPT !.up = FALSE].phase = sock[c].phase
        /\ ~[sock[c] EXCEPT !.up = FALSE].up
    BY <1>2 DEF Socket
  <2>. QED
    BY <2>1, <2>2, <1>3
<1>5. CASE Mirror(c)
  <2>1. PICK phase \in {"reply", "open"} : Turn(c, phase)
    BY <1>5 DEF Mirror
  <2>2. sock[c].phase \in {"said", "answered"}
    BY <1>5 DEF Mirror, In
  <2>3. sock' = [sock EXCEPT ![c] = [sock[c] EXCEPT !.phase = phase]]
    BY <2>1 DEF Turn
  <2>4. /\ [sock[c] EXCEPT !.phase = phase] \in Socket
        /\ [sock[c] EXCEPT !.phase = phase].room = sock[c].room
        /\ [sock[c] EXCEPT !.phase = phase].user = sock[c].user
        /\ [sock[c] EXCEPT !.phase = phase].phase = phase
    BY <1>2, <2>1 DEF Socket, Phases
  <2>. QED
    BY <2>1, <2>2, <2>3, <2>4, <1>3
<1>6. CASE ReplyFails(c)
  <2> DEFINE open == [sock[c] EXCEPT !.phase = "open"]
             row == [open EXCEPT !.up = FALSE]
  <2>1. sock' = [sock EXCEPT ![c] = row] /\ sock[c].phase = "reply"
    BY <1>6 DEF ReplyFails, In
  <2>2. /\ open \in Socket /\ open.room = sock[c].room /\ open.user = sock[c].user
        /\ open.phase = "open"
    BY <1>2 DEF Socket, Phases
  <2> HIDE DEF open
  <2>3. row \in Socket /\ row.room = sock[c].room /\ row.user = sock[c].user /\ row.phase = "open"
    BY <2>2 DEF Socket
  <2> HIDE DEF row
  <2>. QED
    BY <2>1, <2>3, <1>3
<1>. QED
  BY <1>4, <1>5, <1>6

(* A copy of the room goes to its sockets, and to all that are in it.      *)
LEMMA Copied ==
    ASSUME PresenceType, CastsInv, NEW m \in Message
    PROVE  /\ Copy(m, entries) \in Cast /\ Copy(m, entries).m = m
           /\ Copy(m, entries).how = "send" /\ Copy(m, entries).dead = {}
           /\ \A d \in Copy(m, entries).to : OfRoom(d[2], m.room)
           /\ \A u \in Users, c \in Sockets :
                entries[m.room][u] = c => <<u, c>> \in Copy(m, entries).to
<1>1. entries \in [Rooms -> [Users -> {None} \cup Sockets]] /\ m.room \in Rooms
  BY DEF PresenceType, Message
<1>2. /\ Copy(m, entries) \in Cast /\ Copy(m, entries).m = m
      /\ Copy(m, entries).how = "send" /\ Copy(m, entries).dead = {}
      /\ \A d \in Copy(m, entries).to :
            \E u \in Users : d = <<u, entries[m.room][u]>> /\ d[2] # None
      /\ \A u \in Users, c \in Sockets :
            entries[m.room][u] = c => <<u, c>> \in Copy(m, entries).to
  BY <1>1, CastTypes
<1>3. \A d \in Copy(m, entries).to : OfRoom(d[2], m.room)
  BY <1>1, <1>2 DEF CastsInv
<1>. QED
  BY <1>2, <1>3

(* A step that changes what one sender is busy with.                       *)
LEMMA CastsKept ==
    ASSUME PresenceType, CastsInv, UNCHANGED <<redis, sock>>, PresenceType',
           \A r \in Rooms, u \in Users : entries'[r][u] # None => entries'[r][u] = entries[r][u],
           NEW h \in Senders, \A g \in Senders \ {h} : sending'[g] = sending[g],
           sending'[h] # None => sending'[h] \in Cast \/ h = Listener,
           sending'[h] # None /\ h = Listener => redis,
           sending'[h] \in Cast =>
              /\ h \in Sockets => OfRoom(h, sending'[h].m.room)
              /\ sending'[h].how = "send"
              /\ \A d \in sending'[h].to : OfRoom(d[2], sending'[h].m.room),
           redis \/ channel' = <<>>
    PROVE  CastsInv'
<1>1. \A c, r : OfRoom(c, r)' <=> OfRoom(c, r)
  BY DEF OfRoom
<1>2. ASSUME NEW c \in Sockets, sending'[c] # None
      PROVE  /\ sending'[c] \in Cast /\ OfRoom(c, sending'[c].m.room)
             /\ sending'[c].how = "publish" => redis
  <2>1. CASE c = h
    BY <2>1, <1>2, SendersDiffer
  <2>2. CASE c # h
    BY <2>2, <1>2, SendersDiffer DEF CastsInv
  <2>. QED
    BY <2>1, <2>2
<1>3. sending'[Listener] \in Cast => sending'[Listener].how = "send"
  BY SendersDiffer DEF CastsInv
<1>4. redis \/ (channel' = <<>> /\ sending'[Listener] = None)
  BY SendersDiffer DEF CastsInv
<1>5. ASSUME NEW g \in Senders, sending'[g] \in Cast, NEW d \in sending'[g].to
      PROVE  OfRoom(d[2], sending'[g].m.room)
  BY <1>5 DEF CastsInv
<1>6. \A r \in Rooms, u \in Users : entries'[r][u] # None => OfRoom(entries'[r][u], r)
  BY DEF CastsInv
<1>. QED
  BY <1>2, <1>3, <1>4, <1>5, <1>6 DEF CastsInv, OfRoom

(* What a sender other than h is busy with, and what it tells, stays.      *)
LEMMA OthersStay ==
    ASSUME NEW h \in Senders, \A g \in Senders \ {h} : sending'[g] = sending[g]
    PROVE  \A r, g : g \in Senders \ {h} =>
              /\ (Busy(r, g)' => Busy(r, g)) /\ (Busy(r, g) => Busy(r, g)')
              /\ (Tells(r, g)' => Tells(r, g)) /\ (Tells(r, g) => Tells(r, g)')
BY DEF Busy, Tells

(* The message of a handler, published or not.                             *)
LEMMA PublishedKeeps ==
    ASSUME PresenceInv, LockInv, NEW c \in Sockets, Published(c) PROVE PresenceInv'
<1>0. PresenceType /\ CastsInv
  BY DEF PresenceInv
<1>a. \A b \in Sockets, r \in Rooms : Here(b, r) => sock[b].user \in Users
  BY DEF LockInv, RoomsType, Socket, Here, OfRoom
<1>1. PICK m \in Message : m = sending[c].m /\ OfRoom(c, m.room) /\ m.room \in Rooms
  BY <1>0, SendersDiffer DEF Published, CastsInv, Cast, Message
<1>2. /\ sending[c] # None /\ sending[c].how = "publish" /\ redis /\ Busy(m.room, c)
      /\ UNCHANGED <<redis, sock, shown, entries>> /\ overlap \subseteq overlap'
  BY <1>0, <1>1 DEF Published, CastsInv, elsewhere, Busy, Lagging
<1>3. c \in Senders /\ c # Listener /\ Listener \in Senders
  BY SendersDiffer
<1>4. CASE /\ channel' = IF Stopped THEN channel ELSE Append(channel, m)
           /\ sending' = [sending EXCEPT ![c] = None]
           /\ overlap' = Lagging(m.room, Stopped)
  <2>1. /\ sending'[c] = None /\ \A g \in Senders \ {c} : sending'[g] = sending[g]
        /\ PresenceType'
    BY <1>0, <1>2, <1>3, <1>4 DEF PresenceType
  <2>2. CastsInv'
    BY <1>0, <1>2, <1>3, <2>1, RoomsAssumptions, CastsKept DEF Cast
  <2>3. /\ ~Stopped => channel' = Append(channel, m) /\ Len(channel') = Len(channel) + 1
                       /\ channel'[Len(channel) + 1] = m
        /\ Stopped => channel' = channel /\ m.room \in overlap'
        /\ Len(channel) \in Nat /\ Len(channel') >= Len(channel)
        /\ \A i \in 1..Len(channel) : channel'[i] = channel[i]
    BY <1>0, <1>4 DEF PresenceType, Lagging
  <2>4. ASSUME NEW r \in Rooms \ overlap', r # m.room PROVE RoomInv(r)'
    <3>1. RoomInv(r) /\ Who(r)' = Who(r)
      BY <2>4, <1>2 DEF PresenceInv, Who
    <3>2. \A i \in Len(channel) + 1..Len(channel') : channel'[i].room # r
      BY <2>3, <2>4
    <3>3. Empty(r) => Empty(r)'
      BY <2>3, <3>2 DEF Empty, Queued
    <3>4. Latest(r) => Latest(r)'
      <4>1. ASSUME NEW i \in 1..Len(channel), Queued(r, i), channel[i].who = Who(r),
                   \A j \in i + 1..Len(channel) : ~Queued(r, j)
            PROVE  Latest(r)'
        <5>1. i \in 1..Len(channel') /\ channel'[i] = channel[i]
          BY <2>3
        <5>2. \A j \in i + 1..Len(channel') :
                 ~(channel'[j].kind = "presence" /\ channel'[j].room = r)
          BY <4>1, <2>3, <3>2 DEF Queued
        <5>. QED
          BY <4>1, <5>1, <5>2, <3>1 DEF Latest, Queued
      <4>. QED
        BY <4>1 DEF Latest
    <3>5. Waiting(r)' => Waiting(r)
      <4>1. Busy(r, Listener)' => Busy(r, Listener)
        BY <2>1, <1>3 DEF Busy
      <4>2. ASSUME NEW i \in DOMAIN channel', channel'[i].room = r
            PROVE  i \in DOMAIN channel /\ channel[i].room = r
        <5>1. i \in 1..Len(channel')
          BY <4>2, <2>1 DEF PresenceType
        <5>. QED
          BY <4>2, <5>1, <2>3, <3>2, <1>0 DEF PresenceType
      <4>. QED
        BY <4>1, <4>2 DEF Waiting
    <3>6. \A h \in Senders : /\ Busy(r, h) => sending'[h] = sending[h]
                             /\ Busy(r, h)' => sending'[h] = sending[h]
      BY <2>1, <2>4, <1>1 DEF Busy
    <3>. QED
      BY <3>1, <3>3, <3>4, <3>5, <3>6, <1>2, RoomStays DEF Here, Due, OfRoom
  <2>5. ASSUME NEW r \in Rooms \ overlap', r = m.room PROVE RoomInv(r)'
    <3>1. RoomInv(r) /\ Who(r)' = Who(r) /\ ~Stopped
      BY <2>3, <2>5, <1>2 DEF PresenceInv, Who
    <3>2. \A h \in Sockets : Busy(r, h) => h = c
      BY <3>1, <2>5, <1>2 DEF RoomInv
    <3>3. \A h \in Sockets : ~Busy(r, h)'
      BY <3>2, <2>1, SendersDiffer DEF Busy
    <3>4. Quiet(r)'
      BY <3>3 DEF Quiet, Tells
    <3>5. /\ Tells(r, Listener) => Tells(r, Listener)'
          /\ Tells(r, Listener)' => Tells(r, Listener)
          /\ sending'[Listener] = sending[Listener]
      BY <2>1, <1>3 DEF Busy, Tells
    <3>6. Ill(r) => Ill(r)'
      BY <1>2, <2>1 DEF Ill, Busy
    <3>7. Announced(r) => Enqueued(r)'
      <4>1. ASSUME Announced(r) PROVE m.kind = "presence" /\ m.who = Who(r)
        BY <4>1, <3>2, <1>1 DEF Announced, Tells, Fresh
      <4>2. ASSUME Announced(r) PROVE Latest(r)'
        <5>1. /\ Len(channel) + 1 \in 1..Len(channel')
              /\ channel'[Len(channel) + 1] = m /\ Len(channel') = Len(channel) + 1
          BY <2>3, <3>1
        <5>. QED
          BY <5>1, <4>1, <4>2, <3>1, <2>5 DEF Latest, Queued
      <4>. QED
        BY <4>2, <3>4 DEF Enqueued
    <3>8. Quiet(r) => m.kind # "presence"
      BY <1>1, <1>2, <2>5 DEF Quiet, Tells
    <3>9. Quiet(r) => \A i \in Len(channel) + 1..Len(channel') : channel'[i].kind # "presence"
      BY <3>8, <3>1, <2>3
    <3>10. Quiet(r) /\ Empty(r) => Empty(r)'
      BY <3>9, <2>3 DEF Empty, Queued
    <3>11. Enqueued(r) => Enqueued(r)'
      <4>1. ASSUME NEW i \in 1..Len(channel), Queued(r, i), channel[i].who = Who(r), Quiet(r),
                   \A j \in i + 1..Len(channel) : ~Queued(r, j)
            PROVE  Latest(r)'
        <5>1. i \in 1..Len(channel') /\ channel'[i] = channel[i]
          BY <2>3
        <5>2. \A j \in i + 1..Len(channel') :
                 ~(channel'[j].kind = "presence" /\ channel'[j].room = r)
          BY <4>1, <2>3, <3>9 DEF Queued
        <5>. QED
          BY <4>1, <5>1, <5>2, <3>1 DEF Latest, Queued
      <4>. QED
        BY <4>1, <3>4 DEF Enqueued, Latest
    <3>12. Underway(r) => Underway(r)'
      BY <3>1, <3>4, <3>5, <3>10, <1>2 DEF Underway, Fresh, Here, OfRoom
    <3>13. Seen(r) => Seen(r)'
      BY <3>1, <3>4, <3>5, <3>10, <1>2 DEF Seen, Here, OfRoom
    <3>14. \A b \in Sockets : (Due(b, r) => Due(b, r)') /\ (Here(b, r)' => Here(b, r))
      BY <1>2 DEF Due, Here, OfRoom
    <3>15. InStep(r)'
      BY <3>1, <3>6, <3>7, <3>11, <3>12, <3>13, <3>14 DEF RoomInv, InStep
    <3>. QED
      BY <3>1, <3>3, <3>14, <3>15, <1>2 DEF RoomInv
  <2>. QED
    BY <2>1, <2>2, <2>4, <2>5 DEF PresenceInv
<1>5. CASE /\ sending' = [sending EXCEPT ![c] = Copy(m, entries)]
           /\ overlap' = Lagging(m.room, Waiting(m.room))
           /\ UNCHANGED channel
  <2>1. PICK s \in Cast :
           /\ s = Copy(m, entries) /\ s.m = m /\ s.how = "send" /\ s.dead = {}
           /\ \A d \in s.to : OfRoom(d[2], m.room)
           /\ \A u \in Users, b \in Sockets : entries[m.room][u] = b => <<u, b>> \in s.to
    BY <1>0, Copied
  <2>2. /\ sending'[c] = s /\ \A g \in Senders \ {c} : sending'[g] = sending[g]
        /\ PresenceType'
    BY <1>0, <1>2, <1>3, <1>5, <2>1 DEF PresenceType
  <2>3. CastsInv'
    BY <1>0, <1>1, <1>2, <1>3, <2>1, <2>2, CastsKept
  <2>4. ASSUME NEW r \in Rooms \ overlap', r # m.room PROVE RoomInv(r)'
    <3>1. RoomInv(r)
      BY <2>4, <1>2 DEF PresenceInv
    <3>2. \A h \in Senders : /\ Busy(r, h) => sending'[h] = sending[h]
                             /\ Busy(r, h)' => sending'[h] = sending[h]
      BY <2>1, <2>2, <2>4, <1>1 DEF Busy
    <3>. QED
      BY <3>1, <3>2, <1>2, <1>5, RoomRests DEF Here, Due, OfRoom
  <2>5. ASSUME NEW r \in Rooms \ overlap', r = m.room PROVE RoomInv(r)'
    <3>1. RoomInv(r) /\ Who(r)' = Who(r) /\ ~Waiting(r)
      BY <2>5, <1>2, <1>5 DEF PresenceInv, Who, Lagging
    <3>2. ~Busy(r, Listener) /\ \A i \in 1..Len(channel) : channel[i].room # r
      BY <3>1, <1>0 DEF Waiting, PresenceType
    <3>3. \A h \in Sockets : Busy(r, h) => h = c
      BY <3>1, <2>5, <1>2 DEF RoomInv
    <3>4. \A h \in Sockets : Busy(r, h)' => h = c
      BY <3>3, <2>2, SendersDiffer DEF Busy
    <3>5. ~Waiting(r)'
      BY <3>1, <2>2, <1>3, <1>5 DEF Waiting, Busy
    <3>6. ~Ill(r)
      BY <3>2, <3>3, <1>2, SendersDiffer DEF Ill, Senders
    <3>7. \A b \in Sockets : (Due(b, r) => Due(b, r)') /\ (Here(b, r)' => Here(b, r))
      BY <1>2 DEF Due, Here, OfRoom
    <3>8. Announced(r) => Announced(r)'
      <4>1. ASSUME Announced(r) PROVE m.kind = "presence" /\ m.who = Who(r)
        BY <4>1, <3>3, <1>1 DEF Announced, Tells, Fresh
      <4>2. ASSUME Announced(r) PROVE Tells(r, c)' /\ sending'[c].m.who = Who(r)'
        BY <4>1, <4>2, <3>1, <2>1, <2>2, <2>5, RoomsAssumptions DEF Tells, Busy
      <4>3. ASSUME NEW b \in Sockets, Here(b, r)'
            PROVE  \E u \in Users : <<u, b>> \in sending'[c].to
        <5>1. Here(b, r) /\ entries[r][sock[b].user] = b
          BY <4>3, <3>1, <3>7 DEF RoomInv
        <5>2. sock[b].user \in Users
          BY <5>1, <1>a
        <5>. QED
          BY <5>1, <5>2, <2>1, <2>2, <2>5
      <4>. QED
        BY <4>2, <4>3 DEF Announced, Fresh
    <3>9. ~Enqueued(r) /\ ~Underway(r)
      BY <3>2 DEF Enqueued, Latest, Queued, Underway, Tells
    <3>10. Seen(r) => Seen(r)'
      <4>1. Quiet(r) => Quiet(r)'
        BY <3>4, <2>1, <2>2, <1>1, <1>2, <2>5, SendersDiffer DEF Quiet, Tells, Busy
      <4>2. (Empty(r) => Empty(r)') /\ (Tells(r, Listener)' => Tells(r, Listener))
        BY <1>3, <1>5, <2>2 DEF Empty, Queued, Tells, Busy
      <4>. QED
        BY <4>1, <4>2, <3>1, <3>7, <1>2 DEF Seen
    <3>11. InStep(r)'
      BY <3>1, <3>6, <3>7, <3>8, <3>9, <3>10 DEF RoomInv, InStep
    <3>. QED
      BY <3>1, <3>4, <3>5, <3>7, <3>11, <1>2 DEF RoomInv
  <2>. QED
    BY <2>2, <2>3, <2>4, <2>5 DEF PresenceInv
<1>. QED
  BY <1>1, <1>4, <1>5 DEF Published

(* The listener takes the oldest message.                                  *)
LEMMA TakeKeeps == ASSUME PresenceInv, LockInv, Take PROVE PresenceInv'
<1>0. PresenceType /\ CastsInv
  BY DEF PresenceInv
<1>a. \A b \in Sockets, r \in Rooms : Here(b, r) => sock[b].user \in Users
  BY DEF LockInv, RoomsType, Socket, Here, OfRoom
<1>1. /\ channel \in Seq(Message) /\ channel # <<>> /\ sending[Listener] = None
      /\ UNCHANGED <<redis, sock, shown, entries, overlap>> /\ channel' = Tail(channel)
      /\ sending' = [sending EXCEPT ![Listener] = Copy(Head(channel), entries)]
  BY <1>0 DEF Take, PresenceType, elsewhere
<1>b. channel[1] \in Message /\ Head(channel) = channel[1]
  BY <1>1
<1>2. PICK m \in Message : m = Head(channel) /\ m = channel[1] /\ m.room \in Rooms
  BY <1>b DEF Message
<1>3. /\ Len(channel) \in Nat \ {0} /\ Len(channel') = Len(channel) - 1
      /\ \A i \in 1..Len(channel') : channel'[i] = channel[i + 1]
      /\ channel' \in Seq(Message) /\ DOMAIN channel = 1..Len(channel)
      /\ DOMAIN channel' = 1..Len(channel')
  BY <1>1
<1>4. PICK s \in Cast :
         /\ s = Copy(m, entries) /\ s.m = m /\ s.how = "send" /\ s.dead = {}
         /\ \A d \in s.to : OfRoom(d[2], m.room)
         /\ \A u \in Users, b \in Sockets : entries[m.room][u] = b => <<u, b>> \in s.to
  BY <1>0, Copied
<1>5. /\ sending'[Listener] = s /\ \A g \in Senders \ {Listener} : sending'[g] = sending[g]
      /\ PresenceType'
  BY <1>0, <1>1, <1>2, <1>3, <1>4, SendersDiffer DEF PresenceType
<1>6. CastsInv'
  <2>1. redis
    BY <1>0, <1>1 DEF CastsInv
  <2>. QED
    BY <2>1, <1>0, <1>1, <1>4, <1>5, SendersDiffer, CastsKept
<1>7. \A r \in Rooms : (Empty(r) => Empty(r)') /\ Who(r)' = Who(r)
  BY <1>1, <1>3 DEF Empty, Queued, Who
<1>8. ASSUME NEW r \in Rooms, Latest(r), ~(m.room = r /\ m.kind = "presence" /\ m.who = Who(r)
                                           /\ Empty(r)')
      PROVE  Latest(r)'
  <2>1. PICK i \in 1..Len(channel) : /\ Queued(r, i) /\ channel[i].who = Who(r)
                                     /\ \A j \in i + 1..Len(channel) : ~Queued(r, j)
    BY <1>8 DEF Latest
  <2>2. \A j \in i..Len(channel') : ~(channel'[j].kind = "presence" /\ channel'[j].room = r)
    BY <2>1, <1>3 DEF Queued
  <2>3. i # 1
    BY <2>1, <2>2, <1>2, <1>8 DEF Queued, Empty
  <2>4. /\ i - 1 \in 1..Len(channel') /\ channel'[i - 1] = channel[i]
        /\ (i - 1) + 1..Len(channel') = i..Len(channel')
    BY <2>3, <1>3
  <2>. QED
    BY <2>1, <2>2, <2>4, <1>7 DEF Latest, Queued
<1>9. \A r \in Rooms, b \in Sockets : (Due(b, r) => Due(b, r)') /\ (Here(b, r)' => Here(b, r))
  BY <1>1 DEF Due, Here, OfRoom
<1>10. ASSUME NEW r \in Rooms \ overlap', r # m.room PROVE RoomInv(r)'
  <2>1. RoomInv(r)
    BY <1>10, <1>1 DEF PresenceInv
  <2>2. \A h \in Senders : /\ Busy(r, h) => sending'[h] = sending[h]
                           /\ Busy(r, h)' => sending'[h] = sending[h]
    BY <1>1, <1>4, <1>5, <1>10 DEF Busy
  <2>3. Waiting(r)' => Waiting(r)
    <3>1. ~Busy(r, Listener)'
      BY <1>4, <1>5, <1>10 DEF Busy
    <3>2. \A i \in DOMAIN channel' : i + 1 \in DOMAIN channel /\ channel'[i] = channel[i + 1]
      BY <1>3
    <3>. QED
      BY <3>1, <3>2 DEF Waiting
  <2>. QED
    BY <2>1, <2>2, <2>3, <1>1, <1>7, <1>8, <1>10, RoomStays DEF Here, OfRoom, Due
<1>11. ASSUME NEW r \in Rooms \ overlap', r = m.room PROVE RoomInv(r)'
  <2>1. RoomInv(r) /\ Waiting(r) /\ ~Busy(r, Listener)
    BY <1>1, <1>2, <1>3, <1>11 DEF PresenceInv, Waiting, Busy
  <2>2. \A h \in Sockets : /\ sending'[h] = sending[h]
                           /\ (Busy(r, h) => Busy(r, h)') /\ (Busy(r, h)' => Busy(r, h))
                           /\ (Tells(r, h) => Tells(r, h)') /\ (Tells(r, h)' => Tells(r, h))
    BY <1>5, SendersDiffer DEF Busy, Tells
  <2>3. Quiet(r) => Quiet(r)'
    BY <2>2 DEF Quiet
  <2>4. Ill(r) => Ill(r)'
    BY <2>1, <2>2, SendersDiffer DEF Ill, Senders
  <2>5. Announced(r) => Announced(r)'
    BY <2>2, <1>1, <1>7 DEF Announced, Fresh, Here, OfRoom
  <2>6. ASSUME m.kind = "presence", m.who = Who(r), Empty(r)', Quiet(r) PROVE Underway(r)'
    <3>1. Tells(r, Listener)' /\ sending'[Listener].m.who = Who(r)'
      BY <2>6, <1>4, <1>5, <1>7, <1>11, RoomsAssumptions DEF Tells, Busy
    <3>2. ASSUME NEW b \in Sockets, Here(b, r)'
          PROVE  \E u \in Users : <<u, b>> \in sending'[Listener].to
      <4>1. Here(b, r) /\ entries[r][sock[b].user] = b /\ sock[b].user \in Users
        BY <3>2, <2>1, <1>9, <1>a DEF RoomInv
      <4>. QED
        BY <4>1, <1>4, <1>5, <1>11
    <3>. QED
      BY <2>3, <2>6, <3>1, <3>2 DEF Underway, Fresh
  <2>7. Enqueued(r) => Enqueued(r)' \/ Underway(r)'
    BY <2>3, <2>6, <1>8, <1>11 DEF Enqueued
  <2>8. ~Underway(r)
    BY <2>1 DEF Underway, Tells
  <2>9. Seen(r) => Seen(r)'
    <3>1. Empty(r) => m.kind # "presence"
      BY <1>2, <1>3, <1>11 DEF Empty, Queued
    <3>2. Empty(r) => ~Tells(r, Listener)'
      BY <3>1, <1>4, <1>5 DEF Tells
    <3>. QED
      BY <2>3, <3>2, <1>1, <1>7, <1>9 DEF Seen
  <2>10. InStep(r)'
    BY <2>1, <2>4, <2>5, <2>7, <2>8, <2>9, <1>9 DEF RoomInv, InStep
  <2>11. \A h \in Sockets : Busy(r, h) => sending[h].how # "send"
    BY <2>1 DEF RoomInv
  <2>. QED
    BY <2>1, <2>2, <2>10, <2>11, <1>1, <1>9 DEF RoomInv
<1>. QED
  BY <1>5, <1>6, <1>10, <1>11 DEF PresenceInv

(* The listener ends, and with it what was queued.                         *)
LEMMA ListenerStopsKeeps == ASSUME PresenceInv, ListenerStops PROVE PresenceInv'
<1>0. PresenceType /\ CastsInv
  BY DEF PresenceInv
<1>1. /\ sending[Listener] = None /\ redis /\ UNCHANGED <<redis, sock, shown, entries>>
      /\ channel' = <<>> /\ overlap \subseteq overlap'
      /\ \A i \in DOMAIN channel : channel[i].room \in overlap'
      /\ sending' = [sending EXCEPT ![Listener] = Halted]
  BY DEF ListenerStops, elsewhere
<1>2. Halted.m.room = None /\ Halted.how = "stopped" /\ Halted \notin Cast
  BY DEF Halted, Other, Cast
<1>3. /\ sending'[Listener] = Halted /\ \A g \in Senders \ {Listener} : sending'[g] = sending[g]
      /\ PresenceType'
  BY <1>0, <1>1, SendersDiffer DEF PresenceType
<1>4. CastsInv'
  BY <1>0, <1>1, <1>2, <1>3, SendersDiffer, CastsKept
<1>5. ASSUME NEW r \in Rooms \ overlap' PROVE RoomInv(r)'
  <2>1. RoomInv(r)
    BY <1>1 DEF PresenceInv
  <2>2. Len(channel') = 0 /\ DOMAIN channel' = {} /\ DOMAIN channel = 1..Len(channel)
    BY <1>0, <1>1 DEF PresenceType
  <2>3. ~Latest(r)
    BY <1>1, <2>2 DEF Latest, Queued
  <2>4. Empty(r)'
    BY <2>2 DEF Empty
  <2>5. ~Busy(r, Listener)' /\ ~Busy(r, Listener)
    BY <1>1, <1>2, <1>3, RoomsAssumptions DEF Busy
  <2>6. ~Waiting(r)'
    BY <2>2, <2>5 DEF Waiting
  <2>7. \A h \in Senders : /\ Busy(r, h) => sending'[h] = sending[h]
                           /\ Busy(r, h)' => sending'[h] = sending[h]
    BY <1>3, <2>5 DEF Busy
  <2>. QED
    BY <2>1, <2>3, <2>4, <2>6, <2>7, <1>1, RoomStays DEF Here, Due, OfRoom
<1>. QED
  BY <1>3, <1>4, <1>5 DEF PresenceInv

(* A sender reaches one more socket, or loses it.                          *)
LEMMA SendKeeps ==
    ASSUME PresenceInv, LockInv, NEW h \in Senders, Send(h) PROVE PresenceInv'
<1>0. PresenceType /\ CastsInv
  BY DEF PresenceInv
<1>a. \A b \in Sockets, r \in Rooms : Here(b, r) => sock[b].user \in Users
  BY DEF LockInv, RoomsType, Socket, Here, OfRoom
<1>1. PICK s \in Cast : s = sending[h] /\ s.how = "send" /\ s # None
  BY <1>0, SendersDiffer DEF Send, Sending, CastsInv, PresenceType, Senders, Halted
<1>2. PICK m \in Message : m = s.m /\ m.room \in Rooms
  BY DEF Cast, Message
<1>3. PICK d \in s.to :
         /\ sending' = [sending EXCEPT ![h].to = @ \ {d},
                                       ![h].dead = IF sock[d[2]].up THEN @ ELSE @ \cup {d[1]}]
         /\ shown' = IF sock[d[2]].up /\ m.kind = "presence"
                     THEN [shown EXCEPT ![d[2]] = m.who] ELSE shown
  BY <1>1, <1>2 DEF Send
<1>4. PICK v \in Users, c \in Sockets : d = <<v, c>> /\ d[1] = v /\ d[2] = c /\ OfRoom(c, m.room)
  BY <1>0, <1>1, <1>2 DEF Cast, CastsInv
<1>5. UNCHANGED <<redis, sock, entries, channel, overlap>>
  BY DEF Send, elsewhere
<1>6. PICK t \in Cast :
         /\ t.m = m /\ t.how = "send" /\ t.to = s.to \ {d}
         /\ t.dead = (IF sock[c].up THEN s.dead ELSE s.dead \cup {v})
         /\ sending' = [sending EXCEPT ![h] = t]
  <2> DEFINE left == [s EXCEPT !.to = s.to \ {d}]
             t == [left EXCEPT !.dead = IF sock[c].up THEN @ ELSE @ \cup {v}]
  <2>1. /\ left \in Cast /\ left.m = m /\ left.how = "send" /\ left.to = s.to \ {d}
        /\ left.dead = s.dead
    BY <1>1, <1>2 DEF Cast
  <2>2. /\ t = [left EXCEPT !.dead = IF sock[c].up THEN left.dead ELSE left.dead \cup {v}]
        /\ sending' = [sending EXCEPT ![h] = t]
    <3>1. sending \in [Senders -> {None, Halted} \cup Cast]
      BY <1>0 DEF PresenceType
    <3> DEFINE f == [sending EXCEPT ![h] = left]
               dead == IF sock[c].up THEN left.dead ELSE left.dead \cup {v}
    <3>2. left = [sending[h] EXCEPT !.to = @ \ {d}] /\ [sending EXCEPT ![h].to = @ \ {d}] = f
      BY <1>1
    <3>3. f[h] = left
      BY <3>1
    <3>4. sending' = [f EXCEPT ![h].dead = IF sock[d[2]].up THEN @ ELSE @ \cup {d[1]}]
      BY <3>2, <1>3
    <3> HIDE DEF left
    <3>5. sending' = [f EXCEPT ![h] = [f[h] EXCEPT !.dead = dead]]
      BY <3>3, <3>4, <1>4
    <3>6. t = [f[h] EXCEPT !.dead = dead]
      BY <3>3
    <3> HIDE DEF t
    <3>7. sending' = [f EXCEPT ![h] = t] /\ [f EXCEPT ![h] = t] = [sending EXCEPT ![h] = t]
      BY <3>1, <3>5, <3>6
    <3>. QED
      BY <3>6, <3>7, <3>3
  <2> HIDE DEF left, t
  <2>3. /\ t \in Cast /\ t.m = m /\ t.how = "send" /\ t.to = s.to \ {d}
        /\ t.dead = (IF sock[c].up THEN s.dead ELSE s.dead \cup {v})
    BY <2>1, <2>2 DEF Cast
  <2>. QED
    BY <2>2, <2>3
<1>7. /\ sending'[h] = t /\ \A g \in Senders \ {h} : sending'[g] = sending[g]
      /\ \A b \in Sockets : shown'[b] = IF b = c /\ sock[c].up /\ m.kind = "presence"
                                        THEN m.who ELSE shown[b]
      /\ PresenceType'
  <2>1. m.who \in SUBSET Users /\ shown \in [Sockets -> SUBSET Users]
    BY <1>0 DEF Message, PresenceType
  <2>2. /\ sending' \in [Senders -> {None, Halted} \cup Cast]
        /\ sending'[h] = t /\ \A g \in Senders \ {h} : sending'[g] = sending[g]
    BY <1>0, <1>6 DEF PresenceType
  <2>3. shown' = IF sock[c].up /\ m.kind = "presence" THEN [shown EXCEPT ![c] = m.who] ELSE shown
    BY <1>3, <1>4
  <2>4. /\ shown' \in [Sockets -> SUBSET Users]
        /\ \A b \in Sockets : shown'[b] = IF b = c /\ sock[c].up /\ m.kind = "presence"
                                          THEN m.who ELSE shown[b]
    BY <2>1, <2>3
  <2>. QED
    BY <2>2, <2>4, <1>0, <1>5 DEF PresenceType
<1>8. CastsInv'
  <2>1. redis \/ channel' = <<>>
    BY <1>0, <1>5 DEF CastsInv
  <2>2. h \in Sockets => OfRoom(h, m.room)
    BY <1>0, <1>1, <1>2 DEF CastsInv
  <2>3. h = Listener => redis
    BY <1>0, <1>1 DEF CastsInv
  <2>4. \A x \in s.to : OfRoom(x[2], m.room)
    BY <1>0, <1>1, <1>2 DEF CastsInv
  <2>. QED
    BY <2>1, <2>2, <2>3, <2>4, <1>0, <1>5, <1>6, <1>7, CastsKept
<1>9. ASSUME NEW r \in Rooms \ overlap', r # m.room PROVE RoomInv(r)'
  <2>1. RoomInv(r)
    BY <1>5, <1>9 DEF PresenceInv
  <2>2. \A g \in Senders : /\ Busy(r, g) => sending'[g] = sending[g]
                           /\ Busy(r, g)' => sending'[g] = sending[g]
    BY <1>1, <1>2, <1>6, <1>7, <1>9 DEF Busy
  <2>3. \A b \in Sockets : Here(b, r) => shown'[b] = shown[b]
    BY <1>4, <1>7, <1>9 DEF Here, OfRoom
  <2>. QED
    BY <2>1, <2>2, <2>3, <1>5, RoomRests DEF Here, Due, OfRoom
<1>10. ASSUME NEW r \in Rooms \ overlap', r = m.room PROVE RoomInv(r)'
  <2>1. RoomInv(r) /\ Who(r)' = Who(r) /\ (Empty(r) => Empty(r)') /\ (Latest(r) => Latest(r)')
    BY <1>5, <1>10 DEF PresenceInv, Who, Empty, Latest, Queued
  <2>2. /\ Busy(r, h) /\ Busy(r, h)' /\ (Tells(r, h) <=> m.kind = "presence")
        /\ (Tells(r, h)' <=> m.kind = "presence")
    BY <1>1, <1>2, <1>6, <1>7, <1>10, RoomsAssumptions DEF Busy, Tells
  <2>3. \A g \in Senders : /\ (Busy(r, g) => Busy(r, g)') /\ (Busy(r, g)' => Busy(r, g))
                           /\ (Tells(r, g) => Tells(r, g)') /\ (Tells(r, g)' => Tells(r, g))
                           /\ (Busy(r, g) => sending'[g].how = sending[g].how)
    BY <2>2, <1>1, <1>6, <1>7 DEF Busy, Tells
  <2>4. \A b \in Sockets : (Due(b, r) => Due(b, r)') /\ (Here(b, r)' => Here(b, r))
    BY <1>5 DEF Due, Here, OfRoom
  <2>5. (Quiet(r) => Quiet(r)') /\ (Waiting(r)' => Waiting(r))
    BY <2>3, <1>5, SendersDiffer DEF Quiet, Waiting
  <2>6. Ill(r) \/ ~sock[c].up => Ill(r)'
    <3>1. ASSUME NEW g \in Senders, Busy(r, g), sending[g].how = "send", sending[g].dead # {}
          PROVE  Ill(r)'
      BY <3>1, <2>3, <1>1, <1>6, <1>7 DEF Ill
    <3>2. ASSUME ~sock[c].up PROVE Ill(r)'
      BY <3>2, <2>2, <1>6, <1>7 DEF Ill
    <3>. QED
      BY <3>1, <3>2 DEF Ill
  <2>7. h \in Sockets => ~Waiting(r)
    BY <2>1, <2>2, <1>1 DEF RoomInv
  <2>8. ASSUME sock[c].up, Tells(r, h), Fresh(r, h) PROVE Fresh(r, h)'
    <3>1. m.who = Who(r) /\ m.kind = "presence"
      BY <2>2, <2>8, <1>1, <1>2 DEF Fresh
    <3>2. ASSUME NEW b \in Sockets, Here(b, r)'
          PROVE  shown'[b] = Who(r) \/ \E u \in Users : <<u, b>> \in t.to
      <4>1. shown[b] = Who(r) \/ \E u \in Users : <<u, b>> \in s.to
        BY <3>2, <2>4, <2>8, <1>1 DEF Fresh
      <4>2. CASE b = c
        BY <4>2, <3>1, <2>8, <1>7
      <4>3. CASE b # c
        <5>1. shown'[b] = shown[b] /\ \A u \in Users : <<u, b>> # d
          BY <4>3, <1>4, <1>7
        <5>. QED
          BY <4>1, <5>1, <1>6
      <4>. QED
        BY <4>2, <4>3
    <3>. QED
      BY <3>1, <3>2, <2>1, <1>6, <1>7 DEF Fresh
  <2>9. ASSUME sock[c].up, Announced(r) PROVE Announced(r)'
    <3>1. PICK g \in Sockets : Tells(r, g) /\ Fresh(r, g)
      BY <2>9 DEF Announced
    <3>2. CASE g = h
      BY <3>1, <3>2, <2>3, <2>8, <2>9 DEF Announced
    <3>3. CASE g # h
      <4>1. h = Listener
        BY <3>1, <3>3, <2>1, <2>2 DEF RoomInv, Tells, Senders
      <4>2. sending[g].how # "send"
        BY <4>1, <3>1, <2>1, <2>2 DEF RoomInv, Tells, Waiting
      <4>3. sending'[g] = sending[g]
        BY <3>3, <1>7, SendersDiffer
      <4>4. Fresh(r, g)' /\ Tells(r, g)'
        BY <4>2, <4>3, <3>1, <2>1, <2>3, SendersDiffer DEF Fresh
      <4>. QED
        BY <4>4 DEF Announced
    <3>. QED
      BY <3>2, <3>3
  <2>10. Enqueued(r) => Enqueued(r)'
    BY <2>1, <2>5 DEF Enqueued
  <2>11. ASSUME sock[c].up, Underway(r) PROVE Underway(r)'
    <3>1. h = Listener
      BY <2>7, <2>11 DEF Underway, Tells, Waiting, Senders
    <3>. QED
      BY <3>1, <2>1, <2>3, <2>5, <2>8, <2>11 DEF Underway
  <2>12. Seen(r) => Seen(r)'
    <3>1. ASSUME Seen(r) PROVE m.kind # "presence"
      BY <3>1, <2>2 DEF Seen, Quiet, Senders
    <3>. QED
      BY <3>1, <2>1, <2>3, <2>4, <2>5, <1>7, SendersDiffer DEF Seen
  <2>13. InStep(r)'
    BY <2>1, <2>4, <2>6, <2>9, <2>10, <2>11, <2>12 DEF RoomInv, InStep
  <2>. QED
    BY <2>1, <2>3, <2>4, <2>5, <2>13, <1>5, SendersDiffer DEF RoomInv
<1>. QED
  BY <1>7, <1>8, <1>9, <1>10 DEF PresenceInv

(* A sender is done, and drops the sockets that failed.                    *)
LEMMA SentKeeps ==
    ASSUME PresenceInv, LockInv, NEW h \in Senders, Sent(h) PROVE PresenceInv'
<1>0. PresenceType /\ CastsInv
  BY DEF PresenceInv
<1>1. PICK s \in Cast : s = sending[h] /\ s.how = "send" /\ s # None /\ s.to = {}
  BY <1>0, SendersDiffer DEF Sent, Sending, CastsInv, PresenceType, Senders, Halted
<1>2. PICK m \in Message : m = s.m /\ m.room \in Rooms
  BY DEF Cast, Message
<1>3. /\ UNCHANGED <<redis, sock, shown, channel>> /\ entries' = Without(entries, m.room, s.dead)
      /\ overlap' = Lagging(m.room, s.dead # {}) /\ sending' = [sending EXCEPT ![h] = None]
  BY <1>1, <1>2 DEF Sent, elsewhere
<1>4. /\ overlap \subseteq overlap' /\ (m.room \notin overlap' => s.dead = {})
      /\ sending'[h] = None /\ \A g \in Senders \ {h} : sending'[g] = sending[g]
  BY <1>0, <1>3 DEF Lagging, PresenceType
<1>5. /\ \A r \in Rooms : r # m.room \/ s.dead = {} => entries'[r] = entries[r]
      /\ \A r \in Rooms, u \in Users : entries'[r][u] \in {None, entries[r][u]}
      /\ entries' \in [Rooms -> [Users -> {None} \cup Sockets]]
  <2>1. entries \in [Rooms -> [Users -> {None} \cup Sockets]]
    BY <1>0 DEF PresenceType
  <2>2. /\ entries' \in [Rooms -> [Users -> {None} \cup Sockets]]
        /\ \A r \in Rooms \ {m.room} : entries'[r] = entries[r]
        /\ \A u \in Users :
             entries'[m.room][u] = IF u \in s.dead THEN None ELSE entries[m.room][u]
    BY <2>1, <1>2, <1>3 DEF Without
  <2>3. ASSUME s.dead = {} PROVE entries'[m.room] = entries[m.room]
    <3>1. entries'[m.room] \in [Users -> {None} \cup Sockets]
      BY <2>2, <1>2
    <3>2. entries[m.room] \in [Users -> {None} \cup Sockets]
      BY <2>1, <1>2
    <3>3. \A u \in Users : entries'[m.room][u] = entries[m.room][u]
      BY <2>2, <2>3
    <3>. QED
      BY <3>1, <3>2, <3>3
  <2>. QED
    BY <2>2, <2>3
<1>6. PresenceType'
  BY <1>0, <1>3, <1>5 DEF PresenceType
<1>7. CastsInv'
  <2>1. redis \/ channel' = <<>>
    BY <1>0, <1>3 DEF CastsInv
  <2>. QED
    BY <2>1, <1>0, <1>3, <1>4, <1>5, <1>6, RoomsAssumptions, CastsKept
<1>8. ASSUME NEW r \in Rooms \ overlap', r # m.room PROVE RoomInv(r)'
  <2>1. RoomInv(r) /\ entries'[r] = entries[r]
    BY <1>4, <1>5, <1>8 DEF PresenceInv
  <2>2. \A g \in Senders : /\ Busy(r, g) => sending'[g] = sending[g]
                           /\ Busy(r, g)' => sending'[g] = sending[g]
    BY <1>1, <1>2, <1>4, <1>8 DEF Busy
  <2>. QED
    BY <2>1, <2>2, <1>3, RoomRests DEF Here, Due, OfRoom
<1>9. ASSUME NEW r \in Rooms \ overlap', r = m.room PROVE RoomInv(r)'
  <2>1. /\ RoomInv(r) /\ entries'[r] = entries[r] /\ Who(r)' = Who(r)
        /\ (Empty(r) => Empty(r)') /\ (Latest(r) => Latest(r)')
    BY <1>3, <1>4, <1>5, <1>9 DEF PresenceInv, Who, Empty, Latest, Queued
  <2>2. Busy(r, h) /\ ~Busy(r, h)' /\ ~Tells(r, h)'
    BY <1>1, <1>2, <1>4, <1>9 DEF Busy, Tells
  <2>3. \A g \in Senders : (Busy(r, g)' => g # h /\ Busy(r, g) /\ sending'[g] = sending[g])
    BY <2>2, <1>4 DEF Busy
  <2>4. \A g \in Senders : g # h /\ Busy(r, g) => Busy(r, g)' /\ sending'[g] = sending[g]
    BY <1>4 DEF Busy
  <2>5. \A b \in Sockets : (Due(b, r) => Due(b, r)') /\ (Here(b, r)' => Here(b, r))
    BY <1>3 DEF Due, Here, OfRoom
  <2>6. (Quiet(r) => Quiet(r)') /\ (Waiting(r)' => Waiting(r))
    BY <2>3, <1>3, SendersDiffer DEF Quiet, Waiting, Tells
  <2>7. Ill(r) => Ill(r)'
    BY <2>4, <1>1, <1>4, <1>9 DEF Ill
  <2>8. h \in Sockets => ~Waiting(r)
    BY <2>1, <2>2, <1>1 DEF RoomInv
  <2>9. Fresh(r, h) => \A b \in Sockets : Here(b, r) => shown[b] = Who(r)
    BY <1>1 DEF Fresh
  <2>10. Announced(r) => Announced(r)' \/ Seen(r)'
    <3>1. ASSUME NEW g \in Sockets, Tells(r, g), Fresh(r, g), g # h PROVE Announced(r)'
      <4>1. sending'[g] = sending[g] /\ Tells(r, g)'
        BY <3>1, <2>4, SendersDiffer DEF Tells
      <4>2. Fresh(r, g)'
        BY <4>1, <3>1, <2>1, <2>5, <1>3 DEF Fresh
      <4>. QED
        BY <4>1, <4>2 DEF Announced
    <3>2. ASSUME Tells(r, h), Fresh(r, h), h \in Sockets PROVE Seen(r)'
      <4>1. Quiet(r)'
        BY <3>2, <2>1, <2>2, <2>3, SendersDiffer DEF Quiet, Tells, RoomInv
      <4>2. Empty(r) /\ ~Busy(r, Listener)
        BY <3>2, <2>8, <1>0 DEF Waiting, Empty, Queued, PresenceType
      <4>3. ~Tells(r, Listener)'
        BY <4>2, <2>3, SendersDiffer DEF Tells
      <4>. QED
        BY <4>1, <4>2, <4>3, <3>2, <2>1, <2>5, <2>9, <1>3 DEF Seen
    <3>. QED
      BY <3>1, <3>2 DEF Announced
  <2>11. Enqueued(r) => Enqueued(r)'
    BY <2>1, <2>6 DEF Enqueued
  <2>12. Underway(r) => Underway(r)' \/ Seen(r)'
    <3>1. ASSUME Underway(r) PROVE h = Listener
      BY <3>1, <2>8 DEF Underway, Tells, Waiting, Senders
    <3>2. ASSUME Underway(r), h = Listener PROVE Seen(r)'
      BY <3>2, <2>1, <2>2, <2>5, <2>6, <2>9, <1>3 DEF Seen, Underway
    <3>. QED
      BY <3>1, <3>2
  <2>13. Seen(r) => Seen(r)'
    <3>1. ~Tells(r, Listener) => ~Tells(r, Listener)'
      BY <2>3, SendersDiffer DEF Tells
    <3>. QED
      BY <3>1, <2>1, <2>5, <2>6, <1>3 DEF Seen
  <2>14. InStep(r)'
    BY <2>1, <2>5, <2>7, <2>10, <2>11, <2>12, <2>13 DEF RoomInv, InStep
  <2>15. \A g \in Sockets : Busy(r, g)' => Busy(r, g) /\ sending'[g] = sending[g]
    BY <2>3, SendersDiffer
  <2>. QED
    BY <2>1, <2>5, <2>6, <2>14, <2>15, <1>3 DEF RoomInv
<1>. QED
  BY <1>6, <1>7, <1>8, <1>9 DEF PresenceInv

LEMMA PresenceRests ==
    ASSUME PresenceInv,
           UNCHANGED <<redis, entries, channel, sending, shown, overlap, sock>>
    PROVE  PresenceInv'
<1>1. \A b \in Sockets, r \in Rooms :
         (OfRoom(b, r) => OfRoom(b, r)') /\ (Here(b, r)' => Here(b, r)) /\ (Due(b, r) => Due(b, r)')
  BY DEF OfRoom, Here, Due
<1>2. \A b \in Sockets : sock'[b] # None /\ sock'[b].phase = "left" => ~sock'[b].up
  BY DEF PresenceInv, CastsInv
<1>. QED
  BY <1>1, <1>2, SilentKeeps

LEMMA PresenceSteps == PresenceInv /\ LockInv /\ [Next]_vars => PresenceInv'
<1> SUFFICES ASSUME PresenceInv, LockInv, [Next]_vars PROVE PresenceInv'
  OBVIOUS
<1>1. CASE RoomsNext
  <2>1. ASSUME NEW c \in Sockets, \E u \in Users, r \in Rooms : Connect(c, u, r)
        PROVE  PresenceInv'
    BY <2>1, ConnectKeeps
  <2>2. ASSUME NEW c \in Sockets,
               \/ Greet(c) \/ PeerLeaves(c) \/ Cleanup(c) \/ Farewell(c)
               \/ StartEditing(c) \/ StopEditing(c) \/ Published(c)
               \/ Say(c) \/ Token(c) \/ Reply(c) \/ Mirror(c) \/ ReplyFails(c)
        PROVE  PresenceInv'
    BY <2>2, HandlerKeeps, QuietKeeps, CleanupKeeps, PublishedKeeps
  <2>3. ASSUME NEW h \in Sockets \cup {Listener}, Send(h) \/ Sent(h) PROVE PresenceInv'
    BY <2>3, SendKeeps, SentKeeps DEF Senders
  <2>4. CASE Take \/ ListenerStops
    BY <2>4, TakeKeeps, ListenerStopsKeeps
  <2>5. CASE HubTake \/ \E s \in Streams : Unregister(s) \/ \E r \in ChatRooms : Register(s, r)
    BY <2>5, PresenceRests DEF HubTake, Unregister, Register, elsewhere, sockets
  <2>. QED
    BY <1>1, <2>1, <2>2, <2>3, <2>4, <2>5 DEF RoomsNext
<1>2. ASSUME UNCHANGED rooms PROVE PresenceInv'
  BY <1>2, PresenceRests DEF rooms, sockets
<1>. QED
  BY <1>1, <1>2 DEF Next, SharedNext, vars

\* What a user is shown of the others in a room, for any number of users, sockets and rooms:
\* once a room is settled every socket of it was last told who is there, except where a
\* message could overtake another, a user had two sockets, or a message was lost.
THEOREM PresenceIsShown == Spec => []PresenceSettles
<1>1. PresenceInv => PresenceSettles
  <2> SUFFICES ASSUME PresenceInv, NEW r \in Rooms \ overlap, Settled(r),
                      NEW c \in Sockets, sock[c] # None, sock[c].room = r, sock[c].phase # "closed"
               PROVE  shown[c] = Present(r, entries).who
    BY DEF PresenceSettles
  <2>1. RoomInv(r) /\ CastsInv /\ PresenceType
    BY DEF PresenceInv
  <2>2. ~Waiting(r) /\ \A b \in Sockets : ~Busy(r, b)
    BY DEF Settled
  <2>3. ~Busy(r, Listener) /\ \A i \in 1..Len(channel) : channel[i].room # r
    BY <2>1, <2>2 DEF Waiting, PresenceType
  <2>4. ~Ill(r) /\ ~Announced(r) /\ ~Enqueued(r) /\ ~Underway(r)
    BY <2>2, <2>3 DEF Ill, Senders, Announced, Tells, Enqueued, Latest, Queued, Underway
  <2>5. \A b \in Sockets : ~Due(b, r)
    BY <2>1 DEF Settled, Due, OfRoom, CastsInv
  <2>6. Seen(r) /\ Here(c, r)
    BY <2>1, <2>4, <2>5 DEF RoomInv, InStep, Here, OfRoom, Due
  <2>. QED
    BY <2>6 DEF Seen, Present, Who
<1>. QED
  BY PresenceStarts, PresenceSteps, RoomsStart, RoomsStep, <1>1, PTL DEF Spec
=============================================================================
