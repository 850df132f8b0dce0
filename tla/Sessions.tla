-------------------------------- MODULE Sessions --------------------------------
(***************************************************************************)
(* What a signed-in student works with: accounts, the workspaces of the    *)
(* group and their conversations, the rooms and streams opened from them,  *)
(* whiteboards, lists and the student's profile.  Requests and sockets ask *)
(* for a JWT that still fits the account; an open socket is not asked      *)
(* again.  A socket or a question names its document or workspace, and     *)
(* nothing checks that it exists.                                          *)
(***************************************************************************)
EXTENDS Rooms, Conversations, Whiteboards, Listings, Profiles

shared == <<messages, boards, lists, student>>
vars == <<requests, accounts, rooms, workspaces, shared>>

Init ==
    /\ HandlersInit /\ AccountsInit /\ RoomsInit /\ WorkspacesInit
    /\ ConversationsInit /\ BoardsInit /\ ListingsInit /\ ProfilesInit

SharedNext ==
    \/ ConversationsNext /\ UNCHANGED <<boards, lists, student>>
    \/ BoardsNext /\ UNCHANGED <<messages, lists, student>>
    \/ ListingsNext /\ UNCHANGED <<messages, boards, student>>
    \/ ProfilesNext /\ UNCHANGED <<messages, boards, lists>>

Next ==
    \/ AccountsNext /\ UNCHANGED <<rooms, workspaces, shared>>
    \/ RoomsNext /\ UNCHANGED <<workspaces, shared>>
    \/ WorkspacesNext /\ UNCHANGED <<rooms, shared>>
    \/ SharedNext /\ UNCHANGED <<accounts, rooms, workspaces>>

Spec == Init /\ [][Next]_vars
=============================================================================
