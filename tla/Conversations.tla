----------------------------- MODULE Conversations -----------------------------
(***************************************************************************)
(* Questions to the language model over HTTP: a message of the workspace,  *)
(* the history it is sent with, and the reply.  Nothing keeps two members  *)
(* from asking at once, or the chat of the room from adding messages to    *)
(* the same history.  A message stands for its place in the collection; a  *)
(* reply's proposal is a matter of Documents.                              *)
(***************************************************************************)
EXTENDS Workspaces

CONSTANTS
    Window,         \* messages of a workspace the model is sent
    MaxMessages     \* bound: messages ever saved

ASSUME ConversationsAssumptions == Window \in Nat \ {0} /\ MaxMessages \in Nat

VARIABLES
    messages        \* document_chat_messages: the workspace of each, in order of insertion

Asked(p, w, phase, own, prompt) ==
    [op |-> "ask", phase |-> phase, on |-> {<<"chat", w>>}, w |-> w, own |-> own, prompt |-> prompt]

ConversationsInit == messages = <<>>

SaveMessage(w) ==
    /\ Len(messages) < MaxMessages                                      \* bound
    /\ messages' = Append(messages, w)

(* The open document is read; that the workspace exists is not asked.      *)
SendMessage(p, w) ==
    /\ Free(p, "ask") /\ Caller
    /\ Start(p, Asked(p, w, "question", 0, {}))
    /\ UNCHANGED messages

SaveQuestion(p) ==
    /\ At(p, "ask", "question")
    /\ SaveMessage(txn[p].w)
    /\ Goto(p, Asked(p, txn[p].w, "history", Len(messages'), {}))

(* get_recent_messages_for_context: the newest ones of the workspace.      *)
BugRecent(w) ==
    LET I == {i \in DOMAIN messages : messages[i] = w} IN
    {i \in I : Cardinality({j \in I : j < i}) < Window}
Recent(w) ==
    LET I == {i \in DOMAIN messages : messages[i] = w} IN
    {i \in I : Cardinality({j \in I : j > i}) < Window}

ReadHistory(p) ==
    /\ At(p, "ask", "history")
    /\ Goto(p, Asked(p, txn[p].w, "call", txn[p].own, Recent(txn[p].w)))
    /\ UNCHANGED messages

(* The reply, an error of the model put into words, or the hint that there *)
(* is no document to modify.                                               *)
SaveReply(p) ==
    /\ At(p, "ask", "call")
    /\ SaveMessage(txn[p].w)
    /\ Done(p)

(* MongoDB or the process fails: a question stays without a reply.         *)
SendFails(p) ==
    /\ "fails" \in ops /\ txn[p].op = "ask"
    /\ Done(p)
    /\ UNCHANGED messages

(* The chat of the room, by HTTP or a socket, and its worker's replies.    *)
PostLoad(p, w) ==
    /\ Free(p, "post") /\ Caller
    /\ Start(p, [op |-> "post", phase |-> "save", on |-> {<<"chat", w>>}, w |-> w])
    /\ UNCHANGED messages

PostSave(p) ==
    /\ At(p, "post", "save")
    /\ SaveMessage(txn[p].w)
    /\ Done(p)

ConversationsNext ==
    \/ \E p \in Procs, w \in Spaces : SendMessage(p, w) \/ PostLoad(p, w)
    \/ \E p \in Procs : \/ SaveQuestion(p) \/ ReadHistory(p) \/ SaveReply(p)
                        \/ SendFails(p) \/ PostSave(p)

-----------------------------------------------------------------------------
(* Properties.                                                             *)

\* "Build LLM history from the last 10 messages" (document_chat_service.py:165): the
\* model's last turn is the question it is asked to answer, however long the history
\* and whatever failed before, unless messages of the workspace overlapped.
AnswersOwnQuestion ==
    \A p \in Procs : At(p, "ask", "call") /\ <<"chat", txn[p].w>> \notin clash =>
        /\ txn[p].own \in txn[p].prompt
        /\ \A i \in txn[p].prompt : i <= txn[p].own /\ messages[i] = txn[p].w
=============================================================================
