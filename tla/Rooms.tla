--------------------------------- MODULE Rooms ---------------------------------
(***************************************************************************)
(* WebSocket rooms: who is present in a document or a chat, the soft edit  *)
(* lock of a document, and the server-sent event streams of a chat.        *)
(*                                                                         *)
(* The connection manager keeps one socket per user and room.  A message   *)
(* is published to Redis, where one listener takes it; without Redis, or   *)
(* when publishing fails, the handler itself sends it.  Either way it goes *)
(* to a copy of the room's entries, one socket after the other, while      *)
(* other handlers run; a socket that fails loses its entry, by user.       *)
(* Chat messages and replies are also events of the streams.  Pings and    *)
(* refusals change no state and are left out, and so are cursors and the   *)
(* announcement of a restore, which only remove dead sockets they meet.    *)
(***************************************************************************)
EXTENDS Workspaces

CONSTANTS
    DocRooms,           \* the documents a socket can be opened for
    MaxSockets,         \* bound: sockets ever opened
    MaxStreams,         \* bound: event streams ever opened
    MaxEvents,          \* bound: events ever published
    MaxChannel          \* bound: messages waiting for the listener

(* A socket: who opened it, for which room, whether the peer is there, and *)
(* how far its handler is.                                                 *)
Phases == {"greet", "open", "said", "reply", "answered", "left", "closed"}
Rooms == DocRooms \cup Spaces
Socket == [user : Users, room : Rooms, up : BOOLEAN, phase : Phases]
StreamRow == [room : Spaces, from : Nat]

(* A message, and who is still to get it from a handler or the listener.   *)
Sockets == 1..MaxSockets
Message == [kind : {"presence", "other"}, room : Rooms, who : SUBSET Users]
Cast == [m : Message, how : {"publish", "send"}, dead : SUBSET Users,
         to : SUBSET (Users \X Sockets)]
Other(r) == [kind |-> "other", room |-> r, who |-> {}]
Halted == [m |-> Other(None), how |-> "stopped"]

ASSUME RoomsAssumptions ==
    /\ {MaxSockets, MaxStreams, MaxEvents, MaxChannel} \subseteq Nat
    /\ DocRooms \cap Spaces = {}
    /\ None \notin Users \cup Socket \cup Rooms \cup Sockets \cup Cast \cup {Halted}
    /\ {None, Deleted} \cap StreamRow = {}

VARIABLES
    redis,      \* cache.is_available, decided at startup
    sock,       \* each socket: user, room, phase, and whether the peer is there
    shown,      \* external: the users the peer was last told are present
    entries,    \* manager._rooms: the socket of each user in a room, or None
    lock,       \* manager._doc_locks: the user holding a document's lock, or None
    sending,    \* the message each handler, or the listener, is busy with
    channel,    \* messages published and not taken by the listener
    overlap,    \* history: rooms where what is shown may lag for good
    stream,     \* each event stream: None, its room and the events before it, or Deleted
    queues,     \* chat_sse_hub._queues: registered streams
    events,     \* the room of each event published
    wire,       \* events on their way through Redis
    got         \* how often each stream got each event

sockets == <<sock, shown, entries, lock, sending, overlap>>
hub == <<stream, queues, events, wire, got>>
rooms == <<redis, channel, sockets, hub>>
elsewhere == <<accounts, workspaces, redis>>

Streams == 1..MaxStreams
ChatRooms == Spaces
NextNew(f, n) == f[n] = None /\ \A k \in 1..n - 1 : f[k] # None

Listener == 0
Present(r, e) == [kind |-> "presence", room |-> r, who |-> {u \in Users : e[r][u] # None}]

RoomsInit ==
    /\ redis \in IF ops \cap {"document", "chat"} = {} THEN {TRUE} ELSE BOOLEAN    \* bound
    /\ sock = [c \in Sockets |-> None]
    /\ shown = [c \in Sockets |-> {}]
    /\ entries = [r \in Rooms |-> [u \in Users |-> None]]
    /\ lock = [r \in DocRooms |-> None]
    /\ sending = [h \in Sockets \cup {Listener} |-> None]
    /\ channel = <<>> /\ overlap = {}
    /\ stream = [s \in Streams |-> None]
    /\ queues = {} /\ events = <<>> /\ wire = <<>>
    /\ got = [s \in Streams |-> [n \in 1..MaxEvents |-> 0]]

-----------------------------------------------------------------------------
(* Sending.                                                                *)

In(c, phase) == sock[c] # None /\ sock[c].phase = phase /\ sending[c] = None
Turn(c, phase) == sock' = [sock EXCEPT ![c].phase = phase]
Lagging(r, now) == IF now THEN overlap \cup {r} ELSE overlap

(* disconnect: the entry goes by user, whichever socket it holds.          *)
Without(e, r, U) == [e EXCEPT ![r] = [u \in Users |-> IF u \in U THEN None ELSE @[u]]]

(* _broadcast_local: list(room.items()).                                   *)
Copy(m, e) == [m |-> m, how |-> "send", dead |-> {},
               to |-> {<<u, e[m.room][u]>> : u \in {v \in Users : e[m.room][v] # None}}]

Busy(r, h) == sending[h] # None /\ sending[h].m.room = r
Waiting(r) == Busy(r, Listener) \/ \E i \in DOMAIN channel : channel[i].room = r
Stopped == sending[Listener] # None /\ sending[Listener].how = "stopped"

(* broadcast, with the entries e.  Two messages of a room at a time may    *)
(* arrive in either order.                                                 *)
Broadcast(c, m, e, late) ==
    /\ sending' = [sending EXCEPT ![c] =
                      IF redis THEN [Copy(m, e) EXCEPT !.how = "publish", !.to = {}]
                      ELSE Copy(m, e)]
    /\ overlap' = Lagging(m.room, late \/ \E h \in Sockets : Busy(m.room, h))

Published(c) ==
    /\ sending[c] # None /\ sending[c].how = "publish"
    /\ LET m == sending[c].m IN
       \/ /\ Len(channel) < MaxChannel                                  \* bound
          /\ channel' = IF Stopped THEN channel ELSE Append(channel, m)
          /\ sending' = [sending EXCEPT ![c] = None]
          /\ overlap' = Lagging(m.room, Stopped)
       \/ /\ "redis_fails" \in ops
          /\ sending' = [sending EXCEPT ![c] = Copy(m, entries)]
          /\ overlap' = Lagging(m.room, Waiting(m.room))
          /\ UNCHANGED channel
    /\ UNCHANGED <<requests, elsewhere, sock, shown, entries, lock, hub>>

Take ==
    /\ sending[Listener] = None /\ channel # <<>>
    /\ sending' = [sending EXCEPT ![Listener] = Copy(Head(channel), entries)]
    /\ channel' = Tail(channel)
    /\ UNCHANGED <<requests, elsewhere, sock, shown, entries, lock, overlap, hub>>

(* The listener ends with its first error, and is not started again.       *)
ListenerStops ==
    /\ "redis_fails" \in ops /\ redis /\ sending[Listener] = None
    /\ sending' = [sending EXCEPT ![Listener] = Halted]
    /\ channel' = <<>>
    /\ overlap' = overlap \cup {channel[i].room : i \in DOMAIN channel}
    /\ UNCHANGED <<requests, elsewhere, sock, shown, entries, lock, hub>>

Sending(h) == sending[h] # None /\ sending[h].how = "send"

Send(h) ==
    /\ Sending(h)
    /\ LET b == sending[h] IN
       \E d \in b.to :
          LET c == d[2]   ok == sock[c].up IN
          /\ sending' = [sending EXCEPT ![h].to = @ \ {d},
                                        ![h].dead = IF ok THEN @ ELSE @ \cup {d[1]}]
          /\ shown' = IF ok /\ b.m.kind = "presence"
                      THEN [shown EXCEPT ![c] = b.m.who] ELSE shown
    /\ UNCHANGED <<requests, elsewhere, channel, sock, entries, lock, overlap, hub>>

(* Sockets that failed are disconnected, and nobody is told.               *)
Sent(h) ==
    /\ Sending(h) /\ sending[h].to = {}
    /\ LET b == sending[h] IN
       /\ entries' = Without(entries, b.m.room, b.dead)
       /\ overlap' = Lagging(b.m.room, b.dead # {})
    /\ sending' = [sending EXCEPT ![h] = None]
    /\ UNCHANGED <<requests, elsewhere, channel, sock, shown, lock, hub>>

-----------------------------------------------------------------------------
(* The handler of a socket.                                                *)

Viewers == {sock[c].user : c \in {x \in Sockets : sock[x] # None}}
May(u) == IF u \in Viewers THEN "reopen" \in ops                        \* bound
          ELSE Viewers = {} \/ "join" \in ops                           \* bound

GetWsUser(u) == SignedIn(u)

(* The entry is the user's newest socket.  The holder of a document's lock *)
(* is sent before the room is told.                                        *)
Connect(c, u, r) ==
    /\ AtOnce(IF r \in DocRooms THEN "document" ELSE "chat")
    /\ NextNew(sock, c) /\ GetWsUser(u) /\ May(u)
    /\ LET held == r \in DocRooms /\ lock[r] # None
           late == entries[r][u] # None IN
       /\ sock' = [sock EXCEPT ![c] = [user |-> u, room |-> r, up |-> TRUE,
                                       phase |-> IF held THEN "greet" ELSE "open"]]
       /\ entries' = [entries EXCEPT ![r][u] = c]
       /\ IF held THEN overlap' = Lagging(r, late) /\ UNCHANGED sending
          ELSE Broadcast(c, Present(r, entries'), entries', late)
    /\ UNCHANGED <<elsewhere, channel, shown, lock, hub>>

(* A peer that is gone by then ends the handler, before anything is        *)
(* caught, and keeps its entry.                                            *)
Greet(c) ==
    /\ In(c, "greet")
    /\ LET r == sock[c].room IN
       IF sock[c].up THEN Turn(c, "open") /\ Broadcast(c, Present(r, entries), entries, FALSE)
       ELSE Turn(c, "closed") /\ overlap' = Lagging(r, TRUE) /\ UNCHANGED sending
    /\ UNCHANGED <<requests, elsewhere, channel, shown, entries, lock, hub>>

(* acquire_lock; the room is told, or the caller is refused.               *)
StartEditing(c) ==
    /\ AtOnce("edit") /\ In(c, "open") /\ sock[c].room \in DocRooms
    /\ LET r == sock[c].room   u == sock[c].user IN
       /\ lock[r] \in {None, u}
       /\ lock' = [lock EXCEPT ![r] = u]
       /\ Broadcast(c, Other(r), entries, FALSE)
    /\ UNCHANGED <<elsewhere, channel, sock, shown, entries, hub>>

Released(r, u) == IF lock[r] = u THEN [lock EXCEPT ![r] = None] ELSE lock

StopEditing(c) ==
    /\ AtOnce("edit") /\ In(c, "open") /\ sock[c].room \in DocRooms
    /\ lock[sock[c].room] = sock[c].user
    /\ lock' = Released(sock[c].room, sock[c].user)
    /\ Broadcast(c, Other(sock[c].room), entries, FALSE)
    /\ UNCHANGED <<elsewhere, channel, sock, shown, entries, hub>>

(* The peer goes away; its handler finds out when it next receives.        *)
PeerLeaves(c) ==
    /\ sock[c] # None /\ sock[c].up
    /\ sock' = [sock EXCEPT ![c].up = FALSE]
    /\ UNCHANGED <<requests, elsewhere, channel, shown, entries, lock, sending, overlap, hub>>

(* finally: the lock is released and the entry removed; if the lock was    *)
(* held the room is told so, and then it is told who is left.              *)
BugFreed(c, r, u) == IF entries[r][u] = c THEN Released(r, u) ELSE lock
Freed(c, r, u) == Released(r, u)

BugGone(c, e) == [Present(sock[c].room, e) EXCEPT !.who = @ \cup {sock[c].user}]
Gone(c, e) == Present(sock[c].room, e)

Cleanup(c) ==
    /\ In(c, "open") /\ ~sock[c].up
    /\ LET r == sock[c].room   u == sock[c].user
           late == entries[r][u] # c IN
       /\ lock' = IF r \in DocRooms THEN Freed(c, r, u) ELSE lock
       /\ entries' = Without(entries, r, {u})
       /\ IF lock' # lock THEN Turn(c, "left") /\ Broadcast(c, Other(r), entries', late)
          ELSE Turn(c, "closed") /\ Broadcast(c, Gone(c, entries'), entries', late)
    /\ UNCHANGED <<requests, elsewhere, channel, shown, hub>>

Farewell(c) ==
    /\ In(c, "left")
    /\ Turn(c, "closed")
    /\ Broadcast(c, Gone(c, entries), entries, FALSE)
    /\ UNCHANGED <<requests, elsewhere, channel, shown, entries, lock, hub>>

-----------------------------------------------------------------------------
(* Event streams.                                                          *)

Heard(s, r) == IF s \in queues /\ stream[s].room = r THEN 1 ELSE 0
Delivered(n, r) == [s \in Streams |-> [got[s] EXCEPT ![n] = @ + Heard(s, r)]]

(* publish: the queues of this process, then Redis, whose listener puts    *)
(* the event into the same queues once more; Redis may fail.               *)
Publish(r) ==
    /\ Len(events) < MaxEvents                                          \* bound
    /\ events' = Append(events, r)
    /\ got' = Delivered(Len(events'), r)
    /\ wire' = IF redis THEN Append(wire, Len(events')) ELSE wire
    /\ UNCHANGED <<stream, queues>>

HubTake ==
    /\ wire # <<>>
    /\ wire' = Tail(wire)
    /\ \/ got' = Delivered(Head(wire), events[Head(wire)])
       \/ "redis_fails" \in ops /\ UNCHANGED got
    /\ UNCHANGED <<requests, elsewhere, channel, sockets, stream, queues, events>>

(* _require_active_workspace_group_access, then register.                  *)
Register(s, r) ==
    /\ AtOnce("stream") /\ NextNew(stream, s) /\ Caller /\ r \in Active
    /\ stream' = [stream EXCEPT ![s] = [room |-> r, from |-> Len(events)]]
    /\ queues' = queues \cup {s}
    /\ UNCHANGED <<elsewhere, channel, sockets, events, wire, got>>

BugKept(s) == {q \in queues : stream[q].room # stream[s].room}
Kept(s) == queues \ {s}
Unregister(s) ==
    /\ AtOnce("stream") /\ stream[s] \notin {None, Deleted}
    /\ queues' = Kept(s)
    /\ stream' = [stream EXCEPT ![s] = Deleted]
    /\ UNCHANGED <<elsewhere, channel, sockets, events, wire, got>>

-----------------------------------------------------------------------------
(* A message in a chat room and the reply to it, by the socket's handler:  *)
(* each part goes to the room and then to the streams.  The handler does   *)
(* not receive while it replies.                                           *)

Tell(c, phase) ==
    /\ Turn(c, phase)
    /\ Broadcast(c, Other(sock[c].room), entries, FALSE)
    /\ UNCHANGED <<requests, elsewhere, channel, shown, entries, lock, hub>>

Say(c) ==
    /\ "say" \in ops /\ In(c, "open") /\ sock[c].room \in ChatRooms /\ sock[c].up
    /\ Tell(c, "said")

Token(c) == In(c, "reply") /\ Tell(c, "said")

(* The whole reply, or the error of the model.                             *)
Reply(c) == In(c, "reply") /\ Tell(c, "answered")

Mirror(c) ==
    /\ \/ In(c, "said") /\ Turn(c, "reply")
       \/ In(c, "answered") /\ Turn(c, "open")
    /\ Publish(sock[c].room)
    /\ UNCHANGED <<requests, elsewhere, channel, shown, entries, lock, sending, overlap>>

(* Loading or saving fails: the socket is closed, and nobody is told.      *)
ReplyFails(c) ==
    /\ In(c, "reply")
    /\ sock' = [sock EXCEPT ![c].phase = "open", ![c].up = FALSE]
    /\ UNCHANGED <<requests, elsewhere, channel, shown, entries, lock, sending, overlap, hub>>

RoomsNext ==
    \/ \E c \in Sockets : \/ \E u \in Users, r \in Rooms : Connect(c, u, r)
                          \/ Greet(c) \/ PeerLeaves(c) \/ Cleanup(c) \/ Farewell(c)
                          \/ StartEditing(c) \/ StopEditing(c) \/ Published(c)
                          \/ Say(c) \/ Token(c) \/ Reply(c) \/ Mirror(c) \/ ReplyFails(c)
    \/ \E h \in Sockets \cup {Listener} : Send(h) \/ Sent(h)
    \/ Take \/ ListenerStops \/ HubTake
    \/ \E s \in Streams : Unregister(s) \/ \E r \in ChatRooms : Register(s, r)

-----------------------------------------------------------------------------
(* Properties.                                                             *)

\* "Always clean up on disconnect, error, or normal close" (document.py:150): a
\* document is locked only by a user with a socket whose handler is still to run
\* its cleanup, however many sockets the user opened and in whatever order they end.
LockHolderPresent ==
    \A r \in DocRooms : lock[r] # None =>
        \E c \in Sockets : /\ sock[c] # None /\ sock[c].phase = "open"
                           /\ sock[c].room = r /\ sock[c].user = lock[r]

Settled(r) ==
    /\ ~Waiting(r) /\ \A c \in Sockets : ~Busy(r, c)
    /\ \A c \in Sockets : sock[c] # None /\ sock[c].room = r =>
          sock[c].phase = "closed" \/ (sock[c].phase # "greet" /\ sock[c].up)

\* Once everything is sent, every socket was last told who is there, unless two
\* messages of the room were under way at once, a user had two sockets in it, a
\* message met a socket that was gone, or the listener had stopped.
PresenceSettles ==
    \A r \in Rooms \ overlap : Settled(r) =>
        \A c \in Sockets : sock[c] # None /\ sock[c].room = r /\ sock[c].phase # "closed"
                           => shown[c] = Present(r, entries).who

\* "Deliver to local SSE clients" (chat_sse_hub.py:96): an open stream gets every
\* event of its room published since it was opened and none of another room,
\* whatever streams come and go; once without Redis, and at most twice with it.
StreamComplete ==
    \A s \in Streams : stream[s] \notin {None, Deleted} =>
        \A n \in 1..Len(events) :
            IF n > stream[s].from /\ events[n] = stream[s].room
            THEN got[s][n] >= 1 /\ got[s][n] <= IF redis THEN 2 ELSE 1
            ELSE events[n] # stream[s].room => got[s][n] = 0
=============================================================================
