------------------------------ MODULE Delivery ------------------------------
(***************************************************************************)
(* How a message of a direct chat reaches its recipient: live over every   *)
(* registered connection, or through the unread_messages table, which is   *)
(* both the offline queue and the unread counter, and is replayed when a   *)
(* connection opens.                                                       *)
(*                                                                         *)
(* A send is three steps of the sender's read loop: the presence check     *)
(* (handleSendDirectMessage, handleCallMissed), the transaction that       *)
(* stores the message and, if the check said offline, its unread row       *)
(* (SendMessageAtomic), and the fan-out (broadcastToChat), which looks at  *)
(* presence and at the registry again.  The system message of a missed     *)
(* call is stored without a transaction: its row is a step of its own      *)
(* (PostCallSystemMessage).  A replay (sendPendingMessages) is a goroutine *)
(* of the recipient's new connection: it fetches the rows, writes them one *)
(* by one, then deletes every row of the user.                             *)
(*                                                                         *)
(* Messages are numbered by the ids the database gives them; an id is      *)
(* given before the transaction commits, so ids do not order the commits.  *)
(***************************************************************************)
EXTENDS Connections

CONSTANTS
    Recipient,  \* the account the messages are for
    LastId,     \* bound: the ids are 1..LastId
    System,     \* the ids of missed-call messages; the others are encrypted (scheme 2)
    MaxWork     \* bound: sends, clients and stalled read loops together

ASSUME DeliveryAssumption ==
    /\ Recipient \in Users
    /\ LastId \in Nat \ {0}
    /\ System \subseteq 1..LastId
    /\ MaxWork \in Nat

VARIABLES
    sends,      \* [Messages -> step of the send]
    queued,     \* messages whose presence check said the recipient is offline
    unread,     \* unread_messages of the recipient
    jobs,       \* live frames in the broadcast pool
    replay,     \* [Conns -> the replay goroutine of that connection]
    got,        \* [Conns -> messages the client of that connection has]
    delivered,  \* message_receipts.last_delivered_message_id
    read,       \* message_receipts.last_read_message_id
    witness,    \* history: connections that were open when m's presence was checked
    cut,        \* history: messages on their way when a line broke, a query failed or
                \* presence turned the recipient offline
    wiped       \* history: rows removed for a client that lacked the message, by mark_read
                \* or, once the sweep has evicted the recipient, by a replay

sendVars == <<sends, queued, jobs, witness>>
receiptVars == <<delivered, read>>
dvars == <<pc, clients, wired, stalled, status, age, evicted, sends, queued,
           unread, jobs, replay, got, delivered, read, witness, cut, wiped>>

Messages == 1..LastId
Steps == {"new", "checked", "posted", "stored", "sent", "failed"}
Stored == {m \in Messages : sends[m] \in {"posted", "stored", "sent"}}
Job == [to : Conns, msg : Messages]
Replay == [step : {"idle", "writing", "done"}, rest : SUBSET Messages]
Mine == ConnsOf(Recipient)
InUse(c) == pc[c] # "closed" \/ got[c] # {}
Work == Cardinality({m \in Messages : sends[m] # "new"})
            + Cardinality({c \in Conns : InUse(c)}) + Cardinality(stalled)
OnTheirWay == {m \in Messages : sends[m] \in {"checked", "posted", "stored"}}

\* A socket that frames reach, though its read loop may sit in a handler; and one that reads.
Open(c) == pc[c] = "open" /\ c \in wired
Connected(c) == Reading(c) /\ c \in wired

DeliveryInit ==
    /\ ConnInit
    /\ sends = [m \in Messages |-> "new"]
    /\ queued = {}
    /\ unread = {}
    /\ jobs = {}
    /\ replay = [c \in Conns |-> [step |-> "idle", rest |-> {}]]
    /\ got = [c \in Conns |-> {}]
    /\ delivered = 0
    /\ read = 0
    /\ witness = [m \in Messages |-> {}]
    /\ cut = {}
    /\ wiped = {}

Advance(m, step) == sends' = [sends EXCEPT ![m] = step]
Receive(c, ms) == got' = [got EXCEPT ![c] = @ \cup ms]

\* A frame reaches the client only while its socket is up; a failed write is logged.
Write(c, m) ==
    IF c \in wired
    THEN Receive(c, {m}) /\ UNCHANGED cut
    ELSE cut' = cut \cup {m} /\ UNCHANGED got

----------------------------------------------------------------------------
(* Sending.                                                                *)

\* IsUserOnline before the transaction.  If presence still counts a connection
\* that is gone, the line was broken before the message set out.
CheckPresence(m) ==
    /\ sends[m] = "new"
    /\ Work < MaxWork
    /\ Advance(m, "checked")
    /\ queued' = IF IsUserOnline(Recipient) THEN queued ELSE queued \cup {m}
    /\ witness' = [witness EXCEPT ![m] = {c \in Mine : Open(c)}]
    /\ cut' = IF IsUserOnline(Recipient) /\ ~ \E c \in Mine : Open(c)
              THEN cut \cup {m} ELSE cut
    /\ UNCHANGED <<cvars, unread, jobs, replay, got, receiptVars, wiped>>

\* Mutant: the unread row is forgotten.
StoreNoRow(m) ==
    /\ sends[m] = "checked"
    /\ m \notin System
    /\ Advance(m, "stored")
    /\ UNCHANGED <<cvars, queued, unread, jobs, replay, got, receiptVars, witness, cut, wiped>>

\* SendMessageAtomic: the message and its row in one transaction.
Store(m) ==
    /\ sends[m] = "checked"
    /\ m \notin System
    /\ Advance(m, "stored")
    /\ unread' = unread \cup ({m} \cap queued)
    /\ UNCHANGED <<cvars, queued, jobs, replay, got, receiptVars, witness, cut, wiped>>

\* The transaction or the insert fails: the sender is told, nothing is left.
StoreFails(m) ==
    /\ sends[m] = "checked"
    /\ Advance(m, "failed")
    /\ UNCHANGED <<cvars, queued, unread, jobs, replay, got, receiptVars, witness, cut, wiped>>

\* PostCallSystemMessage: the message first...
PostCallMessage(m) ==
    /\ sends[m] = "checked"
    /\ m \in System
    /\ Advance(m, "posted")
    /\ UNCHANGED <<cvars, queued, unread, jobs, replay, got, receiptVars, witness, cut, wiped>>

\* ...then its row, and a failure of that insert is only logged.
QueueCallMessage(m) ==
    /\ sends[m] = "posted"
    /\ Advance(m, "stored")
    /\ \/ unread' = unread \cup ({m} \cap queued) /\ UNCHANGED cut
       \/ m \in queued /\ cut' = cut \cup {m} /\ UNCHANGED unread
    /\ UNCHANGED <<cvars, queued, jobs, replay, got, receiptVars, witness, wiped>>

\* Mutant: the fan-out stops at the first connection.
BroadcastOne(m) ==
    /\ sends[m] = "stored"
    /\ Advance(m, "sent")
    /\ IF IsUserOnline(Recipient) /\ clients[Recipient] # {}
       THEN \E c \in clients[Recipient] : jobs' = jobs \cup {[to |-> c, msg |-> m]}
       ELSE UNCHANGED jobs
    /\ UNCHANGED <<cvars, queued, unread, replay, got, receiptVars, witness, cut, wiped>>

\* broadcastToChat and broadcastToUser: presence again, then a snapshot of the registry.
Broadcast(m) ==
    /\ sends[m] = "stored"
    /\ Advance(m, "sent")
    /\ jobs' = IF IsUserOnline(Recipient)
               THEN jobs \cup [to : clients[Recipient], msg : {m}] ELSE jobs
    /\ UNCHANGED <<cvars, queued, unread, replay, got, receiptVars, witness, cut, wiped>>

\* The fan-out cannot read the chat; the error is logged and the send counts as done.
BroadcastFails(m) ==
    /\ sends[m] = "stored"
    /\ Advance(m, "sent")
    /\ cut' = cut \cup {m}
    /\ UNCHANGED <<cvars, queued, unread, jobs, replay, got, receiptVars, witness, wiped>>

\* One worker of the pool writes one frame: two frames for one socket may swap.
WriteLive(j) ==
    /\ j \in jobs
    /\ jobs' = jobs \ {j}
    /\ Write(j.to, j.msg)
    /\ UNCHANGED <<cvars, sends, queued, unread, replay, receiptVars, witness, wiped>>

----------------------------------------------------------------------------
(* Replaying the queue, in a goroutine of the new connection.              *)

SetReplay(c, step, rest) == replay' = [replay EXCEPT ![c] = [step |-> step, rest |-> rest]]

\* An empty queue ends the goroutine at once; so does a query that fails, as one
\* under a cancelled context does.
FetchUnread(c) ==
    /\ c \in Mine
    /\ pc[c] \in CountedPhases
    /\ replay[c].step = "idle"
    /\ \/ /\ IF pc[c] = "open" /\ unread # {}
             THEN SetReplay(c, "writing", unread)
             ELSE SetReplay(c, "done", {})
          /\ UNCHANGED cut
       \/ /\ pc[c] = "open" /\ unread # {}
          /\ SetReplay(c, "done", {})
          /\ cut' = cut \cup unread
    /\ UNCHANGED <<cvars, sendVars, unread, got, receiptVars, wiped>>

\* The fetched rows in turn, in no particular order.  Messages that are not
\* scheme 2 are skipped: system messages never go out here.
ReplayOne(c) ==
    /\ replay[c].step = "writing"
    /\ \E m \in replay[c].rest :
        /\ SetReplay(c, "writing", replay[c].rest \ {m})
        /\ IF m \in System THEN UNCHANGED <<got, cut>> ELSE Write(c, m)
    /\ UNCHANGED <<cvars, sendVars, unread, receiptVars, wiped>>

\* Mutant: the queue is left as it was.
ClearNothing(c) ==
    /\ replay[c].step = "writing"
    /\ replay[c].rest = {}
    /\ SetReplay(c, "done", {})
    /\ UNCHANGED <<cvars, sendVars, unread, got, receiptVars, cut, wiped>>

\* DeleteUnreadForUser: every row of the user, those stored since it fetched included.
\* It fails when the connection's context is gone, and may fail otherwise; the error is
\* logged and the rows stay.
ClearReplayed(c) ==
    /\ replay[c].step = "writing"
    /\ replay[c].rest = {}
    /\ SetReplay(c, "done", {})
    /\ \/ /\ pc[c] = "open"
          /\ unread' = {}
          /\ wiped' = IF Recipient \in evicted THEN wiped \cup (unread \ got[c]) ELSE wiped
          /\ UNCHANGED cut
       \/ pc[c] = "open" /\ cut' = cut \cup unread /\ UNCHANGED <<unread, wiped>>
       \/ pc[c] # "open" /\ UNCHANGED <<unread, cut, wiped>>
    /\ UNCHANGED <<cvars, sendVars, got, receiptVars>>

----------------------------------------------------------------------------
(* The recipient's client.                                                 *)

Highest(a, b) == IF a >= b THEN a ELSE b

\* Mutant: the pointer takes whatever the last acknowledgement said.
Latest(a, b) == b

\* Mutant: the acknowledgements add up.
Summed(a, b) == a + b

\* GREATEST in UpsertDelivered and UpsertRead.
Bump(pointer, m) == Highest(pointer, m)

\* GET /chats/:id/messages: the history, over HTTP, before the socket opens or while it is up.
LoadMessages(c) ==
    /\ c \in Mine
    /\ pc[c] # "gone"
    /\ InUse(c) \/ Work < MaxWork
    /\ ~(Stored \subseteq got[c])
    /\ Receive(c, Stored)
    /\ UNCHANGED <<cvars, sendVars, unread, replay, receiptVars, cut, wiped>>

\* What the 400 ms timer of scheduleDeliveredAck may find: the highest id of some burst of
\* messages this client was given, never a system message's.
Acknowledged(c) == got[c] \ System

\* The debounced acknowledgement, for a chat not on screen.
MarkDelivered(c, m) ==
    /\ c \in Mine /\ Connected(c)
    /\ m \in Acknowledged(c)
    /\ delivered' = Bump(delivered, m)
    /\ UNCHANGED <<cvars, sendVars, unread, replay, got, read, cut, wiped>>

\* The chat is on screen: every unread row of the chat goes, whatever m is; then
\* the receipt, best effort.
MarkRead(c, m) ==
    /\ c \in Mine /\ Connected(c)
    /\ m \in got[c]
    /\ unread' = {}
    /\ wiped' = wiped \cup (unread \ got[c])
    /\ \/ delivered' = Bump(delivered, m) /\ read' = Bump(read, m)
       \/ UNCHANGED receiptVars
    /\ UNCHANGED <<cvars, sendVars, replay, got, cut>>

----------------------------------------------------------------------------
\* What is on its way when a line of the recipient breaks may be lost with it.
LineBreaks(c) ==
    /\ Drop(c) \/ RemoveClient(c)
    /\ cut' = IF c \in Mine THEN cut \cup OnTheirWay ELSE cut
    /\ UNCHANGED <<sendVars, unread, replay, got, receiptVars, wiped>>

\* The other steps of the connections, stalls and the passing of time included.
OtherConnStep ==
    \/ \E c \in Conns :
        \/ (InUse(c) \/ Work < MaxWork) /\ CheckConnectionLimit(c)
        \/ UpgradeFails(c) \/ Register(c) \/ UserConnected(c)
        \/ (Work < MaxWork /\ Stall(c)) \/ Resume(c) \/ UpdateActivity(c)
        \/ CheckLastConnection(c) \/ EndCall(c) \/ UserDisconnected(c)
    \/ \E u \in Users : GrowOld(u)
    \/ CleanupInactiveUsers

\* One of them may turn the recipient offline with sockets still up: the sweep does so to
\* a user whose read loops are stalled, and afterwards a stalled connection that leaves
\* takes another one's count.  What is on its way then may get neither row nor frame.
PresenceMoves ==
    /\ OtherConnStep
    /\ cut' = IF IsUserOnline(Recipient) /\ ~status'[Recipient].online
              THEN cut \cup OnTheirWay ELSE cut
    /\ UNCHANGED <<sendVars, unread, replay, got, receiptVars, wiped>>

DeliveryNext ==
    \/ \E m \in Messages :
        \/ CheckPresence(m)
        \/ Store(m)
        \/ StoreFails(m)
        \/ PostCallMessage(m)
        \/ QueueCallMessage(m)
        \/ Broadcast(m)
        \/ BroadcastFails(m)
    \/ \E j \in jobs : WriteLive(j)
    \/ \E c \in Conns :
        \/ FetchUnread(c)
        \/ ReplayOne(c)
        \/ ClearReplayed(c)
        \/ LoadMessages(c)
        \/ \E m \in Messages : MarkDelivered(c, m) \/ MarkRead(c, m)
        \/ LineBreaks(c)
    \/ PresenceMoves

\* The replay goroutine of a connection runs; nothing else is promised.
DeliveryFairness ==
    \A c \in Conns : WF_dvars(FetchUnread(c) \/ ReplayOne(c) \/ ClearReplayed(c))

DeliverySpec == DeliveryInit /\ [][DeliveryNext]_dvars
DeliveryFairSpec == DeliverySpec /\ DeliveryFairness

----------------------------------------------------------------------------
(* What holds.                                                             *)

DeliveryTypeOK ==
    /\ ConnTypeOK
    /\ sends \in [Messages -> Steps]
    /\ queued \in SUBSET Messages
    /\ unread \in SUBSET Messages
    /\ jobs \in SUBSET Job
    /\ replay \in [Conns -> Replay]
    /\ got \in [Conns -> SUBSET Messages]
    /\ delivered \in 0..LastId
    /\ read \in 0..LastId
    /\ witness \in [Messages -> SUBSET Conns]
    /\ cut \in SUBSET Messages
    /\ wiped \in SUBSET Messages

Pending(m) == \E j \in jobs : j.msg = m
Reached(m) == \E c \in Mine : m \in got[c]

\* A user's message whose send is over and which no broken line, failed query or eviction
\* met on its way is with one of the recipient's clients or still queued for them.  The two
\* looks at presence, before the transaction and in the fan-out, and the two steps of a
\* connection, counted then replaying, leave no gap between them while the recipient's
\* presence does not fall; nor does a replay that deletes rows it never fetched, until the
\* sweep has zeroed a user who holds connections.
NoLossWithoutCut ==
    \A m \in Messages \ (System \cup cut \cup wiped) :
        sends[m] = "sent" /\ ~Pending(m) => m \in unread \/ Reached(m)

\* A socket that was open when the send began, its user online, and still is open is sent
\* the message, stalled read loop or not, unless presence fell before the fan-out.  (A user
\* evicted before the send is taken for offline, and the message is queued: NoLossWithoutCut.)
SteadySocketIsServed ==
    \A m \in Messages \ (cut \cup queued) : \A c \in witness[m] :
        sends[m] = "sent" /\ Open(c) => m \in got[c] \/ [to |-> c, msg |-> m] \in jobs

\* Acknowledgements come late and out of order from several devices: the pointers
\* the author's ticks are drawn from never go back, and read never passes delivered.
ReceiptsOnlyAdvance ==
    [][delivered' >= delivered /\ read' >= read /\ read' <= delivered']_dvars

\* A row that waits when a connection opens does not wait there while that connection
\* lasts, unless the query that fetches or deletes it fails.
QueueDrains ==
    \A c \in Conns, m \in Messages :
        (c \in Mine /\ Open(c) /\ replay[c].step = "idle" /\ m \in unread)
            ~> (m \notin unread \/ m \in cut \/ ~Open(c))

\* The comment on SendMessageAtomic (services/chat_service.go:236), "This prevents
\* TOCTOU race conditions where a user could come online between the presence check
\* and unread save": no row is saved for a user who is online by then.
NoRowForOnlineUser == [][unread' \subseteq unread \/ ~IsUserOnline(Recipient)]_dvars

\* The comment on MarkDelivered (services/chat_service.go:100), "records that userID
\* (a recipient) has received messages up to messageID".
DeliveredMeansReceived == \A m \in 1..delivered : m \in System \/ Reached(m)

\* The comment on PostCallSystemMessage (services/chat_service.go:350), "it's queued to
\* their unread-replay so they see it on reconnect": a queued missed call leaves the
\* queue only once a client of the recipient has it.
MissedCallIsSeen == \A m \in System \ (cut \cup wiped) :
    sends[m] = "sent" /\ m \in queued /\ ~Pending(m) => m \in unread \/ Reached(m)

=============================================================================
