------------------------------ MODULE ChatView ------------------------------
(***************************************************************************)
(* The chats page of one client (frontend/src/pages/ChatsPage.tsx with     *)
(* shared/messageCache.ts and the list of features/chats/MessageList.tsx): *)
(* what is on its screen and in its caches while answers of the server,    *)
(* live frames and decryptions come in in any order, the user changes      *)
(* chats, the socket breaks and the page is reloaded.                      *)
(*                                                                         *)
(* The server is the set of stored messages; each change of it is one step *)
(* that also sends a frame, except clearing and deleting a chat, where the *)
(* handler sends the frame first and the statement may still fail          *)
(* (handlers/chat.go chatAction, handlers/group.go groupAction).           *)
(*                                                                         *)
(* Left out: the order of a list and its cut to 50 messages on disk, pins, *)
(* group information, presence (PresenceFanout) and receipts (Delivery).   *)
(***************************************************************************)
EXTENDS Naturals, Sequences, FiniteSets

CONSTANTS
    Chats,      \* the user's chats
    Messages,   \* messages that may be sent
    Own,        \* those the user sends, from another device
    None,       \* no chat, no list
    Marks,      \* what may happen to a message: edited, deleted, files (added)
    MaxEvents,  \* bound: things that people and the network do
    MaxFlight   \* bound: answers and frames under way when something more happens

ASSUME ChatViewAssumption ==
    /\ None \notin Chats \cup Messages
    /\ IsFiniteSet(Messages)
    /\ Own \subseteq Messages
    /\ Marks \subseteq {"edited", "deleted", "files"}
    /\ MaxEvents \in Nat
    /\ MaxFlight \in Nat

VARIABLES
    home,       \* the chat each sent message belongs to
    marks,      \* what happened to it since: edited, deleted, files added
    purged,     \* messages whose rows are gone
    alive,      \* chats that exist and that the user belongs to
    rows,       \* messages with an unread row for the user
    doing,      \* clearings and deletions announced and not yet carried out
    line,       \* "up" while the socket is open
    flight,     \* answers, frames and decryptions under way, oldest first
    asked,      \* loadMessages requests without an answer, by chat and served
    listing,    \* whether loadChats requests are under way
    page,       \* the state of the page, its caches included
    twice,      \* history: messages that got both an unread row and a live frame
    events      \* how much of MaxEvents is used up

server == <<home, marks, purged, alive, rows, doing>>
net == <<line, flight, asked, listing>>
viewvars == <<server, net, page, twice, events>>

\* A message in a list: its marks, and "sealed" when it could not be decrypted.
Lists == UNION {[S -> SUBSET (Marks \cup {"sealed"})] : S \in SUBSET Messages}
Empty == [m \in {} |-> {}]

With(list, m, x) == [n \in DOMAIN list \cup {m} |-> IF n = m THEN x ELSE list[n]]
Patch(list, m, x) == IF m \in DOMAIN list THEN With(list, m, x) ELSE list
Add(bag, x) == [bag EXCEPT ![x] = @ + 1]
Sub(bag, x) == [bag EXCEPT ![x] = @ - 1]

\* The stored messages of a chat, as GetMessages answers them.
Stored(c) == [m \in {n \in Messages : home[n] = c /\ n \notin purged} |-> marks[m]]

\* The answer of the chat list: the user's chats with their unread rows.
Listed == [c \in alive |-> Cardinality({m \in rows : home[m] = c})]

\* Whether a statement on c is still to come although its frame went out.
Doing(c) == \E d \in doing : d.chat = c

(***************************************************************************)
(* What is under way                                                       *)
(***************************************************************************)
New(m, replayed) == [kind |-> "new", chat |-> home[m], msg |-> m, marks |-> marks[m],
                     replayed |-> replayed, late |-> FALSE]
Mark(m, mark) == [kind |-> mark, chat |-> home[m], msg |-> m, late |-> FALSE]
Word(kind, c) == [kind |-> kind, chat |-> c, msg |-> None, late |-> FALSE]
Answer(c, served) == [kind |-> "messages", chat |-> c, msg |-> None, data |-> Stored(c),
                      served |-> served, late |-> FALSE]

FrameKinds == {"new", "cleared", "gone", "changed"} \cup Marks
IsFrame(x) == x.kind \in FrameKinds
IsNew(x) == x.kind \in {"new", "openingNew"}

\* x began before y and is still under way when y takes effect: does the order matter?
Overtakes(y, x) ==
    /\ x.chat = y.chat
    /\ \/ x.msg = y.msg /\ x.msg # None
       \/ y.kind = "messages" /\ \/ IsNew(x) /\ x.msg \notin DOMAIN y.data
                                 \/ x.kind \in {"messages", "cleared", "gone", "done"}
       \/ x.kind = "messages" /\ y.kind # "changed"
       \/ x.kind \in {"cleared", "gone", "done"} /\ IsNew(y)
       \/ y.kind \in {"cleared", "gone", "done"} /\ (IsNew(x) \/ x.kind = "openingEdit")

\* History: what y overtakes is marked late.
Overtaken(y, i) == [j \in DOMAIN flight |->
    IF j < i /\ Overtakes(y, flight[j]) THEN [flight[j] EXCEPT !.late = TRUE] ELSE flight[j]]
Without(s, i) == SubSeq(s, 1, i - 1) \o SubSeq(s, i + 1, Len(s))
Taken(i) == Without(Overtaken(flight[i], i), i)

\* What does not travel on the socket, in its order: the answers and the decryptions.
Nth(S, k) == CHOOSE i \in S : Cardinality({j \in S : j < i}) = k - 1
Lasting ==
    LET kept == {i \in DOMAIN flight : ~IsFrame(flight[i])}
    IN  [k \in 1..Cardinality(kept) |-> flight[Nth(kept, k)]]

Sent(x) == IF line = "up" THEN Append(flight, x) ELSE flight

ViewInit ==
    /\ home = [m \in Messages |-> None]
    /\ marks = [m \in Messages |-> {}]
    /\ purged = {}
    /\ alive = Chats
    /\ rows = {}
    /\ doing = {}
    /\ line = "down"
    /\ flight = <<>>
    /\ asked = [x \in Chats \X BOOLEAN |-> 0]
    /\ listing = TRUE
    /\ page = [active |-> None, shown |-> Empty, loading |-> FALSE,
            mem |-> [c \in Chats |-> None], disk |-> [c \in Chats |-> None],
            chats |-> Empty, saved |-> Empty, greeted |-> FALSE,
            owner |-> None, blurred |-> FALSE, doubted |-> {}]
    /\ twice = {}
    /\ events = 0

Waiting(c) == asked[<<c, TRUE>>] + asked[<<c, FALSE>>] > 0
Event == /\ events < MaxEvents /\ events' = events + 1
         /\ Len(flight) + Cardinality({c \in Chats : Waiting(c)})
              + (IF listing THEN 1 ELSE 0) + Cardinality(doing) < MaxFlight

(***************************************************************************)
(* The page: what its functions do until their first await                 *)
(***************************************************************************)
\* setMessages with the caches of chat c written along.
Write(p, c, list) == [p EXCEPT !.shown = list, !.mem[c] = list, !.disk[c] = list]
DropMem(p, c) == [p EXCEPT !.mem[c] = None]
DropCaches(p, c) == [p EXCEPT !.mem[c] = None, !.disk[c] = None]
Unlist(p, c) == [p EXCEPT !.chats = [d \in DOMAIN p.chats \ {c} |-> p.chats[d]]]

\* History: the list on the screen, if it was that of chat c, is so no longer.
Disown(p, c) == [p EXCEPT !.owner = IF @ = c THEN None ELSE @]

\* What loadMessages finds: the list in memory, else the one on disk unless it is empty.
Cached(p, c) == IF p.mem[c] # None THEN p.mem[c]
                ELSE IF p.disk[c] # Empty THEN p.disk[c] ELSE None

\* Mutant: no spinner while nothing is cached.
StartLoadNoSpinner(p, c) ==
    IF Cached(p, c) = None THEN p
    ELSE [p EXCEPT !.shown = Cached(p, c), !.mem[c] = Cached(p, c), !.loading = FALSE,
                   !.owner = c, !.blurred = c \in p.doubted]

\* loadMessages up to its request.
StartLoad(p, c) ==
    IF Cached(p, c) = None THEN [p EXCEPT !.loading = TRUE]
    ELSE [p EXCEPT !.shown = Cached(p, c), !.mem[c] = Cached(p, c), !.loading = FALSE,
                   !.owner = c, !.blurred = c \in p.doubted]
AskLoad(bag, p, c) == Add(bag, <<c, Cached(p, c) # None>>)

\* The effects of a changed activeChatId, in the order of their declarations: the effect
\* meant for a reconnection depends on activeChatId too and runs whenever the page is
\* connected again after its first connection.
Rerun == line = "up" /\ page.greeted
OnReconnect(p, c) == IF Rerun THEN StartLoad(DropMem(p, c), c) ELSE p
Activate(p, c) ==
    IF c = None THEN [p EXCEPT !.active = None]
    ELSE LET q == StartLoad(OnReconnect([p EXCEPT !.active = c], c), c)
         IN  IF c \in DOMAIN q.chats THEN [q EXCEPT !.chats[c] = 0] ELSE q
AskActivate(bag, p, c) ==
    IF c = None THEN bag
    ELSE AskLoad(IF Rerun THEN AskLoad(bag, DropMem(p, c), c) ELSE bag, OnReconnect(p, c), c)
ListActivate == listing \/ Rerun

\* setActiveChatId(c) on a page p.
SetActive(p, c) ==
    IF c = p.active THEN page' = p /\ UNCHANGED asked
    ELSE page' = Activate(p, c) /\ asked' = AskActivate(asked, p, c)

\* The list on the screen is that of chat c, and nothing else: what a change for c is meant for.
OnTheRightList(p, c) == p.owner = c /\ ~p.blurred

\* History: a change for c was applied to another list, or came late, or came while the
\* server was still to do what it had announced, or could not be decrypted.
Doubt(p, c, doubtful) ==
    IF doubtful THEN [p EXCEPT !.doubted = @ \cup {c}, !.blurred = TRUE] ELSE p

(***************************************************************************)
(* The server and the line                                                 *)
(***************************************************************************)
\* A message is stored and sent to the user's socket; while there is none it becomes unread.
Send(c, m) ==
    /\ Event /\ c \in alive /\ home[m] = None
    /\ home' = [home EXCEPT ![m] = c]
    /\ rows' = IF line = "down" /\ m \notin Own THEN rows \cup {m} ELSE rows
    /\ flight' = IF line = "up"
                 THEN Append(flight, [New(m, FALSE) EXCEPT !.chat = c]) ELSE flight
    /\ UNCHANGED <<marks, purged, alive, doing, line, asked, listing, page, twice>>

\* EditMessage, DeleteMessage and UploadAttachments commit, then broadcast.
Change(m, mark) ==
    /\ Event /\ home[m] \in alive /\ m \notin purged
    /\ mark \notin marks[m] /\ "deleted" \notin marks[m]
    /\ marks' = [marks EXCEPT ![m] = @ \cup {mark}]
    /\ rows' = IF mark = "deleted" THEN rows \ {m} ELSE rows
    /\ flight' = Sent(Mark(m, mark))
    /\ UNCHANGED <<home, purged, alive, doing, line, asked, listing, page, twice>>

\* Members, roles, name or pins of a chat change; out: the user is no longer a member.
ChangeGroup(c, out) ==
    /\ Event /\ c \in alive
    /\ alive' = IF out THEN alive \ {c} ELSE alive
    /\ flight' = Sent(Word("changed", c))
    /\ UNCHANGED <<home, marks, purged, rows, doing, line, asked, listing, page, twice>>

\* Somebody clears or deletes a chat, or the user leaves it: the others are told before the
\* statement runs, and in a deleted group the user who asked for it is told too.
Announce(c, kind, mine, told) ==
    /\ Event /\ c \in alive /\ ~Doing(c)
    /\ mine => page.active = c
    /\ kind = "left" => mine
    /\ told \in (IF ~mine THEN {TRUE} ELSE IF kind = "gone" THEN BOOLEAN ELSE {FALSE})
    /\ doing' = doing \cup {[chat |-> c, kind |-> kind, mine |-> mine]}
    /\ flight' = IF told THEN Sent(Word(kind, c)) ELSE flight
    /\ page' = Doubt(page, c, line = "down" /\ ~mine)
    /\ UNCHANGED <<home, marks, purged, alive, rows, line, asked, listing, twice>>

\* The statement runs; the user who asked for it is answered.  History: what was read
\* before it and is still under way is late.
Commit(d) ==
    LET late == [j \in DOMAIN flight |->
                   IF flight[j].chat = d.chat /\ (IsNew(flight[j]) \/ flight[j].kind = "messages")
                   THEN [flight[j] EXCEPT !.late = TRUE] ELSE flight[j]]
    IN  /\ d \in doing
        /\ doing' = doing \ {d}
        /\ purged' = IF d.kind = "left" THEN purged
                     ELSE purged \cup {m \in Messages : home[m] = d.chat}
        /\ alive' = IF d.kind = "cleared" THEN alive ELSE alive \ {d.chat}
        /\ rows' = {m \in rows : home[m] # d.chat}
        /\ flight' = IF d.mine THEN Append(late, [Word("done", d.chat) EXCEPT !.msg = d.kind])
                     ELSE late
        /\ UNCHANGED <<home, marks, line, asked, listing, page, twice, events>>

\* The statement is refused or fails after the frame went out, which is then a false one.
CommitFails(d) ==
    /\ d \in doing
    /\ doing' = doing \ {d}
    /\ page' = Doubt(page, d.chat, ~d.mine)
    /\ flight' = [j \in DOMAIN flight |-> [flight[j] EXCEPT !.late = @ \/ flight[j].chat = d.chat]]
    /\ UNCHANGED <<home, marks, purged, alive, rows, line, asked, listing, twice, events>>

\* The socket breaks: frames on it are lost, answers and decryptions are not.
LineBreaks ==
    /\ Event /\ line = "up"
    /\ line' = "down"
    /\ flight' = Lasting
    /\ page' = [page EXCEPT !.doubted = @ \cup {flight[i].chat : i \in
                    {j \in DOMAIN flight : IsFrame(flight[j])}}]
    /\ UNCHANGED <<server, asked, listing, twice>>

\* Mutant: the socket opens and the page does not reload.
LineReturnsQuietly(live) ==
    /\ line = "down" /\ line' = "up"
    /\ rows' = {}
    /\ page' = [page EXCEPT !.greeted = TRUE]
    /\ UNCHANGED <<home, marks, purged, alive, doing, flight, asked, listing, twice, events>>

\* The socket opens and the unread rows are replayed; a message whose send was between its
\* two presence checks comes live as well.  But for the first time, the page reloads.
\* History: answers given before are late.
LineReturns(live) ==
    LET order == CHOOSE s \in [1..Cardinality(rows) -> rows] :
                   \A i, j \in DOMAIN s : i # j => s[i] # s[j]
        again == IF live = None THEN <<>> ELSE <<New(live, FALSE)>>
        old == [i \in DOMAIN flight |->
                  [flight[i] EXCEPT !.late = @ \/ flight[i].kind = "messages"]]
        c == page.active
    IN  /\ line = "down" /\ line' = "up"
        /\ live \in rows \cup {None}
        /\ rows' = {}
        /\ flight' = old \o [i \in DOMAIN order |-> New(order[i], TRUE)] \o again
        /\ twice' = IF live = None THEN twice ELSE twice \cup {live}
        /\ IF page.greeted
           THEN /\ listing' = TRUE
                /\ page' = IF c = None THEN page ELSE StartLoad(DropMem(page, c), c)
                /\ asked' = IF c = None THEN asked ELSE AskLoad(asked, DropMem(page, c), c)
           ELSE /\ page' = Doubt([page EXCEPT !.greeted = TRUE], c, c # None)
                /\ UNCHANGED <<asked, listing>>
        /\ UNCHANGED <<home, marks, purged, alive, doing, events>>

\* The server answers a loadMessages request with what it has now.
AnswerLoad(c, served) ==
    /\ asked[<<c, served>>] > 0
    /\ c \in alive
    /\ asked' = Sub(asked, <<c, served>>)
    /\ flight' = Append(flight, [Answer(c, served) EXCEPT !.late = Doing(c)])
    /\ UNCHANGED <<server, line, listing, page, twice, events>>

(***************************************************************************)
(* The page: answers                                                       *)
(***************************************************************************)
\* The end of loadMessages: caches and screen take the answer whatever is open by now, and
\* the caller of another chat loses its spinner.
ApplyLoad(i) ==
    LET x == flight[i]
        sealed == x.chat \notin DOMAIN page.chats
        list == [m \in DOMAIN x.data |-> IF sealed THEN x.data[m] \cup {"sealed"} ELSE x.data[m]]
        p == [Write(page, x.chat, list) EXCEPT !.loading = FALSE, !.owner = x.chat,
                  !.doubted = @ \ {x.chat}, !.blurred = x.chat # page.active]
    IN  /\ x.kind = "messages"
        /\ flight' = Taken(i)
        /\ page' = Doubt(p, x.chat, x.late \/ Doing(x.chat) \/ sealed)
        /\ UNCHANGED <<server, line, asked, listing, twice, events>>

\* Mutant: the time-out fires although the answer has come.
FailLoadAnyTime(c, served) ==
    /\ asked' = Sub(asked, <<c, served>>)
    /\ page' = Doubt([page EXCEPT !.loading = FALSE], c, TRUE)
    /\ UNCHANGED <<server, line, flight, listing, twice, events>>

\* loadMessages fails: an empty list, unless a cached one was shown.
FailLoad(c, served) ==
    /\ asked[<<c, served>>] > 0
    /\ asked' = Sub(asked, <<c, served>>)
    /\ LET p == [page EXCEPT !.loading = FALSE,
                     !.shown = IF served THEN @ ELSE Empty,
                     !.owner = IF served THEN @ ELSE None]
       IN page' = Doubt(p, c, TRUE)
    /\ UNCHANGED <<server, line, flight, listing, twice, events>>

\* The end of loadChats with an answer or an error (data None); requests under way
\* together end together.
EndList(data) ==
    /\ listing /\ listing' = FALSE
    /\ page' = IF data = None THEN page ELSE [page EXCEPT !.chats = data, !.saved = data]
    /\ UNCHANGED <<server, line, flight, asked, twice, events>>

\* The answer to the user's own clearing, deletion or leaving: handleClearChat,
\* handleDeleteChat and handleGroupLeft still hold the activeChatId of the click.
Answered(i) ==
    LET x == flight[i]
        p == [DropCaches(page, x.chat) EXCEPT !.shown = Empty, !.owner = x.chat,
                  !.blurred = page.active # x.chat]
    IN  /\ x.kind = "done"
        /\ flight' = Taken(i)
        /\ page' = Doubt(IF x.msg = "cleared" THEN p
                         ELSE [Unlist(p, x.chat) EXCEPT !.active = None], x.chat, x.late)
        /\ listing' = IF x.msg # "cleared" /\ page.active # None THEN ListActivate
                      ELSE listing
        /\ UNCHANGED <<server, line, asked, twice, events>>

(***************************************************************************)
(* The page: frames (handleWebSocketMessage) and decryptions               *)
(***************************************************************************)
\* Mutant: replayed messages raise the badge too.
DecryptCountsReplays(i) ==
    LET x == flight[i]
        live == x.chat = page.active
    IN  /\ x.kind = "new"
        /\ flight' = [Overtaken(x, i) EXCEPT ![i] =
               [kind |-> "openingNew", chat |-> x.chat, msg |-> x.msg, live |-> live,
                marks |-> x.marks, bump |-> ~live /\ x.msg \notin Own, late |-> x.late]]
        /\ UNCHANGED <<server, line, asked, listing, page, twice, events>>

\* A new message, or an edit of the open chat, is decrypted first; whether its chat is open
\* and known is decided now.
Decrypt(i) ==
    LET x == flight[i]
        live == x.chat = page.active
        y == [kind |-> IF x.kind = "new" THEN "openingNew" ELSE "openingEdit",
              chat |-> x.chat, msg |-> x.msg, live |-> live,
              marks |-> (IF x.kind = "new" THEN x.marks ELSE {})
                        \cup (IF x.chat \in DOMAIN page.chats THEN {} ELSE {"sealed"}),
              bump |-> x.kind = "new" /\ ~live /\ x.msg \notin Own /\ ~x.replayed,
              late |-> x.late]
    IN  /\ x.kind \in {"new", "edited"}
        /\ x.kind = "edited" => live
        /\ flight' = [Overtaken(x, i) EXCEPT ![i] = y]
        /\ UNCHANGED <<server, line, asked, listing, page, twice, events>>

\* The decrypted message goes into the preview and the badge of its chat and, if the chat
\* was open when the frame came, at the end of the list on the screen and into its caches.
ApplyNew(i) ==
    LET x == flight[i]
        known == x.chat \in DOMAIN page.chats
        p == IF known /\ x.bump THEN [page EXCEPT !.chats[x.chat] = @ + 1] ELSE page
        q == IF x.live /\ x.msg \notin DOMAIN p.shown
             THEN Write(p, x.chat, With(p.shown, x.msg, x.marks)) ELSE p
    IN  /\ x.kind = "openingNew"
        /\ flight' = Taken(i)
        /\ page' = Doubt(q, x.chat, x.live /\ (x.late \/ Doing(x.chat) \/ "sealed" \in x.marks
                                              \/ ~OnTheRightList(page, x.chat)))
        /\ listing' = (listing \/ ~known)
        /\ UNCHANGED <<server, line, asked, twice, events>>

\* What a mark does to the list on the screen and to the caches of the chat.
MarkShown(p, c, m, mark, sealed) ==
    Write(p, c, Patch(p.shown, m, ((IF m \in DOMAIN p.shown THEN p.shown[m] ELSE {})
                                   \ (IF mark = "edited" THEN {"sealed"} ELSE {}))
                                  \cup {mark} \cup sealed))

ApplyEdit(i) ==
    LET x == flight[i]
    IN  /\ x.kind = "openingEdit"
        /\ flight' = Taken(i)
        /\ page' = Doubt(MarkShown(page, x.chat, x.msg, "edited", x.marks), x.chat,
                         x.late \/ x.marks # {} \/ ~OnTheRightList(page, x.chat))
        /\ UNCHANGED <<server, line, asked, listing, twice, events>>

\* Files and deletions of the open chat need no decryption; a deletion reloads the chats.
ApplyMark(i) ==
    LET x == flight[i]
    IN  /\ x.kind \in {"files", "deleted"}
        /\ flight' = Taken(i)
        /\ page' = IF x.chat # page.active THEN page
                   ELSE Doubt(MarkShown(page, x.chat, x.msg, x.kind, {}), x.chat,
                              x.late \/ ~OnTheRightList(page, x.chat))
        /\ listing' = (listing \/ x.kind = "deleted")
        /\ UNCHANGED <<server, line, asked, twice, events>>

\* An edit of a chat that is not open is ignored.
IgnoreEdit(i) ==
    LET x == flight[i]
    IN  /\ x.kind = "edited" /\ x.chat # page.active
        /\ flight' = Taken(i)
        /\ UNCHANGED <<server, line, asked, listing, page, twice, events>>

\* Mutant: the copy on disk survives the clearing.
OnClearedInMemory(i) ==
    LET x == flight[i]
        p == DropMem(page, x.chat)
    IN  /\ x.kind = "cleared"
        /\ flight' = Taken(i)
        /\ page' = Doubt(IF x.chat = page.active THEN [p EXCEPT !.shown = Empty]
                         ELSE Disown(p, x.chat), x.chat, x.late)
        /\ UNCHANGED <<server, line, asked, listing, twice, events>>

\* chat_cleared: caches, screen and badge.
OnCleared(i) ==
    LET x == flight[i]
        p == DropCaches(page, x.chat)
        q == IF x.chat = page.active THEN [p EXCEPT !.shown = Empty] ELSE Disown(p, x.chat)
    IN  /\ x.kind = "cleared"
        /\ flight' = Taken(i)
        /\ page' = Doubt(IF x.chat \in DOMAIN q.chats THEN [q EXCEPT !.chats[x.chat] = 0] ELSE q,
                         x.chat, x.late)
        /\ UNCHANGED <<server, line, asked, listing, twice, events>>

\* chat_deleted and group_deleted: as OnCleared, and the chat is closed and leaves the list.
OnDeleted(i) ==
    LET x == flight[i]
        p == Disown(Unlist(DropCaches(page, x.chat), x.chat), x.chat)
    IN  /\ x.kind = "gone"
        /\ flight' = Taken(i)
        /\ IF x.chat = page.active
           THEN /\ page' = Doubt([p EXCEPT !.active = None, !.shown = Empty], x.chat, x.late)
                /\ listing' = ListActivate
           ELSE page' = Doubt(p, x.chat, x.late) /\ UNCHANGED listing
        /\ UNCHANGED <<server, line, asked, twice, events>>

\* Group and pin events: the open chat is loaded again, and after a group event the list of
\* chats.
OnChanged(i) ==
    LET x == flight[i]
    IN  /\ x.kind = "changed"
        /\ flight' = Taken(i)
        /\ IF x.chat = page.active
           THEN page' = StartLoad(page, x.chat) /\ asked' = AskLoad(asked, page, x.chat)
           ELSE UNCHANGED <<page, asked>>
        /\ listing' \in {listing, TRUE}
        /\ UNCHANGED <<server, line, twice, events>>

(***************************************************************************)
(* The page: the user                                                      *)
(***************************************************************************)
\* A click in the list of chats or on a notification in the browser.
Open(c) ==
    /\ Event /\ c # page.active /\ c \in DOMAIN page.chats \cup alive
    /\ SetActive(page, c)
    /\ listing' = ListActivate
    /\ UNCHANGED <<server, line, flight, twice>>

\* A tap on a push notification: the list in memory is dropped first.
Tap(c) ==
    /\ Event /\ c \in alive
    /\ SetActive(DropMem(page, c), c)
    /\ listing' = TRUE
    /\ UNCHANGED <<server, line, flight, twice>>

Back ==
    /\ Event /\ page.active # None
    /\ SetActive(page, None)
    /\ listing' = ListActivate
    /\ UNCHANGED <<server, line, flight, twice>>

\* The page is loaded anew: the caches on disk and the saved list of chats remain.
Reload ==
    /\ Event
    /\ page' = [page EXCEPT !.active = None, !.shown = Empty, !.loading = FALSE,
                    !.mem = [c \in Chats |-> None], !.chats = page.saved,
                    !.greeted = FALSE, !.owner = None, !.blurred = FALSE,
                    !.doubted = @ \cup {flight[i].chat : i \in
                        {j \in DOMAIN flight : IsFrame(flight[j]) \/ flight[j].kind = "done"}}
                        \cup {d.chat : d \in doing}]
    /\ doing' = {[d EXCEPT !.mine = FALSE] : d \in doing}
    /\ line' = "down" /\ flight' = <<>>
    /\ asked' = [x \in DOMAIN asked |-> 0]
    /\ listing' = TRUE
    /\ UNCHANGED <<home, marks, purged, alive, rows, twice>>

(***************************************************************************)
(* The specification                                                       *)
(***************************************************************************)
Handle(i) == \/ Decrypt(i) \/ ApplyNew(i) \/ ApplyEdit(i) \/ ApplyMark(i) \/ IgnoreEdit(i)
             \/ OnCleared(i) \/ OnDeleted(i) \/ OnChanged(i)
             \/ ApplyLoad(i) \/ Answered(i)

Respond == \/ \E c \in Chats, served \in BOOLEAN : AnswerLoad(c, served) \/ FailLoad(c, served)
           \/ \E data \in {Listed, None} : EndList(data)
           \/ \E d \in doing : Commit(d) \/ CommitFails(d)

Happen == \/ \E c \in Chats, m \in Messages : Send(c, m)
          \/ \E m \in Messages, mark \in Marks : Change(m, mark)
          \/ \E c \in Chats, out \in BOOLEAN : ChangeGroup(c, out)
          \/ \E c \in Chats, kind \in {"cleared", "gone", "left"}, mine, told \in BOOLEAN :
               Announce(c, kind, mine, told)
          \/ LineBreaks
          \/ \E c \in Chats : Open(c) \/ Tap(c)
          \/ Back \/ Reload

ViewNext == \/ \E i \in DOMAIN flight : Handle(i)
            \/ Respond \/ Happen
            \/ \E live \in rows \cup {None} : LineReturns(live)

ViewSpec == ViewInit /\ [][ViewNext]_viewvars

(***************************************************************************)
(* Properties                                                              *)
(***************************************************************************)
\* Type invariant.
ChatViewTypeOK ==
    /\ home \in [Messages -> Chats \cup {None}]
    /\ marks \in [Messages -> SUBSET Marks]
    /\ purged \subseteq Messages /\ rows \subseteq Messages /\ twice \subseteq Messages
    /\ alive \subseteq Chats
    /\ line \in {"up", "down"}
    /\ page.active \in Chats \cup {None} /\ page.owner \in Chats \cup {None}
    /\ page.shown \in Lists
    /\ page.mem \in [Chats -> Lists \cup {None}] /\ page.disk \in [Chats -> Lists \cup {None}]
    /\ DOMAIN page.chats \subseteq Chats /\ \A c \in DOMAIN page.chats : page.chats[c] \in Nat
    /\ asked \in [Chats \X BOOLEAN -> Nat] /\ listing \in BOOLEAN
    /\ events \in 0..MaxEvents

\* The list under the heading of the open chat holds that chat's messages, unless a change
\* for another chat was applied to it since its last load (ChatsPage.tsx: loadMessages,
\* handleWebSocketMessage).
ShownIsActive ==
    page.active # None /\ ~page.loading /\ ~page.blurred
        => \A m \in DOMAIN page.shown : home[m] = page.active

\* The news that c was cleared, deleted or left is under way.
NewsOf(c) ==
    \E i \in DOMAIN flight : flight[i].chat = c /\ flight[i].kind \in {"cleared", "gone", "done"}

About(c) == \/ \E i \in DOMAIN flight : flight[i].chat = c
            \/ \E served \in BOOLEAN : asked[<<c, served>>] > 0
            \/ Doing(c)

\* The caches of a chat, in memory and on disk, hold its own messages only, and none that
\* was cleared or deleted with its chat once the news of that is through.
CachesAreTrue ==
    \A c \in Chats \ page.doubted : \A cache \in {page.mem[c], page.disk[c]} :
        cache # None =>
            \A m \in DOMAIN cache : home[m] = c /\ (m \in purged => NewsOf(c))

\* When nothing is under way, the open chat shows what the server has, edits, deletions and
\* files included, although frames come in any order and the socket breaks in between.
ViewConverges ==
    LET c == page.active
    IN  /\ line = "up" /\ c \in alive \ page.doubted /\ ~About(c) /\ ~page.blurred
        => page.shown = Stored(c)

\* A message counts once in the badge of its chat: by its unread row when the list of chats
\* is loaded, or by its live frame, never by both, and never again by the replay.
BadgeCountsOnce ==
    \A c \in DOMAIN page.chats :
        page.chats[c] <= Cardinality({m \in Messages \ Own : home[m] = c})
                         + Cardinality({m \in twice : home[m] = c})
=============================================================================
