--------------------------- MODULE PresenceFanout ---------------------------
(***************************************************************************)
(* How other users hear that a user came online or left: every transition  *)
(* of the presence table starts a goroutine (`go cb(userID, isOnline)`),   *)
(* which looks up who is online, takes a snapshot of their connections and *)
(* hands one frame per connection to the broadcast pool, whose workers     *)
(* write them in any order (handlers/websocket.go broadcastPresenceChange, *)
(* broadcastToUser, workerPool).  A client also asks over HTTP when it     *)
(* opens a chat (GetUserPresenceAPI); the answer is one more message on    *)
(* its way, unordered with the frames.                                     *)
(***************************************************************************)
EXTENDS Connections

CONSTANT
    Watches     \* the pairs <<c, u>>: the client of c displays the presence of u

ASSUME FanoutAssumption ==
    Watches \subseteq {w \in Conns \X Users : Owner[w[1]] # w[2]}

VARIABLES
    callbacks,  \* onChange goroutines not yet run, per user and new state
    frames,     \* presence_changed frames in the pool and presence answers
    view,       \* what each connection's client last heard of each user
    overlapped  \* history: users with two changes on their way at once, or one lost

fvars == <<pc, clients, wired, stalled, status, age, evicted,
           callbacks, frames, view, overlapped>>

Frame == [to : Conns, user : Users, online : BOOLEAN]

FanoutInit ==
    /\ ConnInit
    /\ callbacks = [u \in Users |-> [b \in BOOLEAN |-> 0]]
    /\ frames = {}
    /\ view = [c \in Conns |-> [u \in Users |-> "unknown"]]
    /\ overlapped = {}

\* A change of u is still on its way to the clients.
InFlight(u) ==
    \/ \E b \in BOOLEAN : callbacks[u][b] > 0
    \/ \E f \in frames : f.user = u

\* One new goroutine for every user of the set; they start in no order.
Spawn(changed, isOnline) ==
    /\ callbacks' = [u \in Users |->
                        IF u \in changed
                        THEN [callbacks[u] EXCEPT ![isOnline] = @ + 1]
                        ELSE callbacks[u]]
    /\ overlapped' = overlapped \cup {u \in changed : InFlight(u)}

\* Mutant: the callback fires only for a user seen for the first time.
CameOnlineFirst(u) == ~status[u].known

CameOnline(u) == ~IsUserOnline(u)

\* What the client of a new socket was told over an earlier one is not counted.
Connect(c) ==
    /\ UserConnected(c)
    /\ Spawn({u \in {Owner[c]} : CameOnline(u)}, TRUE)
    /\ view' = [view EXCEPT ![c] = [u \in Users |-> "unknown"]]
    /\ UNCHANGED frames

\* Mutant: the callback fires when one connection is left.
DisconnectEager(c) ==
    /\ UserDisconnected(c)
    /\ Spawn({u \in {Owner[c]} : status[u].known /\ status[u].conns <= 2}, FALSE)
    /\ UNCHANGED <<frames, view>>

\* The callback also fires when the sweep had already marked the user offline.
Disconnect(c) ==
    /\ UserDisconnected(c)
    /\ Spawn({u \in {Owner[c]} : status[u].known /\ status[u].conns <= 1}, FALSE)
    /\ UNCHANGED <<frames, view>>

Sweep ==
    /\ CleanupInactiveUsers
    /\ Spawn({u \in Users : TimedOut(u)}, FALSE)
    /\ UNCHANGED <<frames, view>>

\* The audience is looked up when the goroutine runs, not when the state changed.
Audience(u) ==
    {c \in UNION {clients[p] : p \in {x \in Users \ {u} : IsUserOnline(x)}} :
        <<c, u>> \in Watches}

BroadcastPresenceChange(u, isOnline) ==
    /\ callbacks[u][isOnline] > 0
    /\ callbacks' = [callbacks EXCEPT ![u][isOnline] = @ - 1]
    /\ frames' = frames \cup {[to |-> c, user |-> u, online |-> isOnline] : c \in Audience(u)}
    /\ UNCHANGED <<cvars, view, overlapped>>

\* Mutant: a goroutine that fails is counted off twice.
BroadcastPresenceFailsTwice(u, isOnline) ==
    /\ callbacks[u][isOnline] > 0
    /\ callbacks' = [callbacks EXCEPT ![u][isOnline] = @ - 2]
    /\ overlapped' = overlapped \cup {u}
    /\ UNCHANGED <<cvars, frames, view>>

\* The chats of the user cannot be read: the error is logged and nobody is told.
BroadcastPresenceFails(u, isOnline) ==
    /\ callbacks[u][isOnline] > 0
    /\ callbacks' = [callbacks EXCEPT ![u][isOnline] = @ - 1]
    /\ overlapped' = overlapped \cup {u}
    /\ UNCHANGED <<cvars, frames, view>>

\* GetUserPresenceAPI reads the table; the answer reaches the client later.
AskPresence(c, u) ==
    /\ <<c, u>> \in Watches
    /\ Reading(c) /\ c \in wired
    /\ frames' = frames \cup {[to |-> c, user |-> u, online |-> IsUserOnline(u)]}
    /\ frames' # frames
    /\ UNCHANGED <<cvars, callbacks, view, overlapped>>

\* A worker of the broadcast pool writes one frame, or an answer arrives.
WritePresence(f) ==
    /\ f \in frames
    /\ frames' = frames \ {f}
    /\ view' = IF f.to \in wired
               THEN [view EXCEPT ![f.to][f.user] =
                        IF f.online THEN "online" ELSE "offline"]
               ELSE view
    /\ UNCHANGED <<cvars, callbacks, overlapped>>

\* The steps of Connections that leave the presence table alone or keep everyone's state.
Quiet ==
    /\ \/ \E c \in Conns :
            \/ CheckConnectionLimit(c) \/ UpgradeFails(c) \/ Register(c)
            \/ Drop(c) \/ Stall(c) \/ Resume(c) \/ UpdateActivity(c)
            \/ RemoveClient(c) \/ CheckLastConnection(c) \/ EndCall(c)
       \/ \E u \in Users : GrowOld(u)
    /\ UNCHANGED <<callbacks, frames, view, overlapped>>

FanoutNext ==
    \/ \E c \in Conns : Connect(c) \/ Disconnect(c)
    \/ Sweep
    \/ Quiet
    \/ \E u \in Users, b \in BOOLEAN : BroadcastPresenceChange(u, b) \/ BroadcastPresenceFails(u, b)
    \/ \E c \in Conns, u \in Users : AskPresence(c, u)
    \/ \E f \in frames : WritePresence(f)

FanoutSpec == FanoutInit /\ [][FanoutNext]_fvars

----------------------------------------------------------------------------
FanoutTypeOK ==
    /\ ConnTypeOK
    /\ callbacks \in [Users -> [BOOLEAN -> Nat]]
    /\ frames \in SUBSET Frame
    /\ view \in [Conns -> [Users -> {"unknown", "online", "offline"}]]
    /\ overlapped \in SUBSET Users

\* If no two changes of a user were ever on their way at the same time, and none was
\* lost to a failed query, a
\* connection that was told anything of the user since it opened was told the
\* truth.  (Two at once race: neither their goroutines nor their frames have an order.)
ViewIsCurrent ==
    \A c \in Conns, u \in Users :
        /\ Reading(c) /\ c \in wired
        /\ Owner[c] \notin evicted
        /\ u \notin overlapped /\ ~InFlight(u)
        /\ view[c][u] # "unknown"
        => view[c][u] = (IF IsUserOnline(u) THEN "online" ELSE "offline")

\* The same for the frames not yet written: without overlap they carry the
\* current state, so the pool's disorder does no harm.
FramesAgree ==
    \A f \in frames :
        f.user \notin overlapped => f.online = IsUserOnline(f.user)

=============================================================================
