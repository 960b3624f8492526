---------------------------- MODULE Connections ----------------------------
(***************************************************************************)
(* The life of a WebSocket connection on the server and the in-memory      *)
(* presence of its user: handlers/websocket.go (HandleWebSocket and the    *)
(* functions it calls) with services/presence_service.go.                  *)
(*                                                                         *)
(* A user may hold several connections.  Each one runs in its own request  *)
(* goroutine through the phases below; the registry h.clients and the      *)
(* presence table are two structures under two locks, so between any two   *)
(* of these steps other goroutines run.                                    *)
(*                                                                         *)
(*   closed      no request yet                                            *)
(*   admitted    checkConnectionLimit passed, HTTP upgrade under way       *)
(*   registered  in h.clients, presence not yet told                       *)
(*   open        counted by presence, read loop running                    *)
(*   removed     read loop ended, context cancelled, out of h.clients      *)
(*   hanging     last connection of its user: about to end the user's call *)
(*   notified    call peer handled, presence not yet told                  *)
(*   gone        presence told, socket closed                              *)
(*                                                                         *)
(* A connection value is one connection attempt: it is never reused.       *)
(***************************************************************************)
EXTENDS Naturals, FiniteSets

CONSTANTS
    Users,      \* the accounts
    Conns,      \* connection attempts
    Owner,      \* [Conns -> Users]: the account each attempt authenticates as
    ConnLimit,  \* maxConnectionsPerUser
    MaxAge,     \* bound on the idle time that is modelled, see age
    MayStall    \* whether a handler may block its read loop for minutes

ASSUME ConnectionsAssumption ==
    /\ IsFiniteSet(Conns)
    /\ Owner \in [Conns -> Users]
    /\ ConnLimit \in Nat \ {0}
    /\ MaxAge \in 0..3
    /\ MayStall \in BOOLEAN

VARIABLES
    pc,         \* [Conns -> Phases]
    clients,    \* h.clients: the connections a broadcast to a user reaches
    wired,      \* connections whose peer still receives what is written
    stalled,    \* connections whose read loop sits in a handler
    status,     \* PresenceService.users
    age,        \* time since LastSeen: 0 recent, 1 a ping is due, 2 over 2 minutes, 3 over 1 hour
    evicted     \* history: users zeroed by the sweep while still counted

connVars == <<pc, clients, wired, stalled>>
presenceVars == <<status, age, evicted>>
cvars == <<pc, clients, wired, stalled, status, age, evicted>>

Phases == {"closed", "admitted", "registered", "open", "removed", "hanging",
           "notified", "gone"}

Status == [known : BOOLEAN, conns : Nat, online : BOOLEAN]
Absent == [known |-> FALSE, conns |-> 0, online |-> FALSE]

\* The phases in which presence has counted a connection and not yet uncounted it.
CountedPhases == {"open", "removed", "hanging", "notified"}

ConnsOf(u) == {c \in Conns : Owner[c] = u}
Counted(u) == {c \in ConnsOf(u) : pc[c] \in CountedPhases}
Reading(c) == pc[c] = "open" /\ c \notin stalled
IsUserOnline(u) == status[u].online

ConnInit ==
    /\ pc = [c \in Conns |-> "closed"]
    /\ clients = [u \in Users |-> {}]
    /\ wired = {}
    /\ stalled = {}
    /\ status = [u \in Users |-> Absent]
    /\ age = [u \in Users |-> 0]
    /\ evicted = {}

----------------------------------------------------------------------------
(* The presence table.                                                     *)

Goto(c, phase) == pc' = [pc EXCEPT ![c] = phase]

\* Mutant: a second device of an online user is not counted.
UserConnectedOnce(c) ==
    LET u == Owner[c] IN
    /\ pc[c] = "registered"
    /\ Goto(c, "open")
    /\ status' = [status EXCEPT ![u] = [known |-> TRUE, conns |-> 1, online |-> TRUE]]
    /\ age' = [age EXCEPT ![u] = 0]
    /\ UNCHANGED <<clients, wired, stalled, evicted>>

UserConnected(c) ==
    LET u == Owner[c] IN
    /\ pc[c] = "registered"
    /\ Goto(c, "open")
    /\ status' = [status EXCEPT ![u] = [known  |-> TRUE,
                                        conns  |-> @.conns + 1,
                                        online |-> TRUE]]
    /\ age' = [age EXCEPT ![u] = 0]
    /\ UNCHANGED <<clients, wired, stalled, evicted>>

\* Mutant: the count is not kept at zero.
OneLessUnfloored(n) == n - 1

\* The count after one connection less, never below zero.
OneLess(n) == IF n > 0 THEN n - 1 ELSE 0

UserDisconnected(c) ==
    LET u    == Owner[c]
        left == OneLess(status[u].conns)
    IN
    /\ pc[c] = "notified"
    /\ Goto(c, "gone")
    /\ wired' = wired \ {c}
    /\ IF status[u].known
       THEN /\ status' = [status EXCEPT ![u] = [known  |-> TRUE,
                                                conns  |-> left,
                                                online |-> @.online /\ left > 0]]
            /\ age' = [age EXCEPT ![u] = 0]
       ELSE UNCHANGED <<status, age>>
    /\ UNCHANGED <<clients, stalled, evicted>>

\* A frame or a pong arrived: the read loop or the pong handler moves LastSeen.
UpdateActivity(c) ==
    /\ Reading(c)
    /\ c \in wired
    /\ age[Owner[c]] # 0
    /\ age' = [age EXCEPT ![Owner[c]] = 0]
    /\ UNCHANGED <<connVars, status, evicted>>

\* Time passes.  A reading connection either answers a ping or meets its read
\* deadline (pongWait, 60s) before its user has been idle for 2 minutes, but the
\* peer may let a whole pingPeriod (54s) go by in silence.
GrowOld(u) ==
    /\ status[u].known
    /\ age[u] < MaxAge
    /\ age[u] = 0 \/ ~ \E c \in ConnsOf(u) : Reading(c)
    /\ age' = [age EXCEPT ![u] = @ + 1]
    /\ UNCHANGED <<connVars, status, evicted>>

\* Mutant: the sweep forgets to look at LastSeen.
TimedOutAtOnce(u) == IsUserOnline(u)

TimedOut(u) == IsUserOnline(u) /\ age[u] >= 2
Expired(u) == status[u].known /\ (TimedOut(u) \/ ~IsUserOnline(u)) /\ age[u] = 3

\* One tick of the 30 second sweep, over the whole table under its lock.
CleanupInactiveUsers ==
    /\ \E u \in Users : TimedOut(u) \/ Expired(u)
    /\ status' = [u \in Users |->
                    IF Expired(u) THEN Absent
                    ELSE IF TimedOut(u)
                         THEN [known |-> TRUE, conns |-> 0, online |-> FALSE]
                         ELSE status[u]]
    /\ age' = [u \in Users |-> IF Expired(u) THEN 0 ELSE age[u]]
    /\ evicted' = evicted \cup {u \in Users : TimedOut(u) /\ Counted(u) # {}}
    /\ UNCHANGED connVars

----------------------------------------------------------------------------
(* The connection goroutine.                                               *)

\* checkConnectionLimit reads the registry under a read lock it then releases.
CheckConnectionLimit(c) ==
    /\ pc[c] = "closed"
    /\ Cardinality(clients[Owner[c]]) < ConnLimit
    /\ Goto(c, "admitted")
    /\ UNCHANGED <<clients, wired, stalled, presenceVars>>

UpgradeFails(c) ==
    /\ pc[c] = "admitted"
    /\ Goto(c, "gone")
    /\ UNCHANGED <<clients, wired, stalled, presenceVars>>

\* First half of setupConnection; UserConnected is the second.
Register(c) ==
    /\ pc[c] = "admitted"
    /\ Goto(c, "registered")
    /\ clients' = [clients EXCEPT ![Owner[c]] = @ \cup {c}]
    /\ wired' = wired \cup {c}
    /\ UNCHANGED <<stalled, presenceVars>>

\* The peer closes the socket or the network fails; the server learns of it in the read loop.
Drop(c) ==
    /\ c \in wired
    /\ wired' = wired \ {c}
    /\ UNCHANGED <<pc, clients, stalled, presenceVars>>

\* A handler called by the read loop blocks, for instance on a full job queue.
\* The connection counts as stalled until its next read returns.
Stall(c) ==
    /\ MayStall
    /\ Reading(c)
    /\ stalled' = stalled \cup {c}
    /\ UNCHANGED <<pc, clients, wired, presenceVars>>

Resume(c) ==
    /\ c \in stalled
    /\ stalled' = stalled \ {c}
    /\ age' = IF c \in wired THEN [age EXCEPT ![Owner[c]] = 0] ELSE age
    /\ UNCHANGED <<pc, clients, wired, status, evicted>>

\* The read loop meets an error and cleanup begins: cancel, then removeClient.
RemoveClient(c) ==
    /\ Reading(c)
    /\ c \notin wired
    /\ Goto(c, "removed")
    /\ clients' = [clients EXCEPT ![Owner[c]] = @ \ {c}]
    /\ UNCHANGED <<wired, stalled, presenceVars>>

\* notifyCallPeerOnDisconnect: the check under h.mu, then the call table under callsMu.
CheckLastConnection(c) ==
    /\ pc[c] = "removed"
    /\ Goto(c, IF clients[Owner[c]] = {} THEN "hanging" ELSE "notified")
    /\ UNCHANGED <<clients, wired, stalled, presenceVars>>

\* Mutant: a panic on the way out skips UserDisconnected.
EndCallPanics(c) ==
    /\ pc[c] = "hanging"
    /\ Goto(c, "gone")
    /\ UNCHANGED <<clients, wired, stalled, presenceVars>>

EndCall(c) ==
    /\ pc[c] = "hanging"
    /\ Goto(c, "notified")
    /\ UNCHANGED <<clients, wired, stalled, presenceVars>>

----------------------------------------------------------------------------
ConnStep(c) ==
    \/ CheckConnectionLimit(c)
    \/ UpgradeFails(c)
    \/ Register(c)
    \/ UserConnected(c)
    \/ Drop(c)
    \/ Stall(c)
    \/ Resume(c)
    \/ UpdateActivity(c)
    \/ RemoveClient(c)
    \/ CheckLastConnection(c)
    \/ EndCall(c)
    \/ UserDisconnected(c)

ConnNext ==
    \/ \E c \in Conns : ConnStep(c)
    \/ \E u \in Users : GrowOld(u)
    \/ CleanupInactiveUsers

\* Goroutines run.  A network failure, a stall, the passing of time and a new
\* connection are not promised, but a stalled handler returns in the end.
ConnFairness ==
    \A c \in Conns : /\ WF_cvars(UserConnected(c))
                     /\ WF_cvars(Resume(c))
                     /\ SF_cvars(RemoveClient(c))
                     /\ WF_cvars(CheckLastConnection(c))
                     /\ WF_cvars(EndCall(c))
                     /\ WF_cvars(UserDisconnected(c))

ConnSpec == ConnInit /\ [][ConnNext]_cvars
ConnFairSpec == ConnSpec /\ ConnFairness

----------------------------------------------------------------------------
(* What holds.                                                             *)

ConnTypeOK ==
    /\ pc \in [Conns -> Phases]
    /\ clients \in [Users -> SUBSET Conns]
    /\ wired \in SUBSET Conns
    /\ stalled \in SUBSET Conns
    /\ status \in [Users -> Status]
    /\ age \in [Users -> 0..3]
    /\ evicted \in SUBSET Users

\* A user who is shown online has a connection whose UserDisconnected has not
\* run: no order of connects, disconnects and sweeps strands a user online.
OnlineIsBacked == \A u \in Users : IsUserOnline(u) => Counted(u) # {}

\* Unless the sweep zeroed a user who still held a connection, the presence
\* counter is the number of connections presence was told of, so the user is
\* online exactly while one remains.
CountIsExact ==
    \A u \in Users \ evicted :
        /\ status[u].conns = Cardinality(Counted(u))
        /\ IsUserOnline(u) <=> Counted(u) # {}

\* The sweep hits a user with connections only if each of them is stuck in a
\* handler, cut off or on its way out: a ping protects a connection that reads.
EvictionNeedsStall ==
    [][\A u \in evicted' \ evicted : \A c \in Counted(u) :
            ~(Reading(c) /\ c \in wired)]_cvars

\* A user all of whose connections lost their peer, and who opens no other, ends up offline.
LostUsersGoOffline ==
    \A u \in Users :
        (<>[](\A c \in ConnsOf(u) : c \notin wired /\ pc[c] # "admitted")) => <>[]~IsUserOnline(u)

\* The comment on maxConnectionsPerUser (handlers/constants.go:23), "Max WebSocket
\* connections per user", read as a bound on the registry.
ConnectionLimit == \A u \in Users : Cardinality(clients[u]) <= ConnLimit

=============================================================================
