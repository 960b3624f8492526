------------------------------- MODULE Calls -------------------------------
(***************************************************************************)
(* Voice calls in direct chats.  The phones are the frontend's             *)
(* CallProvider (features/calls), one per user; the server relays their    *)
(* frames and keeps h.activeCalls, so that a phone whose peer disconnects  *)
(* is told (handlers/websocket_call.go, handlers/websocket.go).            *)
(*                                                                         *)
(* Each phone is event driven: a click, a frame, a timer or the end of a   *)
(* promise (the microphone prompt, the WebRTC negotiation) runs to the     *)
(* end, but between the start and the end of a promise everything else     *)
(* may happen.  Frames reach the server in the order they are sent and are *)
(* handled one at a time; the frames the server writes go through the      *)
(* broadcast pool, in any order.                                           *)
(*                                                                         *)
(* A call id is fresh (crypto.randomUUID) and stands for one direct chat,  *)
(* so who calls whom is fixed by the id.  The media themselves and the ICE *)
(* candidates are left out.                                                *)
(*                                                                         *)
(* A handler sets the phone's state but reads callStateRef, the copy an    *)
(* effect takes after React has rendered the state.  A click is rendered   *)
(* before anything else runs; after a frame, a timer or a promise more     *)
(* handlers may come first, and they see the old copy (Commit).            *)
(***************************************************************************)
EXTENDS Naturals, Sequences, FiniteSets

CONSTANTS
    Users,      \* the accounts, each with one phone
    CallIds,    \* ids of the calls that may be made
    Caller,     \* [CallIds -> Users]
    Callee,     \* [CallIds -> Users]
    None,       \* no call
    MaxEvents,  \* bound: calls made, broken lines and repeated taps, together
    MaxTalk     \* bound: frames of one phone on their way to the server

ASSUME CallsAssumption ==
    /\ Caller \in [CallIds -> Users]
    /\ Callee \in [CallIds -> Users]
    /\ \A k \in CallIds : Caller[k] # Callee[k]
    /\ None \notin CallIds
    /\ MaxEvents \in Nat
    /\ MaxTalk \in Nat \ {0}

VARIABLES
    phone,      \* callState as last set: status and call id of each phone
    seen,       \* callStateRef: the copy of it that the handlers read
    sdp,        \* incomingSdpRef: whether an offer's description is kept
    pc,         \* pcRef: whether a finished promise has left a connection
    ring,       \* the call each caller's no-answer timer is armed for
    wait,       \* the call each callee's wait-for-offer timer is armed for
    promises,   \* promises of the phones that have not settled
    doorbell,   \* pendingReadyRef: the call whose push was tapped
    bells,      \* call pushes not yet tapped
    uplink,     \* frames on their way to the server, per user
    downlink,   \* frames in the broadcast pool or on their way to a phone
    handling,   \* the frame each user's read loop is in the middle of
    table,      \* h.activeCalls
    line,       \* whether each user's socket is up
    leaving,    \* cleanup of a broken connection, see DropLine
    used,       \* call ids already taken
    mishaps,    \* how often a line broke or Accept was tapped again
    answered,   \* history: calls the callee answered
    talked,     \* history: calls whose caller's phone went active
    posted      \* history: missed-call messages, counted per call

phoneVars == <<phone, seen, sdp, pc, ring, wait, promises, doorbell>>
serverVars == <<handling, table>>
lineVars == <<line, leaving, mishaps>>
callHistory == <<answered, talked, posted>>
callVars == <<phone, seen, sdp, pc, ring, wait, promises, doorbell, bells, uplink,
              downlink, handling, table, line, leaving, used, mishaps, answered, talked,
              posted>>

MaybeCall == CallIds \cup {None}
Statuses == {"idle", "outgoing", "incoming", "connecting", "active"}
Kinds == {"call_offer", "call_answer", "call_ready", "call_hangup", "call_reject",
          "call_missed"}
Frame == [kind : Kinds, call : CallIds]
Letter == [to : Users, kind : Kinds \ {"call_missed"}, call : CallIds]
Promise == [user : Users, kind : {"offer", "reoffer", "answer", "auto", "remote"},
            call : CallIds, stale : BOOLEAN]
Phone == [status : Statuses, call : MaybeCall]
Idle == [status |-> "idle", call |-> None]
Entry == [peer : Users, call : CallIds]
NoEntry == [peer |-> None, call |-> None]
Work == [step : {"offer", "missed"}, call : CallIds, online : BOOLEAN]
NoWork == [step |-> "none", call |-> None, online |-> FALSE]

Room == Cardinality(used) + mishaps < MaxEvents

Other(u, k) == IF u = Caller[k] THEN Callee[k] ELSE Caller[k]
IsUserOnline(u) == line[u] = "up" \/ leaving[u] # "no"

CallsInit ==
    /\ phone = [u \in Users |-> Idle]
    /\ seen = phone
    /\ sdp = [u \in Users |-> FALSE]
    /\ pc = [u \in Users |-> FALSE]
    /\ ring = [u \in Users |-> None]
    /\ wait = [u \in Users |-> None]
    /\ promises = {}
    /\ doorbell = [u \in Users |-> None]
    /\ bells = {}
    /\ uplink = [u \in Users |-> <<>>]
    /\ downlink = {}
    /\ handling = [u \in Users |-> NoWork]
    /\ table = [u \in Users |-> NoEntry]
    /\ line \in [Users -> {"up", "down"}]
    /\ leaving = [u \in Users |-> "no"]
    /\ used = {}
    /\ mishaps = 0
    /\ answered = {}
    /\ talked = {}
    /\ posted = [k \in CallIds |-> 0]

----------------------------------------------------------------------------
(* What the phone's handlers are made of.                                  *)

\* The chats page registers its send function for as long as its socket is open.
SendRegistered(u) == line[u] = "up"

\* send: false, and the frame is gone, when there is none.
Send(u, frames) ==
    /\ Len(uplink[u]) + Len(frames) <= MaxTalk
    /\ uplink' = IF SendRegistered(u) THEN [uplink EXCEPT ![u] = @ \o frames] ELSE uplink

Say(kind, k) == [kind |-> kind, call |-> k]

SetPhone(u, status, k) == phone' = [phone EXCEPT ![u] = [status |-> status, call |-> k]]

\* React renders the state last set, and the effect takes the copy.
Rendered(u) == seen' = [seen EXCEPT ![u] = phone'[u]]

\* resetState: both timers, the whole call state and the offer's description.
ResetState(u) ==
    /\ phone' = [phone EXCEPT ![u] = Idle]
    /\ ring' = [ring EXCEPT ![u] = None]
    /\ wait' = [wait EXCEPT ![u] = None]
    /\ sdp' = [sdp EXCEPT ![u] = FALSE]

\* cleanup in useWebRTC closes the connection and the microphone under whatever
\* promise of this phone is still pending.
Cleaned(u) ==
    {IF p.user = u THEN [p EXCEPT !.stale = TRUE] ELSE p : p \in promises}

Pending(u, kind, k) == [user |-> u, kind |-> kind, call |-> k, stale |-> FALSE]

Close(u, pending) ==
    /\ promises' = pending
    /\ pc' = [pc EXCEPT ![u] = FALSE]

\* startCall and answerCall close what is there and ask for the microphone.
Begin(u, kind, k) == Close(u, Cleaned(u) \cup {Pending(u, kind, k)})

\* hangup: tell the peer of the call this phone was last seen in, if it was in one.
HangupFrames(u) ==
    IF seen[u].status # "idle" /\ seen[u].call # None
    THEN <<Say("call_hangup", seen[u].call)>> ELSE <<>>

HangUp(u, pending) ==
    /\ Send(u, HangupFrames(u))
    /\ Close(u, pending)
    /\ ResetState(u)

----------------------------------------------------------------------------
(* Clicks and timers.                                                      *)

InitiateCall(u, k) ==
    /\ Caller[k] = u /\ k \notin used /\ Room
    /\ seen[u].status = "idle"
    /\ used' = used \cup {k}
    /\ SetPhone(u, "outgoing", k)
    /\ Rendered(u)
    /\ ring' = [ring EXCEPT ![u] = k]
    /\ Begin(u, "offer", k)
    /\ UNCHANGED <<sdp, wait, doorbell, bells, uplink, downlink, serverVars, lineVars,
                   callHistory>>

\* The status stays incoming until the answer is made; another tap starts over.
AcceptCall(u) ==
    LET k == seen[u].call IN
    /\ seen[u].status = "incoming" /\ k # None
    /\ sdp[u]
    /\ Begin(u, "answer", k)
    /\ IF \E p \in promises : p.user = u /\ p.kind = "answer" /\ p.call = k
       THEN Room /\ mishaps' = mishaps + 1
       ELSE UNCHANGED mishaps
    /\ UNCHANGED <<phone, seen, sdp, ring, wait, doorbell, bells, uplink, downlink,
                   serverVars, line, leaving, used, callHistory>>

RejectCall(u) ==
    /\ seen[u].status = "incoming" /\ seen[u].call # None
    /\ Send(u, <<Say("call_reject", seen[u].call)>>)
    /\ Close(u, Cleaned(u))
    /\ ResetState(u)
    /\ Rendered(u)
    /\ UNCHANGED <<doorbell, bells, downlink, serverVars, lineVars, used, callHistory>>

\* The red button.
ClickHangUp(u) ==
    /\ seen[u].status \in {"outgoing", "connecting", "active"}
    /\ HangUp(u, Cleaned(u))
    /\ Rendered(u)
    /\ UNCHANGED <<doorbell, bells, downlink, serverVars, lineVars, used, callHistory>>

\* The WebRTC connection of an active call fails.
ConnectionFails(u) ==
    /\ seen[u].status = "active"
    /\ HangUp(u, Cleaned(u))
    /\ UNCHANGED <<seen, doorbell, bells, downlink, serverVars, lineVars, used, callHistory>>

\* Mutant: the caller's phone goes on waiting.
RingTimeoutNoReset(u) ==
    LET k == ring[u] IN
    /\ k # None
    /\ ring' = [ring EXCEPT ![u] = None]
    /\ IF seen[u].status \in {"outgoing", "connecting"} /\ seen[u].call = k
       THEN Send(u, <<Say("call_missed", k), Say("call_hangup", k)>>)
       ELSE UNCHANGED uplink
    /\ UNCHANGED <<phone, seen, sdp, pc, wait, promises, doorbell, bells, downlink,
                   serverVars, lineVars, used, callHistory>>

RingTimeout(u) ==
    LET k == ring[u] IN
    /\ k # None
    /\ IF seen[u].status \in {"outgoing", "connecting"} /\ seen[u].call = k
       THEN /\ Send(u, <<Say("call_missed", k), Say("call_hangup", k)>>)
            /\ Close(u, Cleaned(u))
            /\ ResetState(u)
       ELSE /\ ring' = [ring EXCEPT ![u] = None]
            /\ UNCHANGED <<phone, sdp, pc, wait, promises, uplink>>
    /\ UNCHANGED <<seen, doorbell, bells, downlink, serverVars, lineVars, used, callHistory>>

\* Only the state is reset: the peer is not told.  The twelve seconds are longer than
\* the rendering of the state the timer was armed in.
ConnectingTimeout(u) ==
    LET k == wait[u] IN
    /\ k # None
    /\ phone[u] = [status |-> "connecting", call |-> k] => seen[u] = phone[u]
    /\ IF seen[u].status = "connecting" /\ seen[u].call = k
       THEN ResetState(u)
       ELSE wait' = [wait EXCEPT ![u] = None] /\ UNCHANGED <<phone, sdp, ring>>
    /\ UNCHANGED <<seen, pc, promises, doorbell, bells, uplink, downlink, serverVars,
                   lineVars, used, callHistory>>

\* flushPendingReady, for a phone that has a tapped doorbell k and a live socket.
FlushPendingReady(u, k) ==
    /\ doorbell' = [doorbell EXCEPT ![u] = None]
    /\ IF seen[u].status = "idle"
       THEN /\ SetPhone(u, "connecting", k)
            /\ uplink' = [uplink EXCEPT ![u] = Append(@, Say("call_ready", k))]
            /\ wait' = [wait EXCEPT ![u] = k]
       ELSE UNCHANGED <<phone, uplink, wait>>

\* The user taps the notification; without a socket the doorbell waits for one.
TapDoorbell(u, k) ==
    /\ <<u, k>> \in bells
    /\ Len(uplink[u]) < MaxTalk
    /\ bells' = bells \ {<<u, k>>}
    /\ IF SendRegistered(u)
       THEN FlushPendingReady(u, k)
       ELSE doorbell' = [doorbell EXCEPT ![u] = k] /\ UNCHANGED <<phone, uplink, wait>>
    /\ UNCHANGED <<seen, sdp, pc, ring, promises, downlink, serverVars, lineVars, used,
                   callHistory>>

\* The state set by a frame, a timer or a promise is rendered.
Commit(u) ==
    /\ seen[u] # phone[u]
    /\ seen' = [seen EXCEPT ![u] = phone[u]]
    /\ UNCHANGED <<phone, sdp, pc, ring, wait, promises, doorbell, bells, uplink, downlink,
                   serverVars, lineVars, used, callHistory>>

----------------------------------------------------------------------------
(* Promises settle.                                                        *)

Active(u) == phone' = [phone EXCEPT ![u].status = "active"]

\* The caller's phone goes active on an answer to k, if that is the call it is in.
Talking(u, k) == talked' = talked \cup ({k} \cap {phone[u].call})

\* startCall gave an offer.  Nothing looks at what the phone is doing by now.
OfferMade(p) ==
    /\ p \in promises /\ p.kind \in {"offer", "reoffer"}
    /\ Send(p.user, <<Say("call_offer", p.call)>>)
    /\ promises' = promises \ {p}
    /\ pc' = [pc EXCEPT ![p.user] = TRUE]
    /\ UNCHANGED <<phone, seen, sdp, ring, wait, doorbell, bells, downlink, serverVars,
                   lineVars, used, callHistory>>

\* answerCall gave an answer: the status becomes active, whatever it was.
AnswerMade(p) ==
    /\ p \in promises /\ p.kind \in {"answer", "auto"}
    /\ Send(p.user, <<Say("call_answer", p.call)>>)
    /\ promises' = promises \ {p}
    /\ pc' = [pc EXCEPT ![p.user] = TRUE]
    /\ sdp' = [sdp EXCEPT ![p.user] = FALSE]
    /\ Active(p.user)
    /\ answered' = answered \cup {p.call}
    /\ UNCHANGED <<seen, ring, wait, doorbell, bells, downlink, serverVars, lineVars, used,
                   talked, posted>>

\* The remote answer is set, which a closed connection never reports.
RemoteAnswerSet(p) ==
    /\ p \in promises /\ p.kind = "remote" /\ ~p.stale
    /\ promises' = promises \ {p}
    /\ Active(p.user)
    /\ Talking(p.user, p.call)
    /\ UNCHANGED <<seen, sdp, pc, ring, wait, doorbell, bells, uplink, downlink, serverVars,
                   lineVars, used, answered, posted>>

\* The microphone is refused or the negotiation fails: the first offer and the
\* accepted answer only reset the phone, the others hang up.
PromiseFails(p) ==
    /\ p \in promises
    /\ IF p.kind \in {"offer", "answer"}
       THEN /\ Close(p.user, Cleaned(p.user) \ {p, [p EXCEPT !.stale = TRUE]})
            /\ ResetState(p.user)
            /\ UNCHANGED uplink
       ELSE HangUp(p.user, Cleaned(p.user) \ {p, [p EXCEPT !.stale = TRUE]})
    /\ UNCHANGED <<seen, doorbell, bells, downlink, serverVars, lineVars, used, callHistory>>

----------------------------------------------------------------------------
(* A frame reaches a phone (handleCallEvent).                              *)

Take(u, kind, k) ==
    LET f == [to |-> u, kind |-> kind, call |-> k] IN
    /\ f \in downlink
    /\ line[u] = "up"
    /\ downlink' = downlink \ {f}
    /\ UNCHANGED <<seen, doorbell, bells, serverVars, lineVars, used, answered, posted>>

\* Mutant: a busy phone takes the new call.
OnOfferNeverBusy(u, k) ==
    /\ Take(u, "call_offer", k)
    /\ SetPhone(u, "incoming", k)
    /\ sdp' = [sdp EXCEPT ![u] = TRUE]
    /\ UNCHANGED <<pc, ring, wait, promises, uplink, talked>>

OnOffer(u, k) ==
    /\ Take(u, "call_offer", k)
    /\ CASE seen[u].status = "connecting" /\ seen[u].call = k ->
              /\ wait' = [wait EXCEPT ![u] = None]
              /\ sdp' = [sdp EXCEPT ![u] = TRUE]
              /\ Begin(u, "auto", k)
              /\ UNCHANGED <<phone, ring, uplink>>
         [] seen[u].status = "idle" ->
              /\ sdp' = [sdp EXCEPT ![u] = TRUE]
              /\ SetPhone(u, "incoming", k)
              /\ UNCHANGED <<pc, ring, wait, promises, uplink>>
         [] OTHER ->
              /\ Send(u, <<Say("call_reject", k)>>)
              /\ UNCHANGED <<phone, sdp, pc, ring, wait, promises>>
    /\ UNCHANGED talked

\* handleRemoteAnswer: a connection is there, and the answer is to be set on it, or none
\* is, and the phone goes active at once.  One of a pending startCall may be there.
MayHaveConnection(u) ==
    pc[u] \/ \E p \in promises : p.user = u /\ p.kind # "remote"

HandleRemoteAnswer(u, k) ==
    \/ /\ MayHaveConnection(u)
       /\ promises' = promises \cup {Pending(u, "remote", k)}
       /\ UNCHANGED <<phone, talked>>
    \/ /\ ~pc[u]
       /\ Active(u)
       /\ Talking(u, k)
       /\ UNCHANGED promises

\* Mutant: the answer is taken for the call at hand.
OnAnswerAnyCall(u, k) ==
    /\ Take(u, "call_answer", k)
    /\ IF seen[u].status = "outgoing"
       THEN ring' = [ring EXCEPT ![u] = None] /\ HandleRemoteAnswer(u, seen[u].call)
       ELSE UNCHANGED <<phone, ring, promises, talked>>
    /\ UNCHANGED <<sdp, pc, wait, uplink>>

OnAnswer(u, k) ==
    /\ Take(u, "call_answer", k)
    /\ IF seen[u].status = "outgoing" /\ seen[u].call = k
       THEN ring' = [ring EXCEPT ![u] = None] /\ HandleRemoteAnswer(u, k)
       ELSE UNCHANGED <<phone, ring, promises, talked>>
    /\ UNCHANGED <<sdp, pc, wait, uplink>>

\* Mutant: the callee has answered the doorbell, so the no-answer timer stops.
OnReadyStopsRing(u, k) ==
    /\ Take(u, "call_ready", k)
    /\ IF seen[u].status = "outgoing" /\ seen[u].call = k
       THEN Begin(u, "reoffer", k) /\ ring' = [ring EXCEPT ![u] = None]
       ELSE UNCHANGED <<pc, promises, ring>>
    /\ UNCHANGED <<phone, sdp, wait, uplink, talked>>

OnReady(u, k) ==
    /\ Take(u, "call_ready", k)
    /\ IF seen[u].status = "outgoing" /\ seen[u].call = k
       THEN Begin(u, "reoffer", k)
       ELSE UNCHANGED <<pc, promises>>
    /\ UNCHANGED <<phone, sdp, ring, wait, uplink, talked>>

OnHangUp(u, k) ==
    /\ Take(u, "call_hangup", k) \/ Take(u, "call_reject", k)
    /\ IF seen[u].call = k
       THEN Close(u, Cleaned(u)) /\ ResetState(u)
       ELSE UNCHANGED <<phone, sdp, pc, ring, wait, promises>>
    /\ UNCHANGED <<uplink, talked>>

----------------------------------------------------------------------------
(* The server.                                                             *)

\* broadcastToUser: nothing is written for a user without a registered connection.
Relay(u, kind, k) ==
    downlink' = IF line[u] = "up"
                THEN downlink \cup {[to |-> u, kind |-> kind, call |-> k]} ELSE downlink

\* registerCall and unregisterCall, each under callsMu.
Registered(u, k) ==
    [table EXCEPT ![u] = [peer |-> Other(u, k), call |-> k],
                  ![Other(u, k)] = [peer |-> u, call |-> k]]
Unregistered(u) ==
    [v \in Users |-> IF table[u] # NoEntry /\ v \in {u, table[u].peer}
                     THEN NoEntry ELSE table[v]]

\* The read loop of u takes its next frame.
ReadFrame(u, k) ==
    /\ handling[u] = NoWork
    /\ uplink[u] # <<>> /\ Head(uplink[u]).call = k
    /\ uplink' = [uplink EXCEPT ![u] = Tail(@)]
    /\ UNCHANGED <<phoneVars, bells, lineVars, used, answered, talked>>

\* Mutant: whatever is not handled otherwise is relayed, call_missed too.
RelayAnything(u, k) ==
    /\ ReadFrame(u, k)
    /\ Head(uplink[u]).kind \in {"call_answer", "call_ready", "call_missed"}
    /\ Relay(Other(u, k), Head(uplink[u]).kind, k)
    /\ UNCHANGED <<serverVars, posted>>

\* An answer or a call_ready is relayed and no more.
RelaySignal(u, k) ==
    /\ ReadFrame(u, k)
    /\ Head(uplink[u]).kind \in {"call_answer", "call_ready"}
    /\ Relay(Other(u, k), Head(uplink[u]).kind, k)
    /\ UNCHANGED <<serverVars, posted>>

\* The entry goes whichever call it is for.
HandleHangUp(u, k) ==
    /\ ReadFrame(u, k)
    /\ Head(uplink[u]).kind \in {"call_hangup", "call_reject"}
    /\ table' = Unregistered(u)
    /\ Relay(Other(u, k), Head(uplink[u]).kind, k)
    /\ UNCHANGED <<handling, posted>>

\* The offer's presence check comes before the call is registered.
CheckOffer(u, k) ==
    /\ ReadFrame(u, k)
    /\ Head(uplink[u]).kind = "call_offer"
    /\ handling' = [handling EXCEPT ![u] =
            [step |-> "offer", call |-> k, online |-> IsUserOnline(Other(u, k))]]
    /\ UNCHANGED <<table, downlink, posted>>

\* registerCall, then the relay or, to an offline callee, the push.
RegisterOffer(u) ==
    LET k == handling[u].call IN
    /\ handling[u].step = "offer"
    /\ handling' = [handling EXCEPT ![u] = NoWork]
    /\ table' = Registered(u, k)
    /\ IF handling[u].online
       THEN Relay(Other(u, k), "call_offer", k) /\ UNCHANGED bells
       ELSE bells' = bells \cup {<<Other(u, k), k>>} /\ UNCHANGED downlink
    /\ UNCHANGED <<phoneVars, uplink, lineVars, used, callHistory>>

\* The guard of handleCallMissed reads the table and lets go of the lock.
CheckMissed(u, k) ==
    /\ ReadFrame(u, k)
    /\ Head(uplink[u]).kind = "call_missed"
    /\ handling' = IF table[u].call = k
                   THEN [handling EXCEPT ![u] =
                            [step |-> "missed", call |-> k, online |-> FALSE]]
                   ELSE handling
    /\ UNCHANGED <<table, downlink, posted>>

\* unregisterCall takes the lock anew; then the message is stored, or is not.
PostMissed(u) ==
    LET k == handling[u].call IN
    /\ handling[u].step = "missed"
    /\ handling' = [handling EXCEPT ![u] = NoWork]
    /\ table' = Unregistered(u)
    /\ \/ posted' = [posted EXCEPT ![k] = @ + 1]
       \/ UNCHANGED posted
    /\ UNCHANGED <<phoneVars, bells, uplink, downlink, lineVars, used, answered, talked>>

----------------------------------------------------------------------------
(* Lines.                                                                  *)

\* The socket of u breaks: what is under way on it is lost, and removeClient takes
\* it from the registry.  One cleanup at a time.
DropLine(u) ==
    /\ line[u] = "up" /\ leaving[u] = "no"
    /\ Room
    /\ mishaps' = mishaps + 1
    /\ line' = [line EXCEPT ![u] = "down"]
    /\ leaving' = [leaving EXCEPT ![u] = "checking"]
    /\ uplink' = [uplink EXCEPT ![u] = <<>>]
    /\ downlink' = {f \in downlink : f.to # u}
    /\ UNCHANGED <<phoneVars, bells, serverVars, used, callHistory>>

\* A new socket of the same page; a tapped doorbell is answered on it.
Reconnect(u) ==
    /\ line[u] = "down"
    /\ line' = [line EXCEPT ![u] = "up"]
    /\ IF doorbell[u] # None
       THEN FlushPendingReady(u, doorbell[u])
       ELSE UNCHANGED <<phone, uplink, wait, doorbell>>
    /\ UNCHANGED <<seen, sdp, pc, ring, promises, bells, downlink, serverVars, leaving,
                   mishaps, used, callHistory>>

\* notifyCallPeerOnDisconnect: the registry under h.mu first...
CheckLastConnection(u) ==
    /\ leaving[u] = "checking"
    /\ handling[u] = NoWork
    /\ leaving' = [leaving EXCEPT ![u] = IF line[u] = "up" THEN "no" ELSE "ending"]
    /\ UNCHANGED <<phoneVars, bells, uplink, downlink, serverVars, line, mishaps, used,
                   callHistory>>

\* ...then the call table under callsMu, and the hangup to the peer.
EndCall(u) ==
    /\ leaving[u] = "ending"
    /\ leaving' = [leaving EXCEPT ![u] = "no"]
    /\ table' = Unregistered(u)
    /\ IF table[u] # NoEntry
       THEN Relay(table[u].peer, "call_hangup", table[u].call)
       ELSE UNCHANGED downlink
    /\ UNCHANGED <<phoneVars, bells, uplink, handling, line, mishaps, used, callHistory>>

----------------------------------------------------------------------------
PhoneStep(u) ==
    \/ AcceptCall(u) \/ RejectCall(u) \/ ClickHangUp(u)
    \/ ConnectionFails(u) \/ RingTimeout(u) \/ ConnectingTimeout(u) \/ Commit(u)
    \/ \E k \in CallIds :
        \/ InitiateCall(u, k) \/ TapDoorbell(u, k)
        \/ OnOffer(u, k) \/ OnAnswer(u, k) \/ OnReady(u, k) \/ OnHangUp(u, k)

PromiseStep(p) == OfferMade(p) \/ AnswerMade(p) \/ RemoteAnswerSet(p) \/ PromiseFails(p)

ServerStep(u) ==
    \/ RegisterOffer(u) \/ PostMissed(u)
    \/ CheckLastConnection(u) \/ EndCall(u)
    \/ \E k \in CallIds :
        RelaySignal(u, k) \/ HandleHangUp(u, k) \/ CheckOffer(u, k) \/ CheckMissed(u, k)

CallsNext ==
    \/ \E u \in Users : PhoneStep(u) \/ ServerStep(u) \/ DropLine(u) \/ Reconnect(u)
    \/ \E p \in promises : PromiseStep(p)

CallsSpec == CallsInit /\ [][CallsNext]_callVars

----------------------------------------------------------------------------
(* What holds.                                                             *)

CallsTypeOK ==
    /\ phone \in [Users -> Phone]
    /\ seen \in [Users -> Phone]
    /\ sdp \in [Users -> BOOLEAN]
    /\ pc \in [Users -> BOOLEAN]
    /\ ring \in [Users -> MaybeCall]
    /\ wait \in [Users -> MaybeCall]
    /\ promises \in SUBSET Promise
    /\ doorbell \in [Users -> MaybeCall]
    /\ bells \in SUBSET (Users \X CallIds)
    /\ uplink \in [Users -> Seq(Frame)]
    /\ downlink \in SUBSET Letter
    /\ handling \in [Users -> Work \cup {NoWork}]
    /\ table \in [Users -> Entry \cup {NoEntry}]
    /\ line \in [Users -> {"up", "down"}]
    /\ leaving \in [Users -> {"no", "checking", "ending"}]
    /\ used \in SUBSET CallIds
    /\ mishaps \in Nat
    /\ answered \in SUBSET CallIds
    /\ talked \in SUBSET CallIds
    /\ posted \in [CallIds -> Nat]

\* A missed call is posted once at most and never for a call the caller talked in:
\* the no-answer timer, the answer, its promise and the two locked sections of
\* handleCallMissed may come in any order.
MissedMeansUnanswered ==
    \A k \in CallIds : posted[k] <= 1 /\ (posted[k] = 1 => k \notin talked)

\* A caller's phone goes active on a call only if the callee answered that call:
\* late answers to calls given up do not open the next one.
TalkingIsMutual == talked \subseteq answered

\* A phone gives one call up for another, without leaving the first, only before the
\* first is rendered, and never one that it makes itself, whatever offers, taps and late
\* promises arrive meanwhile.
NoSwitch ==
    [][\A u \in Users :
          phone[u].call # None /\ phone'[u].call # phone[u].call /\ phone'[u] # Idle
          => seen[u] = Idle /\ phone[u].status # "outgoing"]_callVars

\* Nobody is left calling or connecting for ever: a phone in either state has its
\* timer armed for that call, or a promise that will move it on and is not dead.
NeverStuck ==
    \A u \in Users :
        LET k       == phone[u].call
            live(w) == Pending(u, w, k) \in promises
        IN
        /\ phone[u].status = "outgoing" => ring[u] = k \/ live("remote")
        /\ phone[u].status = "connecting" => wait[u] = k \/ live("auto")

\* The comment on notifyCallPeerOnDisconnect (handlers/websocket.go:321), "sends
\* call_hangup to the peer if the user had an active call and has no remaining
\* connections": of two phones active in one call, the one left behind is told.
PeerIsTold ==
    [][\A u \in Users : leaving[u] = "ending" /\ leaving'[u] = "no" =>
          \A k \in talked :
              LET peer == Other(u, k) IN
              /\ u \in {Caller[k], Callee[k]}
              /\ \A v \in {u, peer} : phone[v] = [status |-> "active", call |-> k]
              /\ line[u] = "down" /\ line[peer] = "up"
              => [to |-> peer, kind |-> "call_hangup", call |-> k] \in downlink']_callVars

\* The same comment, "(avoids TOCTOU race by checking under lock)": nobody's call is
\* ended for them while they have a connection.
TeardownOnlyWhenGone ==
    [][\A u \in Users : leaving[u] = "ending" /\ line[u] = "up" =>
          (leaving'[u] = "no" => table' = table)]_callVars

=============================================================================
