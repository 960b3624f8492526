---------------------------- MODULE CallsProofs ----------------------------
(***************************************************************************)
(* Proofs about Calls, for any users, calls and bounds, and phones that    *)
(* call each other in any pattern.                                         *)
(*                                                                         *)
(* The offering of one call is a single thread: the offer becomes a frame, *)
(* a handler, a letter or a push, the push a call_ready, that a new offer. *)
(* At most one of these exists at a time (Lone), and none once an offer    *)
(* has reached the callee's phone (OfferEnds), although the callee may     *)
(* answer more than once from there.  The no-answer timer, its frame, its  *)
(* handler and the posted message are a second thread of the same kind.    *)
(*                                                                         *)
(* The copy that the handlers read follows the phone at once when it       *)
(* calls, and lags behind when it rings or connects (CopyFollows): a call  *)
(* that was given up may still be seen by its caller, but no longer is it  *)
(* the phone's own (MissedOrTalked).                                       *)
(***************************************************************************)
EXTENDS Calls, SequenceTheorems, TLAPS

----------------------------------------------------------------------------
(* The inductive invariant.                                                *)

\* Whether a frame of F is in s, and whether it is there once at most.
Has(s, F) == \E i \in DOMAIN s : s[i] \in F
Once(s, F) == \A i, j \in DOMAIN s : s[i] \in F /\ s[j] \in F => i = j

Signals(k) == {Say(kind, k) : kind \in {"call_offer", "call_ready"}}
Says(u, kind, k) == Has(uplink[u], {Say(kind, k)})

Offering == {"offer", "reoffer"}

\* Where the offering of k is: promises, frames, a handler, letters, pushes and taps that
\* wait for a socket.
PromiseTokens(k, P) ==
    {<<"promise", p.user, p.kind>> : p \in {q \in P : q.call = k /\ q.kind \in Offering}}
FrameTokens(k, up) == {<<"frame", u>> : u \in {v \in Users : Has(up[v], Signals(k))}}
OfferTokens(k, h) ==
    {<<"handling", u>> : u \in {v \in Users : h[v].step = "offer" /\ h[v].call = k}}
LetterTokens(k, d) ==
    {<<"letter", f.to, f.kind>> : f \in {g \in d : Say(g.kind, g.call) \in Signals(k)}}
BellTokens(k, b) == {<<"bell", u>> : u \in {v \in Users : <<v, k>> \in b}}
TapTokens(k, d) == {<<"doorbell", u>> : u \in {v \in Users : d[v] = k}}

Threads(k) ==
    PromiseTokens(k, promises) \cup FrameTokens(k, uplink) \cup OfferTokens(k, handling)
    \cup LetterTokens(k, downlink) \cup BellTokens(k, bells) \cup TapTokens(k, doorbell)

\* Where the news that nobody answered k is.
TimerTokens(k, r) == {<<"timer", u>> : u \in {v \in Users : r[v] = k}}
MissedTokens(k, up) ==
    {<<"frame", u>> : u \in {v \in Users : Has(up[v], {Say("call_missed", k)})}}
PostTokens(k, h) ==
    {<<"handling", u>> : u \in {v \in Users : h[v].step = "missed" /\ h[v].call = k}}
PostedTokens(k, n) == IF n[k] = 0 THEN {} ELSE {<<"posted">>}

Regrets(k) ==
    TimerTokens(k, ring) \cup MissedTokens(k, uplink) \cup PostTokens(k, handling)
    \cup PostedTokens(k, posted)

Single(S) == \A x, y \in S : x = y

\* The caller gave up.
Missed(k) == \E x \in Regrets(k) : x[1] # "timer"

Outgoing(k) == [status |-> "outgoing", call |-> k]
Incoming(k) == [status |-> "incoming", call |-> k]

\* An answer to k is under way to the caller, or being set there.
Answers(k) ==
    \/ \E p \in promises : p.kind = "remote" /\ p.call = k
    \/ \E f \in downlink : f.kind = "call_answer" /\ f.call = k
    \/ \E u \in Users : Says(u, "call_answer", k)

\* An offer of k has reached the callee's phone.
Reached(k) ==
    \/ \E u \in Users : phone[u] = Incoming(k) \/ seen[u] = Incoming(k)
    \/ \E p \in promises : p.kind \in {"answer", "auto"} /\ p.call = k
    \/ Answers(k)

IdleMeansNoCall ==
    \A u \in Users : /\ phone[u].status = "idle" => phone[u].call = None
                     /\ seen[u].status = "idle" => seen[u].call = None

\* How far the copy may be behind.
CopyFollows ==
    \A u \in Users : /\ phone[u].status = "outgoing" => seen[u] = phone[u]
                     /\ phone[u].status = "connecting" => seen[u] \in {Idle, phone[u]}

CallersCall ==
    /\ \A u \in Users, k \in CallIds :
          phone[u] = Outgoing(k) \/ seen[u] = Outgoing(k) \/ ring[u] = k => u = Caller[k]
    /\ \A p \in promises :
          p.kind = "remote" => p.user = Caller[p.call] /\ ring[p.user] # p.call

NothingUnused ==
    \A k \in CallIds \ used :
        Threads(k) = {} /\ Regrets(k) = {} /\ ~ Reached(k) /\ k \notin talked

AnswersAreKnown == \A k \in CallIds : Answers(k) => k \in answered

Lone == \A k \in CallIds : Single(Threads(k)) /\ Single(Regrets(k)) /\ posted[k] <= 1

\* No frame or promise of either thread is there twice.
NoTwins ==
    /\ \A u \in Users, k \in CallIds : /\ Once(uplink[u], Signals(k))
                                       /\ Once(uplink[u], {Say("call_missed", k)})
    /\ \A p, q \in promises :
          p.user = q.user /\ p.kind = q.kind /\ p.call = q.call /\ p.kind \in Offering => p = q

\* Nothing more is offered once an offer has reached the callee's phone.
OfferEnds == \A k \in CallIds : Reached(k) => Threads(k) = {}

\* A call is either given up or talked in.
MissedOrTalked ==
    \A k \in CallIds :
        /\ k \in talked => Regrets(k) = {}
        /\ Missed(k) => \A u \in Users : phone[u].call = k =>
              /\ seen[u] # Outgoing(k)
              /\ \A p \in promises : p.user = u /\ p.kind = "remote" => p.call # k

CallsInv ==
    /\ CallsTypeOK
    /\ IdleMeansNoCall
    /\ CopyFollows
    /\ CallersCall
    /\ NothingUnused
    /\ AnswersAreKnown
    /\ Lone
    /\ NoTwins
    /\ OfferEnds
    /\ MissedOrTalked
    /\ NeverStuck
    /\ TalkingIsMutual

----------------------------------------------------------------------------
(* Types.                                                                  *)

\* The frames of the phones are frames.
LEMMA SayIsFrame ==
    ASSUME NEW kind \in Kinds, NEW k \in CallIds
    PROVE  /\ Say(kind, k) \in Frame /\ Say(kind, k).kind = kind /\ Say(kind, k).call = k
           /\ <<Say(kind, k)>> \in Seq(Frame)
  BY DEF Say, Frame

\* Closing the connection leaves every promise of the phone in place, as a stale one.
LEMMA CleanedPromises ==
    ASSUME NEW u, promises \in SUBSET Promise
    PROVE  /\ Cleaned(u) \in SUBSET Promise
           /\ \A p \in Cleaned(u) : \E q \in promises :
                 /\ p.user = q.user /\ p.kind = q.kind /\ p.call = q.call
                 /\ p.user = u => p = [q EXCEPT !.stale = TRUE]
                 /\ p.user # u => p = q
           /\ \A q \in promises : \E p \in Cleaned(u) :
                 p.user = q.user /\ p.kind = q.kind /\ p.call = q.call
           /\ \A q \in promises : q.user # u => q \in Cleaned(u)
  <1> DEFINE g(q) == IF q.user = u THEN [q EXCEPT !.stale = TRUE] ELSE q
  <1>1. \A q \in Promise : /\ g(q) \in Promise
                           /\ g(q).user = q.user /\ g(q).kind = q.kind /\ g(q).call = q.call
                           /\ q.user = u => g(q) = [q EXCEPT !.stale = TRUE]
                           /\ q.user # u => g(q) = q
    BY DEF Promise
  <1>2. Cleaned(u) = {g(q) : q \in promises}
    BY DEF Cleaned
  <1> HIDE DEF g
  <1>3. QED
    BY <1>1, <1>2

\* A new promise.
LEMMA PendingIsPromise ==
    ASSUME NEW u \in Users, NEW k \in CallIds,
           NEW kind \in {"offer", "reoffer", "answer", "auto", "remote"}
    PROVE  /\ Pending(u, kind, k) \in Promise
           /\ Pending(u, kind, k).user = u /\ Pending(u, kind, k).kind = kind
           /\ Pending(u, kind, k).call = k
  BY DEF Pending, Promise

\* What sending does to the frames under way.
LEMMA SentFrames ==
    ASSUME NEW u \in Users, NEW frames \in Seq(Frame), Send(u, frames),
           uplink \in [Users -> Seq(Frame)]
    PROVE  /\ uplink' \in [Users -> Seq(Frame)]
           /\ \A v \in Users : v # u => uplink'[v] = uplink[v]
           /\ uplink'[u] = uplink[u] \/ uplink'[u] = uplink[u] \o frames
  BY DEF Send

\* A hang-up says at most one thing.
LEMMA HangupFramesType ==
    ASSUME NEW u \in Users, CallsTypeOK
    PROVE  /\ HangupFrames(u) \in Seq(Frame)
           /\ \/ HangupFrames(u) = <<>>
              \/ \E k \in CallIds : HangupFrames(u) = <<Say("call_hangup", k)>>
  <1>1. seen[u].call \in CallIds \cup {None}
    BY DEF CallsTypeOK, Phone, MaybeCall
  <1>2. CASE seen[u].call = None
    BY <1>2 DEF HangupFrames
  <1>3. CASE seen[u].call \in CallIds
    <2>1. "call_hangup" \in Kinds
      BY DEF Kinds
    <2>2. Say("call_hangup", seen[u].call) \in Frame
      BY <1>3, <2>1, SayIsFrame
    <2>3. QED
      BY <1>3, <2>2 DEF HangupFrames
  <1>4. QED
    BY <1>1, <1>2, <1>3

\* The table keeps its type.
LEMMA TableTypes ==
    ASSUME CallsAssumption, CallsTypeOK, NEW u \in Users
    PROVE  /\ Unregistered(u) \in [Users -> Entry \cup {NoEntry}]
           /\ \A k \in CallIds : /\ Other(u, k) \in Users
                                 /\ Registered(u, k) \in [Users -> Entry \cup {NoEntry}]
  <1>1. \A v \in Users : table[v] \in Entry \cup {NoEntry}
    BY DEF CallsTypeOK
  <1>2. \A k \in CallIds : Other(u, k) \in Users
    BY DEF CallsAssumption, Other
  <1>3. Unregistered(u) \in [Users -> Entry \cup {NoEntry}]
    BY <1>1 DEF Unregistered
  <1>4. ASSUME NEW k \in CallIds
        PROVE  Registered(u, k) \in [Users -> Entry \cup {NoEntry}]
    <2>1. /\ [peer |-> Other(u, k), call |-> k] \in Entry
          /\ [peer |-> u, call |-> k] \in Entry
      BY <1>2 DEF Entry
    <2>2. QED
      BY <2>1, <1>2 DEF Registered, CallsTypeOK
  <1>5. QED
    BY <1>2, <1>3, <1>4

\* What is relayed is a letter.
LEMMA RelayedLetters ==
    ASSUME NEW v \in Users, NEW kind \in Kinds \ {"call_missed"}, NEW k \in CallIds,
           downlink \in SUBSET Letter, Relay(v, kind, k)
    PROVE  downlink' \in SUBSET Letter
  <1>1. [to |-> v, kind |-> kind, call |-> k] \in Letter
    BY DEF Letter
  <1>2. QED
    BY <1>1 DEF Relay

\* A phone that enters, changes or leaves a call keeps its type.
LEMMA PhoneTypes ==
    ASSUME CallsTypeOK, NEW u \in Users
    PROVE  /\ [phone EXCEPT ![u] = Idle] \in [Users -> Phone]
           /\ [phone EXCEPT ![u].status = "active"] \in [Users -> Phone]
           /\ [ring EXCEPT ![u] = None] \in [Users -> MaybeCall]
           /\ [wait EXCEPT ![u] = None] \in [Users -> MaybeCall]
           /\ [doorbell EXCEPT ![u] = None] \in [Users -> MaybeCall]
           /\ None \in MaybeCall
  <1>1. phone[u].call \in MaybeCall /\ phone \in [Users -> Phone]
    BY DEF CallsTypeOK, Phone
  <1>2. [phone[u] EXCEPT !.status = "active"] \in Phone
    BY <1>1 DEF Phone, Statuses
  <1>3. Idle \in Phone
    BY DEF Idle, Phone, Statuses, MaybeCall
  <1>4. QED
    BY <1>1, <1>2, <1>3 DEF CallsTypeOK, MaybeCall

\* So does one that enters a call.
LEMMA EnteredTypes ==
    ASSUME CallsTypeOK, NEW u \in Users, NEW k \in CallIds
    PROVE  /\ \A status \in Statuses :
                 [phone EXCEPT ![u] = [status |-> status, call |-> k]] \in [Users -> Phone]
           /\ [ring EXCEPT ![u] = k] \in [Users -> MaybeCall]
           /\ [wait EXCEPT ![u] = k] \in [Users -> MaybeCall]
           /\ [doorbell EXCEPT ![u] = k] \in [Users -> MaybeCall]
  <1>1. \A status \in Statuses : [status |-> status, call |-> k] \in Phone
    BY DEF Phone, MaybeCall
  <1>2. QED
    BY <1>1 DEF CallsTypeOK, MaybeCall

\* Resetting a phone, and closing its connection, keep the types...
LEMMA EndedTypes ==
    ASSUME CallsTypeOK, NEW u \in Users
    PROVE  /\ ResetState(u) => /\ phone' \in [Users -> Phone] /\ sdp' \in [Users -> BOOLEAN]
                               /\ ring' \in [Users -> MaybeCall]
                               /\ wait' \in [Users -> MaybeCall]
           /\ \A P \in SUBSET Cleaned(u) :
                 Close(u, P) => /\ promises' \in SUBSET Promise
                                /\ pc' \in [Users -> BOOLEAN]
  <1>1. ResetState(u) => /\ phone' \in [Users -> Phone] /\ sdp' \in [Users -> BOOLEAN]
                         /\ ring' \in [Users -> MaybeCall]
                         /\ wait' \in [Users -> MaybeCall]
    <2>1. /\ [phone EXCEPT ![u] = Idle] \in [Users -> Phone]
          /\ [ring EXCEPT ![u] = None] \in [Users -> MaybeCall]
          /\ [wait EXCEPT ![u] = None] \in [Users -> MaybeCall]
      BY PhoneTypes
    <2>2. [sdp EXCEPT ![u] = FALSE] \in [Users -> BOOLEAN]
      BY DEF CallsTypeOK
    <2>3. QED
      BY <2>1, <2>2 DEF ResetState
  <1>2. Cleaned(u) \in SUBSET Promise
    BY CleanedPromises DEF CallsTypeOK
  <1>3. [pc EXCEPT ![u] = FALSE] \in [Users -> BOOLEAN]
    BY DEF CallsTypeOK
  <1>4. QED
    BY <1>1, <1>2, <1>3 DEF Close

\* ...and so does beginning anew.
LEMMA BegunTypes ==
    ASSUME CallsTypeOK, NEW u \in Users, NEW k \in CallIds,
           NEW kind \in {"offer", "reoffer", "answer", "auto"}, Begin(u, kind, k)
    PROVE  promises' \in SUBSET Promise /\ pc' \in [Users -> BOOLEAN]
  <1>0. Cleaned(u) \in SUBSET Promise
    BY CleanedPromises DEF CallsTypeOK
  <1>4. Pending(u, kind, k) \in Promise
    BY PendingIsPromise
  <1>1. Cleaned(u) \cup {Pending(u, kind, k)} \in SUBSET Promise
    BY <1>0, <1>4
  <1>2. [pc EXCEPT ![u] = FALSE] \in [Users -> BOOLEAN]
    BY DEF CallsTypeOK
  <1>3. QED
    BY <1>1, <1>2 DEF Begin, Close

\* Hanging up keeps the types.
LEMMA HungUpTypes ==
    ASSUME CallsTypeOK, NEW u \in Users, NEW P \in SUBSET Cleaned(u), HangUp(u, P)
    PROVE  /\ phone' \in [Users -> Phone] /\ sdp' \in [Users -> BOOLEAN]
           /\ ring' \in [Users -> MaybeCall] /\ wait' \in [Users -> MaybeCall]
           /\ promises' \in SUBSET Promise /\ pc' \in [Users -> BOOLEAN]
           /\ uplink' \in [Users -> Seq(Frame)]
  <1>1. uplink' \in [Users -> Seq(Frame)]
    BY SentFrames, HangupFramesType DEF HangUp, CallsTypeOK
  <1>2. QED
    BY <1>1, EndedTypes DEF HangUp

\* The clicks and timers of a phone keep the types.
LEMMA ClicksKeepTypes ==
    ASSUME CallsAssumption, CallsTypeOK, NEW u \in Users,
           \/ AcceptCall(u) \/ RejectCall(u) \/ ClickHangUp(u) \/ ConnectionFails(u)
           \/ RingTimeout(u) \/ ConnectingTimeout(u) \/ Commit(u)
           \/ \E k \in CallIds : InitiateCall(u, k) \/ TapDoorbell(u, k)
    PROVE  CallsTypeOK'
  <1>c. seen[u].call \in MaybeCall /\ ring[u] \in MaybeCall
    BY DEF CallsTypeOK, Phone
  <1>d. ASSUME phone' \in [Users -> Phone], Rendered(u)
        PROVE  seen' \in [Users -> Phone]
    <2>1. phone'[u] \in Phone
      BY <1>d
    <2>2. QED
      BY <1>d, <2>1 DEF Rendered, CallsTypeOK
  <1>1. CASE AcceptCall(u)
    <2>1. seen[u].call \in CallIds
      BY <1>1, <1>c DEF AcceptCall, MaybeCall
    <2>2. promises' \in SUBSET Promise /\ pc' \in [Users -> BOOLEAN]
      BY <1>1, <2>1, BegunTypes DEF AcceptCall
    <2>3. mishaps' \in Nat
      BY <1>1 DEF AcceptCall, CallsTypeOK
    <2>4. QED
      BY <1>1, <2>2, <2>3 DEF AcceptCall, CallsTypeOK, serverVars, callHistory
  <1>2. CASE RejectCall(u)
    <2>1. seen[u].call \in CallIds
      BY <1>2, <1>c DEF RejectCall, MaybeCall
    <2>2. <<Say("call_reject", seen[u].call)>> \in Seq(Frame)
      BY <2>1, SayIsFrame DEF Kinds
    <2>3. uplink' \in [Users -> Seq(Frame)]
      BY <1>2, <2>2, SentFrames DEF RejectCall, CallsTypeOK
    <2>4. /\ phone' \in [Users -> Phone] /\ sdp' \in [Users -> BOOLEAN]
          /\ ring' \in [Users -> MaybeCall] /\ wait' \in [Users -> MaybeCall]
          /\ promises' \in SUBSET Promise /\ pc' \in [Users -> BOOLEAN]
      BY <1>2, EndedTypes DEF RejectCall
    <2>5. seen' \in [Users -> Phone]
      BY <1>2, <1>d, <2>4 DEF RejectCall
    <2>6. QED
      BY <1>2, <2>3, <2>4, <2>5
      DEF RejectCall, CallsTypeOK, serverVars, lineVars, callHistory
  <1>3. CASE ClickHangUp(u)
    <2>1. seen' \in [Users -> Phone]
      BY <1>3, <1>d, HungUpTypes DEF ClickHangUp
    <2>2. QED
      BY <1>3, <2>1, HungUpTypes
      DEF ClickHangUp, CallsTypeOK, serverVars, lineVars, callHistory
  <1>4. CASE ConnectionFails(u)
    BY <1>4, HungUpTypes DEF ConnectionFails, CallsTypeOK, serverVars, lineVars, callHistory
  <1>5. CASE RingTimeout(u)
    <2>1. ring[u] \in CallIds
      BY <1>5, <1>c DEF RingTimeout, MaybeCall
    <2>2. <<Say("call_missed", ring[u]), Say("call_hangup", ring[u])>> \in Seq(Frame)
      BY <2>1, SayIsFrame DEF Kinds
    <2>3. uplink' \in [Users -> Seq(Frame)]
      BY <1>5, <2>2, SentFrames DEF RingTimeout, CallsTypeOK
    <2>4. /\ phone' \in [Users -> Phone] /\ promises' \in SUBSET Promise
          /\ ring' \in [Users -> MaybeCall] /\ wait' \in [Users -> MaybeCall]
          /\ sdp' \in [Users -> BOOLEAN] /\ pc' \in [Users -> BOOLEAN]
      <3>1. CASE ResetState(u) /\ Close(u, Cleaned(u))
        BY <3>1, EndedTypes
      <3>2. CASE ring' = [ring EXCEPT ![u] = None] /\ UNCHANGED <<phone, sdp, pc, wait, promises>>
        BY <3>2, PhoneTypes DEF CallsTypeOK
      <3>3. QED
        BY <1>5, <3>1, <3>2 DEF RingTimeout
    <2>5. QED
      BY <1>5, <2>3, <2>4 DEF RingTimeout, CallsTypeOK, serverVars, lineVars, callHistory
  <1>6. CASE ConnectingTimeout(u)
    <2>1. /\ phone' \in [Users -> Phone] /\ sdp' \in [Users -> BOOLEAN]
          /\ ring' \in [Users -> MaybeCall] /\ wait' \in [Users -> MaybeCall]
      <3>1. CASE ResetState(u)
        BY <3>1, EndedTypes
      <3>2. CASE wait' = [wait EXCEPT ![u] = None] /\ UNCHANGED <<phone, sdp, ring>>
        BY <3>2, PhoneTypes DEF CallsTypeOK
      <3>3. QED
        BY <1>6, <3>1, <3>2 DEF ConnectingTimeout
    <2>2. QED
      BY <1>6, <2>1 DEF ConnectingTimeout, CallsTypeOK, serverVars, lineVars, callHistory
  <1>7. CASE Commit(u)
    BY <1>7 DEF Commit, CallsTypeOK, serverVars, lineVars, callHistory
  <1>8. CASE \E k \in CallIds : InitiateCall(u, k)
    <2> PICK k \in CallIds : InitiateCall(u, k)
      BY <1>8
    <2>1. promises' \in SUBSET Promise /\ pc' \in [Users -> BOOLEAN]
      BY BegunTypes DEF InitiateCall
    <2>2. phone' \in [Users -> Phone] /\ ring' \in [Users -> MaybeCall]
      BY EnteredTypes DEF InitiateCall, SetPhone, Statuses
    <2>3. seen' \in [Users -> Phone]
      BY <1>d, <2>2 DEF InitiateCall
    <2>4. QED
      BY <2>1, <2>2, <2>3 DEF InitiateCall, CallsTypeOK, serverVars, lineVars, callHistory
  <1>9. CASE \E k \in CallIds : TapDoorbell(u, k)
    <2> PICK k \in CallIds : TapDoorbell(u, k)
      BY <1>9
    <2>0. /\ [phone EXCEPT ![u] = [status |-> "connecting", call |-> k]] \in [Users -> Phone]
          /\ [wait EXCEPT ![u] = k] \in [Users -> MaybeCall]
          /\ [doorbell EXCEPT ![u] = k] \in [Users -> MaybeCall]
          /\ [doorbell EXCEPT ![u] = None] \in [Users -> MaybeCall]
      BY EnteredTypes, PhoneTypes DEF Statuses
    <2>1. Say("call_ready", k) \in Frame
      BY SayIsFrame DEF Kinds
    <2>2. [uplink EXCEPT ![u] = Append(@, Say("call_ready", k))] \in [Users -> Seq(Frame)]
      BY <2>1 DEF CallsTypeOK
    <2>3. /\ phone' \in [Users -> Phone] /\ uplink' \in [Users -> Seq(Frame)]
          /\ wait' \in [Users -> MaybeCall] /\ doorbell' \in [Users -> MaybeCall]
      <3>1. phone' = phone \/ SetPhone(u, "connecting", k)
        BY DEF TapDoorbell, FlushPendingReady
      <3>2. /\ wait' = wait \/ wait' = [wait EXCEPT ![u] = k]
            /\ doorbell' = [doorbell EXCEPT ![u] = None] \/ doorbell' = [doorbell EXCEPT ![u] = k]
            /\ uplink' = uplink \/ uplink' = [uplink EXCEPT ![u] = Append(@, Say("call_ready", k))]
        BY DEF TapDoorbell, FlushPendingReady
      <3>3. k \in MaybeCall
        BY DEF MaybeCall
      <3>4. phone' \in [Users -> Phone]
        BY <2>0, <3>1 DEF SetPhone, CallsTypeOK
      <3>5. wait' \in [Users -> MaybeCall] /\ doorbell' \in [Users -> MaybeCall]
        BY <2>0, <3>2, <3>3 DEF CallsTypeOK
      <3>6. QED
        BY <2>2, <3>2, <3>4, <3>5 DEF CallsTypeOK
    <2>4. QED
      BY <2>3 DEF TapDoorbell, CallsTypeOK, serverVars, lineVars, callHistory
  <1>10. QED
    BY <1>1, <1>2, <1>3, <1>4, <1>5, <1>6, <1>7, <1>8, <1>9

\* So do promises that settle.
LEMMA PromisesKeepTypes ==
    ASSUME CallsAssumption, CallsTypeOK, NEW p \in promises, PromiseStep(p)
    PROVE  CallsTypeOK'
  <1>0. /\ p.user \in Users /\ p.call \in CallIds /\ promises \in SUBSET Promise
        /\ \A kind \in Kinds : <<Say(kind, p.call)>> \in Seq(Frame)
    BY SayIsFrame DEF CallsTypeOK, Promise
  <1>a. /\ [phone EXCEPT ![p.user].status = "active"] \in [Users -> Phone]
        /\ \A b \in BOOLEAN : /\ [pc EXCEPT ![p.user] = b] \in [Users -> BOOLEAN]
                              /\ [sdp EXCEPT ![p.user] = b] \in [Users -> BOOLEAN]
    BY <1>0, PhoneTypes DEF CallsTypeOK
  <1>1. CASE OfferMade(p)
    <2>1. uplink' \in [Users -> Seq(Frame)]
      BY <1>0, <1>1, SentFrames DEF OfferMade, CallsTypeOK, Kinds
    <2>2. QED
      BY <1>0, <1>a, <1>1, <2>1 DEF OfferMade, CallsTypeOK, serverVars, lineVars, callHistory
  <1>2. CASE AnswerMade(p)
    <2>1. uplink' \in [Users -> Seq(Frame)]
      BY <1>0, <1>2, SentFrames DEF AnswerMade, CallsTypeOK, Kinds
    <2>2. QED
      BY <1>0, <1>a, <1>2, <2>1 DEF AnswerMade, Active, CallsTypeOK, serverVars, lineVars
  <1>3. CASE RemoteAnswerSet(p)
    BY <1>0, <1>a, <1>3 DEF RemoteAnswerSet, Active, Talking, CallsTypeOK, serverVars, lineVars
  <1>4. CASE PromiseFails(p)
    <2> DEFINE P == Cleaned(p.user) \ {p, [p EXCEPT !.stale = TRUE]}
    <2>1. P \in SUBSET Cleaned(p.user)
      OBVIOUS
    <2>2. /\ \/ HangUp(p.user, P)
             \/ Close(p.user, P) /\ ResetState(p.user) /\ UNCHANGED uplink
          /\ UNCHANGED <<seen, doorbell, bells, downlink, serverVars, lineVars, used, callHistory>>
      BY <1>4 DEF PromiseFails
    <2> HIDE DEF P
    <2>3. /\ phone' \in [Users -> Phone] /\ sdp' \in [Users -> BOOLEAN]
          /\ ring' \in [Users -> MaybeCall] /\ wait' \in [Users -> MaybeCall]
          /\ promises' \in SUBSET Promise /\ pc' \in [Users -> BOOLEAN]
          /\ uplink' \in [Users -> Seq(Frame)]
      <3>1. CASE HangUp(p.user, P)
        BY <1>0, <2>1, <3>1, HungUpTypes
      <3>2. CASE Close(p.user, P) /\ ResetState(p.user) /\ UNCHANGED uplink
        BY <1>0, <2>1, <3>2, EndedTypes DEF CallsTypeOK
      <3>3. QED
        BY <2>2, <3>1, <3>2
    <2>4. QED
      BY <2>2, <2>3 DEF CallsTypeOK, serverVars, lineVars, callHistory
  <1>5. QED
    BY <1>1, <1>2, <1>3, <1>4 DEF PromiseStep

\* And frames that reach a phone.
LEMMA LettersKeepTypes ==
    ASSUME CallsAssumption, CallsTypeOK, NEW u \in Users, NEW k \in CallIds,
           OnOffer(u, k) \/ OnAnswer(u, k) \/ OnReady(u, k) \/ OnHangUp(u, k)
    PROVE  CallsTypeOK'
  <1>b. /\ [phone EXCEPT ![u] = [status |-> "incoming", call |-> k]] \in [Users -> Phone]
        /\ [phone EXCEPT ![u].status = "active"] \in [Users -> Phone]
        /\ [ring EXCEPT ![u] = None] \in [Users -> MaybeCall]
        /\ [wait EXCEPT ![u] = None] \in [Users -> MaybeCall]
        /\ [sdp EXCEPT ![u] = TRUE] \in [Users -> BOOLEAN]
    BY PhoneTypes, EnteredTypes DEF Statuses, CallsTypeOK
  <1>1. CASE OnOffer(u, k)
    <2>1. <<Say("call_reject", k)>> \in Seq(Frame)
      BY SayIsFrame DEF Kinds
    <2>2. /\ uplink' \in [Users -> Seq(Frame)] /\ promises' \in SUBSET Promise
          /\ phone' \in [Users -> Phone]
          /\ sdp' \in [Users -> BOOLEAN] /\ pc' \in [Users -> BOOLEAN]
          /\ ring' \in [Users -> MaybeCall] /\ wait' \in [Users -> MaybeCall]
      <3>1. CASE seen[u].status = "connecting" /\ seen[u].call = k
        <4>1. /\ wait' = [wait EXCEPT ![u] = None]
              /\ sdp' = [sdp EXCEPT ![u] = TRUE]
              /\ Begin(u, "auto", k)
              /\ UNCHANGED <<phone, ring, uplink>>
          BY <1>1, <3>1 DEF OnOffer
        <4>2. promises' \in SUBSET Promise /\ pc' \in [Users -> BOOLEAN]
          BY <4>1, BegunTypes
        <4>3. QED
          BY <1>b, <4>1, <4>2 DEF CallsTypeOK
      <3>2. CASE seen[u].status = "idle"
        BY <1>1, <1>b, <3>2 DEF OnOffer, SetPhone, CallsTypeOK
      <3>3. CASE seen[u].status # "idle" /\ ~ (seen[u].status = "connecting" /\ seen[u].call = k)
        BY <1>1, <2>1, <3>3, SentFrames DEF OnOffer, CallsTypeOK
      <3>4. QED
        BY <3>1, <3>2, <3>3
    <2>3. QED
      BY <1>1, <2>2 DEF OnOffer, Take, CallsTypeOK, serverVars, lineVars, callHistory
  <1>2. CASE OnAnswer(u, k)
    <2>1. promises' \in SUBSET Promise /\ ring' \in [Users -> MaybeCall]
      <3>1. Pending(u, "remote", k) \in Promise
        BY PendingIsPromise
      <3>2. promises' = promises \/ promises' = promises \cup {Pending(u, "remote", k)}
        BY <1>2 DEF OnAnswer, HandleRemoteAnswer
      <3>3. ring' = ring \/ ring' = [ring EXCEPT ![u] = None]
        BY <1>2 DEF OnAnswer
      <3>4. QED
        BY <1>b, <3>1, <3>2, <3>3 DEF CallsTypeOK
    <2>2. phone' \in [Users -> Phone] /\ talked' \in SUBSET CallIds
      <3>1. phone' = phone \/ phone' = [phone EXCEPT ![u].status = "active"]
        BY <1>2 DEF OnAnswer, HandleRemoteAnswer, Active
      <3>2. talked' = talked \/ talked' = talked \cup ({k} \cap {phone[u].call})
        BY <1>2 DEF OnAnswer, HandleRemoteAnswer, Talking
      <3>3. QED
        BY <1>b, <3>1, <3>2 DEF CallsTypeOK
    <2>3. QED
      BY <1>2, <2>1, <2>2 DEF OnAnswer, Take, CallsTypeOK, serverVars, lineVars
  <1>3. CASE OnReady(u, k)
    <2>1. promises' \in SUBSET Promise /\ pc' \in [Users -> BOOLEAN]
      BY <1>3, BegunTypes DEF OnReady, CallsTypeOK
    <2>2. QED
      BY <1>3, <2>1 DEF OnReady, Take, CallsTypeOK, serverVars, lineVars, callHistory
  <1>4. CASE OnHangUp(u, k)
    <2>1. /\ phone' \in [Users -> Phone] /\ promises' \in SUBSET Promise
          /\ sdp' \in [Users -> BOOLEAN] /\ pc' \in [Users -> BOOLEAN]
          /\ ring' \in [Users -> MaybeCall] /\ wait' \in [Users -> MaybeCall]
      BY <1>4, EndedTypes DEF OnHangUp, CallsTypeOK
    <2>2. /\ downlink' \subseteq downlink
          /\ UNCHANGED <<seen, doorbell, bells, serverVars, lineVars, used, callHistory, uplink>>
      BY <1>4 DEF OnHangUp, Take, callHistory
    <2>3. QED
      BY <2>1, <2>2 DEF CallsTypeOK, serverVars, lineVars, callHistory
  <1>5. QED
    BY <1>1, <1>2, <1>3, <1>4

\* The frame at the head of a queue, and the queue without it.
LEMMA ReadFrames ==
    ASSUME CallsTypeOK, NEW u \in Users, NEW k, ReadFrame(u, k)
    PROVE  /\ uplink' \in [Users -> Seq(Frame)]
           /\ uplink[u] \in Seq(Frame) /\ uplink[u] # <<>>
           /\ uplink'[u] = Tail(uplink[u]) /\ \A v \in Users : v # u => uplink'[v] = uplink[v]
           /\ Head(uplink[u]) \in Frame
           /\ Head(uplink[u]) = Say(Head(uplink[u]).kind, k)
           /\ handling[u] = NoWork
           /\ UNCHANGED <<phone, seen, sdp, pc, ring, wait, promises, doorbell, bells, line,
                          leaving, mishaps, used, answered, talked>>
  <1>1. uplink[u] \in Seq(Frame) /\ uplink[u] # <<>> /\ Head(uplink[u]).call = k
    BY DEF CallsTypeOK, ReadFrame
  <1>2. Head(uplink[u]) \in Frame /\ Tail(uplink[u]) \in Seq(Frame)
    BY <1>1
  <1>3. Head(uplink[u]) = Say(Head(uplink[u]).kind, k)
    BY <1>1, <1>2 DEF Frame, Say
  <1>4. QED
    BY <1>1, <1>2, <1>3 DEF ReadFrame, CallsTypeOK, phoneVars, lineVars

\* What a handler works on.
LEMMA WorkTypes ==
    ASSUME CallsTypeOK, NEW u \in Users
    PROVE  /\ handling[u] \in Work \cup {NoWork} /\ handling \in [Users -> Work \cup {NoWork}]
           /\ handling[u].step \in {"offer", "missed"} => handling[u].call \in CallIds
           /\ [handling EXCEPT ![u] = NoWork] \in [Users -> Work \cup {NoWork}]
           /\ \A step \in {"offer", "missed"}, k \in CallIds, online \in BOOLEAN :
                 [handling EXCEPT ![u] = [step |-> step, call |-> k, online |-> online]]
                     \in [Users -> Work \cup {NoWork}]
  BY DEF CallsTypeOK, Work, NoWork

\* The server keeps the types.
LEMMA ServerKeepsTypes ==
    ASSUME CallsAssumption, CallsTypeOK, NEW u \in Users, ServerStep(u)
    PROVE  CallsTypeOK'
  <1> USE TableTypes, WorkTypes
  <1>1. CASE RegisterOffer(u)
    <2>1. handling[u].call \in CallIds
      BY <1>1 DEF RegisterOffer
    <2>2. downlink' \in SUBSET Letter /\ bells' \in SUBSET (Users \X CallIds)
      <3>1. Other(u, handling[u].call) \in Users
        BY <2>1
      <3>2. \/ downlink' = downlink
            \/ Relay(Other(u, handling[u].call), "call_offer", handling[u].call)
        BY <1>1 DEF RegisterOffer
      <3>3. bells' = bells \/ bells' = bells \cup {<<Other(u, handling[u].call), handling[u].call>>}
        BY <1>1 DEF RegisterOffer
      <3>4. downlink' \in SUBSET Letter
        BY <2>1, <3>1, <3>2, RelayedLetters DEF CallsTypeOK, Kinds
      <3>5. QED
        BY <2>1, <3>1, <3>3, <3>4 DEF CallsTypeOK
    <2>3. QED
      BY <1>1, <2>1, <2>2 DEF RegisterOffer, CallsTypeOK, phoneVars, lineVars, callHistory
  <1>2. CASE PostMissed(u)
    <2>1. handling[u].call \in CallIds
      BY <1>2 DEF PostMissed
    <2>2. posted' \in [CallIds -> Nat]
      <3>1. posted \in [CallIds -> Nat]
        BY DEF CallsTypeOK
      <3>2. posted' = posted \/ posted' = [posted EXCEPT ![handling[u].call] = @ + 1]
        BY <1>2 DEF PostMissed
      <3>3. QED
        <4>1. posted[handling[u].call] + 1 \in Nat
          BY <2>1, <3>1
        <4>2. QED
          BY <3>1, <3>2, <4>1
    <2>3. QED
      BY <1>2, <2>2 DEF PostMissed, CallsTypeOK, phoneVars, lineVars
  <1>3. CASE CheckLastConnection(u)
    <2>1. leaving' \in [Users -> {"no", "checking", "ending"}]
      BY <1>3 DEF CheckLastConnection, CallsTypeOK
    <2>2. QED
      BY <1>3, <2>1 DEF CheckLastConnection, CallsTypeOK, phoneVars, serverVars, callHistory
  <1>4. CASE EndCall(u)
    <2>1. downlink' \in SUBSET Letter
      <3>1. CASE table[u] = NoEntry
        BY <1>4, <3>1 DEF EndCall, CallsTypeOK
      <3>2. CASE table[u] # NoEntry
        <4>1. table[u].peer \in Users /\ table[u].call \in CallIds
          BY <3>2 DEF CallsTypeOK, Entry
        <4>2. QED
          BY <1>4, <3>2, <4>1, RelayedLetters DEF EndCall, CallsTypeOK, Kinds
      <3>3. QED
        BY <3>1, <3>2
    <2>2. leaving' \in [Users -> {"no", "checking", "ending"}]
      BY <1>4 DEF EndCall, CallsTypeOK
    <2>3. QED
      BY <1>4, <2>1, <2>2 DEF EndCall, CallsTypeOK, phoneVars, callHistory
  <1>5. ASSUME NEW k \in CallIds,
               RelaySignal(u, k) \/ HandleHangUp(u, k) \/ CheckOffer(u, k) \/ CheckMissed(u, k)
        PROVE  CallsTypeOK'
    <2>1. ReadFrame(u, k)
      BY <1>5 DEF RelaySignal, HandleHangUp, CheckOffer, CheckMissed
    <2>2. downlink' \in SUBSET Letter
      <3>1. downlink \in SUBSET Letter
        BY DEF CallsTypeOK
      <3>2. QED
        BY <1>5, <3>1, RelayedLetters, TableTypes
        DEF RelaySignal, HandleHangUp, CheckOffer, CheckMissed, Kinds
    <2>3. handling' \in [Users -> Work \cup {NoWork}]
      <3>1. IsUserOnline(Other(u, k)) \in BOOLEAN
        BY DEF IsUserOnline
      <3>2. CASE CheckOffer(u, k)
        BY <3>1, <3>2 DEF CheckOffer
      <3>3. CASE RelaySignal(u, k) \/ HandleHangUp(u, k)
        BY <3>3 DEF RelaySignal, HandleHangUp, serverVars
      <3>5. CASE CheckMissed(u, k)
        BY <3>5 DEF CheckMissed
      <3>4. QED
        BY <1>5, <3>2, <3>3, <3>5
    <2>4. table' \in [Users -> Entry \cup {NoEntry}] /\ posted' = posted
      BY <1>5 DEF RelaySignal, HandleHangUp, CheckOffer, CheckMissed, CallsTypeOK, serverVars
    <2>5. QED
      BY <2>1, <2>2, <2>3, <2>4, ReadFrames DEF CallsTypeOK
  <1>6. QED
    BY <1>1, <1>2, <1>3, <1>4, <1>5 DEF ServerStep

\* So do broken lines and new sockets.
LEMMA LinesKeepTypes ==
    ASSUME CallsAssumption, CallsTypeOK, NEW u \in Users, DropLine(u) \/ Reconnect(u)
    PROVE  CallsTypeOK'
  <1>1. CASE DropLine(u)
    <2>1. mishaps' \in Nat
      BY <1>1 DEF DropLine, CallsTypeOK
    <2>2. <<>> \in Seq(Frame)
      OBVIOUS
    <2>3. QED
      BY <1>1, <2>1, <2>2 DEF DropLine, CallsTypeOK, phoneVars, serverVars, callHistory
  <1>2. CASE Reconnect(u)
    <2>1. /\ phone' \in [Users -> Phone] /\ uplink' \in [Users -> Seq(Frame)]
          /\ wait' \in [Users -> MaybeCall] /\ doorbell' \in [Users -> MaybeCall]
      <3>1. CASE doorbell[u] = None
        BY <1>2, <3>1 DEF Reconnect, CallsTypeOK
      <3>2. CASE doorbell[u] # None
        <4>1. doorbell[u] \in CallIds
          BY <3>2 DEF CallsTypeOK, MaybeCall
        <4>2. Say("call_ready", doorbell[u]) \in Frame
          BY <4>1, SayIsFrame DEF Kinds
        <4>3. [uplink EXCEPT ![u] = Append(@, Say("call_ready", doorbell[u]))]
                  \in [Users -> Seq(Frame)]
          BY <4>2 DEF CallsTypeOK
        <4>4. QED
          <5>1. FlushPendingReady(u, doorbell[u])
            BY <1>2, <3>2 DEF Reconnect
          <5>2. CASE seen[u].status = "idle"
            <6>1. /\ [phone EXCEPT ![u] = [status |-> "connecting", call |-> doorbell[u]]]
                       \in [Users -> Phone]
                  /\ [wait EXCEPT ![u] = doorbell[u]] \in [Users -> MaybeCall]
                  /\ [doorbell EXCEPT ![u] = None] \in [Users -> MaybeCall]
              BY <4>1, EnteredTypes, PhoneTypes DEF Statuses
            <6>2. QED
              BY <4>3, <5>1, <5>2, <6>1 DEF FlushPendingReady, SetPhone
          <5>3. CASE seen[u].status # "idle"
            BY <5>1, <5>3, PhoneTypes DEF FlushPendingReady, CallsTypeOK
          <5>4. QED
            BY <5>2, <5>3
      <3>3. QED
        BY <3>1, <3>2
    <2>2. QED
      BY <1>2, <2>1 DEF Reconnect, CallsTypeOK, serverVars, lineVars, callHistory
  <1>3. QED
    BY <1>1, <1>2

\* Every step keeps the types.
LEMMA StepsKeepTypes ==
    ASSUME CallsAssumption, CallsTypeOK, [CallsNext]_callVars
    PROVE  CallsTypeOK'
  <1>1. ASSUME NEW u \in Users, PhoneStep(u)
        PROVE  CallsTypeOK'
    BY <1>1, ClicksKeepTypes, LettersKeepTypes DEF PhoneStep
  <1>2. CASE UNCHANGED callVars
    BY <1>2 DEF CallsTypeOK, callVars
  <1>3. QED
    BY <1>1, <1>2, PromisesKeepTypes, ServerKeepsTypes, LinesKeepTypes DEF CallsNext

\* Phones, timers, promises, frames and tables start with their types.
LEMMA InitialTypes ==
    ASSUME CallsAssumption, CallsInit
    PROVE  CallsTypeOK
  <1>1. /\ Idle \in Phone /\ None \in MaybeCall /\ <<>> \in Seq(Frame)
    BY DEF Idle, Phone, Statuses, MaybeCall
  <1>2. QED
    BY <1>1 DEF CallsInit, CallsTypeOK

\* The phones, timers, promises, frames and tables of the calls always keep their types
\* (useCallProvider's state and refs, h.activeCalls), for any users and calls.
THEOREM CallsTypeCorrect == CallsSpec => []CallsTypeOK
  <1>1. CallsAssumption
    BY CallsAssumption
  <1>2. CallsInit => CallsTypeOK
    BY <1>1, InitialTypes
  <1>3. CallsTypeOK /\ [CallsNext]_callVars => CallsTypeOK'
    BY <1>1, StepsKeepTypes
  <1>4. QED
    BY <1>2, <1>3, PTL DEF CallsSpec

----------------------------------------------------------------------------
(* A phone in a call stays in it.                                          *)

\* The push of k is at v, to be tapped or to be answered.
Tapped(v, k) == <<v, k>> \in bells \/ doorbell[v] = k

\* A phone leaves its call, has it answered, or enters one out of idleness.
PhoneMoves(v) ==
    \/ phone'[v] = phone[v]
    \/ phone'[v] = Idle
    \/ phone'[v].status = "active" /\ phone'[v].call = phone[v].call
    \/ /\ seen[v].status = "idle"
       /\ \E k \in CallIds : InitiateCall(v, k) /\ phone'[v] = [status |-> "outgoing", call |-> k]
    \/ /\ seen[v].status = "idle"
       /\ \E k \in CallIds :
             \/ OnOffer(v, k) /\ phone'[v] = [status |-> "incoming", call |-> k]
             \/ Tapped(v, k) /\ phone'[v] = [status |-> "connecting", call |-> k]

\* The moves of one phone, and none of the others.
LEMMA OnePhoneMoves ==
    ASSUME CallsTypeOK, NEW u \in Users, NEW v \in Users,
           \/ UNCHANGED phone
           \/ phone' = [phone EXCEPT ![u] = Idle]
           \/ Active(u)
           \/ /\ seen[u].status = "idle"
              /\ \E k \in CallIds : /\ SetPhone(u, "outgoing", k)
                                    /\ InitiateCall(u, k)
           \/ /\ seen[u].status = "idle"
              /\ \E k \in CallIds : \/ SetPhone(u, "incoming", k) /\ OnOffer(u, k)
                                    \/ SetPhone(u, "connecting", k) /\ Tapped(u, k)
    PROVE  PhoneMoves(v)
  <1>1. phone \in [Users -> Phone] /\ phone[u] \in Phone
    BY DEF CallsTypeOK
  <1>2. CASE v # u
    BY <1>1, <1>2 DEF PhoneMoves, Active, SetPhone
  <1>3. CASE v = u
    <2>1. CASE UNCHANGED phone \/ phone' = [phone EXCEPT ![u] = Idle]
      BY <1>1, <1>3, <2>1 DEF PhoneMoves
    <2>2. CASE Active(u)
      <3>1. phone'[u] = [phone[u] EXCEPT !.status = "active"]
        BY <1>1, <2>2 DEF Active
      <3>2. phone'[u].status = "active" /\ phone'[u].call = phone[u].call
        BY <1>1, <3>1 DEF Phone
      <3>3. QED
        BY <1>3, <3>2 DEF PhoneMoves
    <2>3. ASSUME NEW k \in CallIds, seen[u].status = "idle",
                 \/ SetPhone(u, "outgoing", k) /\ InitiateCall(u, k)
                 \/ SetPhone(u, "incoming", k) /\ OnOffer(u, k)
                 \/ SetPhone(u, "connecting", k) /\ Tapped(u, k)
          PROVE  PhoneMoves(u)
      <3>1. CASE SetPhone(u, "outgoing", k) /\ InitiateCall(u, k)
        <4>1. phone'[u] = [status |-> "outgoing", call |-> k]
          BY <1>1, <3>1 DEF SetPhone
        <4>2. QED
          BY <2>3, <3>1, <4>1 DEF PhoneMoves
      <3>2. CASE \/ SetPhone(u, "incoming", k) /\ OnOffer(u, k)
                 \/ SetPhone(u, "connecting", k) /\ Tapped(u, k)
        <4>1. \/ OnOffer(u, k) /\ phone'[u] = [status |-> "incoming", call |-> k]
              \/ Tapped(u, k) /\ phone'[u] = [status |-> "connecting", call |-> k]
          BY <1>1, <3>2 DEF SetPhone
        <4>2. QED
          BY <2>3, <4>1 DEF PhoneMoves
      <3>3. QED
        BY <2>3, <3>1, <3>2
    <2>4. QED
      BY <1>3, <2>1, <2>2, <2>3
  <1>4. QED
    BY <1>2, <1>3

\* Every step moves each phone in one of these ways.
LEMMA PhonesMove ==
    ASSUME CallsTypeOK, [CallsNext]_callVars, NEW v \in Users
    PROVE  PhoneMoves(v)
  <1>1. ASSUME NEW u \in Users, PhoneStep(u)
        PROVE  PhoneMoves(v)
    <2>1. CASE AcceptCall(u)
      BY <2>1 DEF AcceptCall, PhoneMoves
    <2>2. CASE RejectCall(u) \/ ClickHangUp(u) \/ ConnectionFails(u)
      BY <2>2, OnePhoneMoves DEF RejectCall, ClickHangUp, ConnectionFails, HangUp, ResetState
    <2>3. CASE RingTimeout(u)
      BY <2>3, OnePhoneMoves DEF RingTimeout, ResetState
    <2>4. CASE ConnectingTimeout(u)
      BY <2>4, OnePhoneMoves DEF ConnectingTimeout, ResetState
    <2>5. ASSUME NEW k \in CallIds, InitiateCall(u, k)
          PROVE  PhoneMoves(v)
      <3>1. seen[u].status = "idle" /\ SetPhone(u, "outgoing", k)
        BY <2>5 DEF InitiateCall
      <3>2. QED
        BY <2>5, <3>1, OnePhoneMoves
    <2>6. ASSUME NEW k \in CallIds, TapDoorbell(u, k)
          PROVE  PhoneMoves(v)
      <3>1. \/ UNCHANGED phone
            \/ seen[u].status = "idle" /\ SetPhone(u, "connecting", k) /\ Tapped(u, k)
        BY <2>6 DEF TapDoorbell, FlushPendingReady, Tapped
      <3>2. QED
        BY <3>1, OnePhoneMoves
    <2>7. ASSUME NEW k \in CallIds, OnOffer(u, k)
          PROVE  PhoneMoves(v)
      <3>1. UNCHANGED phone \/ (seen[u].status = "idle" /\ SetPhone(u, "incoming", k))
        BY <2>7 DEF OnOffer
      <3>2. QED
        BY <2>7, <3>1, OnePhoneMoves
    <2>8. ASSUME NEW k \in CallIds, OnAnswer(u, k) \/ OnReady(u, k) \/ OnHangUp(u, k)
          PROVE  PhoneMoves(v)
      <3>1. UNCHANGED phone \/ phone' = [phone EXCEPT ![u] = Idle] \/ Active(u)
        BY <2>8 DEF OnAnswer, HandleRemoteAnswer, OnReady, OnHangUp, ResetState
      <3>2. QED
        BY <3>1, OnePhoneMoves
    <2>9. CASE Commit(u)
      BY <2>9 DEF Commit, PhoneMoves
    <2>10. QED
      BY <1>1, <2>1, <2>2, <2>3, <2>4, <2>5, <2>6, <2>7, <2>8, <2>9 DEF PhoneStep
  <1>2. ASSUME NEW p \in promises, PromiseStep(p)
        PROVE  PhoneMoves(v)
    <2>1. p.user \in Users
      BY DEF CallsTypeOK, Promise
    <2>2. UNCHANGED phone \/ Active(p.user) \/ phone' = [phone EXCEPT ![p.user] = Idle]
      BY <1>2 DEF PromiseStep, OfferMade, AnswerMade, RemoteAnswerSet, PromiseFails, HangUp,
                  ResetState
    <2>3. QED
      BY <2>1, <2>2, OnePhoneMoves
  <1>3. ASSUME NEW u \in Users, ServerStep(u)
        PROVE  PhoneMoves(v)
    <2>1. UNCHANGED phone
      BY <1>3 DEF ServerStep, RegisterOffer, PostMissed, CheckLastConnection, EndCall, RelaySignal,
                  HandleHangUp, CheckOffer, CheckMissed, ReadFrame, phoneVars
    <2>2. QED
      BY <2>1 DEF PhoneMoves
  <1>4. ASSUME NEW u \in Users, DropLine(u) \/ Reconnect(u)
        PROVE  PhoneMoves(v)
    <2>1. \/ UNCHANGED phone
          \/ /\ seen[u].status = "idle" /\ doorbell[u] # None
             /\ SetPhone(u, "connecting", doorbell[u]) /\ Tapped(u, doorbell[u])
      BY <1>4 DEF DropLine, Reconnect, FlushPendingReady, phoneVars, Tapped
    <2>2. doorbell[u] # None => doorbell[u] \in CallIds
      BY DEF CallsTypeOK, MaybeCall
    <2>3. QED
      BY <2>1, <2>2, OnePhoneMoves
  <1>5. CASE UNCHANGED callVars
    BY <1>5 DEF callVars, PhoneMoves
  <1>6. QED
    BY <1>1, <1>2, <1>3, <1>4, <1>5 DEF CallsNext

\* The copy is taken of what the phone is in after the step, at once by a call that begins.
LEMMA CopiesMove ==
    ASSUME CallsTypeOK, [CallsNext]_callVars, NEW v \in Users
    PROVE  /\ seen'[v] = seen[v] \/ seen'[v] = phone'[v]
           /\ \A k \in CallIds : InitiateCall(v, k) => seen'[v] = phone'[v]
  <1>0. seen \in [Users -> Phone]
    BY DEF CallsTypeOK
  <1>1. ASSUME NEW u \in Users, Rendered(u)
        PROVE  /\ seen'[v] = seen[v] \/ seen'[v] = phone'[v]
               /\ u = v => seen'[v] = phone'[v]
    BY <1>0, <1>1 DEF Rendered
  <1>2. ASSUME NEW u \in Users, PhoneStep(u)
        PROVE  seen'[v] = seen[v] \/ seen'[v] = phone'[v]
    <2>1. CASE RejectCall(u) \/ ClickHangUp(u)
      BY <1>1, <2>1 DEF RejectCall, ClickHangUp
    <2>2. CASE \E k \in CallIds : InitiateCall(u, k)
      BY <1>1, <2>2 DEF InitiateCall
    <2>3. CASE Commit(u)
      BY <1>0, <2>3 DEF Commit
    <2>4. CASE AcceptCall(u) \/ ConnectionFails(u) \/ RingTimeout(u) \/ ConnectingTimeout(u)
      BY <2>4 DEF AcceptCall, ConnectionFails, RingTimeout, ConnectingTimeout
    <2>5. CASE \E k \in CallIds : \/ TapDoorbell(u, k) \/ OnOffer(u, k) \/ OnAnswer(u, k)
                                  \/ OnReady(u, k) \/ OnHangUp(u, k)
      BY <2>5 DEF TapDoorbell, OnOffer, OnAnswer, OnReady, OnHangUp, Take
    <2>6. QED
      BY <1>2, <2>1, <2>2, <2>3, <2>4, <2>5 DEF PhoneStep
  <1>3. ASSUME NEW u \in Users, ServerStep(u) \/ DropLine(u) \/ Reconnect(u)
        PROVE  UNCHANGED seen
    BY <1>3 DEF ServerStep, RegisterOffer, PostMissed, CheckLastConnection, EndCall, RelaySignal,
                HandleHangUp, CheckOffer, CheckMissed, ReadFrame, phoneVars, DropLine, Reconnect
  <1>4. ASSUME NEW p \in promises, PromiseStep(p)
        PROVE  UNCHANGED seen
    BY <1>4 DEF PromiseStep, OfferMade, AnswerMade, RemoteAnswerSet, PromiseFails
  <1>5. UNCHANGED callVars => UNCHANGED seen
    BY DEF callVars
  <1>6. \A k \in CallIds : InitiateCall(v, k) => seen'[v] = phone'[v]
    BY <1>1 DEF InitiateCall
  <1>7. QED
    BY <1>2, <1>3, <1>4, <1>5, <1>6 DEF CallsNext

\* A phone whose copy is idle is seen in no call.
LEMMA SeenIdle ==
    ASSUME CallsTypeOK, IdleMeansNoCall, NEW v \in Users, seen[v].status = "idle"
    PROVE  seen[v] = Idle
  <1>1. seen[v] \in Phone /\ seen[v].call = None
    BY DEF CallsTypeOK, IdleMeansNoCall
  <1>2. QED
    BY <1>1 DEF Phone, Idle

\* A phone in no call is idle or, by a late promise, active.
LEMMA IdleStaysFree ==
    ASSUME CallsTypeOK, IdleMeansNoCall, [CallsNext]_callVars
    PROVE  IdleMeansNoCall'
  <1>1. ASSUME NEW v \in Users
        PROVE  phone'[v].status = "idle" => phone'[v].call = None
    <2>1. PhoneMoves(v)
      BY PhonesMove
    <2>2. \A k \in CallIds, status \in {"outgoing", "incoming", "connecting"} :
             phone'[v] = [status |-> status, call |-> k] => phone'[v].status # "idle"
      OBVIOUS
    <2>3. Idle.call = None
      BY DEF Idle
    <2>4. QED
      BY <2>1, <2>2, <2>3 DEF PhoneMoves, IdleMeansNoCall
  <1>2. \A v \in Users : seen'[v].status = "idle" => seen'[v].call = None
    BY <1>1, CopiesMove DEF IdleMeansNoCall
  <1>3. QED
    BY <1>1, <1>2 DEF IdleMeansNoCall

\* What a phone is calling is rendered; what it connects to may still not be.
LEMMA CopyKeepsUp ==
    ASSUME CallsTypeOK, IdleMeansNoCall, CopyFollows, [CallsNext]_callVars
    PROVE  CopyFollows'
  <1>1. ASSUME NEW v \in Users
        PROVE  /\ phone'[v].status = "outgoing" => seen'[v] = phone'[v]
               /\ phone'[v].status = "connecting" => seen'[v] \in {Idle, phone'[v]}
    <2>1. PhoneMoves(v)
      BY PhonesMove
    <2>2. /\ seen'[v] = seen[v] \/ seen'[v] = phone'[v]
          /\ \A k \in CallIds : InitiateCall(v, k) => seen'[v] = phone'[v]
      BY CopiesMove
    <2>3. CASE phone'[v] = phone[v]
      BY <2>2, <2>3 DEF CopyFollows
    <2>4. CASE phone'[v] = Idle \/ phone'[v].status = "active"
      BY <2>4 DEF Idle
    <2>5. CASE \E k \in CallIds :
                  InitiateCall(v, k) /\ phone'[v] = [status |-> "outgoing", call |-> k]
      BY <2>2, <2>5
    <2>6. CASE /\ seen[v].status = "idle"
               /\ \E k \in CallIds : \/ phone'[v] = [status |-> "incoming", call |-> k]
                                     \/ phone'[v] = [status |-> "connecting", call |-> k]
      <3>1. seen[v] = Idle
        BY <2>6, SeenIdle
      <3>2. phone'[v].status # "outgoing"
        BY <2>6
      <3>3. QED
        BY <2>2, <3>1, <3>2
    <2>7. QED
      BY <2>1, <2>3, <2>4, <2>5, <2>6 DEF PhoneMoves
  <1>2. QED
    BY <1>1 DEF CopyFollows

\* initiateCall, handleCallEvent and the timers take a phone from call to call only through
\* resetState, or before the first is rendered, for any number of users and calls.
THEOREM PhonesNeverSwitch == CallsSpec => NoSwitch
  <1> DEFINE Calm == CallsTypeOK /\ IdleMeansNoCall /\ CopyFollows
             Still == \A u \in Users :
                phone[u].call # None /\ phone'[u].call # phone[u].call /\ phone'[u] # Idle
                => seen[u] = Idle /\ phone[u].status # "outgoing"
  <1>1. CallsInit => Calm
    <2>1. CallsInit => IdleMeansNoCall
      BY DEF CallsInit, IdleMeansNoCall, Idle
    <2>2. CallsInit => CopyFollows
      BY DEF CallsInit, CopyFollows
    <2>3. QED
      BY <2>1, <2>2, InitialTypes, CallsAssumption
  <1>2. Calm /\ [CallsNext]_callVars => Calm'
    BY StepsKeepTypes, IdleStaysFree, CopyKeepsUp, CallsAssumption
  <1>3. Calm /\ [CallsNext]_callVars => [Still]_callVars
    <2> SUFFICES ASSUME Calm, [CallsNext]_callVars, NEW u \in Users,
                        phone[u].call # None, phone'[u].call # phone[u].call, phone'[u] # Idle
                 PROVE  seen[u] = Idle /\ phone[u].status # "outgoing"
      OBVIOUS
    <2>1. PhoneMoves(u)
      BY PhonesMove
    <2>2. seen[u].status = "idle"
      BY <2>1 DEF PhoneMoves
    <2>3. seen[u] = Idle
      BY <2>2, SeenIdle
    <2>4. phone[u].status # "outgoing"
      BY <2>2 DEF CopyFollows
    <2>5. QED
      BY <2>3, <2>4
  <1> HIDE DEF Calm, Still
  <1>4. CallsSpec => [][Still]_callVars
    BY <1>1, <1>2, <1>3, PTL DEF CallsSpec
  <1>5. QED
    BY <1>4 DEF NoSwitch, Still

----------------------------------------------------------------------------
(* Queues: what is in them after a send and after a read.                  *)

\* Nothing, one frame or two that are sent.
LEMMA HasNone ==
    ASSUME NEW F
    PROVE  ~ Has(<<>>, F) /\ Once(<<>>, F)
  BY DEF Has, Once

\* One frame.
LEMMA HasOne ==
    ASSUME NEW F, NEW f
    PROVE  (Has(<<f>>, F) <=> f \in F) /\ Once(<<f>>, F)
  <1>1. DOMAIN <<f>> = {1} /\ <<f>>[1] = f
    OBVIOUS
  <1>2. QED
    BY <1>1 DEF Has, Once

\* Two frames.
LEMMA HasTwo ==
    ASSUME NEW F, NEW f, NEW g
    PROVE  /\ Has(<<f, g>>, F) <=> f \in F \/ g \in F
           /\ ~ (f \in F /\ g \in F) => Once(<<f, g>>, F)
  <1>1. DOMAIN <<f, g>> = {1, 2} /\ <<f, g>>[1] = f /\ <<f, g>>[2] = g
    OBVIOUS
  <1>2. Has(<<f, g>>, F) <=> f \in F \/ g \in F
    BY <1>1 DEF Has
  <1>3. ~ (f \in F /\ g \in F) => Once(<<f, g>>, F)
    BY <1>1 DEF Once
  <1>4. QED
    BY <1>2, <1>3

\* What is in a queue after a send.
LEMMA HasConcat ==
    ASSUME NEW S, NEW s \in Seq(S), NEW t \in Seq(S), NEW F
    PROVE  /\ Has(s \o t, F) <=> Has(s, F) \/ Has(t, F)
           /\ Once(s, F) /\ ~ Has(t, F) => Once(s \o t, F)
           /\ Once(t, F) /\ ~ Has(s, F) => Once(s \o t, F)
  <1>1. /\ DOMAIN s = 1..Len(s) /\ DOMAIN t = 1..Len(t) /\ Len(s) \in Nat /\ Len(t) \in Nat
        /\ DOMAIN (s \o t) = 1..(Len(s) + Len(t))
        /\ \A i \in 1..(Len(s) + Len(t)) : (s \o t)[i] = IF i <= Len(s) THEN s[i] ELSE t[i - Len(s)]
    OBVIOUS
  <1>2. \A i \in DOMAIN s : i \in DOMAIN (s \o t) /\ (s \o t)[i] = s[i]
    BY <1>1
  <1>3. \A i \in DOMAIN t : Len(s) + i \in DOMAIN (s \o t) /\ (s \o t)[Len(s) + i] = t[i]
    BY <1>1
  <1>4. \A i \in DOMAIN (s \o t) : \/ i \in DOMAIN s /\ (s \o t)[i] = s[i]
                                  \/ /\ i - Len(s) \in DOMAIN t /\ i \in Int
                                     /\ (s \o t)[i] = t[i - Len(s)]
    BY <1>1
  <1> HIDE <1>1
  <1>5. Has(s \o t, F) <=> Has(s, F) \/ Has(t, F)
    BY <1>2, <1>3, <1>4 DEF Has
  <1>6. Once(s, F) /\ ~ Has(t, F) => Once(s \o t, F)
    BY <1>4 DEF Has, Once
  <1>7. Once(t, F) /\ ~ Has(s, F) => Once(s \o t, F)
    BY <1>1, <1>4 DEF Has, Once
  <1>8. QED
    BY <1>5, <1>6, <1>7

\* What is in a queue after a read.
LEMMA HasTail ==
    ASSUME NEW S, NEW s \in Seq(S), s # <<>>, NEW F
    PROVE  /\ Has(Tail(s), F) => Has(s, F)
           /\ Head(s) \in F => Has(s, F)
           /\ Once(s, F) => Once(Tail(s), F)
           /\ Once(s, F) /\ Head(s) \in F => ~ Has(Tail(s), F)
  <1>1. /\ DOMAIN s = 1..Len(s) /\ Len(s) \in Nat /\ Len(s) # 0 /\ Head(s) = s[1]
        /\ DOMAIN Tail(s) = 1..(Len(s) - 1)
        /\ \A i \in 1..(Len(s) - 1) : Tail(s)[i] = s[i + 1]
    OBVIOUS
  <1>2. \A i \in DOMAIN Tail(s) : /\ i \in Int /\ i >= 1 /\ i + 1 \in DOMAIN s
                                  /\ Tail(s)[i] = s[i + 1]
    BY <1>1
  <1>3. 1 \in DOMAIN s /\ s[1] = Head(s)
    BY <1>1
  <1>4. QED
    BY <1>2, <1>3 DEF Has, Once

\* Which frames are about which call.
LEMMA SignalsOf ==
    ASSUME NEW kind, NEW k, NEW j
    PROVE  /\ Say(kind, k) \in Signals(j) <=>
              k = j /\ kind \in {"call_offer", "call_ready"}
           /\ Say(kind, k) \in {Say("call_missed", j)} <=> k = j /\ kind = "call_missed"
           /\ Say(kind, k) \in {Say("call_answer", j)} <=> k = j /\ kind = "call_answer"
  BY DEF Say, Signals

\* What a send leaves in the queues.
LEMMA SentHas ==
    ASSUME NEW u \in Users, NEW v \in Users, NEW frames \in Seq(Frame), Send(u, frames),
           CallsTypeOK,
           NEW F
    PROVE  /\ Has(uplink'[v], F) => Has(uplink[v], F) \/ (v = u /\ Has(frames, F))
           /\ Once(uplink[v], F) /\ (v = u => ~ Has(frames, F)) => Once(uplink'[v], F)
           /\ v = u /\ Once(frames, F) /\ ~ Has(uplink[v], F) => Once(uplink'[v], F)
  <1>1. uplink \in [Users -> Seq(Frame)] /\ uplink[v] \in Seq(Frame)
    BY DEF CallsTypeOK
  <1>2. CASE uplink'[v] = uplink[v]
    <2>1. ~ Has(uplink[v], F) => Once(uplink[v], F)
      BY DEF Has, Once
    <2>2. QED
      BY <1>2, <2>1
  <1>3. CASE v = u /\ uplink'[v] = uplink[v] \o frames
    BY <1>1, <1>3, HasConcat
  <1>4. QED
    BY <1>1, <1>2, <1>3, SentFrames

\* What a read leaves in the queues.
LEMMA ReadHas ==
    ASSUME CallsTypeOK, NEW u \in Users, NEW v \in Users, NEW k, ReadFrame(u, k), NEW F
    PROVE  /\ Has(uplink'[v], F) => Has(uplink[v], F)
           /\ Once(uplink[v], F) => Once(uplink'[v], F)
           /\ Head(uplink[u]) \in F => Has(uplink[u], F)
           /\ Once(uplink[u], F) /\ Head(uplink[u]) \in F => ~ Has(uplink'[u], F)
  <1>1. /\ uplink[u] \in Seq(Frame) /\ uplink[u] # <<>> /\ uplink'[u] = Tail(uplink[u])
        /\ v # u => uplink'[v] = uplink[v]
    BY ReadFrames
  <1>2. /\ Has(Tail(uplink[u]), F) => Has(uplink[u], F)
        /\ Head(uplink[u]) \in F => Has(uplink[u], F)
        /\ Once(uplink[u], F) => Once(Tail(uplink[u]), F)
        /\ Once(uplink[u], F) /\ Head(uplink[u]) \in F => ~ Has(Tail(uplink[u]), F)
    BY <1>1, HasTail
  <1>3. QED
    BY <1>1, <1>2

----------------------------------------------------------------------------
(* Tokens.                                                                 *)

\* Tokens of different places differ.
LEMMA TokenTags ==
    ASSUME NEW k, NEW S, NEW z
    PROVE  /\ z \in PromiseTokens(k, S) => z[1] = "promise"
           /\ z \in FrameTokens(k, S) => z[1] = "frame"
           /\ z \in OfferTokens(k, S) => z[1] = "handling"
           /\ z \in LetterTokens(k, S) => z[1] = "letter"
           /\ z \in BellTokens(k, S) => z[1] = "bell"
           /\ z \in TapTokens(k, S) => z[1] = "doorbell"
           /\ z \in TimerTokens(k, S) => z[1] = "timer"
           /\ z \in MissedTokens(k, S) => z[1] = "frame"
           /\ z \in PostTokens(k, S) => z[1] = "handling"
           /\ z \in PostedTokens(k, S) => z[1] = "posted"
  <1>1. z \in PromiseTokens(k, S) => z[1] = "promise"
    BY DEF PromiseTokens
  <1>2. z \in FrameTokens(k, S) \/ z \in MissedTokens(k, S) => z[1] = "frame"
    BY DEF FrameTokens, MissedTokens
  <1>3. z \in OfferTokens(k, S) \/ z \in PostTokens(k, S) => z[1] = "handling"
    BY DEF OfferTokens, PostTokens
  <1>4. z \in LetterTokens(k, S) => z[1] = "letter"
    BY DEF LetterTokens
  <1>5. z \in BellTokens(k, S) => z[1] = "bell"
    <2>1. z \in BellTokens(k, S) => \E u \in Users : z = <<"bell", u>>
      BY DEF BellTokens
    <2>2. QED
      BY <2>1
  <1>6. z \in TapTokens(k, S) => z[1] = "doorbell"
    BY DEF TapTokens
  <1>7. z \in TimerTokens(k, S) => z[1] = "timer"
    BY DEF TimerTokens
  <1>8. z \in PostedTokens(k, S) => z[1] = "posted"
    <2>1. <<"posted">>[1] = "posted"
      OBVIOUS
    <2>2. z \in PostedTokens(k, S) => z = <<"posted">>
      BY DEF PostedTokens
    <2>3. QED
      BY <2>1, <2>2
  <1>9. QED
    BY <1>1, <1>2, <1>3, <1>4, <1>5, <1>6, <1>7, <1>8

\* What a token of the signalling stands for.
LEMMA TokensAre ==
    ASSUME NEW k, NEW S, NEW u
    PROVE  /\ \A w : <<"promise", u, w>> \in PromiseTokens(k, S) <=>
                     \E p \in S : p.user = u /\ p.kind = w /\ p.call = k /\ w \in Offering
           /\ <<"frame", u>> \in FrameTokens(k, S) <=> u \in Users /\ Has(S[u], Signals(k))
           /\ <<"handling", u>> \in OfferTokens(k, S) <=>
              u \in Users /\ S[u].step = "offer" /\ S[u].call = k
           /\ \A w : <<"letter", u, w>> \in LetterTokens(k, S) <=>
                     \E f \in S : f.to = u /\ f.kind = w /\ Say(f.kind, f.call) \in Signals(k)
           /\ <<"bell", u>> \in BellTokens(k, S) <=> u \in Users /\ <<u, k>> \in S
           /\ <<"doorbell", u>> \in TapTokens(k, S) <=> u \in Users /\ S[u] = k
           /\ <<"timer", u>> \in TimerTokens(k, S) <=> u \in Users /\ S[u] = k
           /\ <<"frame", u>> \in MissedTokens(k, S) <=>
              u \in Users /\ Has(S[u], {Say("call_missed", k)})
           /\ <<"handling", u>> \in PostTokens(k, S) <=>
              u \in Users /\ S[u].step = "missed" /\ S[u].call = k
  <1>1. \A w : <<"promise", u, w>> \in PromiseTokens(k, S) <=>
               \E p \in S : p.user = u /\ p.kind = w /\ p.call = k /\ w \in Offering
    BY DEF PromiseTokens
  <1>2. \A w : <<"letter", u, w>> \in LetterTokens(k, S) <=>
               \E f \in S : f.to = u /\ f.kind = w /\ Say(f.kind, f.call) \in Signals(k)
    BY DEF LetterTokens
  <1>4. <<"frame", u>> \in FrameTokens(k, S) <=> u \in Users /\ Has(S[u], Signals(k))
    BY DEF FrameTokens
  <1>5. <<"handling", u>> \in OfferTokens(k, S) <=>
        u \in Users /\ S[u].step = "offer" /\ S[u].call = k
    BY DEF OfferTokens
  <1>6. <<"bell", u>> \in BellTokens(k, S) <=> u \in Users /\ <<u, k>> \in S
    BY DEF BellTokens
  <1>7. <<"doorbell", u>> \in TapTokens(k, S) <=> u \in Users /\ S[u] = k
    BY DEF TapTokens
  <1>8. <<"timer", u>> \in TimerTokens(k, S) <=> u \in Users /\ S[u] = k
    BY DEF TimerTokens
  <1>9. <<"frame", u>> \in MissedTokens(k, S) <=>
        u \in Users /\ Has(S[u], {Say("call_missed", k)})
    BY DEF MissedTokens
  <1>10. <<"handling", u>> \in PostTokens(k, S) <=>
         u \in Users /\ S[u].step = "missed" /\ S[u].call = k
    BY DEF PostTokens
  <1>11. QED
    BY <1>1, <1>2, <1>4, <1>5, <1>6, <1>7, <1>8, <1>9, <1>10

\* The thread of k moves by one step, ends or stays; it does not begin or fork.
Slides(S, T) == T \subseteq S \/ (S # {} /\ \E y : T \subseteq {y})

\* A lone token that goes makes room for one.
LEMMA OneForOne ==
    ASSUME NEW S, NEW T, Single(S), NEW x \in S, x \notin T, NEW y, T \subseteq S \cup {y}
    PROVE  Slides(S, T)
  BY DEF Slides, Single

\* A lone token stays alone.
LEMMA SlidesStayLone ==
    ASSUME NEW S, NEW T, Slides(S, T)
    PROVE  (Single(S) => Single(T)) /\ (S = {} => T = {})
  BY DEF Slides, Single

\* Every offer to come in Q is one to come now.
OffersFrom(Q) ==
    \A q \in Q : q.kind \in Offering =>
        \E p \in promises : p.user = q.user /\ p.kind = q.kind /\ p.call = q.call

\* Closing the connection and beginning to answer bring none.
LEMMA NoNewOffers ==
    ASSUME CallsTypeOK
    PROVE  /\ OffersFrom(promises) /\ \A u : OffersFrom(Cleaned(u))
           /\ \A P, Q : OffersFrom(P) /\ Q \subseteq P => OffersFrom(Q)
           /\ \A P, u, w, j : OffersFrom(P) /\ w \notin Offering =>
                              OffersFrom(P \cup {Pending(u, w, j)})
  <1>1. OffersFrom(promises)
    BY DEF OffersFrom
  <1>2. ASSUME NEW u
        PROVE  OffersFrom(Cleaned(u))
    <2>1. \A p \in Cleaned(u) : \E q \in promises :
             p.user = q.user /\ p.kind = q.kind /\ p.call = q.call
      BY CleanedPromises DEF CallsTypeOK
    <2>2. QED
      BY <2>1 DEF OffersFrom
  <1>3. \A P, Q : OffersFrom(P) /\ Q \subseteq P => OffersFrom(Q)
    BY DEF OffersFrom
  <1>4. \A P, u, w, j : OffersFrom(P) /\ w \notin Offering =>
                        OffersFrom(P \cup {Pending(u, w, j)})
    BY DEF OffersFrom, Pending
  <1>5. QED
    BY <1>1, <1>2, <1>3, <1>4

\* So they bring no token.
LEMMA OfferedTokens ==
    ASSUME NEW Q, OffersFrom(Q), NEW k
    PROVE  PromiseTokens(k, Q) \subseteq PromiseTokens(k, promises)
  BY DEF OffersFrom, PromiseTokens

\* A phone closes its connection and begins to offer.
LEMMA BegunTokens ==
    ASSUME CallsTypeOK, NEW u, NEW w, NEW j, NEW k, promises' = Cleaned(u) \cup {Pending(u, w, j)}
    PROVE  /\ PromiseTokens(k, promises') \subseteq
              PromiseTokens(k, promises) \cup {<<"promise", u, w>>}
           /\ j # k => PromiseTokens(k, promises') \subseteq PromiseTokens(k, promises)
  <1>1. PromiseTokens(k, Cleaned(u)) \subseteq PromiseTokens(k, promises)
    BY NoNewOffers, OfferedTokens
  <1>2. /\ Pending(u, w, j).user = u /\ Pending(u, w, j).kind = w /\ Pending(u, w, j).call = j
    BY DEF Pending
  <1>3. \A p \in promises' : p \in Cleaned(u) \/ (p.user = u /\ p.kind = w /\ p.call = j)
    BY <1>2
  <1>4. ASSUME NEW z \in PromiseTokens(k, promises')
        PROVE  z \in PromiseTokens(k, Cleaned(u)) \/ (z = <<"promise", u, w>> /\ j = k)
    BY <1>3 DEF PromiseTokens
  <1>5. QED
    BY <1>1, <1>4

\* A promise of an offer that settles takes its token along.
LEMMA SettledTokens ==
    ASSUME NoTwins, NEW p \in promises, NEW k, NEW Q, Q = promises \ {p}
    PROVE  /\ PromiseTokens(k, Q) \subseteq PromiseTokens(k, promises)
           /\ p.call = k /\ p.kind \in Offering =>
              /\ <<"promise", p.user, p.kind>> \in PromiseTokens(k, promises)
              /\ <<"promise", p.user, p.kind>> \notin PromiseTokens(k, Q)
  <1>1. PromiseTokens(k, Q) \subseteq PromiseTokens(k, promises)
    BY DEF PromiseTokens
  <1>2. ASSUME p.call = k, p.kind \in Offering
        PROVE  /\ <<"promise", p.user, p.kind>> \in PromiseTokens(k, promises)
               /\ <<"promise", p.user, p.kind>> \notin PromiseTokens(k, Q)
    <2>1. <<"promise", p.user, p.kind>> \in PromiseTokens(k, promises)
      BY <1>2 DEF PromiseTokens
    <2>2. ~ \E q \in Q : q.user = p.user /\ q.kind = p.kind /\ q.call = k
      BY <1>2 DEF NoTwins
    <2>3. <<"promise", p.user, p.kind>> \notin PromiseTokens(k, Q)
      BY <2>2 DEF PromiseTokens
    <2>4. QED
      BY <2>1, <2>3
  <1>3. QED
    BY <1>1, <1>2

\* Frames that are sent.
LEMMA SentTokens ==
    ASSUME CallsTypeOK, NEW u \in Users, NEW frames \in Seq(Frame), Send(u, frames), NEW k
    PROVE  /\ FrameTokens(k, uplink') \subseteq FrameTokens(k, uplink) \cup {<<"frame", u>>}
           /\ ~ Has(frames, Signals(k)) => FrameTokens(k, uplink') \subseteq FrameTokens(k, uplink)
  <1>1. \A v \in Users : Has(uplink'[v], Signals(k)) =>
                         Has(uplink[v], Signals(k)) \/ (v = u /\ Has(frames, Signals(k)))
    BY SentHas
  <1>2. QED
    BY <1>1 DEF FrameTokens

\* The queue of one phone grows.
LEMMA GrownTokens ==
    ASSUME NEW u \in Users, NEW k, NEW f, NEW g, \A v \in Users : v # u => g[v] = f[v]
    PROVE  FrameTokens(k, g) \subseteq FrameTokens(k, f) \cup {<<"frame", u>>}
  BY DEF FrameTokens

\* A frame that is read.
LEMMA ReadTokens ==
    ASSUME CallsTypeOK, NoTwins, NEW u \in Users, NEW j \in CallIds, ReadFrame(u, j),
           NEW k \in CallIds
    PROVE  /\ FrameTokens(k, uplink') \subseteq FrameTokens(k, uplink)
           /\ j = k /\ Head(uplink[u]).kind \in {"call_offer", "call_ready"} =>
              /\ <<"frame", u>> \in FrameTokens(k, uplink)
              /\ <<"frame", u>> \notin FrameTokens(k, uplink')
  <1>1. FrameTokens(k, uplink') \subseteq FrameTokens(k, uplink)
    BY ReadHas DEF FrameTokens
  <1>2. ASSUME j = k, Head(uplink[u]).kind \in {"call_offer", "call_ready"}
        PROVE  /\ <<"frame", u>> \in FrameTokens(k, uplink)
               /\ <<"frame", u>> \notin FrameTokens(k, uplink')
    <2>1. Head(uplink[u]) \in Signals(k)
      BY <1>2, ReadFrames, SignalsOf
    <2>2. Once(uplink[u], Signals(k))
      BY DEF NoTwins
    <2>3. Has(uplink[u], Signals(k)) /\ ~ Has(uplink'[u], Signals(k))
      BY <2>1, <2>2, ReadHas
    <2>4. QED
      BY <2>3, TokensAre
  <1>3. QED
    BY <1>1, <1>2

\* A letter that is taken.
LEMMA TakenTokens ==
    ASSUME CallsTypeOK, NEW u \in Users, NEW kind, NEW j \in CallIds, Take(u, kind, j),
           NEW k \in CallIds
    PROVE  /\ LetterTokens(k, downlink') \subseteq LetterTokens(k, downlink)
           /\ j = k /\ kind \in {"call_offer", "call_ready"} =>
              /\ <<"letter", u, kind>> \in LetterTokens(k, downlink)
              /\ <<"letter", u, kind>> \notin LetterTokens(k, downlink')
  <1> DEFINE f == [to |-> u, kind |-> kind, call |-> j]
  <1>1. downlink' = downlink \ {f} /\ f \in downlink /\ downlink \subseteq Letter
    BY DEF Take, CallsTypeOK
  <1>2. LetterTokens(k, downlink') \subseteq LetterTokens(k, downlink)
    BY <1>1 DEF LetterTokens
  <1>3. ASSUME j = k, kind \in {"call_offer", "call_ready"}
        PROVE  /\ <<"letter", u, kind>> \in LetterTokens(k, downlink)
               /\ <<"letter", u, kind>> \notin LetterTokens(k, downlink')
    <2>1. f \in downlink /\ f.to = u /\ f.kind = kind /\ f.call = k
      BY <1>1, <1>3
    <2>2. \A g \in downlink : g.to = u /\ g.kind = kind /\ g.call = k => g = f
      BY <1>1, <1>3 DEF Letter
    <2> HIDE DEF f
    <2>3. Say(kind, k) \in Signals(k)
      BY <1>3, SignalsOf
    <2>4. <<"letter", u, kind>> \in LetterTokens(k, downlink)
      BY <2>1, <2>3 DEF LetterTokens
    <2>5. \A g : Say(g.kind, g.call) \in Signals(k) => g.call = k
      BY SignalsOf
    <2>6. ~ \E g \in downlink' : g.to = u /\ g.kind = kind /\ Say(g.kind, g.call) \in Signals(k)
      BY <1>1, <2>2, <2>5
    <2>7. <<"letter", u, kind>> \notin LetterTokens(k, downlink')
      BY <2>6 DEF LetterTokens
    <2>8. QED
      BY <2>4, <2>7
  <1>4. QED
    BY <1>2, <1>3

\* A letter that is relayed.
LEMMA RelayedTokens ==
    ASSUME NEW v, NEW kind, NEW j, Relay(v, kind, j), NEW k
    PROVE  /\ LetterTokens(k, downlink') \subseteq
              LetterTokens(k, downlink) \cup {<<"letter", v, kind>>}
           /\ j # k \/ kind \notin {"call_offer", "call_ready"} =>
              LetterTokens(k, downlink') \subseteq LetterTokens(k, downlink)
  <1> DEFINE f == [to |-> v, kind |-> kind, call |-> j]
  <1>1. f.to = v /\ f.kind = kind /\ f.call = j /\ \A g \in downlink' : g \in downlink \/ g = f
    BY DEF Relay
  <1> HIDE DEF f
  <1>2. \A z \in LetterTokens(k, downlink') :
           \/ z \in LetterTokens(k, downlink)
           \/ z = <<"letter", v, kind>> /\ Say(kind, j) \in Signals(k)
    BY <1>1 DEF LetterTokens
  <1>3. QED
    BY <1>2, SignalsOf

----------------------------------------------------------------------------
(* The offering of a call is one thread.                                   *)

\* A step that offers nothing and says nothing of it.
LEMMA QuietSlides ==
    ASSUME CallsTypeOK, NEW k \in CallIds,
           \/ UNCHANGED uplink
           \/ \E u \in Users, frames \in Seq(Frame) :
                 Send(u, frames) /\ ~ Has(frames, Signals(k)),
           OffersFrom(promises'),
           downlink' \subseteq downlink,
           UNCHANGED <<doorbell, bells, handling>>
    PROVE  Threads(k)' \subseteq Threads(k)
  <1>1. FrameTokens(k, uplink') \subseteq FrameTokens(k, uplink)
    BY SentTokens
  <1>2. LetterTokens(k, downlink') \subseteq LetterTokens(k, downlink)
    BY DEF LetterTokens
  <1>3. PromiseTokens(k, promises') \subseteq PromiseTokens(k, promises)
    BY OfferedTokens
  <1>4. QED
    BY <1>1, <1>2, <1>3 DEF Threads

\* A hang-up signals nothing.
LEMMA HangupsAreNoSignals ==
    ASSUME CallsTypeOK, NEW u \in Users, NEW k
    PROVE  /\ ~ Has(HangupFrames(u), Signals(k)) /\ ~ Has(HangupFrames(u), {Say("call_missed", k)})
           /\ ~ Has(HangupFrames(u), {Say("call_answer", k)})
  <1>1. HangupFrames(u) = <<>> \/ \E i \in CallIds : HangupFrames(u) = <<Say("call_hangup", i)>>
    BY HangupFramesType
  <1>2. QED
    BY <1>1, HasNone, HasOne, SignalsOf

\* Neither do the other frames that say that a call is over, and the missed call.
LEMMA GoodbyesAreNoSignals ==
    ASSUME NEW j \in CallIds, NEW k
    PROVE  /\ ~ Has(<<Say("call_reject", j)>>, Signals(k))
           /\ ~ Has(<<Say("call_missed", j), Say("call_hangup", j)>>, Signals(k))
           /\ ~ Has(<<Say("call_reject", j)>>, {Say("call_missed", k)})
           /\ ~ Has(<<Say("call_reject", j)>>, {Say("call_answer", k)})
           /\ ~ Has(<<Say("call_missed", j), Say("call_hangup", j)>>, {Say("call_answer", k)})
           /\ <<Say("call_reject", j)>> \in Seq(Frame)
           /\ <<Say("call_missed", j), Say("call_hangup", j)>> \in Seq(Frame)
  <1>0. /\ Say("call_reject", j) \in Frame /\ Say("call_missed", j) \in Frame
        /\ Say("call_hangup", j) \in Frame
    BY DEF Say, Frame, Kinds
  <1>1. <<Say("call_reject", j)>> \in Seq(Frame)
    BY <1>0
  <1>2. <<Say("call_missed", j), Say("call_hangup", j)>> \in Seq(Frame)
    BY <1>0
  <1>3. /\ ~ Has(<<Say("call_reject", j)>>, Signals(k))
        /\ ~ Has(<<Say("call_missed", j), Say("call_hangup", j)>>, Signals(k))
        /\ ~ Has(<<Say("call_reject", j)>>, {Say("call_missed", k)})
        /\ ~ Has(<<Say("call_reject", j)>>, {Say("call_answer", k)})
        /\ ~ Has(<<Say("call_missed", j), Say("call_hangup", j)>>, {Say("call_answer", k)})
    BY HasOne, HasTwo, SignalsOf
  <1>4. QED
    BY <1>1, <1>2, <1>3

\* The clicks and timers that begin no call; a call that is answered, or ends.
LEMMA ClicksSlide ==
    ASSUME CallsTypeOK, NEW u \in Users, NEW k \in CallIds,
           \/ AcceptCall(u) \/ RejectCall(u) \/ ClickHangUp(u) \/ ConnectionFails(u)
           \/ RingTimeout(u) \/ ConnectingTimeout(u) \/ Commit(u)
    PROVE  Threads(k)' \subseteq Threads(k)
  <1> USE NoNewOffers
  <1>1. CASE AcceptCall(u)
    <2>1. promises' = Cleaned(u) \cup {Pending(u, "answer", seen[u].call)}
      BY <1>1 DEF AcceptCall, Begin, Close
    <2>2. OffersFrom(promises')
      BY <2>1 DEF Offering
    <2>3. QED
      BY <1>1, <2>2, QuietSlides DEF AcceptCall, serverVars
  <1>2. CASE RejectCall(u)
    <2>1. seen[u].call \in CallIds
      BY <1>2 DEF RejectCall, CallsTypeOK, Phone, MaybeCall
    <2>2. OffersFrom(promises')
      BY <1>2 DEF RejectCall, Close
    <2>3. QED
      BY <1>2, <2>1, <2>2, GoodbyesAreNoSignals, QuietSlides DEF RejectCall, serverVars
  <1>3. CASE ClickHangUp(u) \/ ConnectionFails(u)
    <2>1. HangupFrames(u) \in Seq(Frame)
      BY HangupFramesType
    <2>2. OffersFrom(promises') /\ Send(u, HangupFrames(u))
      BY <1>3 DEF ClickHangUp, ConnectionFails, HangUp, Close
    <2>3. downlink' \subseteq downlink /\ UNCHANGED <<doorbell, bells, handling>>
      BY <1>3 DEF ClickHangUp, ConnectionFails, serverVars
    <2>4. QED
      BY <2>1, <2>2, <2>3, HangupsAreNoSignals, QuietSlides
  <1>4. CASE RingTimeout(u)
    <2>1. ring[u] \in CallIds
      BY <1>4 DEF RingTimeout, CallsTypeOK, MaybeCall
    <2>2. OffersFrom(promises')
      BY <1>4 DEF RingTimeout, Close
    <2>3. QED
      BY <1>4, <2>1, <2>2, GoodbyesAreNoSignals, QuietSlides DEF RingTimeout, serverVars
  <1>5. CASE ConnectingTimeout(u) \/ Commit(u)
    BY <1>5, QuietSlides DEF ConnectingTimeout, Commit, ResetState, serverVars
  <1>6. QED
    BY <1>1, <1>2, <1>3, <1>4, <1>5

\* RelaySignal: a call_ready becomes a letter, or is lost.
LEMMA RelaySlides ==
    ASSUME CallsTypeOK, NoTwins, Lone, NEW u \in Users, NEW j \in CallIds, RelaySignal(u, j),
           NEW k \in CallIds
    PROVE  Slides(Threads(k), Threads(k)')
  <1> DEFINE kind == Head(uplink[u]).kind
             y == <<"letter", Other(u, j), kind>>
             x == <<"frame", u>>
  <1>1. /\ ReadFrame(u, j) /\ Relay(Other(u, j), kind, j) /\ kind \in {"call_answer", "call_ready"}
        /\ UNCHANGED <<promises, doorbell, bells, handling>>
    BY ReadFrames DEF RelaySignal, serverVars
  <1>2. /\ FrameTokens(k, uplink') \subseteq FrameTokens(k, uplink)
        /\ j = k /\ kind = "call_ready" =>
              x \in FrameTokens(k, uplink) /\ x \notin FrameTokens(k, uplink')
    BY <1>1, ReadTokens
  <1>3. /\ LetterTokens(k, downlink') \subseteq LetterTokens(k, downlink) \cup {y}
        /\ j # k \/ kind = "call_answer" =>
              LetterTokens(k, downlink') \subseteq LetterTokens(k, downlink)
    BY <1>1, RelayedTokens
  <1>4. CASE j # k \/ kind = "call_answer"
    BY <1>1, <1>2, <1>3, <1>4 DEF Threads, Slides
  <1>5. CASE j = k /\ kind = "call_ready"
    <2>1. x[1] = "frame"
      OBVIOUS
    <2>2. x \in Threads(k) /\ x \notin Threads(k)'
      BY <1>2, <1>5, <2>1, TokenTags DEF Threads
    <2>3. Threads(k)' \subseteq Threads(k) \cup {y}
      BY <1>1, <1>2, <1>3 DEF Threads
    <2>4. QED
      BY <2>2, <2>3, OneForOne DEF Lone
  <1>6. QED
    BY <1>1, <1>4, <1>5

\* CheckOffer: the frame becomes a handler that has seen the peer's presence.
LEMMA CheckSlides ==
    ASSUME CallsTypeOK, NoTwins, Lone, NEW u \in Users, NEW j \in CallIds, CheckOffer(u, j),
           NEW k \in CallIds
    PROVE  Slides(Threads(k), Threads(k)')
  <1> DEFINE x == <<"frame", u>>
             y == <<"handling", u>>
  <1>1. /\ ReadFrame(u, j) /\ Head(uplink[u]).kind = "call_offer" /\ handling[u] = NoWork
        /\ handling' = [handling EXCEPT ![u] =
                [step |-> "offer", call |-> j, online |-> IsUserOnline(Other(u, j))]]
        /\ UNCHANGED <<promises, doorbell, bells, downlink>>
    BY ReadFrames DEF CheckOffer
  <1>2. /\ FrameTokens(k, uplink') \subseteq FrameTokens(k, uplink)
        /\ j = k => x \in FrameTokens(k, uplink) /\ x \notin FrameTokens(k, uplink')
    BY <1>1, ReadTokens
  <1>3. /\ \A v \in Users : v # u => handling'[v] = handling[v]
        /\ handling'[u].call = j
    BY <1>1 DEF CallsTypeOK
  <1>4. /\ OfferTokens(k, handling') \subseteq OfferTokens(k, handling) \cup {y}
        /\ j # k => OfferTokens(k, handling') \subseteq OfferTokens(k, handling)
    BY <1>3 DEF OfferTokens
  <1>5. CASE j # k
    BY <1>1, <1>2, <1>4, <1>5 DEF Threads, Slides
  <1>6. CASE j = k
    <2>1. x[1] = "frame"
      OBVIOUS
    <2>2. x \in Threads(k) /\ x \notin Threads(k)'
      BY <1>2, <1>6, <2>1, TokenTags DEF Threads
    <2>3. Threads(k)' \subseteq Threads(k) \cup {y}
      BY <1>1, <1>2, <1>4 DEF Threads
    <2>4. QED
      BY <2>2, <2>3, OneForOne DEF Lone
  <1>7. QED
    BY <1>5, <1>6

\* RegisterOffer: the handler becomes a letter or a push.
LEMMA RegisterSlides ==
    ASSUME CallsTypeOK, Lone, NEW u \in Users, RegisterOffer(u), NEW k \in CallIds
    PROVE  Slides(Threads(k), Threads(k)')
  <1> DEFINE j == handling[u].call
             x == <<"handling", u>>
             y == <<"letter", Other(u, j), "call_offer">>
             z == <<"bell", Other(u, j)>>
  <1>1. /\ handling[u].step = "offer" /\ handling' = [handling EXCEPT ![u] = NoWork]
        /\ \/ Relay(Other(u, j), "call_offer", j) /\ UNCHANGED bells
           \/ bells' = bells \cup {<<Other(u, j), j>>} /\ UNCHANGED downlink
        /\ UNCHANGED <<promises, doorbell, uplink>>
    BY DEF RegisterOffer, phoneVars
  <1>2. /\ \A v \in Users : v # u => handling'[v] = handling[v]
        /\ handling'[u].step = "none"
    BY <1>1 DEF CallsTypeOK, NoWork
  <1>3. /\ OfferTokens(k, handling') \subseteq OfferTokens(k, handling)
        /\ j = k => x \in OfferTokens(k, handling) /\ x \notin OfferTokens(k, handling')
    BY <1>1, <1>2 DEF OfferTokens
  <1>4. \/ /\ LetterTokens(k, downlink') \subseteq LetterTokens(k, downlink) \cup {y}
           /\ j # k => LetterTokens(k, downlink') \subseteq LetterTokens(k, downlink)
           /\ bells' = bells
        \/ /\ BellTokens(k, bells') \subseteq BellTokens(k, bells) \cup {z}
           /\ j # k => BellTokens(k, bells') \subseteq BellTokens(k, bells)
           /\ downlink' = downlink
    <2>1. CASE Relay(Other(u, j), "call_offer", j) /\ UNCHANGED bells
      BY <2>1, RelayedTokens
    <2>2. CASE bells' = bells \cup {<<Other(u, j), j>>} /\ UNCHANGED downlink
      BY <2>2 DEF BellTokens
    <2>3. QED
      BY <1>1, <2>1, <2>2
  <1> HIDE DEF j, y, z
  <1>5. CASE j # k
    BY <1>1, <1>3, <1>4, <1>5 DEF Threads, Slides
  <1>6. CASE j = k
    <2>1. x[1] = "handling"
      OBVIOUS
    <2>2. x \in Threads(k) /\ x \notin Threads(k)'
      BY <1>3, <1>6, <2>1, TokenTags DEF Threads
    <2>3. Threads(k)' \subseteq Threads(k) \cup {y} \/ Threads(k)' \subseteq Threads(k) \cup {z}
      <3>1. CASE /\ LetterTokens(k, downlink') \subseteq LetterTokens(k, downlink) \cup {y}
                 /\ bells' = bells
        <4>1. Threads(k)' \subseteq Threads(k) \cup {y}
          BY <1>1, <1>3, <3>1 DEF Threads
        <4>2. QED
          BY <4>1
      <3>2. CASE /\ BellTokens(k, bells') \subseteq BellTokens(k, bells) \cup {z}
                 /\ downlink' = downlink
        <4>1. Threads(k)' \subseteq Threads(k) \cup {z}
          BY <1>1, <1>3, <3>2 DEF Threads
        <4>2. QED
          BY <4>1
      <3>3. QED
        BY <1>4, <3>1, <3>2
    <2>4. QED
      BY <2>2, <2>3, OneForOne DEF Lone
  <1>7. QED
    BY <1>5, <1>6

\* startCall's offer becomes a frame.
LEMMA SettlingSlides ==
    ASSUME CallsTypeOK, NoTwins, Lone, NEW p \in promises, OfferMade(p), NEW k \in CallIds
    PROVE  Slides(Threads(k), Threads(k)')
  <1> DEFINE x == <<"promise", p.user, p.kind>>
             y == <<"frame", p.user>>
  <1>1. /\ p.user \in Users /\ p.call \in CallIds /\ p.kind \in Offering
        /\ promises' = promises \ {p}
        /\ Send(p.user, <<Say("call_offer", p.call)>>)
        /\ UNCHANGED <<doorbell, bells, downlink, handling>>
    BY DEF CallsTypeOK, Promise, OfferMade, Offering, serverVars
  <1>2. <<Say("call_offer", p.call)>> \in Seq(Frame)
    BY <1>1, SayIsFrame DEF Kinds
  <1>3. /\ FrameTokens(k, uplink') \subseteq FrameTokens(k, uplink) \cup {y}
        /\ p.call # k => FrameTokens(k, uplink') \subseteq FrameTokens(k, uplink)
    <2>1. p.call # k => ~ Has(<<Say("call_offer", p.call)>>, Signals(k))
      BY HasOne, SignalsOf
    <2>2. QED
      BY <1>1, <1>2, <2>1, SentTokens
  <1>4. /\ PromiseTokens(k, promises') \subseteq PromiseTokens(k, promises)
        /\ p.call = k => x \in PromiseTokens(k, promises) /\ x \notin PromiseTokens(k, promises')
    BY <1>1, SettledTokens
  <1>5. CASE p.call # k
    BY <1>1, <1>3, <1>4, <1>5 DEF Threads, Slides
  <1>6. CASE p.call = k
    <2>1. x[1] = "promise"
      OBVIOUS
    <2>2. x \in Threads(k) /\ x \notin Threads(k)'
      BY <1>4, <1>6, <2>1, TokenTags DEF Threads
    <2>3. Threads(k)' \subseteq Threads(k) \cup {y}
      BY <1>1, <1>3, <1>4 DEF Threads
    <2>4. QED
      BY <2>2, <2>3, OneForOne DEF Lone
  <1>7. QED
    BY <1>5, <1>6

\* The other promises offer nothing.
LEMMA PromisesSlide ==
    ASSUME CallsTypeOK, NEW p \in promises, AnswerMade(p) \/ RemoteAnswerSet(p) \/ PromiseFails(p),
           NEW k \in CallIds
    PROVE  Threads(k)' \subseteq Threads(k)
  <1> USE NoNewOffers
  <1>0. p.user \in Users /\ p.call \in CallIds
    BY DEF CallsTypeOK, Promise
  <1>1. CASE AnswerMade(p) \/ RemoteAnswerSet(p)
    <2>1. OffersFrom(promises')
      BY <1>1 DEF AnswerMade, RemoteAnswerSet
    <2>2. <<Say("call_answer", p.call)>> \in Seq(Frame)
      BY <1>0, SayIsFrame DEF Kinds
    <2>3. ~ Has(<<Say("call_answer", p.call)>>, Signals(k))
      BY HasOne, SignalsOf
    <2>4. /\ UNCHANGED uplink \/ Send(p.user, <<Say("call_answer", p.call)>>)
          /\ downlink' \subseteq downlink /\ UNCHANGED <<doorbell, bells, handling>>
      BY <1>1 DEF AnswerMade, RemoteAnswerSet, serverVars
    <2>5. QED
      BY <1>0, <2>1, <2>2, <2>3, <2>4, QuietSlides
  <1>2. CASE PromiseFails(p)
    <2>1. promises' = Cleaned(p.user) \ {p, [p EXCEPT !.stale = TRUE]}
      BY <1>2 DEF PromiseFails, HangUp, Close
    <2>2. OffersFrom(promises')
      BY <2>1
    <2>3. HangupFrames(p.user) \in Seq(Frame) /\ ~ Has(HangupFrames(p.user), Signals(k))
      BY <1>0, HangupFramesType, HangupsAreNoSignals
    <2>4. /\ UNCHANGED uplink \/ Send(p.user, HangupFrames(p.user))
          /\ downlink' \subseteq downlink /\ UNCHANGED <<doorbell, bells, handling>>
      BY <1>2 DEF PromiseFails, HangUp, serverVars
    <2>5. QED
      BY <1>0, <2>2, <2>3, <2>4, QuietSlides
  <1>3. QED
    BY <1>1, <1>2

\* A tap or a new socket answers the doorbell, or leaves it for later.
LEMMA FlushedTokens ==
    ASSUME CallsTypeOK, NEW u \in Users, NEW j, FlushPendingReady(u, j), NEW k
    PROVE  /\ FrameTokens(k, uplink') \subseteq FrameTokens(k, uplink) \cup {<<"frame", u>>}
           /\ j # k => FrameTokens(k, uplink') \subseteq FrameTokens(k, uplink)
           /\ None # k => TapTokens(k, doorbell') \subseteq TapTokens(k, doorbell)
                          /\ <<"doorbell", u>> \notin TapTokens(k, doorbell')
  <1>1. uplink \in [Users -> Seq(Frame)]
    BY DEF CallsTypeOK
  <1>2. \A v \in Users : v # u => uplink'[v] = uplink[v]
    BY <1>1 DEF FlushPendingReady
  <1>3. uplink'[u] = uplink[u] \/ uplink'[u] = Append(uplink[u], Say("call_ready", j))
    BY <1>1 DEF FlushPendingReady
  <1>4. FrameTokens(k, uplink') \subseteq FrameTokens(k, uplink) \cup {<<"frame", u>>}
    BY <1>2, GrownTokens
  <1>5. ASSUME j # k
        PROVE  FrameTokens(k, uplink') \subseteq FrameTokens(k, uplink)
    <2>1. Say("call_ready", j) \notin Signals(k)
      BY <1>5, SignalsOf
    <2>2. Has(uplink'[u], Signals(k)) => Has(uplink[u], Signals(k))
      <3>1. uplink[u] \in Seq(Frame)
        BY <1>1
      <3>2. Has(Append(uplink[u], Say("call_ready", j)), Signals(k)) => Has(uplink[u], Signals(k))
        BY <2>1, <3>1 DEF Has
      <3>3. QED
        BY <1>3, <3>2
    <2>3. QED
      BY <1>2, <2>2 DEF FrameTokens
  <1>6. ASSUME None # k
        PROVE  /\ TapTokens(k, doorbell') \subseteq TapTokens(k, doorbell)
               /\ <<"doorbell", u>> \notin TapTokens(k, doorbell')
    BY <1>6 DEF FlushPendingReady, TapTokens, CallsTypeOK
  <1>7. QED
    BY <1>4, <1>5, <1>6

\* TapDoorbell: the push becomes a call_ready or waits for a socket.
LEMMA TapSlides ==
    ASSUME CallsAssumption, CallsTypeOK, Lone, NEW u \in Users, NEW j \in CallIds,
           TapDoorbell(u, j), NEW k \in CallIds
    PROVE  Slides(Threads(k), Threads(k)')
  <1> DEFINE x == <<"bell", u>>
             y == <<"frame", u>>
             z == <<"doorbell", u>>
  <1>1. /\ <<u, j>> \in bells /\ bells' = bells \ {<<u, j>>}
        /\ UNCHANGED <<promises, downlink, handling>>
        /\ \/ FlushPendingReady(u, j)
           \/ doorbell' = [doorbell EXCEPT ![u] = j] /\ UNCHANGED uplink
    BY DEF TapDoorbell, serverVars
  <1>2. /\ BellTokens(k, bells') \subseteq BellTokens(k, bells)
        /\ j = k => x \in BellTokens(k, bells) /\ x \notin BellTokens(k, bells')
    BY <1>1 DEF BellTokens
  <1>3. None # k
    BY DEF CallsAssumption
  <1>4. \E w : /\ Threads(k)' \subseteq Threads(k) \cup {w}
               /\ j # k => Threads(k)' \subseteq Threads(k)
    <2>1. CASE FlushPendingReady(u, j)
      <3>1. /\ FrameTokens(k, uplink') \subseteq FrameTokens(k, uplink) \cup {y}
            /\ j # k => FrameTokens(k, uplink') \subseteq FrameTokens(k, uplink)
            /\ TapTokens(k, doorbell') \subseteq TapTokens(k, doorbell)
        BY <1>3, <2>1, FlushedTokens
      <3>2. UNCHANGED <<promises, downlink, handling>>
        BY <1>1
      <3>3. /\ Threads(k)' \subseteq Threads(k) \cup {y}
            /\ j # k => Threads(k)' \subseteq Threads(k)
        BY <1>2, <3>1, <3>2 DEF Threads
      <3>4. QED
        BY <3>3
    <2>2. CASE doorbell' = [doorbell EXCEPT ![u] = j] /\ UNCHANGED uplink
      <3>1. /\ TapTokens(k, doorbell') \subseteq TapTokens(k, doorbell) \cup {z}
            /\ j # k => TapTokens(k, doorbell') \subseteq TapTokens(k, doorbell)
        BY <2>2 DEF TapTokens, CallsTypeOK
      <3>2. UNCHANGED <<promises, downlink, handling>>
        BY <1>1
      <3>3. /\ Threads(k)' \subseteq Threads(k) \cup {z}
            /\ j # k => Threads(k)' \subseteq Threads(k)
        BY <1>2, <2>2, <3>1, <3>2 DEF Threads
      <3>4. QED
        BY <3>3
    <2>3. QED
      BY <1>1, <2>1, <2>2
  <1>5. CASE j # k
    BY <1>4, <1>5 DEF Slides
  <1>6. CASE j = k
    <2>1. x[1] = "bell"
      OBVIOUS
    <2>2. x \in Threads(k) /\ x \notin Threads(k)'
      BY <1>2, <1>6, <2>1, TokenTags DEF Threads
    <2>3. QED
      BY <1>4, <2>2, OneForOne DEF Lone
  <1>7. QED
    BY <1>5, <1>6

\* Reconnect: the tap that waited becomes a call_ready.
LEMMA ReconnectSlides ==
    ASSUME CallsAssumption, CallsTypeOK, Lone, NEW u \in Users, Reconnect(u), NEW k \in CallIds
    PROVE  Slides(Threads(k), Threads(k)')
  <1> DEFINE j == doorbell[u]
             x == <<"doorbell", u>>
             y == <<"frame", u>>
  <1>1. /\ UNCHANGED <<promises, bells, downlink, handling>>
        /\ \/ FlushPendingReady(u, j)
           \/ UNCHANGED <<uplink, doorbell>>
    BY DEF Reconnect, serverVars
  <1>2. None # k
    BY DEF CallsAssumption
  <1>3. CASE FlushPendingReady(u, j)
    <2>1. /\ FrameTokens(k, uplink') \subseteq FrameTokens(k, uplink) \cup {y}
          /\ j # k => FrameTokens(k, uplink') \subseteq FrameTokens(k, uplink)
          /\ TapTokens(k, doorbell') \subseteq TapTokens(k, doorbell)
          /\ x \notin TapTokens(k, doorbell')
      BY <1>2, <1>3, FlushedTokens
    <2>2. /\ Threads(k)' \subseteq Threads(k) \cup {y}
          /\ j # k => Threads(k)' \subseteq Threads(k)
      BY <1>1, <2>1 DEF Threads
    <2>3. CASE j # k
      BY <2>2, <2>3 DEF Slides
    <2>4. CASE j = k
      <3>1. x[1] = "doorbell"
        OBVIOUS
      <3>2. x \in TapTokens(k, doorbell)
        BY <2>4 DEF TapTokens
      <3>3. x \in Threads(k) /\ x \notin Threads(k)'
        BY <2>1, <3>1, <3>2, TokenTags DEF Threads
      <3>4. QED
        BY <2>2, <3>3, OneForOne DEF Lone
    <2>5. QED
      BY <2>3, <2>4
  <1>4. CASE UNCHANGED <<uplink, doorbell>>
    BY <1>1, <1>4 DEF Threads, Slides
  <1>5. QED
    BY <1>1, <1>3, <1>4

\* OnReady: a call_ready brings a new offer.
LEMMA ReadySlides ==
    ASSUME CallsTypeOK, Lone, NEW u \in Users, NEW j \in CallIds, OnReady(u, j), NEW k \in CallIds
    PROVE  Slides(Threads(k), Threads(k)')
  <1> DEFINE y == <<"promise", u, "reoffer">>
             x == <<"letter", u, "call_ready">>
  <1>1. Take(u, "call_ready", j) /\ UNCHANGED <<uplink, doorbell, bells, handling>>
    BY DEF OnReady, Take, serverVars
  <1>2. /\ LetterTokens(k, downlink') \subseteq LetterTokens(k, downlink)
        /\ j = k => x \in LetterTokens(k, downlink) /\ x \notin LetterTokens(k, downlink')
    BY <1>1, TakenTokens
  <1>3. /\ PromiseTokens(k, promises') \subseteq PromiseTokens(k, promises) \cup {y}
        /\ j # k => PromiseTokens(k, promises') \subseteq PromiseTokens(k, promises)
    <2>1. promises' = promises \/ promises' = Cleaned(u) \cup {Pending(u, "reoffer", j)}
      BY DEF OnReady, Begin, Close
    <2>2. CASE promises' = promises
      BY <2>2
    <2>3. CASE promises' = Cleaned(u) \cup {Pending(u, "reoffer", j)}
      <3>1. PromiseTokens(k, promises') \subseteq PromiseTokens(k, promises) \cup {y}
        BY <2>3, BegunTokens
      <3>2. j # k => PromiseTokens(k, promises') \subseteq PromiseTokens(k, promises)
        BY <2>3, BegunTokens
      <3>3. QED
        BY <3>1, <3>2
    <2>4. QED
      BY <2>1, <2>2, <2>3
  <1>4. /\ Threads(k)' \subseteq Threads(k) \cup {y}
        /\ j # k => Threads(k)' \subseteq Threads(k)
    BY <1>1, <1>2, <1>3 DEF Threads
  <1>5. CASE j # k
    BY <1>4, <1>5 DEF Slides
  <1>6. CASE j = k
    <2>1. x[1] = "letter"
      OBVIOUS
    <2>2. x \in Threads(k) /\ x \notin Threads(k)'
      BY <1>2, <1>6, <2>1, TokenTags DEF Threads
    <2>3. QED
      BY <1>4, <2>2, OneForOne DEF Lone
  <1>7. QED
    BY <1>5, <1>6

\* OnAnswer, OnHangUp and OnOffer begin nothing, and an offer that arrives is the last.
LEMMA LettersSlide ==
    ASSUME CallsTypeOK, NEW u \in Users, NEW j \in CallIds,
           OnOffer(u, j) \/ OnAnswer(u, j) \/ OnHangUp(u, j), NEW k \in CallIds
    PROVE  Threads(k)' \subseteq Threads(k)
  <1> USE NoNewOffers
  <1>1. downlink' \subseteq downlink /\ UNCHANGED <<doorbell, bells, handling>>
    BY DEF OnOffer, OnAnswer, OnHangUp, Take, serverVars
  <1>2. OffersFrom(promises')
    <2>1. \/ promises' = promises \/ promises' = Cleaned(u)
          \/ promises' = Cleaned(u) \cup {Pending(u, "auto", j)}
          \/ promises' = promises \cup {Pending(u, "remote", j)}
      BY DEF OnOffer, OnAnswer, HandleRemoteAnswer, OnHangUp, Begin, Close
    <2>2. QED
      BY <2>1 DEF Offering
  <1>3. UNCHANGED uplink \/ Send(u, <<Say("call_reject", j)>>)
    BY DEF OnOffer, OnAnswer, OnHangUp
  <1>4. QED
    BY <1>1, <1>2, <1>3, GoodbyesAreNoSignals, QuietSlides

\* The offer that reaches a phone was the thread.
LEMMA OfferArrives ==
    ASSUME CallsTypeOK, Lone, NEW u \in Users, NEW k \in CallIds, OnOffer(u, k)
    PROVE  Threads(k)' = {}
  <1> DEFINE x == <<"letter", u, "call_offer">>
  <1>1. Take(u, "call_offer", k)
    BY DEF OnOffer
  <1>2. x \in LetterTokens(k, downlink) /\ x \notin LetterTokens(k, downlink')
    BY <1>1, TakenTokens
  <1>3. x[1] = "letter"
    OBVIOUS
  <1>4. x \in Threads(k) /\ x \notin Threads(k)'
    BY <1>2, <1>3, TokenTags DEF Threads
  <1>5. Threads(k)' \subseteq Threads(k)
    BY LettersSlide
  <1>6. QED
    BY <1>4, <1>5 DEF Lone, Single

\* Neither do the server's other steps and a line that breaks.
LEMMA ServerSlides ==
    ASSUME CallsTypeOK, NoTwins, NEW u \in Users, NEW k \in CallIds,
           \/ PostMissed(u) \/ CheckLastConnection(u) \/ EndCall(u) \/ DropLine(u)
           \/ \E j \in CallIds : HandleHangUp(u, j) \/ CheckMissed(u, j)
    PROVE  Threads(k)' \subseteq Threads(k)
  <1>1. CASE PostMissed(u)
    <2>1. UNCHANGED <<promises, doorbell, bells, uplink, downlink>>
      BY <1>1 DEF PostMissed, phoneVars
    <2>2. OfferTokens(k, handling') \subseteq OfferTokens(k, handling)
      BY <1>1 DEF PostMissed, OfferTokens, CallsTypeOK, NoWork
    <2>3. QED
      BY <2>1, <2>2 DEF Threads
  <1>2. CASE CheckLastConnection(u)
    BY <1>2 DEF CheckLastConnection, phoneVars, serverVars, Threads
  <1>3. CASE EndCall(u)
    <2>1. UNCHANGED <<promises, doorbell, bells, uplink, handling>>
      BY <1>3 DEF EndCall, phoneVars
    <2>2. UNCHANGED downlink \/ Relay(table[u].peer, "call_hangup", table[u].call)
      BY <1>3 DEF EndCall
    <2>3. LetterTokens(k, downlink') \subseteq LetterTokens(k, downlink)
      BY <2>2, RelayedTokens
    <2>4. QED
      BY <2>1, <2>3 DEF Threads
  <1>4. CASE DropLine(u)
    <2>1. UNCHANGED <<promises, doorbell, bells, handling>>
      BY <1>4 DEF DropLine, phoneVars, serverVars
    <2>2. /\ downlink' \subseteq downlink
          /\ \A v \in Users : uplink'[v] = uplink[v] \/ uplink'[v] = <<>>
      BY <1>4 DEF DropLine, CallsTypeOK
    <2>3. LetterTokens(k, downlink') \subseteq LetterTokens(k, downlink)
      BY <2>2 DEF LetterTokens
    <2>4. FrameTokens(k, uplink') \subseteq FrameTokens(k, uplink)
      BY <2>2, HasNone DEF FrameTokens
    <2>5. QED
      BY <2>1, <2>3, <2>4 DEF Threads
  <1>5. ASSUME NEW j \in CallIds, HandleHangUp(u, j)
        PROVE  Threads(k)' \subseteq Threads(k)
    <2>1. ReadFrame(u, j) /\ UNCHANGED <<promises, doorbell, bells, handling>>
      BY <1>5, ReadFrames DEF HandleHangUp
    <2>2. PICK kind \in {"call_hangup", "call_reject"} : Relay(Other(u, j), kind, j)
      BY <1>5 DEF HandleHangUp
    <2>3. LetterTokens(k, downlink') \subseteq LetterTokens(k, downlink)
      BY <2>2, RelayedTokens
    <2>4. FrameTokens(k, uplink') \subseteq FrameTokens(k, uplink)
      BY <2>1, ReadTokens
    <2>5. QED
      BY <2>1, <2>3, <2>4 DEF Threads
  <1>6. ASSUME NEW j \in CallIds, CheckMissed(u, j)
        PROVE  Threads(k)' \subseteq Threads(k)
    <2>1. ReadFrame(u, j) /\ UNCHANGED <<promises, doorbell, bells, downlink>>
      BY <1>6, ReadFrames DEF CheckMissed
    <2>2. \/ handling' = handling
          \/ handling' = [handling EXCEPT ![u] = [step |-> "missed", call |-> j, online |-> FALSE]]
      BY <1>6 DEF CheckMissed
    <2>3. OfferTokens(k, handling') \subseteq OfferTokens(k, handling)
      <3>1. \A v \in Users : handling'[v].step = "offer" => handling'[v] = handling[v]
        BY <2>2 DEF CallsTypeOK
      <3>2. QED
        BY <3>1 DEF OfferTokens
    <2>4. FrameTokens(k, uplink') \subseteq FrameTokens(k, uplink)
      BY <2>1, ReadTokens
    <2>5. QED
      BY <2>1, <2>3, <2>4 DEF Threads
  <1>7. QED
    BY <1>1, <1>2, <1>3, <1>4, <1>5, <1>6

\* initiateCall begins the thread of a new call.
LEMMA InitiateBegins ==
    ASSUME CallsTypeOK, NEW u \in Users, NEW j \in CallIds, InitiateCall(u, j), NEW k \in CallIds
    PROVE  /\ j # k => Threads(k)' \subseteq Threads(k)
           /\ Threads(k) = {} => \E y : Threads(k)' \subseteq {y}
  <1> DEFINE y == <<"promise", u, "offer">>
  <1>1. /\ promises' = Cleaned(u) \cup {Pending(u, "offer", j)}
        /\ UNCHANGED <<doorbell, bells, uplink, downlink, handling>>
    BY DEF InitiateCall, Begin, Close, serverVars
  <1>2. PromiseTokens(k, promises') \subseteq PromiseTokens(k, promises) \cup {y}
    BY <1>1, BegunTokens
  <1>3. j # k => PromiseTokens(k, promises') \subseteq PromiseTokens(k, promises)
    BY <1>1, BegunTokens
  <1>4. /\ Threads(k)' \subseteq Threads(k) \cup {y}
        /\ j # k => Threads(k)' \subseteq Threads(k)
    BY <1>1, <1>2, <1>3 DEF Threads
  <1>5. QED
    BY <1>4

\* Whatever happens, the thread of a call moves by one step, but for the call that is made.
LEMMA ThreadsSlide ==
    ASSUME CallsAssumption, CallsTypeOK, NoTwins, Lone, [CallsNext]_callVars, NEW k \in CallIds,
           ~ \E u \in Users : InitiateCall(u, k)
    PROVE  Slides(Threads(k), Threads(k)')
  <1>1. Threads(k)' \subseteq Threads(k) => Slides(Threads(k), Threads(k)')
    BY DEF Slides
  <1>2. ASSUME NEW u \in Users, PhoneStep(u)
        PROVE  Slides(Threads(k), Threads(k)')
    <2>1. CASE \/ AcceptCall(u) \/ RejectCall(u) \/ ClickHangUp(u) \/ ConnectionFails(u)
               \/ RingTimeout(u) \/ ConnectingTimeout(u) \/ Commit(u)
      BY <1>1, <2>1, ClicksSlide
    <2>3. ASSUME NEW j \in CallIds, InitiateCall(u, j)
          PROVE  Slides(Threads(k), Threads(k)')
      BY <1>1, <2>3, InitiateBegins
    <2>4. ASSUME NEW j \in CallIds, TapDoorbell(u, j) \/ OnReady(u, j)
          PROVE  Slides(Threads(k), Threads(k)')
      BY <2>4, TapSlides, ReadySlides
    <2>5. ASSUME NEW j \in CallIds, OnOffer(u, j) \/ OnAnswer(u, j) \/ OnHangUp(u, j)
          PROVE  Slides(Threads(k), Threads(k)')
      BY <1>1, <2>5, LettersSlide
    <2>6. QED
      BY <1>2, <2>1, <2>3, <2>4, <2>5 DEF PhoneStep
  <1>3. ASSUME NEW p \in promises, PromiseStep(p)
        PROVE  Slides(Threads(k), Threads(k)')
    BY <1>1, <1>3, SettlingSlides, PromisesSlide DEF PromiseStep
  <1>4. ASSUME NEW u \in Users, ServerStep(u)
        PROVE  Slides(Threads(k), Threads(k)')
    <2>1. CASE RegisterOffer(u)
      BY <2>1, RegisterSlides
    <2>2. CASE \/ PostMissed(u) \/ CheckLastConnection(u) \/ EndCall(u)
               \/ \E j \in CallIds : HandleHangUp(u, j) \/ CheckMissed(u, j)
      BY <1>1, <2>2, ServerSlides
    <2>3. ASSUME NEW j \in CallIds, RelaySignal(u, j) \/ CheckOffer(u, j)
          PROVE  Slides(Threads(k), Threads(k)')
      BY <2>3, RelaySlides, CheckSlides
    <2>4. QED
      BY <1>4, <2>1, <2>2, <2>3 DEF ServerStep
  <1>5. ASSUME NEW u \in Users, DropLine(u) \/ Reconnect(u)
        PROVE  Slides(Threads(k), Threads(k)')
    BY <1>1, <1>5, ServerSlides, ReconnectSlides
  <1>6. CASE UNCHANGED callVars
    BY <1>1, <1>6 DEF callVars, Threads
  <1>7. QED
    BY <1>2, <1>3, <1>4, <1>5, <1>6 DEF CallsNext

----------------------------------------------------------------------------
(* What is said on the way to the server.                                  *)

\* The queue of v has gained no more than frames.
Gets(v, frames, F) ==
    /\ Has(uplink'[v], F) => Has(uplink[v], F) \/ Has(frames, F)
    /\ Once(uplink[v], F) /\ ~ Has(frames, F) => Once(uplink'[v], F)
    /\ Once(frames, F) /\ ~ Has(uplink[v], F) => Once(uplink'[v], F)

\* Why v says what it says: the timer, a promise, a tap, or nothing of interest.
Speech(v, frames) ==
    \/ \A k : /\ ~ Has(frames, Signals(k)) /\ ~ Has(frames, {Say("call_missed", k)})
              /\ ~ Has(frames, {Say("call_answer", k)})
    \/ /\ RingTimeout(v) /\ seen[v].call = ring[v] /\ phone'[v] = Idle
       /\ seen[v].status \in {"outgoing", "connecting"}
       /\ ring[v] \in CallIds
       /\ frames = <<Say("call_missed", ring[v]), Say("call_hangup", ring[v])>>
    \/ \E p \in promises : /\ p.user = v
                           /\ \/ OfferMade(p) /\ frames = <<Say("call_offer", p.call)>>
                              \/ AnswerMade(p) /\ frames = <<Say("call_answer", p.call)>>
    \/ \E j \in CallIds : /\ <<v, j>> \in bells \/ doorbell[v] = j
                          /\ frames = <<Say("call_ready", j)>>

\* Silence.
LEMMA Silence ==
    ASSUME NEW v, uplink'[v] = uplink[v] \/ uplink'[v] = <<>>
    PROVE  (\A F : Gets(v, <<>>, F)) /\ Speech(v, <<>>)
  <1>1. ASSUME NEW F
        PROVE  Gets(v, <<>>, F)
    <2>1. ~ Has(uplink[v], F) => Once(uplink[v], F)
      BY DEF Has, Once
    <2>2. QED
      BY <2>1, HasNone DEF Gets
  <1>2. QED
    BY <1>1, HasNone DEF Speech

\* A send.
LEMMA SendGets ==
    ASSUME CallsTypeOK, NEW u \in Users, NEW frames \in Seq(Frame), Send(u, frames)
    PROVE  \A F : Gets(u, frames, F)
  <1>1. ASSUME NEW F
        PROVE  Gets(u, frames, F)
    BY SentHas DEF Gets
  <1>2. QED
    BY <1>1

\* A call_ready that answers a tap.
LEMMA FlushGets ==
    ASSUME CallsTypeOK, NEW u \in Users, NEW j \in CallIds, FlushPendingReady(u, j)
    PROVE  \A F : Gets(u, <<Say("call_ready", j)>>, F)
  <1> DEFINE f == Say("call_ready", j)
  <1>1. ASSUME NEW F
        PROVE  Gets(u, <<f>>, F)
    <2>1. uplink[u] \in Seq(Frame) /\ f \in Frame /\ <<f>> \in Seq(Frame)
      BY SayIsFrame DEF CallsTypeOK, Kinds
    <2>2. uplink'[u] = uplink[u] \/ uplink'[u] = Append(uplink[u], f)
      BY DEF FlushPendingReady, CallsTypeOK
    <2> HIDE DEF f
    <2>3. Append(uplink[u], f) = uplink[u] \o <<f>>
      BY <2>1
    <2>4. /\ Has(uplink[u] \o <<f>>, F) => Has(uplink[u], F) \/ Has(<<f>>, F)
          /\ Once(uplink[u], F) /\ ~ Has(<<f>>, F) => Once(uplink[u] \o <<f>>, F)
          /\ Once(<<f>>, F) /\ ~ Has(uplink[u], F) => Once(uplink[u] \o <<f>>, F)
      BY <2>1, HasConcat
    <2>5. ~ Has(uplink[u], F) => Once(uplink[u], F)
      BY DEF Has, Once
    <2>6. QED
      BY <2>2, <2>3, <2>4, <2>5 DEF Gets
  <1>2. QED
    BY <1>1

\* The others keep their queues.
LEMMA OthersSilent ==
    ASSUME CallsTypeOK, NEW u \in Users, NEW v \in Users, v # u,
           \/ UNCHANGED uplink
           \/ \E frames \in Seq(Frame) : Send(u, frames)
           \/ \E j : FlushPendingReady(u, j)
    PROVE  uplink'[v] = uplink[v]
  <1>1. uplink \in [Users -> Seq(Frame)]
    BY DEF CallsTypeOK
  <1>2. QED
    BY <1>1, SentFrames DEF FlushPendingReady

\* Every step says one of these things.
LEMMA Speakers ==
    ASSUME CallsTypeOK, [CallsNext]_callVars, NEW v \in Users
    PROVE  \E frames : (\A F : Gets(v, frames, F)) /\ Speech(v, frames)
  <1> DEFINE Spoken == \E frames : (\A F : Gets(v, frames, F)) /\ Speech(v, frames)
             Dull(frames) == \A k : /\ ~ Has(frames, Signals(k))
                                    /\ ~ Has(frames, {Say("call_missed", k)})
                                    /\ ~ Has(frames, {Say("call_answer", k)})
  <1>1. uplink'[v] = uplink[v] \/ uplink'[v] = <<>> => Spoken
    BY Silence
  <1>2. ASSUME NEW frames \in Seq(Frame), Send(v, frames), Speech(v, frames)
        PROVE  Spoken
    BY <1>2, SendGets
  <1>3. \A frames : Dull(frames) => Speech(v, frames)
    BY DEF Speech
  <1>4. /\ HangupFrames(v) \in Seq(Frame) /\ Dull(HangupFrames(v))
        /\ \A j \in CallIds : /\ <<Say("call_reject", j)>> \in Seq(Frame)
                              /\ Dull(<<Say("call_reject", j)>>)
    <2>1. HangupFrames(v) \in Seq(Frame) /\ Dull(HangupFrames(v))
      BY HangupFramesType, HangupsAreNoSignals
    <2>2. ASSUME NEW j \in CallIds
          PROVE  <<Say("call_reject", j)>> \in Seq(Frame) /\ Dull(<<Say("call_reject", j)>>)
      BY GoodbyesAreNoSignals
    <2>3. QED
      BY <2>1, <2>2
  <1> SUFFICES Spoken
    OBVIOUS
  <1> HIDE DEF Spoken, Dull
  <1>5. ASSUME NEW u \in Users, PhoneStep(u)
        PROVE  Spoken
    <2>1. CASE v # u
      <3>1. \/ UNCHANGED uplink
            \/ \E frames \in Seq(Frame) : Send(u, frames)
            \/ \E j : FlushPendingReady(u, j)
        <4>1. \A j \in CallIds : /\ <<Say("call_reject", j)>> \in Seq(Frame)
                                 /\ <<Say("call_missed", j), Say("call_hangup", j)>> \in Seq(Frame)
          BY GoodbyesAreNoSignals
        <4>2. HangupFrames(u) \in Seq(Frame)
          BY HangupFramesType
        <4>3. seen[u].call \in MaybeCall /\ ring[u] \in MaybeCall
          BY DEF CallsTypeOK, Phone
        <4>4. CASE RejectCall(u) \/ ClickHangUp(u) \/ ConnectionFails(u) \/ RingTimeout(u)
          BY <4>1, <4>2, <4>3, <4>4 DEF RejectCall, ClickHangUp, ConnectionFails, HangUp, RingTimeout, MaybeCall
        <4>5. CASE AcceptCall(u) \/ ConnectingTimeout(u) \/ Commit(u) \/ \E j \in CallIds :
                      InitiateCall(u, j) \/ OnAnswer(u, j) \/ OnReady(u, j) \/ OnHangUp(u, j)
          BY <4>5 DEF AcceptCall, ConnectingTimeout, Commit, InitiateCall, OnAnswer, OnReady,
                               OnHangUp
        <4>6. ASSUME NEW j \in CallIds, TapDoorbell(u, j) \/ OnOffer(u, j)
              PROVE  \/ UNCHANGED uplink
                     \/ \E frames \in Seq(Frame) : Send(u, frames)
                     \/ \E i : FlushPendingReady(u, i)
          BY <4>1, <4>6 DEF TapDoorbell, OnOffer
        <4>7. QED
          BY <1>5, <4>4, <4>5, <4>6 DEF PhoneStep
      <3>2. QED
        BY <1>1, <2>1, <3>1, OthersSilent
    <2>2. CASE v = u
      <3>1. CASE RejectCall(u)
        <4>1. seen[u].call \in CallIds
          BY <3>1 DEF RejectCall, CallsTypeOK, Phone, MaybeCall
        <4>2. QED
          BY <1>2, <1>3, <1>4, <2>2, <3>1, <4>1 DEF RejectCall
      <3>2. CASE ClickHangUp(u) \/ ConnectionFails(u)
        BY <1>2, <1>3, <1>4, <2>2, <3>2 DEF ClickHangUp, ConnectionFails, HangUp
      <3>3. CASE RingTimeout(u)
        <4>1. ring[u] \in CallIds
          BY <3>3 DEF RingTimeout, CallsTypeOK, MaybeCall
        <4>2. CASE seen[u].status \in {"outgoing", "connecting"} /\ seen[u].call = ring[u]
          <5> DEFINE frames == <<Say("call_missed", ring[u]), Say("call_hangup", ring[u])>>
          <5>1. frames \in Seq(Frame)
            BY <4>1, GoodbyesAreNoSignals
          <5>2. Send(u, frames) /\ phone'[u] = Idle
            BY <3>3, <4>2 DEF RingTimeout, ResetState, CallsTypeOK
          <5>3. Speech(u, frames)
            BY <3>3, <4>1, <4>2, <5>2 DEF Speech
          <5> HIDE DEF frames
          <5>4. QED
            BY <1>2, <2>2, <5>1, <5>2, <5>3
        <4>3. CASE ~ (seen[u].status \in {"outgoing", "connecting"} /\ seen[u].call = ring[u])
          BY <1>1, <3>3, <4>3 DEF RingTimeout
        <4>4. QED
          BY <4>2, <4>3
      <3>4. CASE AcceptCall(u) \/ ConnectingTimeout(u) \/ Commit(u) \/ \E j \in CallIds :
                    InitiateCall(u, j) \/ OnAnswer(u, j) \/ OnReady(u, j) \/ OnHangUp(u, j)
        BY <1>1, <3>4 DEF AcceptCall, ConnectingTimeout, Commit, InitiateCall, OnAnswer, OnReady,
                               OnHangUp
      <3>5. ASSUME NEW j \in CallIds, TapDoorbell(u, j)
            PROVE  Spoken
        <4>1. CASE FlushPendingReady(u, j)
          <5>1. Speech(u, <<Say("call_ready", j)>>)
            BY <3>5 DEF Speech, TapDoorbell
          <5>2. QED
            BY <2>2, <4>1, <5>1, FlushGets DEF Spoken
        <4>2. CASE ~ FlushPendingReady(u, j)
          BY <1>1, <3>5, <4>2 DEF TapDoorbell
        <4>3. QED
          BY <4>1, <4>2
      <3>6. ASSUME NEW j \in CallIds, OnOffer(u, j)
            PROVE  Spoken
        <4>1. UNCHANGED uplink \/ Send(u, <<Say("call_reject", j)>>)
          BY <3>6 DEF OnOffer
        <4>2. QED
          BY <1>1, <1>2, <1>3, <1>4, <2>2, <4>1
      <3>7. QED
        BY <1>5, <3>1, <3>2, <3>3, <3>4, <3>5, <3>6 DEF PhoneStep
    <2>3. QED
      BY <2>1, <2>2
  <1>6. ASSUME NEW p \in promises, PromiseStep(p)
        PROVE  Spoken
    <2>1. /\ p.user \in Users /\ p.call \in CallIds
          /\ <<Say("call_offer", p.call)>> \in Seq(Frame)
          /\ <<Say("call_answer", p.call)>> \in Seq(Frame)
          /\ HangupFrames(p.user) \in Seq(Frame)
      <3>1. p.user \in Users /\ p.call \in CallIds
        BY DEF CallsTypeOK, Promise
      <3>2. Say("call_offer", p.call) \in Frame /\ Say("call_answer", p.call) \in Frame
        BY <3>1 DEF Say, Frame, Kinds
      <3>3. HangupFrames(p.user) \in Seq(Frame)
        BY <3>1, HangupFramesType
      <3>4. QED
        BY <3>1, <3>2, <3>3
    <2>2. CASE v # p.user
      <3>1. UNCHANGED uplink \/ \E frames \in Seq(Frame) : Send(p.user, frames)
        BY <1>6, <2>1 DEF PromiseStep, OfferMade, AnswerMade, RemoteAnswerSet, PromiseFails, HangUp
      <3>2. QED
        BY <1>1, <2>1, <2>2, <3>1, OthersSilent
    <2>3. CASE v = p.user
      <3>1. CASE OfferMade(p)
        <4>1. Send(v, <<Say("call_offer", p.call)>>)
          BY <2>3, <3>1 DEF OfferMade
        <4>2. Speech(v, <<Say("call_offer", p.call)>>)
          BY <2>3, <3>1 DEF Speech
        <4>3. QED
          BY <1>2, <2>1, <4>1, <4>2
      <3>2. CASE AnswerMade(p)
        <4>1. Send(v, <<Say("call_answer", p.call)>>)
          BY <2>3, <3>2 DEF AnswerMade
        <4>2. Speech(v, <<Say("call_answer", p.call)>>)
          BY <2>3, <3>2 DEF Speech
        <4>3. QED
          BY <1>2, <2>1, <4>1, <4>2
      <3>3. CASE RemoteAnswerSet(p) \/ PromiseFails(p)
        <4>1. UNCHANGED uplink \/ Send(v, HangupFrames(v))
          BY <2>3, <3>3 DEF RemoteAnswerSet, PromiseFails, HangUp
        <4>2. QED
          BY <1>1, <1>2, <1>3, <1>4, <4>1
      <3>4. QED
        BY <1>6, <3>1, <3>2, <3>3 DEF PromiseStep
    <2>4. QED
      BY <2>2, <2>3
  <1>7. ASSUME NEW u \in Users, ServerStep(u)
        PROVE  Spoken
    <2>1. UNCHANGED uplink \/ \E j \in CallIds : ReadFrame(u, j)
      BY <1>7 DEF ServerStep, RegisterOffer, PostMissed, CheckLastConnection, EndCall, RelaySignal,
                  HandleHangUp, CheckOffer, CheckMissed
    <2>2. ASSUME NEW j \in CallIds, ReadFrame(u, j)
          PROVE  Spoken
      <3>1. ASSUME NEW F
            PROVE  Gets(v, <<>>, F)
        <4>1. ~ Has(uplink[v], F) => Once(uplink[v], F)
          BY DEF Has, Once
        <4>2. QED
          BY <2>2, <4>1, HasNone, ReadHas DEF Gets
      <3>2. Speech(v, <<>>)
        BY HasNone DEF Speech
      <3>3. QED
        BY <3>1, <3>2 DEF Spoken
    <2>3. QED
      BY <1>1, <2>1, <2>2
  <1>8. ASSUME NEW u \in Users, DropLine(u)
        PROVE  Spoken
    BY <1>1, <1>8 DEF DropLine, CallsTypeOK
  <1>9. ASSUME NEW u \in Users, Reconnect(u)
        PROVE  Spoken
    <2>1. CASE doorbell[u] = None
      BY <1>1, <1>9, <2>1 DEF Reconnect
    <2>2. CASE doorbell[u] # None
      <3>1. doorbell[u] \in CallIds /\ FlushPendingReady(u, doorbell[u])
        BY <1>9, <2>2 DEF Reconnect, CallsTypeOK, MaybeCall
      <3>2. CASE v # u
        BY <1>1, <3>1, <3>2, OthersSilent
      <3>3. CASE v = u
        <4>1. Speech(u, <<Say("call_ready", doorbell[u])>>)
          BY <3>1 DEF Speech
        <4>2. QED
          BY <3>1, <3>3, <4>1, FlushGets DEF Spoken
      <3>4. QED
        BY <3>2, <3>3
    <2>3. QED
      BY <2>1, <2>2
  <1>10. CASE UNCHANGED callVars
    BY <1>1, <1>10 DEF callVars
  <1>11. QED
    BY <1>5, <1>6, <1>7, <1>8, <1>9, <1>10 DEF CallsNext

\* What it takes to say that a call was missed, to answer it, or to go on with it.
Means(v, frames, k) ==
    /\ Has(frames, {Say("call_missed", k)}) =>
       /\ RingTimeout(v) /\ seen[v].call = ring[v] /\ ring[v] = k /\ phone'[v] = Idle
       /\ seen[v].status \in {"outgoing", "connecting"}
    /\ Has(frames, {Say("call_answer", k)}) =>
       \E p \in promises : p.user = v /\ p.call = k /\ AnswerMade(p)
    /\ Has(frames, Signals(k)) =>
       \/ \E p \in promises : p.user = v /\ p.call = k /\ OfferMade(p)
       \/ \E j \in CallIds : j = k /\ (<<v, j>> \in bells \/ doorbell[v] = j)
    /\ Once(frames, Signals(k)) /\ Once(frames, {Say("call_missed", k)})

\* Nothing is said for another reason.
LEMMA SpeechMeans ==
    ASSUME NEW v, NEW frames, Speech(v, frames), NEW k
    PROVE  Means(v, frames, k)
  <1> USE DEF Means
  <1> DEFINE Missing == {Say("call_missed", k)}
             Answer == {Say("call_answer", k)}
  <1>0. \A F : ~ Has(frames, F) => Once(frames, F)
    BY DEF Has, Once
  <1>1. CASE /\ ~ Has(frames, Signals(k)) /\ ~ Has(frames, {Say("call_missed", k)})
             /\ ~ Has(frames, {Say("call_answer", k)})
    BY <1>0, <1>1
  <1>2. CASE /\ RingTimeout(v) /\ seen[v].call = ring[v] /\ phone'[v] = Idle
             /\ seen[v].status \in {"outgoing", "connecting"}
             /\ ring[v] \in CallIds
             /\ frames = <<Say("call_missed", ring[v]), Say("call_hangup", ring[v])>>
    <2> DEFINE m == Say("call_missed", ring[v])
               h == Say("call_hangup", ring[v])
    <2>1. m \notin Signals(k) /\ h \notin Signals(k) /\ m \notin Answer /\ h \notin Answer
      BY SignalsOf
    <2>2. h \notin Missing /\ (m \in Missing => ring[v] = k)
      BY SignalsOf
    <2>3. frames = <<m, h>>
      BY <1>2
    <2> HIDE DEF m, h, Missing, Answer
    <2>4. ~ Has(frames, Signals(k)) /\ ~ Has(frames, Answer)
      BY <2>1, <2>3, HasTwo
    <2>5. (Has(frames, Missing) => ring[v] = k) /\ Once(frames, Missing)
      BY <2>2, <2>3, HasTwo
    <2>6. QED
      BY <1>0, <1>2, <2>4, <2>5 DEF Missing, Answer
  <1>3. ASSUME NEW p \in promises, p.user = v, NEW kind \in {"call_offer", "call_answer"},
               kind = "call_offer" => OfferMade(p), kind = "call_answer" => AnswerMade(p),
               frames = <<Say(kind, p.call)>>
        PROVE  /\ ~ Has(frames, Missing)
               /\ Has(frames, Answer) => p.call = k /\ AnswerMade(p)
               /\ Has(frames, Signals(k)) => p.call = k /\ OfferMade(p)
               /\ Once(frames, Signals(k)) /\ Once(frames, Missing)
    <2> DEFINE m == Say(kind, p.call)
    <2>1. m \notin Missing /\ (m \in Answer => p.call = k /\ kind = "call_answer")
          /\ (m \in Signals(k) => p.call = k /\ kind = "call_offer")
      BY <1>3, SignalsOf
    <2>2. frames = <<m>>
      BY <1>3
    <2> HIDE DEF m, Missing, Answer
    <2>3. QED
      BY <1>3, <2>1, <2>2, HasOne
  <1>4. ASSUME NEW j \in CallIds, <<v, j>> \in bells \/ doorbell[v] = j,
               frames = <<Say("call_ready", j)>>
        PROVE  /\ ~ Has(frames, Missing) /\ ~ Has(frames, Answer)
               /\ Has(frames, Signals(k)) => j = k
               /\ Once(frames, Signals(k)) /\ Once(frames, Missing)
    <2> DEFINE m == Say("call_ready", j)
    <2>1. m \notin Missing /\ m \notin Answer /\ (m \in Signals(k) => j = k)
      BY SignalsOf
    <2>2. frames = <<m>>
      BY <1>4
    <2> HIDE DEF m, Missing, Answer
    <2>3. QED
      BY <2>1, <2>2, HasOne
  <1>5. CASE \E p \in promises : /\ p.user = v
                                 /\ \/ OfferMade(p) /\ frames = <<Say("call_offer", p.call)>>
                                    \/ AnswerMade(p) /\ frames = <<Say("call_answer", p.call)>>
    <2>1. PICK p \in promises : /\ p.user = v
                                /\ \/ OfferMade(p) /\ frames = <<Say("call_offer", p.call)>>
                                   \/ AnswerMade(p) /\ frames = <<Say("call_answer", p.call)>>
      BY <1>5
    <2>2. PICK kind \in {"call_offer", "call_answer"} :
             /\ kind = "call_offer" => OfferMade(p)
             /\ kind = "call_answer" => AnswerMade(p)
             /\ frames = <<Say(kind, p.call)>>
      BY <2>1
    <2>3. /\ ~ Has(frames, Missing)
          /\ Has(frames, Answer) => p.call = k /\ AnswerMade(p)
          /\ Has(frames, Signals(k)) => p.call = k /\ OfferMade(p)
          /\ Once(frames, Signals(k)) /\ Once(frames, Missing)
      BY <2>1, <2>2, <1>3
    <2>4. QED
      BY <2>1, <2>3
  <1>6. CASE \E j \in CallIds : /\ <<v, j>> \in bells \/ doorbell[v] = j
                                /\ frames = <<Say("call_ready", j)>>
    BY <1>4, <1>6
  <1>7. QED
    BY <1>1, <1>2, <1>5, <1>6 DEF Speech

----------------------------------------------------------------------------
(* The news that nobody answered is one thread too.                        *)

\* A no-answer timer is armed for the call that is made, or disarmed.
LEMMA RingsMove ==
    ASSUME CallsTypeOK, [CallsNext]_callVars, NEW v \in Users
    PROVE  \/ ring'[v] = ring[v] \/ ring'[v] = None
           \/ \E k \in CallIds : InitiateCall(v, k) /\ ring'[v] = k
  <1>0. ring \in [Users -> MaybeCall]
    BY DEF CallsTypeOK
  <1>1. ASSUME NEW u, UNCHANGED ring \/ ring' = [ring EXCEPT ![u] = None]
        PROVE  ring'[v] = ring[v] \/ ring'[v] = None
    BY <1>0, <1>1
  <1>2. ASSUME NEW u \in Users, PhoneStep(u)
        PROVE  \/ ring'[v] = ring[v] \/ ring'[v] = None
               \/ \E k \in CallIds : InitiateCall(v, k) /\ ring'[v] = k
    <2>1. CASE \E k \in CallIds : InitiateCall(u, k)
      BY <1>0, <2>1 DEF InitiateCall
    <2>2. CASE \/ AcceptCall(u) \/ RejectCall(u) \/ ClickHangUp(u) \/ ConnectionFails(u)
               \/ RingTimeout(u) \/ ConnectingTimeout(u) \/ Commit(u)
      BY <1>1, <2>2 DEF AcceptCall, RejectCall, ClickHangUp, ConnectionFails, HangUp, RingTimeout,
                        ConnectingTimeout, Commit, ResetState
    <2>3. ASSUME NEW k \in CallIds,
                 \/ TapDoorbell(u, k) \/ OnOffer(u, k) \/ OnAnswer(u, k) \/ OnReady(u, k)
                 \/ OnHangUp(u, k)
          PROVE  UNCHANGED ring \/ ring' = [ring EXCEPT ![u] = None]
      BY <2>3 DEF TapDoorbell, OnOffer, OnAnswer, OnReady, OnHangUp, ResetState
    <2>4. QED
      BY <1>1, <1>2, <2>1, <2>2, <2>3 DEF PhoneStep
  <1>3. ASSUME NEW p \in promises, PromiseStep(p)
        PROVE  ring'[v] = ring[v] \/ ring'[v] = None
    BY <1>1, <1>3 DEF PromiseStep, OfferMade, AnswerMade, RemoteAnswerSet, PromiseFails, HangUp,
                      ResetState
  <1>4. ASSUME NEW u \in Users, ServerStep(u) \/ DropLine(u) \/ Reconnect(u)
        PROVE  UNCHANGED ring
    BY <1>4 DEF ServerStep, RegisterOffer, PostMissed, CheckLastConnection, EndCall, RelaySignal,
                HandleHangUp, CheckOffer, CheckMissed, ReadFrame, DropLine, Reconnect, phoneVars
  <1>5. CASE UNCHANGED callVars
    BY <1>5 DEF callVars
  <1>6. QED
    BY <1>2, <1>3, <1>4, <1>5 DEF CallsNext

\* A handler of a missed call comes from its frame, a message from its handler.
LEMMA PostsMove ==
    ASSUME CallsTypeOK, [CallsNext]_callVars
    PROVE  /\ \A v \in Users : handling'[v].step = "missed" =>
              \/ handling'[v] = handling[v]
              \/ \E k \in CallIds : CheckMissed(v, k) /\ handling'[v].call = k
           /\ \/ posted' = posted
              \/ \E u \in Users : /\ PostMissed(u) /\ handling[u].step = "missed"
                                  /\ posted' = [posted EXCEPT ![handling[u].call] = @ + 1]
  <1> DEFINE Works == \A v \in Users : handling'[v].step = "missed" =>
                         \/ handling'[v] = handling[v]
                         \/ \E k \in CallIds : CheckMissed(v, k) /\ handling'[v].call = k
             Posts == \/ posted' = posted
                      \/ \E u \in Users : /\ PostMissed(u) /\ handling[u].step = "missed"
                                          /\ posted' = [posted EXCEPT ![handling[u].call] = @ + 1]
  <1>0. UNCHANGED <<handling, posted>> => Works /\ Posts
    OBVIOUS
  <1>1. ASSUME NEW u \in Users, PhoneStep(u)
        PROVE  Works /\ Posts
    <2>1. UNCHANGED <<handling, posted>>
      BY <1>1 DEF PhoneStep, AcceptCall, RejectCall, ClickHangUp, ConnectionFails, RingTimeout,
                  ConnectingTimeout, Commit,
                  InitiateCall, TapDoorbell, OnOffer, OnAnswer, OnReady, OnHangUp, Take,
                  serverVars, callHistory
    <2>2. QED
      BY <1>0, <2>1
  <1>2. ASSUME NEW p \in promises, PromiseStep(p)
        PROVE  Works /\ Posts
    <2>1. UNCHANGED <<handling, posted>>
      BY <1>2 DEF PromiseStep, OfferMade, AnswerMade, RemoteAnswerSet, PromiseFails,
                  serverVars, callHistory
    <2>2. QED
      BY <1>0, <2>1
  <1>3. ASSUME NEW u \in Users, DropLine(u) \/ Reconnect(u)
        PROVE  Works /\ Posts
    <2>1. UNCHANGED <<handling, posted>>
      BY <1>3 DEF DropLine, Reconnect, serverVars, callHistory
    <2>2. QED
      BY <1>0, <2>1
  <1>4. ASSUME NEW u \in Users, ServerStep(u)
        PROVE  Works /\ Posts
    <2>1. CASE RegisterOffer(u)
      <3>1. posted' = posted /\ handling' = [handling EXCEPT ![u] = NoWork]
        BY <2>1 DEF RegisterOffer, callHistory
      <3>2. QED
        BY <3>1 DEF CallsTypeOK, NoWork
    <2>2. CASE PostMissed(u)
      <3>1. /\ handling' = [handling EXCEPT ![u] = NoWork] /\ handling[u].step = "missed"
            /\ posted' = posted \/ posted' = [posted EXCEPT ![handling[u].call] = @ + 1]
        BY <2>2 DEF PostMissed
      <3>2. Works
        BY <3>1 DEF CallsTypeOK, NoWork
      <3>3. Posts
        BY <2>2, <3>1
      <3>4. QED
        BY <3>2, <3>3
    <2>3. CASE CheckLastConnection(u) \/ EndCall(u) \/ \E k \in CallIds :
                  RelaySignal(u, k) \/ HandleHangUp(u, k)
      <3>1. UNCHANGED <<handling, posted>>
        BY <2>3 DEF CheckLastConnection, EndCall, RelaySignal, HandleHangUp, serverVars, callHistory
      <3>2. QED
        BY <1>0, <3>1
    <2>4. ASSUME NEW k \in CallIds, CheckOffer(u, k)
          PROVE  Works /\ Posts
      <3>1. /\ posted' = posted
            /\ handling' = [handling EXCEPT ![u] =
                  [step |-> "offer", call |-> k, online |-> IsUserOnline(Other(u, k))]]
        BY <2>4 DEF CheckOffer
      <3>2. handling'[u].step = "offer" /\ \A v \in Users : v # u => handling'[v] = handling[v]
        BY <3>1 DEF CallsTypeOK
      <3>3. QED
        BY <3>1, <3>2
    <2>5. ASSUME NEW k \in CallIds, CheckMissed(u, k)
          PROVE  Works /\ Posts
      <3>1. /\ posted' = posted
            /\ \/ handling' = handling
               \/ handling' = [handling EXCEPT ![u] =
                     [step |-> "missed", call |-> k, online |-> FALSE]]
        BY <2>5 DEF CheckMissed
      <3>2. /\ handling' = handling \/ handling'[u].call = k
            /\ \A v \in Users : v # u => handling'[v] = handling[v]
        BY <3>1 DEF CallsTypeOK
      <3>3. Works
        BY <2>5, <3>2
      <3>4. QED
        BY <3>1, <3>3
    <2>6. QED
      BY <1>4, <2>1, <2>2, <2>3, <2>4, <2>5 DEF ServerStep
  <1>5. CASE UNCHANGED callVars
    BY <1>0, <1>5 DEF callVars
  <1>6. QED
    BY <1>1, <1>2, <1>3, <1>4, <1>5 DEF CallsNext

\* The timer gives way to the frame, the frame to the handler, the handler to the message.
LEMMA RegretsSlide ==
    ASSUME CallsAssumption, CallsTypeOK, NoTwins, Lone, CallersCall, [CallsNext]_callVars,
           NEW k \in CallIds, ~ \E u \in Users : InitiateCall(u, k)
    PROVE  Slides(Regrets(k), Regrets(k)')
  <1>1. None # k
    BY DEF CallsAssumption
  <1>2. TimerTokens(k, ring') \subseteq TimerTokens(k, ring)
    <2>1. \A v \in Users : ring'[v] = k => ring[v] = k
      BY <1>1, RingsMove
    <2>2. QED
      BY <2>1 DEF TimerTokens
  <1>3. ASSUME NEW v \in Users,
               Has(uplink'[v], {Say("call_missed", k)}), ~ Has(uplink[v], {Say("call_missed", k)})
        PROVE  /\ RingTimeout(v) /\ seen[v].call = ring[v] /\ ring[v] = k
               /\ seen[v].status \in {"outgoing", "connecting"}
    <2>1. PICK frames : (\A F : Gets(v, frames, F)) /\ Speech(v, frames)
      BY Speakers
    <2>2. Has(frames, {Say("call_missed", k)})
      BY <1>3, <2>1 DEF Gets
    <2>3. Speech(v, frames)
      BY <2>1
    <2>4. Means(v, frames, k)
      BY <2>3, SpeechMeans
    <2>5. QED
      BY <2>2, <2>4 DEF Means
  <1>4. CASE \E v \in Users : /\ RingTimeout(v) /\ seen[v].call = ring[v] /\ ring[v] = k
                              /\ seen[v].status \in {"outgoing", "connecting"}
    <2>1. PICK v \in Users : /\ RingTimeout(v) /\ seen[v].call = ring[v] /\ ring[v] = k
                             /\ seen[v].status \in {"outgoing", "connecting"}
      BY <1>4
    <2> DEFINE x == <<"timer", v>>
               y == <<"frame", v>>
    <2>2. UNCHANGED <<handling, posted>> /\ ring'[v] = None
      BY <2>1 DEF RingTimeout, ResetState, serverVars, callHistory, CallsTypeOK
    <2>3. \A u \in Users : u # v => uplink'[u] = uplink[u]
      <3>1. Send(v, <<Say("call_missed", k), Say("call_hangup", k)>>)
        BY <2>1 DEF RingTimeout
      <3>2. QED
        BY <3>1, GoodbyesAreNoSignals, OthersSilent
    <2>4. MissedTokens(k, uplink') \subseteq MissedTokens(k, uplink) \cup {y}
      BY <2>3 DEF MissedTokens
    <2>5. x \in TimerTokens(k, ring) /\ x \notin TimerTokens(k, ring')
      BY <1>1, <2>1, <2>2 DEF TimerTokens
    <2>6. x[1] = "timer"
      OBVIOUS
    <2>7. x \in Regrets(k) /\ x \notin Regrets(k)'
      BY <2>5, <2>6, TokenTags DEF Regrets
    <2>8. Regrets(k)' \subseteq Regrets(k) \cup {y}
      BY <1>2, <2>2, <2>4 DEF Regrets
    <2>9. QED
      BY <2>7, <2>8, OneForOne DEF Lone
  <1>5. CASE ~ \E v \in Users : /\ RingTimeout(v) /\ seen[v].call = ring[v] /\ ring[v] = k
                                /\ seen[v].status \in {"outgoing", "connecting"}
    <2>1. MissedTokens(k, uplink') \subseteq MissedTokens(k, uplink)
      BY <1>3, <1>5 DEF MissedTokens
    <2>2. CASE \E v \in Users : CheckMissed(v, k)
      <3>1. PICK v \in Users : CheckMissed(v, k)
        BY <2>2
      <3> DEFINE x == <<"frame", v>>
                 y == <<"handling", v>>
      <3>2. /\ ReadFrame(v, k) /\ Head(uplink[v]).kind = "call_missed"
            /\ handling' = handling \/ handling' = [handling EXCEPT ![v] =
                  [step |-> "missed", call |-> k, online |-> FALSE]]
            /\ UNCHANGED posted
        BY <3>1 DEF CheckMissed
      <3>3. Head(uplink[v]) \in {Say("call_missed", k)}
        BY <3>2, ReadFrames
      <3>4. Once(uplink[v], {Say("call_missed", k)})
        BY DEF NoTwins
      <3>5. Has(uplink[v], {Say("call_missed", k)}) /\ ~ Has(uplink'[v], {Say("call_missed", k)})
        BY <3>2, <3>3, <3>4, ReadHas
      <3>6. x \in MissedTokens(k, uplink) /\ x \notin MissedTokens(k, uplink')
        BY <3>5 DEF MissedTokens
      <3>7. PostTokens(k, handling') \subseteq PostTokens(k, handling) \cup {y}
        BY <3>2 DEF PostTokens, CallsTypeOK
      <3>8. x[1] = "frame"
        OBVIOUS
      <3>9. x \in Regrets(k) /\ x \notin Regrets(k)'
        BY <3>6, <3>8, TokenTags DEF Regrets
      <3>10. Regrets(k)' \subseteq Regrets(k) \cup {y}
        BY <1>2, <2>1, <3>2, <3>7 DEF Regrets
      <3>11. QED
        BY <3>9, <3>10, OneForOne DEF Lone
    <2>3. CASE ~ \E v \in Users : CheckMissed(v, k)
      <3>1. PostTokens(k, handling') \subseteq PostTokens(k, handling)
        BY <2>3, PostsMove DEF PostTokens
      <3>2. CASE \E u \in Users : /\ PostMissed(u) /\ handling[u].step = "missed"
                                  /\ handling[u].call = k
        <4>1. PICK u \in Users : /\ PostMissed(u) /\ handling[u].step = "missed"
                                 /\ handling[u].call = k
          BY <3>2
        <4> DEFINE x == <<"handling", u>>
                   y == <<"posted">>
        <4>2. handling'[u].step = "none"
          BY <4>1 DEF PostMissed, CallsTypeOK, NoWork
        <4>3. x \in PostTokens(k, handling) /\ x \notin PostTokens(k, handling')
          BY <4>1, <4>2 DEF PostTokens
        <4>4. x[1] = "handling"
          OBVIOUS
        <4>5. x \in Regrets(k) /\ x \notin Regrets(k)'
          BY <4>3, <4>4, TokenTags DEF Regrets
        <4>6. Regrets(k)' \subseteq Regrets(k) \cup {y}
          BY <1>2, <2>1, <3>1 DEF Regrets, PostedTokens
        <4>7. QED
          BY <4>5, <4>6, OneForOne DEF Lone
      <3>3. CASE ~ \E u \in Users : /\ PostMissed(u) /\ handling[u].step = "missed"
                                    /\ handling[u].call = k
        <4>1. posted'[k] = posted[k]
          BY <3>3, PostsMove DEF CallsTypeOK
        <4>2. Regrets(k)' \subseteq Regrets(k)
          BY <1>2, <2>1, <3>1, <4>1 DEF Regrets, PostedTokens
        <4>3. QED
          BY <4>2 DEF Slides
      <3>4. QED
        BY <3>2, <3>3
    <2>4. QED
      BY <2>2, <2>3
  <1>6. QED
    BY <1>4, <1>5

\* initiateCall arms the timer of the new call and may disarm that of an older one.
LEMMA InitiateRegrets ==
    ASSUME CallsTypeOK, NEW u \in Users, NEW j \in CallIds, InitiateCall(u, j), NEW k \in CallIds
    PROVE  /\ j # k => Regrets(k)' \subseteq Regrets(k)
           /\ Regrets(k) = {} => Regrets(k)' \subseteq {<<"timer", u>>}
  <1>1. /\ ring' = [ring EXCEPT ![u] = j]
        /\ UNCHANGED <<uplink, handling, posted>>
    BY DEF InitiateCall, serverVars, callHistory
  <1>2. /\ TimerTokens(k, ring') \subseteq TimerTokens(k, ring) \cup {<<"timer", u>>}
        /\ j # k => TimerTokens(k, ring') \subseteq TimerTokens(k, ring)
    BY <1>1 DEF TimerTokens, CallsTypeOK
  <1>3. QED
    BY <1>1, <1>2 DEF Regrets

\* Only a call that is made for the first time is begun.
LEMMA BegunIsUnused ==
    ASSUME NEW u \in Users, NEW k \in CallIds, InitiateCall(u, k), NothingUnused
    PROVE  /\ Threads(k) = {} /\ Regrets(k) = {} /\ ~ Reached(k) /\ k \notin talked
           /\ Caller[k] = u /\ k \in used' /\ seen[u].status = "idle"
  BY DEF InitiateCall, NothingUnused

----------------------------------------------------------------------------
(* What each step does to the promises and to the history.                 *)

\* A connection that is closed does not come to life again.
LEMMA CleanedLive ==
    ASSUME CallsTypeOK, NEW u \in Users, NEW p \in Cleaned(u)
    PROVE  /\ ~ p.stale => p \in promises /\ p.user # u
           /\ \E q \in promises : p.user = q.user /\ p.kind = q.kind /\ p.call = q.call
  <1>1. promises \in SUBSET Promise
    BY DEF CallsTypeOK
  <1>2. PICK q \in promises : /\ p.user = q.user /\ p.kind = q.kind /\ p.call = q.call
                              /\ p.user = u => p = [q EXCEPT !.stale = TRUE]
                              /\ p.user # u => p = q
    BY <1>1, CleanedPromises
  <1>3. [q EXCEPT !.stale = TRUE].stale = TRUE
    BY <1>1 DEF Promise
  <1>4. QED
    BY <1>2, <1>3

\* The promises stay, are closed, or are joined by one: the caller offers, the callee
\* answers what it sees or what it expects, and the caller sees the answer.
PromisesMove ==
    \/ promises' \subseteq promises
    \/ \E u \in Users : promises' \subseteq Cleaned(u)
    \/ \E u \in Users, k \in CallIds, w \in Offering :
          /\ promises' = Cleaned(u) \cup {Pending(u, w, k)}
          /\ ~ \E p \in promises : p.user = u /\ p.kind = w /\ p.call = k
    \/ \E u \in Users, k \in CallIds :
          /\ \/ seen[u] = Incoming(k) /\ promises' = Cleaned(u) \cup {Pending(u, "answer", k)}
             \/ OnOffer(u, k) /\ promises' = Cleaned(u) \cup {Pending(u, "auto", k)}
             \/ /\ OnAnswer(u, k) /\ seen[u] = Outgoing(k)
                /\ promises' = promises \cup {Pending(u, "remote", k)}

\* A letter of the thread leaves no offer of the call to come.
LEMMA LetterAlone ==
    ASSUME Lone, NEW u \in Users, NEW k \in CallIds,
           NEW kind \in {"call_offer", "call_ready"}, Take(u, kind, k)
    PROVE  ~ \E p \in promises : p.call = k /\ p.kind \in Offering
  <1>1. <<"letter", u, kind>> \in LetterTokens(k, downlink)
    <2>1. [to |-> u, kind |-> kind, call |-> k] \in downlink
      BY DEF Take
    <2>2. Say(kind, k) \in Signals(k)
      BY SignalsOf
    <2> DEFINE f == [to |-> u, kind |-> kind, call |-> k]
    <2>3. f \in downlink /\ Say(f.kind, f.call) \in Signals(k) /\ f.to = u /\ f.kind = kind
      BY <2>1, <2>2
    <2> HIDE DEF f
    <2>4. QED
      BY <2>3 DEF LetterTokens
  <1>2. ASSUME NEW p \in promises, p.call = k, p.kind \in Offering
        PROVE  FALSE
    <2>1. <<"promise", p.user, p.kind>> \in PromiseTokens(k, promises)
      BY <1>2 DEF PromiseTokens
    <2>2. <<"promise", p.user, p.kind>> = <<"letter", u, kind>>
      BY <1>1, <2>1 DEF Lone, Single, Threads
    <2>3. <<"promise", p.user, p.kind>>[1] = "promise" /\ <<"letter", u, kind>>[1] = "letter"
      OBVIOUS
    <2>4. QED
      BY <2>2, <2>3
  <1>3. QED
    BY <1>2

\* Every step moves the promises in one of these ways.
LEMMA PromisesAlwaysMove ==
    ASSUME CallsAssumption, CallsTypeOK, Lone, NothingUnused, [CallsNext]_callVars
    PROVE  PromisesMove
  <1>0. \A u \in Users : seen[u] \in Phone
    BY DEF CallsTypeOK
  <1>1. ASSUME NEW u \in Users, PhoneStep(u)
        PROVE  PromisesMove
    <2>1. CASE AcceptCall(u)
      <3>1. seen[u].call \in CallIds
        BY <1>0, <2>1 DEF AcceptCall, Phone, MaybeCall
      <3>2. seen[u] = Incoming(seen[u].call)
        BY <1>0, <2>1 DEF AcceptCall, Phone, Incoming
      <3>3. promises' = Cleaned(u) \cup {Pending(u, "answer", seen[u].call)}
        BY <2>1 DEF AcceptCall, Begin, Close
      <3>4. QED
        BY <3>1, <3>2, <3>3 DEF PromisesMove
    <2>2. CASE \/ RejectCall(u) \/ ClickHangUp(u) \/ ConnectionFails(u) \/ RingTimeout(u)
               \/ ConnectingTimeout(u) \/ Commit(u)
      BY <2>2 DEF RejectCall, ClickHangUp, ConnectionFails, HangUp, RingTimeout,
                  ConnectingTimeout, Commit, Close, PromisesMove
    <2>3. ASSUME NEW k \in CallIds, InitiateCall(u, k)
          PROVE  PromisesMove
      <3>1. Threads(k) = {}
        BY <2>3 DEF InitiateCall, NothingUnused
      <3>2. ASSUME NEW p \in promises, p.user = u, p.kind = "offer", p.call = k
            PROVE  FALSE
        <4>1. <<"promise", p.user, p.kind>> \in PromiseTokens(k, promises)
          BY <3>2 DEF PromiseTokens, Offering
        <4>2. QED
          BY <3>1, <4>1 DEF Threads
      <3>3. promises' = Cleaned(u) \cup {Pending(u, "offer", k)} /\ "offer" \in Offering
        BY <2>3 DEF InitiateCall, Begin, Close, Offering
      <3>4. QED
        BY <3>2, <3>3 DEF PromisesMove
    <2>4. ASSUME NEW k \in CallIds, TapDoorbell(u, k)
          PROVE  PromisesMove
      BY <2>4 DEF TapDoorbell, PromisesMove
    <2>5. ASSUME NEW k \in CallIds, OnOffer(u, k)
          PROVE  PromisesMove
      <3>1. promises' = promises \/ promises' = Cleaned(u) \cup {Pending(u, "auto", k)}
        BY <2>5 DEF OnOffer, Begin, Close
      <3>2. QED
        BY <2>5, <3>1 DEF PromisesMove
    <2>6. ASSUME NEW k \in CallIds, OnReady(u, k)
          PROVE  PromisesMove
      <3>1. ~ \E p \in promises : p.user = u /\ p.kind = "reoffer" /\ p.call = k
        BY <2>6, LetterAlone DEF OnReady, Offering
      <3>2. promises' = promises \/ promises' = Cleaned(u) \cup {Pending(u, "reoffer", k)}
        BY <2>6 DEF OnReady, Begin, Close
      <3>3. "reoffer" \in Offering
        BY DEF Offering
      <3>4. QED
        BY <3>1, <3>2, <3>3 DEF PromisesMove
    <2>7. ASSUME NEW k \in CallIds, OnAnswer(u, k)
          PROVE  PromisesMove
      <3>1. CASE seen[u].status = "outgoing" /\ seen[u].call = k
        <4>1. seen[u] = Outgoing(k)
          BY <1>0, <3>1 DEF Phone, Outgoing
        <4>2. promises' = promises \/ promises' = promises \cup {Pending(u, "remote", k)}
          BY <2>7, <3>1 DEF OnAnswer, HandleRemoteAnswer
        <4>3. QED
          BY <2>7, <4>1, <4>2 DEF PromisesMove
      <3>2. CASE ~ (seen[u].status = "outgoing" /\ seen[u].call = k)
        BY <2>7, <3>2 DEF OnAnswer, PromisesMove
      <3>3. QED
        BY <3>1, <3>2
    <2>8. ASSUME NEW k \in CallIds, OnHangUp(u, k)
          PROVE  PromisesMove
      BY <2>8 DEF OnHangUp, Close, PromisesMove
    <2>9. QED
      BY <1>1, <2>1, <2>2, <2>3, <2>4, <2>5, <2>6, <2>7, <2>8 DEF PhoneStep
  <1>2. ASSUME NEW p \in promises, PromiseStep(p)
        PROVE  PromisesMove
    <2>1. p.user \in Users
      BY DEF CallsTypeOK, Promise
    <2>2. promises' \subseteq promises \/ promises' \subseteq Cleaned(p.user)
      BY <1>2 DEF PromiseStep, OfferMade, AnswerMade, RemoteAnswerSet, PromiseFails, HangUp, Close
    <2>3. QED
      BY <2>1, <2>2 DEF PromisesMove
  <1>3. ASSUME NEW u \in Users, ServerStep(u) \/ DropLine(u) \/ Reconnect(u)
        PROVE  PromisesMove
    BY <1>3 DEF ServerStep, RegisterOffer, PostMissed, CheckLastConnection, EndCall, RelaySignal,
                HandleHangUp, CheckOffer, CheckMissed, ReadFrame, DropLine, Reconnect, phoneVars,
                PromisesMove
  <1>4. CASE UNCHANGED callVars
    BY <1>4 DEF callVars, PromisesMove
  <1>5. QED
    BY <1>1, <1>2, <1>3, <1>4 DEF CallsNext

\* No phone repeats a frame of a call: what it would repeat is all there is of the call.
LEMMA FramesStaySingle ==
    ASSUME CallsTypeOK, Lone, NoTwins, [CallsNext]_callVars, NEW v \in Users, NEW k \in CallIds
    PROVE  Once(uplink'[v], Signals(k)) /\ Once(uplink'[v], {Say("call_missed", k)})
  <1> DEFINE Missing == {Say("call_missed", k)}
  <1>1. PICK frames : (\A F : Gets(v, frames, F)) /\ Speech(v, frames)
    BY Speakers
  <1>2. Gets(v, frames, Signals(k)) /\ Gets(v, frames, Missing) /\ Speech(v, frames)
    BY <1>1
  <1>3. Once(uplink[v], Signals(k)) /\ Once(uplink[v], Missing)
    BY DEF NoTwins
  <1>4. Means(v, frames, k)
    BY <1>2, SpeechMeans
  <1>5. ASSUME Has(frames, Signals(k)), Has(uplink[v], Signals(k))
        PROVE  FALSE
    <2> DEFINE x == <<"frame", v>>
    <2>1. x \in FrameTokens(k, uplink)
      BY <1>5 DEF FrameTokens
    <2>2. x \in Threads(k)
      BY <2>1 DEF Threads
    <2>3. \/ \E p \in promises : p.user = v /\ p.call = k /\ OfferMade(p)
          \/ \E j \in CallIds : j = k /\ (<<v, j>> \in bells \/ doorbell[v] = j)
      BY <1>4, <1>5 DEF Means
    <2>4. ASSUME NEW p \in promises, p.call = k, OfferMade(p)
          PROVE  FALSE
      <3>1. p.kind \in Offering
        BY <2>4 DEF OfferMade, Offering
      <3>2. <<"promise", p.user, p.kind>> \in PromiseTokens(k, promises)
        BY <2>4, <3>1 DEF PromiseTokens
      <3>3. <<"promise", p.user, p.kind>> = x
        BY <2>2, <3>2 DEF Lone, Single, Threads
      <3>4. <<"promise", p.user, p.kind>>[1] = "promise" /\ x[1] = "frame"
        OBVIOUS
      <3>5. QED
        BY <3>3, <3>4
    <2>5. ASSUME <<v, k>> \in bells
          PROVE  FALSE
      <3>1. <<"bell", v>> \in BellTokens(k, bells)
        BY <2>5 DEF BellTokens
      <3>2. <<"bell", v>> = x
        BY <2>2, <3>1 DEF Lone, Single, Threads
      <3>3. QED
        BY <3>2
    <2>6. ASSUME doorbell[v] = k
          PROVE  FALSE
      <3>1. <<"doorbell", v>> \in TapTokens(k, doorbell)
        BY <2>6 DEF TapTokens
      <3>2. <<"doorbell", v>> = x
        BY <2>2, <3>1 DEF Lone, Single, Threads
      <3>3. QED
        BY <3>2
    <2>7. QED
      BY <2>3, <2>4, <2>5, <2>6
  <1>6. ASSUME Has(frames, Missing), Has(uplink[v], Missing)
        PROVE  FALSE
    <2>2. ring[v] = k
      BY <1>4, <1>6 DEF Means
    <2>3. <<"timer", v>> \in TimerTokens(k, ring) /\ <<"frame", v>> \in MissedTokens(k, uplink)
      BY <1>6, <2>2 DEF TimerTokens, MissedTokens
    <2>4. <<"timer", v>> = <<"frame", v>>
      BY <2>3 DEF Lone, Single, Regrets
    <2>5. QED
      BY <2>4
  <1>7. Once(frames, Signals(k)) /\ Once(frames, Missing)
    BY <1>4 DEF Means
  <1> HIDE DEF Missing
  <1>8. Once(uplink'[v], Signals(k)) /\ Once(uplink'[v], Missing)
    BY <1>2, <1>3, <1>5, <1>6, <1>7 DEF Gets
  <1>9. QED
    BY <1>8 DEF Missing

\* A new promise is of one of five kinds, and made for one call.
LEMMA PromisesFrom ==
    ASSUME CallsTypeOK, PromisesMove, NEW p \in promises'
    PROVE  \/ p \in promises
           \/ \E u \in Users : p \in Cleaned(u) /\ p \notin promises
           \/ p.kind \in Offering /\ ~ \E q \in promises :
                 q.user = p.user /\ q.kind = p.kind /\ q.call = p.call
           \/ p.user \in Users /\ p.call \in CallIds /\ ~ p.stale
              /\ \/ p.kind = "answer" /\ seen[p.user] = Incoming(p.call)
                 \/ p.kind = "auto" /\ OnOffer(p.user, p.call)
                 \/ p.kind = "remote" /\ OnAnswer(p.user, p.call) /\ seen[p.user] = Outgoing(p.call)
  <1>0. \A u, w, k : /\ Pending(u, w, k).user = u /\ Pending(u, w, k).kind = w
                     /\ Pending(u, w, k).call = k /\ ~ Pending(u, w, k).stale
    BY DEF Pending
  <1>1. CASE promises' \subseteq promises \/ \E u \in Users : promises' \subseteq Cleaned(u)
    BY <1>1
  <1>2. ASSUME NEW u \in Users, NEW k \in CallIds, NEW w \in Offering,
               promises' = Cleaned(u) \cup {Pending(u, w, k)},
               ~ \E q \in promises : q.user = u /\ q.kind = w /\ q.call = k
        PROVE  \/ p \in Cleaned(u)
               \/ p.kind \in Offering /\ ~ \E q \in promises :
                    q.user = p.user /\ q.kind = p.kind /\ q.call = p.call
    BY <1>0, <1>2
  <1>3. ASSUME NEW u \in Users, NEW k \in CallIds, seen[u] = Incoming(k),
               promises' = Cleaned(u) \cup {Pending(u, "answer", k)}, p \notin Cleaned(u)
        PROVE  p.user \in Users /\ p.call \in CallIds /\ ~ p.stale /\ p.kind = "answer"
               /\ seen[p.user] = Incoming(p.call)
    BY <1>0, <1>3
  <1>4. ASSUME NEW u \in Users, NEW k \in CallIds, OnOffer(u, k),
               promises' = Cleaned(u) \cup {Pending(u, "auto", k)}, p \notin Cleaned(u)
        PROVE  p.user \in Users /\ p.call \in CallIds /\ ~ p.stale /\ p.kind = "auto"
               /\ OnOffer(p.user, p.call)
    <2>1. p = Pending(u, "auto", k)
      BY <1>4
    <2>2. p.user = u /\ p.kind = "auto" /\ p.call = k /\ ~ p.stale
      BY <1>0, <2>1
    <2>3. QED
      BY <1>4, <2>2
  <1>5. ASSUME NEW u \in Users, NEW k \in CallIds, OnAnswer(u, k), seen[u] = Outgoing(k),
               promises' = promises \cup {Pending(u, "remote", k)}, p \notin promises
        PROVE  p.user \in Users /\ p.call \in CallIds /\ ~ p.stale /\ p.kind = "remote"
               /\ OnAnswer(p.user, p.call) /\ seen[p.user] = Outgoing(p.call)
    <2>1. p = Pending(u, "remote", k)
      BY <1>5
    <2>2. p.user = u /\ p.kind = "remote" /\ p.call = k /\ ~ p.stale
      BY <1>0, <2>1
    <2>3. QED
      BY <1>5, <2>2
  <1>6. QED
    BY <1>1, <1>2, <1>3, <1>4, <1>5 DEF PromisesMove

\* No offer of a call is to come twice.
LEMMA PromisesStaySingle ==
    ASSUME CallsTypeOK, NoTwins, PromisesMove, NEW p \in promises', NEW q \in promises',
           p.user = q.user, p.kind = q.kind, p.call = q.call, p.kind \in Offering
    PROVE  p = q
  <1>0. promises \in SUBSET Promise
    BY DEF CallsTypeOK
  <1>1. ASSUME NEW u \in Users, p \in Cleaned(u), q \in Cleaned(u)
        PROVE  p = q
    <2>1. PICK r \in promises : /\ p.user = r.user /\ p.kind = r.kind /\ p.call = r.call
                                /\ p.user = u => p = [r EXCEPT !.stale = TRUE]
                                /\ p.user # u => p = r
      BY <1>0, <1>1, CleanedPromises
    <2>2. PICK s \in promises : /\ q.user = s.user /\ q.kind = s.kind /\ q.call = s.call
                                /\ q.user = u => q = [s EXCEPT !.stale = TRUE]
                                /\ q.user # u => q = s
      BY <1>0, <1>1, CleanedPromises
    <2>3. r = s
      BY <2>1, <2>2 DEF NoTwins
    <2>4. QED
      BY <2>1, <2>2, <2>3
  <1>2. CASE promises' \subseteq promises
    BY <1>2 DEF NoTwins
  <1>3. CASE \E u \in Users : promises' \subseteq Cleaned(u)
    BY <1>1, <1>3
  <1>4. ASSUME NEW u \in Users, NEW k \in CallIds, NEW w \in Offering,
               promises' = Cleaned(u) \cup {Pending(u, w, k)},
               ~ \E r \in promises : r.user = u /\ r.kind = w /\ r.call = k
        PROVE  p = q
    <2>1. /\ Pending(u, w, k).user = u /\ Pending(u, w, k).kind = w
          /\ Pending(u, w, k).call = k
      BY DEF Pending
    <2>2. ~ \E r \in Cleaned(u) : r.user = u /\ r.kind = w /\ r.call = k
      BY <1>0, <1>4, CleanedPromises
    <2>3. p = Pending(u, w, k) <=> q = Pending(u, w, k)
      BY <1>4, <2>1, <2>2
    <2>4. QED
      BY <1>1, <1>4, <2>3
  <1>5. ASSUME NEW u \in Users, NEW k \in CallIds, NEW w \in {"answer", "auto"},
               promises' = Cleaned(u) \cup {Pending(u, w, k)}
        PROVE  p = q
    <2>1. Pending(u, w, k).kind = w /\ w \notin Offering
      BY DEF Pending, Offering
    <2>2. p \in Cleaned(u) /\ q \in Cleaned(u)
      BY <1>5, <2>1
    <2>3. QED
      BY <1>1, <2>2
  <1>6. ASSUME NEW u \in Users, NEW k \in CallIds,
               promises' = promises \cup {Pending(u, "remote", k)}
        PROVE  p = q
    <2>1. Pending(u, "remote", k).kind = "remote" /\ "remote" \notin Offering
      BY DEF Pending, Offering
    <2>2. p \in promises /\ q \in promises
      BY <1>6, <2>1
    <2>3. QED
      BY <2>2 DEF NoTwins
  <1>7. QED
    BY <1>2, <1>3, <1>4, <1>5, <1>6 DEF PromisesMove

\* So nothing of a call is there twice.
LEMMA TwinsStayAway ==
    ASSUME CallsTypeOK, Lone, NoTwins, PromisesMove, [CallsNext]_callVars
    PROVE  NoTwins'
  <1>1. \A u \in Users, k \in CallIds : /\ Once(uplink'[u], Signals(k))
                                        /\ Once(uplink'[u], {Say("call_missed", k)})
    BY FramesStaySingle
  <1>2. \A p, q \in promises' :
          p.user = q.user /\ p.kind = q.kind /\ p.call = q.call /\ p.kind \in Offering => p = q
    BY PromisesStaySingle
  <1>3. QED
    BY <1>1, <1>2 DEF NoTwins

\* The two threads of a call never fork.
LEMMA LoneStays ==
    ASSUME CallsAssumption, CallsTypeOK, CallersCall, NothingUnused, Lone, NoTwins,
           [CallsNext]_callVars
    PROVE  Lone'
  <1>1. ASSUME NEW k \in CallIds
        PROVE  Single(Threads(k)') /\ Single(Regrets(k)')
    <2>1. CASE ~ \E u \in Users : InitiateCall(u, k)
      <3>1. Slides(Threads(k), Threads(k)') /\ Slides(Regrets(k), Regrets(k)')
        BY <2>1, ThreadsSlide, RegretsSlide
      <3>2. Single(Threads(k)) /\ Single(Regrets(k))
        BY DEF Lone
      <3>3. QED
        BY <3>1, <3>2, SlidesStayLone
    <2>2. ASSUME NEW u \in Users, InitiateCall(u, k)
          PROVE  Single(Threads(k)') /\ Single(Regrets(k)')
      <3>1. Threads(k) = {} /\ Regrets(k) = {}
        BY <2>2, BegunIsUnused
      <3>2. Regrets(k)' \subseteq {<<"timer", u>>}
        BY <2>2, <3>1, InitiateRegrets
      <3>3. \E y : Threads(k)' \subseteq {y}
        BY <2>2, <3>1, InitiateBegins
      <3>4. QED
        BY <3>2, <3>3 DEF Single
    <2>3. QED
      BY <2>1, <2>2
  <1>2. ASSUME NEW k \in CallIds
        PROVE  posted'[k] <= 1
    <2>1. posted \in [CallIds -> Nat] /\ posted[k] <= 1
      BY DEF CallsTypeOK, Lone
    <2>2. CASE posted' = posted
      BY <2>1, <2>2
    <2>3. ASSUME NEW u \in Users, handling[u].step = "missed",
                 posted' = [posted EXCEPT ![handling[u].call] = @ + 1]
          PROVE  posted'[k] <= 1
      <3>1. CASE handling[u].call = k
        <4>1. <<"handling", u>> \in Regrets(k)
          BY <2>3, <3>1 DEF Regrets, PostTokens
        <4>2. posted[k] # 0 => <<"posted">> \in Regrets(k)
          BY DEF Regrets, PostedTokens
        <4>3. <<"handling", u>> # <<"posted">>
          OBVIOUS
        <4>4. posted[k] = 0
          BY <4>1, <4>2, <4>3 DEF Lone, Single
        <4>5. QED
          BY <2>1, <2>3, <3>1, <4>4
      <3>2. CASE handling[u].call # k
        BY <2>1, <2>3, <3>2
      <3>3. QED
        BY <3>1, <3>2
    <2>4. QED
      BY <2>2, <2>3, PostsMove
  <1>3. QED
    BY <1>1, <1>2 DEF Lone

\* A remote answer that waits to be set was waiting before, or has just come.
LEMMA RemotesMove ==
    ASSUME CallsTypeOK, PromisesMove, NEW p \in promises', p.kind = "remote"
    PROVE  \/ \E q \in promises : q.kind = "remote" /\ q.user = p.user /\ q.call = p.call
           \/ /\ p.user \in Users /\ p.call \in CallIds
              /\ OnAnswer(p.user, p.call) /\ seen[p.user] = Outgoing(p.call)
  <1>1. ASSUME NEW u \in Users, p \in Cleaned(u)
        PROVE  \E q \in promises : q.kind = "remote" /\ q.user = p.user /\ q.call = p.call
    BY <1>1, CleanedLive
  <1>2. p.kind \notin Offering
    BY DEF Offering
  <1>3. QED
    BY <1>1, <1>2, PromisesFrom

\* The answer to k is heard by v, which is in that call.
Hears(v, k) ==
    /\ phone[v].call = k
    /\ \/ OnAnswer(v, k) /\ seen[v] = Outgoing(k)
       \/ \E p \in promises : p.kind = "remote" /\ p.user = v /\ p.call = k

\* The history grows by the promises that settle and the answers that are heard.
LEMMA HistoryMoves ==
    ASSUME CallsTypeOK, [CallsNext]_callVars
    PROVE  /\ answered \subseteq answered'
           /\ \A p \in promises : AnswerMade(p) => p.call \in answered'
           /\ \A k \in talked' \ talked : \E u \in Users : Hears(u, k)
           /\ \/ used' = used
              \/ \E u \in Users, k \in CallIds : InitiateCall(u, k) /\ used' = used \cup {k}
  <1> DEFINE Grows == /\ answered \subseteq answered'
                      /\ \A k \in talked' \ talked : \E u \in Users : Hears(u, k)
                      /\ \/ used' = used
                         \/ \E u \in Users, k \in CallIds :
                               InitiateCall(u, k) /\ used' = used \cup {k}
  <1>0. UNCHANGED <<answered, talked, used>> => Grows
    OBVIOUS
  <1>t. ASSUME NEW u \in Users, NEW k, Talking(u, k), UNCHANGED <<answered, used>>,
               \/ OnAnswer(u, k) /\ seen[u] = Outgoing(k)
               \/ \E p \in promises : p.kind = "remote" /\ p.user = u /\ p.call = k
        PROVE  Grows
    <2>1. \A j \in talked' \ talked : j = k /\ phone[u].call = k
      BY <1>t DEF Talking
    <2>2. \A j \in talked' \ talked : Hears(u, j)
      BY <1>t, <2>1 DEF Hears
    <2>3. QED
      BY <1>t, <2>2
  <1> HIDE DEF Grows
  <1>1. ASSUME NEW u \in Users, PhoneStep(u)
        PROVE  Grows
    <2>1. ASSUME NEW k \in CallIds, InitiateCall(u, k)
          PROVE  Grows
      BY <2>1 DEF InitiateCall, callHistory, Grows
    <2>2. ASSUME NEW k \in CallIds, OnAnswer(u, k)
          PROVE  Grows
      <3>1. UNCHANGED <<answered, used>>
        BY <2>2 DEF OnAnswer, Take
      <3>2. CASE UNCHANGED talked
        BY <1>0, <3>1, <3>2
      <3>3. CASE talked' # talked
        <4>1. seen[u].status = "outgoing" /\ seen[u].call = k /\ Talking(u, k)
          BY <2>2, <3>3 DEF OnAnswer, HandleRemoteAnswer
        <4>2. seen[u] = Outgoing(k)
          BY <4>1 DEF Outgoing, CallsTypeOK, Phone
        <4>3. QED
          BY <1>t, <2>2, <3>1, <4>1, <4>2
      <3>4. QED
        BY <3>2, <3>3
    <2>3. CASE ~ \E k \in CallIds : InitiateCall(u, k) \/ OnAnswer(u, k)
      <3>1. UNCHANGED <<answered, talked, used>>
        BY <1>1, <2>3 DEF PhoneStep, AcceptCall, RejectCall, ClickHangUp, ConnectionFails,
             RingTimeout, ConnectingTimeout, Commit, TapDoorbell, OnOffer, OnReady, OnHangUp,
             Take, callHistory
      <3>2. QED
        BY <1>0, <3>1
    <2>4. QED
      BY <2>1, <2>2, <2>3
  <1>2. ASSUME NEW p \in promises, PromiseStep(p)
        PROVE  Grows
    <2>1. CASE RemoteAnswerSet(p)
      <3>1. p.user \in Users
        BY DEF CallsTypeOK, Promise
      <3>2. Talking(p.user, p.call) /\ p.kind = "remote" /\ UNCHANGED <<answered, used>>
        BY <2>1 DEF RemoteAnswerSet
      <3>3. QED
        BY <1>t, <3>1, <3>2
    <2>2. CASE OfferMade(p) \/ AnswerMade(p) \/ PromiseFails(p)
      BY <2>2 DEF OfferMade, AnswerMade, PromiseFails, callHistory, Grows
    <2>3. QED
      BY <1>2, <2>1, <2>2 DEF PromiseStep
  <1>3. ASSUME NEW u \in Users, ServerStep(u) \/ DropLine(u) \/ Reconnect(u)
        PROVE  Grows
    <2>1. UNCHANGED <<answered, talked, used>>
      BY <1>3 DEF ServerStep, RegisterOffer, PostMissed, CheckLastConnection, EndCall, RelaySignal,
                  HandleHangUp, CheckOffer, CheckMissed, ReadFrame, DropLine, Reconnect, callHistory
    <2>2. QED
      BY <1>0, <2>1
  <1>4. ASSUME UNCHANGED callVars
        PROVE  Grows
    BY <1>0, <1>4 DEF callVars
  <1>5. Grows
    BY <1>1, <1>2, <1>3, <1>4 DEF CallsNext
  <1>6. ASSUME NEW p \in promises, AnswerMade(p)
        PROVE  p.call \in answered'
    BY <1>6 DEF AnswerMade
  <1>7. \A p \in promises : AnswerMade(p) => p.call \in answered'
    BY <1>6
  <1>8. QED
    BY <1>5, <1>7 DEF Grows

\* A letter with an answer was there before or is relayed from its frame.
LEMMA AnswersMove ==
    ASSUME CallsTypeOK, [CallsNext]_callVars, NEW f \in downlink', f.kind = "call_answer"
    PROVE  f \in downlink \/ \E u \in Users : Says(u, "call_answer", f.call)
  <1>0. ASSUME NEW v, NEW kind, NEW j, Relay(v, kind, j)
        PROVE  f \in downlink \/ (f.kind = kind /\ f.call = j)
    BY <1>0 DEF Relay
  <1>1. ASSUME NEW u \in Users, PhoneStep(u)
        PROVE  downlink' \subseteq downlink
    BY <1>1 DEF PhoneStep, AcceptCall, RejectCall, ClickHangUp, ConnectionFails, RingTimeout,
                ConnectingTimeout, Commit, InitiateCall, TapDoorbell, OnOffer, OnAnswer, OnReady,
                OnHangUp, Take
  <1>2. ASSUME NEW p \in promises, PromiseStep(p)
        PROVE  downlink' \subseteq downlink
    BY <1>2 DEF PromiseStep, OfferMade, AnswerMade, RemoteAnswerSet, PromiseFails
  <1>3. ASSUME NEW u \in Users, DropLine(u) \/ Reconnect(u)
        PROVE  downlink' \subseteq downlink
    BY <1>3 DEF DropLine, Reconnect
  <1>4. ASSUME NEW u \in Users, ServerStep(u)
        PROVE  f \in downlink \/ \E v \in Users : Says(v, "call_answer", f.call)
    <2>1. CASE PostMissed(u) \/ CheckLastConnection(u)
      BY <2>1 DEF PostMissed, CheckLastConnection
    <2>2. CASE RegisterOffer(u)
      <3>1. UNCHANGED downlink \/ Relay(Other(u, handling[u].call), "call_offer", handling[u].call)
        BY <2>2 DEF RegisterOffer
      <3>2. QED
        BY <1>0, <3>1
    <2>3. CASE EndCall(u)
      <3>1. UNCHANGED downlink \/ Relay(table[u].peer, "call_hangup", table[u].call)
        BY <2>3 DEF EndCall
      <3>2. QED
        BY <1>0, <3>1
    <2>4. ASSUME NEW k \in CallIds, CheckOffer(u, k) \/ CheckMissed(u, k)
          PROVE  f \in downlink
      BY <2>4 DEF CheckOffer, CheckMissed
    <2>5. ASSUME NEW k \in CallIds, HandleHangUp(u, k)
          PROVE  f \in downlink
      <3>1. /\ Relay(Other(u, k), Head(uplink[u]).kind, k)
            /\ Head(uplink[u]).kind \in {"call_hangup", "call_reject"}
        BY <2>5 DEF HandleHangUp
      <3>2. QED
        BY <1>0, <3>1
    <2>6. ASSUME NEW k \in CallIds, RelaySignal(u, k)
          PROVE  f \in downlink \/ Says(u, "call_answer", f.call)
      <3>1. Relay(Other(u, k), Head(uplink[u]).kind, k) /\ ReadFrame(u, k)
        BY <2>6 DEF RelaySignal
      <3>2. CASE f \notin downlink
        <4>1. Head(uplink[u]).kind = "call_answer" /\ f.call = k
          BY <1>0, <3>1, <3>2
        <4>2. Head(uplink[u]) \in {Say("call_answer", k)}
          BY <3>1, <4>1, ReadFrames
        <4>3. Has(uplink[u], {Say("call_answer", k)})
          BY <3>1, <4>2, ReadHas
        <4>4. QED
          BY <4>1, <4>3 DEF Says
      <3>3. QED
        BY <3>2
    <2>7. QED
      BY <1>4, <2>1, <2>2, <2>3, <2>4, <2>5, <2>6 DEF ServerStep
  <1>5. CASE UNCHANGED callVars
    BY <1>5 DEF callVars
  <1>6. QED
    BY <1>1, <1>2, <1>3, <1>4, <1>5 DEF CallsNext

\* An answer that reaches a phone was under way.
LEMMA AnswerArrives ==
    ASSUME NEW u, NEW k, OnAnswer(u, k)
    PROVE  Answers(k)
  <1> DEFINE f == [to |-> u, kind |-> "call_answer", call |-> k]
  <1>1. f \in downlink /\ f.kind = "call_answer" /\ f.call = k
    BY DEF OnAnswer, Take
  <1> HIDE DEF f
  <1>2. QED
    BY <1>1 DEF Answers

\* So was one that is heard.
LEMMA HeardAnswers ==
    ASSUME NEW u, NEW k, Hears(u, k)
    PROVE  Answers(k)
  <1>1. (\E p \in promises : p.kind = "remote" /\ p.user = u /\ p.call = k) => Answers(k)
    BY DEF Answers
  <1>2. QED
    BY <1>1, AnswerArrives DEF Hears

\* An answer is under way when it was before or is made now.
LEMMA AnswersFrom ==
    ASSUME CallsTypeOK, PromisesMove, [CallsNext]_callVars, NEW k \in CallIds, Answers(k)'
    PROVE  Answers(k) \/ \E p \in promises : p.call = k /\ AnswerMade(p)
  <1>1. ASSUME NEW p \in promises', p.kind = "remote", p.call = k
        PROVE  Answers(k)
    <2>1. CASE \E q \in promises : q.kind = "remote" /\ q.call = k
      BY <2>1 DEF Answers
    <2>2. CASE OnAnswer(p.user, k)
      BY <2>2, AnswerArrives
    <2>3. QED
      BY <1>1, <2>1, <2>2, RemotesMove
  <1>2. ASSUME NEW f \in downlink', f.kind = "call_answer", f.call = k
        PROVE  Answers(k)
    BY <1>2, AnswersMove DEF Answers
  <1>3. ASSUME NEW u \in Users, Has(uplink'[u], {Say("call_answer", k)})
        PROVE  Answers(k) \/ \E p \in promises : p.call = k /\ AnswerMade(p)
    <2> DEFINE Answer == {Say("call_answer", k)}
    <2>1. PICK frames : (\A F : Gets(u, frames, F)) /\ Speech(u, frames)
      BY Speakers
    <2>2. Gets(u, frames, Answer) /\ Means(u, frames, k)
      BY <2>1, SpeechMeans
    <2>3. CASE Has(uplink[u], Answer)
      BY <2>3 DEF Answers, Says
    <2>4. CASE Has(frames, Answer)
      BY <2>2, <2>4 DEF Means
    <2> HIDE DEF Answer
    <2>5. Has(uplink'[u], Answer)
      BY <1>3 DEF Answer
    <2>6. QED
      BY <2>2, <2>3, <2>4, <2>5 DEF Gets
  <1>4. \/ \E p \in promises' : p.kind = "remote" /\ p.call = k
        \/ \E f \in downlink' : f.kind = "call_answer" /\ f.call = k
        \/ \E u \in Users : Has(uplink'[u], {Say("call_answer", k)})
    BY DEF Answers, Says, Say
  <1>5. QED
    BY <1>1, <1>2, <1>3, <1>4

\* The offer reaches the callee's phone as a letter.
LEMMA ReachedMoves ==
    ASSUME CallsTypeOK, PromisesMove, [CallsNext]_callVars, NEW k \in CallIds, Reached(k)'
    PROVE  Reached(k) \/ \E u \in Users : OnOffer(u, k)
  <1>1. ASSUME NEW u \in Users, phone'[u] = Incoming(k)
        PROVE  phone[u] = Incoming(k) \/ OnOffer(u, k)
    <2>1. PhoneMoves(u)
      BY PhonesMove
    <2>2. phone'[u].status = "incoming" /\ phone'[u].call = k /\ Idle.status = "idle"
      BY <1>1 DEF Incoming, Idle
    <2>3. \A j : /\ phone'[u] # [status |-> "outgoing", call |-> j]
                 /\ phone'[u] # [status |-> "connecting", call |-> j]
                 /\ phone'[u] = [status |-> "incoming", call |-> j] => j = k
      BY <2>2
    <2>4. QED
      BY <1>1, <2>1, <2>2, <2>3 DEF PhoneMoves
  <1>2. ASSUME NEW u \in Users, phone'[u] = Incoming(k) \/ seen'[u] = Incoming(k)
        PROVE  Reached(k) \/ OnOffer(u, k)
    BY <1>1, <1>2, CopiesMove DEF Reached
  <1>3. ASSUME NEW p \in promises', p.kind \in {"answer", "auto"}, p.call = k
        PROVE  Reached(k) \/ \E u \in Users : OnOffer(u, k)
    <2>1. p.kind \notin Offering /\ p.kind # "remote"
      BY <1>3 DEF Offering
    <2>2. CASE p \in promises
      BY <1>3, <2>2 DEF Reached
    <2>3. ASSUME NEW u \in Users, p \in Cleaned(u)
          PROVE  Reached(k)
      <3>1. PICK q \in promises : p.user = q.user /\ p.kind = q.kind /\ p.call = q.call
        BY <2>3, CleanedLive
      <3>2. QED
        BY <1>3, <3>1 DEF Reached
    <2>4. CASE p.user \in Users /\ seen[p.user] = Incoming(k)
      BY <2>4 DEF Reached
    <2>5. CASE p.user \in Users /\ OnOffer(p.user, k)
      BY <2>5
    <2>6. QED
      BY <1>3, <2>1, <2>2, <2>3, <2>4, <2>5, PromisesFrom
  <1>4. ASSUME NEW p \in promises, AnswerMade(p), p.call = k
        PROVE  Reached(k)
    BY <1>4 DEF AnswerMade, Reached
  <1>5. CASE Answers(k)'
    <2>1. Answers(k) => Reached(k)
      BY DEF Reached
    <2>2. QED
      BY <1>4, <1>5, <2>1, AnswersFrom
  <1>6. \/ \E u \in Users : phone'[u] = Incoming(k) \/ seen'[u] = Incoming(k)
        \/ \E p \in promises' : p.kind \in {"answer", "auto"} /\ p.call = k
        \/ Answers(k)'
    BY DEF Reached, Incoming
  <1>7. QED
    BY <1>2, <1>3, <1>5, <1>6

----------------------------------------------------------------------------
(* The invariant holds.                                                    *)

\* A phone that calls has made the call, now or before.
LEMMA OutgoingMoves ==
    ASSUME CallsTypeOK, [CallsNext]_callVars, NEW u \in Users, NEW k \in CallIds,
           phone'[u] = Outgoing(k)
    PROVE  phone'[u] = phone[u] \/ InitiateCall(u, k)
  <1>1. phone'[u].status = "outgoing" /\ phone'[u].call = k
    BY DEF Outgoing
  <1>2. Idle.status = "idle"
    BY DEF Idle
  <1>3. \A j : /\ phone'[u] # [status |-> "incoming", call |-> j]
               /\ phone'[u] # [status |-> "connecting", call |-> j]
               /\ phone'[u] = [status |-> "outgoing", call |-> j] => j = k
    BY <1>1
  <1>4. PhoneMoves(u)
    BY PhonesMove
  <1>5. QED
    BY <1>1, <1>2, <1>3, <1>4 DEF PhoneMoves

\* An offer that arrives and a push are tokens of their thread.
LEMMA EntersByToken ==
    ASSUME CallsTypeOK, NEW u \in Users, NEW k \in CallIds, OnOffer(u, k) \/ Tapped(u, k)
    PROVE  Threads(k) # {}
  <1>1. CASE OnOffer(u, k)
    <2>1. Take(u, "call_offer", k)
      BY <1>1 DEF OnOffer
    <2>2. <<"letter", u, "call_offer">> \in LetterTokens(k, downlink)
      BY <2>1, TakenTokens
    <2>3. QED
      BY <2>2 DEF Threads
  <1>2. CASE Tapped(u, k)
    <2>1. <<"bell", u>> \in BellTokens(k, bells) \/ <<"doorbell", u>> \in TapTokens(k, doorbell)
      BY <1>2, TokensAre DEF Tapped
    <2>2. QED
      BY <2>1 DEF Threads
  <1>3. QED
    BY <1>1, <1>2

\* Only the caller calls, only its timer is armed, and the answer is for the caller, which
\* has disarmed it.
LEMMA CallersStay ==
    ASSUME CallsAssumption, CallsTypeOK, CallersCall, NothingUnused, PromisesMove,
           [CallsNext]_callVars
    PROVE  CallersCall'
  <1>0. \A k \in CallIds : None # k
    BY DEF CallsAssumption
  <1>1. ASSUME NEW u \in Users, NEW k \in CallIds, phone'[u] = Outgoing(k)
        PROVE  u = Caller[k]
    <2>1. InitiateCall(u, k) => u = Caller[k]
      BY DEF InitiateCall
    <2>2. QED
      BY <1>1, <2>1, OutgoingMoves DEF CallersCall
  <1>2. ASSUME NEW u \in Users, NEW k \in CallIds, seen'[u] = Outgoing(k)
        PROVE  u = Caller[k]
    <2>1. seen'[u] = seen[u] \/ seen'[u] = phone'[u]
      BY CopiesMove
    <2>2. QED
      BY <1>1, <1>2, <2>1 DEF CallersCall
  <1>3. ASSUME NEW u \in Users, NEW k \in CallIds, ring'[u] = k
        PROVE  u = Caller[k]
    <2>1. ring[u] = k \/ InitiateCall(u, k)
      BY <1>0, <1>3, RingsMove
    <2>2. InitiateCall(u, k) => u = Caller[k]
      BY DEF InitiateCall
    <2>3. QED
      BY <2>1, <2>2 DEF CallersCall
  <1>4. ASSUME NEW p \in promises', p.kind = "remote"
        PROVE  p.user = Caller[p.call] /\ ring'[p.user] # p.call
    <2>0. p.user \in Users /\ p.call \in CallIds
      <3>1. CASE \E q \in promises : q.user = p.user /\ q.call = p.call
        BY <3>1 DEF CallsTypeOK, Promise
      <3>2. QED
        BY <1>4, <3>1, RemotesMove
    <2>1. CASE \E q \in promises : q.kind = "remote" /\ q.user = p.user /\ q.call = p.call
      <3>1. p.user = Caller[p.call] /\ ring[p.user] # p.call
        BY <2>1 DEF CallersCall
      <3>2. Reached(p.call)
        BY <2>1 DEF Reached, Answers
      <3>3. ~ InitiateCall(p.user, p.call)
        BY <2>0, <3>2, BegunIsUnused
      <3>4. ring'[p.user] # p.call
        BY <1>0, <2>0, <3>1, <3>3, RingsMove
      <3>5. QED
        BY <3>1, <3>4
    <2>2. CASE OnAnswer(p.user, p.call) /\ seen[p.user] = Outgoing(p.call)
      <3>1. p.user = Caller[p.call]
        BY <2>0, <2>2 DEF CallersCall
      <3>2. ring' = [ring EXCEPT ![p.user] = None]
        BY <2>2 DEF OnAnswer, Outgoing
      <3>3. ring'[p.user] = None
        BY <2>0, <3>2 DEF CallsTypeOK
      <3>4. QED
        BY <1>0, <2>0, <3>1, <3>3
    <2>3. QED
      BY <1>4, <2>1, <2>2, RemotesMove
  <1>5. \A u \in Users, k \in CallIds :
           phone'[u] = Outgoing(k) \/ seen'[u] = Outgoing(k) \/ ring'[u] = k => u = Caller[k]
    BY <1>1, <1>2, <1>3
  <1>6. QED
    BY <1>4, <1>5 DEF CallersCall, Outgoing

\* Nothing is known of a call that nobody made.
LEMMA UnusedStays ==
    ASSUME CallsAssumption, CallsTypeOK, CallersCall, NothingUnused, Lone, NoTwins, PromisesMove,
           [CallsNext]_callVars
    PROVE  NothingUnused'
  <1>1. ASSUME NEW k \in CallIds, k \notin used'
        PROVE  Threads(k)' = {} /\ Regrets(k)' = {} /\ ~ Reached(k)' /\ k \notin talked'
    <2>1. ~ \E u \in Users : InitiateCall(u, k)
      BY <1>1 DEF InitiateCall
    <2>2. k \notin used
      BY <1>1, HistoryMoves
    <2>3. Threads(k) = {} /\ Regrets(k) = {} /\ ~ Reached(k) /\ k \notin talked
      BY <2>2 DEF NothingUnused
    <2>4. Threads(k)' = {}
      BY <2>1, <2>3, ThreadsSlide, SlidesStayLone
    <2>5. Regrets(k)' = {}
      BY <2>1, <2>3, RegretsSlide, SlidesStayLone
    <2>6. ~ Reached(k)'
      BY <2>3, ReachedMoves, EntersByToken
    <2>7. k \notin talked'
      <3>1. ~ \E u \in Users : Hears(u, k)
        BY <2>3, HeardAnswers DEF Reached
      <3>2. QED
        BY <2>3, <3>1, HistoryMoves
    <2>8. QED
      BY <2>4, <2>5, <2>6, <2>7
  <1>2. QED
    BY <1>1 DEF NothingUnused

\* Who has an answer, on its way or come, has it of a callee that gave it.
LEMMA AnswersStayKnown ==
    ASSUME CallsTypeOK, AnswersAreKnown, PromisesMove, [CallsNext]_callVars
    PROVE  AnswersAreKnown'
  <1>1. ASSUME NEW k \in CallIds, Answers(k)'
        PROVE  k \in answered'
    <2>1. Answers(k) => k \in answered'
      BY HistoryMoves DEF AnswersAreKnown
    <2>2. ASSUME NEW p \in promises, p.call = k, AnswerMade(p)
          PROVE  k \in answered'
      BY <2>2, HistoryMoves
    <2>3. QED
      BY <1>1, <2>1, <2>2, AnswersFrom
  <1>2. QED
    BY <1>1 DEF AnswersAreKnown

\* A caller talks only in a call that was answered.
LEMMA TalkStaysMutual ==
    ASSUME CallsAssumption, CallsTypeOK, AnswersAreKnown, TalkingIsMutual, [CallsNext]_callVars
    PROVE  TalkingIsMutual'
  <1>1. answered \subseteq answered'
    BY HistoryMoves
  <1>2. CallsTypeOK'
    BY StepsKeepTypes
  <1>3. ASSUME NEW k \in talked' \ talked
        PROVE  k \in answered
    <2>1. k \in CallIds
      BY <1>2 DEF CallsTypeOK
    <2>2. Answers(k)
      BY HistoryMoves, HeardAnswers
    <2>3. QED
      BY <2>1, <2>2 DEF AnswersAreKnown
  <1>4. QED
    BY <1>1, <1>3 DEF TalkingIsMutual

\* What disarms the timer of a phone.
LEMMA RingEnds ==
    ASSUME CallsTypeOK, [CallsNext]_callVars, NEW v \in Users, ring'[v] # ring[v]
    PROVE  \/ phone'[v] = Idle
           \/ \E k \in CallIds : /\ OnAnswer(v, k) /\ seen[v] = Outgoing(k)
                                 /\ \/ Pending(v, "remote", k) \in promises'
                                    \/ phone'[v].status = "active"
           \/ RingTimeout(v) /\ ~ (seen[v].status = "outgoing" /\ seen[v].call = ring[v])
           \/ \E k \in CallIds : InitiateCall(v, k)
  <1> DEFINE Why == \/ phone'[v] = Idle
                    \/ \E k \in CallIds : /\ OnAnswer(v, k) /\ seen[v] = Outgoing(k)
                                          /\ \/ Pending(v, "remote", k) \in promises'
                                             \/ phone'[v].status = "active"
                    \/ RingTimeout(v) /\ ~ (seen[v].status = "outgoing" /\ seen[v].call = ring[v])
                    \/ \E k \in CallIds : InitiateCall(v, k)
  <1> SUFFICES Why
    OBVIOUS
  <1>0. ring \in [Users -> MaybeCall] /\ phone \in [Users -> Phone] /\ seen \in [Users -> Phone]
    BY DEF CallsTypeOK
  <1>1. ASSUME NEW u \in Users, ResetState(u)
        PROVE  Why
    <2>1. ring'[v] = IF v = u THEN None ELSE ring[v]
      BY <1>0, <1>1 DEF ResetState
    <2>2. phone'[u] = Idle
      BY <1>0, <1>1 DEF ResetState
    <2>3. QED
      BY <2>1, <2>2
  <1>2. ASSUME NEW u \in Users, PhoneStep(u)
        PROVE  Why
    <2>1. CASE RejectCall(u) \/ ClickHangUp(u) \/ ConnectionFails(u)
               \/ \E k \in CallIds : OnHangUp(u, k)
      <3>1. ResetState(u) \/ UNCHANGED ring
        BY <2>1 DEF RejectCall, ClickHangUp, ConnectionFails, HangUp, OnHangUp
      <3>2. QED
        BY <1>1, <3>1
    <2>2. CASE ConnectingTimeout(u) \/ AcceptCall(u) \/ Commit(u)
      <3>1. ResetState(u) \/ UNCHANGED ring
        BY <2>2 DEF ConnectingTimeout, AcceptCall, Commit
      <3>2. QED
        BY <1>1, <3>1
    <2>3. CASE RingTimeout(u)
      <3>1. CASE seen[u].status \in {"outgoing", "connecting"} /\ seen[u].call = ring[u]
        <4>1. ResetState(u)
          BY <2>3, <3>1 DEF RingTimeout
        <4>2. QED
          BY <1>1, <4>1
      <3>2. CASE ~ (seen[u].status \in {"outgoing", "connecting"} /\ seen[u].call = ring[u])
        <4>1. ring' = [ring EXCEPT ![u] = None]
          BY <2>3, <3>2 DEF RingTimeout
        <4>2. v = u
          BY <1>0, <4>1
        <4>3. QED
          BY <2>3, <3>2, <4>2
      <3>3. QED
        BY <3>1, <3>2
    <2>4. CASE \E k \in CallIds : InitiateCall(u, k)
      <3>1. PICK k \in CallIds : InitiateCall(u, k)
        BY <2>4
      <3>2. ring' = [ring EXCEPT ![u] = k]
        BY <3>1 DEF InitiateCall
      <3>3. v = u
        BY <1>0, <3>2
      <3>4. QED
        BY <3>1, <3>3
    <2>5. CASE \E k \in CallIds : TapDoorbell(u, k) \/ OnReady(u, k) \/ OnOffer(u, k)
      BY <2>5 DEF TapDoorbell, OnReady, OnOffer
    <2>6. ASSUME NEW k \in CallIds, OnAnswer(u, k)
          PROVE  Why
      <3>1. seen[u].status = "outgoing" /\ seen[u].call = k
        BY <2>6 DEF OnAnswer
      <3>2. /\ ring' = [ring EXCEPT ![u] = None]
            /\ promises' = promises \cup {Pending(u, "remote", k)} \/ Active(u)
        BY <2>6, <3>1 DEF OnAnswer, HandleRemoteAnswer
      <3>3. v = u
        BY <1>0, <3>2
      <3>4. seen[u] = Outgoing(k)
        BY <1>0, <3>1 DEF Phone, Outgoing
      <3>5. Pending(u, "remote", k) \in promises' \/ phone'[u].status = "active"
        <4>1. Active(u) => phone'[u] = [phone[u] EXCEPT !.status = "active"]
          BY <1>0 DEF Active
        <4>2. Active(u) => phone'[u].status = "active"
          BY <1>0, <4>1 DEF Phone
        <4>3. QED
          BY <3>2, <4>2
      <3>6. QED
        BY <2>6, <3>3, <3>4, <3>5
    <2>7. QED
      BY <1>2, <2>1, <2>2, <2>3, <2>4, <2>5, <2>6 DEF PhoneStep
  <1>3. ASSUME NEW p \in promises, PromiseStep(p)
        PROVE  Why
    <2>1. p.user \in Users
      BY DEF CallsTypeOK, Promise
    <2>2. ResetState(p.user) \/ UNCHANGED ring
      BY <1>3 DEF PromiseStep, OfferMade, AnswerMade, RemoteAnswerSet, PromiseFails, HangUp
    <2>3. QED
      BY <1>1, <2>1, <2>2
  <1>4. ASSUME NEW u \in Users, ServerStep(u) \/ DropLine(u) \/ Reconnect(u)
        PROVE  UNCHANGED ring
    BY <1>4 DEF ServerStep, RegisterOffer, PostMissed, CheckLastConnection, EndCall, RelaySignal,
                HandleHangUp, CheckOffer, CheckMissed, ReadFrame, DropLine, Reconnect, phoneVars
  <1>5. CASE UNCHANGED callVars
    BY <1>5 DEF callVars
  <1>6. QED
    BY <1>2, <1>3, <1>4, <1>5 DEF CallsNext

\* Nothing more is offered once an offer has reached the callee's phone.
LEMMA OfferStaysLast ==
    ASSUME CallsAssumption, CallsTypeOK, NothingUnused, Lone, NoTwins, OfferEnds, PromisesMove,
           [CallsNext]_callVars
    PROVE  OfferEnds'
  <1>1. ASSUME NEW k \in CallIds, Reached(k)'
        PROVE  Threads(k)' = {}
    <2>1. CASE Reached(k)
      <3>1. Threads(k) = {}
        BY <2>1 DEF OfferEnds
      <3>2. ~ \E u \in Users : InitiateCall(u, k)
        BY <2>1, BegunIsUnused
      <3>3. QED
        BY <3>1, <3>2, ThreadsSlide, SlidesStayLone
    <2>2. CASE \E u \in Users : OnOffer(u, k)
      BY <2>2, OfferArrives
    <2>3. QED
      BY <1>1, <2>1, <2>2, ReachedMoves
  <1>2. QED
    BY <1>1 DEF OfferEnds

\* A call is given up by its timer, in a phone that still calls.
LEMMA MissedStarts ==
    ASSUME CallsAssumption, CallsTypeOK, NothingUnused, NEW k \in CallIds, ~ Missed(k), Missed(k)',
           [CallsNext]_callVars
    PROVE  \E v \in Users : ring[v] = k /\ phone'[v] = Idle
  <1>1. /\ MissedTokens(k, uplink) = {} /\ PostTokens(k, handling) = {}
        /\ posted[k] = 0
    <2>1. \A x \in Regrets(k) : x[1] = "timer"
      BY DEF Missed
    <2>2. MissedTokens(k, uplink) = {}
      BY <2>1, TokenTags DEF Regrets
    <2>3. PostTokens(k, handling) = {}
      BY <2>1, TokenTags DEF Regrets
    <2>4. PostedTokens(k, posted) = {}
      BY <2>1, TokenTags DEF Regrets
    <2>5. QED
      BY <2>2, <2>3, <2>4 DEF PostedTokens
  <1>2. /\ \A v \in Users : ~ Has(uplink[v], {Say("call_missed", k)})
        /\ \A v \in Users : ~ (handling[v].step = "missed" /\ handling[v].call = k)
    <2>1. ASSUME NEW v \in Users, Has(uplink[v], {Say("call_missed", k)})
          PROVE  FALSE
      <3>1. <<"frame", v>> \in MissedTokens(k, uplink)
        BY <2>1 DEF MissedTokens
      <3>2. QED
        BY <1>1, <3>1
    <2>2. ASSUME NEW v \in Users, handling[v].step = "missed", handling[v].call = k
          PROVE  FALSE
      <3>1. <<"handling", v>> \in PostTokens(k, handling)
        BY <2>2 DEF PostTokens
      <3>2. QED
        BY <1>1, <3>1
    <2>3. QED
      BY <2>1, <2>2
  <1>3. PICK x \in Regrets(k)' : x[1] # "timer"
    BY DEF Missed
  <1>4. \/ x \in MissedTokens(k, uplink') \/ x \in PostTokens(k, handling')
        \/ x \in PostedTokens(k, posted')
    BY <1>3, TokenTags DEF Regrets
  <1>5. ASSUME NEW v \in Users, Has(uplink'[v], {Say("call_missed", k)})
        PROVE  ring[v] = k /\ phone'[v] = Idle
    <2> DEFINE Missing == {Say("call_missed", k)}
    <2>1. PICK frames : (\A F : Gets(v, frames, F)) /\ Speech(v, frames)
      BY Speakers
    <2>2. Gets(v, frames, Missing) /\ Means(v, frames, k)
      BY <2>1, SpeechMeans
    <2>3. Has(frames, {Say("call_missed", k)})
      BY <1>2, <1>5, <2>2 DEF Gets
    <2>4. QED
      BY <2>2, <2>3 DEF Means
  <1>6. ASSUME NEW v \in Users, handling'[v].step = "missed", handling'[v].call = k
        PROVE  FALSE
    <2>1. CheckMissed(v, k)
      BY <1>2, <1>6, PostsMove
    <2>2. ReadFrame(v, k) /\ Head(uplink[v]).kind = "call_missed"
      BY <2>1 DEF CheckMissed
    <2>3. Head(uplink[v]) \in {Say("call_missed", k)}
      BY <2>2, ReadFrames
    <2>4. Has(uplink[v], {Say("call_missed", k)})
      BY <2>2, <2>3, ReadHas
    <2>5. QED
      BY <1>2, <2>4
  <1>7. posted'[k] = 0
    BY <1>1, <1>2, PostsMove DEF CallsTypeOK
  <1>8. CASE x \in MissedTokens(k, uplink')
    BY <1>5, <1>8 DEF MissedTokens
  <1>9. CASE x \in PostTokens(k, handling')
    BY <1>6, <1>9 DEF PostTokens
  <1>10. CASE x \in PostedTokens(k, posted')
    BY <1>7, <1>10 DEF PostedTokens
  <1>11. QED
    BY <1>4, <1>8, <1>9, <1>10

\* Who hears the answer to a call that was not given up has no regrets.
LEMMA HeardInTime ==
    ASSUME CallsAssumption, CallsTypeOK, CallersCall, NothingUnused, Lone, NoTwins, MissedOrTalked,
           [CallsNext]_callVars, NEW u \in Users, NEW k \in CallIds, Hears(u, k)
    PROVE  Regrets(k)' = {}
  <1>0. None # k
    BY DEF CallsAssumption
  <1>1. ~ Missed(k)
    BY DEF Hears, MissedOrTalked
  <1>2. MissedTokens(k, uplink) = {}
    BY <1>1, TokenTags DEF Missed, Regrets
  <1>3. PostTokens(k, handling) = {}
    BY <1>1, TokenTags DEF Missed, Regrets
  <1>4. PostedTokens(k, posted) = {}
    BY <1>1, TokenTags DEF Missed, Regrets
  <1>5. CASE \E p \in promises : p.kind = "remote" /\ p.user = u /\ p.call = k
    <2>1. u = Caller[k] /\ ring[u] # k
      BY <1>5 DEF CallersCall
    <2>2. \A v \in Users : ring[v] # k
      BY <2>1 DEF CallersCall
    <2>3. TimerTokens(k, ring) = {}
      BY <2>2 DEF TimerTokens
    <2>4. Regrets(k) = {}
      BY <1>2, <1>3, <1>4, <2>3 DEF Regrets
    <2>5. Reached(k)
      BY <1>5 DEF Reached, Answers
    <2>6. ~ \E v \in Users : InitiateCall(v, k)
      BY <2>5, BegunIsUnused
    <2>7. QED
      BY <2>4, <2>6, RegretsSlide, SlidesStayLone
  <1>6. CASE OnAnswer(u, k) /\ seen[u] = Outgoing(k)
    <2>1. ring' = [ring EXCEPT ![u] = None] /\ UNCHANGED <<uplink, handling, posted>>
      BY <1>6 DEF OnAnswer, Take, serverVars, Outgoing
    <2>2. u = Caller[k] /\ \A v \in Users : ring[v] = k => v = Caller[k]
      BY <1>6 DEF CallersCall
    <2>3. \A v \in Users : ring'[v] # k
      BY <1>0, <2>1, <2>2 DEF CallsTypeOK
    <2>4. TimerTokens(k, ring') = {}
      BY <2>3 DEF TimerTokens
    <2>5. QED
      BY <1>2, <1>3, <1>4, <2>1, <2>4 DEF Regrets
  <1>7. QED
    BY <1>5, <1>6 DEF Hears

\* A phone in a call that was given up neither calls, as far as it knows, nor waits for the
\* answer to be set.
LEMMA MissedStaysMissed ==
    ASSUME CallsAssumption, CallsTypeOK, IdleMeansNoCall, CopyFollows, NothingUnused, OfferEnds,
           MissedOrTalked, PromisesMove, [CallsNext]_callVars,
           NEW u \in Users, NEW k \in CallIds, Missed(k), phone'[u].call = k,
           ~ InitiateCall(u, k)
    PROVE  /\ seen'[u] # Outgoing(k)
           /\ \A p \in promises' : p.user = u /\ p.kind = "remote" => p.call # k
  <1> DEFINE Waits == \E q \in promises : q.kind = "remote" /\ q.user = u /\ q.call = k
  <1>0. \A p \in promises' : p.user = u /\ p.kind = "remote" /\ p.call = k =>
           Waits \/ seen[u] = Outgoing(k)
    BY RemotesMove
  <1>1. seen'[u] = seen[u] \/ seen'[u] = phone'[u]
    BY CopiesMove
  <1>2. CASE phone[u].call = k
    <2>1. seen[u] # Outgoing(k) /\ ~ Waits
      BY <1>2 DEF MissedOrTalked
    <2>2. phone'[u] # Outgoing(k)
      <3>1. ASSUME phone'[u] = Outgoing(k)
            PROVE  FALSE
        <4>1. phone[u] = Outgoing(k)
          BY <3>1, OutgoingMoves
        <4>2. seen[u] = phone[u]
          BY <4>1 DEF CopyFollows, Outgoing
        <4>3. QED
          BY <2>1, <4>1, <4>2
      <3>2. QED
        BY <3>1
    <2>3. QED
      BY <1>0, <1>1, <2>1, <2>2
  <1>3. CASE phone[u].call # k
    <2>1. k # None /\ Idle.call = None
      BY DEF CallsAssumption, Idle
    <2>2. \A j \in CallIds, status \in {"outgoing", "incoming", "connecting"} :
             phone'[u] = [status |-> status, call |-> j] => j = k /\ phone'[u].status = status
      OBVIOUS
    <2>3. PhoneMoves(u)
      BY PhonesMove
    <2>4. /\ seen[u].status = "idle"
          /\ OnOffer(u, k) \/ Tapped(u, k)
          /\ phone'[u].status \in {"incoming", "connecting"}
      BY <1>3, <2>1, <2>2, <2>3 DEF PhoneMoves
    <2>5. ~ Waits
      <3>1. Threads(k) # {}
        BY <2>4, EntersByToken
      <3>2. Waits => Reached(k)
        BY DEF Reached, Answers
      <3>3. QED
        BY <3>1, <3>2 DEF OfferEnds
    <2>6. seen[u] # Outgoing(k) /\ phone'[u] # Outgoing(k)
      BY <2>4 DEF Outgoing
    <2>7. QED
      BY <1>0, <1>1, <2>5, <2>6
  <1>4. QED
    BY <1>2, <1>3

\* Giving up and talking exclude each other.
LEMMA MissedOrTalkedStays ==
    ASSUME CallsAssumption, CallsTypeOK, IdleMeansNoCall, CopyFollows, CallersCall, CallersCall',
           NothingUnused, Lone, NoTwins, OfferEnds, MissedOrTalked, PromisesMove,
           [CallsNext]_callVars
    PROVE  MissedOrTalked'
  <1>1. ASSUME NEW k \in CallIds, k \in talked'
        PROVE  Regrets(k)' = {}
    <2>1. CASE k \in talked
      <3>1. Regrets(k) = {}
        BY <2>1 DEF MissedOrTalked
      <3>2. ~ \E u \in Users : InitiateCall(u, k)
        BY <2>1, BegunIsUnused
      <3>3. QED
        BY <3>1, <3>2, RegretsSlide, SlidesStayLone
    <2>2. CASE k \notin talked
      <3>1. PICK u \in Users : Hears(u, k)
        BY <1>1, <2>2, HistoryMoves
      <3>2. QED
        BY <3>1, HeardInTime
    <2>3. QED
      BY <2>1, <2>2
  <1>2. ASSUME NEW k \in CallIds, Missed(k)', NEW u \in Users, phone'[u].call = k
        PROVE  /\ seen'[u] # Outgoing(k)
               /\ \A p \in promises' : p.user = u /\ p.kind = "remote" => p.call # k
    <2>1. ASSUME InitiateCall(u, k)
          PROVE  FALSE
      <3>1. Regrets(k) = {}
        BY <2>1, BegunIsUnused
      <3>2. Regrets(k)' \subseteq {<<"timer", u>>}
        BY <2>1, <3>1, InitiateRegrets
      <3>3. <<"timer", u>>[1] = "timer"
        OBVIOUS
      <3>4. QED
        BY <1>2, <3>2, <3>3 DEF Missed
    <2>2. CASE Missed(k)
      BY <1>2, <2>1, <2>2, MissedStaysMissed
    <2>3. CASE ~ Missed(k)
      <3>1. PICK v \in Users : ring[v] = k /\ phone'[v] = Idle
        BY <1>2, <2>3, MissedStarts
      <3>2. v = Caller[k]
        BY <3>1 DEF CallersCall
      <3>3. u # v
        BY <1>2, <3>1 DEF Idle, CallsAssumption
      <3>4. seen'[u] # Outgoing(k)
        BY <3>2, <3>3 DEF CallersCall, Outgoing
      <3>5. \A p \in promises' : p.user = u /\ p.kind = "remote" => p.call # k
        BY <3>2, <3>3 DEF CallersCall
      <3>6. QED
        BY <3>4, <3>5
    <2>4. QED
      BY <2>2, <2>3
  <1>3. QED
    BY <1>1, <1>2 DEF MissedOrTalked, Outgoing

\* What becomes of a promise that a phone lives on.
LEMMA LiveEnds ==
    ASSUME CallsTypeOK, [CallsNext]_callVars, NEW v \in Users, NEW w \in {"remote", "auto"}, NEW k,
           Pending(v, w, k) \in promises, Pending(v, w, k) \notin promises'
    PROVE  \/ phone'[v] = Idle \/ phone'[v].status = "active"
           \/ seen[v].status = "incoming"
           \/ \E j \in CallIds : InitiateCall(v, j)
           \/ \E j \in CallIds : OnReady(v, j) /\ seen[v].status = "outgoing" /\ seen[v].call = j
           \/ \E j \in CallIds : /\ seen[v].status = "connecting" /\ seen[v].call = j
                                 /\ Pending(v, "auto", j) \in promises'
  <1> DEFINE q == Pending(v, w, k)
             Why == \/ phone'[v] = Idle \/ phone'[v].status = "active"
                    \/ seen[v].status = "incoming"
                    \/ \E j \in CallIds : InitiateCall(v, j)
                    \/ \E j \in CallIds :
                          OnReady(v, j) /\ seen[v].status = "outgoing" /\ seen[v].call = j
                    \/ \E j \in CallIds : /\ seen[v].status = "connecting" /\ seen[v].call = j
                                          /\ Pending(v, "auto", j) \in promises'
  <1> SUFFICES Why
    OBVIOUS
  <1>0. phone \in [Users -> Phone] /\ promises \in SUBSET Promise
    BY DEF CallsTypeOK
  <1>1. q \in promises /\ q \notin promises' /\ q.user = v /\ q.kind = w
    BY DEF Pending
  <1> HIDE DEF q
  <1>2. \A u : u # v => q \in Cleaned(u)
    BY <1>0, <1>1, CleanedPromises
  <1>3. \A u \in Users : ResetState(u) => phone'[u] = Idle
    BY <1>0 DEF ResetState
  <1>4. ASSUME NEW u \in Users, PhoneStep(u)
        PROVE  Why
    <2>1. CASE \/ RejectCall(u) \/ ClickHangUp(u) \/ ConnectionFails(u) \/ RingTimeout(u)
               \/ \E j \in CallIds : OnHangUp(u, j)
      <3>1. UNCHANGED promises \/ (promises' = Cleaned(u) /\ ResetState(u))
        BY <2>1 DEF RejectCall, ClickHangUp, ConnectionFails, HangUp, RingTimeout, OnHangUp, Close
      <3>2. QED
        BY <1>1, <1>2, <1>3, <3>1
    <2>2. CASE AcceptCall(u) \/ \E j \in CallIds : InitiateCall(u, j)
      <3>1. /\ Cleaned(u) \subseteq promises'
            /\ seen[u].status = "incoming" \/ \E j \in CallIds : InitiateCall(u, j)
        BY <2>2 DEF AcceptCall, InitiateCall, Begin, Close
      <3>2. QED
        BY <1>1, <1>2, <3>1
    <2>3. CASE \/ ConnectingTimeout(u) \/ Commit(u)
               \/ \E j \in CallIds : TapDoorbell(u, j) \/ OnAnswer(u, j)
      <3>1. promises \subseteq promises'
        BY <2>3 DEF ConnectingTimeout, Commit, TapDoorbell, OnAnswer, HandleRemoteAnswer
      <3>2. QED
        BY <1>1, <3>1
    <2>4. ASSUME NEW j \in CallIds, OnReady(u, j)
          PROVE  Why
      <3>1. CASE seen[u].status = "outgoing" /\ seen[u].call = j
        <4>1. Cleaned(u) \subseteq promises'
          BY <2>4, <3>1 DEF OnReady, Begin, Close
        <4>2. QED
          BY <1>1, <1>2, <2>4, <3>1, <4>1
      <3>2. CASE ~ (seen[u].status = "outgoing" /\ seen[u].call = j)
        BY <1>1, <2>4, <3>2 DEF OnReady
      <3>3. QED
        BY <3>1, <3>2
    <2>5. ASSUME NEW j \in CallIds, OnOffer(u, j)
          PROVE  Why
      <3>1. CASE seen[u].status = "connecting" /\ seen[u].call = j
        <4>1. promises' = Cleaned(u) \cup {Pending(u, "auto", j)}
          BY <2>5, <3>1 DEF OnOffer, Begin, Close
        <4>2. QED
          BY <1>1, <1>2, <3>1, <4>1
      <3>2. CASE ~ (seen[u].status = "connecting" /\ seen[u].call = j)
        <4>1. UNCHANGED promises
          BY <2>5, <3>2 DEF OnOffer
        <4>2. QED
          BY <1>1, <4>1
      <3>3. QED
        BY <3>1, <3>2
    <2>6. QED
      BY <1>4, <2>1, <2>2, <2>3, <2>4, <2>5 DEF PhoneStep
  <1>5. ASSUME NEW p \in promises, PromiseStep(p)
        PROVE  Why
    <2>1. p.user \in Users
      BY <1>0 DEF Promise
    <2>2. CASE OfferMade(p)
      BY <1>1, <2>2 DEF OfferMade
    <2>3. CASE AnswerMade(p) \/ RemoteAnswerSet(p)
      <3>1. Active(p.user) /\ promises' = promises \ {p}
        BY <2>3 DEF AnswerMade, RemoteAnswerSet
      <3>2. p.user = v
        BY <1>1, <3>1
      <3>3. phone'[v] = [phone[v] EXCEPT !.status = "active"]
        BY <1>0, <3>1, <3>2 DEF Active
      <3>4. phone'[v].status = "active"
        BY <1>0, <3>3 DEF Phone
      <3>5. QED
        BY <3>4
    <2>4. CASE PromiseFails(p)
      <3>1. /\ promises' = Cleaned(p.user) \ {p, [p EXCEPT !.stale = TRUE]}
            /\ ResetState(p.user)
        BY <2>4 DEF PromiseFails, HangUp, Close
      <3>2. [p EXCEPT !.stale = TRUE].user = p.user
        BY <1>0 DEF Promise
      <3>3. p.user = v
        BY <1>1, <1>2, <3>1, <3>2
      <3>4. QED
        BY <1>3, <2>1, <3>1, <3>3
    <2>5. QED
      BY <1>5, <2>2, <2>3, <2>4 DEF PromiseStep
  <1>6. ASSUME NEW u \in Users, ServerStep(u) \/ DropLine(u) \/ Reconnect(u)
        PROVE  UNCHANGED promises
    BY <1>6 DEF ServerStep, RegisterOffer, PostMissed, CheckLastConnection, EndCall, RelaySignal,
                HandleHangUp, CheckOffer, CheckMissed, ReadFrame, DropLine, Reconnect, phoneVars
  <1>7. CASE UNCHANGED callVars
    BY <1>1, <1>7 DEF callVars
  <1>8. QED
    BY <1>1, <1>4, <1>5, <1>6, <1>7 DEF CallsNext

\* What arms and disarms the timer of a callee that waits for the offer.
LEMMA WaitMoves ==
    ASSUME CallsTypeOK, [CallsNext]_callVars, NEW v \in Users
    PROVE  \/ wait'[v] = wait[v] /\ phone'[v] = phone[v]
           \/ phone'[v].status # "connecting"
           \/ wait'[v] = phone'[v].call
           \/ /\ phone'[v] = phone[v] /\ seen[v].status = "connecting"
              /\ Pending(v, "auto", seen[v].call) \in promises'
           \/ phone'[v] = phone[v] /\ wait[v] # phone[v].call
  <1> DEFINE Why == \/ wait'[v] = wait[v] /\ phone'[v] = phone[v]
                    \/ phone'[v].status # "connecting"
                    \/ wait'[v] = phone'[v].call
                    \/ /\ phone'[v] = phone[v] /\ seen[v].status = "connecting"
                       /\ Pending(v, "auto", seen[v].call) \in promises'
                    \/ phone'[v] = phone[v] /\ wait[v] # phone[v].call
  <1> SUFFICES Why
    OBVIOUS
  <1>0. phone \in [Users -> Phone] /\ wait \in [Users -> MaybeCall]
    BY DEF CallsTypeOK
  <1>1. ASSUME NEW u \in Users, ResetState(u)
        PROVE  Why
    <2>1. v = u => phone'[v].status = "idle"
      BY <1>0, <1>1 DEF ResetState, Idle
    <2>2. v # u => wait'[v] = wait[v] /\ phone'[v] = phone[v]
      BY <1>0, <1>1 DEF ResetState
    <2>3. QED
      BY <2>1, <2>2
  <1>2. UNCHANGED <<phone, wait>> => Why
    OBVIOUS
  <1>3. ASSUME NEW u \in Users, NEW k \in CallIds, NEW status \in {"outgoing", "incoming"},
               SetPhone(u, status, k), UNCHANGED wait
        PROVE  Why
    <2>1. v = u => phone'[v] = [status |-> status, call |-> k]
      BY <1>0, <1>3 DEF SetPhone
    <2>2. v = u => phone'[v].status # "connecting"
      BY <2>1
    <2>3. v # u => wait'[v] = wait[v] /\ phone'[v] = phone[v]
      BY <1>0, <1>3 DEF SetPhone
    <2>4. QED
      BY <2>2, <2>3
  <1>4. ASSUME NEW u \in Users, Active(u), UNCHANGED wait
        PROVE  Why
    <2>1. v = u => phone'[v] = [phone[v] EXCEPT !.status = "active"]
      BY <1>0, <1>4 DEF Active
    <2>2. v = u => phone'[v].status = "active"
      BY <1>0, <2>1 DEF Phone
    <2>3. v # u => wait'[v] = wait[v] /\ phone'[v] = phone[v]
      BY <1>0, <1>4 DEF Active
    <2>4. QED
      BY <2>2, <2>3
  <1>5. ASSUME NEW u \in Users, NEW k \in CallIds, FlushPendingReady(u, k)
        PROVE  Why
    <2>1. CASE seen[u].status = "idle"
      <3>1. /\ phone' = [phone EXCEPT ![u] = [status |-> "connecting", call |-> k]]
            /\ wait' = [wait EXCEPT ![u] = k]
        BY <1>5, <2>1 DEF FlushPendingReady, SetPhone
      <3>2. v = u => phone'[v] = [status |-> "connecting", call |-> k] /\ wait'[v] = k
        BY <1>0, <3>1
      <3>3. v = u => phone'[v].call = k
        BY <3>2
      <3>4. v # u => wait'[v] = wait[v] /\ phone'[v] = phone[v]
        BY <1>0, <3>1
      <3>5. QED
        BY <3>2, <3>3, <3>4
    <2>2. CASE seen[u].status # "idle"
      <3>1. UNCHANGED <<phone, wait>>
        BY <1>5, <2>2 DEF FlushPendingReady
      <3>2. QED
        BY <1>2, <3>1
    <2>3. QED
      BY <2>1, <2>2
  <1>6. ASSUME NEW u \in Users, PhoneStep(u)
        PROVE  Why
    <2>1. CASE AcceptCall(u) \/ Commit(u) \/ \E k \in CallIds : OnReady(u, k)
      <3>1. UNCHANGED <<phone, wait>>
        BY <2>1 DEF AcceptCall, Commit, OnReady
      <3>2. QED
        BY <1>2, <3>1
    <2>2. CASE \/ RejectCall(u) \/ ClickHangUp(u) \/ ConnectionFails(u) \/ RingTimeout(u)
               \/ \E k \in CallIds : OnHangUp(u, k)
      <3>1. ResetState(u) \/ UNCHANGED <<phone, wait>>
        BY <2>2 DEF RejectCall, ClickHangUp, ConnectionFails, HangUp, RingTimeout, OnHangUp
      <3>2. QED
        BY <1>1, <1>2, <3>1
    <2>3. CASE ConnectingTimeout(u)
      <3>1. CASE seen[u].status = "connecting" /\ seen[u].call = wait[u]
        BY <1>1, <2>3, <3>1 DEF ConnectingTimeout
      <3>2. CASE ~ (seen[u].status = "connecting" /\ seen[u].call = wait[u])
        <4>1. wait' = [wait EXCEPT ![u] = None] /\ UNCHANGED phone
          BY <2>3, <3>2 DEF ConnectingTimeout
        <4>2. v # u => wait'[v] = wait[v] /\ phone'[v] = phone[v]
          BY <1>0, <4>1
        <4>3. phone[u] # [status |-> "connecting", call |-> wait[u]]
          BY <2>3, <3>2 DEF ConnectingTimeout
        <4>4. phone[u].status # "connecting" \/ wait[u] # phone[u].call
          BY <1>0, <4>3 DEF Phone
        <4>5. QED
          BY <4>1, <4>2, <4>4
      <3>3. QED
        BY <3>1, <3>2
    <2>4. ASSUME NEW k \in CallIds, InitiateCall(u, k)
          PROVE  Why
      <3>1. SetPhone(u, "outgoing", k) /\ UNCHANGED wait
        BY <2>4 DEF InitiateCall
      <3>2. QED
        BY <1>3, <3>1
    <2>5. ASSUME NEW k \in CallIds, TapDoorbell(u, k)
          PROVE  Why
      <3>1. FlushPendingReady(u, k) \/ UNCHANGED <<phone, wait>>
        BY <2>5 DEF TapDoorbell
      <3>2. QED
        BY <1>2, <1>5, <3>1
    <2>6. ASSUME NEW k \in CallIds, OnOffer(u, k)
          PROVE  Why
      <3>1. \/ /\ seen[u].status = "connecting" /\ seen[u].call = k
               /\ wait' = [wait EXCEPT ![u] = None] /\ UNCHANGED phone
               /\ promises' = Cleaned(u) \cup {Pending(u, "auto", k)}
            \/ SetPhone(u, "incoming", k) /\ UNCHANGED wait
            \/ UNCHANGED <<phone, wait>>
        BY <2>6 DEF OnOffer, Begin, Close
      <3>2. CASE /\ seen[u].status = "connecting" /\ seen[u].call = k
                 /\ wait' = [wait EXCEPT ![u] = None] /\ UNCHANGED phone
                 /\ promises' = Cleaned(u) \cup {Pending(u, "auto", k)}
        <4>1. v # u => wait'[v] = wait[v] /\ phone'[v] = phone[v]
          BY <1>0, <3>2
        <4>2. v = u => /\ phone'[v] = phone[v] /\ seen[v].status = "connecting"
                       /\ Pending(v, "auto", seen[v].call) \in promises'
          BY <3>2
        <4>3. QED
          BY <4>1, <4>2
      <3>3. QED
        BY <1>2, <1>3, <3>1, <3>2
    <2>7. ASSUME NEW k \in CallIds, OnAnswer(u, k)
          PROVE  Why
      <3>1. UNCHANGED wait /\ (UNCHANGED phone \/ Active(u))
        BY <2>7 DEF OnAnswer, HandleRemoteAnswer
      <3>2. QED
        BY <1>2, <1>4, <3>1
    <2>8. QED
      BY <1>6, <2>1, <2>2, <2>3, <2>4, <2>5, <2>6, <2>7 DEF PhoneStep
  <1>7. ASSUME NEW p \in promises, PromiseStep(p)
        PROVE  Why
    <2>1. p.user \in Users
      BY DEF CallsTypeOK, Promise
    <2>2. \/ UNCHANGED <<phone, wait>> \/ ResetState(p.user)
          \/ Active(p.user) /\ UNCHANGED wait
      BY <1>7 DEF PromiseStep, OfferMade, AnswerMade, RemoteAnswerSet, PromiseFails, HangUp
    <2>3. QED
      BY <1>1, <1>2, <1>4, <2>1, <2>2
  <1>8. ASSUME NEW u \in Users, ServerStep(u) \/ DropLine(u)
        PROVE  Why
    <2>1. UNCHANGED <<phone, wait>>
      BY <1>8 DEF ServerStep, RegisterOffer, PostMissed, CheckLastConnection, EndCall, RelaySignal,
                  HandleHangUp, CheckOffer, CheckMissed, ReadFrame, DropLine, phoneVars
    <2>2. QED
      BY <1>2, <2>1
  <1>9. ASSUME NEW u \in Users, Reconnect(u)
        PROVE  Why
    <2>1. \/ UNCHANGED <<phone, wait>>
          \/ doorbell[u] # None /\ FlushPendingReady(u, doorbell[u])
      BY <1>9 DEF Reconnect
    <2>2. doorbell[u] # None => doorbell[u] \in CallIds
      BY DEF CallsTypeOK, MaybeCall
    <2>3. QED
      BY <1>2, <1>5, <2>1, <2>2
  <1>10. CASE UNCHANGED callVars
    BY <1>2, <1>10 DEF callVars
  <1>11. QED
    BY <1>6, <1>7, <1>8, <1>9, <1>10 DEF CallsNext

\* A call that is made has its timer, and the answer takes over from it.
LEMMA CallersNeverStuck ==
    ASSUME CallsAssumption, CallsTypeOK, CopyFollows, Lone, OfferEnds, NeverStuck,
           [CallsNext]_callVars, NEW u \in Users, phone'[u].status = "outgoing"
    PROVE  ring'[u] = phone'[u].call \/ Pending(u, "remote", phone'[u].call) \in promises'
  <1> DEFINE k == phone[u].call
  <1>0. phone \in [Users -> Phone] /\ ring \in [Users -> MaybeCall] /\ promises \in SUBSET Promise
    BY DEF CallsTypeOK
  <1>1. /\ phone'[u] # Idle /\ phone'[u].status # "active"
        /\ \A j : /\ phone'[u] # [status |-> "incoming", call |-> j]
                  /\ phone'[u] # [status |-> "connecting", call |-> j]
    BY DEF Idle
  <1>2. CASE \E j \in CallIds :
                InitiateCall(u, j) /\ phone'[u] = [status |-> "outgoing", call |-> j]
    <2>1. PICK j \in CallIds : InitiateCall(u, j) /\ phone'[u] = [status |-> "outgoing", call |-> j]
      BY <1>2
    <2>2. ring'[u] = j /\ phone'[u].call = j
      BY <1>0, <2>1 DEF InitiateCall
    <2>3. QED
      BY <2>2
  <1>3. CASE phone'[u] = phone[u]
    <2>0. seen[u] = phone[u] /\ seen[u].status = "outgoing"
      BY <1>3 DEF CopyFollows
    <2>1. ~ \E j \in CallIds : InitiateCall(u, j)
      BY <2>0 DEF InitiateCall
    <2>2. CASE ring[u] = k
      <3>1. CASE ring'[u] = ring[u]
        BY <1>3, <2>2, <3>1
      <3>2. CASE ring'[u] # ring[u]
        <4>1. PICK j \in CallIds : seen[u] = Outgoing(j) /\ Pending(u, "remote", j) \in promises'
          BY <1>1, <2>0, <2>1, <2>2, <3>2, RingEnds
        <4>2. k = j
          BY <2>0, <4>1 DEF Outgoing
        <4>3. QED
          BY <1>3, <4>1, <4>2
      <3>3. QED
        BY <3>1, <3>2
    <2>3. CASE ring[u] # k
      <3>1. Pending(u, "remote", k) \in promises
        BY <1>3, <2>3 DEF NeverStuck
      <3>2. k \in CallIds /\ Reached(k)
        <4>1. Pending(u, "remote", k).call = k /\ Pending(u, "remote", k).kind = "remote"
          BY DEF Pending
        <4>2. k \in CallIds
          BY <1>0, <3>1, <4>1 DEF Promise
        <4>3. Answers(k)
          BY <3>1, <4>1 DEF Answers
        <4>4. QED
          BY <4>2, <4>3 DEF Reached
      <3>4. Threads(k) = {}
        BY <3>2 DEF OfferEnds
      <3>5. ~ OnReady(u, k)
        <4>1. OnReady(u, k) => <<"letter", u, "call_ready">> \in LetterTokens(k, downlink)
          BY <3>2, TakenTokens DEF OnReady
        <4>2. QED
          BY <3>4, <4>1 DEF Threads
      <3>6. CASE Pending(u, "remote", k) \notin promises'
        BY <1>1, <2>0, <2>1, <3>1, <3>5, <3>6, LiveEnds
      <3>7. QED
        BY <1>3, <3>6
    <2>4. QED
      BY <2>2, <2>3
  <1>4. QED
    BY <1>1, <1>2, <1>3, PhonesMove DEF PhoneMoves

\* A phone that connects has its timer, and the offer takes over from it.
LEMMA CalleesNeverStuck ==
    ASSUME CallsTypeOK, CopyFollows, NeverStuck, [CallsNext]_callVars, NEW u \in Users,
           phone'[u].status = "connecting"
    PROVE  wait'[u] = phone'[u].call \/ Pending(u, "auto", phone'[u].call) \in promises'
  <1> DEFINE k == phone[u].call
  <1>1. phone'[u] # Idle /\ phone'[u].status # "active"
    BY DEF Idle
  <1>2. phone'[u] = phone[u] => /\ seen[u].status \in {"idle", "connecting"}
                                /\ seen[u].status = "connecting" => seen[u] = phone[u]
    BY DEF CopyFollows, Idle
  <1>3. \A j \in CallIds : ~ InitiateCall(u, j)
    <2>1. ASSUME NEW j \in CallIds, InitiateCall(u, j)
          PROVE  FALSE
      <3>1. phone'[u] = [status |-> "outgoing", call |-> j]
        BY <2>1 DEF InitiateCall, SetPhone, CallsTypeOK
      <3>2. QED
        BY <3>1
    <2>2. QED
      BY <2>1
  <1>4. ASSUME phone'[u] = phone[u], wait[u] # k, Pending(u, "auto", k) \notin promises'
        PROVE  FALSE
    <2>1. Pending(u, "auto", k) \in promises
      BY <1>4 DEF NeverStuck
    <2>2. QED
      BY <1>1, <1>2, <1>3, <1>4, <2>1, LiveEnds
  <1>5. CASE wait'[u] = wait[u] /\ phone'[u] = phone[u]
    BY <1>4, <1>5
  <1>6. CASE /\ phone'[u] = phone[u] /\ seen[u].status = "connecting"
             /\ Pending(u, "auto", seen[u].call) \in promises'
    BY <1>2, <1>6
  <1>7. QED
    BY <1>4, <1>5, <1>6, WaitMoves

\* So nobody is left calling or connecting.
LEMMA NobodyGetsStuck ==
    ASSUME CallsAssumption, CallsTypeOK, CopyFollows, Lone, OfferEnds, NeverStuck,
           [CallsNext]_callVars
    PROVE  NeverStuck'
  <1>1. ASSUME NEW u \in Users, phone'[u].status = "outgoing"
        PROVE  ring'[u] = phone'[u].call \/ Pending(u, "remote", phone'[u].call) \in promises'
    BY <1>1, CallersNeverStuck
  <1>2. ASSUME NEW u \in Users, phone'[u].status = "connecting"
        PROVE  wait'[u] = phone'[u].call \/ Pending(u, "auto", phone'[u].call) \in promises'
    BY <1>2, CalleesNeverStuck
  <1>3. QED
    BY <1>1, <1>2 DEF NeverStuck, Pending

\* Before the first call nothing is under way.
LEMMA CallsInitially ==
    ASSUME CallsAssumption, CallsInit
    PROVE  CallsInv
  <1>1. /\ \A u \in Users : /\ phone[u] = Idle /\ seen[u] = Idle /\ ring[u] = None
                            /\ doorbell[u] = None /\ uplink[u] = <<>> /\ handling[u] = NoWork
        /\ promises = {} /\ bells = {} /\ downlink = {} /\ talked = {} /\ answered = {}
        /\ \A k \in CallIds : posted[k] = 0
    BY DEF CallsInit
  <1>2. Idle.status = "idle" /\ Idle.call = None /\ NoWork.step = "none"
    BY DEF Idle, NoWork
  <1>3. \A k \in CallIds : None # k
    BY DEF CallsAssumption
  <1>4. \A u \in Users : \A F : ~ Has(uplink[u], F) /\ Once(uplink[u], F)
    BY <1>1, HasNone
  <1>5. ASSUME NEW k \in CallIds
        PROVE  /\ Threads(k) = {} /\ Regrets(k) = {} /\ ~ Reached(k) /\ ~ Answers(k)
               /\ \A u \in Users : phone[u] # Outgoing(k) /\ seen[u] # Outgoing(k)
    <2>1. /\ PromiseTokens(k, promises) = {} /\ LetterTokens(k, downlink) = {}
          /\ BellTokens(k, bells) = {}
      BY <1>1 DEF PromiseTokens, LetterTokens, BellTokens
    <2>2. FrameTokens(k, uplink) = {} /\ MissedTokens(k, uplink) = {}
      BY <1>4 DEF FrameTokens, MissedTokens
    <2>3. OfferTokens(k, handling) = {} /\ PostTokens(k, handling) = {}
      BY <1>1, <1>2 DEF OfferTokens, PostTokens
    <2>4. TapTokens(k, doorbell) = {} /\ TimerTokens(k, ring) = {}
      BY <1>1, <1>3 DEF TapTokens, TimerTokens
    <2>5. \A u \in Users : /\ phone[u] # Outgoing(k) /\ seen[u] # Outgoing(k)
                           /\ phone[u] # Incoming(k) /\ seen[u] # Incoming(k)
      BY <1>1, <1>2 DEF Outgoing, Incoming
    <2>6. ~ Answers(k)
      BY <1>1, <1>4 DEF Answers, Says
    <2>7. QED
      BY <1>1, <2>1, <2>2, <2>3, <2>4, <2>5, <2>6
      DEF Threads, Regrets, PostedTokens, Reached
  <1>6. CallsTypeOK
    BY InitialTypes
  <1>7. IdleMeansNoCall /\ CopyFollows /\ NeverStuck
    BY <1>1, <1>2 DEF IdleMeansNoCall, CopyFollows, NeverStuck
  <1>8. CallersCall /\ NothingUnused /\ OfferEnds
    BY <1>1, <1>3, <1>5 DEF CallersCall, NothingUnused, OfferEnds
  <1>9. MissedOrTalked
    BY <1>1, <1>5 DEF MissedOrTalked, Missed
  <1>10. Lone /\ NoTwins
    <2>1. \A k \in CallIds : posted[k] <= 1
      BY <1>1
    <2>2. Lone
      BY <1>5, <2>1 DEF Lone, Single
    <2>3. \A u \in Users, k \in CallIds : /\ Once(uplink[u], Signals(k))
                                          /\ Once(uplink[u], {Say("call_missed", k)})
      BY <1>4
    <2>4. NoTwins
      BY <1>1, <2>3 DEF NoTwins
    <2>5. QED
      BY <2>2, <2>4
  <1>11. AnswersAreKnown /\ TalkingIsMutual
    BY <1>1, <1>5 DEF AnswersAreKnown, TalkingIsMutual
  <1>12. QED
    BY <1>6, <1>7, <1>8, <1>9, <1>10, <1>11 DEF CallsInv

\* Every step keeps the invariant.
LEMMA StepsKeepCallsInv ==
    ASSUME CallsAssumption, CallsInv, [CallsNext]_callVars
    PROVE  CallsInv'
  <1> USE DEF CallsInv
  <1>1. PromisesMove
    BY PromisesAlwaysMove
  <1>2. CallsTypeOK' /\ IdleMeansNoCall' /\ CopyFollows'
    BY StepsKeepTypes, IdleStaysFree, CopyKeepsUp
  <1>3. CallersCall' /\ NothingUnused'
    BY <1>1, CallersStay, UnusedStays
  <1>4. AnswersAreKnown' /\ TalkingIsMutual'
    BY <1>1, AnswersStayKnown, TalkStaysMutual
  <1>5. Lone' /\ NoTwins'
    BY <1>1, LoneStays, TwinsStayAway
  <1>6. OfferEnds' /\ MissedOrTalked'
    BY <1>1, <1>3, OfferStaysLast, MissedOrTalkedStays
  <1>7. NeverStuck'
    BY NobodyGetsStuck
  <1>8. QED
    BY <1>2, <1>3, <1>4, <1>5, <1>6, <1>7

\* The two threads of a call, and what hangs on them, for any number of users and calls.
THEOREM CallsInvariant == CallsSpec => []CallsInv
  <1>1. CallsInit => CallsInv
    BY CallsInitially, CallsAssumption
  <1>2. CallsInv /\ [CallsNext]_callVars => CallsInv'
    BY StepsKeepCallsInv, CallsAssumption
  <1>3. QED
    BY <1>1, <1>2, PTL DEF CallsSpec

\* handleCallMissed posts a call once at most, and never one that its caller talked in.
THEOREM MissedNeverAnswered == CallsSpec => []MissedMeansUnanswered
  <1>1. CallsInv => MissedMeansUnanswered
    <2> SUFFICES ASSUME CallsInv, NEW k \in CallIds
                 PROVE  posted[k] <= 1 /\ (posted[k] = 1 => k \notin talked)
      BY DEF MissedMeansUnanswered
    <2>1. posted[k] <= 1
      BY DEF CallsInv, Lone
    <2>2. posted[k] = 1 => <<"posted">> \in Regrets(k)
      BY DEF Regrets, PostedTokens
    <2>3. QED
      BY <2>1, <2>2 DEF CallsInv, MissedOrTalked
  <1>2. QED
    BY <1>1, CallsInvariant, PTL

\* The caller's phone goes active by the answer of that call only.
THEOREM TalkingAlwaysMutual == CallsSpec => []TalkingIsMutual
  <1>1. CallsInv => TalkingIsMutual
    BY DEF CallsInv
  <1>2. QED
    BY <1>1, CallsInvariant, PTL

\* A phone that calls or connects has its timer or a live promise of that call.
THEOREM NobodyStuck == CallsSpec => []NeverStuck
  <1>1. CallsInv => NeverStuck
    BY DEF CallsInv
  <1>2. QED
    BY <1>1, CallsInvariant, PTL

=============================================================================
