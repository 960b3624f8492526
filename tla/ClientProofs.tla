---------------------------- MODULE ClientProofs ----------------------------
(***************************************************************************)
(* What the client's shell promises, for any users, bounds and focus.      *)
(* Whatever the session does meanwhile: who was away too long sees the     *)
(* lock, a visible page has a way to its socket, an unsupported build      *)
(* stays behind the update screen.  And whatever the shell does meanwhile: *)
(* a stored vault opens with its owner's password, a session that has      *)
(* ended leaves no more than its drafts and the copy of its token behind,  *)
(* the key in use is the user's own.                                       *)
(*                                                                         *)
(* The parts share the phase of the app.  Nothing but hiding, showing,     *)
(* ending and starting it changes the phase (PhaseKept), so the lock, the  *)
(* socket and the update have an invariant over their own variables and    *)
(* the phase.  The session's tasks are handled by what a step of one does  *)
(* to the set of them: a lemma per action names the task that goes on, the *)
(* step it is at and what it carries, and the invariants are proved from   *)
(* these lemmas.                                                           *)
(***************************************************************************)
EXTENDS Client, TLAPS

----------------------------------------------------------------------------
(* The session's steps do not touch the phase.                             *)

\* No task of the session, early or late, hides, shows, ends or starts the app.
LEMMA TaskKeepsPhase ==
    ASSUME NEW t, SessionTask(t) \/ Save(t)
    PROVE  phase' = phase
  <1>1. ASSUME NEW slide, Refreshed(t, slide) PROVE phase' = phase
    BY <1>1 DEF Refreshed
  <1>2. ASSUME NEW slide, Fetched(t, slide) PROVE phase' = phase
    BY <1>2 DEF Fetched
  <1>3. CASE RefreshFails(t)
    BY <1>3 DEF RefreshFails
  <1>4. CASE Hydrated(t)
    BY <1>4 DEF Hydrated
  <1>5. CASE Fails(t)
    BY <1>5 DEF Fails
  <1>6. CASE Registered(t)
    BY <1>6 DEF Registered
  <1>7. CASE Checked(t)
    BY <1>7 DEF Checked
  <1>8. CASE Rehash(t)
    BY <1>8 DEF Rehash
  <1>9. CASE Told(t)
    BY <1>9 DEF Told
  <1>10. CASE Open(t)
    BY <1>10 DEF Open
  <1>11. CASE LoginRefreshes(t)
    BY <1>11 DEF LoginRefreshes
  <1>12. ASSUME NEW stored, NEW ok, SetUp(t, stored, ok) PROVE phase' = phase
    BY <1>12 DEF SetUp
  <1>13. ASSUME NEW ok, Changed(t, ok) PROVE phase' = phase
    BY <1>13 DEF Changed
  <1>14. ASSUME NEW ok, Rewrap(t, ok) PROVE phase' = phase
    BY <1>14 DEF Rewrap
  <1>15. ASSUME NEW ok, Unregister(t, ok) PROVE phase' = phase
    BY <1>15 DEF Unregister
  <1>16. CASE Unheard(t)
    BY <1>16 DEF Unheard
  <1>17. CASE Wipe(t)
    BY <1>17 DEF Wipe
  <1>18. CASE Save(t)
    BY <1>18 DEF Save
  <1>19. QED
    BY <1>1, <1>2, <1>3, <1>4, <1>5, <1>6, <1>7, <1>8, <1>9, <1>10, <1>11, <1>12,
       <1>13, <1>14, <1>15, <1>16, <1>17, <1>18 DEF SessionTask

\* Nor does what people do on the pages or on other devices.
LEMMA UserKeepsPhase == SessionUser \/ Elsewhere => phase' = phase
  <1> SUFFICES ASSUME SessionUser \/ Elsewhere PROVE phase' = phase
    OBVIOUS
  <1>0. ASSUME NEW k, NEW u, NEW pw, Submit(k, u, pw) PROVE phase' = phase
    BY <1>0 DEF Submit
  <1>1. ASSUME NEW u, SubmitLogin(u) \/ SubmitRegister(u) \/ SubmitLazy(u)
        PROVE  phase' = phase
    BY <1>0, <1>1 DEF SubmitLogin, SubmitRegister, SubmitLazy
  <1>2. CASE AskRefresh
    BY <1>2 DEF AskRefresh
  <1>3. CASE AskChange
    BY <1>3 DEF AskChange
  <1>4. CASE AskLogout
    BY <1>4 DEF AskLogout
  <1>5. ASSUME NEW k, Fetch(k) PROVE phase' = phase
    BY <1>5 DEF Fetch
  <1>6. ASSUME NEW u, NEW stored, ChangedElsewhere(u, stored) PROVE phase' = phase
    BY <1>6 DEF ChangedElsewhere
  <1>7. ASSUME NEW u, SetUpElsewhere(u) PROVE phase' = phase
    BY <1>7 DEF SetUpElsewhere
  <1>8. CASE PersistDraft
    BY <1>8 DEF PersistDraft
  <1>9. QED
    BY <1>1, <1>2, <1>3, <1>4, <1>5, <1>6, <1>7, <1>8 DEF SessionUser, Elsewhere

\* Nor do the lock, its screen and its settings.
LEMMA LockKeepsPhase == LockStep => phase' = phase
  <1> SUFFICES ASSUME LockStep PROVE phase' = phase
    OBVIOUS
  <1>1. CASE TimePasses
    BY <1>1 DEF TimePasses
  <1>2. CASE Verify
    BY <1>2 DEF Verify, sessionvars
  <1>3. CASE LockLogout
    BY <1>3 DEF LockLogout, AskLogout
  <1>4. CASE DeclineOffer
    BY <1>4 DEF DeclineOffer, sessionvars
  <1>5. CASE Disable
    BY <1>5 DEF Disable
  <1>6. ASSUME NEW offer, Enable(offer) PROVE phase' = phase
    BY <1>6 DEF Enable
  <1>7. ASSUME NEW typed, SubmitUnlock(typed) PROVE phase' = phase
    BY <1>7 DEF SubmitUnlock
  <1>8. ASSUME NEW t, SaveUnlocks(t) PROVE phase' = phase
    BY <1>8, TaskKeepsPhase DEF SaveUnlocks
  <1>9. QED
    BY <1>1, <1>2, <1>3, <1>4, <1>5, <1>6, <1>7, <1>8 DEF LockStep, LockUser

\* So no step of the session changes the phase.
LEMMA SessionKeepsPhase == SessionStep => phase' = phase
  BY TaskKeepsPhase, UserKeepsPhase DEF SessionStep, Mirrored

\* The steps that change the phase, and the others.
Installing == Installed /\ Kill /\ sock' = NoSock /\ UNCHANGED lockvars
PhaseKept == ClientNext /\ ~Hide /\ ~Show /\ ~End /\ ~Start /\ ~Installing

\* Hiding, showing, ending, starting and installing are all that changes the phase.
LEMMA OthersKeepPhase == PhaseKept => phase' = phase
  <1> SUFFICES ASSUME PhaseKept PROVE phase' = phase
    OBVIOUS
  <1>1. ASSUME NEW t, LogoutEnds(t) PROVE phase' = phase
    BY <1>1 DEF LogoutEnds, LoggedOut
  <1>2. CASE SocketStep
    BY <1>2 DEF SocketStep
  <1>3. ASSUME NEW least, Publish(least) PROVE phase' = phase
    BY <1>3 DEF Publish
  <1>4. CASE UpdateStep
    BY <1>3, <1>4 DEF UpdateStep, PhaseKept, Installing, sessionvars
  <1>5. QED
    BY <1>1, <1>2, <1>4, LockKeepsPhase, SessionKeepsPhase DEF PhaseKept, ClientNext

----------------------------------------------------------------------------
(* The lock.                                                               *)

LockFields == {"on", "stamp", "offered", "enabled", "locked"}

\* Nobody who was away too long is let in, and the stamp they left stays old.
LockInv ==
    /\ DOMAIN lock = LockFields
    /\ gone /\ lock.on => lock.stamp # "fresh" /\ (phase = "front" => lock.locked)

\* The lock stands as it did while nobody touches it or brings the app to the front.
LEMMA LockInvStays ==
    LockInv /\ UNCHANGED lockvars /\ (phase' = phase \/ phase' # "front") => LockInv'
  BY DEF LockInv, lockvars

\* The lock's own steps.
LEMMA LockUserHolds == LockInv /\ LockStep => LockInv'
  <1> SUFFICES ASSUME LockInv, LockStep PROVE LockInv'
    OBVIOUS
  <1>0. phase' = phase
    BY LockKeepsPhase
  <1> USE DEF LockInv, LockFields
  <1>1. CASE TimePasses
    <2>1. /\ DOMAIN lock' = LockFields /\ lock'.on = lock.on /\ lock'.locked = lock.locked
          /\ lock'.stamp # "fresh"
      BY <1>1 DEF TimePasses
    <2>2. gone' => gone \/ phase # "front"
      BY <1>1 DEF TimePasses
    <2>3. QED
      BY <1>0, <2>1, <2>2
  <1>2. CASE Verify
    BY <1>2 DEF Verify, Unlocked, Stamped
  <1>3. CASE LockLogout
    BY <1>0, <1>3, LockInvStays DEF LockLogout
  <1>4. CASE DeclineOffer
    BY <1>0, <1>4 DEF DeclineOffer
  <1>5. CASE Disable
    BY <1>0, <1>5 DEF Disable
  <1>6. ASSUME NEW offer, Enable(offer) PROVE LockInv'
    BY <1>6 DEF Enable, Stamped
  <1>7. ASSUME NEW typed, SubmitUnlock(typed) PROVE LockInv'
    BY <1>0, <1>7, LockInvStays DEF SubmitUnlock
  <1>8. ASSUME NEW t, SaveUnlocks(t) PROVE LockInv'
    BY <1>8 DEF SaveUnlocks, Unlocked, Stamped
  <1>9. QED
    BY <1>1, <1>2, <1>3, <1>4, <1>5, <1>6, <1>7, <1>8 DEF LockStep, LockUser

\* The invariant of the lock holds through every step of the shell.
LEMMA LockInvHolds == ClientSpec => []LockInv
  <1>1. ClientInit => LockInv
    BY DEF ClientInit, LockInit, LockedInit, LockInv, LockFields
  <1>2. LockInv /\ [ClientNext]_clientvars => LockInv'
    <2> SUFFICES ASSUME LockInv, [ClientNext]_clientvars PROVE LockInv'
      OBVIOUS
    <2>1. CASE Hide
      <3>1. LockHides /\ phase = "front" /\ phase' = "back"
        BY <2>1 DEF Hide
      <3>2. QED
        BY <3>1 DEF LockHides, LockInv, LockFields, Stamped
    <2>2. CASE Show
      <3>1. LockShows
        BY <2>2 DEF Show
      <3>2. QED
        BY <3>1 DEF LockShows, LockInv, LockFields, Expired
    <2>3. CASE End
      BY <2>3, LockInvStays DEF End, Kill
    <2>4. CASE Start
      <3>1. LockBoots
        BY <2>4 DEF Start
      <3>2. QED
        BY <3>1 DEF LockBoots, LockInv, LockFields, Expired
    <2>5. CASE Installing
      BY <2>5, LockInvStays DEF Installing, Kill
    <2>6. ASSUME NEW t, LogoutEnds(t) PROVE LockInv'
      <3>1. LockForgets
        BY <2>6 DEF LogoutEnds
      <3>2. DOMAIN lock' = LockFields /\ lock'.on = FALSE
        BY <3>1 DEF LockForgets, LockInv, LockFields, Unlocked, Stamped
      <3>3. QED
        BY <3>2 DEF LockInv
    <2>7. CASE LockStep
      BY <2>7, LockUserHolds
    <2>8. CASE SessionStep
      BY <2>8, SessionKeepsPhase, LockInvStays DEF SessionStep
    <2>9. CASE SocketStep
      BY <2>9, LockInvStays DEF SocketStep
    <2>10. CASE UpdateStep /\ ~Installing
      <3>1. UNCHANGED lockvars
        BY <2>10 DEF UpdateStep
      <3>2. phase' = phase
        BY <2>10 DEF UpdateStep, Installing, Publish, sessionvars
      <3>3. QED
        BY <3>1, <3>2, LockInvStays
    <2>11. CASE UNCHANGED clientvars
      BY <2>11, LockInvStays DEF clientvars, sessionvars
    <2>12. QED
      BY <2>1, <2>2, <2>3, <2>4, <2>5, <2>6, <2>7, <2>8, <2>9, <2>10, <2>11
         DEF ClientNext
  <1>3. QED
    BY <1>1, <1>2, PTL DEF ClientSpec

\* Whoever comes back after the time-out, however often they hide, end and start the app
\* meanwhile, sees it only after a fingerprint or a password.
THEOREM LockAlwaysHolds == ClientSpec => []LockHolds
  <1>1. LockInv => LockHolds
    BY DEF LockInv, LockHolds
  <1>2. QED
    BY <1>1, LockInvHolds, PTL

----------------------------------------------------------------------------
(* The socket.                                                             *)

SockFields == {"mounted", "ws", "old", "connected", "first", "timer", "stable", "attempts"}

\* A page that is not running has no hook, and a stability timer has a socket to watch.
SockInv ==
    /\ DOMAIN sock = SockFields
    /\ sock.attempts \in 0..MaxAttempts
    /\ phase = "dead" => ~sock.mounted
    /\ sock.stable => sock.ws # "none"
    /\ NeverStranded

\* The socket stands as it did while the page stays as it is or is hidden.
LEMMA SockInvStays ==
    SockInv /\ UNCHANGED sock /\ (phase' = phase \/ (phase # "dead" /\ phase' = "back"))
        => SockInv'
  BY DEF SockInv, NeverStranded

\* A page that is unmounted or mounted anew owes nothing.
LEMMA NoSockIsFine == sock' = NoSock => SockInv'
  BY SocketAssumption DEF SockInv, NeverStranded, NoSock, SockFields

\* Connecting always leaves a socket, and changes nothing else the invariant speaks of.
LEMMA ConnectGivesSocket ==
    ASSUME NEW s, DOMAIN s = SockFields
    PROVE  LET c == Connect(s)
           IN  /\ DOMAIN c = SockFields /\ c.ws # "none" /\ c.attempts = s.attempts
               /\ c.mounted = s.mounted /\ c.first = s.first /\ c.timer = s.timer
  BY DEF Connect, SockFields

\* After a close event of a visible page there is a timer, unless the attempts are used up.
LEMMA CloseSchedules ==
    ASSUME NEW s, DOMAIN s = SockFields, s.attempts \in 0..MaxAttempts
    PROVE  LET c == Closed(s)
           IN  /\ DOMAIN c = SockFields /\ c.ws = s.ws /\ c.mounted = s.mounted
               /\ c.attempts \in 0..MaxAttempts /\ c.stable = FALSE
               /\ phase = "front" => c.timer \/ c.attempts = MaxAttempts
  <1> DEFINE q == [s EXCEPT !.connected = FALSE, !.stable = FALSE]
  <1>1. /\ DOMAIN q = SockFields /\ q.ws = s.ws /\ q.mounted = s.mounted
        /\ q.attempts = s.attempts /\ q.stable = FALSE
    BY DEF SockFields
  <1> HIDE DEF q
  <1>2. CASE q.attempts >= MaxAttempts \/ phase # "front"
    <2>1. ScheduleReconnect(q) = q
      BY <1>2 DEF ScheduleReconnect
    <2>2. phase = "front" => q.attempts = MaxAttempts
      BY <1>1, <1>2, SocketAssumption
    <2>3. QED
      BY <1>1, <2>1, <2>2 DEF Closed, q
  <1>3. CASE ~(q.attempts >= MaxAttempts \/ phase # "front")
    <2> DEFINE c == [q EXCEPT !.attempts = @ + 1, !.timer = TRUE]
    <2>1. ScheduleReconnect(q) = c
      BY <1>3 DEF ScheduleReconnect
    <2>2. /\ DOMAIN c = SockFields /\ c.ws = q.ws /\ c.mounted = q.mounted
          /\ c.attempts = q.attempts + 1 /\ c.stable = q.stable /\ c.timer = TRUE
      BY <1>1 DEF SockFields
    <2> HIDE DEF c
    <2>3. c.attempts \in 0..MaxAttempts
      BY <1>1, <1>3, <2>2, SocketAssumption
    <2>4. QED
      BY <1>1, <2>1, <2>2, <2>3 DEF Closed, q
  <1>4. QED
    BY <1>2, <1>3

\* Timers, openings, close events, breaks and (un)mounting keep a way to the socket.
LEMMA SocketStepHolds == SockInv /\ SocketStep => SockInv'
  <1> SUFFICES ASSUME SockInv, SocketStep PROVE SockInv'
    OBVIOUS
  <1>0. /\ phase' = phase
        /\ DOMAIN sock = SockFields /\ sock.attempts \in 0..MaxAttempts
    BY DEF SocketStep, SockInv
  <1>1. CASE PageWanted /\ Mount
    <2>1. /\ DOMAIN sock' = SockFields /\ sock'.attempts = 0 /\ sock'.first = TRUE
          /\ sock'.stable = FALSE
      BY <1>1 DEF Mount, NoSock, SockFields
    <2>2. QED
      BY <1>0, <1>1, <2>1, SocketAssumption DEF SockInv, NeverStranded, PageWanted
  <1>2. CASE Unmount
    BY <1>2, NoSockIsFine DEF Unmount
  <1>3. CASE FirstFires
    <2> DEFINE c == Connect(sock)
    <2>1. /\ DOMAIN c = SockFields /\ c.ws # "none" /\ c.attempts = sock.attempts
          /\ c.mounted = sock.mounted
      BY <1>0, ConnectGivesSocket
    <2>2. sock' = [c EXCEPT !.first = FALSE]
      BY <1>3 DEF FirstFires
    <2> HIDE DEF c
    <2>3. /\ DOMAIN sock' = SockFields /\ sock'.ws # "none"
          /\ sock'.attempts = sock.attempts /\ sock'.mounted = sock.mounted
      BY <2>1, <2>2 DEF SockFields
    <2>4. QED
      BY <1>0, <2>3 DEF SockInv, NeverStranded
  <1>4. CASE TimerFires
    <2> DEFINE c == Connect(sock)
    <2>1. /\ DOMAIN c = SockFields /\ c.ws # "none" /\ c.attempts = sock.attempts
          /\ c.mounted = sock.mounted
      BY <1>0, ConnectGivesSocket
    <2>2. sock' = [c EXCEPT !.timer = FALSE]
      BY <1>4 DEF TimerFires
    <2> HIDE DEF c
    <2>3. /\ DOMAIN sock' = SockFields /\ sock'.ws # "none"
          /\ sock'.attempts = sock.attempts /\ sock'.mounted = sock.mounted
      BY <2>1, <2>2 DEF SockFields
    <2>4. QED
      BY <1>0, <2>3 DEF SockInv, NeverStranded
  <1>5. CASE Opens
    <2>1. /\ DOMAIN sock' = SockFields /\ sock'.ws = "open"
          /\ sock'.attempts = sock.attempts /\ sock'.mounted = sock.mounted
      BY <1>0, <1>5 DEF Opens, SockFields
    <2>2. QED
      BY <1>0, <2>1 DEF SockInv, NeverStranded
  <1>6. ASSUME NEW s, DOMAIN s = SockFields, s.attempts = sock.attempts,
               s.mounted = sock.mounted, sock' = Closed(s)
        PROVE  SockInv'
    <2>1. /\ DOMAIN sock' = SockFields /\ sock'.mounted = sock.mounted
          /\ sock'.attempts \in 0..MaxAttempts /\ sock'.stable = FALSE
          /\ phase = "front" => sock'.timer \/ sock'.attempts = MaxAttempts
      BY <1>0, <1>6, CloseSchedules
    <2>2. QED
      BY <1>0, <2>1 DEF SockInv, NeverStranded
  <1>7. CASE Closes
    BY <1>0, <1>6, <1>7 DEF Closes, SockFields
  <1>8. CASE OldCloses
    BY <1>0, <1>6, <1>8 DEF OldCloses, SockFields
  <1>9. CASE StableFires
    <2>1. /\ DOMAIN sock' = SockFields /\ sock'.ws = sock.ws /\ sock'.attempts = 0
          /\ sock'.mounted = sock.mounted
      BY <1>0, <1>9 DEF StableFires, SockFields
    <2>2. sock.ws # "none"
      BY <1>9 DEF StableFires, SockInv
    <2>3. QED
      BY <1>0, <2>1, <2>2, SocketAssumption DEF SockInv, NeverStranded
  <1>10. ASSUME NEW atOnce, Breaks(atOnce) PROVE SockInv'
    <2>1. CASE sock' = Closed([sock EXCEPT !.ws = "none"])
      BY <1>0, <1>6, <2>1 DEF SockFields
    <2>2. CASE sock' = [sock EXCEPT !.ws = "closing"]
      <3>1. /\ DOMAIN sock' = SockFields /\ sock'.ws = "closing"
            /\ sock'.attempts = sock.attempts /\ sock'.mounted = sock.mounted
        BY <1>0, <2>2 DEF SockFields
      <3>2. QED
        BY <1>0, <3>1 DEF SockInv, NeverStranded
    <2>3. QED
      BY <1>10, <2>1, <2>2 DEF Breaks
  <1>11. QED
    BY <1>1, <1>2, <1>3, <1>4, <1>5, <1>7, <1>8, <1>9, <1>10 DEF SocketStep, SocketReacts

\* A page that becomes visible connects at once, unless its socket is open.
LEMMA ShowConnects == SockInv /\ Show => SockInv'
  <1> SUFFICES ASSUME SockInv, Show PROVE SockInv'
    OBVIOUS
  <1>0. phase' = "front" /\ BecomesVisible /\ DOMAIN sock = SockFields
    BY DEF Show, SockInv
  <1>1. CASE ~sock.mounted \/ sock.ws = "open"
    <2>1. sock' = sock
      BY <1>0, <1>1 DEF BecomesVisible
    <2>2. QED
      BY <1>0, <1>1, <2>1 DEF SockInv, NeverStranded
  <1>2. CASE ~(~sock.mounted \/ sock.ws = "open")
    <2> DEFINE q == [sock EXCEPT !.attempts = 0, !.timer = FALSE]
    <2>1. DOMAIN q = SockFields /\ q.attempts = 0
      BY <1>0 DEF SockFields
    <2>2. sock' = Connect(q)
      BY <1>0, <1>2 DEF BecomesVisible
    <2> HIDE DEF q
    <2>3. DOMAIN sock' = SockFields /\ sock'.ws # "none" /\ sock'.attempts = 0
      BY <2>1, <2>2, ConnectGivesSocket
    <2>4. QED
      BY <1>0, <2>3, SocketAssumption DEF SockInv, NeverStranded
  <1>3. QED
    BY <1>1, <1>2

\* A visible page always has a socket, a timer or its first connection ahead, until it has
\* used up the attempts, for every limit on them.
THEOREM NeverEverStranded == ClientSpec => []NeverStranded
  <1>1. ClientInit => SockInv
    BY SocketAssumption DEF ClientInit, SocketInit, NoSock, SockInv, SockFields, NeverStranded
  <1>2. SockInv /\ [ClientNext]_clientvars => SockInv'
    <2> SUFFICES ASSUME SockInv, [ClientNext]_clientvars PROVE SockInv'
      OBVIOUS
    <2>1. CASE Hide
      BY <2>1, SockInvStays DEF Hide
    <2>2. CASE Show
      BY <2>2, ShowConnects
    <2>3. CASE End
      BY <2>3, NoSockIsFine DEF End
    <2>4. CASE Start
      <3>1. phase = "dead" /\ sock' = sock
        BY <2>4 DEF Start, Boot
      <3>2. ~sock.mounted
        BY <3>1 DEF SockInv
      <3>3. QED
        BY <3>1, <3>2 DEF SockInv, NeverStranded
    <2>5. ASSUME NEW t, LogoutEnds(t) PROVE SockInv'
      BY <2>5, SockInvStays DEF LogoutEnds, LoggedOut
    <2>6. CASE SessionStep
      BY <2>6, SessionKeepsPhase, SockInvStays DEF SessionStep
    <2>7. CASE LockStep
      BY <2>7, LockKeepsPhase, SockInvStays DEF LockStep
    <2>8. CASE SocketStep
      BY <2>8, SocketStepHolds
    <2>9. CASE Installing
      BY <2>9, NoSockIsFine DEF Installing
    <2>10. CASE UpdateStep /\ ~Installing
      <3>1. phase' = phase /\ sock' = sock
        BY <2>10 DEF UpdateStep, Installing, Publish, sessionvars
      <3>2. QED
        BY <3>1, SockInvStays
    <2>11. CASE UNCHANGED clientvars
      BY <2>11, SockInvStays DEF clientvars, sessionvars
    <2>12. QED
      BY <2>1, <2>2, <2>3, <2>4, <2>5, <2>6, <2>7, <2>8, <2>9, <2>10, <2>11
         DEF ClientNext
  <1>3. SockInv => NeverStranded
    BY DEF SockInv
  <1>4. QED
    BY <1>1, <1>2, <1>3, PTL DEF ClientSpec

----------------------------------------------------------------------------
(* The update.                                                             *)

UpdFields == {"status", "release", "mandatory", "checking", "seen", "saved"}

\* While a check runs nobody has been told yet, or they gave up; a mandatory update that
\* shows has a release, so its failure can be retried but not checked away.
UpdInv ==
    /\ DOMAIN upd = UpdFields
    /\ newest.code \in Nat \ {0}
    /\ upd.checking => ~told \/ gaveUp
    /\ upd.status \in Showing /\ upd.mandatory => upd.release # 0
    /\ MandatoryHolds

\* The update stands as it did while nobody touches it.
LEMMA UpdInvStays ==
    UpdInv /\ UNCHANGED <<newest, upd, told, gaveUp>> => UpdInv'
  BY DEF UpdInv, MandatoryHolds, Gate, Showing

\* The provider's and the user's own steps.
LEMMA UpdateMoves == UpdInv /\ (UpdateReacts \/ UpdateUser) => UpdInv'
  <1> SUFFICES ASSUME UpdInv, UpdateReacts \/ UpdateUser PROVE UpdInv'
    OBVIOUS
  <1> USE DEF UpdInv, MandatoryHolds, Gate, Showing, UpdFields
  <1>1. CASE CheckDone
    BY <1>1 DEF CheckDone
  <1>2. CASE CheckFails
    BY <1>2 DEF CheckFails
  <1>3. CASE Downloaded
    BY <1>3 DEF Downloaded
  <1>4. CASE UpdateFails
    BY <1>4 DEF UpdateFails
  <1>5. CASE Later
    BY <1>5 DEF Later
  <1>6. CASE Stay
    BY <1>6 DEF Stay
  <1>7. CASE Download
    BY <1>7 DEF Download
  <1>8. CASE CheckAgain
    BY <1>8 DEF CheckAgain
  <1>9. QED
    BY <1>1, <1>2, <1>3, <1>4, <1>5, <1>6, <1>7, <1>8 DEF UpdateReacts, UpdateUser

\* Downloads, failures, retries, restarts and releases published meanwhile never take an
\* unsupported build out from behind its screen, unless the user gave up after a failure.
THEOREM MandatoryAlwaysHolds == ClientSpec => []MandatoryHolds
  <1>1. ClientInit => UpdInv
    BY DEF ClientInit, UpdatesInit, UpdInv, UpdFields, MandatoryHolds, Gate, Showing
  <1>2. UpdInv /\ [ClientNext]_clientvars => UpdInv'
    <2> SUFFICES ASSUME UpdInv, [ClientNext]_clientvars PROVE UpdInv'
      OBVIOUS
    <2>1. CASE Hide \/ Show
      BY <2>1, UpdInvStays DEF Hide, Show, updvars
    <2>2. CASE End
      <3>1. /\ DOMAIN upd' = UpdFields /\ upd'.status = "up_to_date"
            /\ upd'.checking = FALSE /\ ~told' /\ newest' = newest
        BY <2>2 DEF End, UpdInv, UpdFields
      <3>2. QED
        BY <3>1 DEF UpdInv, MandatoryHolds, Gate, Showing
    <2>3. CASE Start
      <3>1. CASE UpdatesBoot
        <4>1. /\ DOMAIN upd' = UpdFields /\ upd'.mandatory = FALSE
              /\ ~told' /\ newest' = newest
          BY <3>1 DEF UpdatesBoot, UpdInv, UpdFields
        <4>2. QED
          BY <4>1 DEF UpdInv, MandatoryHolds, Gate, Showing
      <3>2. CASE UNCHANGED updvars
        BY <3>2, UpdInvStays DEF updvars
      <3>3. QED
        BY <2>3, <3>1, <3>2 DEF Start
    <2>4. ASSUME NEW t, LogoutEnds(t) PROVE UpdInv'
      BY <2>4, UpdInvStays DEF LogoutEnds, updvars
    <2>5. CASE SessionStep \/ LockStep \/ SocketStep
      BY <2>5, UpdInvStays DEF SessionStep, LockStep, SocketStep, updvars
    <2>6. CASE UpdateStep
      <3>1. CASE UpdateReacts \/ UpdateUser
        BY <3>1, UpdateMoves
      <3>2. ASSUME NEW least, Publish(least) PROVE UpdInv'
        <4>1. UNCHANGED <<upd, told, gaveUp>> /\ newest'.code \in Nat \ {0}
          BY <3>2 DEF Publish, UpdInv
        <4>2. QED
          BY <4>1 DEF UpdInv, MandatoryHolds, Gate, Showing
      <3>3. CASE Installed
        BY <3>3, UpdInvStays DEF Installed
      <3>4. QED
        BY <2>6, <3>1, <3>2, <3>3 DEF UpdateStep
    <2>7. CASE UNCHANGED clientvars
      BY <2>7, UpdInvStays DEF clientvars, updvars
    <2>8. QED
      BY <2>1, <2>2, <2>3, <2>4, <2>5, <2>6, <2>7 DEF ClientNext
  <1>3. UpdInv => MandatoryHolds
    BY DEF UpdInv
  <1>4. QED
    BY <1>1, <1>2, <1>3, PTL DEF ClientSpec

----------------------------------------------------------------------------
(* The session: types.                                                     *)

\* What can be fetched with the token while somebody is signed in.
Fetches == {"read", "peer", "fcm"}

\* The fields of the tasks, of the device and of the app, each with its type.
TaskKinds == Forms \cup Fetches \cup {"refresh", "hydrate", "change", "logout"}
TaskSteps == {"ask", "rehash", "told", "put", "open", "save", "profile", "rewrap",
              "fcm", "api", "end"}

TaskTypes == [kind : TaskKinds, who : Users \cup {None}, step : TaskSteps, pw : Nat, old : Nat,
              vault : Vaults, key : Keys \cup {None}, late : BOOLEAN]

DiskTypes == [token : Users \cup {None}, profile : Profiles \cup {None},
              key : Keys \cup {None}, cache : Users \cup {None}, fcm : BOOLEAN,
              drafts : SUBSET Users, mirror : Users \cup {None}]

AppTypes == [user : Profiles \cup {None}, loading : BOOLEAN, started : BOOLEAN,
             key : Keys \cup {None}, hydrating : BOOLEAN, peers : Users \cup {None}]

\* The session's own variables.
StateTypes ==
    /\ hash \in [Users -> Nat] /\ weak \subseteq Users /\ torn \subseteq Users
    /\ vault \in [Users -> Vaults]
    /\ push \in Users \cup {None}
    /\ disk \in DiskTypes
    /\ app \in AppTypes
    /\ phase \in {"front", "back", "dead"}
    /\ minted \in Nat \ {0}
    /\ events \in 0..MaxEvents

\* A task is at a step of its function, with what it needs there.
Fits(t) ==
    /\ t.kind \in Forms =>
           t.who # None /\ t.step \in {"ask", "rehash", "told", "put", "open", "save", "profile"}
    /\ t.kind \in {"refresh", "hydrate"} \cup Fetches => t.step = "ask"
    /\ t.kind \in Fetches => t.who # None
    /\ t.kind = "change" => t.who # None /\ t.step \in {"ask", "rewrap"}
    /\ t.kind = "logout" => t.who # None /\ t.step \in {"fcm", "api", "end"}
    /\ t.step = "open" => t.vault # None
    /\ t.step \in {"save", "rewrap"} => t.key # None

Fit == {t \in TaskTypes : Fits(t)}

TypesHold == StateTypes /\ tasks \subseteq Fit

\* What changes on the device but for these two is what the session stores.
SameBut == /\ disk'.token = disk.token /\ disk'.profile = disk.profile /\ disk'.key = disk.key
           /\ disk'.cache = disk.cache /\ disk'.fcm = disk.fcm

\* Drafts and the token's copy are stored beside the session.
LEMMA StoresBeside ==
    ASSUME disk \in DiskTypes, app \in AppTypes, PersistDraft \/ Mirrored
    PROVE  /\ UNCHANGED <<hash, weak, vault, push, minted, app, tasks, phase, mixed, torn, left>>
           /\ disk' \in DiskTypes /\ SameBut
           /\ events' = events \/ Event
           /\ disk'.mirror \in {disk.mirror, disk.token}
  <1> USE SessionAssumption DEF DiskTypes, SameBut, accounts
  <1>1. CASE PersistDraft
    <2>1. PICK spent \in SUBSET disk.drafts, own \in {{}, {UserId}} :
               disk' = [disk EXCEPT !.drafts = (@ \ spent) \cup own]
      BY <1>1 DEF PersistDraft
    <2>2. UserId \in Users
      BY <1>1 DEF PersistDraft, SignedIn, UserId, AppTypes, Profiles
    <2>3. (disk.drafts \ spent) \cup own \subseteq Users
      BY <2>1, <2>2
    <2>4. QED
      BY <1>1, <2>1, <2>3 DEF PersistDraft
  <1>2. CASE Mirrored
    BY <1>2 DEF Mirrored
  <1>3. QED
    BY <1>1, <1>2

\* A task as it begins.
LEMMA TaskBegins ==
    ASSUME NEW kind \in TaskKinds, NEW who \in Users \cup {None}
    PROVE  /\ Task(kind, who) \in TaskTypes
           /\ Task(kind, who).kind = kind /\ Task(kind, who).who = who
           /\ Task(kind, who).step = "ask" /\ Task(kind, who).pw = 0
           /\ Task(kind, who).vault = None /\ Task(kind, who).key = None
           /\ Task(kind, who).late = Leaving
  <1> DEFINE l == Leaving
             t == [kind |-> kind, who |-> who, step |-> "ask", pw |-> 0, old |-> 0,
                   vault |-> None, key |-> None, late |-> l]
  <1>1. l \in BOOLEAN
    BY DEF Leaving
  <1>2. Task(kind, who) = t
    BY DEF Task
  <1> HIDE DEF l
  <1>3. t \in TaskTypes
    BY <1>1 DEF TaskTypes, Vaults, TaskSteps
  <1>4. t.late = l
    OBVIOUS
  <1>5. t.kind = kind /\ t.who = who /\ t.step = "ask" /\ t.pw = 0 /\ t.vault = None /\ t.key = None
    OBVIOUS
  <1> HIDE DEF t
  <1>6. QED
    BY <1>2, <1>3, <1>4, <1>5, Zenon DEF l

\* Marking tasks as late changes nothing else about them.
LEMMA LateTasks ==
    ASSUME NEW S, S \subseteq Fit
    PROVE  /\ AllLate(S) \subseteq Fit
           /\ \A u : LateFor(u, S) \subseteq Fit
  <1>1. \A t \in Fit : [t EXCEPT !.late = TRUE] \in Fit
    BY DEF Fit, TaskTypes, Fits
  <1>2. QED
    BY <1>1 DEF AllLate, LateFor
\* The same task, further on.
MovesTo(t, n) ==
    /\ n \in TaskTypes
    /\ n.kind = t.kind /\ n.who = t.who /\ n.pw = t.pw /\ n.late = t.late

\* A task that goes on with another step, vault or key.
LEMMA StepOn ==
    ASSUME NEW t \in TaskTypes, NEW s \in TaskSteps, NEW v \in Vaults, NEW k \in Keys \cup {None}
    PROVE  /\ LET n == [t EXCEPT !.step = s]
              IN  MovesTo(t, n) /\ n.step = s /\ n.vault = t.vault /\ n.key = t.key
           /\ LET n == [t EXCEPT !.step = s, !.vault = v]
              IN  MovesTo(t, n) /\ n.step = s /\ n.vault = v /\ n.key = t.key
           /\ LET n == [t EXCEPT !.step = s, !.key = k]
              IN  MovesTo(t, n) /\ n.step = s /\ n.vault = t.vault /\ n.key = k
           /\ LET n == [t EXCEPT !.late = TRUE]
              IN  /\ n \in TaskTypes /\ n.kind = t.kind /\ n.who = t.who /\ n.pw = t.pw
                  /\ n.late /\ n.step = t.step /\ n.vault = t.vault /\ n.key = t.key
  BY DEF TaskTypes, MovesTo
\* t goes on as n, and nothing else does.
GoesOn(t, n) == tasks' = (tasks \ {t}) \cup {n} /\ MovesTo(t, n)
Ends(t) == tasks' = tasks \ {t}

\* The steps of a form up to its answer.
LEMMA FormsMove ==
    ASSUME TypesHold, NEW t \in tasks
    PROVE  /\ Registered(t) => \E n : /\ GoesOn(t, n) /\ n.step = "told"
                                      /\ n.vault = t.vault /\ n.key = t.key
           /\ Checked(t) => \E n : /\ GoesOn(t, n) /\ n.step \in {"told", "rehash"}
                                   /\ n.vault = vault[t.who] /\ n.key = t.key
           /\ Rehash(t) => \E n : /\ GoesOn(t, n) /\ n.step = "told"
                                  /\ n.vault = t.vault /\ n.key = t.key
           /\ Told(t) => \E n : /\ GoesOn(t, n) /\ n.step = IF t.vault = None THEN "put" ELSE "open"
                                /\ n.vault = t.vault /\ n.key = t.key
           /\ Save(t) => \/ t.kind = "unlock" /\ Ends(t)
                         \/ \E n : /\ t.kind # "unlock" /\ GoesOn(t, n) /\ n.step = "profile"
                                   /\ n.vault = t.vault /\ n.key = t.key
  <1>1. t \in TaskTypes /\ Fits(t) /\ vault \in [Users -> Vaults]
    BY DEF TypesHold, Fit, StateTypes
  <1> DEFINE n(s) == [t EXCEPT !.step = s]
             c(s) == [t EXCEPT !.step = s, !.vault = vault[t.who]]
  <1>2. ASSUME NEW s \in TaskSteps
        PROVE  MovesTo(t, n(s)) /\ n(s).step = s /\ n(s).vault = t.vault /\ n(s).key = t.key
    BY <1>1, StepOn DEF Vaults
  <1>3. ASSUME NEW s \in TaskSteps, t.who \in Users
        PROVE  /\ MovesTo(t, c(s)) /\ c(s).step = s
               /\ c(s).vault = vault[t.who] /\ c(s).key = t.key
    <2>1. vault[t.who] \in Vaults
      BY <1>1, <1>3
    <2>2. QED
      BY <1>1, <2>1 DEF TaskTypes, MovesTo
  <1>5. t.kind \in Forms => t.who \in Users
    BY <1>1 DEF TaskTypes, Fits
  <1> DEFINE rtold == n("told")
             put == n("put")
             open == n("open")
             profile == n("profile")
             ctold == c("told")
             crehash == c("rehash")
  <1>6. /\ MovesTo(t, rtold) /\ rtold.step = "told" /\ rtold.vault = t.vault /\ rtold.key = t.key
        /\ MovesTo(t, put) /\ put.step = "put" /\ put.vault = t.vault /\ put.key = t.key
        /\ MovesTo(t, open) /\ open.step = "open" /\ open.vault = t.vault /\ open.key = t.key
        /\ MovesTo(t, profile) /\ profile.step = "profile"
        /\ profile.vault = t.vault /\ profile.key = t.key
    BY <1>2 DEF TaskSteps
  <1>7. t.kind \in Forms => 
        /\ MovesTo(t, ctold) /\ ctold.step = "told"
        /\ ctold.vault = vault[t.who] /\ ctold.key = t.key
        /\ MovesTo(t, crehash) /\ crehash.step = "rehash"
        /\ crehash.vault = vault[t.who] /\ crehash.key = t.key
    BY <1>3, <1>5 DEF TaskSteps
  <1>8. /\ Registered(t) => tasks' = (tasks \ {t}) \cup {rtold}
        /\ Rehash(t) => tasks' = (tasks \ {t}) \cup {rtold}
        /\ Told(t) => tasks' = (tasks \ {t}) \cup {IF t.vault = None THEN put ELSE open}
        /\ Checked(t) => t.kind \in Forms /\
             tasks' \in {(tasks \ {t}) \cup {ctold}, (tasks \ {t}) \cup {crehash}}
        /\ Save(t) => tasks' = (tasks \ {t}) \cup (IF t.kind = "unlock" THEN {} ELSE {profile})
    BY DEF Registered, Rehash, Told, Checked, Save, Swap
  <1> HIDE DEF rtold, put, open, profile, ctold, crehash
  <1>9. Registered(t) \/ Rehash(t) => GoesOn(t, rtold)
    BY <1>6, <1>8 DEF GoesOn
  <1>10. Checked(t) => GoesOn(t, ctold) \/ GoesOn(t, crehash)
    BY <1>7, <1>8 DEF GoesOn
  <1>11. Told(t) => IF t.vault = None THEN GoesOn(t, put) ELSE GoesOn(t, open)
    BY <1>6, <1>8 DEF GoesOn
  <1>12. Save(t) => IF t.kind = "unlock" THEN Ends(t) ELSE GoesOn(t, profile)
    BY <1>6, <1>8 DEF GoesOn, Ends
  <1>13. Checked(t) => t.kind \in Forms
    BY <1>8
  <1>14. QED
    BY <1>6, <1>7, <1>9, <1>10, <1>11, <1>12, <1>13

\* What a form does when its vault cannot be opened or stored.
GoesOnWithoutKey(t) ==
    \/ t.kind \notin SigningIn /\ Ends(t)
    \/ \E n : t.kind \in SigningIn /\ GoesOn(t, n) /\ n.step = "profile"

\* It goes on in that way.
LEMMA WithoutKeyMoves ==
    ASSUME TypesHold, NEW t \in tasks, WithoutKey(t)
    PROVE  GoesOnWithoutKey(t)
  <1> DEFINE n == [t EXCEPT !.step = "profile"]
  <1>1. MovesTo(t, n) /\ n.step = "profile"
    BY DEF TypesHold, Fit, TaskTypes, TaskSteps, MovesTo
  <1>2. tasks' = (tasks \ {t}) \cup (IF t.kind \in SigningIn THEN {n} ELSE {})
    BY DEF WithoutKey, Swap
  <1> HIDE DEF n
  <1>3. QED
    BY <1>1, <1>2 DEF GoesOnWithoutKey, GoesOn, Ends

\* A vault opens with the password typed, or it does not.
LEMMA OpenMoves ==
    ASSUME TypesHold, NEW t \in tasks, Open(t)
    PROVE  \/ /\ t.vault.pw # t.pw /\ GoesOnWithoutKey(t)
              /\ mixed' = (mixed \/ t.late \/ app.key # None)
           \/ \E n : /\ GoesOn(t, n) /\ n.step = "save" /\ n.key = t.vault.key
                     /\ mixed' = mixed
  <1> DEFINE n == [t EXCEPT !.step = "save", !.key = t.vault.key]
  <1>1. t \in TaskTypes /\ t.vault \in ShutVaults
    BY DEF TypesHold, Fit, Fits, Open, TaskTypes, Vaults
  <1>2. MovesTo(t, n) /\ n.step = "save" /\ n.key = t.vault.key
    BY <1>1 DEF TaskTypes, TaskSteps, MovesTo, ShutVaults
  <1>3. CASE t.vault.pw = t.pw
    <2>1. tasks' = (tasks \ {t}) \cup {n} /\ mixed' = mixed
      BY <1>3 DEF Open, Swap
    <2> HIDE DEF n
    <2>2. QED
      BY <1>2, <2>1 DEF GoesOn
  <1>4. CASE t.vault.pw # t.pw
    BY <1>4, WithoutKeyMoves DEF Open
  <1>5. QED
    BY <1>3, <1>4

\* A new vault is stored and heard of, or the form goes on without a key.
LEMMA SetUpMoves ==
    ASSUME TypesHold, NEW t \in tasks, NEW stored \in BOOLEAN, NEW ok \in BOOLEAN,
           SetUp(t, stored, ok)
    PROVE  \/ ~ ok /\ GoesOnWithoutKey(t)
           \/ \E n : /\ ok /\ GoesOn(t, n) /\ n.step = "save" /\ n.key = Key(t.who, minted + 1)
  <1> DEFINE n == [t EXCEPT !.step = "save", !.key = Key(t.who, minted + 1)]
  <1>1. t \in TaskTypes /\ t.who \in Users /\ minted \in Nat
    BY SessionAssumption DEF TypesHold, Fit, Fits, SetUp, TaskTypes, StateTypes
  <1>2. Key(t.who, minted + 1) \in Keys
    BY <1>1 DEF Key, Keys
  <1>3. MovesTo(t, n) /\ n.step = "save" /\ n.key = Key(t.who, minted + 1)
    BY <1>1, <1>2 DEF TaskTypes, TaskSteps, MovesTo
  <1>4. CASE ok
    <2>1. tasks' = (tasks \ {t}) \cup {n}
      BY <1>4 DEF SetUp, Swap
    <2> HIDE DEF n
    <2>2. QED
      BY <1>3, <1>4, <2>1 DEF GoesOn
  <1>5. CASE ~ ok
    BY <1>5, WithoutKeyMoves DEF SetUp
  <1>6. QED
    BY <1>4, <1>5

\* The form of a login ends where the profile is asked for.
LEMMA LoginRefreshMoves ==
    ASSUME TypesHold, NEW t \in tasks, LoginRefreshes(t)
    PROVE  \E n : /\ tasks' = (tasks \ {t}) \cup {n}
                  /\ n \in TaskTypes /\ n.kind = "refresh" /\ n.who = disk.token
                  /\ n.step = "ask" /\ n.late = t.late
  <1> DEFINE b == Task("refresh", disk.token)
             n == [b EXCEPT !.late = t.late]
  <1>1. t \in TaskTypes /\ disk.token \in Users \cup {None} /\ "refresh" \in TaskKinds
    BY DEF TypesHold, Fit, StateTypes, DiskTypes, TaskKinds
  <1>2. b \in TaskTypes /\ b.kind = "refresh" /\ b.who = disk.token /\ b.step = "ask"
    BY <1>1, TaskBegins
  <1>3. tasks' = (tasks \ {t}) \cup {n}
    BY DEF LoginRefreshes, Swap
  <1> HIDE DEF b
  <1>4. /\ n \in TaskTypes /\ n.kind = "refresh" /\ n.who = disk.token
        /\ n.step = "ask" /\ n.late = t.late
    BY <1>1, <1>2 DEF TaskTypes
  <1> HIDE DEF n
  <1>5. QED
    BY <1>3, <1>4

\* Unregistering goes on with the logout.
LEMMA UnregisterMoves ==
    ASSUME TypesHold, NEW t \in tasks, NEW ok, Unregister(t, ok)
    PROVE  \E n : GoesOn(t, n) /\ n.step = "api"
  <1> DEFINE n == [t EXCEPT !.step = "api"]
  <1>1. MovesTo(t, n) /\ n.step = "api"
    BY DEF TypesHold, Fit, TaskTypes, TaskSteps, MovesTo
  <1>2. tasks' = (tasks \ {t}) \cup {n}
    BY DEF Unregister, Swap
  <1> HIDE DEF n
  <1>3. QED
    BY <1>1, <1>2 DEF GoesOn

\* The same task, in time or late.
SameButLate(t, n) ==
    /\ n \in TaskTypes
    /\ n.kind = t.kind /\ n.who = t.who /\ n.pw = t.pw /\ n.step = t.step
    /\ n.vault = t.vault /\ n.key = t.key
    /\ n.late = t.late \/ n.late

\* Others may become late; nothing disappears or is added but n.
LEMMA LateMoves ==
    ASSUME NEW S, S \subseteq TaskTypes
    PROVE  /\ \A n \in AllLate(S) : \E t \in S : SameButLate(t, n) /\ n.late
           /\ \A t \in S : \E n \in AllLate(S) : SameButLate(t, n)
           /\ \A u : \A n \in LateFor(u, S) : \E t \in S :
                 SameButLate(t, n) /\ (t.who = u => n.late) /\ (t.who # u => n = t)
           /\ \A u : \A t \in S : \E n \in LateFor(u, S) : SameButLate(t, n)
  <1>1. \A t \in S : t \in TaskTypes
    OBVIOUS
  <1> DEFINE l(t) == [t EXCEPT !.late = TRUE]
  <1>2. \A t \in TaskTypes : SameButLate(t, l(t)) /\ l(t).late /\ SameButLate(t, t)
    BY DEF TaskTypes, SameButLate
  <1>3. AllLate(S) = {l(t) : t \in S}
    BY DEF AllLate
  <1>4. \A u : LateFor(u, S) = {IF t.who = u THEN l(t) ELSE t : t \in S}
    BY DEF LateFor
  <1> HIDE DEF l
  <1>5. QED
    BY <1>1, <1>2, <1>3, <1>4

\* A logout leaves all other tasks late.
LEMMA WipeMoves ==
    ASSUME TypesHold, NEW t \in tasks, Wipe(t)
    PROVE  \E n : /\ MovesTo(t, n) /\ n.step = "end"
                  /\ tasks' = AllLate(tasks \ {t}) \cup {n}
  <1> DEFINE n == [t EXCEPT !.step = "end"]
  <1>1. MovesTo(t, n) /\ n.step = "end"
    BY DEF TypesHold, Fit, TaskTypes, TaskSteps, MovesTo
  <1>2. tasks' = AllLate(tasks \ {t}) \cup {n}
    BY DEF Wipe
  <1> HIDE DEF n
  <1>3. QED
    BY <1>1, <1>2

\* A changed password leaves the other tasks of that person late.
LEMMA ChangeMoves ==
    ASSUME TypesHold, NEW t \in tasks, NEW answered \in BOOLEAN, Changed(t, answered)
    PROVE  \/ /\ ~ (answered /\ t.key # None)
              /\ tasks' = LateFor(t.who, tasks \ {t})
           \/ \E n : /\ answered /\ t.key # None
                     /\ MovesTo(t, n) /\ n.step = "rewrap" /\ n.key = t.key
                     /\ tasks' = LateFor(t.who, tasks \ {t}) \cup {n}
  <1> DEFINE n == [t EXCEPT !.step = "rewrap"]
  <1>1. MovesTo(t, n) /\ n.step = "rewrap" /\ n.key = t.key
    BY DEF TypesHold, Fit, TaskTypes, TaskSteps, MovesTo
  <1>2. tasks' = LateFor(t.who, tasks \ {t})
                   \cup (IF answered /\ t.key # None THEN {n} ELSE {})
    BY DEF Changed
  <1> HIDE DEF n
  <1>3. QED
    BY <1>1, <1>2

\* A task begins; it is late at once if a logout is at its end.
Begins(n) == tasks' = tasks \cup {n} /\ n \in TaskTypes /\ n.late = Leaving

\* A form is sent.
LEMMA SubmitBegins ==
    ASSUME TypesHold, NEW kind \in Forms, NEW u \in Users, NEW pw \in Nat, Submit(kind, u, pw)
    PROVE  \E n : /\ Begins(n) /\ n.kind = kind /\ n.who = u /\ n.step = "ask" /\ n.pw = pw
                  /\ n.vault = None
  <1> DEFINE b == Task(kind, u)
             n == [b EXCEPT !.pw = pw]
  <1>1. b \in TaskTypes /\ b.kind = kind /\ b.who = u /\ b.step = "ask" /\ b.late = Leaving
        /\ b.vault = None
    BY TaskBegins DEF TaskKinds
  <1>2. tasks' = tasks \cup {n}
    BY DEF Submit
  <1> HIDE DEF b
  <1>3. /\ n \in TaskTypes /\ n.kind = kind /\ n.who = u /\ n.step = "ask" /\ n.pw = pw
        /\ n.late = b.late /\ n.vault = None
    BY <1>1 DEF TaskTypes
  <1> HIDE DEF n
  <1>4. n.late = Leaving
    BY <1>1, <1>3
  <1>5. QED
    BY <1>2, <1>3, <1>4 DEF Begins

\* A change of the password is sent.
LEMMA ChangeBegins ==
    ASSUME TypesHold, AskChange
    PROVE  \E n : /\ Begins(n) /\ n.kind = "change" /\ n.who = disk.token /\ n.step = "ask"
                  /\ n.pw = minted + 1 /\ n.key = app.key /\ disk.token # None
  <1> DEFINE b == Task("change", disk.token)
             old == hash[UserId]
             pw == minted + 1
             n == [b EXCEPT !.old = old, !.pw = pw, !.key = app.key]
  <1>1. /\ disk.token \in Users \cup {None} /\ app.key \in Keys \cup {None} /\ pw \in Nat
        /\ old \in Nat /\ disk.token # None
    BY DEF TypesHold, StateTypes, DiskTypes, AppTypes, AskChange, SignedIn, UserId, Profiles
  <1>2. b \in TaskTypes /\ b.kind = "change" /\ b.who = disk.token /\ b.step = "ask"
        /\ b.late = Leaving
    BY <1>1, TaskBegins DEF TaskKinds
  <1>3. tasks' = tasks \cup {n}
    BY DEF AskChange
  <1>7. pw = minted + 1
    OBVIOUS
  <1> HIDE DEF b, old, pw
  <1>4. /\ n \in TaskTypes /\ n.kind = "change" /\ n.who = disk.token /\ n.step = "ask"
        /\ n.pw = pw /\ n.key = app.key /\ n.late = b.late
    BY <1>1, <1>2 DEF TaskTypes
  <1> HIDE DEF n
  <1>5. n.late = Leaving
    BY <1>2, <1>4
  <1>6. QED
    BY <1>1, <1>3, <1>4, <1>5, <1>7 DEF Begins

\* What the pages ask for with the token of the moment.
LEMMA FetchBegins ==
    ASSUME TypesHold
    PROVE  /\ AskRefresh => \E n : /\ Begins(n) /\ n.kind = "refresh" /\ n.who = disk.token
                                   /\ n.step = "ask"
           /\ \A kind \in Fetches : Fetch(kind) =>
                 \E n : /\ Begins(n) /\ n.kind = kind /\ n.who = disk.token
                        /\ n.step = "ask" /\ disk.token # None
  <1>1. disk.token \in Users \cup {None}
    BY DEF TypesHold, StateTypes, DiskTypes
  <1>2. \A kind \in TaskKinds :
           LET b == Task(kind, disk.token)
           IN  b \in TaskTypes /\ b.kind = kind /\ b.who = disk.token /\ b.step = "ask"
               /\ b.late = Leaving
    BY <1>1, TaskBegins
  <1>3. AskRefresh => tasks' = tasks \cup {Task("refresh", disk.token)}
    BY DEF AskRefresh
  <1>4. \A kind \in Fetches : Fetch(kind) =>
            tasks' = tasks \cup {Task(kind, disk.token)} /\ disk.token # None
    BY DEF Fetch
  <1>5. "refresh" \in TaskKinds /\ Fetches \subseteq TaskKinds
    BY DEF TaskKinds
  <1>6. QED
    BY <1>2, <1>3, <1>4, <1>5 DEF Begins

\* A logout begins.
LEMMA LogoutBegins ==
    ASSUME TypesHold, AskLogout
    PROVE  \E n : /\ Begins(n) /\ n.kind = "logout" /\ n.who = UserId
                  /\ n.step \in {"fcm", "api"} /\ UserId # None
  <1> DEFINE b == Task("logout", UserId)
             n == [b EXCEPT !.step = IF disk.fcm THEN "fcm" ELSE "api"]
  <1>1. UserId \in Users /\ UserId # None
    BY SessionAssumption DEF TypesHold, StateTypes, AppTypes, AskLogout, SignedIn, UserId, Profiles
  <1>2. b \in TaskTypes /\ b.kind = "logout" /\ b.who = UserId /\ b.late = Leaving
    BY <1>1, TaskBegins DEF TaskKinds
  <1>3. tasks' = tasks \cup {n}
    BY DEF AskLogout
  <1> HIDE DEF b
  <1>4. /\ n \in TaskTypes /\ n.kind = "logout" /\ n.who = UserId
        /\ n.step \in {"fcm", "api"} /\ n.late = b.late
    BY <1>2 DEF TaskTypes, TaskSteps
  <1> HIDE DEF n
  <1>5. n.late = Leaving
    BY <1>2, <1>4
  <1>6. QED
    BY <1>1, <1>3, <1>4, <1>5 DEF Begins

\* The password of the lock screen is tried.
LEMMA UnlockBegins ==
    ASSUME TypesHold, NEW typed \in Nat, SubmitUnlock(typed)
    PROVE  \E n : /\ Begins(n) /\ n.kind = "unlock" /\ n.who = UserId /\ n.pw = typed
                  /\ n.vault = app.user.vault
                  /\ n.step = IF app.user.vault = None THEN "ask" ELSE "open"
                  /\ UserId \in Users
  <1> DEFINE b == Task("unlock", UserId)
             n == [b EXCEPT !.pw = typed, !.vault = app.user.vault,
                            !.step = IF app.user.vault = None THEN "ask" ELSE "open"]
  <1>1. UserId \in Users /\ app.user.vault \in Vaults
    BY DEF TypesHold, StateTypes, AppTypes, SubmitUnlock, UserId, Profiles
  <1>2. b \in TaskTypes /\ b.kind = "unlock" /\ b.who = UserId /\ b.late = Leaving
    BY <1>1, TaskBegins DEF TaskKinds, Forms
  <1>3. tasks' = tasks \cup {n}
    BY DEF SubmitUnlock
  <1> HIDE DEF b
  <1>4. /\ n \in TaskTypes /\ n.kind = "unlock" /\ n.who = UserId /\ n.pw = typed
        /\ n.vault = app.user.vault /\ n.late = b.late
        /\ n.step = IF app.user.vault = None THEN "ask" ELSE "open"
    BY <1>1, <1>2 DEF TaskTypes, TaskSteps
  <1> HIDE DEF n
  <1>5. n.late = Leaving
    BY <1>2, <1>4
  <1>6. QED
    BY <1>1, <1>3, <1>4, <1>5 DEF Begins

\* A step of a task leaves every task at a step of its function.
LEMMA TasksStayFit ==
    ASSUME TypesHold, NEW t \in tasks, SessionTask(t) \/ Save(t) \/ LoggedOut(t)
    PROVE  tasks' \subseteq Fit
  <1>1. t \in TaskTypes /\ Fits(t) /\ tasks \subseteq TaskTypes /\ tasks \subseteq Fit
    BY DEF TypesHold, Fit
  <1>2. ASSUME NEW n, GoesOn(t, n) \/ tasks' = (tasks \ {t}) \cup {n}, n \in TaskTypes, Fits(n)
        PROVE  tasks' \subseteq Fit
    BY <1>1, <1>2 DEF Fit, GoesOn
  <1>3. Ends(t) \/ Swap(t, {}) => tasks' \subseteq Fit
    BY <1>1 DEF Ends, Swap
  <1>4. CASE \E slide \in BOOLEAN : Refreshed(t, slide) \/ Fetched(t, slide)
    BY <1>3, <1>4 DEF Refreshed, Fetched
  <1>5. CASE RefreshFails(t) \/ Hydrated(t) \/ Fails(t) \/ Unheard(t) \/ LoggedOut(t)
    BY <1>3, <1>5 DEF RefreshFails, Hydrated, Fails, Unheard, LoggedOut
  <1>6. CASE \E ok \in BOOLEAN : Rewrap(t, ok)
    BY <1>3, <1>6 DEF Rewrap
  <1>7. CASE Registered(t)
    <2>1. PICK n : GoesOn(t, n) /\ n.step = "told" /\ n.vault = t.vault /\ n.key = t.key
      BY <1>7, FormsMove
    <2>2. t.kind = "register"
      BY <1>7 DEF Registered
    <2>3. n \in TaskTypes /\ Fits(n)
      BY <1>1, <2>1, <2>2 DEF GoesOn, MovesTo, Fits, Forms, Fetches
    <2>4. QED
      BY <1>2, <2>1, <2>3
  <1>8. CASE Checked(t)
    <2>1. PICK n : GoesOn(t, n) /\ n.step \in {"told", "rehash"}
      BY <1>8, FormsMove
    <2>2. t.kind \in Forms
      BY <1>8 DEF Checked
    <2>3. n \in TaskTypes /\ Fits(n)
      BY <1>1, <2>1, <2>2 DEF GoesOn, MovesTo, Fits, Forms, Fetches
    <2>4. QED
      BY <1>2, <2>1, <2>3
  <1>9. CASE Rehash(t)
    <2>1. PICK n : GoesOn(t, n) /\ n.step = "told" /\ n.vault = t.vault /\ n.key = t.key
      BY <1>9, FormsMove
    <2>2. t.kind \in Forms
      BY <1>9 DEF Rehash
    <2>3. n \in TaskTypes /\ Fits(n)
      BY <1>1, <2>1, <2>2 DEF GoesOn, MovesTo, Fits, Forms, Fetches
    <2>4. QED
      BY <1>2, <2>1, <2>3
  <1>10. CASE Told(t)
    <2>1. PICK n : /\ GoesOn(t, n) /\ n.step = IF t.vault = None THEN "put" ELSE "open"
                   /\ n.vault = t.vault /\ n.key = t.key
      BY <1>10, FormsMove
    <2>2. t.kind \in Forms
      BY <1>10 DEF Told
    <2>3. n \in TaskTypes /\ Fits(n)
      BY <1>1, <2>1, <2>2 DEF GoesOn, MovesTo, Fits, Forms, Fetches
    <2>4. QED
      BY <1>2, <2>1, <2>3
  <1>11. GoesOnWithoutKey(t) => tasks' \subseteq Fit
    <2>1. ASSUME NEW n, t.kind \in SigningIn, GoesOn(t, n), n.step = "profile"
          PROVE  tasks' \subseteq Fit
      <3>1. n \in TaskTypes /\ Fits(n)
        BY <1>1, <2>1 DEF GoesOn, MovesTo, Fits, Forms, Fetches, SigningIn
      <3>2. QED
        BY <1>2, <2>1, <3>1
    <2>2. QED
      BY <1>3, <2>1 DEF GoesOnWithoutKey
  <1>12. ASSUME NEW n, GoesOn(t, n), n.step = "save", n.key # None, t.kind \in Forms
         PROVE  tasks' \subseteq Fit
    <2>1. n \in TaskTypes /\ Fits(n)
      BY <1>1, <1>12 DEF GoesOn, MovesTo, Fits, Forms, Fetches
    <2>2. QED
      BY <1>2, <1>12, <2>1
  <1>13. CASE Open(t)
    <2>1. t.kind \in Forms /\ t.vault.key # None
      <3>1. t.step = "open" /\ t.vault \in ShutVaults
        BY <1>1, <1>13 DEF Open, Fits, TaskTypes, Vaults
      <3>2. QED
        BY <1>1, <3>1, SessionAssumption DEF Fits, TaskTypes, TaskKinds, ShutVaults
    <2>2. QED
      BY <1>11, <1>12, <1>13, <2>1, OpenMoves
  <1>14. ASSUME NEW stored \in BOOLEAN, NEW ok \in BOOLEAN, SetUp(t, stored, ok)
         PROVE  tasks' \subseteq Fit
    <2>1. t.kind \in Forms /\ Key(t.who, minted + 1) # None
      <3>1. t.kind \in Forms /\ t.who \in Users
        BY <1>1, <1>14 DEF SetUp, Fits, TaskTypes
      <3>2. Key(t.who, minted + 1) \in Keys
        BY <3>1 DEF Key, Keys, TypesHold, StateTypes
      <3>3. QED
        BY <3>1, <3>2, SessionAssumption
    <2>2. QED
      BY <1>11, <1>12, <1>14, <2>1, SetUpMoves
  <1>15. CASE LoginRefreshes(t)
    <2>1. PICK n : /\ tasks' = (tasks \ {t}) \cup {n}
                   /\ n \in TaskTypes /\ n.kind = "refresh" /\ n.step = "ask"
      BY <1>15, LoginRefreshMoves
    <2>2. Fits(n)
      BY <2>1 DEF Fits, Forms, Fetches
    <2>3. QED
      BY <1>2, <2>1, <2>2
  <1>16. ASSUME NEW answered \in BOOLEAN, Changed(t, answered) PROVE tasks' \subseteq Fit
    <2>1. LateFor(t.who, tasks \ {t}) \subseteq Fit
      BY <1>1, LateTasks
    <2>2. t.kind = "change"
      BY <1>16 DEF Changed
    <2>3. ASSUME NEW n, MovesTo(t, n), n.step = "rewrap", n.key = t.key, t.key # None
          PROVE  n \in Fit
      BY <1>1, <2>2, <2>3 DEF Fit, MovesTo, Fits, Forms, Fetches
    <2>4. QED
      BY <1>16, <2>1, <2>3, ChangeMoves
  <1>17. ASSUME NEW ok, Unregister(t, ok) PROVE tasks' \subseteq Fit
    <2>1. PICK n : GoesOn(t, n) /\ n.step = "api"
      BY <1>17, UnregisterMoves
    <2>2. t.kind = "logout"
      BY <1>17 DEF Unregister
    <2>3. n \in TaskTypes /\ Fits(n)
      BY <1>1, <2>1, <2>2 DEF GoesOn, MovesTo, Fits, Forms, Fetches
    <2>4. QED
      BY <1>2, <2>1, <2>3
  <1>18. CASE Wipe(t)
    <2>1. PICK n : /\ MovesTo(t, n) /\ n.step = "end"
                   /\ tasks' = AllLate(tasks \ {t}) \cup {n}
      BY <1>18, WipeMoves
    <2>2. t.kind = "logout"
      BY <1>18 DEF Wipe
    <2>3. n \in Fit
      BY <1>1, <2>1, <2>2 DEF Fit, MovesTo, Fits, Forms, Fetches
    <2>4. AllLate(tasks \ {t}) \subseteq Fit
      BY <1>1, LateTasks
    <2>5. QED
      BY <2>1, <2>3, <2>4
  <1>19. CASE Save(t)
    <2>1. ASSUME NEW n, GoesOn(t, n), n.step = "profile" PROVE tasks' \subseteq Fit
      <3>1. t.kind \in Forms
        BY <1>19 DEF Save
      <3>2. n \in TaskTypes /\ Fits(n)
        BY <1>1, <2>1, <3>1 DEF GoesOn, MovesTo, Fits, Forms, Fetches
      <3>3. QED
        BY <1>2, <2>1, <3>2
    <2>2. QED
      BY <1>3, <1>19, <2>1, FormsMove
  <1>20. QED
    BY <1>4, <1>5, <1>6, <1>7, <1>8, <1>9, <1>10, <1>13, <1>14, <1>15, <1>16, <1>17, <1>18, <1>19
    DEF SessionTask

\* So does a step that begins one.
LEMMA BegunFit ==
    ASSUME TypesHold, SessionUser \/ LockUser
    PROVE  tasks' \subseteq Fit
  <1>1. tasks \subseteq Fit
    BY DEF TypesHold
  <1>2. ASSUME NEW n, Begins(n), Fits(n) PROVE tasks' \subseteq Fit
    BY <1>1, <1>2 DEF Begins, Fit
  <1>3. hash \in [Users -> Nat] /\ \A u \in Users : u # None
    BY SessionAssumption DEF TypesHold, StateTypes
  <1>4. ASSUME NEW u \in Users, SubmitLogin(u) \/ SubmitRegister(u) \/ SubmitLazy(u)
        PROVE  tasks' \subseteq Fit
    <2>1. \E kind \in Forms, pw \in Nat : Submit(kind, u, pw)
      BY <1>3, <1>4 DEF SubmitLogin, SubmitRegister, SubmitLazy, Forms
    <2>2. PICK n : Begins(n) /\ n.kind \in Forms /\ n.who = u /\ n.step = "ask"
      BY <2>1, SubmitBegins
    <2>3. Fits(n)
      BY <1>3, <2>2 DEF Fits, Forms, Fetches
    <2>4. QED
      BY <1>2, <2>2, <2>3
  <1>5. CASE AskRefresh
    <2>1. PICK n : Begins(n) /\ n.kind = "refresh" /\ n.step = "ask"
      BY <1>5, FetchBegins
    <2>2. QED
      BY <1>2, <2>1 DEF Fits, Forms, Fetches
  <1>6. CASE AskChange
    <2>1. PICK n : Begins(n) /\ n.kind = "change" /\ n.who = disk.token /\ n.step = "ask"
                   /\ disk.token # None
      BY <1>6, ChangeBegins
    <2>2. QED
      BY <1>2, <2>1 DEF Fits, Forms, Fetches
  <1>7. CASE AskLogout
    <2>1. PICK n : Begins(n) /\ n.kind = "logout" /\ n.who = UserId /\ UserId # None
                   /\ n.step \in {"fcm", "api"}
      BY <1>7, LogoutBegins
    <2>2. QED
      BY <1>2, <2>1 DEF Fits, Forms, Fetches
  <1>8. ASSUME NEW kind \in Fetches, Fetch(kind) PROVE tasks' \subseteq Fit
    <2>1. PICK n : Begins(n) /\ n.kind = kind /\ n.who = disk.token /\ n.step = "ask"
                   /\ disk.token # None
      BY <1>8, FetchBegins
    <2>2. Fits(n)
      BY <2>1 DEF Fits, Forms, Fetches
    <2>3. QED
      BY <1>2, <2>1, <2>2
  <1>9. ASSUME NEW typed \in Nat, SubmitUnlock(typed) PROVE tasks' \subseteq Fit
    <2>1. PICK n : /\ Begins(n) /\ n.kind = "unlock" /\ n.who = UserId
                   /\ n.vault = app.user.vault
                   /\ n.step = IF app.user.vault = None THEN "ask" ELSE "open"
                   /\ UserId \in Users
      BY <1>9, UnlockBegins
    <2>2. Fits(n)
      BY <1>3, <2>1 DEF Fits, Forms, Fetches
    <2>3. QED
      BY <1>2, <2>1, <2>2
  <1>13. CASE PersistDraft
    BY <1>1, <1>13 DEF PersistDraft
  <1>10. CASE SessionUser
    BY <1>4, <1>5, <1>6, <1>7, <1>8, <1>10, <1>13 DEF SessionUser, Fetches
  <1>11. CASE LockUser
    <2>1. ASSUME NEW typed, SubmitUnlock(typed), app.user # None,
                 typed \in {hash[UserId]} \cup
                     (IF app.user.vault = None THEN {} ELSE {app.user.vault.pw})
          PROVE  typed \in Nat
      <3>1. app.user \in Profiles
        BY <2>1 DEF TypesHold, StateTypes, AppTypes
      <3>2. hash[UserId] \in Nat
        BY <1>3, <2>1, <3>1 DEF UserId, Profiles
      <3>3. app.user.vault # None => app.user.vault.pw \in Nat
        BY <3>1 DEF Profiles, Vaults, ShutVaults
      <3>4. QED
        BY <2>1, <3>2, <3>3
    <2>2. CASE \/ TimePasses \/ Verify \/ DeclineOffer \/ Disable
               \/ \E offer \in BOOLEAN : Enable(offer)
      BY <1>1, <2>2 DEF TimePasses, Verify, DeclineOffer, Disable, Enable, sessionvars
    <2>3. CASE LockLogout
      BY <1>7, <2>3 DEF LockLogout
    <2>4. QED
      BY <1>9, <1>11, <2>1, <2>2, <2>3 DEF LockUser
  <1>12. QED
    BY <1>10, <1>11

\* A step of a task leaves the rest of the state well typed.
LEMMA TasksKeepTypes ==
    ASSUME TypesHold, NEW t \in tasks, SessionTask(t) \/ Save(t) \/ LoggedOut(t)
    PROVE  StateTypes'
  <1> USE SessionAssumption DEF StateTypes, DiskTypes, AppTypes, accounts
  <1>1. t \in TaskTypes /\ Fits(t) /\ StateTypes
    BY DEF TypesHold, Fit
  <1>2. CASE Hydrated(t)
    BY <1>1, <1>2 DEF TaskTypes, Fits, Vaults, Hydrated
  <1>3. CASE Fails(t)
    BY <1>1, <1>3 DEF TaskTypes, Fits, Vaults, Fails
  <1>4. CASE Registered(t)
    BY <1>1, <1>4 DEF TaskTypes, Fits, Vaults, Registered, Forms
  <1>5. CASE Checked(t)
    BY <1>1, <1>5 DEF TaskTypes, Fits, Vaults, Checked, Forms
  <1>6. CASE Rehash(t)
    BY <1>1, <1>6 DEF TaskTypes, Fits, Vaults, Rehash
  <1>7. CASE Told(t)
    BY <1>1, <1>7 DEF TaskTypes, Fits, Vaults, Told
  <1>8. CASE Open(t)
    BY <1>1, <1>8 DEF TaskTypes, Fits, Vaults, Open
  <1>9. ASSUME NEW stored \in BOOLEAN, NEW ok \in BOOLEAN, SetUp(t, stored, ok) PROVE StateTypes'
    BY <1>1, <1>9 DEF TaskTypes, Fits, Vaults, SetUp, Locks, Key, ShutVaults, Keys
  <1>10. ASSUME NEW ok \in BOOLEAN, Changed(t, ok) PROVE StateTypes'
    BY <1>1, <1>10 DEF TaskTypes, Fits, Vaults, Changed
  <1>11. ASSUME NEW ok \in BOOLEAN, Unregister(t, ok) PROVE StateTypes'
    BY <1>1, <1>11 DEF TaskTypes, Fits, Vaults, Unregister
  <1>12. CASE Unheard(t)
    BY <1>1, <1>12 DEF TaskTypes, Fits, Vaults, Unheard, Fetches
  <1>13. CASE Wipe(t)
    BY <1>1, <1>13 DEF TaskTypes, Fits, Vaults, Wipe
  <1>14. CASE Save(t)
    BY <1>1, <1>14 DEF TaskTypes, Fits, Vaults, Save
  <1>15. CASE LoggedOut(t)
    BY <1>1, <1>15 DEF TaskTypes, Fits, Vaults, LoggedOut
  <1>16. ASSUME NEW slide \in BOOLEAN, Fetched(t, slide) PROVE StateTypes'
    <2>1. t.who \in Users
      BY <1>1, <1>16 DEF TaskTypes, Fits, Fetched, Fetches
    <2>2. /\ UNCHANGED <<hash, weak, vault, minted, phase, events, torn>>
          /\ push' = IF t.kind = "fcm" THEN t.who ELSE push
          /\ app' = IF t.kind = "peer" THEN [app EXCEPT !.peers = t.who] ELSE app
      BY <1>16 DEF Fetched
    <2>3. disk' = [disk EXCEPT !.cache = IF t.kind = "read" THEN t.who ELSE @,
                               !.fcm = @ \/ t.kind = "fcm",
                               !.token = IF slide THEN t.who ELSE @]
      BY <1>16 DEF Fetched
    <2>4. disk' \in DiskTypes
      BY <1>1, <2>1, <2>3
    <2>5. QED
      BY <1>1, <2>1, <2>2, <2>4
  <1>17. ASSUME NEW slide \in BOOLEAN, Refreshed(t, slide) PROVE StateTypes'
    <2>1. t.who \in Users /\ Profile(t.who) \in Profiles
      BY <1>1, <1>17 DEF Refreshed, Profile, Profiles, TaskTypes
    <2>2. /\ disk' = [disk EXCEPT !.profile = Profile(t.who),
                                  !.token = IF slide THEN t.who ELSE @]
          /\ app' = [app EXCEPT !.user = Profile(t.who), !.loading = FALSE, !.started = TRUE]
      BY <1>17 DEF Refreshed
    <2>3. disk' \in DiskTypes /\ app' \in AppTypes
      BY <1>1, <2>1, <2>2
    <2>4. QED
      BY <1>1, <1>17, <2>3 DEF Refreshed
  <1>18. CASE RefreshFails(t)
    <2> DEFINE user == IF disk.profile = None THEN None ELSE app.user
    <2>1. app' = [app EXCEPT !.user = user, !.loading = FALSE] /\ user \in Profiles \cup {None}
      BY <1>1, <1>18 DEF RefreshFails
    <2> HIDE DEF user
    <2>2. app' \in AppTypes
      BY <1>1, <2>1
    <2>3. QED
      BY <1>1, <1>18, <2>2 DEF RefreshFails
  <1>19. CASE LoginRefreshes(t)
    <2>1. app' = [app EXCEPT !.loading = @ \/ ~app.started]
      BY <1>19 DEF LoginRefreshes, AskProfile
    <2>2. app' \in AppTypes
      BY <1>1, <2>1
    <2>3. QED
      BY <1>1, <1>19, <2>2 DEF LoginRefreshes
  <1>20. ASSUME NEW stored \in BOOLEAN, Rewrap(t, stored) PROVE StateTypes'
    <2>1. t.who \in Users /\ t.key \in Keys
      <3>1. t.kind = "change" /\ t.key # None
        BY <1>1, <1>20 DEF TaskTypes, TaskKinds, Fits, Rewrap, Forms, Fetches
      <3>2. QED
        BY <1>1, <3>1 DEF TaskTypes, Fits
    <2>2. Locks(t.pw, t.key) \in Vaults
      BY <1>1, <2>1 DEF Locks, Vaults, ShutVaults, TaskTypes
    <2>3. stored => disk.token \in Users
      BY <1>1, <1>20 DEF Rewrap
    <2>4. vault' \in [Users -> Vaults]
      BY <1>1, <1>20, <2>2, <2>3 DEF Rewrap
    <2>5. torn' \subseteq Users
      BY <1>1, <1>20, <2>1, <2>3 DEF Rewrap
    <2>6. QED
      BY <1>1, <1>20, <2>4, <2>5 DEF Rewrap
  <1>21. QED
    BY <1>2, <1>3, <1>4, <1>5, <1>6, <1>7, <1>8, <1>9, <1>10, <1>11, <1>12,
       <1>13, <1>14, <1>15, <1>16, <1>17, <1>18, <1>19, <1>20
    DEF SessionTask

\* So does what people do, here and elsewhere.
LEMMA PeopleKeepTypes ==
    ASSUME TypesHold, SessionUser \/ LockUser \/ Elsewhere
    PROVE  StateTypes'
  <1> USE SessionAssumption DEF StateTypes, DiskTypes, AppTypes, accounts
  <1>1. StateTypes
    BY DEF TypesHold
  <1>2. Event => events' \in 0..MaxEvents
    BY <1>1 DEF Event
  <1>3. ASSUME NEW kind, NEW u, NEW pw, Submit(kind, u, pw) PROVE StateTypes'
    BY <1>1, <1>2, <1>3 DEF Submit
  <1>4. CASE \E u \in Users : SubmitLogin(u) \/ SubmitRegister(u) \/ SubmitLazy(u)
    BY <1>3, <1>4 DEF SubmitLogin, SubmitRegister, SubmitLazy
  <1>5. CASE AskRefresh
    <2>1. app' = [app EXCEPT !.loading = @ \/ ~app.started]
      BY <1>5 DEF AskRefresh, AskProfile
    <2>2. app' \in AppTypes
      BY <1>1, <2>1
    <2>3. QED
      BY <1>1, <1>2, <1>5, <2>2 DEF AskRefresh
  <1>6. CASE AskChange
    BY <1>1, <1>2, <1>6 DEF AskChange
  <1>7. CASE AskLogout
    BY <1>1, <1>2, <1>7 DEF AskLogout
  <1>8. ASSUME NEW kind, Fetch(kind) PROVE StateTypes'
    BY <1>1, <1>2, <1>8 DEF Fetch
  <1>14. CASE PersistDraft
    BY <1>1, <1>2, <1>14, StoresBeside
  <1>9. CASE SessionUser
    BY <1>4, <1>5, <1>6, <1>7, <1>8, <1>9, <1>14 DEF SessionUser
  <1>10. CASE LockUser
    <2>1. ASSUME NEW typed, SubmitUnlock(typed) PROVE StateTypes'
      BY <1>1, <1>2, <2>1 DEF SubmitUnlock
    <2>2. CASE TimePasses \/ Disable \/ \E offer \in BOOLEAN : Enable(offer)
      BY <1>1, <1>2, <2>2 DEF TimePasses, Disable, Enable
    <2>3. CASE Verify \/ DeclineOffer
      BY <1>1, <2>3 DEF Verify, DeclineOffer, sessionvars
    <2>4. QED
      BY <1>7, <1>10, <2>1, <2>2, <2>3 DEF LockUser, LockLogout
  <1>11. ASSUME NEW u \in Users, NEW stored \in BOOLEAN, ChangedElsewhere(u, stored)
         PROVE  StateTypes'
    <2>1. vault' \in [Users -> Vaults]
      <3>1. stored => vault[u] \in ShutVaults
        BY <1>1, <1>11 DEF ChangedElsewhere, Vaults
      <3>2. stored => [vault[u] EXCEPT !.pw = minted + 1] \in Vaults
        BY <1>1, <3>1 DEF Vaults, ShutVaults
      <3>3. QED
        BY <1>1, <1>11, <3>2 DEF ChangedElsewhere
    <2>2. QED
      BY <1>1, <1>2, <1>11, <2>1 DEF ChangedElsewhere
  <1>12. ASSUME NEW u \in Users, SetUpElsewhere(u) PROVE StateTypes'
    <2>1. Locks(hash[u], Key(u, minted + 1)) \in Vaults
      BY <1>1 DEF Locks, Key, Keys, Vaults, ShutVaults
    <2>2. QED
      BY <1>1, <1>2, <1>12, <2>1 DEF SetUpElsewhere
  <1>13. QED
    BY <1>9, <1>10, <1>11, <1>12 DEF Elsewhere

\* And every step of the shell.
LEMMA TypesInductive == TypesHold /\ [ClientNext]_clientvars => TypesHold'
  <1> SUFFICES ASSUME TypesHold, [ClientNext]_clientvars PROVE TypesHold'
    OBVIOUS
  <1> USE SessionAssumption
  <1>1. StateTypes /\ tasks \subseteq Fit
    BY DEF TypesHold
  <1>2. Event => events' \in 0..MaxEvents
    BY <1>1 DEF Event, StateTypes
  <1>3. UNCHANGED sessionvars => TypesHold'
    BY <1>1 DEF TypesHold, StateTypes, sessionvars, accounts
  <1>4. CASE Hide \/ Show
    BY <1>1, <1>2, <1>4 DEF Hide, Show, TypesHold, StateTypes, accounts
  <1>5. Kill => TypesHold'
    <2> SUFFICES ASSUME Kill PROVE TypesHold'
      OBVIOUS
    <2>1. app' \in AppTypes
      BY <1>1 DEF Kill, StateTypes, AppTypes
    <2>2. torn' \subseteq Users
      <3>1. \A t \in tasks : t.step = "rewrap" => t.who \in Users
        BY <1>1 DEF Fit, Fits, TaskTypes, TaskKinds, Forms, Fetches
      <3>2. QED
        BY <1>1, <3>1 DEF Kill, StateTypes
    <2>3. QED
      BY <1>1, <1>2, <2>1, <2>2 DEF Kill, TypesHold, StateTypes, accounts
  <1>6. CASE Start
    <2>1. app' \in AppTypes
      BY <1>1, <1>6 DEF Start, Boot, StateTypes, AppTypes, DiskTypes
    <2>2. "hydrate" \in TaskKinds /\ "refresh" \in TaskKinds
      BY DEF TaskKinds
    <2>3. Task("hydrate", None) \in Fit
      BY <2>2, TaskBegins DEF Fit, Fits, Forms, Fetches
    <2>4. \A token \in Users \cup {None} : Task("refresh", token) \in Fit
      BY <2>2, TaskBegins DEF Fit, Fits, Forms, Fetches
    <2>7. PICK token \in Users \cup {None} :
               /\ disk' = [disk EXCEPT !.token = token]
               /\ tasks' \subseteq {Task("hydrate", None), Task("refresh", token)}
      BY <1>1, <1>6 DEF Start, Boot, StateTypes, DiskTypes
    <2>5. tasks' \subseteq Fit /\ disk' \in DiskTypes
      BY <1>1, <2>3, <2>4, <2>7 DEF StateTypes, DiskTypes
    <2>6. QED
      BY <1>1, <1>6, <2>1, <2>5 DEF Start, Boot, TypesHold, StateTypes, accounts
  <1>7. ASSUME NEW t \in tasks, SessionTask(t) \/ Save(t) \/ LoggedOut(t) PROVE TypesHold'
    BY <1>7, TasksStayFit, TasksKeepTypes DEF TypesHold
  <1>8. ASSUME SessionUser \/ LockUser PROVE TypesHold'
    BY <1>8, BegunFit, PeopleKeepTypes DEF TypesHold
  <1>9. ASSUME Elsewhere PROVE TypesHold'
    <2>1. \E u \in Users : tasks' = LateFor(u, tasks)
      BY <1>9 DEF Elsewhere, ChangedElsewhere, SetUpElsewhere
    <2>2. QED
      BY <1>1, <1>9, <2>1, LateTasks, PeopleKeepTypes DEF TypesHold
  <1>10. CASE \E t \in tasks : LogoutEnds(t)
    BY <1>7, <1>10 DEF LogoutEnds
  <1>17. CASE Mirrored
    <2>1. /\ UNCHANGED <<hash, weak, vault, push, minted, app, tasks, phase, torn, events>>
          /\ disk' \in DiskTypes
      BY <1>1, <1>17, StoresBeside DEF StateTypes, Mirrored
    <2>2. QED
      BY <1>1, <2>1 DEF TypesHold, StateTypes
  <1>11. CASE SessionStep
    BY <1>7, <1>8, <1>9, <1>11, <1>17 DEF SessionStep
  <1>12. CASE LockStep
    BY <1>7, <1>8, <1>12 DEF LockStep, SaveUnlocks
  <1>13. CASE SocketStep
    <2>1. UNCHANGED <<accounts, disk, app, tasks, phase, torn>> /\ events' \in 0..MaxEvents
      BY <1>1, <1>2, <1>13 DEF SocketStep, StateTypes
    <2>2. QED
      BY <1>1, <2>1 DEF TypesHold, StateTypes, accounts
  <1>14. ASSUME NEW least, Publish(least) PROVE TypesHold'
    <2>1. UNCHANGED <<accounts, disk, app, tasks, phase, torn>> /\ events' \in 0..MaxEvents
      BY <1>2, <1>14 DEF Publish
    <2>2. QED
      BY <1>1, <2>1 DEF TypesHold, StateTypes, accounts
  <1>15. CASE UpdateStep
    BY <1>3, <1>5, <1>14, <1>15 DEF UpdateStep
  <1>16. QED
    BY <1>3, <1>4, <1>5, <1>6, <1>10, <1>11, <1>12, <1>13, <1>15
    DEF ClientNext, End, clientvars

\* And what the app starts with.
LEMMA TypesInitially == ClientInit => TypesHold
  <1> SUFFICES ASSUME ClientInit PROVE TypesHold
    OBVIOUS
  <1> USE SessionAssumption DEF TypesHold, StateTypes, DiskTypes, AppTypes
  <1>1. CASE SessionInit
    BY <1>1 DEF SessionInit, NewDisk, Vaults
  <1>2. CASE ~ SessionInit
    <2>1. PICK u \in Users \ Newcomers :
               /\ hash = [v \in Users |-> IF v \in Newcomers THEN 0 ELSE 1]
               /\ weak = {}
               /\ vault = [v \in Users |-> IF v = u THEN Locks(1, Key(u, 1)) ELSE None]
               /\ push = None
               /\ disk = [token |-> u, profile |-> Profile(u), key |-> Key(u, 1),
                          cache |-> None, fcm |-> FALSE, drafts |-> {}, mirror |-> u]
               /\ app = [user |-> Profile(u), loading |-> FALSE, started |-> TRUE,
                         key |-> Key(u, 1), hydrating |-> FALSE, peers |-> None]
      BY <1>2 DEF ClientInit
    <2>2. /\ tasks = {} /\ phase = "front" /\ minted = 1 /\ events = 0 /\ torn = {}
      BY <1>2 DEF ClientInit
    <2>3. Key(u, 1) \in Keys
      BY DEF Key, Keys
    <2>4. Locks(1, Key(u, 1)) \in Vaults
      BY <2>3 DEF Locks, Vaults, ShutVaults
    <2>5. vault \in [Users -> Vaults]
      BY <2>1, <2>4 DEF Vaults
    <2>6. Profile(u) \in Profiles
      BY <2>5 DEF Profile, Profiles
    <2> HIDE DEF Profile, Key, Locks
    <2>7. hash \in [Users -> Nat]
      BY <2>1
    <2>8. disk \in DiskTypes /\ app \in AppTypes
      BY <2>1, <2>3, <2>6
    <2>9. QED
      BY <2>1, <2>2, <2>5, <2>7, <2>8
  <1>3. QED
    BY <1>1, <1>2

----------------------------------------------------------------------------
(* The session: vaults and passwords.                                      *)

\* Forms that still have to send or to use the password, and changes of it.
Trying(t) ==
    t.kind = "change" \/ (t.kind \in Forms /\ t.step \in {"ask", "rehash", "told", "put"})

\* Whoever is signed in anywhere, has a vault or waits for an answer is registered.
Known(u) == hash[u] # 0

\* A registration before its answer.
Newly(t) == t.kind = "register" /\ t.step = "ask"

PeopleAreKnown ==
    /\ disk.token # None => Known(disk.token)
    /\ disk.mirror # None => Known(disk.mirror)
    /\ disk.profile # None => Known(disk.profile.id)
    /\ app.user # None => Known(app.user.id)
    /\ \A u \in Users : vault[u] # None => Known(u)
    /\ \A t \in tasks : t.who # None /\ ~ Newly(t) => Known(t.who)

\* Nobody tries the password of those who have none, nor changes to the first one.
TriesAreReal ==
    \A t \in tasks : (Trying(t) => t.pw # 0) /\ (t.kind = "change" => t.pw > 1)

\* But for the first password, which everybody has once, no two people use the same.
Uses(u, n) == hash[u] = n \/ \E t \in tasks : Trying(t) /\ t.who = u /\ t.pw = n

PasswordsAreOwn ==
    \A u \in Users, n \in Nat : Uses(u, n) =>
        /\ n <= minted
        /\ \A v \in Users : Uses(v, n) /\ n > 1 => u = v

\* A form in time has the password that signs in.
FormsAreCurrent ==
    \A t \in tasks :
        ~ t.late /\ t.kind \in Forms /\ t.step \in {"told", "put"} /\ t.who \notin torn
            => t.pw = hash[t.who]

\* A vault that does not open waits for its change.
Rewrapping(t) == t.kind = "change" /\ t.step = "rewrap"

VaultsOpenSoon ==
    \A u \in Users \ torn : vault[u] # None =>
        vault[u].pw = hash[u] \/ \E t \in tasks : Rewrapping(t) /\ t.who = u

VaultInv ==
    /\ TypesHold
    /\ PeopleAreKnown
    /\ TriesAreReal
    /\ PasswordsAreOwn
    /\ FormsAreCurrent
    /\ VaultsOpenSoon

\* What becomes of the tasks when t takes a step: t goes on or ends, the others stay.
Follows(t, n) ==
    /\ MovesTo(t, n) /\ n.step # "ask"
    /\ Trying(n) => Trying(t)
    /\ n.step = "end" => Wipe(t)

\* The profile of a new session is asked for again.
Refreshing(t, n) ==
    n.kind = "refresh" /\ n.who = disk.token /\ n.step = "ask" /\ n.late = t.late

\* One task goes on, the others at most become late, and none of them is lost.
Evolves(t) ==
    /\ \A n \in tasks' : \/ \E s \in tasks \ {t} : SameButLate(s, n)
                         \/ Follows(t, n)
                         \/ t.step = "profile" /\ Refreshing(t, n)
    /\ \A s \in tasks \ {t} : \E n \in tasks' : SameButLate(s, n)

\* Every step of a task is of this form, and the others stay.
LEMMA TasksEvolve ==
    ASSUME TypesHold, NEW t \in tasks, SessionTask(t) \/ Save(t) \/ LoggedOut(t)
    PROVE  Evolves(t)
  <1>1. t \in TaskTypes /\ Fits(t) /\ tasks \subseteq TaskTypes
    BY DEF TypesHold, Fit
  <1>2. \A s \in tasks : SameButLate(s, s)
    BY <1>1 DEF SameButLate
  <1>3. Ends(t) \/ Swap(t, {}) => Evolves(t)
    BY <1>2 DEF Ends, Swap, Evolves
  <1>4. ASSUME NEW n, GoesOn(t, n), n.step \notin {"ask", "end"}, Trying(n) => Trying(t)
        PROVE  Evolves(t)
    BY <1>2, <1>4 DEF GoesOn, Evolves, Follows
  <1>5. CASE \E slide \in BOOLEAN : Refreshed(t, slide) \/ Fetched(t, slide)
    BY <1>3, <1>5 DEF Refreshed, Fetched
  <1>6. CASE RefreshFails(t) \/ Hydrated(t) \/ Fails(t) \/ Unheard(t) \/ LoggedOut(t)
    BY <1>3, <1>6 DEF RefreshFails, Hydrated, Fails, Unheard, LoggedOut
  <1>7. CASE \E ok \in BOOLEAN : Rewrap(t, ok)
    BY <1>3, <1>7 DEF Rewrap
  <1>8. CASE Registered(t) \/ Checked(t) \/ Rehash(t) \/ Told(t)
    <2>1. t.kind \in Forms /\ t.step \in {"ask", "rehash", "told"}
      BY <1>8 DEF Registered, Checked, Rehash, Told, Forms
    <2>2. Trying(t)
      BY <2>1 DEF Trying
    <2>3. \E n : GoesOn(t, n) /\ n.step \notin {"ask", "end"}
      BY <1>8, FormsMove
    <2>4. QED
      BY <1>4, <2>2, <2>3
  <1>9. ASSUME NEW n, GoesOn(t, n), n.step = "profile" \/ n.step = "save", t.kind # "change"
        PROVE  Evolves(t)
    BY <1>4, <1>9 DEF Trying, GoesOn, MovesTo
  <1>10. GoesOnWithoutKey(t) => Evolves(t)
    BY <1>3, <1>9 DEF GoesOnWithoutKey, SigningIn
  <1>11. CASE Open(t)
    <2>1. t.kind # "change"
      BY <1>1, <1>11 DEF Open, Fits
    <2>2. QED
      BY <1>9, <1>10, <1>11, <2>1, OpenMoves
  <1>12. ASSUME NEW stored \in BOOLEAN, NEW ok \in BOOLEAN, SetUp(t, stored, ok)
         PROVE  Evolves(t)
    <2>1. t.kind # "change"
      BY <1>12 DEF SetUp, Forms
    <2>2. QED
      BY <1>9, <1>10, <1>12, <2>1, SetUpMoves
  <1>13. CASE LoginRefreshes(t)
    <2>1. PICK n : /\ tasks' = (tasks \ {t}) \cup {n}
                   /\ n \in TaskTypes /\ n.kind = "refresh" /\ n.who = disk.token
                   /\ n.step = "ask" /\ n.late = t.late
      BY <1>13, LoginRefreshMoves
    <2>2. t.step = "profile"
      BY <1>13 DEF LoginRefreshes
    <2>3. Refreshing(t, n)
      BY <2>1 DEF Refreshing
    <2>4. QED
      BY <1>2, <2>1, <2>2, <2>3 DEF Evolves
  <1>14. ASSUME NEW ok, Unregister(t, ok) PROVE Evolves(t)
    <2>1. PICK n : GoesOn(t, n) /\ n.step = "api"
      BY <1>14, UnregisterMoves
    <2>2. ~ Trying(n)
      BY <1>14, <2>1 DEF Unregister, Trying, GoesOn, MovesTo, Forms
    <2>3. QED
      BY <1>4, <2>1, <2>2
  <1>15. CASE Wipe(t)
    <2>1. PICK n : /\ MovesTo(t, n) /\ n.step = "end"
                   /\ tasks' = AllLate(tasks \ {t}) \cup {n}
      BY <1>15, WipeMoves
    <2>2. Follows(t, n)
      BY <1>15, <2>1 DEF Wipe, Follows, Trying, MovesTo, Forms
    <2>3. tasks \ {t} \subseteq TaskTypes
      BY <1>1
    <2>4. QED
      BY <2>1, <2>2, <2>3, LateMoves DEF Evolves
  <1>16. ASSUME NEW answered \in BOOLEAN, Changed(t, answered) PROVE Evolves(t)
    <2>1. Trying(t)
      BY <1>16 DEF Changed, Trying
    <2>2. tasks \ {t} \subseteq TaskTypes
      BY <1>1
    <2>3. CASE tasks' = LateFor(t.who, tasks \ {t})
      BY <2>2, <2>3, LateMoves DEF Evolves
    <2>4. ASSUME NEW n, MovesTo(t, n), n.step = "rewrap",
                 tasks' = LateFor(t.who, tasks \ {t}) \cup {n}
          PROVE  Evolves(t)
      <3>1. Follows(t, n)
        BY <2>1, <2>4 DEF Follows
      <3>2. QED
        BY <2>2, <2>4, <3>1, LateMoves DEF Evolves
    <2>5. QED
      BY <1>16, <2>3, <2>4, ChangeMoves
  <1>17. CASE Save(t)
    <2>1. t.kind # "change"
      BY <1>17 DEF Save, Forms
    <2>2. QED
      BY <1>3, <1>9, <1>17, <2>1, FormsMove
  <1>18. QED
    BY <1>5, <1>6, <1>7, <1>8, <1>11, <1>12, <1>13, <1>14, <1>15, <1>16, <1>17 DEF SessionTask

\* A step of a task brings in nobody but its own, who is registered by then.
Answers(t) == t.who \in Users /\ ~ Newly(t)

\* Whoever is in the app or on the device after it was there before, or is the task's.
LEMMA PeopleMove ==
    ASSUME TypesHold, NEW t \in tasks, SessionTask(t) \/ Save(t) \/ LoggedOut(t)
    PROVE  /\ disk'.token \in {None, disk.token} \/ (disk'.token = t.who /\ Answers(t))
           /\ disk'.profile \in {None, disk.profile} \/ (disk'.profile.id = t.who /\ Answers(t))
           /\ app'.user \in {None, app.user} \/ (app'.user.id = t.who /\ Answers(t))
           /\ Newly(t) => Registered(t) \/ Fails(t)
  <1>1. t \in TaskTypes /\ Fits(t) /\ disk \in DiskTypes /\ app \in AppTypes
    BY DEF TypesHold, Fit, StateTypes
  <1> USE DEF DiskTypes, AppTypes, Newly, Answers
  <1>2. ASSUME UNCHANGED disk, app'.user \in {None, app.user}, Newly(t) => Registered(t) \/ Fails(t)
        PROVE  /\ disk'.token \in {None, disk.token}
               /\ disk'.profile \in {None, disk.profile}
               /\ app'.user \in {None, app.user}
               /\ Newly(t) => Registered(t) \/ Fails(t)
    BY <1>2
  <1>3. CASE \/ Registered(t) \/ Checked(t) \/ Rehash(t) \/ Fails(t) \/ Unheard(t) \/ Hydrated(t)
             \/ RefreshFails(t) \/ LoginRefreshes(t) \/ LoggedOut(t) \/ Open(t)
             \/ \E stored, ok \in BOOLEAN : SetUp(t, stored, ok)
             \/ \E ok \in BOOLEAN : Changed(t, ok) \/ Rewrap(t, ok)
    <2>1. UNCHANGED disk
      BY <1>3 DEF Registered, Checked, Rehash, Fails, Unheard, Hydrated, RefreshFails,
                  LoginRefreshes, LoggedOut, Open, SetUp, Changed, Rewrap
    <2>2. app' = app \/ app'.user \in {None, app.user}
      <3>1. CASE Hydrated(t) \/ LoggedOut(t) \/ LoginRefreshes(t)
        BY <1>1, <3>1 DEF Hydrated, LoggedOut, LoginRefreshes, AskProfile
      <3>2. CASE RefreshFails(t)
        BY <1>1, <3>2 DEF RefreshFails
      <3>3. QED
        BY <1>3, <3>1, <3>2 DEF Registered, Checked, Rehash, Fails, Unheard, Open, SetUp, Changed,
                                Rewrap
    <2>3. Newly(t) => Registered(t) \/ Fails(t)
      BY <1>3 DEF Checked, Rehash, Unheard, Hydrated, RefreshFails,
                  LoginRefreshes, LoggedOut, Open, SetUp, Changed, Rewrap
    <2>4. QED
      BY <1>2, <2>1, <2>2, <2>3
  <1>4. CASE Told(t)
    BY <1>1, <1>4 DEF Told, TaskTypes, Fits
  <1>5. CASE Save(t)
    BY <1>1, <1>5 DEF Save
  <1>6. CASE Wipe(t)
    BY <1>1, <1>6 DEF Wipe
  <1>7. ASSUME NEW ok, Unregister(t, ok)
        PROVE  /\ UNCHANGED app /\ disk'.token = disk.token
                /\ disk'.profile = disk.profile /\ ~ Newly(t)
    BY <1>1, <1>7 DEF Unregister
  <1>8. ASSUME NEW slide \in BOOLEAN, Refreshed(t, slide)
        PROVE  /\ disk'.token \in {disk.token, t.who} /\ disk'.profile.id = t.who
               /\ app'.user.id = t.who /\ Answers(t)
    BY <1>1, <1>8 DEF Refreshed, Profile, TaskTypes
  <1>9. ASSUME NEW slide \in BOOLEAN, Fetched(t, slide)
        PROVE  /\ disk'.token \in {disk.token, t.who} /\ disk'.profile = disk.profile
               /\ app'.user = app.user /\ Answers(t)
    <2>1. Answers(t)
      BY <1>1, <1>9 DEF Fetched, TaskTypes, Fits, Fetches
    <2>2. disk' = [disk EXCEPT !.cache = IF t.kind = "read" THEN t.who ELSE @,
                               !.fcm = @ \/ t.kind = "fcm",
                               !.token = IF slide THEN t.who ELSE @]
      BY <1>9 DEF Fetched
    <2>3. disk'.token \in {disk.token, t.who} /\ disk'.profile = disk.profile
      BY <1>1, <2>2
    <2>4. app'.user = app.user
      BY <1>1, <1>9 DEF Fetched
    <2>5. QED
      BY <2>1, <2>3, <2>4
  <1>10. QED
    BY <1>3, <1>4, <1>5, <1>6, <1>7, <1>8, <1>9 DEF SessionTask

\* Nor does it set a password but the one it tries, or another vault than that of the token.
LEMMA AccountsMove ==
    ASSUME TypesHold, NEW t \in tasks, SessionTask(t) \/ Save(t) \/ LoggedOut(t)
    PROVE  /\ \A u \in Users : /\ hash'[u] = hash[u] \/ (u = t.who /\ Trying(t) /\ hash'[u] = t.pw)
                               /\ vault'[u] = vault[u] \/ u = disk.token
           /\ minted' \in {minted, minted + 1}
           /\ torn \subseteq torn'
           /\ Registered(t) => Trying(t) /\ hash'[t.who] = t.pw
  <1>1. hash \in [Users -> Nat] /\ vault \in [Users -> Vaults] /\ t \in TaskTypes /\ Fits(t)
    BY DEF TypesHold, StateTypes, Fit
  <1>2. CASE Registered(t)
    BY <1>1, <1>2 DEF Registered, Trying, Forms, Fits, TaskTypes
  <1>3. CASE Rehash(t)
    BY <1>1, <1>3 DEF Rehash, Trying, Registered
  <1>4. ASSUME NEW stored \in BOOLEAN, NEW ok \in BOOLEAN, SetUp(t, stored, ok)
        PROVE  /\ UNCHANGED hash /\ torn \subseteq torn' /\ minted' \in {minted, minted + 1}
               /\ \A u \in Users : vault'[u] = vault[u] \/ u = disk.token
               /\ ~ Registered(t)
    BY <1>1, <1>4 DEF SetUp, Registered
  <1>5. ASSUME NEW answered \in BOOLEAN, Changed(t, answered)
        PROVE  /\ \A u \in Users : hash'[u] = hash[u] \/ (u = t.who /\ hash'[u] = t.pw)
               /\ UNCHANGED <<vault, minted>> /\ torn \subseteq torn' /\ Trying(t)
               /\ ~ Registered(t)
    BY <1>1, <1>5 DEF Changed, Trying, Registered
  <1>6. ASSUME NEW stored \in BOOLEAN, Rewrap(t, stored)
        PROVE  /\ UNCHANGED <<hash, minted>> /\ torn \subseteq torn'
               /\ \A u \in Users : vault'[u] = vault[u] \/ u = disk.token
               /\ ~ Registered(t)
    BY <1>1, <1>6 DEF Rewrap, Registered
  <1>7. ASSUME UNCHANGED <<hash, vault, minted, torn>>, ~ Registered(t)
        PROVE  /\ \A u \in Users : hash'[u] = hash[u] /\ vault'[u] = vault[u]
               /\ minted' = minted /\ torn \subseteq torn' /\ ~ Registered(t)
    BY <1>7
  <1>8. CASE \/ Refreshed(t, TRUE) \/ Refreshed(t, FALSE) \/ Fetched(t, TRUE) \/ Fetched(t, FALSE)
             \/ RefreshFails(t) \/ Hydrated(t) \/ Fails(t) \/ Checked(t) \/ Told(t) \/ Open(t)
             \/ LoginRefreshes(t) \/ Unregister(t, TRUE) \/ Unregister(t, FALSE)
             \/ Unheard(t) \/ Wipe(t) \/ Save(t) \/ LoggedOut(t)
    <2>1. UNCHANGED <<hash, vault, minted, torn>>
      BY <1>8 DEF Refreshed, Fetched, RefreshFails, Hydrated, Fails, Checked, Told, Open,
                  LoginRefreshes, Unregister, Unheard, Wipe, Save, LoggedOut, accounts
    <2>2. CASE Registered(t)
      BY <1>2, <2>2
    <2>3. QED
      BY <1>7, <2>1, <2>2
  <1>9. QED
    BY <1>2, <1>3, <1>4, <1>5, <1>6, <1>8 DEF SessionTask

\* No task waits for the token's copy.
LEMMA CopyStays ==
    ASSUME TypesHold, NEW t \in tasks, SessionTask(t) \/ Save(t) \/ LoggedOut(t)
    PROVE  disk'.mirror = disk.mirror
  <1>1. disk \in DiskTypes
    BY DEF TypesHold, StateTypes
  <1>2. ASSUME NEW slide \in BOOLEAN, Refreshed(t, slide) \/ Fetched(t, slide)
        PROVE  disk'.mirror = disk.mirror
    BY <1>1, <1>2 DEF Refreshed, Fetched, DiskTypes
  <1>3. CASE Told(t) \/ Save(t) \/ Wipe(t) \/ \E ok \in BOOLEAN : Unregister(t, ok)
    BY <1>1, <1>3 DEF Told, Save, Wipe, Unregister, DiskTypes
  <1>4. disk' = disk => disk'.mirror = disk.mirror
    OBVIOUS
  <1>5. QED
    BY <1>2, <1>3, <1>4
    DEF SessionTask, RefreshFails, Hydrated, Fails, Registered, Checked, Rehash, Open,
        LoginRefreshes, SetUp, Changed, Rewrap, Unheard, LoggedOut

\* Whoever was registered stays so, and a newcomer's answer comes after the registration.
LEMMA TasksKnowPeople ==
    ASSUME VaultInv, NEW t \in tasks, SessionTask(t) \/ Save(t) \/ LoggedOut(t)
    PROVE  PeopleAreKnown' /\ TriesAreReal'
  <1>1. /\ t \in TaskTypes /\ Fits(t) /\ tasks \subseteq TaskTypes /\ disk \in DiskTypes
        /\ \A s \in tasks : s.who \in Users \cup {None}
    BY DEF VaultInv, TypesHold, Fit, StateTypes, TaskTypes
  <1>2. ASSUME NEW u \in Users, Known(u) PROVE Known(u)'
    <2>1. hash'[u] = hash[u] \/ (Trying(t) /\ hash'[u] = t.pw)
      BY <1>2, AccountsMove DEF VaultInv
    <2>2. QED
      BY <1>2, <2>1 DEF Known, VaultInv, TriesAreReal
  <1>3. t.who \in Users /\ (~ Newly(t) \/ Registered(t)) => Known(t.who)'
    <2>1. t.who \in Users /\ ~ Newly(t) => Known(t.who)
      BY SessionAssumption DEF VaultInv, PeopleAreKnown
    <2>2. Registered(t) => Known(t.who)'
      BY AccountsMove DEF VaultInv, TriesAreReal, Known
    <2>3. QED
      BY <1>2, <2>1, <2>2
  <1>4. (disk.token # None => Known(disk.token))'
    BY <1>1, <1>2, <1>3, PeopleMove DEF VaultInv, PeopleAreKnown, Answers, DiskTypes
  <1>12. (disk.mirror # None => Known(disk.mirror))'
    BY <1>1, <1>2, CopyStays DEF VaultInv, PeopleAreKnown, DiskTypes
  <1>5. (disk.profile # None => Known(disk.profile.id))'
    <2>1. disk.profile # None => disk.profile.id \in Users /\ Known(disk.profile.id)
      BY <1>1 DEF DiskTypes, Profiles, VaultInv, PeopleAreKnown
    <2>2. QED
      BY <1>2, <1>3, <2>1, PeopleMove DEF VaultInv, Answers
  <1>6. (app.user # None => Known(app.user.id))'
    <2>1. app.user # None => app.user.id \in Users /\ Known(app.user.id)
      BY DEF VaultInv, TypesHold, StateTypes, AppTypes, Profiles, PeopleAreKnown
    <2>2. QED
      BY <1>2, <1>3, <2>1, PeopleMove DEF VaultInv, Answers
  <1>7. (\A u \in Users : vault[u] # None => Known(u))'
    <2> SUFFICES ASSUME NEW u \in Users, vault'[u] # None PROVE Known(u)'
      OBVIOUS
    <2>1. vault[u] # None \/ (u = disk.token /\ disk.token # None)
      BY AccountsMove, SessionAssumption DEF VaultInv
    <2>2. QED
      BY <1>2, <2>1 DEF VaultInv, PeopleAreKnown
  <1>8. Evolves(t)
    BY TasksEvolve DEF VaultInv
  <1>9. (\A n \in tasks : n.who # None /\ ~ Newly(n) => Known(n.who))'
    <2> SUFFICES ASSUME NEW n \in tasks', n.who # None, ~ Newly(n) PROVE Known(n.who)'
      BY DEF Newly
    <2>1. CASE \E s \in tasks \ {t} : SameButLate(s, n)
      <3>1. PICK s \in tasks : SameButLate(s, n)
        BY <2>1
      <3>2. s.who = n.who /\ s.who \in Users /\ ~ Newly(s)
        BY <1>1, <3>1 DEF SameButLate, Newly
      <3>3. QED
        BY <1>2, <3>2, SessionAssumption DEF VaultInv, PeopleAreKnown
    <2>2. CASE Follows(t, n)
      <3>1. t.who = n.who /\ t.who \in Users
        BY <1>1, <2>2 DEF Follows, MovesTo
      <3>3. CASE Fails(t)
        <4>1. n \in tasks \ {t}
          BY <3>3 DEF Fails, Swap
        <4>2. QED
          BY <1>2, <3>1, <4>1 DEF VaultInv, PeopleAreKnown
      <3>4. CASE ~ Fails(t)
        BY <1>3, <3>1, <3>4, PeopleMove DEF VaultInv
      <3>5. QED
        BY <3>3, <3>4
    <2>3. CASE t.step = "profile" /\ Refreshing(t, n)
      <3>1. n.who = disk.token /\ disk.token \in Users
        BY <1>1, <2>3 DEF Refreshing, DiskTypes
      <3>2. QED
        BY <1>2, <3>1, SessionAssumption DEF VaultInv, PeopleAreKnown
    <2>4. QED
      BY <1>8, <2>1, <2>2, <2>3 DEF Evolves
  <1>10. TriesAreReal'
    <2> SUFFICES ASSUME NEW n \in tasks'
                 PROVE  (Trying(n) => n.pw # 0) /\ (n.kind = "change" => n.pw > 1)
      BY DEF TriesAreReal, Trying
    <2>1. CASE \E s \in tasks \ {t} : SameButLate(s, n)
      BY <2>1 DEF SameButLate, Trying, VaultInv, TriesAreReal
    <2>2. CASE Follows(t, n)
      BY <2>2 DEF Follows, MovesTo, VaultInv, TriesAreReal
    <2>3. CASE Refreshing(t, n)
      BY <2>3 DEF Refreshing, Trying, Forms
    <2>4. QED
      BY <1>8, <2>1, <2>2, <2>3 DEF Evolves
  <1>11. QED
    BY <1>4, <1>5, <1>6, <1>7, <1>9, <1>10, <1>12 DEF PeopleAreKnown, Known, Newly

\* No task takes up a password that was not used by the same person before.
LEMMA TasksUseOwn ==
    ASSUME VaultInv, NEW t \in tasks, SessionTask(t) \/ Save(t) \/ LoggedOut(t)
    PROVE  PasswordsAreOwn'
  <1>1. Evolves(t)
    BY TasksEvolve DEF VaultInv
  <1>2. ASSUME NEW u \in Users, NEW n \in Nat, Uses(u, n)' PROVE Uses(u, n)
    <2>1. CASE hash'[u] = n
      <3>1. hash[u] = n \/ (u = t.who /\ Trying(t) /\ t.pw = n)
        BY <2>1, AccountsMove DEF VaultInv
      <3>2. QED
        BY <3>1 DEF Uses
    <2>2. ASSUME NEW m \in tasks', Trying(m), m.who = u, m.pw = n PROVE Uses(u, n)
      <3>1. CASE \E s \in tasks \ {t} : SameButLate(s, m)
        BY <2>2, <3>1 DEF SameButLate, Trying, Uses
      <3>2. CASE Follows(t, m)
        BY <2>2, <3>2 DEF Follows, MovesTo, Uses
      <3>3. CASE Refreshing(t, m)
        BY <2>2, <3>3 DEF Refreshing, Trying, Forms
      <3>4. QED
        BY <1>1, <2>2, <3>1, <3>2, <3>3 DEF Evolves
    <2>3. QED
      BY <1>2, <2>1, <2>2 DEF Uses, Trying
  <1>3. minted \in Nat /\ minted' >= minted
    BY AccountsMove DEF VaultInv, TypesHold, StateTypes
  <1>4. \A u \in Users, n \in Nat : Uses(u, n) => n <= minted
    BY DEF VaultInv, PasswordsAreOwn
  <1>5. \A u, v \in Users, n \in Nat : Uses(u, n) /\ Uses(v, n) /\ n > 1 => u = v
    BY DEF VaultInv, PasswordsAreOwn
  <1>6. minted' \in Nat
    BY <1>3, AccountsMove DEF VaultInv
  <1>7. \A u \in Users, n \in Nat : Uses(u, n)' => n <= minted'
    <2> SUFFICES ASSUME NEW u \in Users, NEW n \in Nat, Uses(u, n)' PROVE n <= minted'
      OBVIOUS
    <2>1. n <= minted
      BY <1>2, <1>4
    <2>2. QED
      BY <1>3, <1>6, <2>1
  <1>8. \A u, v \in Users, n \in Nat : Uses(u, n)' /\ Uses(v, n)' /\ n > 1 => u = v
    BY <1>2, <1>5
  <1>9. QED
    BY <1>7, <1>8 DEF PasswordsAreOwn

\* A form whose password is checked from here on.
Answered(n) == n.kind \in Forms /\ n.step \in {"told", "put"}

\* Its password is the one of the account.
Current(n) == ~ n.late /\ Answered(n) /\ n.who \notin torn => n.pw = hash[n.who]

\* The forms in time stay current if no password of theirs changes, and so do the vaults.
LEMMA OthersStayCurrent ==
    ASSUME VaultInv, NEW t \in tasks, Evolves(t), torn \subseteq torn',
           \A u \in Users : hash'[u] = hash[u] \/ hash[u] = 0 \/ u \in torn',
           \A n \in tasks' : (\E s \in tasks \ {t} : SameButLate(s, n)) \/ Current(n)'
    PROVE  FormsAreCurrent'
  <1> SUFFICES ASSUME NEW n \in tasks' PROVE Current(n)'
    BY DEF FormsAreCurrent, Current, Answered
  <1>1. ASSUME NEW s \in tasks, SameButLate(s, n), Answered(n), ~ n.late, n.who \notin torn'
        PROVE  n.pw = hash'[n.who]
    <2>1. Answered(s) /\ ~ s.late /\ s.who \notin torn /\ s.who = n.who /\ s.pw = n.pw
      BY <1>1 DEF SameButLate, Answered, TaskTypes, VaultInv, TypesHold, Fit
    <2>2. s.pw = hash[s.who]
      BY <2>1 DEF VaultInv, FormsAreCurrent, Answered
    <2>3. s.who \in Users
      BY <2>1 DEF VaultInv, TypesHold, Fit, Fits, TaskTypes, Answered
    <2>4. hash[s.who] # 0
      BY <2>1, <2>2 DEF VaultInv, TriesAreReal, Trying, Answered
    <2>5. QED
      BY <1>1, <2>1, <2>2, <2>3, <2>4
  <1>2. QED
    BY <1>1 DEF Current, Answered

\* A vault that is not touched opens, or its change is still under way.
LEMMA OtherVaultsOpen ==
    ASSUME VaultInv, NEW t \in tasks, Evolves(t), ~ Rewrapping(t), torn \subseteq torn',
           NEW u \in Users, u \notin torn', vault'[u] = vault[u], hash'[u] = hash[u],
           vault[u] # None
    PROVE  vault'[u].pw = hash'[u] \/ \E n \in tasks' : Rewrapping(n) /\ n.who = u
  <1>1. CASE vault[u].pw = hash[u]
    BY <1>1
  <1>2. ASSUME NEW s \in tasks, Rewrapping(s), s.who = u
        PROVE  \E n \in tasks' : Rewrapping(n) /\ n.who = u
    <2>1. PICK n \in tasks' : SameButLate(s, n)
      BY <1>2 DEF Evolves
    <2>2. QED
      BY <1>2, <2>1 DEF SameButLate, Rewrapping
  <1>3. QED
    BY <1>1, <1>2 DEF VaultInv, VaultsOpenSoon

\* The steps of tasks that neither set a password nor store a vault.
LEMMA QuietTasksMatch ==
    ASSUME VaultInv, NEW t \in tasks, Evolves(t), ~ Rewrapping(t),
           UNCHANGED <<hash, vault, torn>>,
           \A n \in tasks' : (\E s \in tasks \ {t} : SameButLate(s, n)) \/ Current(n)'
    PROVE  FormsAreCurrent' /\ VaultsOpenSoon'
  <1>1. FormsAreCurrent'
    BY OthersStayCurrent
  <1>2. VaultsOpenSoon'
    BY OtherVaultsOpen DEF VaultsOpenSoon, Rewrapping
  <1>3. QED
    BY <1>1, <1>2

\* No step of a task leaves a form with another password than the one that signs in, or a
\* vault that neither opens nor waits for its change, but for those marked as torn.
LEMMA TasksMatchVaults ==
    ASSUME VaultInv, NEW t \in tasks, SessionTask(t) \/ Save(t) \/ LoggedOut(t)
    PROVE  FormsAreCurrent' /\ VaultsOpenSoon'
  <1>1. TypesHold /\ t \in TaskTypes /\ Fits(t) /\ tasks \subseteq TaskTypes
    BY DEF VaultInv, TypesHold, Fit
  <1>2. Evolves(t)
    BY TasksEvolve, <1>1
  <1>3. \A s \in tasks : SameButLate(s, s)
    BY <1>1 DEF SameButLate
  <1>4. hash \in [Users -> Nat] /\ vault \in [Users -> Vaults] /\ t.who \in Users \cup {None}
    BY <1>1 DEF TypesHold, StateTypes, TaskTypes
  \* What is new is no form whose password counts.
  <1>5. ASSUME ~ Rewrapping(t), UNCHANGED <<hash, vault, torn>>,
               \/ Ends(t) \/ Swap(t, {})
               \/ \E n : tasks' = (tasks \ {t}) \cup {n} /\ Current(n)'
        PROVE  FormsAreCurrent' /\ VaultsOpenSoon'
    <2>1. \A n \in tasks' : (\E s \in tasks \ {t} : SameButLate(s, n)) \/ Current(n)'
      BY <1>3, <1>5 DEF Ends, Swap
    <2>2. QED
      BY <1>2, <1>5, <2>1, QuietTasksMatch
  <1>6. ASSUME NEW n, ~ Answered(n) PROVE Current(n)'
    BY <1>6 DEF Current, Answered
  <1>7. ASSUME NEW n, GoesOn(t, n), n.step \in {"open", "save", "profile", "rehash", "api", "end"}
        PROVE  tasks' = (tasks \ {t}) \cup {n} /\ Current(n)'
    BY <1>6, <1>7 DEF GoesOn, Answered
  <1>8. CASE \/ \E slide \in BOOLEAN : Refreshed(t, slide) \/ Fetched(t, slide)
             \/ RefreshFails(t) \/ Hydrated(t) \/ Unheard(t) \/ Fails(t) \/ LoggedOut(t)
    <2>1. Swap(t, {}) /\ UNCHANGED <<hash, vault, torn>> /\ ~ Rewrapping(t)
      BY <1>8 DEF Refreshed, Fetched, RefreshFails, Hydrated, Unheard, Fails, LoggedOut, accounts,
                  Rewrapping
    <2>2. QED
      BY <1>5, <2>1
  <1>9. CASE LoginRefreshes(t)
    <2>1. PICK n : tasks' = (tasks \ {t}) \cup {n} /\ n.kind = "refresh"
      BY <1>1, <1>9, LoginRefreshMoves
    <2>2. UNCHANGED <<hash, vault, torn>> /\ ~ Rewrapping(t)
      BY <1>9 DEF LoginRefreshes, accounts, Rewrapping
    <2>3. Current(n)'
      BY <1>6, <2>1 DEF Answered, Forms
    <2>4. QED
      BY <1>5, <2>1, <2>2, <2>3
  <1>10. ASSUME NEW ok, Unregister(t, ok) PROVE FormsAreCurrent' /\ VaultsOpenSoon'
    <2>1. PICK n : GoesOn(t, n) /\ n.step = "api"
      BY <1>1, <1>10, UnregisterMoves
    <2>2. UNCHANGED <<hash, vault, torn>> /\ ~ Rewrapping(t)
      BY <1>10 DEF Unregister, Rewrapping
    <2>3. QED
      BY <1>5, <1>7, <2>1, <2>2
  <1>11. CASE Save(t)
    <2>1. UNCHANGED <<hash, vault, torn>> /\ ~ Rewrapping(t)
      BY <1>11 DEF Save, accounts, Rewrapping
    <2>2. Ends(t) \/ \E n : GoesOn(t, n) /\ n.step = "profile"
      BY <1>1, <1>11, FormsMove
    <2>3. QED
      BY <1>5, <1>7, <2>1, <2>2
  <1>12. CASE Open(t)
    <2>1. UNCHANGED <<hash, vault, torn>> /\ ~ Rewrapping(t)
      BY <1>12 DEF Open, accounts, Rewrapping
    <2>2. Ends(t) \/ \E n : GoesOn(t, n) /\ n.step \in {"save", "profile"}
      BY <1>1, <1>12, OpenMoves DEF GoesOnWithoutKey
    <2>3. QED
      BY <1>5, <1>7, <2>1, <2>2
  <1>13. CASE Wipe(t)
    <2>1. PICK n : /\ MovesTo(t, n) /\ n.step = "end"
                   /\ tasks' = AllLate(tasks \ {t}) \cup {n}
      BY <1>1, <1>13, WipeMoves
    <2>2. UNCHANGED <<hash, vault, torn>> /\ ~ Rewrapping(t)
      BY <1>13 DEF Wipe, accounts, Rewrapping
    <2>3. Current(n)'
      BY <1>6, <2>1 DEF Answered
    <2>4. tasks \ {t} \subseteq TaskTypes
      BY <1>1
    <2>5. \A m \in tasks' : (\E s \in tasks \ {t} : SameButLate(s, m)) \/ Current(m)'
      BY <2>1, <2>3, <2>4, LateMoves
    <2>6. QED
      BY <1>2, <2>2, <2>5, QuietTasksMatch
  <1>14. CASE Told(t)
    <2>1. PICK n : GoesOn(t, n) /\ n.step = (IF t.vault = None THEN "put" ELSE "open")
      BY <1>1, <1>14, FormsMove
    <2>2. UNCHANGED <<hash, vault, torn>> /\ ~ Rewrapping(t)
      BY <1>14 DEF Told, accounts, Rewrapping
    <2>3. Current(t) /\ Answered(t)
      BY <1>14 DEF Told, VaultInv, FormsAreCurrent, Current, Answered
    <2>4. Current(n)'
      BY <2>1, <2>2, <2>3 DEF Current, Answered, GoesOn, MovesTo
    <2>5. QED
      BY <1>5, <2>1, <2>2, <2>4 DEF GoesOn
  <1>15. CASE Checked(t)
    <2>1. PICK n : GoesOn(t, n)
      BY <1>1, <1>15, FormsMove
    <2>2. UNCHANGED <<hash, vault, torn>> /\ ~ Rewrapping(t) /\ hash[t.who] = t.pw
      BY <1>15 DEF Checked, accounts, Rewrapping, Forms
    <2>3. Current(n)'
      BY <2>1, <2>2 DEF Current, GoesOn, MovesTo
    <2>4. QED
      BY <1>5, <2>1, <2>2, <2>3 DEF GoesOn
  <1>16. CASE Registered(t) \/ Rehash(t)
    <2>1. PICK n : GoesOn(t, n)
      BY <1>1, <1>16, FormsMove
    <2>2. /\ hash' = [hash EXCEPT ![t.who] = t.pw] /\ vault' = vault /\ ~ Rewrapping(t)
          /\ torn \subseteq torn' /\ t.who \in Users
          /\ hash[t.who] = 0 \/ hash[t.who] = t.pw \/ t.who \in torn'
      BY <1>1, <1>4, <1>16 DEF Registered, Rehash, Rewrapping, Forms, Fits
    <2>3. Current(n)'
      BY <1>4, <2>1, <2>2 DEF Current, GoesOn, MovesTo
    <2>4. \A m \in tasks' : (\E s \in tasks \ {t} : SameButLate(s, m)) \/ Current(m)'
      BY <1>3, <2>1, <2>3 DEF GoesOn
    <2>5. \A u \in Users : hash'[u] = hash[u] \/ hash[u] = 0 \/ u \in torn'
      BY <1>4, <2>2
    <2>6. FormsAreCurrent'
      BY <1>2, <2>2, <2>4, <2>5, OthersStayCurrent
    <2>7. ASSUME NEW u \in Users, u \notin torn', vault'[u] # None
          PROVE  vault'[u].pw = hash'[u] \/ \E m \in tasks' : Rewrapping(m) /\ m.who = u
      <3>1. hash[u] # 0
        BY <2>2, <2>7 DEF VaultInv, PeopleAreKnown, Known
      <3>2. QED
        BY <1>2, <2>2, <2>5, <2>7, <3>1, OtherVaultsOpen
    <2>8. QED
      BY <2>6, <2>7 DEF VaultsOpenSoon, Rewrapping
  <1>17. ASSUME NEW answered \in BOOLEAN, Changed(t, answered)
         PROVE  FormsAreCurrent' /\ VaultsOpenSoon'
    <2>1. /\ hash' = [hash EXCEPT ![t.who] = t.pw] /\ vault' = vault /\ ~ Rewrapping(t)
          /\ torn \subseteq torn' /\ t.who \in Users
      BY <1>1, <1>4, <1>17 DEF Changed, Rewrapping, Fits
    <2>2. tasks \ {t} \subseteq TaskTypes
      BY <1>1
    <2>3. \A m \in LateFor(t.who, tasks \ {t}) : \E s \in tasks \ {t} :
              SameButLate(s, m) /\ (t.who = s.who => m.late)
      BY <2>2, LateMoves
    <2>4. \A m \in tasks' : m \in LateFor(t.who, tasks \ {t}) \/ m.kind = "change"
      BY <1>1, <1>17, ChangeMoves DEF MovesTo, Changed
    <2>5. ASSUME NEW m \in tasks' PROVE Current(m)'
      <3>1. CASE m.kind = "change"
        BY <1>6, <3>1 DEF Answered, Forms
      <3>2. ASSUME NEW s \in tasks \ {t}, SameButLate(s, m), t.who = s.who => m.late, Answered(m),
                   ~ m.late, m.who \notin torn'
            PROVE  m.pw = hash'[m.who]
        <4>1. Answered(s) /\ ~ s.late /\ s.who \notin torn /\ s.who = m.who /\ s.pw = m.pw
          BY <1>1, <2>1, <3>2 DEF SameButLate, Answered, TaskTypes
        <4>2. s.pw = hash[s.who]
          BY <4>1 DEF VaultInv, FormsAreCurrent, Answered
        <4>3. s.who \in Users /\ s.who # t.who
          BY <1>1, <3>2, <4>1 DEF TypesHold, Fit, Fits, TaskTypes, Answered
        <4>4. QED
          BY <1>4, <2>1, <4>1, <4>2, <4>3
      <3>3. QED
        BY <2>3, <2>4, <3>1, <3>2 DEF Current, Answered
    <2>6. FormsAreCurrent'
      BY <2>5 DEF FormsAreCurrent, Current, Answered
    <2>7. ASSUME NEW u \in Users, u \notin torn', vault'[u] # None
          PROVE  vault'[u].pw = hash'[u] \/ \E m \in tasks' : Rewrapping(m) /\ m.who = u
      <3>1. CASE u # t.who
        BY <1>2, <1>4, <2>1, <2>7, <3>1, OtherVaultsOpen
      <3>2. CASE u = t.who
        <4>1. answered /\ t.key # None
          BY <1>17, <2>1, <2>7, <3>2 DEF Changed
        <4>2. PICK m : MovesTo(t, m) /\ m.step = "rewrap" /\ m \in tasks'
          BY <1>1, <1>17, <4>1, ChangeMoves
        <4>3. Rewrapping(m) /\ m.who = u
          BY <1>17, <3>2, <4>2 DEF Rewrapping, MovesTo, Changed
        <4>4. QED
          BY <4>2, <4>3
      <3>3. QED
        BY <3>1, <3>2
    <2>8. QED
      BY <2>6, <2>7 DEF VaultsOpenSoon, Rewrapping
  <1>18. ASSUME NEW stored \in BOOLEAN, NEW ok \in BOOLEAN, SetUp(t, stored, ok)
         PROVE  FormsAreCurrent' /\ VaultsOpenSoon'
    <2>1. /\ hash' = hash /\ ~ Rewrapping(t) /\ torn \subseteq torn' /\ t.who \in Users
          /\ t.kind \in Forms /\ t.step = "put"
      BY <1>1, <1>4, <1>18 DEF SetUp, Rewrapping, Fits
    <2>2. Ends(t) \/ \E n : GoesOn(t, n) /\ n.step \in {"save", "profile"}
      BY <1>1, <1>18, SetUpMoves DEF GoesOnWithoutKey
    <2>3. \A n \in tasks' : (\E s \in tasks \ {t} : SameButLate(s, n)) \/ Current(n)'
      BY <1>3, <1>7, <2>2 DEF Ends
    <2>4. FormsAreCurrent'
      BY <1>2, <2>1, <2>3, OthersStayCurrent
    <2>5. ASSUME NEW u \in Users, u \notin torn', vault'[u] # None
          PROVE  vault'[u].pw = hash'[u] \/ \E m \in tasks' : Rewrapping(m) /\ m.who = u
      <3>1. CASE ~ stored \/ u # disk.token
        <4>1. vault'[u] = vault[u]
          BY <1>4, <1>18, <3>1 DEF SetUp
        <4>2. QED
          BY <1>2, <2>1, <2>5, <4>1, OtherVaultsOpen
      <3>2. CASE stored /\ u = disk.token
        <4>1. ~ t.late /\ disk.token = t.who
          BY <1>18, <2>5, <3>2 DEF SetUp
        <4>2. t.pw = hash[t.who]
          BY <2>1, <2>5, <3>2, <4>1 DEF VaultInv, FormsAreCurrent
        <4>3. vault'[u] = Locks(t.pw, Key(t.who, minted + 1))
          BY <1>4, <1>18, <3>2 DEF SetUp
        <4>4. QED
          BY <2>1, <3>2, <4>1, <4>2, <4>3 DEF Locks
      <3>3. QED
        BY <3>1, <3>2
    <2>6. QED
      BY <2>4, <2>5 DEF VaultsOpenSoon, Rewrapping
  <1>19. ASSUME NEW stored \in BOOLEAN, Rewrap(t, stored)
         PROVE  FormsAreCurrent' /\ VaultsOpenSoon'
    <2>1. hash' = hash /\ torn \subseteq torn' /\ Swap(t, {}) /\ t.step = "rewrap"
      BY <1>19 DEF Rewrap
    <2>2. t.kind = "change" /\ t.who \in Users /\ Trying(t)
      BY <1>1, <1>4, <2>1 DEF Fits, TaskTypes, TaskKinds, Forms, Fetches, Trying
    <2>3. FormsAreCurrent'
      BY <1>2, <1>3, <2>1, OthersStayCurrent DEF Swap
    <2>4. ASSUME NEW u \in Users, u \notin torn', vault'[u] # None
          PROVE  vault'[u].pw = hash'[u] \/ \E m \in tasks' : Rewrapping(m) /\ m.who = u
      <3>1. stored \/ u # t.who
        BY <1>19, <2>4 DEF Rewrap
      <3>2. CASE stored /\ u = disk.token
        <4>1. hash[disk.token] = t.pw
          BY <1>19, <2>4, <3>2 DEF Rewrap
        <4>2. vault'[u] = Locks(t.pw, t.key)
          BY <1>4, <1>19, <3>2 DEF Rewrap
        <4>3. QED
          BY <2>1, <3>2, <4>1, <4>2 DEF Locks
      <3>3. CASE ~ (stored /\ u = disk.token)
        <4>1. vault'[u] = vault[u]
          BY <1>4, <1>19, <3>3 DEF Rewrap
        <4>2. u # t.who
          <5> SUFFICES ASSUME u = t.who PROVE FALSE
            OBVIOUS
          <5>1. stored /\ hash[disk.token] = t.pw /\ disk.token \in Users
            BY <1>1, <1>19, <2>4 DEF Rewrap, TypesHold, StateTypes, DiskTypes
          <5>2. Uses(disk.token, t.pw) /\ Uses(t.who, t.pw)
            BY <2>2, <5>1 DEF Uses
          <5>3. t.pw \in Nat /\ t.pw > 1
            BY <1>1, <2>2 DEF TaskTypes, VaultInv, TriesAreReal
          <5>4. disk.token = t.who
            BY <2>2, <5>1, <5>2, <5>3 DEF VaultInv, PasswordsAreOwn
          <5>5. QED
            BY <3>3, <5>1, <5>4
        <4>3. CASE vault[u].pw = hash[u]
          BY <2>1, <4>1, <4>3
        <4>4. ASSUME NEW s \in tasks, Rewrapping(s), s.who = u
              PROVE  \E m \in tasks' : Rewrapping(m) /\ m.who = u
          <5>1. s \in tasks'
            BY <2>1, <4>2, <4>4 DEF Swap
          <5>2. QED
            BY <4>4, <5>1
        <4>5. QED
          BY <2>1, <2>4, <4>1, <4>3, <4>4 DEF VaultInv, VaultsOpenSoon
      <3>4. QED
        BY <3>2, <3>3
    <2>5. QED
      BY <2>3, <2>4 DEF VaultsOpenSoon, Rewrapping
  <1>20. QED
    BY <1>8, <1>9, <1>10, <1>11, <1>12, <1>13, <1>14, <1>15, <1>16, <1>17, <1>18, <1>19
    DEF SessionTask

\* What a task may begin with.
Proper(n) ==
    /\ n.who # None /\ ~ Newly(n) => Known(n.who)
    /\ Trying(n) =>
          /\ n.pw # 0 /\ (n.kind = "change" => n.pw > 1)
          /\ \/ n.pw = 1 \/ n.pw = hash[n.who]
             \/ n.pw = minted + 1 /\ minted' = minted + 1
    /\ ~ Answered(n)

\* A task that begins with the password of its user, or with a fresh one, disturbs nothing.
LEMMA BegunMatch ==
    ASSUME VaultInv, TypesHold', NEW n, Begins(n), Proper(n),
           UNCHANGED <<hash, vault, torn, disk>>, app'.user \in {None, app.user},
           minted' \in {minted, minted + 1}
    PROVE  VaultInv'
  <1>1. minted \in Nat \ {0} /\ minted' \in Nat /\ minted' >= minted
    BY DEF VaultInv, TypesHold, StateTypes
  <1>2. n \in tasks' /\ tasks \subseteq tasks' /\ \A t \in tasks' : t \in tasks \/ t = n
    BY DEF Begins
  <1>3. PeopleAreKnown'
    <2>1. (app.user # None => Known(app.user.id))'
      BY DEF VaultInv, PeopleAreKnown, Known
    <2>2. ASSUME NEW t \in tasks', t.who # None, ~ Newly(t) PROVE Known(t.who)'
      BY <1>2, <2>2 DEF VaultInv, PeopleAreKnown, Known, Proper
    <2>3. (\A t \in tasks : t.who # None /\ ~ Newly(t) => Known(t.who))'
      BY <2>2 DEF Newly
    <2>4. QED
      BY <2>1, <2>3 DEF VaultInv, PeopleAreKnown, Known
  <1>4. TriesAreReal'
    BY <1>2 DEF VaultInv, TriesAreReal, Proper, Trying
  <1>5. PasswordsAreOwn'
    <2> DEFINE New(u, m) == Trying(n) /\ n.who = u /\ n.pw = m
    <2>1. ASSUME NEW u \in Users, NEW m \in Nat, Uses(u, m)' PROVE Uses(u, m) \/ New(u, m)
      BY <1>2, <2>1 DEF Uses, Trying
    <2>2. ASSUME NEW u \in Users, NEW m \in Nat, New(u, m)
          PROVE  Uses(u, m) \/ m = 1 \/ (m = minted + 1 /\ minted' = minted + 1)
      BY <2>2 DEF Proper, Uses
    <2>3. \A u \in Users, m \in Nat : Uses(u, m) => m <= minted
      BY DEF VaultInv, PasswordsAreOwn
    <2>4. \A u, v \in Users, m \in Nat : Uses(u, m) /\ Uses(v, m) /\ m > 1 => u = v
      BY DEF VaultInv, PasswordsAreOwn
    <2>5. \A u \in Users, m \in Nat : Uses(u, m)' => m <= minted'
      <3> SUFFICES ASSUME NEW u \in Users, NEW m \in Nat, Uses(u, m)' PROVE m <= minted'
        OBVIOUS
      <3>1. Uses(u, m) \/ m = 1 \/ (m = minted + 1 /\ minted' = minted + 1)
        BY <2>1, <2>2
      <3>2. Uses(u, m) => m <= minted
        BY <2>3
      <3>3. QED
        BY <1>1, <3>1, <3>2
    <2>6. \A u, v \in Users, m \in Nat : Uses(u, m)' /\ Uses(v, m)' /\ m > 1 => u = v
      <3> SUFFICES ASSUME NEW u \in Users, NEW v \in Users, NEW m \in Nat,
                          Uses(u, m)', Uses(v, m)', m > 1
                   PROVE  u = v
        OBVIOUS
      <3>1. CASE Uses(u, m) \/ Uses(v, m)
        <4>1. m <= minted
          BY <2>3, <3>1
        <4>2. Uses(u, m) /\ Uses(v, m)
          BY <1>1, <2>1, <2>2, <4>1
        <4>3. QED
          BY <2>4, <4>2
      <3>2. CASE ~ Uses(u, m) /\ ~ Uses(v, m)
        <4>1. n.who = u /\ n.who = v
          BY <2>1, <3>2
        <4>2. QED
          BY <4>1
      <3>3. QED
        BY <3>1, <3>2
    <2>7. QED
      BY <2>5, <2>6 DEF PasswordsAreOwn
  <1>6. FormsAreCurrent'
    BY <1>2 DEF VaultInv, FormsAreCurrent, Proper, Answered
  <1>7. VaultsOpenSoon'
    BY <1>2 DEF VaultInv, VaultsOpenSoon, Rewrapping
  <1>8. QED
    BY <1>3, <1>4, <1>5, <1>6, <1>7 DEF VaultInv

\* Steps that leave the session alone, but for the providers and what is no part of it.
LEMMA NothingMatches ==
    ASSUME VaultInv, TypesHold', UNCHANGED <<hash, vault, torn, disk, tasks, minted>>,
           app'.user \in {None, app.user}
    PROVE  VaultInv'
  <1>1. PeopleAreKnown'
    BY DEF VaultInv, PeopleAreKnown, Known, Newly
  <1>2. TriesAreReal'
    BY DEF VaultInv, TriesAreReal, Trying
  <1>3. PasswordsAreOwn'
    <2>1. \A u, m : Uses(u, m)' <=> Uses(u, m)
      BY DEF Uses, Trying
    <2>2. QED
      BY <2>1 DEF VaultInv, PasswordsAreOwn
  <1>4. FormsAreCurrent' /\ VaultsOpenSoon'
    BY DEF VaultInv, FormsAreCurrent, VaultsOpenSoon, Rewrapping
  <1>5. QED
    BY <1>1, <1>2, <1>3, <1>4 DEF VaultInv

\* Drafts are no part of the session, and the copy is of the token.
LEMMA StoresMatch ==
    ASSUME VaultInv, TypesHold', PersistDraft \/ Mirrored
    PROVE  VaultInv'
  <1>1. /\ UNCHANGED <<hash, vault, minted, app, tasks, torn>> /\ SameBut
        /\ disk'.mirror \in {disk.mirror, disk.token}
    BY StoresBeside DEF VaultInv, TypesHold, StateTypes
  <1>2. PeopleAreKnown'
    BY <1>1 DEF SameBut, VaultInv, PeopleAreKnown, Known, Newly
  <1>3. TriesAreReal'
    BY <1>1 DEF VaultInv, TriesAreReal, Trying
  <1>4. PasswordsAreOwn'
    <2>1. \A u, m : Uses(u, m)' <=> Uses(u, m)
      BY <1>1 DEF Uses, Trying
    <2>2. QED
      BY <1>1, <2>1 DEF VaultInv, PasswordsAreOwn
  <1>5. FormsAreCurrent' /\ VaultsOpenSoon'
    BY <1>1 DEF VaultInv, FormsAreCurrent, VaultsOpenSoon, Rewrapping
  <1>6. QED
    BY <1>2, <1>3, <1>4, <1>5 DEF VaultInv

\* What people begin is proper.
LEMMA PeopleMatchVaults ==
    ASSUME VaultInv, TypesHold', SessionUser \/ LockUser
    PROVE  VaultInv'
  <1>1. /\ TypesHold /\ hash \in [Users -> Nat] /\ \A u \in Users : u # None
        /\ minted \in Nat \ {0} /\ disk.token \in Users \cup {None}
    BY SessionAssumption DEF VaultInv, TypesHold, StateTypes, DiskTypes
  <1>2. UserId # None => UserId \in Users /\ Known(UserId) /\ UserId = app.user.id
    BY <1>1 DEF UserId, VaultInv, TypesHold, StateTypes, AppTypes, Profiles, PeopleAreKnown
  <1>3. disk.token # None => Known(disk.token)
    BY DEF VaultInv, PeopleAreKnown
  <1> HIDE DEF UserId
  <1>4. ASSUME NEW n, Begins(n), ~ Trying(n), ~ Answered(n), n.who # None => Known(n.who),
               UNCHANGED <<hash, vault, torn, disk, minted>>, app'.user \in {None, app.user}
        PROVE  VaultInv'
    BY <1>4, BegunMatch DEF Proper
  <1>5. ASSUME NEW u \in Users, NEW kind \in Forms, NEW pw \in Nat, Submit(kind, u, pw),
               pw # 0, pw = 1 \/ pw = hash[u], Known(u) \/ kind = "register"
        PROVE  VaultInv'
    <2>1. PICK n : Begins(n) /\ n.kind = kind /\ n.who = u /\ n.step = "ask" /\ n.pw = pw
      BY <1>1, <1>5, SubmitBegins
    <2>2. Proper(n)
      BY <1>5, <2>1 DEF Proper, Newly, Trying, Forms, Answered
    <2>3. UNCHANGED <<hash, vault, torn, disk, minted, app>>
      BY <1>5 DEF Submit, accounts
    <2>4. QED
      BY <2>1, <2>2, <2>3, BegunMatch
  <1>6. ASSUME NEW u \in Users, SubmitLogin(u) \/ SubmitRegister(u) \/ SubmitLazy(u)
        PROVE  VaultInv'
    <2>1. CASE SubmitRegister(u)
      BY <1>5, <2>1 DEF SubmitRegister, Forms
    <2>2. hash[u] \in Nat
      BY <1>1
    <2>3. CASE SubmitLogin(u)
      BY <1>5, <2>2, <2>3 DEF SubmitLogin, Forms, Known
    <2>4. CASE SubmitLazy(u)
      <3>1. Known(u)
        BY <1>1, <1>2, <2>4 DEF SubmitLazy
      <3>2. QED
        BY <1>5, <2>2, <2>4, <3>1 DEF SubmitLazy, Forms, Known
    <2>5. QED
      BY <1>6, <2>1, <2>3, <2>4
  <1>7. CASE AskRefresh
    <2>1. PICK n : Begins(n) /\ n.kind = "refresh" /\ n.who = disk.token
      BY <1>1, <1>7, FetchBegins
    <2>2. UNCHANGED <<hash, vault, torn, disk, minted>> /\ app' = AskProfile(app)
      BY <1>7 DEF AskRefresh, accounts
    <2>3. app'.user = app.user
      BY <1>1, <2>2 DEF AskProfile, TypesHold, StateTypes, AppTypes
    <2>4. ~ Trying(n) /\ ~ Answered(n)
      BY <2>1 DEF Trying, Answered, Forms
    <2>5. QED
      BY <1>3, <1>4, <2>1, <2>2, <2>3, <2>4
  <1>8. CASE AskChange
    <2>1. PICK n : /\ Begins(n) /\ n.kind = "change" /\ n.who = disk.token /\ n.step = "ask"
                   /\ n.pw = minted + 1 /\ disk.token # None
      BY <1>1, <1>8, ChangeBegins
    <2>2. UNCHANGED <<hash, vault, torn, disk, app>> /\ minted' = minted + 1
      BY <1>8 DEF AskChange
    <2>3. Proper(n)
      BY <1>1, <1>3, <2>1, <2>2 DEF Proper, Trying, Answered, Forms
    <2>4. QED
      BY <2>1, <2>2, <2>3, BegunMatch
  <1>9. CASE AskLogout
    <2>1. PICK n : Begins(n) /\ n.kind = "logout" /\ n.who = UserId
      BY <1>1, <1>9, LogoutBegins
    <2>2. UNCHANGED <<hash, vault, torn, disk, minted>> /\ app'.user = app.user
      BY <1>1, <1>9 DEF AskLogout, accounts, TypesHold, StateTypes, AppTypes
    <2>3. ~ Trying(n) /\ ~ Answered(n)
      BY <2>1 DEF Trying, Answered, Forms
    <2>4. QED
      BY <1>2, <1>4, <2>1, <2>2, <2>3
  <1>10. ASSUME NEW kind \in Fetches, Fetch(kind) PROVE VaultInv'
    <2>1. PICK n : Begins(n) /\ n.kind = kind /\ n.who = disk.token
      BY <1>1, <1>10, FetchBegins
    <2>2. UNCHANGED <<hash, vault, torn, disk, minted, app>>
      BY <1>10 DEF Fetch, accounts
    <2>3. ~ Trying(n) /\ ~ Answered(n)
      BY <2>1 DEF Trying, Answered, Forms, Fetches
    <2>4. QED
      BY <1>3, <1>4, <2>1, <2>2, <2>3
  <1>11. ASSUME NEW typed \in {hash[UserId]} \cup
                    (IF app.user.vault = None THEN {} ELSE {app.user.vault.pw}),
                app.user # None, SubmitUnlock(typed)
         PROVE  VaultInv'
    <2>1. /\ app.user \in Profiles /\ UserId # None
          /\ app.user.vault # None => app.user.vault.pw \in Nat
      BY <1>1, <1>11 DEF UserId, TypesHold, StateTypes, AppTypes, Profiles, Vaults, ShutVaults
    <2>2. typed \in Nat
      BY <1>1, <1>2, <1>11, <2>1
    <2>3. PICK n : /\ Begins(n) /\ n.kind = "unlock" /\ n.who = UserId /\ n.pw = typed
                   /\ n.step = IF app.user.vault = None THEN "ask" ELSE "open"
      BY <1>1, <1>11, <2>2, UnlockBegins
    <2>4. UNCHANGED <<hash, vault, torn, disk, minted, app>>
      BY <1>11 DEF SubmitUnlock, accounts
    <2>5. Proper(n)
      <3>1. CASE app.user.vault = None
        <4>1. typed = hash[UserId]
          BY <1>11, <3>1
        <4>2. QED
          BY <1>2, <2>1, <2>3, <3>1, <4>1 DEF Proper, Trying, Answered, Known
      <3>2. CASE app.user.vault # None
        BY <1>2, <2>1, <2>3, <3>2 DEF Proper, Trying, Answered
      <3>3. QED
        BY <3>1, <3>2
    <2>6. QED
      BY <2>3, <2>4, <2>5, BegunMatch
  <1>17. CASE PersistDraft
    BY <1>17, StoresMatch
  <1>12. CASE SessionUser
    BY <1>6, <1>7, <1>8, <1>9, <1>10, <1>12, <1>17 DEF SessionUser, Fetches
  <1>13. CASE \/ TimePasses \/ Verify \/ DeclineOffer \/ Disable
              \/ \E offer \in BOOLEAN : Enable(offer)
    <2>1. UNCHANGED <<hash, vault, torn, disk, tasks, minted, app>>
      BY <1>13 DEF TimePasses, Verify, DeclineOffer, Disable, Enable, sessionvars, accounts
    <2>2. QED
      BY <2>1, NothingMatches
  <1>14. CASE LockLogout
    BY <1>9, <1>14 DEF LockLogout
  <1>15. CASE LockUser
    BY <1>11, <1>13, <1>14, <1>15 DEF LockUser
  <1>16. QED
    BY <1>12, <1>15

\* Another device changes a password to a fresh one, or sets up a vault with the right one.
LEMMA ElsewhereMatches ==
    ASSUME VaultInv, TypesHold', Elsewhere
    PROVE  VaultInv'
  <1>1. /\ hash \in [Users -> Nat] /\ vault \in [Users -> Vaults] /\ minted \in Nat \ {0}
        /\ tasks \subseteq TaskTypes /\ tasks \subseteq Fit
    BY DEF VaultInv, TypesHold, StateTypes, Fit
  <1>2. PICK u \in Users : \/ \E stored \in BOOLEAN : ChangedElsewhere(u, stored)
                          \/ SetUpElsewhere(u)
    BY DEF Elsewhere
  <1>3. /\ hash[u] # 0 /\ minted' = minted + 1 /\ torn \subseteq torn' /\ UNCHANGED <<disk, app>>
        /\ tasks' = LateFor(u, tasks)
        /\ \/ hash' = hash
           \/ hash' = [hash EXCEPT ![u] = minted + 1]
    BY <1>2 DEF ChangedElsewhere, SetUpElsewhere
  <1>4. /\ \A n \in tasks' : \E t \in tasks :
              SameButLate(t, n) /\ (t.who = u => n.late) /\ (t.who # u => n = t)
        /\ \A t \in tasks : \E n \in tasks' : SameButLate(t, n)
    BY <1>1, <1>3, LateMoves
  <1>5. \A v \in Users : v # u => hash'[v] = hash[v] /\ vault'[v] = vault[v]
    BY <1>1, <1>2 DEF ChangedElsewhere, SetUpElsewhere
  <1>6. u \in torn' \/ vault'[u] = None \/ vault'[u].pw = hash'[u]
    <2>1. ASSUME NEW stored \in BOOLEAN, ChangedElsewhere(u, stored)
          PROVE  u \in torn' \/ vault'[u] = None \/ vault'[u].pw = hash'[u]
      <3>1. CASE stored
        <4>1. vault[u] \in ShutVaults
          BY <1>1, <2>1, <3>1 DEF ChangedElsewhere, Vaults
        <4>2. vault'[u] = [vault[u] EXCEPT !.pw = minted + 1] /\ hash'[u] = minted + 1
          BY <1>1, <2>1, <3>1 DEF ChangedElsewhere
        <4>3. QED
          BY <4>1, <4>2 DEF ShutVaults
      <3>2. CASE ~ stored
        BY <1>1, <2>1, <3>2 DEF ChangedElsewhere
      <3>3. QED
        BY <3>1, <3>2
    <2>2. CASE SetUpElsewhere(u)
      BY <1>1, <2>2 DEF SetUpElsewhere, Locks
    <2>3. QED
      BY <1>2, <2>1, <2>2
  <1>7. \A v \in Users : Known(v) => Known(v)'
    BY <1>1, <1>3 DEF Known
  <1>8. PeopleAreKnown'
    <2>1. (\A v \in Users : vault[v] # None => Known(v))'
      BY <1>3, <1>5, <1>7 DEF VaultInv, PeopleAreKnown, Known
    <2>2. (\A n \in tasks : n.who # None /\ ~ Newly(n) => Known(n.who))'
      <3> SUFFICES ASSUME NEW n \in tasks', n.who # None, ~ Newly(n) PROVE Known(n.who)'
        BY DEF Newly
      <3>1. PICK t \in tasks : SameButLate(t, n)
        BY <1>4
      <3>2. t.who = n.who /\ n.who \in Users /\ ~ Newly(t)
        BY <1>1, <3>1 DEF SameButLate, Newly, TaskTypes
      <3>3. QED
        BY <1>7, <3>2 DEF VaultInv, PeopleAreKnown
    <2>3. /\ disk.token \in Users \cup {None} /\ disk.mirror \in Users \cup {None}
          /\ disk.profile # None => disk.profile.id \in Users
          /\ app.user # None => app.user.id \in Users
      BY DEF VaultInv, TypesHold, StateTypes, DiskTypes, AppTypes, Profiles
    <2>4. QED
      BY <1>3, <1>7, <2>1, <2>2, <2>3 DEF VaultInv, PeopleAreKnown, Known
  <1>9. TriesAreReal'
    BY <1>4 DEF SameButLate, VaultInv, TriesAreReal, Trying
  <1>10. PasswordsAreOwn'
    <2>1. \A v \in Users, m \in Nat : Uses(v, m) => m <= minted
      BY DEF VaultInv, PasswordsAreOwn
    <2>2. \A v, w \in Users, m \in Nat : Uses(v, m) /\ Uses(w, m) /\ m > 1 => v = w
      BY DEF VaultInv, PasswordsAreOwn
    <2>3. ASSUME NEW v \in Users, NEW m \in Nat, Uses(v, m)'
          PROVE  Uses(v, m) \/ (m = minted + 1 /\ v = u)
      <3>1. CASE hash'[v] = m
        BY <1>1, <1>3, <3>1 DEF Uses
      <3>2. ASSUME NEW n \in tasks', Trying(n), n.who = v, n.pw = m PROVE Uses(v, m)
        BY <1>4, <3>2 DEF SameButLate, Uses, Trying
      <3>3. QED
        BY <2>3, <3>1, <3>2 DEF Uses, Trying
    <2>4. \A v \in Users, m \in Nat : Uses(v, m)' => m <= minted'
      <3> SUFFICES ASSUME NEW v \in Users, NEW m \in Nat, Uses(v, m)' PROVE m <= minted'
        OBVIOUS
      <3>1. Uses(v, m) => m <= minted
        BY <2>1
      <3>2. QED
        BY <1>1, <1>3, <2>3, <3>1
    <2>5. \A v, w \in Users, m \in Nat : Uses(v, m)' /\ Uses(w, m)' /\ m > 1 => v = w
      <3> SUFFICES ASSUME NEW v \in Users, NEW w \in Users, NEW m \in Nat,
                          Uses(v, m)', Uses(w, m)', m > 1
                   PROVE  v = w
        OBVIOUS
      <3>1. Uses(v, m) \/ (m = minted + 1 /\ v = u)
        BY <2>3
      <3>2. Uses(w, m) \/ (m = minted + 1 /\ w = u)
        BY <2>3
      <3>3. (Uses(v, m) => m <= minted) /\ (Uses(w, m) => m <= minted)
        BY <2>1
      <3>4. QED
        BY <1>1, <2>2, <3>1, <3>2, <3>3
    <2>6. QED
      BY <2>4, <2>5 DEF PasswordsAreOwn
  <1>11. FormsAreCurrent'
    <2> SUFFICES ASSUME NEW n \in tasks', ~ n.late, Answered(n), n.who \notin torn'
                 PROVE  n.pw = hash'[n.who]
      BY DEF FormsAreCurrent, Answered
    <2>1. PICK t \in tasks : SameButLate(t, n) /\ (t.who = u => n.late) /\ (t.who # u => n = t)
      BY <1>4
    <2>2. n \in tasks /\ n.who # u /\ n.who \in Users
      BY <1>1, <2>1 DEF Fit, Fits, TaskTypes, Answered
    <2>3. QED
      BY <1>3, <1>5, <2>2 DEF VaultInv, FormsAreCurrent, Answered
  <1>12. VaultsOpenSoon'
    <2> SUFFICES ASSUME NEW v \in Users, v \notin torn', vault'[v] # None
                 PROVE  vault'[v].pw = hash'[v] \/ \E n \in tasks' : Rewrapping(n) /\ n.who = v
      BY DEF VaultsOpenSoon, Rewrapping
    <2>1. CASE v # u
      <3>1. ASSUME NEW t \in tasks, Rewrapping(t), t.who = v
            PROVE  \E n \in tasks' : Rewrapping(n) /\ n.who = v
        BY <1>4, <3>1 DEF SameButLate, Rewrapping
      <3>2. QED
        BY <1>3, <1>5, <2>1, <3>1 DEF VaultInv, VaultsOpenSoon
    <2>2. QED
      BY <1>6, <2>1
  <1>13. QED
    BY <1>8, <1>9, <1>10, <1>11, <1>12 DEF VaultInv

\* A killed app leaves vaults that open, but for the changes it cut.
LEMMA KillMatches ==
    ASSUME VaultInv, TypesHold', Kill
    PROVE  VaultInv'
  <1>1. /\ UNCHANGED <<hash, vault, disk, minted>> /\ tasks' = {} /\ app'.user = None
        /\ torn' = torn \cup {t.who : t \in {s \in tasks : s.step = "rewrap"}}
    BY DEF Kill, accounts, VaultInv, TypesHold, StateTypes, AppTypes
  <1>2. PeopleAreKnown' /\ TriesAreReal' /\ FormsAreCurrent'
    BY <1>1 DEF VaultInv, PeopleAreKnown, TriesAreReal, FormsAreCurrent, Known
  <1>3. PasswordsAreOwn'
    <2>1. \A u, m : Uses(u, m)' => Uses(u, m)
      BY <1>1 DEF Uses, Trying
    <2>2. QED
      BY <1>1, <2>1 DEF VaultInv, PasswordsAreOwn
  <1>4. VaultsOpenSoon'
    BY <1>1 DEF VaultInv, VaultsOpenSoon, Rewrapping
  <1>5. QED
    BY <1>2, <1>3, <1>4 DEF VaultInv

\* An app that does not run has nothing under way.
DeadIsIdle == phase = "dead" => tasks = {}

\* What ends the app ends its tasks, and only what starts it begins one.
LEMMA DeadStaysIdle == DeadIsIdle /\ [ClientNext]_clientvars => DeadIsIdle'
  <1> SUFFICES ASSUME DeadIsIdle, [ClientNext]_clientvars PROVE DeadIsIdle'
    OBVIOUS
  <1> USE DEF DeadIsIdle
  <1>1. Kill => DeadIsIdle'
    BY DEF Kill
  <1>2. UNCHANGED <<phase, tasks>> => DeadIsIdle'
    OBVIOUS
  <1>3. ASSUME NEW t \in tasks, SessionTask(t) \/ Save(t) \/ LoggedOut(t) PROVE DeadIsIdle'
    BY <1>3 DEF SessionTask, Save, LoggedOut, Refreshed, Fetched, RefreshFails, Hydrated, Fails,
                Registered, Checked, Rehash, Told, Open, LoginRefreshes, SetUp, Changed, Rewrap,
                Unregister, Unheard, Wipe
  <1>4. ASSUME phase = "front", SessionUser PROVE DeadIsIdle'
    BY <1>4 DEF SessionUser, SubmitLogin, SubmitRegister, SubmitLazy, Submit, AskRefresh,
                AskChange, AskLogout, Fetch, PersistDraft
  <1>5. ASSUME Elsewhere PROVE DeadIsIdle'
    BY <1>5 DEF Elsewhere, ChangedElsewhere, SetUpElsewhere, LateFor
  <1>6. ASSUME LockUser PROVE DeadIsIdle'
    <2>1. CASE LockLogout \/ \E typed : SubmitUnlock(typed)
      BY <2>1 DEF LockLogout, AskLogout, SubmitUnlock
    <2>2. CASE \/ TimePasses \/ Verify \/ DeclineOffer \/ Disable
               \/ \E offer \in BOOLEAN : Enable(offer)
      BY <2>2 DEF TimePasses, Verify, DeclineOffer, Disable, Enable, sessionvars
    <2>3. QED
      BY <1>6, <2>1, <2>2 DEF LockUser
  <1>7. CASE Hide \/ Show \/ Start
    BY <1>7 DEF Hide, Show, Start, Boot
  <1>8. CASE \E t \in tasks : LogoutEnds(t)
    BY <1>3, <1>8 DEF LogoutEnds
  <1>9. CASE SessionStep
    BY <1>2, <1>3, <1>4, <1>5, <1>9 DEF SessionStep, Usable, Mirrored
  <1>10. CASE LockStep
    BY <1>3, <1>6, <1>10 DEF LockStep, SaveUnlocks
  <1>11. CASE SocketStep
    BY <1>2, <1>11 DEF SocketStep
  <1>12. CASE UpdateStep
    BY <1>1, <1>2, <1>12 DEF UpdateStep, Publish, sessionvars
  <1>13. QED
    BY <1>1, <1>2, <1>7, <1>8, <1>9, <1>10, <1>11, <1>12
    DEF ClientNext, End, clientvars, sessionvars

\* The app starts with the session on disk.
LEMMA BootMatches ==
    ASSUME VaultInv, DeadIsIdle, TypesHold', Boot
    PROVE  VaultInv'
  <1>0. PICK token \in {disk.token, disk.mirror} :
              /\ disk' = [disk EXCEPT !.token = token]
              /\ tasks' \subseteq {Task("hydrate", None), Task("refresh", token)}
    BY DEF Boot
  <1> DEFINE h == Task("hydrate", None)
             r == Task("refresh", token)
  <1>1. /\ token \in Users \cup {None} /\ "hydrate" \in TaskKinds /\ "refresh" \in TaskKinds
        /\ token # None => Known(token)
    BY <1>0 DEF VaultInv, TypesHold, StateTypes, DiskTypes, TaskKinds, PeopleAreKnown
  <1>2. h.kind = "hydrate" /\ h.who = None /\ r.kind = "refresh" /\ r.who = token
    BY <1>1, TaskBegins
  <1>3. \A t \in tasks' : t = h \/ t = r
    BY <1>0
  <1> HIDE DEF h, r
  <1>4. /\ UNCHANGED <<hash, vault, minted, torn>>
        /\ disk'.token = token /\ disk'.mirror = disk.mirror /\ disk'.profile = disk.profile
    BY <1>0 DEF Boot, accounts, VaultInv, TypesHold, StateTypes, DiskTypes
  <1>5. app'.user \in {app.user, disk.profile}
    BY DEF Boot, VaultInv, TypesHold, StateTypes, AppTypes
  <1>6. \A t \in tasks' : ~ Trying(t) /\ ~ Answered(t) /\ (t.who = None \/ t.who = token)
    BY <1>2, <1>3 DEF Trying, Answered, Forms
  <1>7. PeopleAreKnown'
    <2>1. (app.user # None => Known(app.user.id))'
      BY <1>4, <1>5 DEF VaultInv, PeopleAreKnown, Known
    <2>2. ASSUME NEW t \in tasks', t.who # None PROVE Known(t.who)'
      BY <1>1, <1>4, <1>6, <2>2 DEF Known
    <2>3. QED
      BY <1>1, <1>4, <2>1, <2>2 DEF VaultInv, PeopleAreKnown, Known
  <1>8. TriesAreReal'
    BY <1>6 DEF TriesAreReal, Trying
  <1>9. FormsAreCurrent'
    BY <1>6 DEF FormsAreCurrent, Answered
  <1>10. PasswordsAreOwn'
    <2>1. \A u, m : Uses(u, m)' => Uses(u, m)
      BY <1>4, <1>6 DEF Uses, Trying
    <2>2. QED
      BY <1>4, <2>1 DEF VaultInv, PasswordsAreOwn
  <1>11. VaultsOpenSoon'
    <2>1. ASSUME NEW u \in Users, u \notin torn', vault'[u] # None
          PROVE  vault'[u].pw = hash'[u]
      BY <1>4, <2>1 DEF VaultInv, VaultsOpenSoon, DeadIsIdle, Boot
    <2>2. QED
      BY <2>1 DEF VaultsOpenSoon
  <1>12. QED
    BY <1>7, <1>8, <1>9, <1>10, <1>11 DEF VaultInv

\* What a session starts with is in order.
LEMMA VaultInitially == ClientInit => VaultInv /\ DeadIsIdle
  <1> SUFFICES ASSUME ClientInit PROVE VaultInv /\ DeadIsIdle
    OBVIOUS
  <1>1. TypesHold
    BY TypesInitially
  <1>2. /\ hash = [v \in Users |-> IF v \in Newcomers THEN 0 ELSE 1]
        /\ tasks = {} /\ minted = 1 /\ torn = {} /\ phase = "front"
    BY DEF ClientInit, SessionInit
  <1>3. PeopleAreKnown /\ VaultsOpenSoon
    <2>1. CASE SessionInit
      BY <1>2, <2>1 DEF SessionInit, NewDisk, PeopleAreKnown, VaultsOpenSoon
    <2>2. CASE ~ SessionInit
      <3>1. PICK u \in Users \ Newcomers :
                 /\ vault = [v \in Users |-> IF v = u THEN Locks(1, Key(u, 1)) ELSE None]
                 /\ disk = [token |-> u, profile |-> Profile(u), key |-> Key(u, 1),
                            cache |-> None, fcm |-> FALSE, drafts |-> {}, mirror |-> u]
                 /\ app = [user |-> Profile(u), loading |-> FALSE, started |-> TRUE,
                           key |-> Key(u, 1), hydrating |-> FALSE, peers |-> None]
        BY <2>2 DEF ClientInit
      <3>2. /\ disk.token = u /\ disk.mirror = u /\ disk.profile.id = u /\ app.user.id = u
            /\ hash[u] = 1
        BY <1>2, <3>1 DEF Profile
      <3>3. \A v \in Users : vault[v] # None => v = u /\ vault[v].pw = 1
        BY <3>1 DEF Locks
      <3>4. QED
        BY <1>2, <3>2, <3>3 DEF PeopleAreKnown, VaultsOpenSoon, Known
    <2>3. QED
      BY <2>1, <2>2
  <1>4. TriesAreReal /\ FormsAreCurrent /\ DeadIsIdle
    BY <1>2 DEF TriesAreReal, FormsAreCurrent, DeadIsIdle
  <1>5. PasswordsAreOwn
    BY <1>2 DEF PasswordsAreOwn, Uses
  <1>6. QED
    BY <1>1, <1>3, <1>4, <1>5 DEF VaultInv

\* Every step of the shell keeps it so.
LEMMA VaultInductive ==
    VaultInv /\ DeadIsIdle /\ [ClientNext]_clientvars => VaultInv' /\ DeadIsIdle'
  <1> SUFFICES ASSUME VaultInv, DeadIsIdle, [ClientNext]_clientvars
               PROVE  VaultInv' /\ DeadIsIdle'
    OBVIOUS
  <1>1. TypesHold' /\ DeadIsIdle'
    BY TypesInductive, DeadStaysIdle DEF VaultInv
  <1> SUFFICES VaultInv'
    BY <1>1
  <1>2. UNCHANGED <<hash, vault, torn, disk, tasks, minted, app>> => VaultInv'
    BY <1>1, NothingMatches
  <1>3. Kill => VaultInv'
    BY <1>1, KillMatches
  <1>4. ASSUME NEW t \in tasks, SessionTask(t) \/ Save(t) \/ LoggedOut(t) PROVE VaultInv'
    BY <1>1, <1>4, TasksKnowPeople, TasksUseOwn, TasksMatchVaults DEF VaultInv
  <1>5. SessionUser \/ LockUser => VaultInv'
    BY <1>1, PeopleMatchVaults
  <1>6. Elsewhere => VaultInv'
    BY <1>1, ElsewhereMatches
  <1>7. CASE Hide \/ Show
    BY <1>2, <1>7 DEF Hide, Show, accounts
  <1>8. CASE Start
    BY <1>1, <1>8, BootMatches DEF Start
  <1>9. CASE \E t \in tasks : LogoutEnds(t)
    BY <1>4, <1>9 DEF LogoutEnds
  <1>10. CASE SessionStep
    BY <1>1, <1>4, <1>5, <1>6, <1>10, StoresMatch DEF SessionStep
  <1>11. CASE LockStep
    BY <1>4, <1>5, <1>11 DEF LockStep, SaveUnlocks
  <1>12. CASE SocketStep
    BY <1>2, <1>12 DEF SocketStep, accounts
  <1>13. CASE UpdateStep
    BY <1>2, <1>3, <1>13 DEF UpdateStep, Publish, sessionvars, accounts
  <1>14. QED
    BY <1>1, <1>2, <1>3, <1>7, <1>8, <1>9, <1>10, <1>11, <1>12, <1>13
    DEF ClientNext, End, clientvars, sessionvars, accounts

\* A vault that waits for its change has one under way.
LEMMA VaultEnough == VaultInv => VaultOpens
  <1> SUFFICES ASSUME VaultInv, NEW u \in Users, u \notin torn, vault[u] # None,
                      ~ Running("change")
               PROVE  vault[u].pw = hash[u]
    BY DEF VaultOpens
  <1>1. \A t \in tasks : ~ Rewrapping(t)
    BY DEF Running, Rewrapping
  <1>2. QED
    BY <1>1 DEF VaultInv, VaultsOpenSoon

\* The vault of a user opens with the password that signs in, unless a change was cut in two
\* or overlapped another (ChangePasswordForm.tsx, vaultBootstrap.ts, auth_service.go).
THEOREM VaultAlwaysOpens == ClientSpec => []VaultOpens
  <1>1. ClientInit => VaultInv /\ DeadIsIdle
    BY VaultInitially
  <1>2. VaultInv /\ DeadIsIdle /\ [ClientNext]_clientvars => VaultInv' /\ DeadIsIdle'
    BY VaultInductive
  <1>3. VaultInv => VaultOpens
    BY VaultEnough
  <1>4. QED
    BY <1>1, <1>2, <1>3, PTL DEF ClientSpec

----------------------------------------------------------------------------
(* The session: the end of it.                                             *)

\* A device on which a session leaves nothing but drafts and, maybe, the token's copy.
Blank == /\ disk.token = None /\ disk.profile = None /\ disk.key = None
         /\ disk.cache = None /\ ~ disk.fcm

\* What cannot bring anything back of a session that has ended.
Idle(t) == t.late \/ t.kind = "hydrate" \/ (t.kind = "logout" /\ t.step = "end")

\* Nothing is left on the device and in the app.
Clean == Blank /\ push = None /\ \A t \in tasks : Idle(t)
Empty == app.user = None /\ app.peers = None

\* A registered push token is known to be registered, until a logout; from its last steps
\* on the device is clean, and after them nobody is signed in.
LeftInv ==
    ~ mixed => /\ push = None \/ disk.fcm
               /\ Leaving \/ left => Clean
               /\ left /\ ~ Leaving => Empty

\* A task of an ended session changes nothing that a logout cleans, or the history says so.
LEMMA IdleTasksTouchNothing ==
    ASSUME TypesHold, NEW t \in tasks, SessionTask(t) \/ Save(t), ~ Wipe(t), ~ mixed'
    PROVE  /\ ~ mixed /\ left' = left /\ t.step # "end"
           /\ push = None \/ disk.fcm => push' = None \/ disk'.fcm
           /\ t.late \/ t.kind = "hydrate" =>
                 /\ Blank => Blank'
                 /\ push = None => push' = None
                 /\ Empty => Empty'
  <1>1. t \in TaskTypes /\ Fits(t) /\ disk \in DiskTypes /\ app \in AppTypes
    BY DEF TypesHold, Fit, StateTypes
  <1> USE DEF DiskTypes, AppTypes, Empty, Blank
  <1>2. CASE \/ Registered(t) \/ Checked(t) \/ Rehash(t) \/ Fails(t)
             \/ \E ok \in BOOLEAN : Changed(t, ok)
    BY <1>1, <1>2 DEF Registered, Checked, Rehash, Fails, Changed, accounts, Fits
  <1>3. CASE Hydrated(t) \/ RefreshFails(t)
    <2>1. /\ UNCHANGED <<disk, push>> /\ ~ mixed /\ left' = left /\ t.step = "ask"
      BY <1>1, <1>3 DEF Hydrated, RefreshFails, accounts, Fits
    <2>2. CASE Hydrated(t)
      BY <1>1, <2>1, <2>2 DEF Hydrated
    <2>3. CASE RefreshFails(t)
      <3> DEFINE user == IF disk.profile = None THEN None ELSE app.user
      <3>1. app' = [app EXCEPT !.user = user, !.loading = FALSE]
        BY <2>3 DEF RefreshFails
      <3>2. app.user = None => user = None
        OBVIOUS
      <3> HIDE DEF user
      <3>3. app'.user = user /\ app'.peers = app.peers
        BY <1>1, <3>1
      <3>4. QED
        BY <2>1, <3>2, <3>3
    <2>4. QED
      BY <1>3, <2>2, <2>3
  <1>4. CASE LoginRefreshes(t)
    <2>1. app' = [app EXCEPT !.loading = @ \/ ~ app.started]
      BY <1>4 DEF LoginRefreshes, AskProfile
    <2>2. app'.user = app.user /\ app'.peers = app.peers
      BY <1>1, <2>1
    <2>3. QED
      BY <1>4, <2>2 DEF LoginRefreshes, accounts
  <1>5. CASE Open(t)
    BY <1>1, <1>5 DEF Open, accounts, Fits, Forms, Fetches, WithoutKey
  <1>6. ASSUME NEW ok \in BOOLEAN, Rewrap(t, ok)
        PROVE  /\ ~ mixed /\ left' = left /\ t.step # "end" /\ ~ t.late /\ t.kind # "hydrate"
               /\ disk' = disk /\ push' = push
    BY <1>1, <1>6 DEF Rewrap, Fits
  <1>7. ASSUME NEW stored \in BOOLEAN, NEW ok \in BOOLEAN, SetUp(t, stored, ok)
        PROVE  /\ ~ mixed /\ left' = left /\ t.step # "end" /\ ~ t.late /\ t.kind # "hydrate"
               /\ disk' = disk /\ push' = push
    BY <1>1, <1>7 DEF SetUp, Forms
  <1>8. CASE Told(t) \/ Save(t)
    <2>1. /\ push' = push /\ ~ mixed /\ ~ t.late /\ left' = left /\ t.kind # "hydrate"
          /\ t.step # "end"
      <3>1. CASE Told(t)
        BY <3>1 DEF Told, accounts, Forms
      <3>2. CASE Save(t)
        BY <3>2 DEF Save, accounts, Forms
      <3>3. QED
        BY <1>8, <3>1, <3>2
    <2>2. disk'.fcm = disk.fcm
      BY <1>1, <1>8 DEF Told, Save
    <2>3. QED
      BY <2>1, <2>2
  <1>9. ASSUME NEW ok \in BOOLEAN, Unregister(t, ok)
        PROVE  /\ ~ mixed /\ left' = left /\ t.step # "end" /\ app' = app
               /\ push' = None /\ (Blank => Blank')
    <2>1. ok /\ ~ mixed
      BY <1>9 DEF Unregister
    <2>2. disk' = [disk EXCEPT !.fcm = FALSE]
      BY <1>9 DEF Unregister
    <2>3. Blank => Blank'
      <3> SUFFICES ASSUME Blank PROVE Blank'
        OBVIOUS
      <3>1. disk'.fcm = FALSE /\ disk'.token = disk.token /\ disk'.profile = disk.profile
            /\ disk'.key = disk.key /\ disk'.cache = disk.cache
        BY <1>1, <2>2
      <3>2. QED
        BY <3>1
    <2>4. QED
      BY <1>9, <2>1, <2>3 DEF Unregister
  <1>10. CASE Unheard(t)
    BY <1>10 DEF Unheard
  <1>11. ASSUME NEW slide \in BOOLEAN, Refreshed(t, slide)
         PROVE  /\ ~ mixed /\ left' = left /\ t.step # "end" /\ ~ t.late /\ t.kind # "hydrate"
                /\ push' = push /\ disk'.fcm = disk.fcm
    BY <1>1, <1>11 DEF Refreshed, accounts, Fits
  <1>12. ASSUME NEW slide \in BOOLEAN, Fetched(t, slide)
         PROVE  /\ ~ mixed /\ left' = left /\ t.step # "end" /\ ~ t.late /\ t.kind # "hydrate"
                /\ push = None \/ disk.fcm => push' = None \/ disk'.fcm
    <2>1. disk' = [disk EXCEPT !.cache = IF t.kind = "read" THEN t.who ELSE @,
                               !.fcm = @ \/ t.kind = "fcm",
                               !.token = IF slide THEN t.who ELSE @]
      BY <1>12 DEF Fetched
    <2>2. disk'.fcm = (disk.fcm \/ t.kind = "fcm")
      BY <1>1, <2>1
    <2>3. QED
      BY <1>1, <1>12, <2>2 DEF Fetched, Fits, Fetches
  <1>13. QED
    BY <1>2, <1>3, <1>4, <1>5, <1>6, <1>7, <1>8, <1>9, <1>10, <1>11, <1>12 DEF SessionTask

\* What comes of idle tasks is idle, and a logout at its end stays there.
LEMMA IdleTasksStayIdle ==
    ASSUME TypesHold, NEW t \in tasks, SessionTask(t) \/ Save(t), ~ Wipe(t), t.step # "end"
    PROVE  /\ (\A s \in tasks : Idle(s)) => (\A n \in tasks' : Idle(n))
           /\ Leaving' <=> Leaving
  <1>1. Evolves(t)
    BY TasksEvolve
  <1>2. ASSUME \A s \in tasks : Idle(s), NEW n \in tasks' PROVE Idle(n)
    <2>1. CASE \E s \in tasks \ {t} : SameButLate(s, n)
      BY <1>2, <2>1 DEF SameButLate, Idle
    <2>2. CASE Follows(t, n)
      BY <1>2, <2>2 DEF Follows, MovesTo, Idle
    <2>3. CASE t.step = "profile" /\ Refreshing(t, n)
      <3>1. t.late
        BY <1>2, <2>3 DEF Idle, TypesHold, Fit, Fits
      <3>2. QED
        BY <2>3, <3>1 DEF Refreshing, Idle
    <2>4. QED
      BY <1>1, <2>1, <2>2, <2>3 DEF Evolves
  <1>3. ASSUME NEW n \in tasks', n.kind = "logout", n.step = "end" PROVE Leaving
    <2>1. ASSUME NEW s \in tasks, SameButLate(s, n) PROVE Leaving
      BY <1>3, <2>1 DEF SameButLate, Leaving
    <2>2. ~ Follows(t, n) /\ ~ Refreshing(t, n)
      BY <1>3 DEF Follows, Refreshing
    <2>3. QED
      BY <1>1, <2>1, <2>2 DEF Evolves
  <1>4. ASSUME NEW s \in tasks, s.kind = "logout", s.step = "end" PROVE Leaving'
    <2>1. PICK n \in tasks' : SameButLate(s, n)
      BY <1>1, <1>4 DEF Evolves
    <2>2. QED
      BY <1>4, <2>1 DEF SameButLate, Leaving
  <1>5. QED
    BY <1>2, <1>3, <1>4 DEF Leaving, Idle

\* The steps of tasks keep what a logout leaves.
LEMMA TasksLeaveInOrder ==
    ASSUME TypesHold, LeftInv, NEW t \in tasks, SessionTask(t) \/ Save(t) \/ LoggedOut(t)
    PROVE  LeftInv'
  <1>1. t \in TaskTypes /\ tasks \subseteq TaskTypes /\ disk \in DiskTypes /\ app \in AppTypes
    BY DEF TypesHold, Fit, StateTypes
  <1> SUFFICES ASSUME ~ mixed' PROVE LeftInv'
    BY DEF LeftInv
  <1>2. CASE (SessionTask(t) \/ Save(t)) /\ ~ Wipe(t)
    <2>1. /\ ~ mixed /\ left' = left /\ t.step # "end"
          /\ push = None \/ disk.fcm => push' = None \/ disk'.fcm
          /\ t.late \/ t.kind = "hydrate" =>
                 /\ Blank => Blank'
                 /\ push = None => push' = None
                 /\ Empty => Empty'
      BY <1>2, IdleTasksTouchNothing
    <2>2. /\ (\A s \in tasks : Idle(s)) => (\A n \in tasks' : Idle(n))
          /\ Leaving' <=> Leaving
      BY <1>2, <2>1, IdleTasksStayIdle
    <2>3. Idle(t) => t.late \/ t.kind = "hydrate"
      BY <2>1 DEF Idle
    <2>4. /\ push = None \/ disk.fcm
          /\ Leaving \/ left => Clean
          /\ left /\ ~ Leaving => Empty
      BY <2>1 DEF LeftInv
    <2>5. Clean => Clean' /\ (Empty => Empty')
      <3>1. Clean => Idle(t)
        BY DEF Clean
      <3>2. Clean => \A n \in tasks' : Idle(n)
        BY <2>2 DEF Clean
      <3>3. Clean => Blank' /\ push' = None /\ (Empty => Empty')
        BY <2>1, <2>3, <3>1 DEF Clean
      <3>4. QED
        BY <3>2, <3>3 DEF Clean, Blank, Idle
    <2>6. QED
      BY <2>1, <2>2, <2>4, <2>5 DEF LeftInv
  <1>3. CASE Wipe(t)
    <2>1. PICK n : /\ MovesTo(t, n) /\ n.step = "end"
                   /\ tasks' = AllLate(tasks \ {t}) \cup {n}
      BY <1>3, WipeMoves
    <2>2. n.kind = "logout" /\ tasks \ {t} \subseteq TaskTypes
      BY <1>1, <1>3, <2>1 DEF Wipe, MovesTo
    <2>3. Leaving' /\ \A m \in tasks' : Idle(m)
      BY <2>1, <2>2, LateMoves DEF Leaving, Idle
    <2>4. push' = push /\ ~ disk.fcm /\ push = None
      BY <1>3 DEF Wipe, accounts, LeftInv
    <2>5. Blank'
      BY <1>1, <1>3, <2>4 DEF Wipe, DiskTypes, Blank
    <2>6. Clean'
      BY <2>3, <2>4, <2>5 DEF Clean, Blank, Idle
    <2>7. QED
      BY <2>3, <2>4, <2>6 DEF LeftInv
  <1>4. CASE LoggedOut(t)
    <2>1. /\ tasks' = tasks \ {t} /\ UNCHANGED <<disk, push>> /\ mixed' = mixed /\ left'
          /\ Leaving
      BY <1>4 DEF LoggedOut, Swap, accounts, Leaving
    <2>2. Clean
      BY <2>1 DEF LeftInv
    <2>3. Clean'
      BY <2>1, <2>2 DEF Clean, Blank, Idle
    <2>4. Empty'
      BY <1>1, <1>4 DEF LoggedOut, AppTypes, Empty
    <2>5. push' = None
      BY <2>1, <2>2 DEF Clean
    <2>6. QED
      BY <2>3, <2>4, <2>5 DEF LeftInv
  <1>5. QED
    BY <1>2, <1>3, <1>4

\* Drafts and the token's copy are not among what a logout takes.
LEMMA StoresLeave ==
    ASSUME TypesHold, LeftInv, PersistDraft \/ Mirrored
    PROVE  LeftInv'
  <1>1. UNCHANGED <<push, app, tasks, mixed, left>> /\ SameBut
    BY StoresBeside DEF TypesHold, StateTypes
  <1>2. QED
    BY <1>1 DEF SameBut, LeftInv, Clean, Empty, Leaving, Blank, Idle

\* What people begin while nobody is signed in is a sign-in; at the end of a logout it is late.
LEMMA PeopleLeaveInOrder ==
    ASSUME TypesHold, LeftInv, SessionUser \/ LockUser
    PROVE  LeftInv'
  <1>1. app \in AppTypes /\ hash \in [Users -> Nat] /\ \A u \in Users : u # None
    BY SessionAssumption DEF TypesHold, StateTypes
  <1>2. ASSUME NEW n, Begins(n), n.kind = "logout" => n.step # "end",
               UNCHANGED <<disk, push, mixed>>, app'.user = app.user, app'.peers = app.peers,
               \/ left' = left /\ app.user # None
               \/ left' = FALSE
        PROVE  LeftInv'
    <2>1. Leaving' <=> Leaving
      BY <1>2 DEF Begins, Leaving
    <2>2. Leaving /\ Clean => Clean'
      BY <1>2 DEF Begins, Clean, Idle, Blank
    <2>3. ASSUME ~ mixed, left' = left, app.user # None, left PROVE Leaving
      BY <2>3 DEF LeftInv, Empty
    <2>4. QED
      BY <1>2, <2>1, <2>2, <2>3 DEF LeftInv, Empty
  <1>3. UserId # None => app.user # None
    BY DEF UserId
  <1>4. ASSUME NEW u \in Users, SubmitLogin(u) \/ SubmitRegister(u) \/ SubmitLazy(u)
        PROVE  LeftInv'
    <2>1. PICK kind \in Forms, pw \in Nat :
               Submit(kind, u, pw) /\ (kind \in SigningIn \/ app.user # None)
      BY <1>1, <1>3, <1>4 DEF SubmitLogin, SubmitRegister, SubmitLazy, Forms, SigningIn
    <2>2. PICK n : Begins(n) /\ n.kind = kind
      BY <2>1, SubmitBegins
    <2>3. n.kind # "logout"
      BY <2>2 DEF Forms
    <2>4. /\ UNCHANGED <<disk, push, mixed, app>>
          /\ (left' = left /\ app.user # None) \/ left' = FALSE
      BY <2>1 DEF Submit, accounts
    <2>5. QED
      BY <1>2, <2>2, <2>3, <2>4
  <1>5. CASE AskRefresh
    <2>1. PICK n : Begins(n) /\ n.kind = "refresh"
      BY <1>5, FetchBegins
    <2>2. app' = AskProfile(app) /\ app.user # None /\ UNCHANGED <<disk, push, mixed, left>>
      BY <1>5 DEF AskRefresh, SignedIn, accounts
    <2>3. app'.user = app.user /\ app'.peers = app.peers
      BY <1>1, <2>2 DEF AskProfile, AppTypes
    <2>4. QED
      BY <1>2, <2>1, <2>2, <2>3
  <1>6. CASE AskChange
    <2>1. PICK n : Begins(n) /\ n.kind = "change"
      BY <1>6, ChangeBegins
    <2>2. QED
      BY <1>2, <1>6, <2>1 DEF AskChange, SignedIn
  <1>7. CASE AskLogout
    <2>1. PICK n : Begins(n) /\ n.kind = "logout" /\ n.step \in {"fcm", "api"}
      BY <1>7, LogoutBegins
    <2>2. /\ UNCHANGED <<disk, push, mixed, left>> /\ app.user # None
          /\ app'.user = app.user /\ app'.peers = app.peers
      BY <1>1, <1>7 DEF AskLogout, SignedIn, accounts, AppTypes
    <2>3. QED
      BY <1>2, <2>1, <2>2
  <1>8. ASSUME NEW kind \in Fetches, Fetch(kind) PROVE LeftInv'
    <2>1. PICK n : Begins(n) /\ n.kind = kind
      BY <1>8, FetchBegins
    <2>2. kind # "logout"
      BY DEF Fetches
    <2>3. UNCHANGED <<disk, push, mixed, left, app>> /\ app.user # None
      BY <1>8 DEF Fetch, SignedIn, accounts
    <2>4. QED
      BY <1>2, <2>1, <2>2, <2>3
  <1>9. ASSUME NEW typed \in {hash[UserId]} \cup
                    (IF app.user.vault = None THEN {} ELSE {app.user.vault.pw}),
               app.user # None, SubmitUnlock(typed)
        PROVE  LeftInv'
    <2>1. typed \in Nat
      BY <1>1, <1>9 DEF UserId, AppTypes, Profiles, Vaults, ShutVaults
    <2>2. PICK n : Begins(n) /\ n.kind = "unlock"
      BY <1>9, <2>1, UnlockBegins
    <2>3. UNCHANGED <<disk, push, mixed, left, app>>
      BY <1>9 DEF SubmitUnlock, accounts
    <2>4. QED
      BY <1>2, <1>9, <2>2, <2>3
  <1>10. CASE \/ TimePasses \/ Verify \/ DeclineOffer \/ Disable
              \/ \E offer \in BOOLEAN : Enable(offer)
    <2>1. UNCHANGED <<disk, push, mixed, left, app, tasks>>
      BY <1>10 DEF TimePasses, Verify, DeclineOffer, Disable, Enable, sessionvars, accounts
    <2>2. QED
      BY <2>1 DEF LeftInv, Clean, Empty, Leaving, Blank, Idle
  <1>14. CASE PersistDraft
    BY <1>14, StoresLeave
  <1>11. CASE SessionUser
    BY <1>4, <1>5, <1>6, <1>7, <1>8, <1>11, <1>14 DEF SessionUser, Fetches
  <1>12. CASE LockUser
    BY <1>7, <1>9, <1>10, <1>12 DEF LockUser, LockLogout
  <1>13. QED
    BY <1>11, <1>12

\* Every step of the shell keeps what a logout leaves.
LEMMA LeftInductive ==
    TypesHold /\ DeadIsIdle /\ LeftInv /\ [ClientNext]_clientvars => LeftInv'
  <1> SUFFICES ASSUME TypesHold, DeadIsIdle, LeftInv, [ClientNext]_clientvars
               PROVE  LeftInv'
    OBVIOUS
  <1>1. tasks \subseteq TaskTypes /\ app \in AppTypes /\ disk \in DiskTypes
    BY DEF TypesHold, StateTypes, Fit
  <1>2. UNCHANGED <<disk, push, mixed, left, app, tasks>> => LeftInv'
    BY DEF LeftInv, Clean, Empty, Leaving, Blank, Idle
  <1>3. Kill => LeftInv'
    BY <1>1 DEF Kill, LeftInv, Clean, Empty, Leaving, Blank, Idle, accounts, AppTypes
  <1>4. CASE Start
    <2> SUFFICES ASSUME ~ mixed' PROVE LeftInv'
      BY DEF LeftInv
    <2>0. disk' = disk
      <3>1. disk' = [disk EXCEPT !.token = disk.token]
        BY <1>4 DEF Start, Boot
      <3>2. QED
        BY <1>1, <3>1 DEF DiskTypes
    <2>1. /\ UNCHANGED <<push, disk, left>> /\ ~ mixed /\ ~ Leaving
          /\ tasks' = {Task("hydrate", None)}
                        \cup (IF disk.token = None THEN {} ELSE {Task("refresh", disk.token)})
          /\ disk.token = None => app' = app
      BY <1>4, <2>0 DEF Start, Boot, DeadIsIdle, accounts, Leaving
    <2>2. /\ Task("hydrate", None).kind = "hydrate"
          /\ Task("refresh", disk.token).kind = "refresh"
      BY <1>1, TaskBegins DEF TaskKinds, DiskTypes
    <2>3. ~ Leaving'
      BY <2>1, <2>2 DEF Leaving
    <2>4. Blank => \A n \in tasks' : Idle(n)
      BY <2>1, <2>2 DEF Blank, Idle
    <2>5. Clean => Clean' /\ (Empty => Empty')
      BY <2>1, <2>4 DEF Clean, Empty, Blank, Idle
    <2>6. QED
      BY <2>1, <2>3, <2>5 DEF LeftInv
  <1>5. ASSUME Elsewhere PROVE LeftInv'
    <2>1. PICK u \in Users : tasks' = LateFor(u, tasks)
      BY <1>5 DEF Elsewhere, ChangedElsewhere, SetUpElsewhere
    <2>2. UNCHANGED <<disk, push, mixed, left, app>>
      BY <1>5 DEF Elsewhere, ChangedElsewhere, SetUpElsewhere
    <2>3. /\ \A n \in tasks' : \E t \in tasks : SameButLate(t, n)
          /\ \A t \in tasks : \E n \in tasks' : SameButLate(t, n)
      BY <1>1, <2>1, LateMoves
    <2>4. Leaving' <=> Leaving
      BY <2>3 DEF Leaving, SameButLate
    <2>5. Clean => Clean'
      BY <2>2, <2>3 DEF Clean, Idle, SameButLate, Blank
    <2>6. QED
      BY <2>2, <2>4, <2>5 DEF LeftInv, Empty
  <1>6. ASSUME NEW t \in tasks, SessionTask(t) \/ Save(t) \/ LoggedOut(t) PROVE LeftInv'
    BY <1>6, TasksLeaveInOrder
  <1>7. SessionUser \/ LockUser => LeftInv'
    BY PeopleLeaveInOrder
  <1>8. CASE Hide \/ Show
    BY <1>2, <1>8 DEF Hide, Show, accounts
  <1>9. CASE \E t \in tasks : LogoutEnds(t)
    BY <1>6, <1>9 DEF LogoutEnds
  <1>10. CASE SessionStep
    BY <1>5, <1>6, <1>7, <1>10, StoresLeave DEF SessionStep
  <1>11. CASE LockStep
    BY <1>6, <1>7, <1>11 DEF LockStep, SaveUnlocks
  <1>12. CASE SocketStep
    BY <1>2, <1>12 DEF SocketStep, accounts
  <1>13. CASE UpdateStep
    BY <1>2, <1>3, <1>13 DEF UpdateStep, Publish, sessionvars, accounts
  <1>14. QED
    BY <1>2, <1>3, <1>4, <1>8, <1>9, <1>10, <1>11, <1>12, <1>13
    DEF ClientNext, End, clientvars, sessionvars, accounts

\* For any users and any number of events: after a logout, restarts of the app included,
\* nobody is signed in, no push comes and the user's token, profile, key and messages are not
\* on the device (the drafts are), unless something of the session was still under way, the
\* server could not be told or a start found the copy of the token (useAuth.ts logout,
\* httpClient.ts hydrateAuthToken, useFCMNotifications.ts).
THEOREM LogoutAlwaysFinal == ClientSpec => []LogoutIsFinal
  <1> DEFINE Inv == TypesHold /\ DeadIsIdle /\ LeftInv
  <1>1. ClientInit => Inv
    <2>1. ClientInit => LeftInv
      BY DEF ClientInit, SessionInit, LeftInv, Leaving
    <2>2. QED
      BY <2>1, TypesInitially, VaultInitially
  <1>2. Inv /\ [ClientNext]_clientvars => Inv'
    BY TypesInductive, DeadStaysIdle, LeftInductive
  <1>3. Inv => LogoutIsFinal
    BY DEF LeftInv, LogoutIsFinal, Clean, Empty, Blank, Leaving
  <1>4. QED
    BY <1>1, <1>2, <1>3, PTL DEF ClientSpec

----------------------------------------------------------------------------
(* The session: the key in use.                                            *)

\* The key that the vault of u holds.
IsKeyOf(k, u) == u # None /\ vault[u] # None /\ k = vault[u].key

\* A session goes on between its first answer and the end of its logout.
Inside == app.user # None /\ ~ Leaving

\* What ends with a profile, and so with somebody signed in.
Enters(t) == ~ t.late /\ ((t.kind = "refresh" /\ t.who # None) \/ t.step = "profile")

\* The token, the profiles, the tasks and the keys of one moment are of one user.
InOrder(t) ==
    /\ t.kind \in {"refresh", "change"} \cup Fetches /\ t.who # None => t.who = disk.token
    /\ t.step \in {"put", "open", "save", "profile"} => t.who = disk.token
    /\ t.step = "save" => IsKeyOf(t.key, t.who)
    /\ t.kind \in Forms /\ t.step \in {"ask", "rehash", "told", "open"} /\ t.vault # None =>
          IsKeyOf(t.vault.key, t.who)
    /\ t.kind = "change" /\ t.key # None => IsKeyOf(t.key, t.who)

\* The profile of whom the token is of, and its vault is the stored one.
IsOurs(p) == p.id = disk.token /\ (p.vault # None => IsKeyOf(p.vault.key, p.id))

\* The key in memory, if any, is theirs.
KeyInMind == app.key = None \/ IsKeyOf(app.key, disk.token)

\* Unless two sessions, or two set-ups of a vault, overlapped, all of that is so.
KeyInv ==
    ~ mixed => /\ \A t \in tasks : t.late \/ InOrder(t)
               /\ Inside => IsOurs(app.user)
               /\ disk.profile # None => IsOurs(disk.profile)
               /\ Inside \/ (\E t \in tasks : Enters(t)) => KeyInMind
               /\ disk.key # None => IsKeyOf(disk.key, disk.token)

\* Nobody else signs in, and no vault gets another key.
Steady ==
    /\ disk'.token = disk.token \/ disk.token = None
    /\ \A u \in Users : vault[u] # None => vault'[u] # None /\ vault'[u].key = vault[u].key

\* Such a step keeps everybody's keys and profiles.
LEMMA SteadyKeeps ==
    ASSUME TypesHold, Steady
    PROVE  /\ \A u \in Users \cup {None}, k \in Keys : IsKeyOf(k, u) => IsKeyOf(k, u)'
           /\ \A k \in Keys : IsKeyOf(k, disk.token) => IsKeyOf(k, disk.token)'
           /\ \A p \in Profiles : IsOurs(p) => IsOurs(p)'
           /\ \A t \in tasks : \A n : SameButLate(t, n) /\ InOrder(t) => InOrder(n)'
  <1>1. disk.token \in Users \cup {None} /\ vault \in [Users -> Vaults] /\ tasks \subseteq Fit
    BY DEF TypesHold, StateTypes, DiskTypes
  <1>2. ASSUME NEW u, u \in Users \cup {None}, NEW k, IsKeyOf(k, u) PROVE IsKeyOf(k, u)'
    BY <1>1, <1>2 DEF IsKeyOf, Steady
  <1>3. ASSUME NEW k, IsKeyOf(k, disk.token) PROVE IsKeyOf(k, disk.token)'
    <2>1. disk.token # None
      BY <1>3 DEF IsKeyOf
    <2>2. disk'.token = disk.token
      BY <2>1 DEF Steady
    <2>3. IsKeyOf(k, disk.token) /\ disk.token \in Users
      BY <1>1, <1>3, <2>1
    <2>4. QED
      BY <2>2, <2>3 DEF IsKeyOf, Steady
  <1>4. ASSUME NEW p \in Profiles, IsOurs(p) PROVE IsOurs(p)'
    <2>1. p.id \in Users /\ p.id = disk.token
      BY <1>4 DEF Profiles, IsOurs
    <2>2. disk'.token = disk.token
      BY <2>1, SessionAssumption DEF Steady
    <2>3. p.vault # None => IsKeyOf(p.vault.key, p.id)'
      BY <1>2, <1>4, <2>1 DEF IsOurs
    <2>4. QED
      BY <2>1, <2>2, <2>3 DEF IsOurs
  <1>5. ASSUME NEW t \in tasks, NEW n, SameButLate(t, n), InOrder(t) PROVE InOrder(n)'
    <2>1. t.who \in Users \cup {None} /\ Fits(t)
      BY <1>1 DEF Fit, TaskTypes
    <2>2. /\ n.kind = t.kind /\ n.who = t.who /\ n.step = t.step
          /\ n.vault = t.vault /\ n.key = t.key
      BY <1>5 DEF SameButLate
    <2>3. \A k : IsKeyOf(k, t.who) => IsKeyOf(k, t.who)'
      BY <1>2, <2>1
    <2>4. t.who # None /\ t.who = disk.token => t.who = disk'.token
      BY DEF Steady
    <2>5. t.step \in {"put", "open", "save", "profile"} => t.who # None
      BY <1>1, <2>1 DEF Fit, TaskTypes, TaskKinds, Fits, Forms, Fetches
    <2>6. t.kind \in {"refresh", "change"} \cup Fetches /\ t.who # None => t.who = disk'.token
      BY <1>5, <2>4 DEF InOrder
    <2>7. t.step \in {"put", "open", "save", "profile"} => t.who = disk'.token
      BY <1>5, <2>4, <2>5 DEF InOrder
    <2>8. /\ t.step = "save" => IsKeyOf(t.key, t.who)'
          /\ t.kind \in Forms /\ t.step \in {"ask", "rehash", "told", "open"} /\ t.vault # None
                => IsKeyOf(t.vault.key, t.who)'
          /\ t.kind = "change" /\ t.key # None => IsKeyOf(t.key, t.who)'
      BY <1>5, <2>3 DEF InOrder
    <2>9. QED
      BY <2>2, <2>6, <2>7, <2>8 DEF InOrder
  <1>6. QED
    BY <1>2, <1>3, <1>4, <1>5

\* A steady step keeps the session in order if all it brings in is in order.
LEMMA KeyStep ==
    ASSUME TypesHold, KeyInv, ~ mixed, Steady,
           \A n \in tasks' : \/ \E s \in tasks : SameButLate(s, n)
                             \/ n.late
                             \/ InOrder(n)' /\ (Enters(n) => KeyInMind'),
           \/ app'.user = None
           \/ app'.user = app.user /\ (Leaving => Leaving')
           \/ IsOurs(app.user)' /\ KeyInMind',
           disk'.profile \in {None, disk.profile} \/ IsOurs(disk.profile)',
           disk'.key \in {None, disk.key} \/ IsKeyOf(disk.key, disk.token)',
           app'.key = app.key \/ KeyInMind'
    PROVE  KeyInv'
  <1>1. /\ \A t \in tasks : t.late \/ InOrder(t)
        /\ Inside => IsOurs(app.user)
        /\ disk.profile # None => IsOurs(disk.profile)
        /\ Inside \/ (\E t \in tasks : Enters(t)) => KeyInMind
        /\ disk.key # None => IsKeyOf(disk.key, disk.token)
    BY DEF KeyInv
  <1>2. /\ app.user \in Profiles \cup {None} /\ disk.profile \in Profiles \cup {None}
        /\ app.key \in Keys \cup {None} /\ disk.key \in Keys \cup {None}
    BY DEF TypesHold, StateTypes, AppTypes, DiskTypes
  <1>3. /\ \A k \in Keys : IsKeyOf(k, disk.token) => IsKeyOf(k, disk.token)'
        /\ \A p \in Profiles : IsOurs(p) => IsOurs(p)'
        /\ \A t \in tasks : \A n : SameButLate(t, n) /\ InOrder(t) => InOrder(n)'
    BY SteadyKeeps
  <1>4. KeyInMind => KeyInMind'
    <2>1. app'.key = app.key /\ KeyInMind => KeyInMind'
      <3> SUFFICES ASSUME app'.key = app.key, IsKeyOf(app.key, disk.token), app.key # None
                   PROVE  IsKeyOf(app.key, disk.token)'
        BY DEF KeyInMind
      <3>1. app.key \in Keys
        BY <1>2
      <3>2. QED
        BY <1>3, <3>1 DEF IsKeyOf
    <2>2. QED
      BY <2>1
  <1>5. ASSUME NEW n \in tasks' PROVE n.late \/ InOrder(n)'
    <2>1. ASSUME NEW s \in tasks, SameButLate(s, n) PROVE n.late \/ InOrder(n)'
      BY <1>1, <1>3, <2>1 DEF SameButLate
    <2>2. QED
      BY <2>1
  <1>6. ASSUME NEW n \in tasks', Enters(n) PROVE KeyInMind'
    <2>1. ASSUME NEW s \in tasks, SameButLate(s, n) PROVE KeyInMind'
      <3>1. Enters(s)
        BY <1>6, <2>1 DEF SameButLate, Enters, TaskTypes, TypesHold, Fit
      <3>2. QED
        BY <1>1, <1>4, <3>1
    <2>2. QED
      BY <1>6, <2>1 DEF Enters
  <1>7. Inside' => IsOurs(app.user)' /\ KeyInMind'
    <2>1. CASE app'.user = app.user /\ (Leaving => Leaving')
      <3>1. Inside' => Inside
        BY <2>1 DEF Inside
      <3>2. Inside => app.user \in Profiles /\ IsOurs(app.user)
        BY <1>1, <1>2 DEF Inside
      <3>3. Inside => IsOurs(app.user)'
        BY <1>3, <2>1, <3>2 DEF IsOurs, IsKeyOf
      <3>4. QED
        BY <1>1, <1>4, <3>1, <3>3
    <2>2. CASE app'.user = None
      BY <2>2 DEF Inside
    <2>3. QED
      BY <2>1, <2>2
  <1>8. disk'.profile # None => IsOurs(disk.profile)'
    <2>1. CASE disk'.profile = disk.profile /\ disk.profile # None
      <3>1. disk.profile \in Profiles /\ IsOurs(disk.profile)
        BY <1>1, <1>2, <2>1
      <3>2. QED
        BY <1>3, <2>1, <3>1 DEF IsOurs, IsKeyOf
    <2>2. QED
      BY <2>1
  <1>9. disk'.key # None => IsKeyOf(disk.key, disk.token)'
    <2>1. CASE disk'.key = disk.key /\ disk.key # None
      <3>1. disk.key \in Keys /\ IsKeyOf(disk.key, disk.token)
        BY <1>1, <1>2, <2>1
      <3>2. QED
        BY <1>3, <2>1, <3>1 DEF IsKeyOf
    <2>2. QED
      BY <2>1
  <1>10. QED
    BY <1>5, <1>6, <1>7, <1>8, <1>9 DEF KeyInv, Enters

\* The steps of tasks keep the session in order, or the history says that two were mixed.
LEMMA TasksKeepKeys ==
    ASSUME TypesHold, KeyInv, NEW t \in tasks, SessionTask(t) \/ Save(t) \/ LoggedOut(t)
    PROVE  KeyInv'
  <1> SUFFICES ASSUME ~ mixed' PROVE KeyInv'
    BY DEF KeyInv
  <1>1. /\ t \in TaskTypes /\ Fits(t) /\ tasks \subseteq TaskTypes
        /\ disk \in DiskTypes /\ app \in AppTypes /\ vault \in [Users -> Vaults]
    BY DEF TypesHold, Fit, StateTypes
  <1>2. \A s \in tasks : SameButLate(s, s)
    BY <1>1 DEF SameButLate
  <1>3. CASE LoggedOut(t)
    <2>1. UNCHANGED <<vault, disk, mixed>> /\ tasks' = tasks \ {t}
      BY <1>3 DEF LoggedOut, accounts, Swap
    <2>2. app'.user = None /\ app'.key = app.key
      BY <1>1, <1>3 DEF LoggedOut, AppTypes
    <2>3. Steady
      BY <2>1 DEF Steady
    <2>4. QED
      BY <1>2, <2>1, <2>2, <2>3, KeyStep
  <1>4. CASE Wipe(t)
    <2>1. PICK n : /\ MovesTo(t, n) /\ n.step = "end"
                   /\ tasks' = AllLate(tasks \ {t}) \cup {n}
      BY <1>4, WipeMoves
    <2>2. n.kind = "logout" /\ tasks \ {t} \subseteq TaskTypes
      BY <1>1, <1>4, <2>1 DEF Wipe, MovesTo
    <2>3. \A m \in tasks' : m.late \/ m = n
      BY <2>1, <2>2, LateMoves
    <2>4. Leaving' /\ InOrder(n)' /\ ~ Enters(n)
      BY <2>1, <2>2 DEF Leaving, InOrder, Enters, Forms, Fetches
    <2>5. disk'.profile = None /\ disk'.key = None
      BY <1>1, <1>4 DEF Wipe, DiskTypes
    <2>6. ~ Inside' /\ \A m \in tasks' : ~ Enters(m) /\ (m.late \/ InOrder(m)')
      BY <2>3, <2>4 DEF Inside, Enters
    <2>7. QED
      BY <2>5, <2>6 DEF KeyInv, Enters
  <1>5. CASE (SessionTask(t) \/ Save(t)) /\ ~ Wipe(t)
    <2>1. ~ mixed /\ t.step # "end"
      BY <1>5, IdleTasksTouchNothing
    <2>2. Leaving => Leaving'
      BY <1>5, <2>1, IdleTasksStayIdle
    <2>3. /\ t.late \/ InOrder(t)
          /\ disk.profile # None => IsOurs(disk.profile)
          /\ Inside \/ (\E s \in tasks : Enters(s)) => KeyInMind
          /\ disk.key # None => IsKeyOf(disk.key, disk.token)
          /\ Inside => IsOurs(app.user)
      BY <2>1 DEF KeyInv
    <2>4. UNCHANGED <<vault, disk>> => Steady
      BY DEF Steady
    <2>5. UNCHANGED <<vault, disk>> /\ app'.key = app.key => (KeyInMind => KeyInMind')
      BY DEF KeyInMind, IsKeyOf
    \* A task that ends, or goes on in order.
    <2>6. ASSUME Steady, disk'.profile = disk.profile, disk'.key = disk.key,
                 app'.user \in {None, app.user}, app'.key = app.key \/ KeyInMind',
                 \/ Ends(t) \/ Swap(t, {})
                 \/ \E n : /\ tasks' = (tasks \ {t}) \cup {n}
                           /\ n.late \/ (InOrder(n)' /\ (Enters(n) => KeyInMind'))
          PROVE  KeyInv'
      <3>1. \A n \in tasks' : \/ \E s \in tasks : SameButLate(s, n)
                              \/ n.late
                              \/ InOrder(n)' /\ (Enters(n) => KeyInMind')
        BY <1>2, <2>6 DEF Ends, Swap
      <3>2. QED
        BY <2>1, <2>2, <2>6, <3>1, KeyStep
    <2>7. CASE Hydrated(t)
      <3>1. /\ UNCHANGED <<vault, disk>> /\ Swap(t, {})
            /\ app' = [app EXCEPT !.key = disk.key, !.hydrating = FALSE]
        BY <2>7 DEF Hydrated, accounts
      <3>2. app'.user = app.user /\ app'.key = disk.key
        BY <1>1, <3>1 DEF AppTypes
      <3>3. KeyInMind'
        BY <2>3, <3>1, <3>2 DEF KeyInMind, IsKeyOf
      <3>4. QED
        BY <2>4, <2>6, <3>1, <3>2, <3>3
    <2>8. CASE RefreshFails(t)
      <3> DEFINE user == IF disk.profile = None THEN None ELSE app.user
      <3>1. /\ UNCHANGED <<vault, disk>> /\ Swap(t, {})
            /\ app' = [app EXCEPT !.user = user, !.loading = FALSE]
        BY <2>8 DEF RefreshFails, accounts
      <3>2. user \in {None, app.user}
        OBVIOUS
      <3> HIDE DEF user
      <3>3. app'.user \in {None, app.user} /\ app'.key = app.key
        BY <1>1, <3>1, <3>2 DEF AppTypes
      <3>4. QED
        BY <2>4, <2>6, <3>1, <3>3
    <2>9. CASE Fails(t)
      BY <2>4, <2>6, <2>9 DEF Fails, accounts
    <2>10. CASE Registered(t) \/ Checked(t) \/ Rehash(t)
      <3>1. PICK n : /\ GoesOn(t, n) /\ n.step \in {"told", "rehash"}
                     /\ n.vault = t.vault \/ n.vault = vault[t.who]
        BY <2>10, FormsMove
      <3>2. UNCHANGED <<vault, disk, app>> /\ t.kind \in Forms /\ t.step \in {"ask", "rehash"}
        BY <2>10 DEF Registered, Checked, Rehash, accounts, Forms
      <3>3. t.who # None
        BY <1>1, <3>2 DEF Fits
      <3>4. ASSUME ~ n.late PROVE InOrder(n)' /\ ~ Enters(n)
        <4>1. InOrder(t) /\ n.kind = t.kind /\ n.who = t.who
          BY <2>3, <3>1, <3>4 DEF GoesOn, MovesTo
        <4>2. n.vault # None => IsKeyOf(n.vault.key, n.who)
          BY <3>1, <3>2, <3>3, <4>1 DEF InOrder, IsKeyOf
        <4>3. n.vault # None => IsKeyOf(n.vault.key, n.who)'
          BY <3>2, <4>2 DEF IsKeyOf
        <4>4. QED
          BY <3>1, <3>2, <4>1, <4>3 DEF InOrder, Enters, Forms, Fetches
      <3>5. QED
        BY <2>4, <2>6, <3>1, <3>2, <3>4 DEF GoesOn
    <2>11. CASE Told(t)
      <3>1. PICK n : /\ GoesOn(t, n) /\ n.step = (IF t.vault = None THEN "put" ELSE "open")
                     /\ n.vault = t.vault
        BY <2>11, FormsMove
      <3>2. /\ UNCHANGED <<vault, app>> /\ t.kind \in Forms /\ t.step = "told"
            /\ ~ t.late /\ disk.token \in {None, t.who}
            /\ disk' = [disk EXCEPT !.token = t.who]
        BY <2>11 DEF Told, accounts
      <3>3. /\ disk'.token = t.who /\ disk'.profile = disk.profile /\ disk'.key = disk.key
        BY <1>1, <3>2 DEF DiskTypes
      <3>4. Steady
        BY <3>2, <3>3 DEF Steady
      <3>5. InOrder(n)' /\ ~ Enters(n)
        <4>1. InOrder(t) /\ n.kind = t.kind /\ n.who = t.who
          BY <2>3, <3>1, <3>2 DEF GoesOn, MovesTo
        <4>2. n.vault # None => IsKeyOf(n.vault.key, n.who)'
          BY <3>1, <3>2, <4>1 DEF InOrder, IsKeyOf
        <4>3. QED
          BY <3>1, <3>2, <3>3, <4>1, <4>2 DEF InOrder, Enters, Forms, Fetches
      <3>6. QED
        BY <2>6, <3>1, <3>2, <3>3, <3>4, <3>5 DEF GoesOn
    <2>12. CASE Open(t)
      <3>1. UNCHANGED <<vault, disk, app>> /\ t.step = "open" /\ t.kind \in Forms /\ t.vault # None
        BY <1>1, <2>12 DEF Open, accounts, Fits, TaskTypes, TaskKinds, Forms, Fetches
      <3>2. ASSUME NEW n, GoesOn(t, n), n.step = "save", n.key = t.vault.key
            PROVE  n.late \/ (InOrder(n)' /\ ~ Enters(n))
        <4> SUFFICES ASSUME ~ n.late PROVE InOrder(n)' /\ ~ Enters(n)
          OBVIOUS
        <4>1. InOrder(t) /\ n.kind = t.kind /\ n.who = t.who
          BY <2>3, <3>2 DEF GoesOn, MovesTo
        <4>2. IsKeyOf(n.key, n.who)' /\ n.who = disk'.token
          BY <3>1, <3>2, <4>1 DEF InOrder, IsKeyOf
        <4>3. QED
          BY <3>1, <3>2, <4>1, <4>2 DEF InOrder, Enters, Forms, Fetches
      <3>3. ASSUME NEW n, GoesOn(t, n), n.step = "profile", ~ t.late, app.key = None
            PROVE  InOrder(n)' /\ KeyInMind'
        <4>1. InOrder(t) /\ n.kind = t.kind /\ n.who = t.who
          BY <2>3, <3>3 DEF GoesOn, MovesTo
        <4>2. n.who = disk'.token
          BY <3>1, <4>1 DEF InOrder
        <4>3. QED
          BY <3>1, <3>3, <4>1, <4>2 DEF InOrder, KeyInMind, Forms, Fetches
      <3>4. \/ \E n : GoesOn(t, n) /\ n.step = "save" /\ n.key = t.vault.key
            \/ Ends(t)
            \/ \E n : GoesOn(t, n) /\ n.step = "profile" /\ ~ t.late /\ app.key = None
        BY <2>12, OpenMoves DEF GoesOnWithoutKey
      <3>5. QED
        BY <2>4, <2>6, <3>1, <3>2, <3>3, <3>4 DEF GoesOn
    <2>13. ASSUME NEW stored \in BOOLEAN, NEW ok \in BOOLEAN, SetUp(t, stored, ok) PROVE KeyInv'
      <3> DEFINE k == Key(t.who, minted + 1)
      <3>1. /\ UNCHANGED <<disk, app>> /\ t.step = "put" /\ t.kind \in Forms /\ ~ t.late
            /\ ok \/ app.key = None
            /\ ok => stored
            /\ vault' = IF stored THEN [vault EXCEPT ![disk.token] = Locks(t.pw, k)] ELSE vault
            /\ stored => vault[disk.token] = None /\ disk.token # None
        BY <2>13 DEF SetUp
      <3>2. t.who = disk.token /\ t.who # None /\ disk.token \in Users
        BY <1>1, <2>3, <3>1 DEF InOrder, Fits, DiskTypes
      <3>3. Steady
        BY <1>1, <3>1 DEF Steady
      <3>4. ASSUME NEW n, GoesOn(t, n), n.step = "save", n.key = k, ok
            PROVE  InOrder(n)' /\ ~ Enters(n)
        <4>1. n.kind = t.kind /\ n.who = t.who
          BY <3>4 DEF GoesOn, MovesTo
        <4>2. vault'[t.who] = Locks(t.pw, k)
          BY <1>1, <3>1, <3>2, <3>4
        <4>3. vault'[t.who].key = k
          BY <4>2 DEF Locks
        <4>4. vault'[t.who] # None
          <5>1. vault'[t.who].key \in Keys /\ t.pw \in Nat
            BY <1>1, <3>2, <4>3 DEF Key, Keys, TypesHold, StateTypes, TaskTypes
          <5>2. vault'[t.who] \in ShutVaults
            BY <4>2, <4>3, <5>1 DEF Locks, ShutVaults
          <5>3. QED
            BY <5>2, SessionAssumption
        <4>5. IsKeyOf(n.key, n.who)'
          BY <3>2, <3>4, <4>1, <4>3, <4>4 DEF IsKeyOf
        <4>6. QED
          BY <3>1, <3>2, <3>4, <4>1, <4>5 DEF InOrder, Enters, Forms, Fetches
      <3>5. ASSUME NEW n, GoesOn(t, n), n.step = "profile", app.key = None
            PROVE  InOrder(n)' /\ KeyInMind'
        BY <3>1, <3>2, <3>5 DEF InOrder, KeyInMind, Forms, Fetches, GoesOn, MovesTo
      <3>6. \/ \E n : GoesOn(t, n) /\ n.step = "save" /\ n.key = k /\ ok
            \/ Ends(t)
            \/ \E n : GoesOn(t, n) /\ n.step = "profile" /\ app.key = None
        BY <2>13, <3>1, SetUpMoves DEF GoesOnWithoutKey
      <3>7. QED
        BY <2>6, <3>1, <3>3, <3>4, <3>5, <3>6 DEF GoesOn
    <2>14. CASE Save(t)
      <3>1. /\ vault' = vault /\ t.kind \in Forms /\ t.step = "save" /\ ~ t.late
            /\ disk' = [disk EXCEPT !.key = t.key]
            /\ app' = [app EXCEPT !.key = t.key, !.hydrating = FALSE]
        BY <2>14 DEF Save, accounts
      <3>2. /\ disk'.token = disk.token /\ disk'.profile = disk.profile /\ disk'.key = t.key
            /\ app'.user = app.user /\ app'.key = t.key
        BY <1>1, <3>1 DEF DiskTypes, AppTypes
      <3>3. t.who = disk.token /\ IsKeyOf(t.key, t.who)
        BY <2>3, <3>1 DEF InOrder
      <3>4. Steady /\ KeyInMind' /\ IsKeyOf(disk.key, disk.token)'
        BY <3>1, <3>2, <3>3 DEF Steady, KeyInMind, IsKeyOf
      <3>5. ASSUME NEW n, GoesOn(t, n), n.step = "profile" PROVE InOrder(n)'
        BY <3>1, <3>2, <3>3, <3>5 DEF InOrder, GoesOn, MovesTo, Forms, Fetches
      <3>6. Ends(t) \/ \E n : GoesOn(t, n) /\ n.step = "profile"
        BY <2>14, FormsMove
      <3>7. \A n \in tasks' : \/ \E s \in tasks : SameButLate(s, n)
                              \/ n.late
                              \/ InOrder(n)' /\ (Enters(n) => KeyInMind')
        BY <1>2, <3>4, <3>5, <3>6 DEF Ends, GoesOn
      <3>8. QED
        BY <2>1, <2>2, <3>2, <3>4, <3>7, KeyStep
    <2>15. CASE LoginRefreshes(t)
      <3>1. PICK n : /\ tasks' = (tasks \ {t}) \cup {n}
                     /\ n \in TaskTypes /\ n.kind = "refresh" /\ n.who = disk.token
                     /\ n.step = "ask" /\ n.late = t.late
        BY <2>15, LoginRefreshMoves
      <3>2. UNCHANGED <<vault, disk>> /\ t.step = "profile" /\ app' = AskProfile(app)
        BY <2>15 DEF LoginRefreshes, accounts
      <3>3. app'.user = app.user /\ app'.key = app.key
        BY <1>1, <3>2 DEF AskProfile, AppTypes
      <3>4. t.late \/ KeyInMind'
        BY <2>3, <2>5, <3>2, <3>3 DEF Enters
      <3>5. InOrder(n)'
        BY <3>1, <3>2 DEF InOrder, Forms, Fetches
      <3>6. QED
        BY <2>4, <2>6, <3>1, <3>2, <3>3, <3>4, <3>5
    <2>16. ASSUME NEW ok \in BOOLEAN, Unregister(t, ok) PROVE KeyInv'
      <3>1. PICK n : GoesOn(t, n) /\ n.step = "api"
        BY <2>16, UnregisterMoves
      <3>2. vault' = vault /\ app' = app /\ disk' = [disk EXCEPT !.fcm = FALSE] /\ t.kind = "logout"
        BY <2>16 DEF Unregister
      <3>3. disk'.token = disk.token /\ disk'.profile = disk.profile /\ disk'.key = disk.key
        BY <1>1, <3>2 DEF DiskTypes
      <3>4. Steady
        BY <3>2, <3>3 DEF Steady
      <3>5. InOrder(n)' /\ ~ Enters(n)
        BY <3>1, <3>2 DEF GoesOn, MovesTo, InOrder, Enters, Forms, Fetches
      <3>6. QED
        BY <2>6, <3>1, <3>2, <3>3, <3>4, <3>5 DEF GoesOn
    <2>17. ASSUME NEW slide \in BOOLEAN, Refreshed(t, slide) PROVE KeyInv'
      <3>1. /\ vault' = vault /\ ~ t.late /\ disk.token = t.who /\ t.kind = "refresh"
            /\ t.who # None /\ Swap(t, {})
            /\ disk' = [disk EXCEPT !.profile = Profile(t.who),
                                     !.token = IF slide THEN t.who ELSE @]
            /\ app' = [app EXCEPT !.user = Profile(t.who), !.loading = FALSE, !.started = TRUE]
        BY <2>17 DEF Refreshed, accounts
      <3>2. /\ disk'.token = disk.token /\ disk'.profile = Profile(t.who) /\ disk'.key = disk.key
            /\ app'.user = Profile(t.who) /\ app'.key = app.key
        BY <1>1, <3>1 DEF DiskTypes, AppTypes
      <3>3. Steady
        BY <3>1, <3>2 DEF Steady
      <3>4. IsOurs(disk.profile)' /\ IsOurs(app.user)'
        BY <3>1, <3>2 DEF IsOurs, Profile, IsKeyOf
      <3>5. KeyInMind
        BY <2>3, <3>1 DEF Enters
      <3>6. KeyInMind'
        BY <3>1, <3>2, <3>5 DEF KeyInMind, IsKeyOf
      <3>7. \A n \in tasks' : \E s \in tasks : SameButLate(s, n)
        BY <1>2, <3>1 DEF Swap
      <3>8. QED
        BY <2>1, <3>2, <3>3, <3>4, <3>6, <3>7, KeyStep
    <2>18. ASSUME NEW slide \in BOOLEAN, Fetched(t, slide) PROVE KeyInv'
      <3>1. /\ vault' = vault /\ ~ t.late /\ t.kind \in Fetches /\ Swap(t, {})
            /\ app' = IF t.kind = "peer" THEN [app EXCEPT !.peers = t.who] ELSE app
        BY <2>18 DEF Fetched, Fetches
      <3>2. disk' = [disk EXCEPT !.cache = IF t.kind = "read" THEN t.who ELSE @,
                                 !.fcm = @ \/ t.kind = "fcm",
                                 !.token = IF slide THEN t.who ELSE @]
        BY <2>18 DEF Fetched
      <3>3. t.who = disk.token
        BY <1>1, <2>3, <3>1 DEF InOrder, Fits
      <3>4. disk'.token = disk.token /\ disk'.profile = disk.profile /\ disk'.key = disk.key
        BY <1>1, <3>2, <3>3 DEF DiskTypes
      <3>5. app'.user = app.user /\ app'.key = app.key
        BY <1>1, <3>1 DEF AppTypes
      <3>6. Steady
        BY <3>1, <3>4 DEF Steady
      <3>7. QED
        BY <2>6, <3>1, <3>4, <3>5, <3>6
    <2>19. ~ Unheard(t)
      BY DEF Unheard
    <2>20. ASSUME NEW answered \in BOOLEAN, Changed(t, answered) PROVE KeyInv'
      <3>1. UNCHANGED <<vault, disk, app>> /\ t.kind = "change" /\ tasks \ {t} \subseteq TaskTypes
        BY <1>1, <2>20 DEF Changed
      <3>2. \A m \in LateFor(t.who, tasks \ {t}) : \E s \in tasks \ {t} : SameButLate(s, m)
        BY <3>1, LateMoves
      <3>3. ASSUME NEW n, MovesTo(t, n), n.step = "rewrap", n.key = t.key
            PROVE  n.late \/ (InOrder(n)' /\ ~ Enters(n))
        <4> SUFFICES ASSUME ~ n.late PROVE InOrder(n)' /\ ~ Enters(n)
          OBVIOUS
        <4>1. InOrder(t) /\ n.kind = "change" /\ n.who = t.who
          BY <2>3, <3>1, <3>3 DEF MovesTo
        <4>2. /\ n.who # None => n.who = disk'.token
              /\ n.key # None => IsKeyOf(n.key, n.who)'
          BY <3>1, <3>3, <4>1 DEF InOrder, IsKeyOf
        <4>3. QED
          BY <3>3, <4>1, <4>2 DEF InOrder, Enters, Forms
      <3>4. \A m \in tasks' : \/ \E s \in tasks : SameButLate(s, m)
                              \/ m.late
                              \/ InOrder(m)' /\ ~ Enters(m)
        BY <2>20, <3>2, <3>3, ChangeMoves
      <3>5. QED
        BY <2>1, <2>2, <2>4, <3>1, <3>4, KeyStep
    <2>21. ASSUME NEW stored \in BOOLEAN, Rewrap(t, stored) PROVE KeyInv'
      <3>1. /\ UNCHANGED <<disk, app>> /\ ~ t.late /\ Swap(t, {}) /\ t.step = "rewrap"
            /\ vault' = IF stored THEN [vault EXCEPT ![disk.token] = Locks(t.pw, t.key)] ELSE vault
        BY <2>21 DEF Rewrap
      <3>2. t.kind = "change" /\ t.who # None /\ t.key \in Keys /\ t.pw \in Nat
        BY <1>1, <3>1 DEF Fits, TaskTypes, TaskKinds, Forms, Fetches
      <3>3. t.who = disk.token /\ IsKeyOf(t.key, t.who) /\ disk.token \in Users
        BY <1>1, <2>3, <3>1, <3>2, SessionAssumption DEF InOrder, DiskTypes
      <3>4. Locks(t.pw, t.key) # None /\ Locks(t.pw, t.key).key = t.key
        <4>1. Locks(t.pw, t.key) \in ShutVaults
          BY <3>2 DEF Locks, ShutVaults
        <4>2. QED
          BY <4>1, SessionAssumption DEF Locks
      <3> HIDE DEF Locks
      <3>5. Steady
        BY <1>1, <3>1, <3>3, <3>4 DEF Steady, IsKeyOf
      <3>6. QED
        BY <2>6, <3>1, <3>5
    <2>22. QED
      BY <1>5, <2>7, <2>8, <2>9, <2>10, <2>11, <2>12, <2>13, <2>14, <2>15, <2>16, <2>17, <2>18,
         <2>19, <2>20, <2>21 DEF SessionTask
  <1>6. QED
    BY <1>3, <1>4, <1>5

\* Drafts and the token's copy tell nothing of keys.
LEMMA StoresKeepKeys ==
    ASSUME TypesHold, KeyInv, PersistDraft \/ Mirrored
    PROVE  KeyInv'
  <1>1. UNCHANGED <<vault, app, tasks, mixed>> /\ SameBut
    BY StoresBeside DEF TypesHold, StateTypes
  <1>2. QED
    BY <1>1 DEF SameBut, KeyInv, Inside, Leaving, InOrder, IsOurs, KeyInMind, IsKeyOf, Enters

\* What people begin is of the user who is signed in.
LEMMA PeopleKeepKeys ==
    ASSUME TypesHold, KeyInv, SessionUser \/ LockUser
    PROVE  KeyInv'
  <1> SUFFICES ASSUME ~ mixed' PROVE KeyInv'
    BY DEF KeyInv
  <1>1. /\ app \in AppTypes /\ hash \in [Users -> Nat] /\ \A u \in Users : u # None
        /\ tasks \subseteq TaskTypes /\ app.user \in Profiles \cup {None}
    BY SessionAssumption DEF TypesHold, StateTypes, Fit, AppTypes
  <1>2. \A s \in tasks : SameButLate(s, s)
    BY <1>1 DEF SameButLate
  <1>3. ASSUME NEW n, Begins(n), UNCHANGED <<vault, disk, mixed>>, app'.user = app.user,
               app'.key = app.key, n.late \/ (InOrder(n)' /\ (Enters(n) => KeyInMind'))
        PROVE  KeyInv'
    <2>1. Leaving => Leaving'
      BY <1>3 DEF Begins, Leaving
    <2>2. Steady /\ ~ mixed
      BY <1>3 DEF Steady
    <2>3. \A m \in tasks' : \/ \E s \in tasks : SameButLate(s, m)
                            \/ m.late
                            \/ InOrder(m)' /\ (Enters(m) => KeyInMind')
      BY <1>2, <1>3 DEF Begins
    <2>4. QED
      BY <1>3, <2>1, <2>2, <2>3, KeyStep
  <1>4. ASSUME app.user # None, ~ mixed
        PROVE  Leaving \/ (IsOurs(app.user) /\ KeyInMind)
    BY <1>4 DEF KeyInv, Inside
  <1>5. UNCHANGED <<vault, disk, app>> => (KeyInMind <=> KeyInMind')
    BY DEF KeyInMind, IsKeyOf
  <1>6. ASSUME NEW u \in Users, SubmitLogin(u) \/ SubmitRegister(u) \/ SubmitLazy(u)
        PROVE  KeyInv'
    <2>1. PICK kind \in Forms, pw \in Nat : Submit(kind, u, pw)
      BY <1>1, <1>6 DEF SubmitLogin, SubmitRegister, SubmitLazy, Forms
    <2>2. PICK n : Begins(n) /\ n.kind = kind /\ n.step = "ask" /\ n.vault = None
      BY <2>1, SubmitBegins
    <2>3. UNCHANGED <<vault, disk, mixed, app>>
      BY <2>1 DEF Submit, accounts
    <2>4. InOrder(n)' /\ ~ Enters(n)
      BY <2>2 DEF InOrder, Enters, Forms, Fetches
    <2>5. QED
      BY <1>3, <2>2, <2>3, <2>4
  <1>7. CASE AskRefresh
    <2>1. PICK n : Begins(n) /\ n.kind = "refresh" /\ n.who = disk.token /\ n.step = "ask"
      BY <1>7, FetchBegins
    <2>2. app' = AskProfile(app) /\ app.user # None /\ UNCHANGED <<vault, disk, mixed>>
      BY <1>7 DEF AskRefresh, SignedIn, accounts
    <2>3. app'.user = app.user /\ app'.key = app.key
      BY <1>1, <2>2 DEF AskProfile, AppTypes
    <2>4. n.late \/ KeyInMind
      BY <1>4, <2>1, <2>2 DEF Begins
    <2>5. KeyInMind => KeyInMind'
      BY <2>2, <2>3 DEF KeyInMind, IsKeyOf
    <2>6. InOrder(n)'
      BY <2>1, <2>2 DEF InOrder, Forms, Fetches
    <2>7. QED
      BY <1>3, <2>1, <2>2, <2>3, <2>4, <2>5, <2>6
  <1>8. CASE AskChange
    <2>1. PICK n : /\ Begins(n) /\ n.kind = "change" /\ n.who = disk.token /\ n.step = "ask"
                   /\ n.key = app.key /\ disk.token # None
      BY <1>8, ChangeBegins
    <2>2. UNCHANGED <<vault, disk, mixed, app>> /\ app.user # None
      BY <1>8 DEF AskChange, SignedIn
    <2>3. n.late \/ KeyInMind
      BY <1>4, <2>1, <2>2 DEF Begins
    <2>4. n.late \/ (InOrder(n)' /\ ~ Enters(n))
      <3> SUFFICES ASSUME ~ n.late PROVE InOrder(n)' /\ ~ Enters(n)
        OBVIOUS
      <3>1. n.key # None => IsKeyOf(n.key, n.who)'
        BY <2>1, <2>2, <2>3 DEF KeyInMind, IsKeyOf
      <3>2. QED
        BY <2>1, <2>2, <3>1 DEF InOrder, Enters, Forms
    <2>5. QED
      BY <1>3, <2>1, <2>2, <2>4
  <1>9. CASE AskLogout
    <2>1. PICK n : Begins(n) /\ n.kind = "logout" /\ n.step \in {"fcm", "api"}
      BY <1>9, LogoutBegins
    <2>2. /\ UNCHANGED <<vault, disk, mixed>> /\ app'.user = app.user /\ app'.key = app.key
      BY <1>1, <1>9 DEF AskLogout, accounts, AppTypes
    <2>3. InOrder(n)' /\ ~ Enters(n)
      BY <2>1 DEF InOrder, Enters, Forms, Fetches
    <2>4. QED
      BY <1>3, <2>1, <2>2, <2>3
  <1>10. ASSUME NEW kind \in Fetches, Fetch(kind) PROVE KeyInv'
    <2>1. PICK n : Begins(n) /\ n.kind = kind /\ n.who = disk.token /\ n.step = "ask"
      BY <1>10, FetchBegins
    <2>2. UNCHANGED <<vault, disk, mixed, app>>
      BY <1>10 DEF Fetch, accounts
    <2>3. InOrder(n)' /\ ~ Enters(n)
      BY <2>1, <2>2 DEF InOrder, Enters, Forms, Fetches
    <2>4. QED
      BY <1>3, <2>1, <2>2, <2>3
  <1>11. ASSUME NEW typed \in {hash[UserId]} \cup
                    (IF app.user.vault = None THEN {} ELSE {app.user.vault.pw}),
                app.user # None, SubmitUnlock(typed)
         PROVE  KeyInv'
    <2>1. typed \in Nat
      BY <1>1, <1>11 DEF UserId, AppTypes, Profiles, Vaults, ShutVaults
    <2>2. PICK n : /\ Begins(n) /\ n.kind = "unlock" /\ n.who = UserId
                   /\ n.vault = app.user.vault
                   /\ n.step = IF app.user.vault = None THEN "ask" ELSE "open"
      BY <1>11, <2>1, UnlockBegins
    <2>3. UNCHANGED <<vault, disk, mixed, app>>
      BY <1>11 DEF SubmitUnlock, accounts
    <2>4. n.who = app.user.id
      BY <1>11, <2>2 DEF UserId
    <2>5. n.late \/ IsOurs(app.user)
      BY <1>4, <1>11, <2>2, <2>3 DEF Begins
    <2>6. n.late \/ (InOrder(n)' /\ ~ Enters(n))
      <3> SUFFICES ASSUME ~ n.late PROVE InOrder(n)' /\ ~ Enters(n)
        OBVIOUS
      <3>1. n.who = disk'.token /\ (n.vault # None => IsKeyOf(n.vault.key, n.who)')
        BY <2>2, <2>3, <2>4, <2>5 DEF IsOurs, IsKeyOf
      <3>2. n.step \in {"ask", "open"}
        BY <2>2
      <3>3. n.kind = "unlock"
        BY <2>2
      <3>4. QED
        BY <3>1, <3>2, <3>3 DEF InOrder, Enters, Forms, Fetches
    <2>7. QED
      BY <1>3, <2>2, <2>3, <2>6
  <1>12. CASE \/ TimePasses \/ Verify \/ DeclineOffer \/ Disable
              \/ \E offer \in BOOLEAN : Enable(offer)
    <2>1. UNCHANGED <<vault, disk, mixed, app, tasks>>
      BY <1>12 DEF TimePasses, Verify, DeclineOffer, Disable, Enable, sessionvars, accounts
    <2>2. QED
      BY <2>1 DEF KeyInv, Inside, Leaving, InOrder, IsOurs, KeyInMind, IsKeyOf, Enters
  <1>16. CASE PersistDraft
    BY <1>16, StoresKeepKeys
  <1>13. CASE SessionUser
    BY <1>6, <1>7, <1>8, <1>9, <1>10, <1>13, <1>16 DEF SessionUser, Fetches
  <1>14. CASE LockUser
    BY <1>9, <1>11, <1>12, <1>14 DEF LockUser, LockLogout
  <1>15. QED
    BY <1>13, <1>14

\* An app that does not run has nobody signed in, and no key.
DeadIsEmpty == phase = "dead" => app.user = None /\ app.key = None

\* What ends the app clears it, and only what starts it fills it.
LEMMA DeadStaysEmpty ==
    TypesHold /\ DeadIsIdle /\ DeadIsEmpty /\ [ClientNext]_clientvars => DeadIsEmpty'
  <1> SUFFICES ASSUME TypesHold, DeadIsIdle, DeadIsEmpty, [ClientNext]_clientvars
               PROVE  DeadIsEmpty'
    OBVIOUS
  <1> USE DEF DeadIsEmpty
  <1>1. Kill => DeadIsEmpty'
    BY DEF Kill, TypesHold, StateTypes, AppTypes
  <1>2. UNCHANGED <<phase, app>> => DeadIsEmpty'
    OBVIOUS
  <1>3. ASSUME NEW t \in tasks, SessionTask(t) \/ Save(t) \/ LoggedOut(t) PROVE DeadIsEmpty'
    <2>1. phase # "dead"
      BY DEF DeadIsIdle
    <2>2. phase' = phase
      BY <1>3 DEF SessionTask, Save, LoggedOut, Refreshed, Fetched, RefreshFails, Hydrated, Fails,
                  Registered, Checked, Rehash, Told, Open, LoginRefreshes, SetUp, Changed, Rewrap,
                  Unregister, Unheard, Wipe
    <2>3. QED
      BY <2>1, <2>2
  <1>4. ASSUME phase = "front", SessionUser PROVE DeadIsEmpty'
    BY <1>4 DEF SessionUser, SubmitLogin, SubmitRegister, SubmitLazy, Submit, AskRefresh,
                AskChange, AskLogout, Fetch, PersistDraft
  <1>5. ASSUME Elsewhere PROVE DeadIsEmpty'
    BY <1>5 DEF Elsewhere, ChangedElsewhere, SetUpElsewhere
  <1>6. ASSUME LockUser PROVE DeadIsEmpty'
    <2>1. CASE LockLogout \/ \E typed : SubmitUnlock(typed)
      BY <2>1 DEF LockLogout, AskLogout, SubmitUnlock
    <2>2. CASE \/ TimePasses \/ Verify \/ DeclineOffer \/ Disable
               \/ \E offer \in BOOLEAN : Enable(offer)
      BY <2>2 DEF TimePasses, Verify, DeclineOffer, Disable, Enable, sessionvars
    <2>3. QED
      BY <1>6, <2>1, <2>2 DEF LockUser
  <1>7. CASE Hide \/ Show \/ Start
    BY <1>7 DEF Hide, Show, Start, Boot
  <1>8. CASE \E t \in tasks : LogoutEnds(t)
    BY <1>3, <1>8 DEF LogoutEnds
  <1>9. CASE SessionStep
    BY <1>2, <1>3, <1>4, <1>5, <1>9 DEF SessionStep, Usable, Mirrored
  <1>10. CASE LockStep
    BY <1>3, <1>6, <1>10 DEF LockStep, SaveUnlocks
  <1>11. CASE SocketStep
    BY <1>2, <1>11 DEF SocketStep
  <1>12. CASE UpdateStep
    BY <1>1, <1>2, <1>12 DEF UpdateStep, Publish, sessionvars
  <1>13. QED
    BY <1>1, <1>2, <1>7, <1>8, <1>9, <1>10, <1>11, <1>12
    DEF ClientNext, End, clientvars, sessionvars

\* Every step of the shell keeps the session in order.
LEMMA KeysInductive ==
    TypesHold /\ DeadIsIdle /\ DeadIsEmpty /\ KeyInv /\ [ClientNext]_clientvars => KeyInv'
  <1> SUFFICES ASSUME TypesHold, DeadIsIdle, DeadIsEmpty, KeyInv, [ClientNext]_clientvars
               PROVE  KeyInv'
    OBVIOUS
  <1>1. /\ tasks \subseteq TaskTypes /\ app \in AppTypes /\ disk \in DiskTypes
        /\ vault \in [Users -> Vaults]
    BY DEF TypesHold, StateTypes, Fit
  <1>2. UNCHANGED <<vault, disk, mixed, app, tasks>> => KeyInv'
    BY DEF KeyInv, Inside, Leaving, InOrder, IsOurs, KeyInMind, IsKeyOf, Enters
  <1>3. ASSUME Kill PROVE KeyInv'
    <2>1. UNCHANGED <<vault, disk, mixed>> /\ tasks' = {} /\ app'.user = None
      BY <1>1, <1>3 DEF Kill, accounts, AppTypes
    <2>2. QED
      BY <2>1 DEF KeyInv, Inside, InOrder, IsOurs, IsKeyOf, Enters
  <1>4. CASE Start
    <2> SUFFICES ASSUME ~ mixed' PROVE KeyInv'
      BY DEF KeyInv
    <2>0. disk' = disk
      <3>1. disk' = [disk EXCEPT !.token = disk.token]
        BY <1>4 DEF Start, Boot
      <3>2. QED
        BY <1>1, <3>1 DEF DiskTypes
    <2>1. /\ UNCHANGED <<vault, disk>> /\ ~ mixed /\ ~ Leaving
          /\ app.user = None /\ app.key = None
          /\ tasks' = {Task("hydrate", None)}
                        \cup (IF disk.token = None THEN {} ELSE {Task("refresh", disk.token)})
      BY <1>4, <2>0 DEF Start, Boot, DeadIsIdle, DeadIsEmpty, accounts, Leaving
    <2>2. app'.user \in {None, disk.profile} /\ app'.key = None
      BY <1>1, <1>4, <2>1 DEF Start, Boot, AppTypes
    <2>3. /\ Task("hydrate", None).kind = "hydrate" /\ Task("hydrate", None).step = "ask"
          /\ Task("refresh", disk.token).kind = "refresh"
          /\ Task("refresh", disk.token).who = disk.token
          /\ Task("refresh", disk.token).step = "ask"
      <3>1. disk.token \in Users \cup {None} /\ "hydrate" \in TaskKinds /\ "refresh" \in TaskKinds
        BY <1>1 DEF TaskKinds, DiskTypes
      <3>2. QED
        BY <3>1, TaskBegins
    <2>4. \A n \in tasks' : InOrder(n)'
      BY <2>1, <2>3 DEF InOrder, Forms, Fetches
    <2>5. KeyInMind'
      BY <2>2 DEF KeyInMind
    <2>6. ASSUME ~ mixed PROVE KeyInv'
      <3>1. /\ disk.profile # None => IsOurs(disk.profile)
            /\ disk.key # None => IsKeyOf(disk.key, disk.token)
        BY <2>6 DEF KeyInv
      <3>2. /\ disk'.profile # None => IsOurs(disk.profile)'
            /\ disk'.key # None => IsKeyOf(disk.key, disk.token)'
            /\ app'.user # None => IsOurs(app.user)'
        BY <2>1, <2>2, <3>1 DEF IsOurs, IsKeyOf
      <3>3. QED
        BY <2>4, <2>5, <3>2 DEF KeyInv, Inside
    <2>7. QED
      BY <2>1, <2>6 DEF KeyInv
  <1>5. ASSUME Elsewhere PROVE KeyInv'
    <2>1. PICK u \in Users :
               (\E stored \in BOOLEAN : ChangedElsewhere(u, stored)) \/ SetUpElsewhere(u)
      BY <1>5 DEF Elsewhere
    <2>2. tasks' = LateFor(u, tasks) /\ UNCHANGED <<disk, mixed, app>>
      BY <2>1 DEF ChangedElsewhere, SetUpElsewhere
    <2>3. /\ \A n \in tasks' : \E t \in tasks : SameButLate(t, n)
          /\ \A t \in tasks : \E n \in tasks' : SameButLate(t, n)
      BY <1>1, <2>2, LateMoves
    <2>4. Leaving => Leaving'
      BY <2>3 DEF Leaving, SameButLate
    <2>5. Steady
      <3>1. CASE SetUpElsewhere(u)
        BY <1>1, <2>2, <3>1 DEF SetUpElsewhere, Steady
      <3>2. ASSUME NEW stored \in BOOLEAN, ChangedElsewhere(u, stored),
                   NEW v \in Users, vault[v] # None
            PROVE  vault'[v] # None /\ vault'[v].key = vault[v].key
        <4>1. CASE ~ stored \/ v # u
          BY <1>1, <3>2, <4>1 DEF ChangedElsewhere
        <4>2. CASE stored /\ v = u
          <5>1. vault[u] \in ShutVaults /\ minted + 1 \in Nat
            BY <1>1, <3>2, <4>2 DEF Vaults, TypesHold, StateTypes
          <5>2. vault'[u] = [vault[u] EXCEPT !.pw = minted + 1]
            BY <1>1, <3>2, <4>2 DEF ChangedElsewhere
          <5>3. vault'[u] \in ShutVaults /\ vault'[u].key = vault[u].key
            BY <5>1, <5>2 DEF ShutVaults
          <5>4. QED
            BY <4>2, <5>3, SessionAssumption
        <4>3. QED
          BY <4>1, <4>2
      <3>3. QED
        BY <2>1, <2>2, <3>1, <3>2 DEF Steady
    <2>6. CASE ~ mixed
      BY <2>2, <2>3, <2>4, <2>5, <2>6, KeyStep
    <2>7. QED
      BY <2>2, <2>6 DEF KeyInv
  <1>6. ASSUME NEW t \in tasks, SessionTask(t) \/ Save(t) \/ LoggedOut(t) PROVE KeyInv'
    BY <1>6, TasksKeepKeys
  <1>7. SessionUser \/ LockUser => KeyInv'
    BY PeopleKeepKeys
  <1>8. CASE Hide \/ Show
    BY <1>2, <1>8 DEF Hide, Show, accounts
  <1>9. CASE \E t \in tasks : LogoutEnds(t)
    BY <1>6, <1>9 DEF LogoutEnds
  <1>10. CASE SessionStep
    BY <1>5, <1>6, <1>7, <1>10, StoresKeepKeys DEF SessionStep
  <1>11. CASE LockStep
    BY <1>6, <1>7, <1>11 DEF LockStep, SaveUnlocks
  <1>12. CASE SocketStep
    BY <1>2, <1>12 DEF SocketStep, accounts
  <1>13. CASE UpdateStep
    BY <1>2, <1>3, <1>13 DEF UpdateStep, Publish, sessionvars, accounts
  <1>14. QED
    BY <1>2, <1>3, <1>4, <1>8, <1>9, <1>10, <1>11, <1>12, <1>13
    DEF ClientNext, End, clientvars, sessionvars, accounts

\* And it starts in order.
LEMMA KeysInitially == ClientInit => KeyInv /\ DeadIsEmpty
  <1> SUFFICES ASSUME ClientInit PROVE KeyInv /\ DeadIsEmpty
    OBVIOUS
  <1>1. tasks = {} /\ phase = "front"
    BY DEF ClientInit, SessionInit
  <1>2. CASE SessionInit
    BY <1>1, <1>2 DEF SessionInit, NewDisk, KeyInv, Inside, DeadIsEmpty
  <1>3. CASE ~ SessionInit
    <2>1. PICK u \in Users \ Newcomers :
               /\ vault = [v \in Users |-> IF v = u THEN Locks(1, Key(u, 1)) ELSE None]
               /\ disk = [token |-> u, profile |-> Profile(u), key |-> Key(u, 1),
                          cache |-> None, fcm |-> FALSE, drafts |-> {}, mirror |-> u]
               /\ app = [user |-> Profile(u), loading |-> FALSE, started |-> TRUE,
                         key |-> Key(u, 1), hydrating |-> FALSE, peers |-> None]
      BY <1>3 DEF ClientInit
    <2>2. vault[u] = Locks(1, Key(u, 1)) /\ u # None
      BY <2>1, SessionAssumption
    <2>3. Locks(1, Key(u, 1)) \in ShutVaults
      BY DEF Locks, ShutVaults, Key, Keys
    <2>4. vault[u] # None /\ vault[u].key = Key(u, 1)
      BY <2>2, <2>3, SessionAssumption DEF Locks
    <2>5. IsKeyOf(Key(u, 1), u)
      BY <2>2, <2>4 DEF IsKeyOf
    <2>6. Profile(u).id = u /\ Profile(u).vault = vault[u]
      BY DEF Profile
    <2> HIDE DEF Profile, Key, Locks
    <2>7. disk.token = u /\ disk.profile = Profile(u) /\ disk.key = Key(u, 1)
          /\ app.user = Profile(u) /\ app.key = Key(u, 1)
      BY <2>1
    <2>8. IsOurs(app.user) /\ IsOurs(disk.profile) /\ KeyInMind
          /\ IsKeyOf(disk.key, disk.token)
      BY <2>4, <2>5, <2>6, <2>7 DEF IsOurs, KeyInMind
    <2>9. QED
      BY <1>1, <2>8 DEF KeyInv, DeadIsEmpty
  <1>4. QED
    BY <1>2, <1>3

\* The key a user encrypts with is the one in the vault of that account, unless a task of an
\* ended session took effect or two sessions overlapped (useAuth.ts, AccountKeyProvider.tsx,
\* vaultBootstrap.ts, LockScreen.tsx).
THEOREM KeyAlwaysOwn == ClientSpec => []OwnKey
  <1> DEFINE Inv == TypesHold /\ DeadIsIdle /\ DeadIsEmpty /\ KeyInv
  <1>1. ClientInit => Inv
    BY TypesInitially, VaultInitially, KeysInitially
  <1>2. Inv /\ [ClientNext]_clientvars => Inv'
    BY TypesInductive, DeadStaysIdle, DeadStaysEmpty, KeysInductive
  <1>3. Inv => OwnKey
    BY DEF KeyInv, OwnKey, Inside, Leaving, IsOurs, KeyInMind, IsKeyOf, UserId, SignedIn
  <1>4. QED
    BY <1>1, <1>2, <1>3, PTL DEF ClientSpec

----------------------------------------------------------------------------
(* The types of the whole shell.                                           *)

\* The records of the lock, the hook and the update.
LockTypes == [on : BOOLEAN, stamp : {None, "fresh", "old"}, offered : BOOLEAN,
              enabled : BOOLEAN, locked : BOOLEAN]
\* How often the hook tries again.
Attempts == 0..MaxAttempts

SockTypes == [mounted : BOOLEAN, ws : {"none", "connecting", "open", "closing"}, old : Nat,
              connected : BOOLEAN, first : BOOLEAN, timer : BOOLEAN, stable : BOOLEAN,
              attempts : Attempts]

UpdTypes == [status : Showing \cup {"loading", "up_to_date"}, release : Nat, mandatory : BOOLEAN,
             checking : BOOLEAN, seen : Nat, saved : Nat]

\* The lock and its history.
LockTyped == lock \in LockTypes /\ gone \in BOOLEAN

\* Without a page there is no hook, and nothing of one.
SockTyped == sock \in SockTypes /\ (sock.mounted \/ sock = NoSock)

\* No release is offered or installed that was not published.
UpdTyped ==
    /\ upd \in UpdTypes /\ installed \in Nat /\ newest.code \in Nat
    /\ upd.release <= newest.code /\ installed <= newest.code

\* The steps that change the lock.
LEMMA LockStaysTyped == LockTyped /\ [ClientNext]_clientvars => LockTyped'
  <1> SUFFICES ASSUME LockTyped, [ClientNext]_clientvars PROVE LockTyped'
    OBVIOUS
  <1> USE DEF LockTyped, LockTypes
  <1>1. UNCHANGED lockvars => LockTyped'
    BY DEF lockvars
  <1>2. Stamped(lock) \in LockTypes /\ Unlocked(lock) \in LockTypes
    BY DEF Stamped, Unlocked
  <1> DEFINE old == Expired(lock)
             on == lock.on
             locked == lock.locked \/ old
  <1>3. old \in BOOLEAN /\ on \in BOOLEAN /\ locked \in BOOLEAN
    BY DEF Expired
  <1>4. LockHides => LockTyped'
    BY <1>2 DEF LockHides
  <1>5. LockShows => LockTyped'
    <2>1. LockShows => lock' = [lock EXCEPT !.locked = @ \/ old] /\ gone' = gone
      BY DEF LockShows
    <2> HIDE DEF old
    <2>2. [lock EXCEPT !.locked = @ \/ old] \in LockTypes
      BY <1>3
    <2>3. QED
      BY <2>1, <2>2
  <1>6. LockBoots => LockTyped'
    <2>1. LockBoots => lock' = [lock EXCEPT !.locked = old, !.enabled = on] /\ gone' = gone
      BY DEF LockBoots
    <2> HIDE DEF old, on
    <2>2. [lock EXCEPT !.locked = old, !.enabled = on] \in LockTypes
      BY <1>3
    <2>3. QED
      BY <2>1, <2>2
  <1>7. LockForgets => LockTyped'
    <2> DEFINE l == [lock EXCEPT !.on = FALSE, !.stamp = None, !.offered = FALSE]
    <2>1. l \in LockTypes
      OBVIOUS
    <2>2. LockForgets => lock' \in {l, Unlocked(l)} /\ gone' = gone
      BY DEF LockForgets
    <2> HIDE DEF l
    <2>3. Unlocked(l) \in LockTypes
      BY <2>1 DEF Unlocked, Stamped
    <2>4. QED
      BY <2>1, <2>2, <2>3
  <1>8. ASSUME LockUser PROVE LockTyped'
    <2>1. CASE TimePasses
      <3>1. lock' = [lock EXCEPT !.stamp = IF @ = "fresh" THEN "old" ELSE @]
        BY <2>1 DEF TimePasses
      <3>2. lock' \in LockTypes
        BY <3>1
      <3>3. gone' \in BOOLEAN
        BY <2>1 DEF TimePasses
      <3>4. QED
        BY <3>2, <3>3
    <2>2. CASE Verify
      BY <1>2, <2>2 DEF Verify
    <2>3. CASE LockLogout \/ \E typed : SubmitUnlock(typed)
      BY <1>1, <2>3 DEF LockLogout, SubmitUnlock
    <2>4. CASE DeclineOffer
      BY <2>4 DEF DeclineOffer
    <2>5. CASE Disable
      BY <2>5 DEF Disable
    <2>6. ASSUME NEW offer \in BOOLEAN, Enable(offer) PROVE LockTyped'
      <3> DEFINE s == Stamped(lock)
      <3>1. /\ lock' = [s EXCEPT !.on = TRUE, !.enabled = TRUE, !.offered = @ \/ offer]
            /\ gone' = FALSE
        BY <2>6 DEF Enable
      <3> HIDE DEF s
      <3>2. lock' \in LockTypes
        BY <1>2, <3>1 DEF s
      <3>3. QED
        BY <3>1, <3>2
    <2>7. QED
      BY <1>8, <2>1, <2>2, <2>3, <2>4, <2>5, <2>6 DEF LockUser
  <1>9. ASSUME NEW t, SaveUnlocks(t) PROVE LockTyped'
    BY <1>2, <1>9 DEF SaveUnlocks
  <1> HIDE DEF old, on, locked, LockTyped
  <1>10. QED
    BY <1>1, <1>4, <1>5, <1>6, <1>7, <1>8, <1>9
    DEF ClientNext, clientvars, Hide, Show, End, Start, LogoutEnds, SessionStep, LockStep,
        SocketStep, UpdateStep, lockvars

\* The counter of attempts stays in its range.
LEMMA AttemptsCount ==
    0 \in Attempts /\ \A a \in Attempts : a < MaxAttempts => a + 1 \in Attempts
  BY SocketAssumption DEF Attempts

\* Connecting and closing keep a mounted hook well typed.
LEMMA HookStaysTyped ==
    ASSUME NEW s \in SockTypes, s.mounted
    PROVE  /\ Connect(s) \in SockTypes /\ Connect(s).mounted
           /\ Closed(s) \in SockTypes /\ Closed(s).mounted
  <1> USE DEF SockTypes
  <1> DEFINE n == s.old + (IF s.ws = "closing" THEN 1 ELSE 0)
             c == [s EXCEPT !.ws = "connecting", !.old = n]
             q == [s EXCEPT !.connected = FALSE, !.stable = FALSE]
             r == [q EXCEPT !.attempts = @ + 1, !.timer = TRUE]
  <1>1. n \in Nat
    OBVIOUS
  <1>2. Connect(s) = s \/ Connect(s) = c
    BY DEF Connect
  <1>3. Closed(s) = q \/ (Closed(s) = r /\ q.attempts < MaxAttempts)
    <2>1. q.attempts \in Nat /\ MaxAttempts \in Nat
      BY SocketAssumption DEF Attempts
    <2>2. Closed(s) = ScheduleReconnect(q)
      BY DEF Closed
    <2>3. \/ ScheduleReconnect(q) = q
          \/ ScheduleReconnect(q) = r /\ ~(q.attempts >= MaxAttempts)
      BY DEF ScheduleReconnect
    <2> HIDE DEF q, r
    <2>4. QED
      BY <2>1, <2>2, <2>3
  <1> HIDE DEF n
  <1>4. c \in SockTypes /\ c.mounted
    BY <1>1
  <1>5. q \in SockTypes /\ q.mounted
    OBVIOUS
  <1> HIDE DEF c, q
  <1>6. q.attempts < MaxAttempts => r \in SockTypes /\ r.mounted
    <2> DEFINE a == q.attempts + 1
    <2>1. q.attempts < MaxAttempts => a \in Attempts
      BY <1>5, AttemptsCount
    <2> HIDE DEF a
    <2>2. a \in Attempts => [q EXCEPT !.attempts = a, !.timer = TRUE] \in SockTypes
      BY <1>5
    <2>3. [q EXCEPT !.attempts = a, !.timer = TRUE].mounted
      BY <1>5
    <2>4. QED
      BY <2>1, <2>2, <2>3 DEF a
  <1>7. QED
    BY <1>2, <1>3, <1>4, <1>5, <1>6

\* The steps that change the hook.
LEMMA SockStaysTyped == SockTyped /\ [ClientNext]_clientvars => SockTyped'
  <1> SUFFICES ASSUME SockTyped, [ClientNext]_clientvars PROVE SockTyped'
    OBVIOUS
  <1>1. sock' = sock \/ sock' = NoSock => SockTyped'
    <2>1. NoSock \in SockTypes
      BY AttemptsCount DEF SockTypes, NoSock
    <2>2. QED
      BY <2>1 DEF SockTyped
  <1>2. sock' \in SockTypes /\ sock'.mounted => SockTyped'
    BY DEF SockTyped
  <1>3. sock \in SockTypes /\ (sock.mounted \/ sock = NoSock)
    BY DEF SockTyped
  <1>4. ASSUME NEW s \in SockTypes, s.mounted, sock' = Closed(s) PROVE SockTyped'
    BY <1>2, <1>4, HookStaysTyped
  <1>5. CASE Show
    <2>1. CASE sock' = sock
      BY <1>1, <2>1
    <2>2. CASE sock' # sock
      <3> DEFINE q == [sock EXCEPT !.attempts = 0, !.timer = FALSE]
      <3>1. sock.mounted /\ sock' = Connect(q)
        BY <1>5, <2>2 DEF Show, BecomesVisible
      <3>2. q \in SockTypes /\ q.mounted
        BY <1>3, <3>1, AttemptsCount DEF SockTypes
      <3> HIDE DEF q
      <3>3. QED
        BY <1>2, <3>1, <3>2, HookStaysTyped
    <2>3. QED
      BY <2>1, <2>2
  <1>6. CASE SocketStep
    <2>1. CASE Mount
      <3>1. sock' = [NoSock EXCEPT !.mounted = TRUE, !.first = TRUE]
        BY <2>1 DEF Mount
      <3>2. QED
        BY <1>2, <3>1, AttemptsCount DEF NoSock, SockTypes
    <2>2. CASE Unmount
      BY <1>1, <2>2 DEF Unmount
    <2>3. CASE FirstFires \/ TimerFires
      <3> DEFINE c == Connect(sock)
      <3>1. sock.mounted
        BY <1>3, <2>3 DEF FirstFires, TimerFires, NoSock
      <3>2. c \in SockTypes /\ c.mounted
        BY <1>3, <3>1, HookStaysTyped
      <3>3. sock' = [c EXCEPT !.first = FALSE] \/ sock' = [c EXCEPT !.timer = FALSE]
        BY <2>3 DEF FirstFires, TimerFires
      <3> HIDE DEF c
      <3>4. sock' \in SockTypes /\ sock'.mounted
        BY <3>2, <3>3 DEF SockTypes
      <3>5. QED
        BY <1>2, <3>4
    <2>4. CASE Opens
      <3>1. sock.mounted
        BY <1>3, <2>4 DEF Opens, NoSock
      <3>2. sock' \in SockTypes /\ sock'.mounted
        BY <1>3, <2>4, <3>1 DEF Opens, SockTypes
      <3>3. QED
        BY <1>2, <3>2
    <2>5. CASE Closes
      <3>1. sock.mounted
        BY <1>3, <2>5 DEF Closes, NoSock
      <3>2. [sock EXCEPT !.ws = "none"] \in SockTypes /\ [sock EXCEPT !.ws = "none"].mounted
        BY <1>3, <3>1 DEF SockTypes
      <3>3. QED
        BY <1>4, <2>5, <3>2 DEF Closes
    <2>6. CASE OldCloses
      <3> DEFINE n == sock.old - 1
                 s == [sock EXCEPT !.old = n]
      <3>1. sock.mounted /\ n \in Nat
        BY <1>3, <2>6 DEF OldCloses, NoSock, SockTypes
      <3>2. sock' = Closed(s)
        BY <2>6 DEF OldCloses
      <3> HIDE DEF n
      <3>3. s \in SockTypes /\ s.mounted
        BY <1>3, <3>1 DEF SockTypes
      <3> HIDE DEF s
      <3>4. QED
        BY <1>4, <3>2, <3>3
    <2>7. CASE StableFires
      <3>1. sock.mounted
        BY <1>3, <2>7 DEF StableFires, NoSock
      <3>2. sock' \in SockTypes /\ sock'.mounted
        BY <1>3, <2>7, <3>1, AttemptsCount DEF StableFires, SockTypes
      <3>3. QED
        BY <1>2, <3>2
    <2>8. ASSUME NEW atOnce, Breaks(atOnce) PROVE SockTyped'
      <3>1. sock.mounted
        BY <1>3, <2>8 DEF Breaks, NoSock
      <3>2. [sock EXCEPT !.ws = "none"] \in SockTypes /\ [sock EXCEPT !.ws = "none"].mounted
        BY <1>3, <3>1 DEF SockTypes
      <3>3. [sock EXCEPT !.ws = "closing"] \in SockTypes /\ [sock EXCEPT !.ws = "closing"].mounted
        BY <1>3, <3>1 DEF SockTypes
      <3>4. \/ sock' = Closed([sock EXCEPT !.ws = "none"])
            \/ sock' = [sock EXCEPT !.ws = "closing"]
        BY <2>8 DEF Breaks
      <3>5. QED
        BY <1>2, <1>4, <3>2, <3>3, <3>4
    <2>9. QED
      BY <1>6, <2>1, <2>2, <2>3, <2>4, <2>5, <2>6, <2>7, <2>8 DEF SocketStep, SocketReacts
  <1>7. QED
    BY <1>1, <1>5, <1>6
    DEF ClientNext, clientvars, Hide, End, Start, LogoutEnds, SessionStep, LockStep, UpdateStep

\* The steps that change the update.
LEMMA UpdStaysTyped == UpdTyped /\ [ClientNext]_clientvars => UpdTyped'
  <1> SUFFICES ASSUME UpdTyped, [ClientNext]_clientvars PROVE UpdTyped'
    OBVIOUS
  <1> USE DEF UpdTyped, UpdTypes, Showing
  <1>1. UNCHANGED updvars => UpdTyped'
    BY DEF updvars
  <1>2. CASE End
    BY <1>2 DEF End
  <1>3. UpdatesBoot => UpdTyped'
    <2> DEFINE saved == upd.saved
               b == [upd EXCEPT !.status = "loading", !.release = 0, !.mandatory = FALSE,
                                !.checking = TRUE, !.seen = saved]
    <2>1. saved \in Nat
      OBVIOUS
    <2>2. UpdatesBoot => upd' = b /\ UNCHANGED <<newest, installed>>
      BY DEF UpdatesBoot
    <2> HIDE DEF saved
    <2>3. b \in UpdTypes /\ b.release = 0
      BY <2>1
    <2> HIDE DEF b
    <2>4. QED
      BY <2>2, <2>3
  <1>4. CASE UpdateReacts
    <2>1. CASE CheckDone
      <3> DEFINE must == installed < newest.least
                 code == newest.code
      <3>1. \/ upd' = [upd EXCEPT !.status = "available", !.release = code,
                                  !.mandatory = must, !.checking = FALSE]
            \/ upd' = [upd EXCEPT !.status = "up_to_date", !.checking = FALSE]
        BY <2>1 DEF CheckDone
      <3>2. must \in BOOLEAN /\ code \in Nat /\ code = newest.code
        OBVIOUS
      <3> HIDE DEF must, code
      <3>3. upd' \in UpdTypes /\ (upd'.release = code \/ upd'.release = upd.release)
        BY <3>1, <3>2
      <3>4. UNCHANGED <<newest, installed>>
        BY <2>1 DEF CheckDone
      <3>5. QED
        BY <3>2, <3>3, <3>4
    <2>2. CASE CheckFails
      <3> DEFINE b == [upd EXCEPT !.status = "error", !.release = 0, !.mandatory = FALSE,
                                  !.checking = FALSE]
      <3>1. upd' = b /\ UNCHANGED <<newest, installed>>
        BY <2>2 DEF CheckFails
      <3>2. b \in UpdTypes /\ b.release = 0
        OBVIOUS
      <3> HIDE DEF b
      <3>3. QED
        BY <3>1, <3>2
    <2>3. CASE Downloaded \/ UpdateFails
      BY <2>3 DEF Downloaded, UpdateFails
    <2>4. QED
      BY <1>4, <2>1, <2>2, <2>3 DEF UpdateReacts
  <1>5. CASE UpdateUser
    <2>1. CASE Later
      BY <2>1 DEF Later
    <2>2. CASE Stay
      <3> DEFINE b == [upd EXCEPT !.status = "up_to_date", !.mandatory = FALSE, !.release = 0]
      <3>1. upd' = b /\ UNCHANGED <<newest, installed>>
        BY <2>2 DEF Stay
      <3>2. b \in UpdTypes /\ b.release = 0
        OBVIOUS
      <3> HIDE DEF b
      <3>3. QED
        BY <3>1, <3>2
    <2>3. CASE Download \/ CheckAgain
      BY <2>3 DEF Download, CheckAgain
    <2>4. QED
      BY <1>5, <2>1, <2>2, <2>3 DEF UpdateUser
  <1>6. ASSUME NEW least, Publish(least) PROVE UpdTyped'
    <2>1. newest'.code = newest.code + 1 /\ UNCHANGED <<installed, upd>>
      BY <1>6 DEF Publish
    <2>2. QED
      BY <2>1
  <1>7. Installed => UpdTyped'
    BY DEF Installed
  <1> HIDE DEF UpdTyped
  <1>8. QED
    BY <1>1, <1>2, <1>3, <1>4, <1>5, <1>6, <1>7
    DEF ClientNext, clientvars, Hide, Show, Start, LogoutEnds, SessionStep, LockStep,
        SocketStep, UpdateStep

\* The type invariant of the client, for any users and bounds.
THEOREM ClientTypeCorrect == ClientSpec => []ClientTypeOK
  <1> DEFINE Inv == TypesHold /\ LockTyped /\ SockTyped /\ UpdTyped
  <1>1. ClientInit => Inv
    <2> SUFFICES ASSUME ClientInit PROVE Inv
      OBVIOUS
    <2>1. LockTyped
      <3> DEFINE Lock(on, stamp) ==
                   [on |-> on, stamp |-> stamp, offered |-> on, enabled |-> on, locked |-> FALSE]
      <3>0. Lock(FALSE, None) \in LockTypes /\ Lock(TRUE, "fresh") \in LockTypes
        BY DEF LockTypes
      <3>1. LockInit => lock = Lock(FALSE, None) /\ gone = FALSE
        BY DEF LockInit
      <3>2. LockedInit => lock = Lock(TRUE, "fresh") /\ gone = FALSE
        BY DEF LockedInit
      <3> HIDE DEF Lock
      <3>3. QED
        BY <3>0, <3>1, <3>2 DEF ClientInit, LockTyped
    <2>2. SockTyped
      BY AttemptsCount DEF ClientInit, SocketInit, NoSock, SockTyped, SockTypes
    <2>3. UpdTyped
      BY DEF ClientInit, UpdatesInit, UpdTyped, UpdTypes
    <2>4. QED
      BY <2>1, <2>2, <2>3, TypesInitially
  <1>2. Inv /\ [ClientNext]_clientvars => Inv'
    BY TypesInductive, LockStaysTyped, SockStaysTyped, UpdStaysTyped
  <1>3. Inv => ClientTypeOK
    <2> SUFFICES ASSUME Inv PROVE ClientTypeOK
      OBVIOUS
    <2>1. SessionTypes
      BY DEF TypesHold, StateTypes, DiskTypes, AppTypes, SessionTypes
    <2>2. sock.connected => sock.mounted
      BY DEF SockTyped, NoSock
    <2>3. QED
      BY <2>1, <2>2 DEF LockTyped, LockTypes, SockTyped, SockTypes, Attempts, UpdTyped, UpdTypes,
                        ClientTypeOK
  <1>4. QED
    BY <1>1, <1>2, <1>3, PTL DEF ClientSpec
=============================================================================
