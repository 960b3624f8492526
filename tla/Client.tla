------------------------------- MODULE Client --------------------------------
(***************************************************************************)
(* The shell of one client around its chats page (main.tsx, App.tsx,       *)
(* AppRouter.tsx): the session, the lock, the socket and the self-update   *)
(* of one device.  They meet where the app is hidden, shown, ended and     *)
(* started, where a logout ends, and where the lock screen or the          *)
(* mandatory update covers or unmounts the pages.                          *)
(***************************************************************************)
EXTENDS AppLock, Socket, Updates

CONSTANT
    Focuses     \* bound: which parts' own events one behaviour exercises

VARIABLE focus

clientvars == <<sessionvars, lockvars, sock, updvars, focus>>

\* In the behaviours that are not about the session somebody is signed in from the start,
\* and in those about the lock alone it is on.
ClientInit ==
    /\ SocketInit /\ UpdatesInit
    /\ focus \in Focuses
    /\ IF focus = {"lock"} THEN LockedInit ELSE LockInit
    /\ \/ "session" \in focus /\ SessionInit
       \/ /\ "session" \notin focus
          /\ \E u \in Users \ Newcomers :
               /\ hash = [v \in Users |-> IF v \in Newcomers THEN 0 ELSE 1]
               /\ weak = {}
               /\ vault = [v \in Users |-> IF v = u THEN Locks(1, Key(u, 1)) ELSE None]
               /\ push = None
               /\ disk = [token |-> u, profile |-> Profile(u), key |-> Key(u, 1),
                          cache |-> None, fcm |-> FALSE, drafts |-> {}, mirror |-> u]
               /\ app = [user |-> Profile(u), loading |-> FALSE, started |-> TRUE,
                         key |-> Key(u, 1), hydrating |-> FALSE, peers |-> None]
          /\ tasks = {} /\ phase = "front" /\ minted = 1 /\ events = 0
          /\ mixed = FALSE /\ torn = {} /\ left = FALSE

Has(part) == part \in focus

\* The router is on the screen, uncovered.
Usable == phase = "front" /\ ~lock.locked /\ ~Gate

\* ProtectedRoute renders the chats page.
PageWanted == phase # "dead" /\ SignedIn /\ ~Gate

Hide ==
    /\ Event /\ phase = "front" /\ phase' = "back"
    /\ LockHides
    /\ UNCHANGED <<accounts, disk, app, tasks, mixed, torn, left, sock, updvars, focus>>

Show ==
    /\ Event /\ phase = "back" /\ phase' = "front"
    /\ LockShows /\ BecomesVisible
    /\ UNCHANGED <<accounts, disk, app, tasks, mixed, torn, left, updvars, focus>>

End ==
    /\ Kill
    /\ sock' = NoSock
    /\ upd' = [upd EXCEPT !.status = "up_to_date", !.checking = FALSE]
    /\ told' = FALSE
    /\ UNCHANGED <<lockvars, newest, installed, gaveUp, focus>>

Start ==
    /\ Boot /\ LockBoots
    /\ IF Has("updates") THEN UpdatesBoot ELSE UNCHANGED updvars
    /\ UNCHANGED <<sock, focus>>

\* The last step of a logout, wherever it was asked for.
LogoutEnds(t) ==
    /\ LoggedOut(t) /\ LockForgets
    /\ UNCHANGED <<sock, updvars, focus>>

SessionStep ==
    /\ \/ Has("session") /\ Usable /\ SessionUser
       \/ Has("session") /\ (Elsewhere \/ Mirrored)
       \/ \E t \in tasks : SessionTask(t) \/ (t.kind # "unlock" /\ Save(t))
    /\ UNCHANGED <<lockvars, sock, updvars, focus>>

LockStep ==
    /\ \/ Has("lock") /\ LockUser
       \/ \E t \in tasks : SaveUnlocks(t)
    /\ UNCHANGED <<sock, updvars, focus>>

\* React mounts and unmounts the page; the socket's own steps; breaks of the line.
SocketStep ==
    /\ Has("socket")
    /\ \/ /\ (PageWanted /\ Mount) \/ (~PageWanted /\ Unmount) \/ SocketReacts
          /\ UNCHANGED events
       \/ Event /\ \E atOnce \in BOOLEAN : Breaks(atOnce)
    /\ UNCHANGED <<accounts, disk, app, tasks, phase, mixed, torn, left, lockvars, updvars,
                   focus>>

\* The banner is part of the chats page; the screen is not.
UpdateStep ==
    /\ Has("updates")
    /\ \/ /\ UpdateReacts \/ (UpdateUser /\ phase = "front" /\ ~lock.locked
                              /\ (Gate \/ PageWanted))
          /\ UNCHANGED <<sessionvars, lockvars, sock>>
       \/ (\E least \in BOOLEAN : Publish(least)) /\ UNCHANGED <<lockvars, sock>>
       \/ /\ Installed /\ Kill
          /\ sock' = NoSock /\ UNCHANGED lockvars
    /\ UNCHANGED focus

ClientNext ==
    \/ Hide \/ Show \/ End \/ Start
    \/ \E t \in tasks : LogoutEnds(t)
    \/ SessionStep \/ LockStep \/ SocketStep \/ UpdateStep

ClientSpec == ClientInit /\ [][ClientNext]_clientvars

\* Type invariant.
ClientTypeOK ==
    /\ SessionTypes
    /\ lock.on \in BOOLEAN /\ lock.locked \in BOOLEAN /\ lock.enabled \in BOOLEAN
    /\ lock.stamp \in {None, "fresh", "old"} /\ gone \in BOOLEAN
    /\ sock.ws \in {"none", "connecting", "open", "closing"}
    /\ sock.attempts \in 0..MaxAttempts /\ sock.old \in Nat
    /\ sock.connected => sock.mounted
    /\ upd.status \in Showing \cup {"loading", "up_to_date"}
    /\ installed <= newest.code
=============================================================================
