------------------------------- MODULE AppLock -------------------------------
(***************************************************************************)
(* The lock of the Android app (AppLockProvider.tsx, LockScreen.tsx,       *)
(* AppLockSettings.tsx, EnableAppLockOffer.tsx, shared/appLock.ts) over    *)
(* the session.  The stored stamp of the last activity is "fresh" or, once *)
(* the time-out has passed since it was written, "old"; the length of the  *)
(* time-out is not modelled.                                               *)
(***************************************************************************)
EXTENDS Session

VARIABLES
    lock,       \* on, stamp, offered: stored; enabled, locked: in the provider
    gone        \* history: away for longer than the time-out and not verified since

lockvars == <<lock, gone>>

LockInit ==
    /\ lock = [on |-> FALSE, stamp |-> None, offered |-> FALSE, enabled |-> FALSE,
               locked |-> FALSE]
    /\ gone = FALSE

\* The lock has been switched on in an earlier session.
LockedInit ==
    /\ lock = [on |-> TRUE, stamp |-> "fresh", offered |-> TRUE, enabled |-> TRUE,
               locked |-> FALSE]
    /\ gone = FALSE

Expired(l) == l.on /\ l.stamp # "fresh"
Stamped(l) == [l EXCEPT !.stamp = "fresh"]
Unlocked(l) == [Stamped(l) EXCEPT !.locked = FALSE]

\* Mutant: the stamp is refreshed behind the lock screen too.
LockHidesStamping == lock' = Stamped(lock) /\ UNCHANGED gone

\* appStateChange: the stamp is written when the app goes to the background unlocked.
LockHides ==
    /\ lock' = IF lock.locked THEN lock ELSE Stamped(lock)
    /\ UNCHANGED gone

LockShows ==
    /\ lock' = [lock EXCEPT !.locked = @ \/ Expired(lock)]
    /\ UNCHANGED gone

\* The provider's state is built from what is stored.
LockBoots ==
    /\ lock' = [lock EXCEPT !.locked = Expired(lock), !.enabled = lock.on]
    /\ UNCHANGED gone

\* The time-out passes, since the stamp was written or while the app is away.
TimePasses ==
    /\ Event
    /\ lock.stamp = "fresh" \/ (phase # "front" /\ ~gone)
    /\ lock' = [lock EXCEPT !.stamp = IF @ = "fresh" THEN "old" ELSE @]
    /\ gone' = (gone \/ phase # "front")
    /\ UNCHANGED <<accounts, disk, app, tasks, phase, mixed, torn, left>>

\* LockScreen: the biometric prompt.
Verify ==
    /\ phase = "front" /\ lock.locked
    /\ lock' = Unlocked(lock) /\ gone' = FALSE
    /\ UNCHANGED sessionvars

\* LockScreen: the password, tried on the vault of the cached profile without the server,
\* or by signing in again if the profile has none.
SubmitUnlock(typed) ==
    /\ Event /\ phase = "front" /\ lock.locked
    /\ app.user # None /\ ~Running("unlock") /\ ~Running("logout")
    /\ tasks' = tasks \cup {[Task("unlock", UserId) EXCEPT
                    !.pw = typed, !.vault = app.user.vault,
                    !.step = IF app.user.vault = None THEN "ask" ELSE "open"]}
    /\ UNCHANGED <<accounts, disk, app, phase, mixed, torn, left, lockvars>>

\* The form has its key: the screen goes.
SaveUnlocks(t) ==
    /\ t.kind = "unlock" /\ Save(t)
    /\ lock' = Unlocked(lock) /\ gone' = FALSE

\* LockScreen offers a logout as well.
LockLogout ==
    /\ phase = "front" /\ lock.locked /\ ~Running("unlock")
    /\ AskLogout
    /\ UNCHANGED lockvars

\* clearAppLockOnLogout; after a logout from the lock screen unlock() stamps once more.
\* The provider's "enabled" is not told.
LockForgets ==
    /\ lock' = LET l == [lock EXCEPT !.on = FALSE, !.stamp = None, !.offered = FALSE]
               IN  IF l.locked THEN Unlocked(l) ELSE l
    /\ UNCHANGED gone

\* Settings or the offer after the first login; the biometric prompt is passed.
Enable(offer) ==
    /\ Event /\ phase = "front" /\ SignedIn /\ ~lock.locked /\ ~lock.enabled
    /\ offer => ~lock.offered
    /\ lock' = [Stamped(lock) EXCEPT !.on = TRUE, !.enabled = TRUE, !.offered = @ \/ offer]
    /\ gone' = FALSE
    /\ UNCHANGED <<accounts, disk, app, tasks, phase, mixed, torn, left>>

DeclineOffer ==
    /\ phase = "front" /\ SignedIn /\ ~lock.locked /\ ~lock.enabled /\ ~lock.offered
    /\ lock' = [lock EXCEPT !.offered = TRUE]
    /\ UNCHANGED <<gone, sessionvars>>

Disable ==
    /\ Event /\ phase = "front" /\ SignedIn /\ ~lock.locked /\ lock.enabled
    /\ lock' = [lock EXCEPT !.on = FALSE, !.enabled = FALSE, !.locked = FALSE]
    /\ UNCHANGED <<gone, accounts, disk, app, tasks, phase, mixed, torn, left>>

LockUser == \/ TimePasses \/ Verify \/ LockLogout \/ DeclineOffer \/ Disable
            \/ \E offer \in BOOLEAN : Enable(offer)
            \/ app.user # None /\ \E typed \in {hash[UserId]} \cup
                   (IF app.user.vault = None THEN {} ELSE {app.user.vault.pw}) :
                   SubmitUnlock(typed)

\* Whoever comes back after the time-out, or starts the app again after it, sees the app
\* only after a fingerprint or a password, even if they leave the lock screen and return at
\* once or end the process (AppLockProvider.tsx appStateChange, appLock.ts isLockExpired).
LockHolds ==
    phase = "front" /\ lock.on /\ app.user # None /\ gone => lock.locked
=============================================================================
