------------------------------- MODULE Updates -------------------------------
(***************************************************************************)
(* The self-update of the Android app: UpdateProvider.tsx with             *)
(* UpdateBanner.tsx and UpdateMandatoryScreen.tsx, and the newest release  *)
(* as the server tells it (app_release_service.go).  Progress events and   *)
(* the text of messages are left out.                                      *)
(***************************************************************************)
EXTENDS Session

VARIABLES
    newest,     \* the newest release: its code, the oldest supported one
    installed,  \* the code of the running build
    upd,        \* the provider's state, the dismissed release in memory and on disk
    told,       \* history: the last check of this run said the build is unsupported
    gaveUp      \* history: the user stayed on it after a failure

updvars == <<newest, installed, upd, told, gaveUp>>

Showing == {"available", "downloading", "ready", "error"}

UpdatesInit ==
    /\ newest = [code |-> 1, least |-> 1]
    /\ installed = 1
    /\ upd = [status |-> "up_to_date", release |-> 0, mandatory |-> FALSE, checking |-> FALSE,
              seen |-> 0, saved |-> 0]
    /\ told = FALSE /\ gaveUp = FALSE

\* UpdateMandatoryScreen: nothing else is rendered.
Gate == upd.status \in Showing /\ upd.mandatory

Publish(least) ==
    /\ Event
    /\ newest' = [code |-> newest.code + 1,
                  least |-> IF least THEN newest.code + 1 ELSE newest.least]
    /\ UNCHANGED <<installed, upd, told, gaveUp, accounts, disk, app, tasks, phase, mixed,
                   torn, left>>

\* The first check of a run, which knows the release dismissed before.
UpdatesBoot ==
    /\ upd' = [upd EXCEPT !.status = "loading", !.release = 0, !.mandatory = FALSE,
                          !.checking = TRUE, !.seen = upd.saved]
    /\ told' = FALSE /\ gaveUp' = FALSE
    /\ UNCHANGED <<newest, installed>>

\* performCheck.
CheckDone ==
    LET must == installed < newest.least
        new == newest.code > installed
        offered == new /\ (must \/ upd.seen # newest.code)
    IN  /\ upd.checking
        /\ upd' = IF offered
                  THEN [upd EXCEPT !.status = "available", !.release = newest.code,
                                   !.mandatory = must, !.checking = FALSE]
                  ELSE [upd EXCEPT !.status = "up_to_date", !.checking = FALSE]
        /\ told' = (new /\ must)
        /\ UNCHANGED <<newest, installed, gaveUp>>

CheckFails ==
    /\ upd.checking
    /\ upd' = [upd EXCEPT !.status = "error", !.release = 0, !.mandatory = FALSE,
                          !.checking = FALSE]
    /\ UNCHANGED <<newest, installed, told, gaveUp>>

\* dismiss of a soft update; the release is remembered before the banner goes.
Later ==
    /\ upd.status = "available" /\ ~upd.mandatory
    /\ upd' = [upd EXCEPT !.status = "up_to_date", !.seen = upd.release, !.saved = upd.release]
    /\ UNCHANGED <<newest, installed, told, gaveUp>>

\* dismiss of an error: for this run only.
Stay ==
    /\ upd.status = "error"
    /\ upd' = [upd EXCEPT !.status = "up_to_date", !.mandatory = FALSE, !.release = 0]
    /\ gaveUp' = (gaveUp \/ upd.mandatory)
    /\ UNCHANGED <<newest, installed, told>>

\* startDownload, or retry of a failed one; retry of a failed check checks again.
Download ==
    /\ upd.status = "available" \/ (upd.status = "error" /\ upd.release # 0)
    /\ upd' = [upd EXCEPT !.status = "downloading"]
    /\ UNCHANGED <<newest, installed, told, gaveUp>>

CheckAgain ==
    /\ upd.status = "error" /\ upd.release = 0
    /\ upd' = [upd EXCEPT !.status = "loading", !.checking = TRUE]
    /\ UNCHANGED <<newest, installed, told, gaveUp>>

Downloaded ==
    /\ upd.status = "downloading"
    /\ upd' = [upd EXCEPT !.status = "ready"]
    /\ UNCHANGED <<newest, installed, told, gaveUp>>

\* Mutant: a failure forgets that the update is mandatory.
UpdateFailsSoftly ==
    /\ upd.status \in {"downloading", "ready"}
    /\ upd' = [upd EXCEPT !.status = "error", !.mandatory = FALSE]
    /\ UNCHANGED <<newest, installed, told, gaveUp>>

\* The download or the installer fails; the release is kept.
UpdateFails ==
    /\ upd.status \in {"downloading", "ready"}
    /\ upd' = [upd EXCEPT !.status = "error"]
    /\ UNCHANGED <<newest, installed, told, gaveUp>>

\* Android installs the package and ends the process.
Installed ==
    /\ upd.status = "ready"
    /\ installed' = upd.release
    /\ UNCHANGED <<newest, upd, told, gaveUp>>

UpdateReacts == CheckDone \/ CheckFails \/ Downloaded \/ UpdateFails
UpdateUser == Later \/ Stay \/ Download \/ CheckAgain

\* A build the server no longer supports stays behind the update screen through downloads,
\* failures and retries, until it is replaced or the user gives up after a failure
\* (UpdateMandatoryScreen.tsx, UpdateContext.ts dismiss).
MandatoryHolds == told /\ ~gaveUp => Gate
=============================================================================
