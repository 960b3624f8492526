------------------------------- MODULE Session -------------------------------
(***************************************************************************)
(* Who is signed in on one device, with which key: useAuth.ts,             *)
(* AccountKeyProvider.tsx, vaultBootstrap.ts, the forms that ask for a     *)
(* password, the token of httpClient.ts, the key store of e2e.ts, the push *)
(* registration, and the accounts of the server behind them                *)
(* (auth_service.go, user_service.go).                                     *)
(*                                                                         *)
(* Every asynchronous function is a task whose steps end at its awaits;    *)
(* a task goes on whatever happened to the session it began in.  A vault   *)
(* is the pair of the password it opens with and the account key in it.    *)
(* Other devices of a user change the password or set up a vault.          *)
(*                                                                         *)
(* On a phone the token has a copy in the native preferences, written      *)
(* behind the program's back: setAuthToken does not wait for it.  A start  *)
(* believes the copy.  In a browser there is no copy.                      *)
(***************************************************************************)
EXTENDS Naturals, FiniteSets

CONSTANTS
    Users,      \* those who use this device in turn
    Newcomers,  \* those of them who still have to register
    None,       \* nobody, nothing
    MaxEvents   \* bound: what people, networks and time do

Keys == [of : Users, no : Nat]
ShutVaults == [pw : Nat, key : Keys]
Vaults == ShutVaults \cup {None}
Profiles == [id : Users, vault : Vaults]

ASSUME SessionAssumption ==
    /\ Newcomers \subseteq Users
    /\ None \notin Users /\ None \notin Keys /\ None \notin ShutVaults /\ None \notin Profiles
    /\ MaxEvents \in Nat

VARIABLES
    hash,       \* the password each user signs in with, a number; 0: not registered
    weak,       \* users whose hash has the old cost
    vault,      \* the vault of each user
    push,       \* the user the device's push token is registered for
    disk,       \* what the device stores
    app,        \* the state of the providers
    tasks,      \* asynchronous functions under way
    phase,      \* "front", "back" (hidden) or "dead" (not running)
    minted,     \* passwords and keys made so far
    events,     \* how much of MaxEvents is used up
    mixed,      \* history: two sessions, or two set-ups of a vault, overlapped
    torn,       \* history: users whose password changed while their vault did not
    left        \* history: the last thing that happened to the session was a logout

accounts == <<hash, weak, vault, push, minted>>
sessionvars == <<accounts, disk, app, tasks, phase, events, mixed, torn, left>>

Key(u, n) == [of |-> u, no |-> n]
Locks(pw, k) == [pw |-> pw, key |-> k]
UserId == IF app.user = None THEN None ELSE app.user.id

\* What begins while a logout is at its end is late from the start.
Leaving == \E t \in tasks : t.kind = "logout" /\ t.step = "end"
Task(kind, who) == [kind |-> kind, who |-> who, step |-> "ask", pw |-> 0, old |-> 0,
                    vault |-> None, key |-> None, late |-> Leaving]
Swap(t, s) == tasks' = (tasks \ {t}) \cup s
Running(kind) == \E t \in tasks : t.kind = kind
AllLate(S) == {[t EXCEPT !.late = TRUE] : t \in S}
LateFor(u, S) == {IF t.who = u THEN [t EXCEPT !.late = TRUE] ELSE t : t \in S}

Event == events < MaxEvents /\ events' = events + 1
SignedIn == app.user # None /\ ~app.loading

\* AppLayout covers its pages with the LazyVaultModal, which cannot be dismissed.
NeedsVault == SignedIn /\ app.key = None /\ ~app.hydrating

\* What localStorage holds of the token, the profile, the account key (with its copy in the
\* preferences, which is awaited), the chats and their messages, the push registration and
\* the texts typed and not sent, by who typed them; and the token's copy.
NewDisk == [token |-> None, profile |-> None, key |-> None, cache |-> None, fcm |-> FALSE,
            drafts |-> {}, mirror |-> None]

SessionInit ==
    /\ hash = [u \in Users |-> IF u \in Newcomers THEN 0 ELSE 1]
    /\ weak = Users \ Newcomers
    /\ vault = [u \in Users |-> None]
    /\ push = None
    /\ disk = NewDisk
    /\ app = [user |-> None, loading |-> FALSE, started |-> FALSE, key |-> None,
              hydrating |-> FALSE, peers |-> None]
    /\ tasks = {}
    /\ phase = "front"
    /\ minted = 1
    /\ events = 0
    /\ mixed = FALSE /\ torn = {} /\ left = FALSE

(***************************************************************************)
(* refreshProfile and the start of the app                                 *)
(***************************************************************************)
\* A request carries the token of its moment; its answer may bring a fresher one.
Profile(u) == [id |-> u, vault |-> vault[u]]
AskProfile(a) == [a EXCEPT !.loading = @ \/ ~a.started]

Refreshed(t, slide) ==
    /\ t.kind = "refresh" /\ t.who # None
    /\ Swap(t, {})
    /\ disk' = [disk EXCEPT !.profile = Profile(t.who),
                            !.token = IF slide THEN t.who ELSE @]
    /\ app' = [app EXCEPT !.user = Profile(t.who), !.loading = FALSE, !.started = TRUE]
    /\ mixed' = (mixed \/ t.late \/ disk.token # t.who)
    /\ UNCHANGED <<accounts, phase, events, torn, left>>

\* A failure signs nobody out who has a profile on disk.
RefreshFails(t) ==
    /\ t.kind = "refresh"
    /\ Swap(t, {})
    /\ app' = [app EXCEPT !.user = IF disk.profile = None THEN None ELSE @, !.loading = FALSE]
    /\ UNCHANGED <<accounts, disk, phase, events, mixed, torn, left>>

AskRefresh ==
    /\ Event /\ SignedIn /\ ~NeedsVault /\ ~Running("refresh")
    /\ tasks' = tasks \cup {Task("refresh", disk.token)}
    /\ app' = AskProfile(app)
    /\ UNCHANGED <<accounts, disk, phase, mixed, torn, left>>

\* The process ends: what it had asked the server may be answered, to nobody.
Kill ==
    /\ Event /\ phase # "dead" /\ phase' = "dead"
    /\ tasks' = {}
    /\ app' = [app EXCEPT !.user = None, !.loading = FALSE, !.started = FALSE,
                          !.key = None, !.hydrating = TRUE, !.peers = None]
    /\ torn' = torn \cup {t.who : t \in {s \in tasks : s.step = "rewrap"}}
    /\ UNCHANGED <<accounts, disk, mixed, left>>

\* The preferences get to what setAuthToken asked of them; a write that fails is logged.
Mirrored ==
    /\ phase # "dead" /\ disk.mirror # disk.token
    /\ disk' = [disk EXCEPT !.mirror = disk.token]
    /\ UNCHANGED <<accounts, app, tasks, phase, events, mixed, torn, left>>

\* main.tsx and hydrateAuthToken, the effects of AccountKeyProvider and useAuth.  The copy of
\* the token wins if there is one and it can be read.  History: it was another's, or of a
\* session that is over.
Boot ==
    /\ phase = "dead" /\ phase' = "front"
    /\ \E token \in {disk.token, disk.mirror} :
        /\ token = None => disk.token = None
        /\ disk' = [disk EXCEPT !.token = token]
        /\ tasks' = {Task("hydrate", None)}
                       \cup (IF token = None THEN {} ELSE {Task("refresh", token)})
        /\ app' = IF token = None THEN app
                  ELSE [app EXCEPT !.user = disk.profile, !.started = disk.profile # None,
                                   !.loading = disk.profile = None]
        /\ mixed' = (mixed \/ token # disk.token)
    /\ UNCHANGED <<accounts, events, torn, left>>

Hydrated(t) ==
    /\ t.kind = "hydrate"
    /\ Swap(t, {})
    /\ app' = [app EXCEPT !.key = disk.key, !.hydrating = FALSE]
    /\ UNCHANGED <<accounts, disk, phase, events, mixed, torn, left>>

(***************************************************************************)
(* Signing in: LoginPage, RegisterPage ("login"), LazyVaultModal ("lazy"), *)
(* the password form of LockScreen ("unlock"), bootstrapVaultOnLogin       *)
(***************************************************************************)
Forms == {"login", "register", "lazy", "unlock"}
SigningIn == {"login", "register"}

\* Nobody goes from one sign-in page to the other while its form is under way.
Submit(kind, u, pw) ==
    /\ Event /\ ~Running(kind) /\ ~app.loading
    /\ kind \in SigningIn => \A other \in SigningIn : ~Running(other)
    /\ tasks' = tasks \cup {[Task(kind, u) EXCEPT !.pw = pw]}
    /\ left' = (left /\ kind \notin SigningIn)
    /\ UNCHANGED <<accounts, disk, app, phase, mixed, torn>>

SubmitLogin(u) == app.user = None /\ hash[u] # 0 /\ Submit("login", u, hash[u])
SubmitRegister(u) == app.user = None /\ hash[u] = 0 /\ Submit("register", u, 1)
SubmitLazy(u) == UserId = u /\ NeedsVault /\ Submit("lazy", u, hash[u])

\* The server registers a newcomer.
Registered(t) ==
    /\ t.kind = "register" /\ t.step = "ask" /\ hash[t.who] = 0
    /\ hash' = [hash EXCEPT ![t.who] = t.pw]
    /\ Swap(t, {[t EXCEPT !.step = "told"]})
    /\ UNCHANGED <<weak, vault, push, minted, disk, app, phase, events, mixed, torn, left>>

\* The server compares the password; a hash of the old cost is computed anew before the
\* answer is sent.
Checked(t) ==
    LET u == t.who
    IN  /\ t.kind \in Forms \ {"register"} /\ t.step = "ask" /\ hash[u] = t.pw
        /\ Swap(t, {[t EXCEPT !.step = IF u \in weak THEN "rehash" ELSE "told",
                              !.vault = vault[u]]})
        /\ UNCHANGED <<accounts, disk, app, phase, events, mixed, torn, left>>

\* rehashIfStale writes the hash of the password typed, whatever is stored by now.
Rehash(t) ==
    /\ t.kind \in Forms /\ t.step = "rehash"
    /\ hash' = [hash EXCEPT ![t.who] = t.pw]
    /\ weak' = weak \ {t.who}
    /\ torn' = IF hash[t.who] = t.pw THEN torn ELSE torn \cup {t.who}
    /\ Swap(t, {[t EXCEPT !.step = "told"]})
    /\ UNCHANGED <<vault, push, minted, disk, app, phase, events, mixed, left>>

\* The answer: the token is stored, and the vault opened or, if there is none, set up.
\* History: somebody signs in over a session that no logout ended.
Told(t) ==
    /\ t.kind \in Forms /\ t.step = "told"
    /\ disk' = [disk EXCEPT !.token = t.who]
    /\ Swap(t, {[t EXCEPT !.step = IF t.vault = None THEN "put" ELSE "open"]})
    /\ mixed' = (mixed \/ t.late \/ disk.token \notin {None, t.who}
                        \/ UserId \notin {None, t.who})
    /\ UNCHANGED <<accounts, app, phase, events, torn, left>>

\* What becomes of a form whose vault could not be opened or stored: the login goes on
\* without a key, or with the one still in memory; the other forms show an error.
WithoutKey(t) ==
    Swap(t, IF t.kind \in SigningIn THEN {[t EXCEPT !.step = "profile"]} ELSE {})

Open(t) ==
    /\ t.step = "open"
    /\ IF t.vault.pw = t.pw
       THEN Swap(t, {[t EXCEPT !.step = "save", !.key = t.vault.key]}) /\ UNCHANGED mixed
       ELSE WithoutKey(t) /\ mixed' = (mixed \/ t.late \/ app.key # None)
    /\ UNCHANGED <<accounts, disk, app, phase, events, torn, left>>

\* setupNewVault and putVault: the request is sent with the token of this moment and may
\* be stored although its answer is lost.
SetUp(t, stored, ok) ==
    LET k == Key(t.who, minted + 1)
    IN  /\ t.kind \in Forms /\ t.step = "put"
        /\ ok => stored
        /\ stored => disk.token # None
        /\ vault' = IF stored THEN [vault EXCEPT ![disk.token] = Locks(t.pw, k)] ELSE vault
        /\ minted' = IF stored THEN minted + 1 ELSE minted
        /\ torn' = IF stored /\ (t.late \/ disk.token # t.who) THEN torn \cup {disk.token} ELSE torn
        /\ IF ok THEN Swap(t, {[t EXCEPT !.step = "save", !.key = k]}) ELSE WithoutKey(t)
        /\ mixed' = (mixed \/ t.late \/ (~ok /\ app.key # None)
                          \/ (stored /\ vault[disk.token] # None))
        /\ UNCHANGED <<hash, weak, push, disk, app, phase, events, left>>

\* saveAccountKey and setKey; then the profile is asked for.
Save(t) ==
    /\ t.kind \in Forms /\ t.step = "save"
    /\ disk' = [disk EXCEPT !.key = t.key]
    /\ app' = [app EXCEPT !.key = t.key, !.hydrating = FALSE]
    /\ Swap(t, IF t.kind = "unlock" THEN {} ELSE {[t EXCEPT !.step = "profile"]})
    /\ mixed' = (mixed \/ t.late)
    /\ UNCHANGED <<accounts, phase, events, torn, left>>

LoginRefreshes(t) ==
    /\ t.step = "profile"
    /\ Swap(t, {[Task("refresh", disk.token) EXCEPT !.late = t.late]})
    /\ app' = AskProfile(app)
    /\ UNCHANGED <<accounts, disk, phase, events, mixed, torn, left>>

\* A wrong password or a lost request ends any form, change or fetch.
Fails(t) ==
    /\ t.step = "ask" /\ t.kind \notin {"refresh", "hydrate", "logout"}
    /\ Swap(t, {})
    /\ UNCHANGED <<accounts, disk, app, phase, events, mixed, torn, left>>

(***************************************************************************)
(* ChangePasswordForm, and what other devices do                           *)
(***************************************************************************)
AskChange ==
    /\ Event /\ SignedIn /\ ~NeedsVault /\ ~Running("change") /\ disk.token # None
    /\ minted' = minted + 1
    /\ tasks' = tasks \cup {[Task("change", disk.token) EXCEPT
                    !.old = hash[UserId], !.pw = minted + 1,
                    !.key = app.key]}
    /\ UNCHANGED <<hash, weak, vault, push, disk, app, phase, mixed, torn, left>>

\* ChangePassword of the server: compare, write.  The vault stays behind if the device has
\* no key or is not told.  History: what this device began for the user before is late.
Changed(t, answered) ==
    LET goes == answered /\ t.key # None
    IN  /\ t.kind = "change" /\ t.step = "ask" /\ hash[t.who] = t.old
        /\ hash' = [hash EXCEPT ![t.who] = t.pw]
        /\ weak' = weak \ {t.who}
        /\ tasks' = LateFor(t.who, tasks \ {t})
                     \cup (IF goes THEN {[t EXCEPT !.step = "rewrap"]} ELSE {})
        /\ torn' = IF ~goes /\ vault[t.who] # None THEN torn \cup {t.who} ELSE torn
        /\ UNCHANGED <<vault, push, minted, disk, app, phase, events, mixed, left>>

\* Mutant: the vault keeps the old password.
RewrapOldPassword(t, stored) ==
    /\ t.step = "rewrap" /\ stored /\ disk.token # None
    /\ vault' = [vault EXCEPT ![disk.token] = Locks(t.old, t.key)]
    /\ Swap(t, {})
    /\ UNCHANGED <<hash, weak, push, minted, disk, app, phase, events, mixed, torn, left>>

\* The key in memory when the form was sent goes into a vault with the new password.
Rewrap(t, stored) ==
    /\ t.step = "rewrap"
    /\ stored => disk.token # None
    /\ vault' = IF stored THEN [vault EXCEPT ![disk.token] = Locks(t.pw, t.key)] ELSE vault
    /\ Swap(t, {})
    /\ torn' = IF ~stored THEN torn \cup {t.who}
               ELSE IF t.late \/ hash[disk.token] # t.pw THEN torn \cup {t.who, disk.token}
               ELSE torn
    /\ mixed' = (mixed \/ t.late)
    /\ UNCHANGED <<hash, weak, push, minted, disk, app, phase, events, left>>

\* Another device changes the password of u, and rewraps the vault or fails to.
\* History: what this device began for u before is late.
ChangedElsewhere(u, stored) ==
    /\ Event /\ hash[u] # 0
    /\ stored => vault[u] # None
    /\ minted' = minted + 1
    /\ hash' = [hash EXCEPT ![u] = minted + 1]
    /\ weak' = weak \ {u}
    /\ vault' = IF stored THEN [vault EXCEPT ![u].pw = minted + 1] ELSE vault
    /\ torn' = IF vault[u] # None /\ ~stored THEN torn \cup {u} ELSE torn
    /\ tasks' = LateFor(u, tasks)
    /\ UNCHANGED <<push, disk, app, phase, mixed, left>>

\* Another device sets up the vault of u.
SetUpElsewhere(u) ==
    /\ Event /\ hash[u] # 0 /\ vault[u] = None
    /\ minted' = minted + 1
    /\ vault' = [vault EXCEPT ![u] = Locks(hash[u], Key(u, minted + 1))]
    /\ tasks' = LateFor(u, tasks)
    /\ UNCHANGED <<hash, weak, push, disk, app, phase, mixed, torn, left>>

(***************************************************************************)
(* What the pages and the push registration do in a session                *)
(***************************************************************************)
\* The chats page loads messages ("read") or a peer's key ("peer"), AppLayout registers
\* the push token ("fcm") unless it is registered already.
Fetch(kind) ==
    /\ Event /\ SignedIn /\ ~Running(kind) /\ disk.token # None
    /\ kind = "fcm" => ~disk.fcm
    /\ tasks' = tasks \cup {Task(kind, disk.token)}
    /\ UNCHANGED <<accounts, disk, app, phase, mixed, torn, left>>

Fetched(t, slide) ==
    /\ t.kind \in {"read", "peer", "fcm"}
    /\ Swap(t, {})
    /\ disk' = [disk EXCEPT !.cache = IF t.kind = "read" THEN t.who ELSE @,
                            !.fcm = @ \/ t.kind = "fcm",
                            !.token = IF slide THEN t.who ELSE @]
    /\ app' = IF t.kind = "peer" THEN [app EXCEPT !.peers = t.who] ELSE app
    /\ push' = IF t.kind = "fcm" THEN t.who ELSE push
    /\ mixed' = (mixed \/ t.late)
    /\ UNCHANGED <<hash, weak, vault, minted, phase, events, torn, left>>

\* ChatWindow keeps what is typed, a moment after each key and when the chat or the page is
\* left; what is sent or deleted, by whomever it was typed into that chat, goes.
PersistDraft ==
    /\ Event /\ SignedIn /\ ~NeedsVault
    /\ \E spent \in SUBSET disk.drafts, own \in {{}, {UserId}} :
          disk' = [disk EXCEPT !.drafts = (@ \ spent) \cup own]
    /\ UNCHANGED <<accounts, app, tasks, phase, mixed, torn, left>>

\* The registration is stored but its answer is lost: the device does not know of it.
Unheard(t) ==
    /\ t.kind = "fcm"
    /\ Swap(t, {})
    /\ push' = t.who
    /\ mixed' = TRUE
    /\ UNCHANGED <<hash, weak, vault, minted, disk, app, phase, events, torn, left>>

(***************************************************************************)
(* logout                                                                  *)
(***************************************************************************)
AskLogout ==
    /\ Event /\ SignedIn /\ ~Running("logout")
    /\ app' = [app EXCEPT !.loading = TRUE]
    /\ tasks' = tasks \cup {[Task("logout", UserId) EXCEPT
                                !.step = IF disk.fcm THEN "fcm" ELSE "api"]}
    /\ UNCHANGED <<accounts, disk, phase, mixed, torn, left>>

\* unregisterFCMDevice: the token is forgotten here even if the server was not reached.
Unregister(t, ok) ==
    /\ t.kind = "logout" /\ t.step = "fcm"
    /\ push' = IF ok THEN None ELSE push
    /\ disk' = [disk EXCEPT !.fcm = FALSE]
    /\ Swap(t, {[t EXCEPT !.step = "api"]})
    /\ mixed' = (mixed \/ ~ok)
    /\ UNCHANGED <<hash, weak, vault, minted, app, phase, events, torn, left>>

\* Mutant: the caches of messages survive.
WipeNotCaches(t) ==
    /\ t.kind = "logout" /\ t.step = "api"
    /\ disk' = [disk EXCEPT !.token = None, !.profile = None, !.key = None]
    /\ tasks' = AllLate(tasks \ {t}) \cup {[t EXCEPT !.step = "end"]}
    /\ mixed' = (disk.fcm \/ (mixed /\ push # None))
    /\ UNCHANGED <<accounts, app, phase, events, torn, left>>

\* Mutant: the stored key survives.
WipeNotKey(t) ==
    /\ t.kind = "logout" /\ t.step = "api"
    /\ disk' = [disk EXCEPT !.token = None, !.profile = None, !.cache = None]
    /\ tasks' = AllLate(tasks \ {t}) \cup {[t EXCEPT !.step = "end"]}
    /\ mixed' = (disk.fcm \/ (mixed /\ push # None))
    /\ UNCHANGED <<accounts, app, phase, events, torn, left>>

\* After the answer, or without one: what is stored goes, except the drafts, which logout
\* does not know of, and the token's copy, whose removal is not awaited.  History: what is
\* under way is late from here; a push token registered since the step before, or left over,
\* stays.
Wipe(t) ==
    /\ t.kind = "logout" /\ t.step = "api"
    /\ disk' = [disk EXCEPT !.token = None, !.profile = None, !.key = None, !.cache = None]
    /\ tasks' = AllLate(tasks \ {t}) \cup {[t EXCEPT !.step = "end"]}
    /\ mixed' = (disk.fcm \/ (mixed /\ push # None))
    /\ UNCHANGED <<accounts, app, phase, events, torn, left>>

\* The key in memory, kept by AccountKeyProvider, stays.
LoggedOut(t) ==
    /\ t.kind = "logout" /\ t.step = "end"
    /\ app' = [app EXCEPT !.user = None, !.loading = FALSE, !.started = FALSE, !.peers = None]
    /\ Swap(t, {})
    /\ left' = TRUE
    /\ UNCHANGED <<accounts, disk, phase, events, mixed, torn>>

(***************************************************************************)
(* Steps by who takes them                                                 *)
(***************************************************************************)
SessionUser ==
    \/ \E u \in Users : SubmitLogin(u) \/ SubmitRegister(u) \/ SubmitLazy(u)
    \/ AskRefresh \/ AskChange \/ (~NeedsVault /\ AskLogout) \/ PersistDraft
    \/ \E kind \in {"read", "peer", "fcm"} : Fetch(kind)
Elsewhere == \E u \in Users : \/ \E stored \in BOOLEAN : ChangedElsewhere(u, stored)
                              \/ SetUpElsewhere(u)
SessionTask(t) ==
    \/ \E slide \in BOOLEAN : Refreshed(t, slide) \/ Fetched(t, slide)
    \/ RefreshFails(t) \/ Hydrated(t) \/ Fails(t)
    \/ Registered(t) \/ Checked(t) \/ Rehash(t) \/ Told(t) \/ Open(t) \/ LoginRefreshes(t)
    \/ \E stored, ok \in BOOLEAN : SetUp(t, stored, ok)
    \/ \E ok \in BOOLEAN : Changed(t, ok) \/ Rewrap(t, ok) \/ Unregister(t, ok)
    \/ Unheard(t) \/ Wipe(t)

(***************************************************************************)
(* Properties                                                              *)
(***************************************************************************)
SessionTypes ==
    /\ hash \in [Users -> Nat] /\ weak \subseteq Users /\ torn \subseteq Users
    /\ vault \in [Users -> Vaults]
    /\ push \in Users \cup {None}
    /\ disk.token \in Users \cup {None} /\ disk.key \in Keys \cup {None}
    /\ disk.cache \in Users \cup {None} /\ disk.fcm \in BOOLEAN
    /\ disk.drafts \subseteq Users /\ disk.mirror \in Users \cup {None}
    /\ app.user \in Profiles \cup {None}
    /\ disk.profile \in Profiles \cup {None}
    /\ app.key \in Keys \cup {None} /\ app.hydrating \in BOOLEAN
    /\ phase \in {"front", "back", "dead"}
    /\ events \in 0..MaxEvents

\* The key a user encrypts with is the one in the vault of that account: nobody goes on
\* with the key of the user before (useAuth.ts logout: clearStoredAccountKey), unless a
\* task of an ended session took effect, two set-ups of one vault overlapped, somebody
\* signed in over another session, or a login that could not open or store its vault went
\* on with the key in memory.
OwnKey ==
    SignedIn /\ app.key # None /\ tasks = {} /\ ~mixed
        => vault[UserId] # None /\ app.key = vault[UserId].key

\* The vault of a user opens with the password that signs in, once no change is under way
\* (ChangePasswordForm.tsx, rehashIfStale), unless a change was cut between its two writes
\* or overlapped another one.
VaultOpens ==
    \A u \in Users \ torn :
        vault[u] # None /\ ~Running("change") => vault[u].pw = hash[u]

\* After a logout, whatever goes on and however often the app is ended and started, nobody is
\* signed in, no push comes to the device, and the user's token, profile, key and messages
\* are not on it until somebody signs in (the texts typed and not sent still are, and the
\* token's copy may be); unless something of the session was still under way, the server
\* could not be told, or a start found the copy of the token.
LogoutIsFinal ==
    left /\ ~mixed /\ ~Leaving
        => /\ disk.token = None /\ disk.profile = None /\ disk.key = None /\ disk.cache = None
           /\ push = None /\ ~disk.fcm
           /\ app.user = None /\ app.peers = None
=============================================================================
