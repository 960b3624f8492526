# Formal models of the messenger

TLA+ models of this messenger (Go backend, React frontend, PostgreSQL, S3, WebSockets, WebRTC
calls), checked with TLC on small instances and, for connections, presence and its notifications,
delivery, calls, messages with their files, groups with their encryption, and the shell of the
client, proved with TLAPS for all sizes. Paths below are relative to `src/`; `backend/` stands for
`backend/internal/`.

Contents: 1 inventory, 2 modules, 3 runs and bounds, 4 fairness, 5 proofs, 6 disagreements
found, 7 what is not modelled, 8 what comes next.

## 1. Inventory

How a message travels: the sender's client encrypts it and writes a frame on its WebSocket. The
server's read loop for that socket runs the handler to the end, which asks the presence service
whether the recipient is there, stores the message (and an `unread_messages` row if not) in one
transaction, and hands one frame per registered connection of the recipient to a pool of fifty
workers. A recipient who was away gets the rows replayed when a connection opens. Everything is
in one server process; no state but the database and the object store survives it.

| component | state it keeps | operations | hard behaviour | what makes it correct |
|---|---|---|---|---|
| WebSocket connections (`backend/handlers/websocket.go`) | `h.clients` (user to set of connections, under `h.mu`); one read loop, one ping pump per connection | check limit, upgrade, `setupConnection`, read loop, `cleanup` | every step takes and releases a lock, so connections of a user interleave; a handler can block its read loop on the full job queue | nobody stays online without a connection; nobody is thrown out while he answers pings |
| Presence (`backend/services/presence_service.go`) | `users`: count, flag, last seen | `UserConnected`, `UserDisconnected`, `UpdateActivity`, the 30 second sweep | the sweep zeroes a user whose connections still exist and whose disconnects come later | the count is exact, the flag follows it |
| Presence notifications (`broadcastPresenceChange`, `ChatsPage.tsx`) | goroutines, frames in the pool, the client's online set | callback, fan-out, HTTP question | goroutines and frames are unordered; the answer races the frames | clients end up with the truth |
| Message delivery (`websocket_actions.go`, `chat_service.go`, `sendPendingMessages`) | `messages`, `unread_messages`, jobs of the pool, the replay goroutine of a new connection | send, missed-call message, fan-out, replay | presence is read twice with a transaction in between, while the recipient connects, stalls or is swept away | no message falls between live delivery and queue |
| Receipts (`message_receipt_repo.go`) | `last_delivered_message_id`, `last_read_message_id` | mark_delivered, mark_read | late acknowledgements of several devices | pointers only advance |
| Calls (`features/calls/`, `websocket_call.go`) | `callState`, two timers, promises, `pendingReadyRef`; `h.activeCalls` | call, accept, reject, hang up, doorbell, timeouts; relay, register, missed, disconnect | promises settle after the call is over; handlers read a copy of the state that lags behind it; frames out of order; sockets break in the middle | no false missed call, nobody talks alone, nobody rings for ever |
| Messages and pins (`chat_service.go`, `pin_service.go`) | `messages`, envelopes, `pinned_messages` | edit, delete, clear, pin | check, then write, in different transactions | a deleted message is empty and unpinned |
| Attachments (`attachment_service.go`, `s3_storage.go`) | `attachments`, their envelopes, blobs | upload, forward, delete, rollback | two stores, no common transaction | a row has a blob; a blob has a row, or is garbage |
| Groups (`group_service.go`, `handlers/group.go`) | `chat_participants` with their roles, the row of the chat | add, remove, leave, change a role, delete | membership is read outside the transaction; frames of removals go out before the checks | the creator stays for as long as the group does; a deleted group stays deleted |
| Keys and encryption (`shared/crypto`) | peers' public keys, the keys of a chat | seal a text, prepare, open and rewrap a file | keys fetched long before they are used | everybody a message was sealed for reads it and its files |
| Composer (`ChatWindow.tsx`, `MessageComposer.tsx`, `GroupInfoPanel.tsx`) | text, edit, files that wait for their message, drafts, status of encryption | type, submit, edit, reply, share, upload, forward, switch chats | awaits between click and frame, answers for the chat before | a text is sent once or kept; files follow their message; keys follow the group |
| Chats page (`ChatsPage.tsx`, `messageCache.ts`) | list on the screen, lists in memory and on disk, chats with badges | load, receive, decrypt, mark, clear, delete, reload | answers of overlapping fetches against live frames; announcements of what then fails | the list shows what the server has; a badge counts a message once |
| Reconnecting socket (`useGlobalWebSocket.ts`) | socket, attempts, timers | connect, back-off, visibility | close events of replaced sockets, the limit of attempts | a visible page gets a socket again |
| Session (`useAuth.ts`, `AccountKeyProvider.tsx`, `vaultBootstrap.ts`, `auth_service.go`, `user_service.go`) | token, profile, account key, push token; password hash, vault | sign in, register, refresh, change the password, log out | requests that outlive their session; two writes for one change | keys stay with their owner, the vault opens with the password, a logout takes token, profile, key and messages off the device |
| App lock (`AppLockProvider.tsx`, `LockScreen.tsx`, `appLock.ts`) | stored stamp and setting, the screen | hide, show, verify, switch on and off | leaving and returning on the lock screen | away too long means locked |
| Self-update (`UpdateProvider.tsx`, `UpdateMandatoryScreen.tsx`) | newest release, state of the download | check, dismiss, download, install | failures and restarts in any step | an unsupported build stays behind its screen |
| Push (`push_notification_service.go`, `sw.js`) | subscriptions | register, notify, dismiss | best effort | no token of somebody who left |
| HTTP layer, contacts, profiles, validators, shells, presentation | settings, single rows | | | |

Interactions: connections call presence (`UserConnected`/`UserDisconnected`/`UpdateActivity`);
presence calls back in goroutines, which read `h.clients`; delivery and calls read presence and
`h.clients` and share the worker pool; the cleanup of the last connection of a user changes the
call table; a missed call becomes a message and enters the delivery path. On the client the session
decides which pages are mounted, the chats page owns the socket, hands its list to the composer and
tells it of changes in the group; the lock screen and the update screen cover or replace the pages;
hiding, showing, ending and starting the app is felt by all of them.

`PROJECT.json` lists every component with its files, and under `hazards` each place of the code
that a test would hardly reach, with the property that covers it or the reason none does yet.

## 2. Modules

| module | what it is | extends |
|---|---|---|
| `Connections` | connections, registry, presence table, sweep | |
| `ConnectionsProofs` | theorems about `Connections` | `Connections` |
| `PresenceFanout` | callbacks, frames and the HTTP answer on top of the connections | `Connections` |
| `Delivery` | a direct chat seen from its recipient: sends, queue, replay, receipts | `Connections` |
| `DeliveryProofs` | theorems about `Delivery` and `PresenceFanout` | both, `ConnectionsProofs` |
| `Calls` | phones, server and lines of direct calls | |
| `CallsProofs` | theorems about `Calls` | `Calls` |
| `Messages` | requests on the messages, pins and attachments of a chat | |
| `MessagesProofs` | theorems about `Messages` | `Messages` |
| `ChatView` | the chats page and its caches against an abstract server | |
| `ChatViewProofs` | theorems about `ChatView` | `ChatView` |
| `Session` | who is signed in on a device, with which key | |
| `AppLock`, `Socket`, `Updates` | three other parts of the client's shell | `Session` |
| `Client` | the shell: what hides, shows, ends, starts and covers the parts | `AppLock`, `Socket`, `Updates` |
| `ClientProofs` | theorems about `Client` | `Client` |
| `Membership` | what a group promises, without requests and checks | |
| `E2E` | encryption without its bytes | |
| `Groups` | the group on the server, implements `Membership` | `E2E` |
| `Composer` | one user's window on a group and a direct chat | `Groups` |
| `EnvelopeProofs` | the implementation of `Membership`, theorems about `E2E`, what is sealed and for whom, and the keys in the window | `Composer` |
| `ComposerProofs` | theorems about the texts and files in the composer and on their way | `EnvelopeProofs` |
| `MC...` | the instances TLC checks | the module |

**Connections.** `pc[c]` is where the goroutine of one connection attempt stands. Each phase
ends at a point of the code where a lock is released: `CheckConnectionLimit` (RLock),
`Register` (`setupConnection` under `h.mu`), `UserConnected` (presence's own lock), then the read
loop; `RemoveClient`, `CheckLastConnection`, `EndCall` and `UserDisconnected` are the four calls
of `cleanup`. `clients` is the registry, `wired` the sockets whose peer is there, `stalled` the
read loops that sit in a handler. `status` is the table of the presence service. Time is `age`:
0 is recent, 1 past the 54 seconds after which a ping is due, 2 past the two minutes of the
sweep, 3 past the hour after which a row is removed.
`GrowOld` passes 1 only while no connection of the user reads, because one that reads answers the
ping or meets the 60 second read deadline. The callbacks of the table belong to
`PresenceFanout`, the call ended by `EndCall` to `Calls`.

**PresenceFanout.** A change of the flag starts a goroutine (`callbacks`), which makes one frame
for each connection of the users who are online when it runs and who watch the user. `frames` is
a set: workers and network give no order. `AskPresence` is the HTTP request, whose answer is one
more unordered frame. `view` is what a client last heard. `overlapped` remembers users with two
changes under way at once, for whom the code makes no promise.

**Delivery.** `sends[m]` is where the send of message m stands: presence checked, stored, fanned
out. A user message and its row are one transaction; the message of a missed call is two steps.
`jobs` is the pool, `replay[c]` the goroutine of a new connection: rows fetched, then written one
at a time, then all rows of the user deleted. `got` is what each client has, live, by replay or by
loading the history. Queries that can fail are disjuncts that fail. All steps of `Connections` are
steps here: read loops stall, time passes, the sweep runs (`LineBreaks`, `PresenceMoves`). A socket
whose read loop is stalled still takes frames (`Open`); its client acknowledges nothing (`Connected`).
Two history variables say what excuses a loss, and TLC finds a loss for each excuse left out. `cut`
has the messages that were on their way when a line broke, a query failed, or the recipient's presence fell
while sockets were up: the sweep does that to a user whose read loops are stalled, after which
`broadcastToChat` skips the user (`websocket.go:599`), and neither row nor frame is made. `wiped` has rows removed for a
client that lacked the message, by `mark_read`, or by a replay once the sweep had evicted the user.
`witness` remembers which sockets were open when the send began.

**Calls.** A phone is the reducer of `CallProvider`: status and call id. Its two timers are
`ring` and `wait`, its unsettled promises `promises`; a promise of a connection that `cleanup`
closed is `stale`, and `pc` says whether one left a connection. A click, a frame, a timer and a settling
promise are actions. Handlers set the state (`phone`) but read `callStateRef` (`seen`), which an effect
copies from it once it is rendered (`Commit`; rendering and effect are one step, nothing between them reads
either). A click is rendered before the next event, because React flushes those effects synchronously
(`Rendered`); after a frame, a timer, a tapped push or a promise any number of handlers may come first. So a
second offer may take the place of one that no one has seen yet, and an answer that comes between the
no-answer timer and its rendering passes the guard: with no connection left `handleRemoteAnswer` returns at
once and the phone shows an active call without an id (`HandleRemoteAnswer`). That call was posted as missed and
is not talked in, which is why `talked` takes only a call the phone is in. Two things are assumed of time: the
twelve seconds of `ConnectingTimeout` are longer than the rendering of the state that armed it (a click
armed the other timer), and a phone's microphone prompts are answered in
the order they were asked, so that the connection `cleanup` closes is the one an answer is being set on. `uplink` is
ordered, as a socket is and as the read loop is; `downlink` is a set, as the pool is. `handling`
is the frame a read loop is in the middle of: the presence check of an offer comes before its
registration, the guard of a missed call before `unregisterCall`. `DropLine`,
`CheckLastConnection` and `EndCall` are the cleanup of a broken connection and `Reconnect` the
next socket of the same page. A call id stands for one chat, so who calls whom is a constant of
the instance.

**Messages.** One chat and its tables: `row`, `body` (the text of a direct message, the envelope
rows of a group message), `pins`, `unread`, `home` (which message a file's row belongs to), with
`blobs` for the object store. `job[r]` is where a request stands and what it has read. Most
requests check in one step and write in the next. A deletion has five: check, pluck the storage
keys, the statements on every table but `messages`, the last statement with the commit, and the
sweep of the blobs. PostgreSQL at READ COMMITTED deletes what is committed when a statement runs,
so `doomed` keeps the rows the third step saw and the commit removes those. `app/app.go:137` turns
foreign keys off, so a row may be written for a message that is gone. Each write and each call to
the store can fail. `contested` remembers messages on which a deletion overlapped another request,
`faulted` files whose removal failed halfway, `meant` the message a file was uploaded for.

**ChatView.** `home`, `marks`, `purged`, `alive` and `rows` are the server: stored messages, what
happened to them, chats, unread rows. `doing` holds clearings and deletions that were announced and
not yet carried out (`chatAction`, `groupAction`), which may still fail. `flight` keeps frames,
answers and decryptions; the page takes any of them next (`Handle(i)`), which stands for the order
of goroutines, requests and promises. `page` has `shown` (the list on the screen), `mem` and `disk`
(the caches), `chats` and `saved` (the list of chats with its badges). A frame of the open chat is
decrypted in a step of its own, and whether its chat was open is decided before it, as in
`handleWebSocketMessage`. Five history fields go along. Four name what the code makes no promise about: `late` (a
frame or answer that another one overtook), `doubted` (chats for which something was late, lost,
failed or undecipherable since their last load), `blurred` (the list on the screen took a change of another
chat) and `twice` (a message that got a row and a live frame). A fifth, `owner`, says whose list the screen
shows: the list stays there while another chat is opened that has to be fetched, and a change for a chat goes
to whatever list is on the screen.

**Session.** Each asynchronous function of the client is a record in `tasks` whose `step` is the await
it stands at; nothing cancels a task when its session ends. `hash`, `weak`, `vault` and `push` are the
server's rows, `disk` is the local storage with the key store, `app` the state of the providers. A
password is a number, a key the user and a number. Histories: `late` marks a task whose session
ended or whose user changed the password since it began; `mixed` records that such a task took
effect; `torn` users whose password and vault were changed apart; `left` a logout. `disk.drafts` has the
users whose unsent texts are in `chat_draft_<id>`: `PersistDraft` writes them, as `ChatWindow` does when a page is
left, a logout too, and nothing but sending or deleting such a text removes it, so that a logout leaves them for
whoever opens the same chat next. `disk.mirror` is the copy of the token in the native preferences: it follows in
its own time (`Mirrored`), because `setAuthToken` does not wait for it, and a start believes it (`Boot`). The
copy of the account key is awaited (`clearStoredAccountKey`) and is one store with the key.

**AppLock, Socket, Updates, Client.** `lock` has what is stored (`on`, `stamp`, `offered`) and the
provider's state (`enabled`, `locked`); `gone` remembers that the user was away longer than the
time-out. `sock` is the hook's state: the browser socket, the two timers, the attempts; `old` counts
replaced sockets whose close event is still to come. `upd` is the state of the provider with the
dismissed release in memory and on disk. `Client` says where they meet: `Hide`, `Show`, `End`,
`Start`, the end of a logout, and which of them cover or unmount the pages (`Usable`, `PageWanted`,
`Gate`). `focus` picks the parts whose own events one behaviour exercises; the others stand still
but for the shared events.

**Membership, Groups.** `Membership` has the steps a member could observe: join, go, become admin or
member, dissolve. In `Groups` a request is a record in `reqs`: its checks are one step and its
transaction a later one, with other requests in between; removals, departures and deletions begin with
their announcement (`RemoveMemberAPI`, `groupAction`). `moved` remembers who came or went meanwhile.

**E2E.** A ciphertext is a record of its key and its content, a chat's key the pair of two account keys,
whichever side derives it; a file has its own key, wrapped for each recipient.

**Composer.** `win` is the state of `ChatWindow` with the list given to it, `drafts` and `win.mem` what
is cached, `jobs` the asynchronous functions of the page with the values they began with, `mail` the
frames to the page, `line` the frames from it. A text is a set of thoughts, each typed once, so that one
can ask where it is. A submit is four steps: seal (`Submit`), hand to the socket (`Sealed`), check
(`CheckSend`), store (`StoreNew` or `StoreEdit`). Excuses are again histories: `fate` (a thought that
was dropped, edited, cleared, refused, cut off or killed), `lost` (files that lost their message or were
sent behind another), `win.doubt` (why the keys may be old), `moved` in a stored message.

Definitions with a comment that begins "Mutant:" are deliberate mistakes, one per
property. No specification uses them; the `mutants` list of `PROJECT.json` says which one must
break which property when it takes the place of the real definition.

## 3. Runs and bounds

| run | checks | instance |
|---|---|---|
| `connections` | `ConnTypeOK`, `OnlineIsBacked`, `CountIsExact`, `EvictionNeedsStall`, `LostUsersGoOffline` | one user, three devices, limit 2, all ages, stalls |
| `fanout` | `FanoutTypeOK`, `ViewIsCurrent`, `FramesAgree` | a watched user with two connections, a watcher with one |
| `delivery` | `DeliveryTypeOK`, `NoLossWithoutCut`, `SteadySocketIsServed`, `ReceiptsOnlyAdvance`, `QueueDrains` | two messages, one of a missed call; two connections of the recipient, stalls, all ages up to the sweep |
| `calls` | `CallsTypeOK`, `MissedMeansUnanswered`, `TalkingIsMutual`, `NeverStuck`, `NoSwitch` | two phones; two calls, or one and a broken line or repeated tap |
| `messages` | `MessagesTypeOK`, `ShownFilesExist`, `WipedUnlessContested`, `NoLeakedBlobs` | two messages of a group, two files, two requests at a time, five in all |
| `chatview` | `ChatViewTypeOK`, `ShownIsActive`, `CachesAreTrue`, `ViewConverges`, `BadgeCountsOnce` | two chats, one message with an edit and a deletion, four events |
| `client` | `ClientTypeOK`, `OwnKey`, `VaultOpens`, `LogoutIsFinal`, `LockHolds`, `NeverStranded`, `MandatoryHolds` | a registered user and a newcomer on one device, five events, two attempts of the socket |
| `composer` | `ComposerTypeOK`, `KeysAreCurrent`, `EnvelopesFit`, `FilesFollow`, `TextIsKept`, `GroupIsKept` | three people, a group of at most three, nine foci |
| `deleted_is_wiped` | `DeletedIsWiped` is violated | a direct message, three requests |
| `missed_call` | `MissedCallIsSeen` is violated | as `delivery` |
| `peer_told` | `PeerIsTold` is violated | a third phone |
| `teardown` | `TeardownOnlyWhenGone` is violated | as `calls` |

What they show:

* `connections`: whatever the order of connects, stalls, sweeps and disconnects, a user shown
  online has a connection whose disconnect is still to come; while the sweep has not hit a
  connected user the counter is exact; the sweep never hits one whose connection reads; a user
  whose sockets are gone goes offline.
* `fanout`: a watcher is told the truth unless two changes of the same user were on their way
  together. Without that condition it is false, which is why `overlapped` exists: a connect and a
  disconnect close together may be shown in the wrong order until the next change.
* `delivery`: if no line broke, no query failed and the recipient's presence did not fall on its way,
  a user's message ends with a client or in the queue, however the two presence checks fall among
  the steps of a connection, and although the replay deletes rows it never fetched. A socket that
  was open throughout gets the live frame of a message that was not queued, stalled or not. Pointers
  advance. Queued rows are gone after a connection opens. Without the excuse the first two are false:
  the sweep can strike a stalled user between the two looks, and then nothing is queued or written.
* `calls`: a missed call is recorded at most once and never for a call that was talked in; a
  caller's phone goes active only on a call that was answered; no phone gives up a call for another
  once it has rendered it, nor one it makes itself (a second offer before that does replace the first);
  a phone that calls or connects has a timer or a promise that will end it.
* `messages`: no order of deletions, clearings, forwards and rollbacks, failing anywhere, leaves a
  live message with a file that cannot be opened; only `DeleteAttachment` can, which removes the
  blob first. A message whose deletion met no other request is wiped from every table, and a
  blob without a row is in some request's hands, or its removal failed, or an upload met a
  deletion of its message.
* `chatview`: when nothing is under way for the open chat and nothing went wrong for it since it was
  loaded, its list equals the server's; the list under a heading is that chat's, unless a change for
  another chat was applied to it; caches hold no message of another chat and none that was cleared
  once that news is through; the badge never exceeds the messages there were, although rows, replays,
  live frames and reloads all count.
* `client`: who is signed in encrypts with the key of the own vault; the vault opens with the current
  password; after a logout, however often the app is ended and started, nobody is signed in and token,
  profile, key, messages and push token are gone until somebody signs in, which is claimed neither of the drafts
  nor of the token's copy; none of it holds without the excuses, because a task of an ended session may still
  write and a start may find that copy. The lock, the socket and the mandatory
  update hold as section 5 proves.
* `composer`: when no news of the group is under way the window encrypts for its members or waits; a
  stored message fits the members of the moment but for those who moved between check and
  transaction, and everybody it was sealed for reads it and its files; files end at the message they
  were sent with; a thought is in the composer, in a draft or on its way in exactly one message,
  however chats are switched; the group refines `Membership` whatever requests overlap.

Bounds. Three connections of one user are the fewest for which a sweep, a disconnect and a
connect can meet on the counter while the limit of two is exceeded; users do not interact in
`Connections`, and the proofs cover any number. In `fanout` two connections of the watched user
give every overlap of two changes, one watcher every order of their frames. In `delivery` two
messages are enough for one to be stored while the other is replayed, two connections for one
replay to delete what the other fetched; `MaxWork = 3` bounds sends, clients in use and stalled read
loops together, so that two connections meet one message, two messages one connection, and a stalled
connection another one or a second message. `MCBounds` lets `a1` come before `a2`, which is the same,
lets time pass only while it matters (an online user whose read loops all sit in handlers), and
leaves the receipts, which nothing else reads, at zero after an eviction; the proofs need none of this. In `calls`
two calls are enough for a late frame, timer or promise of the first to meet the second;
`MaxEvents = 2` counts calls, broken lines and repeated taps on Accept, so that a run has two calls, or one
with a line that breaks anywhere or with two answers; all of them together are left to the proofs. The two calls
differ in their ids only, hence the symmetry. `MaxTalk = 2` frames of a phone on their way to
the server for a hangup to follow an offer; a state with more is cut off in the guards of the
actions that send. In `messages` any two requests meet in every order of their steps, and
`MaxBegun = 5` lets three more come before, between or after them (send, upload, forward, delete
and clear of one file's history need no more); a second message shows that a deletion touches its
own only, a second file lets a forward copy what a deletion removes; messages, files and request
slots are interchangeable, hence the symmetry. In `chatview` two chats are what an answer for the wrong
chat needs; `MaxEvents = 4` and `MaxFlight = 2` let any two answers or frames overtake each other
after two events prepared the page, and what they cause does not count as an event. In `client` five
events are enough to sign in, leave, and sign in as somebody else while a task of the first session
is under way; two attempts make the limit of the socket reachable. In `composer` a
focus names what happens in one behaviour and how often: two moves of the group with or without breaks
of the line and with or without a text; two texts with two switches of the chat or two other moves;
one pick of files with one or two moves, breaks or messages of others. Three people are a creator, the
user and somebody who joins, is removed, becomes admin and publishes a key late. `CHECK_DEADLOCK FALSE` is set where the bounded number of attempts, messages,
calls or events lets the instance come to rest.

## 4. Fairness

Safety needs none, and `chatview`, `client` and `composer` check safety only: what the network answers
and when is nobody's promise, and their properties speak of the states in which nothing is under way.
`ConnFairness`: goroutines of a connection run (weak fairness of each step
of `cleanup` and of `UserConnected`), a stalled handler returns, and the read loop of a broken
socket sees the error (strong, because stalls may interrupt it). Go schedules runnable goroutines
and the read deadline bounds every read. Arrivals, failures and the passing of time are not
promised. `DeliveryFairness`: the replay goroutine of a connection runs; it is started by
`startBackgroundTasks` and blocks only on writes with a deadline.

## 5. Proofs

`ConnectionsProofs.tla`, for all sets of users and finite sets of connections, all limits and
ages, from `ConnectionsAssumption` alone:

* `TypeCorrect`: `ConnSpec => []ConnTypeOK`;
* `OnlineAlwaysBacked`: `ConnSpec => []OnlineIsBacked`;
* `CountAlwaysExact`: `ConnSpec => []CountIsExact`;
* `EvictionAlwaysNeedsStall`: `ConnSpec => EvictionNeedsStall`;
* `RegistryAlwaysExact`: `ConnSpec => []RegistryIsExact`, registry and phases agree: a connection that
  reads is found by every broadcast, one on its way out by none. The next module rests on it.

`CountIsExact` is not inductive. It speaks of users the sweep has never zeroed too early; for the
others the counter and the connections have parted and only an inequality is left: the counter is
at most the number of counted connections, and the flag is set exactly while the counter is
positive. `PresenceInvariant` proves the conjunction (`PresenceInv`) of the type invariant, of that inequality for all
users (`Backing`) and of the equality for the users not in `evicted` (`Exact`); both statements
follow. Its step needs the cardinality of `Counted(u)` before and after each action
(`FiniteSetTheorems`). The sweep is safe because it puts every user it zeroes too early into
`evicted`. The eviction theorem has an invariant of its own, `ReadersAreFresh`: a user with a
connection that reads and has its peer is younger than the sweep's two minutes, which `GrowOld` keeps because it waits for the
readers.

`DeliveryProofs.tla` begins with the notifications, from `FanoutAssumption` and `ConnectionsAssumption`,
for all users, connections and choices of watchers:

* `FanoutRefinesConnections`: `FanoutSpec => ConnSpec`, so that `PresenceInv` and `RegistryIsExact` hold here;
* `FanoutTypeCorrect`, `ViewAlwaysCurrent`, `FramesAlwaysAgree`: the three invariants of the run `fanout`;
* `FanoutInvariant`: `FanoutSpec => []FanoutInv`, which they follow from.

`ViewIsCurrent` speaks of users with nothing under way and is not inductive for that reason. `FanoutInv`
adds the others: what is under way carries the present state (`ChangesAgree`), and a view that is out of
date has a callback ahead, or a frame to this very connection (`ViewsCatchUp`). That the callback makes
such a frame is where presence and registry come in: an open connection whose owner the sweep spared
is online and registered (`OpenIsOnline`).

Then `Delivery`, from `DeliveryAssumption` and `ConnectionsAssumption`, for any number of messages and
connections and any bound on the work:

* `DeliveryRefinesConnections`: `DeliverySpec => ConnSpec`;
* `DeliveryTypeCorrect`, `NothingIsLost`, `SteadySocketAlwaysServed`: the invariants of the run `delivery`;
* `ReceiptsAlwaysAdvance`: `DeliverySpec => ReceiptsOnlyAdvance`;
* `DeliveryInvariant`: `DeliverySpec => []DeliveryInv`.

`NoLossWithoutCut` speaks of sends that are over; before that a message can be nowhere. `DeliveryInv` says
what carries it across: a socket that was open when the send looked at presence still is, or the message is in
`cut`, and if the message was not queued there was such a socket and the user is still online
(`WitnessesStay`); a queued one whose row is gone is with a client or has an open connection for the fan-out to
reach (`QueuedIsHeld`); a row the replay is about to
delete without having fetched it belongs to a send whose fan-out is to come or whose frames are in the
pool (`ReplaysCover`).

`MessagesProofs.tla`, from `MessagesAssumption`, for any number of messages, files and simultaneous requests:

* `MessagesTypeCorrect`, `ShownFilesAlwaysExist`, `DeletedAlwaysWiped`, `BlobsNeverLeak`: the four
  invariants of the run `messages`;
* `MessagesInvariant`: `MessagesSpec => []MessagesInv`.

A request checks in one step and writes in a later one; `MessagesInv` is about what it holds meanwhile.
A file being brought has no row yet and nobody else holds it (`BroughtFiles`, `BroughtOnce`). Storage keys
that a deletion plucked belong to files made for messages it deletes, which are deleted by the time the
blobs are swept (`PluckedFiles`): the sweep takes no live message's blob. Wherever a deletion meets
another request on a message, that is noted (`MeetingsAreNoted`), so the deletion of a message without
such a note has seen every row there is of it (`DeletionsCover`).

`CallsProofs.tla`, from `CallsAssumption`, for any users, calls, bounds, and whoever calls whom:

* `CallsTypeCorrect`, `MissedNeverAnswered`, `TalkingAlwaysMutual`, `NobodyStuck`: the invariants of the
  run `calls`;
* `PhonesNeverSwitch`: `CallsSpec => NoSwitch`;
* `CallsInvariant`: `CallsSpec => []CallsInv`.

That a talked-in call is not missed is far from inductive: it needs that the caller's timer, cleared by
an answer, is never armed again, and so that no second offer of that call is anywhere.
`Threads(k)` are the places where the offering of call k can be: a promise of a phone, a frame to the
server, a handler, a letter, a push, a tap on it. A step moves the thread from one
to the next or drops it and never makes two (`Lone`, `NoTwins`). Once an offer is with the callee's phone
there is none left (`OfferEnds`), although Accept may be tapped twice and make two answers. `Regrets(k)` is
the second thread, of the news that nobody answered: the timer, its frame, its handler, the message. A call that is
talked in has none, and past the timer a caller whose phone is still in the call has not this call outgoing before
its eyes and sets no answer (`MissedOrTalked`): an answer that comes before the give-up is rendered
finds a phone in no call. What makes this hold is that the copy is exact while a phone calls and one step
behind when it connects (`CopyFollows`). Calls
not yet begun have neither (`NothingUnused`), and answers on their way were given (`AnswersAreKnown`).
Each action has a lemma that says how it moves the two threads; the proof of the step combines them.

`ChatViewProofs.tla`, from `ChatViewAssumption` (finitely many messages, `None` is no chat and no message),
for any chats, any number of messages and any bounds:

* `ChatViewTypeCorrect`: `ViewSpec => []ChatViewTypeOK`;
* `ShownAlwaysActive`: `ViewSpec => []ShownIsActive`;
* `CachesAlwaysTrue`: `ViewSpec => []CachesAreTrue`;
* `ViewInvariant`: `ViewSpec => []ViewInv`, which these three follow from;
* `BadgesCountOnce`: `ViewSpec => []BadgeCountsOnce`;
* `ViewAlwaysConverges`: `ViewSpec => []ViewConverges`.

What a cache holds is not inductive: answers, messages and edits being decrypted and the list on the
screen go into it later. `ViewInv` speaks of all of them. Wherever a chat may take a list from (`Holds`: its
memory, its disk, the screen while that shows its list) are messages of its own, none purged unless the
news is under way (`Fine`); what is under way belongs to the chat it is for, and is not purged unless it is late
(`FlightTrue`); a chat whose frame ran ahead of its statement holds nothing or is in doubt (`Ahead`).
A step of the page is proved in two halves: the new page takes its lists from the old one (`Derived`), which
says nothing of the server, and what was fine for a chat still is, which says nothing of the page. The
proof was first tried for a weaker `CachesAreTrue` and without `Disown`, and failed: a chat that is cleared while
another one is open but not yet loaded leaves its list on the screen, and an edit of it that is still being
decrypted then writes the whole old list back into the caches of the cleared chat. The run is too small for these
16 steps. The history variable `owner` now gives such a list up, so that the edit casts doubt on the
chat, and the property says which news must still be under way.

`BadgeCountsOnce` needs a count over everything on its way: a message is in a badge, unread on the server, or
on its way to a badge (a live frame, or a decryption that will raise it), and never two of these (`BadgeInv`). The
badge of a chat and what is on its way to it together never exceed the chat's messages (`BadgesFit`). A new
list of chats moves the unread rows into the badges at once (`ListedFits`), a replay takes the rows and raises
nothing, and a message that got a row and a frame is in `twice` before its frame is on its way (`TwiceFits`).

`ViewConverges` speaks of a moment when nothing is under way; its invariant, `SyncInv`, says at every
moment what makes up for the difference between the screen and the server. A mark that a message of the list
lacks is set by an item still under way (`Current`); a message that the list lacks is brought by one, with marks
that are current seen from the place of that item, or that will put the chat in doubt (`Coming`). The
same holds of the list in each answer under way, seen from its place among the frames (`Faithful`): that is
why an answer that is overtaken by a frame of its chat has to count as late. Chats that others are about to
empty are excepted until they have (`Settled`), and an answer is followed by the news that its chat was
emptied only in such a chat (`AnswersFirst`). Behind a spinner there is a request (`Spins`), so that an
open chat that is not being loaded has its own list on the screen (`ScreenHome`). A step either takes an item,
and then all places behind it move (`OneTaken`, `TakenPage`), or leaves all items in their places
(`InPlaceSync`), or takes the line down, when nothing is promised (`DownSync`), or brings it up again, after
which the open chat is being loaded or in doubt (`LineReturnsSync`).

`EnvelopeProofs.tla`, from `GroupsAssumption` and `ComposerAssumption`, for all people, founders and
bounds, begins with the group:

* `GroupAlwaysKept`: `ComposerSpec => GroupIsKept`, the refinement of `Membership`;
* `ChecksStayTrue`: `ComposerSpec => []GroupInv`, the invariant it needs.

A step refines `Membership` only if the person a request writes about is not the creator, and that was
checked one or more steps before. `GroupInv` says it is still true then: a request past its checks is
`Harmless`. It stays so because no step makes anybody the creator (`NoNewCreator`). The size limit
has no such argument: it is checked in the same way and does not hold.

Next come the operators of `E2E` alone: two people derive one key
(`ChatKeySymmetric`), each recipient opens an envelope (`EnvelopesOpen`), a prepared file and a rewrapped one open for
everybody they were wrapped for (`PreparedFits`, `RewrappedFits`, `FittingFileOpens`).

Then `EnvelopesAlwaysFit`: `ComposerSpec => []EnvelopesFit`. Keys are fetched, kept in the
window, copied into tasks, frames and requests, and a stored file is copied by a forward, so
`SealInv` follows the keys through all of these: whatever is kept under somebody's name is that
person's public key, a seal in a frame or a request was made from such keys, its recipients are the
members or are in `moved` once the check has passed, and a message that a task refers to exists. `SealsStayTrue` proves
`SealInv`; it uses the lemmas about the operators where something is sealed, prepared or rewrapped.

`KeysAlwaysCurrent`: `ComposerSpec => []KeysAreCurrent`. The property speaks of the moment when nothing
is under way. `KeysSoon` says why it holds then: either something that makes the page ask for the keys
is still to come (`Pending`: a frame or announcement about the group's members, its info, or a request that is not
served), or every answer under way is the members' keys and, without one, the window's are. A server
step that changes members or keys leaves an announcement; a page step that takes one leaves a request; an
answer read earlier is dropped, because a new request cancels the old one (`OneAsk`, the effect's
cleanup in `ChatWindow`). All other steps are `Calm` and keep it at once (`CalmKeeps`). It needs
`ComposerAssumption`'s clause that `Nil` is no person and no chat.

`ComposerProofs.tla`, under the same assumptions:

* `TextAlwaysKept`: `ComposerSpec => []TextIsKept`;
* `FilesAlwaysFollow`: `ComposerSpec => []FilesFollow`;
* `ComposerTypeCorrect`: `ComposerSpec => []ComposerTypeOK`.

`TextIsKept` is not inductive: it would allow a thought in a draft and in a frame at once, and sealing
the draft's copy would send it twice. `TextInv` says where a thought that was not dropped can be. It is at home in
one chat (`AtHome`): in its draft, in the composer while the chat is open, in a task that encrypts it;
or it is away, in one frame, one request or one message of the composer's (`Lone`); never both. A step that
leaves what is away in place has only to show that home stays home (`HomeMoves`), a change of the chat is
one lemma for the three ways to change it (`SwitchKeepsText`), and what goes from one station to the next is shown
by `GoesOn`. Most of what the page does moves no text at all (`PageMoves`). Every step that can drop a
thought notes it in `fate`, and the proof shows that there is no other. `TypesStayTrue` proves the types
it needs: only the user's own frames are from the composer, and only those are edits (`SendFits`).

Files wait for "the newest message of mine in a list that grew", and `FileInv` says why that is theirs. While
files wait (`FilesWait`) and are not excused, their message is alone on its way, in a task, a frame or a request
(`OnTheWay`), and the messages stored since are other people's, other devices' or forwarded; or it is stored
(`HasCome`): no list shows it, an answer under way that reaches so far holds it, and its frame is in the mail, before
those of later messages. A list that comes in then either ends before the message, or holds it and takes the
files for it or passes them over, which `lost` notes (`NewUploadFits`, `ListWaits`); an upload under way stays
fit (`UploadsFit`). The proof was tried when `lost` noted a list only if it grew, and failed: a reload
can bring the message in a list that does not grow, a late answer take it away again, and then another message of
the user's gets the files. The run is too small for those 26 steps; the history variable now has them.

`ClientProofs.tla`, for all users, foci and bounds, from `SocketAssumption` and `SessionAssumption`
(newcomers are users, and the value `None` is no user, key, vault or profile):

* `LockAlwaysHolds`: `ClientSpec => []LockHolds`, through `LockInv`: who was away too long left an old
  stamp, and it is not refreshed before the lock screen was passed;
* `NeverEverStranded`: `ClientSpec => []NeverStranded`, through `SockInv`: a page that does not run has no
  hook, attempts stay within their limit, and a stability timer has a socket;
* `MandatoryAlwaysHolds`: `ClientSpec => []MandatoryHolds`, through `UpdInv`: while a check runs nobody
  has been told yet or they gave up, and a mandatory update on the screen has a release, so that its
  failure can be retried but not checked away.

These three rest on one lemma about the rest of the shell: no task of the session, early or late, and
nothing a user does on the pages changes the phase of the app (`OthersKeepPhase` and the lemmas it
cites). The session has its own four:

* `VaultAlwaysOpens`: `ClientSpec => []VaultOpens`. `VaultOpens` is not inductive: a form writes a hash
  or a vault with the password it compared several awaits ago. `VaultInv` adds that two people never try
  the same new password (`PasswordsAreOwn`; a lock screen's or a form's password would otherwise be
  somebody else's), that a form which was answered and is in time has the password that signs in
  (`FormsAreCurrent`), and that a vault which does not open has its rewrap under way (`VaultsOpenSoon`);
* `LogoutAlwaysFinal`: `ClientSpec => []LogoutIsFinal`, through `LeftInv`: a registered push token is
  known to be registered, so that the logout removes it; from the last step of a logout on every task
  is late or harmless and the device is clean but for drafts and the token's copy, and after it nobody is
  signed in, started again or not;
* `KeyAlwaysOwn`: `ClientSpec => []OwnKey`, through `KeyInv`: unless sessions overlapped, every task in
  time is of the user whose token is stored, every profile is theirs, and every key on the device, in
  memory or in a task is the one in their vault. A step is either `Steady` (nobody else signs in, no
  vault gets another key), and then all of this is kept at once, or one of the few that are not;
* `ClientTypeCorrect`: `ClientSpec => []ClientTypeOK`. `TypesHold` is needed by all of them: it also says
  which step, key and vault a task of each kind can have (`Fits`).

What the tasks have in common is proved once: a lemma per step of a task names the tasks that go on, end
or become late (`FormsMove`, `ChangeMoves`, `TasksEvolve`), and the invariants are proved from these.

The inductive invariants of `Connections`, `PresenceFanout`, `Delivery`, `Messages` and `Calls`, and
`TextInv` and `FileInv`, were checked by TLC on the instances of the runs before they were proved.

Every invariant and every action property that a passing run checks is a theorem. Left to TLC is liveness
(`LostUsersGoOffline`, `QueueDrains`), which the prover does not reach. No module declares a
`RECURSIVE` operator.

## 6. Disagreements between code and comments

* `missed_call`: the comment on `PostCallSystemMessage` says a missed call is queued for the
  replay. The replay skips it, since it is not scheme 2 (`websocket.go:917`), then deletes its row.
  The user sees it only on opening the chat.
* `peer_told`: the comment on `notifyCallPeerOnDisconnect` says the peer is sent a hangup. An
  offer to a busy user overwrites the entry of the running call, the automatic reject deletes it,
  and the peer of the running call is then told nothing.
* `teardown`: the same comment says checking under the lock avoids the race between check and
  use. The lock is released before the call table is changed; a user who is back gets the call
  ended.
* `deleted_is_wiped`: the comment on `DeleteMessage` says it wipes the content. An edit checked
  before the deletion writes after it, because `UpdateMessage` and `replaceEnvelopes` do not ask
  again, and the deleted row holds text or envelopes.

Two limits are softer than their messages say, which the modules state without a run:
`ConnectionLimit` (checked before the upgrade) and `PinLimit` (counted before the transaction,
`pin_service.go:84`); what passes is bounded by simultaneous requests. The limit of a group's size
(`group_service.go:229`) is of the same kind.

Where a comment and the code part without a run of its own, the models have the code and a history
variable that excuses the outcome: the keys of a group are said to be recomputed when its members
change, but `setStatusIfChanged` keeps old keys behind a status that stays ready (`ChatWindow.tsx:248`
and `:264`; `doubt` "kept"); a logout is said to keep the key from the next user, but the key in memory of
`AccountKeyProvider` stays (`useAuth.ts:89`; `mixed`); it scrubs the user's cached state, but not the
drafts (`useAuth.ts:78`; `LogoutIsFinal` does not claim it), and does not wait for the token's copy
(`httpClient.ts:60`; `mixed`); the mandatory screen is said to have no dismiss
button, but its error state has one (`UpdateMandatoryScreen.tsx:10`; `gaveUp`); a retry of a failed vault
rewrap is promised and offered nowhere (`ChangePasswordForm.tsx:42`; `torn`).

## 7. Not modelled

Of the modelled parts: ping writes and the frame rate limit (they refuse or delay frames), time
stamps, typing indicators, the loop over the members in a group's fan-out, `message_status` frames to
the author, ICE candidates and media, several phones of one user, server restarts (all modelled server
state is then gone and clients reload), requests with several files, reply references. Of the chats
page: the order of a list, its cut to fifty messages on disk, pins, and its remount after the lock or
update screen replaced it. Of the composer: search, selection, emoji, the flag `sending` (a disabled
button that the Enter key goes around), the notice of typing. Of groups: names, avatars, system
messages, and a change to the role somebody has already. Of the session: the pages' switching between
sign-in and registration while a form is under way, the replacement of an account's key, the backfill of
a missing public key, web push subscriptions. Of the lock and the socket: the lengths of time-outs and
delays. The lock's settings and stamp have a copy in the native preferences too (`appLock.ts:50`), which is not
awaited either; `AppLock` takes both for one store, so a kill before the copy follows is not in it.

Of the rest: sending and dismissing pushes (best effort, no promise to check), contacts and profiles
(single rows, no requests that interact), validators (pure functions with unit tests), presentation
(rendering), cryptographic primitives (data transformations), start-up and shutdown, native shells and
deployment (platform glue).

## 8. What comes next

* An abstract specification over `Messages` (a message is whole or wiped, in one step), and one of
  presence (online means a counted connection) under no eviction.
* The window of `Composer` on top of the lists of `ChatView` instead of its summary of them.
