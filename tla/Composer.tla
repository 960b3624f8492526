------------------------------ MODULE Composer -------------------------------
(***************************************************************************)
(* Writing messages (features/chats/ChatWindow.tsx, MessageComposer.tsx,   *)
(* GroupInfoPanel.tsx, shared/crypto/peerKeys.ts) in two chats of one      *)
(* user, a group and a direct chat: the text and the files in the          *)
(* composer, the drafts, whether encryption is ready, and the way of each  *)
(* message through encryption, socket and server.                          *)
(*                                                                         *)
(* A text is a set of thoughts, each typed once.  Answers and frames come  *)
(* in with delay; a task goes on after a change of the open chat, with the *)
(* values it began with.  The list is what ChatView says of it, without    *)
(* deletions and decryption; the flag `sending' only disables a button     *)
(* that the Enter key goes around, so it is left out.                      *)
(***************************************************************************)
EXTENDS Groups

CONSTANTS
    Me,         \* the user whose window it is
    Peer,       \* the other user of the direct chat
    Nil,        \* nothing
    MaxThoughts,\* bound: thoughts typed
    MaxFiles,   \* bound: picks of files
    Focuses     \* bound: what people and networks do in one behaviour, and how often

Chats == {"group", "direct"}

ASSUME ComposerAssumption ==
    /\ Me \in Founders /\ Peer \in People \ {Me}
    /\ Me \in Keyed
    /\ Nil \notin People \cup Chats
    /\ MaxThoughts \in Nat /\ MaxFiles \in Nat
    /\ \A f \in Focuses : /\ f.on \subseteq {"members", "text", "files", "others", "breaks"}
                          /\ f.moves \in Nat /\ f.thoughts \in 0..MaxThoughts

VARIABLES
    log,        \* the messages ever stored in each chat, in order
    win,        \* the state of ChatWindow and of the list given to it
    drafts,     \* the drafts on disk
    peerKey,    \* the key cache of peerKeys.ts: the peer's key or Nil
    jobs,       \* asynchronous functions of the page under way
    mail,       \* frames under way to the page
    line,       \* frames under way from the page, and whether the socket is open
    made,       \* thoughts and picks of files made so far, and moves
    focus,      \* one of Focuses
    fate,       \* history: what became of a thought other than being sent
    lost        \* history: picks of files that lost their message or were sent behind another

chatvars == <<log, win, drafts, peerKey, jobs, mail, line, made, focus, fate, lost>>
composervars == <<groupvars, chatvars>>

Thoughts == 1..MaxThoughts
Pair == {Me, Peer}
PeopleOf(c) == IF c = "group" THEN Members ELSE Pair

Moved(m) == [m EXCEPT !.moves = @ + 1]
Move == made.moves < focus.moves /\ made' = Moved(made)
Has(part) == part \in focus.on
Break == Has("breaks") /\ Move

\* An asynchronous call that only asks for something; data: its answer, Nil before.
Job(kind, chat) == [kind |-> kind, chat |-> chat, data |-> Nil]
LoadJob(c, mem) == [kind |-> "load", chat |-> c, data |-> Nil, cached |-> mem[c] # Nil]
Asking(kind) == {j \in jobs : j.kind = kind /\ j.data = Nil}
Without(kinds, J) == {j \in J : j.kind \notin kinds}

\* A frame for the members in S reaches the page while its socket is open.
Told(S, kind, c, no) ==
    IF line.up /\ Me \in S THEN Append(mail, [kind |-> kind, chat |-> c, no |-> no]) ELSE mail

\* mem: the cached lists, in memory and on disk.  doubt: history, why the keys may be old.
Closed == [chat |-> Nil, text |-> {}, edit |-> 0, files |-> 0, pending |-> Nil,
           uploading |-> FALSE, status |-> "loading", keys |-> Nil,
           list |-> <<>>, mem |-> [c \in Chats |-> Nil], doubt |-> {}]
Doubted(what) == IF win.chat = "group" THEN [win EXCEPT !.doubt = @ \cup {what}] ELSE win

Fated(S, what) == [t \in Thoughts |-> IF t \in S THEN fate[t] \cup {what} ELSE fate[t]]

ComposerInit ==
    /\ GroupsInit
    /\ log = [c \in Chats |-> <<>>]
    /\ win = Closed
    /\ drafts = [c \in Chats |-> {}]
    /\ peerKey = Nil
    /\ jobs = {}
    /\ mail = <<>>
    /\ line = [up |-> TRUE, sent |-> <<>>]
    /\ made = [thoughts |-> 0, files |-> 0, moves |-> 0]
    /\ focus \in Focuses
    /\ fate = [t \in Thoughts |-> {}]
    /\ lost = {}

(***************************************************************************)
(* The list, a sequence of chats and message numbers, and the effect that  *)
(* runs when it grows                                                      *)
(***************************************************************************)
Message(e) == log[e[1]][e[2]]
Stored(c) == [i \in DOMAIN log[c] |-> <<c, i>>]

\* The newest message takes the files that wait.
Takes(list) ==
    /\ Len(list) > Len(win.list) /\ win.pending # Nil
    /\ LET e == list[Len(list)] IN Message(e).by = Me /\ e[1] = win.pending.chat

\* Mutant: the files that were taken are not forgotten.
WaitsForever(list) == win.pending

StillWaits(list) == IF Takes(list) THEN Nil ELSE win.pending

\* History: the message of the files that wait came in, but not as the newest of a list that
\* grew.
PassedOver(list) ==
    IF win.pending = Nil THEN {}
    ELSE {b \in {win.pending.files} : \E i \in DOMAIN list :
             Message(list[i]).batch = b /\ ~(Takes(list) /\ i = Len(list))}

Recipients(c) == IF c = "group" THEN win.keys ELSE [r \in Pair |-> PublicKey(r)]
Upload(e) == [kind |-> "upload", chat |-> e[1], no |-> e[2], files |-> win.pending.files,
              since |-> win.pending.since, to |-> Recipients(e[1])]

\* setMessages and what the effect does: uploading fails while encryption is not ready.
ListBecomes(mem, list, J) ==
    LET uploads == Takes(list) /\ win.status = "ready" IN
    /\ win' = [win EXCEPT !.list = list, !.mem = mem, !.pending = StillWaits(list),
                          !.uploading = @ \/ uploads]
    /\ jobs' = J \cup (IF uploads THEN {Upload(list[Len(list)])} ELSE {})
    /\ lost' = lost \cup PassedOver(list)

\* loadMessages: the cached list at once, then the answer.
StartLoad(c, J) ==
    LET K == J \cup {LoadJob(c, win.mem)} IN
    IF win.mem[c] = Nil THEN jobs' = K /\ UNCHANGED <<win, lost>>
    ELSE ListBecomes(win.mem, win.mem[c], K)

(***************************************************************************)
(* Entering and leaving a chat                                             *)
(***************************************************************************)
\* The effect that finds out whether encryption is ready; its cleanup cancels the one before.
KeyJobs(c) ==
    IF c = "group" THEN {Job("keys", c)}
    ELSE IF c = "direct" /\ peerKey = Nil THEN {Job("peer", c)} ELSE {}
Rechecked(c, J) == Without({"keys"}, J) \cup KeyJobs(c)

OnEntry(c, J, mem) ==
    Rechecked(c, J) \cup (IF c = Nil THEN {} ELSE {LoadJob(c, mem)})
                    \cup (IF c = "group" THEN {Job("info", c)} ELSE {})

\* The text of the chat one leaves becomes its draft; a draft that is read becomes the text.
Persisted(D) == [D EXCEPT ![win.chat] = win.text]
Saved(D) == IF win.chat = Nil THEN D ELSE Persisted(D)
Reread(D) == [win EXCEPT !.text = D[win.chat]]

\* A change of chatId: the old text is saved, the rest is reset, the new draft is read.
Switch(c, J, D, mem) ==
    /\ drafts' = Saved(D)
    /\ win' = [Closed EXCEPT
          !.chat = c, !.text = IF c = Nil THEN {} ELSE drafts'[c],
          !.uploading = win.uploading,
          !.status = IF c = "direct" /\ peerKey # Nil THEN "ready" ELSE "loading",
          !.mem = mem,
          !.list = IF c = Nil THEN <<>> ELSE IF mem[c] = Nil THEN win.list ELSE mem[c]]
    /\ jobs' = OnEntry(c, J, mem)

OpenChat(c) ==
    /\ c # win.chat
    /\ IF win.chat = Nil THEN UNCHANGED made ELSE Move
    /\ Switch(c, jobs, drafts, win.mem)
    /\ UNCHANGED <<groupvars, log, peerKey, mail, line, fate, lost>>

\* The open chat is gone; the list of the group is dropped from the caches.
CloseChat(J) == Switch(Nil, J, drafts, [win.mem EXCEPT !["group"] = Nil])

(***************************************************************************)
(* What the user does in the composer                                      *)
(***************************************************************************)
Enabled == win.chat # Nil /\ win.status = "ready" /\ ~win.uploading

Type ==
    /\ Enabled /\ made.thoughts < focus.thoughts
    /\ made' = [made EXCEPT !.thoughts = @ + 1]
    /\ win' = [win EXCEPT !.text = @ \cup {made.thoughts + 1}]
    /\ UNCHANGED <<groupvars, log, drafts, peerKey, jobs, mail, line, fate, lost>>

SelectFiles ==
    /\ Has("files") /\ Enabled /\ win.files = 0 /\ made.files < MaxFiles
    /\ made' = [made EXCEPT !.files = @ + 1]
    /\ win' = [win EXCEPT !.files = made.files + 1]
    /\ UNCHANGED <<groupvars, log, drafts, peerKey, jobs, mail, line, fate, lost>>

RemoveFiles ==
    /\ Has("files") /\ win.files # 0 /\ Move
    /\ win' = [win EXCEPT !.files = 0]
    /\ UNCHANGED <<groupvars, log, drafts, peerKey, jobs, mail, line, fate, lost>>

\* 400 ms after the last key, or when the page is hidden.
PersistDraft ==
    /\ win.chat # Nil /\ drafts[win.chat] # win.text
    /\ drafts' = Persisted(drafts)
    /\ UNCHANGED <<groupvars, log, win, peerKey, jobs, mail, line, made, fate, lost>>

\* Replying and cancelling empty the composer; editing puts the message's text there.
Reply ==
    /\ Has("text") /\ win.chat # Nil /\ Move
    /\ win' = [win EXCEPT !.edit = 0, !.text = {}]
    /\ fate' = Fated(win.text, "dropped")
    /\ UNCHANGED <<groupvars, log, drafts, peerKey, jobs, mail, line, lost>>

Edit(e) ==
    /\ Has("text") /\ e[1] = win.chat /\ Message(e).by = Me /\ Move
    /\ win' = [win EXCEPT !.edit = e[2], !.text = Message(e).text]
    /\ fate' = Fated(win.text \cup Message(e).text, "edited")
    /\ UNCHANGED <<groupvars, log, drafts, peerKey, jobs, mail, line, lost>>

\* handleShareToChat appends to the draft; the open chat reads its draft again, another opens.
Share(c) ==
    LET t == made.thoughts + 1
        D == [drafts EXCEPT ![c] = @ \cup {t}]
    IN  /\ Has("text") /\ t <= focus.thoughts /\ made.moves < focus.moves
        /\ made' = Moved([made EXCEPT !.thoughts = t])
        /\ \/ /\ win.chat = c
              /\ drafts' = D /\ win' = Reread(D)
              /\ fate' = Fated(win.text \ D[c], "dropped")
              /\ UNCHANGED jobs
           \/ win.chat # c /\ Switch(c, jobs, D, win.mem) /\ UNCHANGED fate
        /\ UNCHANGED <<groupvars, log, peerKey, mail, line, lost>>

\* handleSubmit up to its encryption: the chat, the text and the keys of this moment go
\* along, and the files wait for the message to come in.
SealJob == [kind |-> "seal", chat |-> win.chat, text |-> win.text, files |-> win.files,
            edit |-> win.edit, to |-> Recipients(win.chat)]

\* Whether another message from here is under way.
Behind == \/ \E j \in jobs : j.kind = "seal"
          \/ line.sent # <<>>
          \/ \E r \in reqs : r.kind = "send" /\ r.frame.via = "composer"

Submit ==
    /\ Enabled /\ line.up /\ (win.text # {} \/ win.files # 0)
    /\ SealJob \notin jobs
    /\ jobs' = jobs \cup {SealJob}
    /\ win' = IF win.edit # 0 \/ win.files = 0 THEN win
              ELSE [win EXCEPT !.pending = [chat |-> win.chat, files |-> win.files,
                                            since |-> Len(log[win.chat])]]
    /\ fate' = Fated({t \in win.text : \E j \in jobs : j.kind = "seal" /\ t \in j.text}, "again")
    /\ lost' = lost \cup IF ~Behind THEN {}
                         ELSE ({win.files} \ {0}) \cup IF win.pending = Nil THEN {} ELSE {win.pending.files}
    /\ UNCHANGED <<groupvars, log, drafts, peerKey, mail, line, made>>

SealFor(c, text, to) ==
    IF c = "group" THEN EncryptForGroup(text, to, Me)
    ELSE [r \in Pair |-> Encrypt(text, GetChatKey(Me, Peer))]
Frame(j) == [chat |-> j.chat, no |-> j.edit, text |-> j.text, via |-> "composer",
             batch |-> IF j.edit = 0 THEN j.files ELSE 0,
             seal |-> SealFor(j.chat, j.text, j.to), copies |-> <<>>]

\* Mutant: the draft stays.
DraftStays(c) == drafts

DraftGone(c) == [drafts EXCEPT ![c] = {}]

\* The rest of handleSubmit, whatever chat is open by then: the composer and the draft are
\* emptied once the frame is handed to the socket.
Sealed(j) ==
    /\ j.kind = "seal" /\ line.up
    /\ line' = [line EXCEPT !.sent = Append(@, Frame(j))]
    /\ win' = [win EXCEPT !.text = {}, !.edit = IF j.edit = 0 THEN @ ELSE 0,
                          !.files = IF j.edit = 0 THEN 0 ELSE @]
    /\ drafts' = DraftGone(j.chat)
    /\ fate' = Fated((win.text \cup drafts[j.chat]) \ j.text, "cleared")
    /\ jobs' = jobs \ {j}
    /\ UNCHANGED <<groupvars, log, peerKey, mail, made, lost>>

\* The socket is closed, or encrypting fails.
NotSealed(j) ==
    /\ j.kind = "seal"
    /\ IF line.up THEN Break ELSE UNCHANGED made
    /\ win' = IF j.edit = 0 THEN [win EXCEPT !.pending = Nil] ELSE win
    /\ jobs' = jobs \ {j}
    /\ UNCHANGED <<groupvars, log, drafts, peerKey, mail, line, fate, lost>>

UserStep ==
    \/ \E c \in Chats : OpenChat(c) \/ Share(c)
    \/ Type \/ SelectFiles \/ RemoveFiles \/ PersistDraft \/ Reply \/ Submit
    \/ \E i \in DOMAIN win.list : Edit(win.list[i])
    \/ \E j \in jobs : Sealed(j) \/ NotSealed(j)

(***************************************************************************)
(* The server: a message is checked, then stored                           *)
(***************************************************************************)
\* validateGroupEnvelopes: one envelope for each member and nobody else.
Permitted(f) == f.chat = "direct" \/ (Me \in Members /\ DOMAIN f.seal = Members)

Sending(via) == {r \in reqs : r.kind = "send" /\ r.frame.via = via}
SendRequest(f, step) == [kind |-> "send", by |-> Me, of |-> Me, step |-> step,
                         moved |-> {}, frame |-> f]

\* An error frame is all the page gets, and it ignores it; the files go on waiting.
Refused(f) ==
    /\ fate' = IF f.via = "composer" THEN Fated(f.text, "refused") ELSE fate
    /\ lost' = lost \cup ({f.batch} \ {0})

\* The socket's frames are read one after the other.
CheckSend ==
    LET f == Head(line.sent) IN
    /\ line.sent # <<>> /\ Sending("composer") = {}
    /\ line' = [line EXCEPT !.sent = Tail(@)]
    /\ IF Permitted(f) THEN reqs' = reqs \cup {SendRequest(f, "store")} /\ UNCHANGED <<fate, lost>>
       ELSE Refused(f) /\ UNCHANGED reqs
    /\ UNCHANGED <<there, role, keyed, log, win, drafts, peerKey, jobs, mail, made>>

\* ForwardMessageAPI runs the same checks.
CheckForward(r) ==
    /\ r \in Sending("forward") /\ r.step = "check"
    /\ reqs' = (reqs \ {r}) \cup IF Permitted(r.frame) THEN {[r EXCEPT !.step = "store"]} ELSE {}
    /\ UNCHANGED <<there, role, keyed, log, win, drafts, peerKey, jobs, mail, line, made,
                   fate, lost>>

\* Files of a forwarded message are copied when their envelopes fit its chat.
Copied(f) == [b \in {x \in DOMAIN f.copies : DOMAIN f.copies[x].envelopes = PeopleOf(f.chat)} |->
                [file |-> f.copies[b], since |-> 0]]
Stores(by, via, text, seal, batch, files, c, moved) ==
    [by |-> by, via |-> via, text |-> text, seal |-> seal, at |-> PeopleOf(c), moved |-> moved,
     batch |-> batch, files |-> files]

\* persistGroupMessage looks at the sender's membership again, not at the envelopes.
StoreNew(r) ==
    LET f == r.frame IN
    /\ r.kind = "send" /\ r.step = "store" /\ r.frame.no = 0
    /\ reqs' = reqs \ {r}
    /\ IF Me \in PeopleOf(f.chat)
       THEN /\ log' = [log EXCEPT ![f.chat] = Append(@,
                    Stores(Me, f.via, f.text, f.seal, f.batch, Copied(f), f.chat, r.moved))]
            /\ mail' = Told(PeopleOf(f.chat), "new", f.chat, Len(log'[f.chat]))
            /\ UNCHANGED <<fate, lost>>
       ELSE Refused(f) /\ UNCHANGED <<log, mail>>
    /\ UNCHANGED <<there, role, keyed, win, drafts, peerKey, jobs, line, made>>

\* replaceEnvelopes looks at nothing again; the edit frame changes no more than a text.
StoreEdit(r) ==
    LET f == r.frame IN
    /\ r.kind = "send" /\ r.step = "store" /\ r.frame.no # 0
    /\ reqs' = reqs \ {r}
    /\ log' = [log EXCEPT ![f.chat][f.no].text = f.text, ![f.chat][f.no].seal = f.seal,
                          ![f.chat][f.no].at = PeopleOf(f.chat), ![f.chat][f.no].moved = r.moved]
    /\ fate' = Fated(Message(<<f.chat, f.no>>).text \ f.text, "edited")
    /\ UNCHANGED <<there, role, keyed, win, drafts, peerKey, jobs, mail, line, made, lost>>

StoreFails(r) ==
    /\ r.kind = "send" /\ r.step = "store" /\ Break
    /\ reqs' = reqs \ {r}
    /\ Refused(r.frame)
    /\ UNCHANGED <<there, role, keyed, log, win, drafts, peerKey, jobs, mail, line>>

\* Another member's client, or another device of the user: its keys are those of now.
Post(u, c) ==
    /\ Has("others") /\ u \in PeopleOf(c) /\ PeopleOf(c) \subseteq keyed /\ Move
    /\ log' = [log EXCEPT ![c] = Append(@,
         Stores(u, "other", {}, IF c = "group" THEN EncryptForGroup({}, GroupKeys, u)
                                ELSE SealFor(c, {}, {}), 0, <<>>, c, {}))]
    /\ mail' = Told(PeopleOf(c), "new", c, Len(log'[c]))
    /\ UNCHANGED <<groupvars, win, drafts, peerKey, jobs, line, fate, lost>>

(***************************************************************************)
(* The group: its requests, their frames, and the answers to the user's    *)
(* own, which the panel of the open group asked for                        *)
(***************************************************************************)
\* Who asks is offered it, but for the creator as a member to remove.
FromPanel(u) == u \in Members /\ (u = Me => win.chat = "group")
Answered(r, kind) == jobs' = jobs \cup IF r.by = Me THEN {Job(kind, "group")} ELSE {}

\* History: the members change although nothing will make the page ask for keys again.
NoneTold == ~\E i \in DOMAIN mail : mail[i].kind = "members"
Unheard == NoneTold /\ Asking("info") = {} /\ Asking("keys") = {}
UnlessHeard == win' = IF Unheard /\ role' # role THEN Doubted("missed") ELSE win

PageKeeps == UNCHANGED <<log, drafts, peerKey, line, fate, lost>>

GroupAsked ==
    /\ \/ \E a, u \in People : FromPanel(a) /\ CheckAdd(a, u) /\ mail' = mail
       \/ \E a, u \in People : FromPanel(a) /\ IsAdmin(a) /\ u \in Members /\ AnnounceRemoval(a, u)
                               /\ mail' = Told(Members, "members", "group", 0)
       \/ \E u \in People : FromPanel(u) /\ ~IsCreator(u) /\ AnnounceLeave(u)
                            /\ mail' = Told(Members, "members", "group", 0)
       \/ \E a \in People : FromPanel(a) /\ IsCreator(a) /\ AnnounceDeletion(a)
                            /\ mail' = Told(Members, "gone", "group", 0)
       \/ \E a, u \in People, new \in {"admin", "member"} :
             FromPanel(a) /\ CheckRole(a, u, new) /\ mail' = mail
    /\ Has("members") /\ Move
    /\ PageKeeps /\ UNCHANGED <<win, jobs>>

\* The frame of an addition, unless nobody was added, or of a new role follows it.
GroupDone(r) ==
    /\ \/ /\ WriteAdd(r) \/ WriteRole(r)
          /\ mail' = IF r.kind = "add" /\ role' = role THEN mail
                     ELSE Told(Members', "members", "group", 0)
          /\ win' = IF line.up \/ role' = role THEN win ELSE Doubted("missed")
          /\ Answered(r, "updated")
       \/ /\ WriteRemoval(r)
          /\ UnlessHeard /\ UNCHANGED mail
          /\ Answered(r, IF r.kind = "leave" THEN "closed" ELSE "updated")
       \/ /\ Purge(r)
          /\ UNCHANGED <<win, mail>>
          /\ Answered(r, "closed")
    /\ PageKeeps /\ UNCHANGED made

GroupRefused(r) ==
    /\ \/ CheckAnnounced(r) /\ UNCHANGED made
       \/ RequestFails(r) /\ Break
    /\ PageKeeps /\ UNCHANGED <<win, jobs, mail>>

SomebodyOnboards(u) ==
    /\ Has("members") /\ Onboard(u) /\ Move
    /\ win' = Doubted("onboarded")
    /\ PageKeeps /\ UNCHANGED <<jobs, mail>>

(***************************************************************************)
(* The page: frames                                                        *)
(***************************************************************************)
TakeFrame ==
    LET x == Head(mail) IN
    /\ mail # <<>> /\ mail' = Tail(mail)
    /\ \/ x.kind = "members" /\ win.chat = "group"
          /\ StartLoad("group", jobs \cup {Job("info", "group")})
          /\ UNCHANGED drafts
       \/ x.kind = "gone" /\ win.chat = "group" /\ CloseChat(jobs) /\ UNCHANGED lost
       \/ x.kind = "gone" /\ win.chat # "group"
          /\ win' = [win EXCEPT !.mem["group"] = Nil] /\ UNCHANGED <<jobs, lost, drafts>>
       \/ x.kind = "new" /\ win.chat = x.chat
          /\ LET e == <<x.chat, x.no>>
                 list == IF \E i \in DOMAIN win.list : win.list[i] = e THEN win.list
                         ELSE Append(win.list, e)
             IN  ListBecomes([win.mem EXCEPT ![x.chat] = list], list, jobs)
          /\ UNCHANGED drafts
       \/ x.kind \in {"new", "members"} /\ win.chat # x.chat
          /\ UNCHANGED <<win, jobs, lost, drafts>>
    /\ UNCHANGED <<groupvars, log, peerKey, line, made, fate>>

(***************************************************************************)
(* The page: answers                                                       *)
(***************************************************************************)
MayRead(c) == Me \in PeopleOf(c)
Keeps == UNCHANGED <<groupvars, log, drafts, peerKey, mail, line, fate>>

\* The server answers a request for keys or messages; the page gets it later.  Bound: the
\* delay of messages matters for files only.
Serve(j) ==
    /\ j.kind = "keys" \/ (j.kind = "load" /\ Has("files"))
    /\ j.data = Nil /\ MayRead(j.chat)
    /\ jobs' = (jobs \ {j}) \cup {[j EXCEPT !.data = IF j.kind = "keys" THEN GroupKeys
                                                     ELSE Stored(j.chat)]}
    /\ Keeps /\ UNCHANGED <<win, made, lost>>

\* The request is refused, or fails.
Fails(j) == j.data = Nil /\ IF MayRead(j.chat) THEN Break ELSE UNCHANGED made

\* setStatusIfChanged: a status that was ready stays as it is, its keys included.
KeysCome(j) ==
    /\ j.kind = "keys" /\ j.data # Nil
    /\ win' = CASE ~AllKeyed(j.data) -> [win EXCEPT !.status = "not-ready", !.keys = Nil]
                [] AllKeyed(j.data) /\ win.status # "ready" ->
                     [win EXCEPT !.status = "ready", !.keys = j.data]
                [] OTHER -> IF j.data = win.keys THEN win ELSE Doubted("kept")
    /\ jobs' = jobs \ {j}
    /\ Keeps /\ UNCHANGED <<made, lost>>

\* Mutant: the old keys stay behind the status.
KeysFailKeepingKeys(j) ==
    /\ j.kind = "keys" /\ Fails(j)
    /\ win' = [Doubted("failed") EXCEPT !.status = "loading"]
    /\ jobs' = jobs \ {j}
    /\ Keeps /\ UNCHANGED lost

KeysFail(j) ==
    /\ j.kind = "keys" /\ Fails(j)
    /\ win' = [Doubted("failed") EXCEPT !.status = "loading", !.keys = Nil]
    /\ jobs' = jobs \ {j}
    /\ Keeps /\ UNCHANGED lost

\* getPeerPublicKey remembers a key, never that there is none; a failure reads as none.
PeerComes(j) ==
    /\ j.kind = "peer"
    /\ \/ Peer \in keyed /\ peerKey' = Peer /\ UNCHANGED made
       \/ Peer \notin keyed /\ UNCHANGED <<peerKey, made>>
       \/ Peer \in keyed /\ Break /\ UNCHANGED peerKey
    /\ win' = IF win.chat = "direct"
              THEN [win EXCEPT !.status = IF peerKey' = Nil THEN "not-ready" ELSE "ready"] ELSE win
    /\ jobs' = jobs \ {j}
    /\ UNCHANGED <<groupvars, log, drafts, mail, line, fate, lost>>

\* Mutant: new group information does not make the page ask for keys again.
InfoOnly(J) == J

\* A new groupInfo restarts the effect of whatever chat is open.
InfoNews(J) == Rechecked(win.chat, J)

InfoComes(j) ==
    /\ j.kind = "info"
    /\ \/ MayRead("group") /\ jobs' = InfoNews(jobs \ {j}) /\ UNCHANGED <<win, made>>
       \/ Fails(j) /\ jobs' = jobs \ {j} /\ win' = Doubted("failed")
    /\ Keeps /\ UNCHANGED lost

\* The answer of loadMessages goes to the screen whatever chat is open.
LoadComes(j) ==
    LET list == IF j.data = Nil THEN Stored(j.chat) ELSE j.data IN
    /\ j.kind = "load"
    /\ j.data # Nil \/ (MayRead(j.chat) /\ ~Has("files"))
    /\ ListBecomes([win.mem EXCEPT ![j.chat] = list], list, jobs \ {j})
    /\ Keeps /\ UNCHANGED made

LoadFails(j) ==
    /\ j.kind = "load" /\ Fails(j)
    /\ IF j.cached THEN jobs' = jobs \ {j} /\ UNCHANGED <<win, lost>>
       ELSE ListBecomes(win.mem, <<>>, jobs \ {j})
    /\ Keeps

\* handleGroupUpdated, handleGroupLeft and handleGroupDeleted of the group the panel was for.
PanelComes(j) ==
    /\ \/ j.kind = "updated" /\ StartLoad("group", (jobs \ {j}) \cup {Job("info", "group")})
          /\ UNCHANGED drafts
       \/ j.kind = "closed" /\ CloseChat(jobs \ {j}) /\ UNCHANGED lost
    /\ UNCHANGED <<groupvars, log, peerKey, mail, line, made, fate>>

\* UploadAttachments wants the author's own message and an envelope for each member.
Accepted(j) == Message(<<j.chat, j.no>>).by = Me /\ DOMAIN j.to = PeopleOf(j.chat)

\* The rest of doUpload.
UploadEnds(j) ==
    LET m == Message(<<j.chat, j.no>>)
        file == [file |-> PrepareAttachment(j.files, j.to, Me), since |-> j.since]
    IN  /\ j.kind = "upload"
        /\ \/ /\ Accepted(j) /\ UNCHANGED made
              /\ log' = [log EXCEPT ![j.chat][j.no].files =
                    [b \in DOMAIN m.files \cup {j.files} |-> IF b = j.files THEN file ELSE m.files[b]]]
           \/ ~Accepted(j) /\ UNCHANGED <<made, log>>
           \/ Break /\ UNCHANGED log
        /\ win' = [win EXCEPT !.uploading = FALSE]
        /\ jobs' = jobs \ {j}
        /\ UNCHANGED <<groupvars, drafts, peerKey, mail, line, fate, lost>>

\* handleForwardToChat: the shown message, encrypted for the keys of the other chat.
Forward(e, c) ==
    /\ Has("others") /\ win.chat # Nil /\ Move
    /\ \A j \in jobs : j.kind # "forward"
    /\ jobs' = jobs \cup {[kind |-> "forward", chat |-> c, of |-> e]}
    /\ Keeps /\ UNCHANGED <<win, lost>>

Forwarded(m, c, to) ==
    [chat |-> c, no |-> 0, text |-> m.text, via |-> "forward", batch |-> 0,
     seal |-> SealFor(c, m.text, to),
     copies |-> [b \in {x \in DOMAIN m.files : Me \in DOMAIN m.files[x].file.envelopes} |->
                   Rewrap(m.files[b].file, Me, ChatKey(Me, PublicKey(m.by)), to, Me)]]

ForwardSent(j) ==
    LET to == IF j.chat = "group" THEN GroupKeys ELSE [r \in Pair |-> PublishedKey(r)] IN
    /\ j.kind = "forward"
    /\ reqs' = reqs \cup IF Me \in DOMAIN to /\ AllKeyed(to)
                         THEN {SendRequest(Forwarded(Message(j.of), j.chat, to), "check")} ELSE {}
    /\ jobs' = jobs \ {j}
    /\ UNCHANGED <<there, role, keyed, log, win, drafts, peerKey, mail, line, made,
                   fate, lost>>

(***************************************************************************)
(* The line and the page break                                             *)
(***************************************************************************)
\* The socket breaks: frames for the page are lost, and those from it but for the first n.
Cut(n) ==
    LET cut == {line.sent[i] : i \in (n + 1)..Len(line.sent)} IN
    /\ line.up /\ Break
    /\ line' = [up |-> FALSE, sent |-> SubSeq(line.sent, 1, n)]
    /\ mail' = <<>>
    /\ win' = IF NoneTold THEN win ELSE Doubted("missed")
    /\ fate' = Fated(UNION {f.text : f \in cut}, "cut")
    /\ lost' = lost \cup ({f.batch : f \in cut} \ {0})
                    \cup IF win.pending = Nil THEN {} ELSE {win.pending.files}
    /\ UNCHANGED <<groupvars, log, drafts, peerKey, jobs>>

\* Reconnected: the messages of the open chat are loaded again, its members are not.
Return ==
    /\ ~line.up /\ line' = [line EXCEPT !.up = TRUE]
    /\ IF win.chat = Nil THEN UNCHANGED <<win, jobs, lost>> ELSE StartLoad(win.chat, jobs)
    /\ UNCHANGED <<groupvars, log, drafts, peerKey, mail, made, fate>>

\* The page dies with what it has in memory.
Die ==
    /\ win.chat # Nil /\ Break
    /\ win' = [Closed EXCEPT !.mem = win.mem]
    /\ jobs' = {} /\ peerKey' = Nil /\ mail' = <<>>
    /\ line' = [line EXCEPT !.up = FALSE]
    /\ fate' = Fated(win.text \cup UNION {j.text : j \in {k \in jobs : k.kind = "seal"}}, "killed")
    /\ UNCHANGED <<groupvars, log, drafts, lost>>

ServerStep ==
    \/ CheckSend \/ GroupAsked
    \/ \E r \in reqs : \/ CheckForward(r) \/ StoreNew(r) \/ StoreEdit(r) \/ StoreFails(r)
                       \/ GroupDone(r) \/ GroupRefused(r)
    \/ \E u \in People : SomebodyOnboards(u) \/ \E c \in Chats : Post(u, c)

PageStep ==
    \/ TakeFrame
    \/ \E j \in jobs : \/ Serve(j) \/ KeysCome(j) \/ KeysFail(j) \/ PeerComes(j) \/ InfoComes(j)
                       \/ LoadComes(j) \/ LoadFails(j) \/ PanelComes(j) \/ UploadEnds(j)
                       \/ ForwardSent(j)
    \/ \E i \in DOMAIN win.list, c \in Chats : Forward(win.list[i], c)
    \/ \E n \in 0..Len(line.sent) : Cut(n)
    \/ Return \/ Die

ComposerNext == (UserStep \/ ServerStep \/ PageStep) /\ UNCHANGED focus
ComposerSpec == ComposerInit /\ [][ComposerNext]_composervars

(***************************************************************************)
(* Properties                                                              *)
(***************************************************************************)
\* Type invariant.
ComposerTypeOK ==
    /\ GroupTypes
    /\ win.chat \in Chats \cup {Nil} /\ win.status \in {"loading", "ready", "not-ready"}
    /\ win.text \subseteq Thoughts /\ win.files \in 0..MaxFiles
    /\ win.doubt \subseteq {"missed", "onboarded", "failed", "kept"}
    /\ win.chat = "group" => (win.status = "ready" <=> win.keys # Nil)
    /\ \A c \in Chats : drafts[c] \subseteq Thoughts
    /\ peerKey \in {Nil, Peer}
    /\ made.moves <= focus.moves /\ made.thoughts <= focus.thoughts /\ made.files <= MaxFiles
    /\ lost \subseteq 1..MaxFiles

\* Once nothing is under way that will tell the page of its group, the keys it encrypts for
\* are those of the members, or it waits because somebody has none.  Excused: a line that was
\* down or a removal that was announced before it took place (missed), a request that failed,
\* somebody who set encryption up since, and keys that setStatusIfChanged did not take.
KeysAreCurrent ==
    win.chat = "group" /\ Me \in Members /\ NoneTold /\ Asking("info") = {}
        /\ (\A j \in jobs : j.kind # "keys") /\ win.doubt = {}
    => \/ win.status = "ready" /\ win.keys = GroupKeys /\ AllKeyed(GroupKeys)
       \/ win.status = "not-ready" /\ ~(Members \subseteq keyed)

\* The public key a reader takes for a message: the peer's, or in a group its author's.
From(by, c, r) == PublicKey(IF c = "direct" THEN CHOOSE p \in Pair \ {r} : TRUE ELSE by)

\* Everybody a message was encrypted for reads its text and the files attached to it, and it
\* was encrypted for the chat's members of the moment it was stored in, except those who came
\* or went between the server's check and its transaction.
EnvelopesFit ==
    \A c \in Chats : \A n \in DOMAIN log[c] :
        LET m == log[c][n] IN
        /\ (m.at \ DOMAIN m.seal) \cup (DOMAIN m.seal \ m.at) \subseteq m.moved
        /\ \A r \in DOMAIN m.seal : Decrypt(m.seal[r], ChatKey(r, From(m.by, c, r))) = m.text
        /\ \A b \in DOMAIN m.files : \A r \in DOMAIN m.files[b].file.envelopes :
              OpenFile(m.files[b].file, r, ChatKey(r, PublicKey(m.by))) = {b}

\* Files are attached to the message they were sent with.  Excused: a message of the user's
\* from another device, one that was older, and any when their own was submitted behind
\* another, refused, cut off or not the newest of a list that grew with it.
FilesFollow ==
    \A c \in Chats : \A n \in DOMAIN log[c] : \A b \in DOMAIN log[c][n].files :
        LET m == log[c][n] IN
        \/ m.batch = b \/ m.via \in {"other", "forward"}
        \/ n <= m.files[b].since \/ b \in lost

Composed(t) ==
    {<<"sent", i>> : i \in {k \in DOMAIN line.sent : line.sent[k].no = 0 /\ t \in line.sent[k].text}}
    \cup {<<"sending", r>> : r \in {q \in Sending("composer") : q.frame.no = 0 /\ t \in q.frame.text}}
    \cup {<<"group", i>> : i \in {k \in DOMAIN log["group"] :
              log["group"][k].via = "composer" /\ t \in log["group"][k].text}}
    \cup {<<"direct", i>> : i \in {k \in DOMAIN log["direct"] :
              log["direct"][k].via = "composer" /\ t \in log["direct"][k].text}}

\* What was typed is in the composer, in a draft or on its way in one message, whatever chats
\* are opened meanwhile.  Excused: what the user dropped, edited or sent twice, what was
\* cleared because it was typed while another message was being encrypted, what the server
\* refused, and what was cut off or killed.
TextIsKept ==
    \A t \in 1..made.thoughts : fate[t] = {} =>
        /\ Cardinality(Composed(t)) <= 1
        /\ \/ t \in win.text \/ \E c \in Chats : t \in drafts[c]
           \/ \E j \in jobs : j.kind = "seal" /\ t \in j.text
           \/ \E i \in DOMAIN line.sent : t \in line.sent[i].text
           \/ \E r \in Sending("composer") : t \in r.frame.text
           \/ \E c \in Chats : \E n \in DOMAIN log[c] : t \in log[c][n].text
=============================================================================
