----------------------------- MODULE ComposerProofs ----------------------------
(***************************************************************************)
(* What is written: the types of the composer's state (ComposerTypeOK),    *)
(* texts, which are neither lost nor sent twice (TextIsKept), and files,   *)
(* which follow their message (FilesFollow), for any people and bounds.    *)
(*                                                                         *)
(* A thought is at home in the composer or the draft of one chat, where a  *)
(* task may be encrypting it, or it is away, in one frame, one request or  *)
(* one message; it never is at two of these places (TextInv).  The task    *)
(* that is sealed takes it from home, the server's check from the line to  *)
(* a request, the transaction from there to the log.  A change of the open *)
(* chat moves it between the composer and the draft, which may differ only *)
(* while the chat is open.                                                 *)
(*                                                                         *)
(* Files wait for the newest message of the user's in a list that grows.   *)
(* It is the right one: their message is the only one of the composer's    *)
(* that is under way, or it is stored, no list shows it, and its frame     *)
(* comes before those of the later messages of its chat (FilesWait).       *)
(***************************************************************************)
EXTENDS EnvelopeProofs, FiniteSetTheorems

----------------------------------------------------------------------------
(* Types: what is written are the n thoughts typed so far, and files are    *)
(* picks.                                                                   *)

WinFits(w, n) ==
    /\ w.text \subseteq 1..n /\ w.files \in 0..MaxFiles
    /\ w.pending # Nil => w.pending.files \in 1..MaxFiles
    /\ w.status \in {"loading", "ready", "not-ready"}
    /\ w.doubt \subseteq {"missed", "onboarded", "failed", "kept"}
    /\ w.chat = "group" => (w.status = "ready" <=> w.keys # Nil)
    /\ w.chat = Nil => w.text = {}
DraftsFit(D, n) == DOMAIN D = Chats /\ \A c \in Chats : D[c] \subseteq 1..n

SealsIn(J) == {j \in J : j.kind = "seal"}
TasksFit(J, n) == \A j \in SealsIn(J) : j.text \subseteq 1..n /\ j.files \in 0..MaxFiles

FrameFits(f, n) == f.text \subseteq 1..n /\ f.batch \in 0..MaxFiles
FramesFit(s, n) == \A i \in DOMAIN s : FrameFits(s[i], n) /\ s[i].via = "composer"

\* Only the user's own messages come from the composer, and only those are edits.
SendFits(r, n) ==
    r.kind = "send" => /\ FrameFits(r.frame, n) /\ r.step \in {"check", "store"}
                       /\ r.frame.via \in {"composer", "forward"}
                       /\ r.frame.via = "forward" => r.frame.no = 0
SendsFit(R, n) == \A r \in R : SendFits(r, n)
LogFits(lg, n) == \A c \in Chats : \A k \in DOMAIN lg[c] : lg[c][k].text \subseteq 1..n

MadeFits(m, f) ==
    /\ m \in [thoughts : Nat, files : Nat, moves : Nat]
    /\ m.moves <= f.moves /\ m.thoughts <= f.thoughts /\ m.files <= MaxFiles
    /\ f \in Focuses

TypeInv ==
    /\ GroupTypes /\ WinFits(win, made.thoughts) /\ DraftsFit(drafts, made.thoughts)
    /\ TasksFit(jobs, made.thoughts) /\ FramesFit(line.sent, made.thoughts)
    /\ SendsFit(reqs, made.thoughts) /\ LogFits(log, made.thoughts)
    /\ MadeFits(made, focus) /\ peerKey \in {Nil, Peer} /\ lost \subseteq 1..MaxFiles

\* A step that adds no text to what it keeps or moves.
Fitting(n) ==
    /\ GroupTypes' /\ WinFits(win', n) /\ DraftsFit(drafts', n) /\ TasksFit(jobs', n)
    /\ FramesFit(line'.sent, n) /\ SendsFit(reqs', n) /\ LogFits(log', n)
    /\ peerKey' \in {Nil, Peer} /\ lost' \subseteq 1..MaxFiles

\* A move counts up to its bound.
LEMMA MoveCounts ==
    ASSUME MadeFits(made, focus), NEW m, m \in [thoughts : Nat, files : Nat, moves : Nat],
           m.moves = made.moves, made.moves < focus.moves, m.thoughts <= focus.thoughts,
           m.files = made.files
    PROVE  MadeFits(Moved(m), focus) /\ Moved(m).thoughts = m.thoughts
  <1> DEFINE q == Moved(m)
  <1>1. m.moves \in Nat /\ focus.moves \in Nat /\ m.thoughts \in Nat /\ m.files \in Nat
    BY ComposerAssumption DEF MadeFits
  <1>2. /\ q \in [thoughts : Nat, files : Nat, moves : Nat]
        /\ q.moves = m.moves + 1 /\ q.thoughts = m.thoughts /\ q.files = m.files
    BY <1>1 DEF Moved
  <1> HIDE DEF q
  <1>3. QED
    BY <1>1, <1>2 DEF MadeFits, q

\* So does every move of the model.
LEMMA MoveFits ==
    ASSUME TypeInv, Move
    PROVE  MadeFits(made', focus) /\ made'.thoughts = made.thoughts
  <1>1. MadeFits(made, focus)
    BY DEF TypeInv
  <1>2. /\ made \in [thoughts : Nat, files : Nat, moves : Nat]
        /\ made.thoughts <= focus.thoughts
    BY <1>1 DEF MadeFits
  <1>3. made.moves < focus.moves /\ made' = Moved(made)
    BY DEF Move
  <1>4. QED
    BY <1>1, <1>2, <1>3, MoveCounts

\* What has to be shown of a step that types nothing.
LEMMA FittingKeeps ==
    ASSUME TypeInv, UNCHANGED focus, Fitting(made.thoughts), UNCHANGED made \/ Move
    PROVE  TypeInv'
  <1>1. MadeFits(made', focus) /\ made'.thoughts = made.thoughts
    BY MoveFits DEF TypeInv
  <1>2. QED
    BY <1>1 DEF TypeInv, Fitting

\* Thoughts count up to their bound.
LEMMA ThoughtsCount ==
    ASSUME TypeInv
    PROVE  /\ made.thoughts \in Nat /\ made.thoughts <= MaxThoughts
           /\ 1..made.thoughts \subseteq Thoughts
           /\ made.thoughts + 1 \notin 1..made.thoughts
           /\ 1..made.thoughts \subseteq 1..(made.thoughts + 1)
           /\ made.thoughts + 1 \in 1..(made.thoughts + 1)
  <1>1. /\ made.thoughts \in Nat /\ focus.thoughts \in Nat /\ MaxThoughts \in Nat
        /\ made.thoughts <= focus.thoughts /\ focus.thoughts <= MaxThoughts
    BY ComposerAssumption DEF TypeInv, MadeFits
  <1>2. QED
    BY <1>1 DEF Thoughts

\* More thoughts leave what fitted fitting.
LEMMA FittingGrows ==
    ASSUME NEW n, NEW m, 1..n \subseteq 1..m
    PROVE  /\ \A w : WinFits(w, n) => WinFits(w, m)
           /\ \A D : DraftsFit(D, n) => DraftsFit(D, m)
           /\ \A J : TasksFit(J, n) => TasksFit(J, m)
           /\ \A s : FramesFit(s, n) => FramesFit(s, m)
           /\ \A R : SendsFit(R, n) => SendsFit(R, m)
           /\ \A lg : LogFits(lg, n) => LogFits(lg, m)
  <1>1. \A f : FrameFits(f, n) => FrameFits(f, m)
    BY DEF FrameFits
  <1>2. /\ \A s : FramesFit(s, n) => FramesFit(s, m)
        /\ \A R : SendsFit(R, n) => SendsFit(R, m)
    BY <1>1 DEF FramesFit, SendsFit, SendFits
  <1>3. \A w : WinFits(w, n) => WinFits(w, m)
    BY DEF WinFits
  <1>4. QED
    BY <1>2, <1>3 DEF DraftsFit, TasksFit, LogFits

\* The files that wait may be passed over, and are no others.
LEMMA PassedFit ==
    ASSUME WinFits(win, made.thoughts), NEW list
    PROVE  PassedOver(list) \subseteq 1..MaxFiles
  BY DEF WinFits, PassedOver

\* The window keeps its chat and its text.
SameText == win'.chat = win.chat /\ win'.text = win.text

\* A window that differs in what is shown only.
ShownOnly(w, v) ==
    /\ v.chat = w.chat /\ v.text = w.text /\ v.files = w.files /\ v.status = w.status
    /\ v.keys = w.keys /\ v.doubt = w.doubt /\ v.pending \in {w.pending, Nil}

\* A list that comes in touches no text, and starts uploads only.
LEMMA ListLeavesText ==
    ASSUME WinOK(win, log), WinFits(win, made.thoughts), lost \subseteq 1..MaxFiles,
           NEW mem, NEW list, NEW J, ListBecomes(mem, list, J)
    PROVE  /\ SameText /\ WinFits(win', made.thoughts)
           /\ SealsIn(jobs') = SealsIn(J) /\ lost' \subseteq 1..MaxFiles
  <1>1. DOMAIN win = WinFields
    BY DEF WinOK
  <1>2. ShownOnly(win, win')
    BY <1>1 DEF ListBecomes, ShownOnly, WinFields, StillWaits
  <1> DEFINE u == Upload(list[Len(list)])
  <1>3. u.kind = "upload"
    BY DEF Upload
  <1> HIDE DEF u
  <1>4. jobs' = J \/ jobs' = J \cup {u}
    BY DEF ListBecomes, u
  <1>5. SealsIn(jobs') = SealsIn(J)
    BY <1>3, <1>4 DEF SealsIn
  <1>6. lost' \subseteq 1..MaxFiles
    BY PassedFit DEF ListBecomes
  <1>7. WinFits(win', made.thoughts)
    BY <1>2 DEF WinFits, ShownOnly
  <1>8. QED
    BY <1>2, <1>5, <1>6, <1>7 DEF ShownOnly, SameText

\* Nor does the reading of a chat.
LEMMA LoadLeavesText ==
    ASSUME WinOK(win, log), WinFits(win, made.thoughts), lost \subseteq 1..MaxFiles,
           NEW c, NEW J, StartLoad(c, J)
    PROVE  /\ SameText /\ WinFits(win', made.thoughts)
           /\ SealsIn(jobs') = SealsIn(J) /\ lost' \subseteq 1..MaxFiles
  <1> DEFINE l == LoadJob(c, win.mem)
             K == J \cup {l}
  <1>1. l.kind = "load"
    BY DEF LoadJob
  <1> HIDE DEF l
  <1>2. SealsIn(K) = SealsIn(J)
    BY <1>1 DEF SealsIn
  <1>3. CASE win.mem[c] = Nil
    <2>1. jobs' = K /\ win' = win /\ lost' = lost
      BY <1>3 DEF StartLoad, l
    <2>2. QED
      BY <1>2, <2>1 DEF SameText
  <1>4. CASE win.mem[c] # Nil
    <2>1. ListBecomes(win.mem, win.mem[c], K)
      BY <1>4 DEF StartLoad, l
    <2>2. QED
      BY <1>2, <2>1, ListLeavesText
  <1>5. QED
    BY <1>3, <1>4

\* The tasks a chat begins with are none that carry a text.
LEMMA EntrySeals ==
    ASSUME NEW c, NEW J, NEW mem
    PROVE  SealsIn(OnEntry(c, J, mem)) = SealsIn(J) /\ SealsIn(Rechecked(c, J)) = SealsIn(J)
  <1> DEFINE k == Job("keys", c)
             l == LoadJob(c, mem)
             i == Job("info", c)
             p == Job("peer", c)
  <1>1. k.kind = "keys" /\ l.kind = "load" /\ i.kind = "info" /\ p.kind = "peer"
    BY DEF Job, LoadJob
  <1>2. KeyJobs(c) \subseteq {k, p}
    BY DEF KeyJobs
  <1>3. /\ Without({"keys"}, J) \subseteq OnEntry(c, J, mem)
        /\ OnEntry(c, J, mem) \subseteq Without({"keys"}, J) \cup KeyJobs(c) \cup {l, i}
        /\ Rechecked(c, J) = Without({"keys"}, J) \cup KeyJobs(c)
    BY DEF OnEntry, Rechecked
  <1> HIDE DEF k, l, i, p
  <1>4. SealsIn(Without({"keys"}, J)) = SealsIn(J)
    BY DEF SealsIn, Without
  <1>5. QED
    BY <1>1, <1>2, <1>3, <1>4 DEF SealsIn

\* A change of the chat puts the text where a draft is, and a draft where the text is.
LEMMA SwitchMovesText ==
    ASSUME NEW c \in Chats \cup {Nil}, NEW J, NEW D, NEW mem, WinFits(win, made.thoughts),
           win.chat \in Chats \cup {Nil}, Switch(c, J, D, mem), DOMAIN D = Chats
    PROVE  /\ win'.chat = c /\ win'.text = (IF c = Nil THEN {} ELSE drafts'[c])
           /\ DOMAIN drafts' = Chats
           /\ \A d \in Chats : drafts'[d] = IF d = win.chat THEN win.text ELSE D[d]
           /\ SealsIn(jobs') = SealsIn(J)
  <1>1. win'.chat = c /\ win'.text = (IF c = Nil THEN {} ELSE drafts'[c])
    BY DEF Switch, Closed
  <1>2. DOMAIN drafts' = Chats
        /\ \A d \in Chats : drafts'[d] = IF d = win.chat THEN win.text ELSE D[d]
    BY ComposerAssumption DEF Switch, Saved, Persisted, Chats
  <1>3. SealsIn(jobs') = SealsIn(J)
    BY EntrySeals DEF Switch
  <1>4. QED
    BY <1>1, <1>2, <1>3

\* What is written stays written by those who typed it.
LEMMA SwitchFits ==
    ASSUME NEW c \in Chats \cup {Nil}, NEW J, NEW D, NEW mem, NEW n,
           WinFits(win, made.thoughts), 1..made.thoughts \subseteq 1..n, DraftsFit(D, n),
           win.chat \in Chats \cup {Nil}, Switch(c, J, D, mem), TasksFit(J, n)
    PROVE  WinFits(win', n) /\ DraftsFit(drafts', n) /\ TasksFit(jobs', n)
  <1>1. /\ win'.chat = c /\ win'.text = (IF c = Nil THEN {} ELSE drafts'[c])
        /\ DOMAIN drafts' = Chats
        /\ \A d \in Chats : drafts'[d] = IF d = win.chat THEN win.text ELSE D[d]
        /\ SealsIn(jobs') = SealsIn(J)
    BY SwitchMovesText DEF DraftsFit
  <1>2. DraftsFit(drafts', n)
    BY <1>1 DEF DraftsFit, WinFits
  <1>3. /\ win'.files = 0 /\ win'.pending = Nil /\ win'.doubt = {} /\ win'.keys = Nil
        /\ win'.status = IF c = "direct" /\ peerKey # Nil THEN "ready" ELSE "loading"
    BY DEF Switch, Closed
  <1>4. 0 \in 0..MaxFiles
    BY ComposerAssumption
  <1>5. c # Nil => c \in Chats
    OBVIOUS
  <1>6. WinFits(win', n)
    BY <1>1, <1>2, <1>3, <1>4, <1>5 DEF WinFits, DraftsFit
  <1>7. TasksFit(jobs', n)
    BY <1>1 DEF TasksFit
  <1>8. QED
    BY <1>2, <1>6, <1>7

\* A step of the user's that types nothing.
LEMMA UserFitting ==
    ASSUME TypeInv, UNCHANGED <<groupvars, log, peerKey, focus>>, UNCHANGED made \/ Move,
           WinFits(win', made.thoughts), DraftsFit(drafts', made.thoughts),
           TasksFit(jobs', made.thoughts), FramesFit(line'.sent, made.thoughts),
           lost' \subseteq 1..MaxFiles
    PROVE  TypeInv'
  <1>1. GroupTypes'
    BY DEF TypeInv, GroupTypes, groupvars, Members
  <1>2. QED
    BY <1>1, FittingKeeps DEF Fitting, TypeInv, groupvars

\* A step of the user's that types one thought more.
LEMMA UserTyping ==
    ASSUME TypeInv, UNCHANGED <<groupvars, log, peerKey, line, lost, focus>>,
           made'.thoughts = made.thoughts + 1, MadeFits(made', focus),
           WinFits(win', made'.thoughts), DraftsFit(drafts', made'.thoughts),
           TasksFit(jobs', made'.thoughts)
    PROVE  TypeInv'
  <1>1. GroupTypes'
    BY DEF TypeInv, GroupTypes, groupvars, Members
  <1>2. 1..made.thoughts \subseteq 1..made'.thoughts
    BY ThoughtsCount
  <1>3. FramesFit(line.sent, made'.thoughts) /\ SendsFit(reqs, made'.thoughts)
        /\ LogFits(log, made'.thoughts)
    BY <1>2, FittingGrows DEF TypeInv
  <1>4. QED
    BY <1>1, <1>3 DEF TypeInv, groupvars

\* The frame of a task carries its text.
LEMMA FrameOfTask ==
    ASSUME NEW j, j.text \subseteq 1..made.thoughts, j.files \in 0..MaxFiles
    PROVE  FrameFits(Frame(j), made.thoughts) /\ Frame(j).via = "composer"
           /\ Frame(j).text = j.text
  <1>1. 0 \in 0..MaxFiles
    BY ComposerAssumption
  <1>2. QED
    BY <1>1 DEF FrameFits, Frame

\* A task that is begun carries the text of the window.
LEMMA TaskBegins ==
    ASSUME WinFits(win, made.thoughts)
    PROVE  /\ SealJob.kind = "seal" /\ SealJob.text = win.text /\ SealJob.chat = win.chat
           /\ TasksFit({SealJob}, made.thoughts)
  BY DEF SealJob, TasksFit, SealsIn, WinFits

\* What the user does in the composer writes what was typed.
LEMMA UserKeepsTypes == SealInv /\ TypeInv /\ UserStep /\ UNCHANGED focus => TypeInv'
  <1> SUFFICES ASSUME SealInv, TypeInv, UserStep, UNCHANGED focus PROVE TypeInv'
    OBVIOUS
  <1> DEFINE n == made.thoughts
  <1>0. /\ WinFits(win, n) /\ DraftsFit(drafts, n) /\ TasksFit(jobs, n) /\ FramesFit(line.sent, n)
        /\ MadeFits(made, focus) /\ DOMAIN win = WinFields /\ win.chat \in Chats \cup {Nil}
        /\ lost \subseteq 1..MaxFiles /\ LineOK(line, log) /\ MaxFiles \in Nat /\ n \in Nat
    BY ComposerAssumption DEF SealInv, WinOK, TypeInv, MadeFits
  <1>1. ASSUME NEW c \in Chats, OpenChat(c) PROVE TypeInv'
    <2>1. WinFits(win', n) /\ DraftsFit(drafts', n) /\ TasksFit(jobs', n)
      BY <1>0, <1>1, SwitchFits DEF OpenChat
    <2>2. QED
      BY <1>0, <1>1, <2>1, UserFitting DEF OpenChat
  <1>2. ASSUME NEW c \in Chats, Share(c) PROVE TypeInv'
    <2> DEFINE t == n + 1
               D == [drafts EXCEPT ![c] = @ \cup {t}]
               m == [made EXCEPT !.thoughts = t]
    <2>1. /\ t <= focus.thoughts /\ made.moves < focus.moves /\ made' = Moved(m)
          /\ \/ win.chat = c /\ drafts' = D /\ win' = Reread(D) /\ jobs' = jobs
             \/ win.chat # c /\ Switch(c, jobs, D, win.mem)
          /\ UNCHANGED <<groupvars, log, peerKey, line, lost>>
      BY <1>2 DEF Share
    <2>2. 1..n \subseteq 1..t /\ t \in 1..t /\ t \in Nat
      BY <1>0, ThoughtsCount
    <2>3. /\ m \in [thoughts : Nat, files : Nat, moves : Nat]
          /\ m.moves = made.moves /\ m.files = made.files /\ m.thoughts = t
      BY <1>0, <2>2 DEF MadeFits
    <2>4. DraftsFit(D, t)
      <3>1. DraftsFit(drafts, t)
        BY <1>0, <2>2, FittingGrows
      <3>2. DOMAIN D = Chats /\ \A d \in Chats : D[d] \subseteq drafts[d] \cup {t}
        BY <1>0 DEF DraftsFit
      <3>3. QED
        BY <2>2, <3>1, <3>2 DEF DraftsFit
    <2>5. TasksFit(jobs, t) /\ WinFits(win, t)
      BY <1>0, <2>2, FittingGrows
    <2> HIDE DEF D, m, t
    <2>6. MadeFits(made', focus) /\ made'.thoughts = t
      BY <1>0, <2>1, <2>3, MoveCounts
    <2>7. WinFits(win', t) /\ DraftsFit(drafts', t) /\ TasksFit(jobs', t)
      <3>1. CASE win.chat = c /\ drafts' = D /\ win' = Reread(D) /\ jobs' = jobs
        <4>1. /\ win'.text = D[win.chat] /\ win'.chat = win.chat
              /\ win'.files = win.files /\ win'.status = win.status
              /\ win'.keys = win.keys /\ win'.doubt = win.doubt /\ win'.pending = win.pending
          BY <1>0, <3>1 DEF Reread, WinFields
        <4>2. win.chat # Nil
          BY <3>1, ComposerAssumption
        <4>3. WinFits(win', t)
          BY <2>4, <2>5, <3>1, <4>1, <4>2 DEF WinFits, DraftsFit
        <4>4. QED
          BY <2>4, <2>5, <3>1, <4>3
      <3>2. CASE win.chat # c /\ Switch(c, jobs, D, win.mem)
        BY <1>0, <2>2, <2>4, <2>5, <3>2, SwitchFits
      <3>3. QED
        BY <2>1, <3>1, <3>2
    <2>8. made'.thoughts = n + 1
      BY <2>6 DEF t
    <2>9. QED
      BY <2>1, <2>6, <2>7, <2>8, UserTyping
  <1>3. CASE Type
    <2> DEFINE t == n + 1
    <2>1. 1..n \subseteq 1..t /\ t \in 1..t /\ t \in Nat
      BY <1>0, ThoughtsCount
    <2>2. MadeFits(made', focus) /\ made'.thoughts = t
      <3>1. focus.thoughts \in Nat
        BY <1>0, ComposerAssumption DEF MadeFits
      <3>2. made.thoughts < focus.thoughts /\ made' = [made EXCEPT !.thoughts = @ + 1]
        BY <1>3 DEF Type
      <3>3. t <= focus.thoughts
        BY <1>0, <3>1, <3>2
      <3>4. /\ made' \in [thoughts : Nat, files : Nat, moves : Nat]
            /\ made'.moves = made.moves /\ made'.files = made.files /\ made'.thoughts = t
        BY <1>0, <2>1, <3>2 DEF MadeFits
      <3> HIDE DEF t
      <3>5. QED
        BY <1>0, <3>3, <3>4 DEF MadeFits
    <2>3. WinFits(win, t) /\ DraftsFit(drafts, t) /\ TasksFit(jobs, t)
      BY <1>0, <2>1, FittingGrows
    <2>4. /\ win'.text = win.text \cup {t} /\ win'.chat = win.chat /\ win.chat # Nil
          /\ win'.files = win.files /\ win'.status = win.status
          /\ win'.keys = win.keys /\ win'.doubt = win.doubt /\ win'.pending = win.pending
      BY <1>0, <1>3 DEF Type, Enabled, WinFields
    <2> HIDE DEF t
    <2>5. WinFits(win', t)
      BY <2>1, <2>3, <2>4 DEF WinFits
    <2>6. made'.thoughts = n + 1
      BY <2>2 DEF t
    <2>7. QED
      BY <1>3, <2>2, <2>3, <2>5, <2>6, UserTyping DEF Type
  <1>4. CASE SelectFiles
    <2> DEFINE k == made.files + 1
    <2>1. /\ made.files < MaxFiles /\ made' = [made EXCEPT !.files = @ + 1]
          /\ win' = [win EXCEPT !.files = k]
      BY <1>4 DEF SelectFiles
    <2>2. made.files \in Nat
      BY <1>0 DEF MadeFits
    <2>3. k \in 0..MaxFiles /\ k \in Nat /\ k <= MaxFiles
      BY <1>0, <2>1, <2>2
    <2>4. /\ made' \in [thoughts : Nat, files : Nat, moves : Nat]
          /\ made'.moves = made.moves /\ made'.files = k /\ made'.thoughts = n
      BY <1>0, <2>1, <2>3 DEF MadeFits
    <2> HIDE DEF k
    <2>5. MadeFits(made', focus)
      BY <1>0, <2>3, <2>4 DEF MadeFits
    <2>6. /\ win'.text = win.text /\ win'.chat = win.chat
          /\ win'.files = k /\ win'.status = win.status
          /\ win'.keys = win.keys /\ win'.doubt = win.doubt /\ win'.pending = win.pending
      BY <1>0, <2>1 DEF WinFields
    <2>7. WinFits(win', n)
      BY <1>0, <2>3, <2>6 DEF WinFits
    <2>8. GroupTypes'
      BY <1>4 DEF SelectFiles, TypeInv, GroupTypes, groupvars, Members
    <2>9. QED
      BY <1>4, <2>4, <2>5, <2>7, <2>8 DEF SelectFiles, TypeInv, groupvars
  <1>5. CASE RemoveFiles
    <2>1. /\ win'.text = win.text /\ win'.chat = win.chat
          /\ win'.files = 0 /\ win'.status = win.status
          /\ win'.keys = win.keys /\ win'.doubt = win.doubt /\ win'.pending = win.pending
      BY <1>0, <1>5 DEF RemoveFiles, WinFields
    <2>2. WinFits(win', n)
      BY <1>0, <2>1 DEF WinFits
    <2>3. QED
      BY <1>0, <1>5, <2>2, UserFitting DEF RemoveFiles
  <1>6. CASE PersistDraft
    <2>1. DraftsFit(drafts', n)
      BY <1>0, <1>6 DEF PersistDraft, Persisted, DraftsFit, WinFits
    <2>2. QED
      BY <1>0, <1>6, <2>1, UserFitting DEF PersistDraft
  <1>7. CASE Reply
    <2>1. /\ win'.text = {} /\ win'.chat = win.chat
          /\ win'.files = win.files /\ win'.status = win.status
          /\ win'.keys = win.keys /\ win'.doubt = win.doubt /\ win'.pending = win.pending
      BY <1>0, <1>7 DEF Reply, WinFields
    <2>2. WinFits(win', n)
      BY <1>0, <2>1 DEF WinFits
    <2>3. QED
      BY <1>0, <1>7, <2>2, UserFitting DEF Reply
  <1>8. CASE Submit
    <2>1. WinFits(win', n)
      <3>1. CASE win' = win
        BY <1>0, <3>1
      <3>2. CASE /\ win.files # 0
                 /\ win' = [win EXCEPT !.pending = [chat |-> win.chat, files |-> win.files,
                                                    since |-> Len(log[win.chat])]]
        <4>1. /\ win'.text = win.text /\ win'.chat = win.chat
              /\ win'.files = win.files /\ win'.status = win.status
              /\ win'.keys = win.keys /\ win'.doubt = win.doubt
              /\ win'.pending.files = win.files
          BY <1>0, <3>2 DEF WinFields
        <4>2. win.files \in 1..MaxFiles
          BY <1>0, <3>2 DEF WinFits
        <4>3. QED
          BY <1>0, <4>1, <4>2 DEF WinFits
      <3>3. QED
        BY <1>8, <3>1, <3>2 DEF Submit
    <2>2. TasksFit(jobs', n)
      BY <1>0, <1>8, TaskBegins DEF Submit, TasksFit, SealsIn
    <2>3. lost' \subseteq 1..MaxFiles
      BY <1>0, <1>8 DEF Submit, WinFits
    <2>4. QED
      BY <1>0, <1>8, <2>1, <2>2, <2>3, UserFitting DEF Submit
  <1>9. ASSUME NEW i \in DOMAIN win.list, Edit(win.list[i]) PROVE TypeInv'
    <2> DEFINE e == win.list[i]
    <2>1. Ref(e, log) /\ e[1] = win.chat
      BY <1>9 DEF SealInv, WinOK, ListOK, Edit
    <2>2. Message(e).text \subseteq 1..n
      BY <2>1 DEF TypeInv, LogFits, Message, Ref
    <2>3. win.chat # Nil
      BY <2>1, ComposerAssumption DEF Ref
    <2>4. /\ win'.text = Message(e).text /\ win'.chat = win.chat
          /\ win'.files = win.files /\ win'.status = win.status
          /\ win'.keys = win.keys /\ win'.doubt = win.doubt /\ win'.pending = win.pending
      BY <1>0, <1>9 DEF Edit, WinFields
    <2> HIDE DEF e
    <2>5. WinFits(win', n)
      BY <1>0, <2>2, <2>3, <2>4 DEF WinFits
    <2>6. QED
      BY <1>0, <1>9, <2>5, UserFitting DEF Edit
  <1>10. ASSUME NEW j \in jobs, Sealed(j) PROVE TypeInv'
    <2>1. /\ win'.text = {} /\ win'.chat = win.chat
          /\ win'.files \in {win.files, 0} /\ win'.status = win.status
          /\ win'.keys = win.keys /\ win'.doubt = win.doubt /\ win'.pending = win.pending
      BY <1>0, <1>10 DEF Sealed, WinFields
    <2>2. WinFits(win', n)
      BY <1>0, <2>1 DEF WinFits
    <2>3. DraftsFit(drafts', n)
      BY <1>0, <1>10 DEF Sealed, DraftGone, DraftsFit
    <2>4. TasksFit(jobs', n) /\ j.text \subseteq 1..n /\ j.files \in 0..MaxFiles
      BY <1>0, <1>10 DEF Sealed, TasksFit, SealsIn
    <2>5. FramesFit(line'.sent, n)
      <3>1. line'.sent = Append(line.sent, Frame(j)) /\ IsSeq(line.sent)
        BY <1>0, <1>10 DEF Sealed, LineOK
      <3>2. QED
        BY <1>0, <2>4, <3>1, FrameOfTask, AppendSeq DEF FramesFit
    <2>6. QED
      BY <1>0, <1>10, <2>2, <2>3, <2>4, <2>5, UserFitting DEF Sealed
  <1>11. ASSUME NEW j \in jobs, NotSealed(j) PROVE TypeInv'
    <2>1. /\ win'.text = win.text /\ win'.chat = win.chat
          /\ win'.files = win.files /\ win'.status = win.status
          /\ win'.keys = win.keys /\ win'.doubt = win.doubt /\ win'.pending \in {win.pending, Nil}
      BY <1>0, <1>11 DEF NotSealed, WinFields
    <2>2. WinFits(win', n)
      BY <1>0, <2>1 DEF WinFits
    <2>3. TasksFit(jobs', n)
      BY <1>0, <1>11 DEF NotSealed, TasksFit, SealsIn
    <2>4. UNCHANGED made \/ Move
      BY <1>11 DEF NotSealed, Break
    <2>5. QED
      BY <1>0, <1>11, <2>2, <2>3, <2>4, UserFitting DEF NotSealed
  <1>12. QED
    BY <1>1, <1>2, <1>3, <1>4, <1>5, <1>6, <1>7, <1>8, <1>9, <1>10, <1>11 DEF UserStep

\* What GroupTypes says of requests.
AskersFit(R) == \A r \in R : r.by \in People /\ r.step \in {"check", "write", "store"}

\* Noting who moved changes nothing of this.
LEMMA SettledFit ==
    ASSUME NEW R, NEW who, NEW n, \A r \in R : Shape(r), \A r \in R : RequestOK(r, log, Members),
           SendsFit(R, n), AskersFit(R)
    PROVE  SendsFit(Settled(R, who), n) /\ AskersFit(Settled(R, who))
  <1> SUFFICES ASSUME NEW q \in Settled(R, who)
               PROVE  SendFits(q, n) /\ q.by \in People /\ q.step \in {"check", "write", "store"}
    BY DEF SendsFit, AskersFit
  <1>1. PICK r \in R : q = [r EXCEPT !.moved = @ \cup who]
    BY DEF Settled
  <1>2. Shape(r) /\ RequestOK(r, log, Members) /\ SendFits(r, n)
    BY DEF SendsFit
  <1>3. /\ q.kind = r.kind /\ q.step = r.step /\ q.by = r.by
        /\ "frame" \in DOMAIN r => q.frame = r.frame
    BY <1>1, <1>2 DEF Shape
  <1>4. SendFits(q, n)
    BY <1>2, <1>3 DEF SendFits, RequestOK
  <1>5. QED
    BY <1>3, <1>4 DEF AskersFit

\* A new send, and a request that is none.
LEMMA NewFits ==
    ASSUME NEW n
    PROVE  /\ \A k, o, s : \A b \in People :
                 k # "send" /\ s \in {"check", "write"} =>
                    SendsFit({Request(k, b, o, s)}, n) /\ AskersFit({Request(k, b, o, s)})
           /\ \A f : \A s \in {"check", "store"} :
                 FrameFits(f, n) /\ f.via \in {"composer", "forward"}
                 /\ (f.via = "forward" => f.no = 0) =>
                    SendsFit({SendRequest(f, s)}, n) /\ AskersFit({SendRequest(f, s)})
  <1>1. Me \in People
    BY ComposerAssumption, GroupsAssumption
  <1>2. ASSUME NEW k, NEW o, NEW s \in {"check", "write"}, NEW b \in People, k # "send"
        PROVE  SendsFit({Request(k, b, o, s)}, n) /\ AskersFit({Request(k, b, o, s)})
    BY <1>2 DEF Request, SendsFit, SendFits, AskersFit
  <1>3. ASSUME NEW f, NEW s \in {"check", "store"}, FrameFits(f, n),
               f.via \in {"composer", "forward"}, f.via = "forward" => f.no = 0
        PROVE  SendsFit({SendRequest(f, s)}, n) /\ AskersFit({SendRequest(f, s)})
    <2> DEFINE q == SendRequest(f, s)
    <2>1. q.kind = "send" /\ q.frame = f /\ q.step = s /\ q.by = Me
      BY DEF SendRequest
    <2> HIDE DEF q
    <2>2. SendFits(q, n) /\ q.by \in People /\ q.step \in {"check", "write", "store"}
      BY <1>1, <1>3, <2>1 DEF SendFits
    <2>3. QED
      BY <2>2 DEF SendsFit, AskersFit, q
  <1>4. QED
    BY <1>2, <1>3

\* Together they fit.
LEMMA FitsJoin ==
    ASSUME NEW R, NEW S, NEW n
    PROVE  /\ SendsFit(R, n) /\ SendsFit(S, n) => SendsFit(R \cup S, n)
           /\ AskersFit(R) /\ AskersFit(S) => AskersFit(R \cup S)
           /\ SendsFit(R, n) => SendsFit(R \ S, n)
           /\ AskersFit(R) => AskersFit(R \ S)
  BY DEF SendsFit, AskersFit

\* The members are people with a role.
RolesFit == /\ there \in BOOLEAN /\ keyed \subseteq People /\ Members \subseteq People
            /\ \A u \in Members : role[u] \in {"member", "admin", "creator"}

\* GroupTypes in two halves.
LEMMA TypesOfGroup == GroupTypes <=> RolesFit /\ AskersFit(reqs)
  BY DEF GroupTypes, RolesFit, AskersFit

\* Steps that change requests, the log, the frames of both sides and history only.
LEMMA ServerFitting ==
    ASSUME TypeInv, UNCHANGED <<there, role, keyed, drafts, peerKey, focus>>,
           UNCHANGED made \/ Move, SealsIn(jobs') = SealsIn(jobs), WinFits(win', made.thoughts),
           SendsFit(reqs', made.thoughts), AskersFit(reqs'), FramesFit(line'.sent, made.thoughts),
           LogFits(log', made.thoughts), lost' \subseteq 1..MaxFiles
    PROVE  TypeInv'
  <1>1. RolesFit'
    BY TypesOfGroup DEF TypeInv, RolesFit, Members
  <1>2. GroupTypes'
    BY <1>1 DEF GroupTypes, RolesFit, AskersFit
  <1>3. QED
    BY <1>2, FittingKeeps DEF Fitting, TypeInv, TasksFit

\* What a refusal costs is a pick of files at most.
LEMMA RefusedFits ==
    ASSUME TypeInv, NEW f, f.batch \in 0..MaxFiles, Refused(f)
    PROVE  lost' \subseteq 1..MaxFiles
  <1>1. MaxFiles \in Nat /\ f.batch \in Nat
    BY ComposerAssumption
  <1>2. {f.batch} \ {0} \subseteq 1..MaxFiles
    BY <1>1
  <1>3. lost' = lost \cup ({f.batch} \ {0}) /\ lost \subseteq 1..MaxFiles
    BY DEF Refused, TypeInv
  <1>4. QED
    BY <1>2, <1>3

\* The log grows by a text that somebody typed.
LEMMA LogGrowsFit ==
    ASSUME NEW lg, LogOK(lg), NEW n, LogFits(lg, n), NEW c \in Chats, NEW m, m.text \subseteq 1..n
    PROVE  LogFits([lg EXCEPT ![c] = Append(@, m)], n)
  <1> DEFINE new == [lg EXCEPT ![c] = Append(@, m)]
  <1>1. DOMAIN lg = Chats /\ IsSeq(lg[c])
    BY DEF LogOK
  <1>2. new[c] = Append(lg[c], m) /\ \A d \in Chats \ {c} : new[d] = lg[d]
    BY <1>1
  <1> HIDE DEF new
  <1>3. \A k \in DOMAIN new[c] : new[c][k].text \subseteq 1..n
    BY <1>1, <1>2, AppendSeq DEF LogFits
  <1>4. LogFits(new, n)
    BY <1>2, <1>3 DEF LogFits
  <1>5. QED
    BY <1>4 DEF new

\* An edit replaces text, seal and members of one message.
LEMMA EditedLog ==
    ASSUME SealInv, NEW r \in reqs, StoreEdit(r)
    PROVE  /\ r.frame.chat \in Chats /\ r.frame.no \in DOMAIN log[r.frame.chat]
           /\ \A c \in Chats : DOMAIN log'[c] = DOMAIN log[c]
           /\ \A c \in Chats : \A k \in DOMAIN log[c] :
                 /\ log'[c][k].via = log[c][k].via
                 /\ log'[c][k].text = IF c = r.frame.chat /\ k = r.frame.no THEN r.frame.text
                                      ELSE log[c][k].text
  <1> DEFINE f == r.frame
             m == log[f.chat][f.no]
             new == [m EXCEPT !.text = f.text, !.seal = f.seal, !.at = PeopleOf(f.chat),
                              !.moved = r.moved]
  <1>1. RequestOK(r, log, Members) /\ r.kind = "send" /\ f.no # 0
    BY DEF StoreEdit, SealInv, RequestsOK
  <1>2. f.chat \in Chats /\ f.no \in DOMAIN log[f.chat]
    BY <1>1 DEF RequestOK, FrameOK, Mine
  <1>3. DOMAIN log = Chats /\ MessageFields \subseteq DOMAIN m
    BY <1>2 DEF SealInv, LogOK, MessageOK
  <1>4. new.text = f.text /\ new.via = m.via
    BY <1>3 DEF MessageFields
  <1>5. log' = [log EXCEPT ![f.chat] = [log[f.chat] EXCEPT ![f.no] = new]]
    BY <1>2, <1>3 DEF StoreEdit, MessageFields
  <1> HIDE DEF new
  <1>6. /\ log'[f.chat] = [log[f.chat] EXCEPT ![f.no] = new]
        /\ \A c \in Chats \ {f.chat} : log'[c] = log[c]
    BY <1>2, <1>3, <1>5
  <1>7. /\ DOMAIN log'[f.chat] = DOMAIN log[f.chat] /\ log'[f.chat][f.no] = new
        /\ \A k \in DOMAIN log[f.chat] \ {f.no} : log'[f.chat][k] = log[f.chat][k]
    BY <1>2, <1>6
  <1>8. QED
    BY <1>2, <1>4, <1>6, <1>7

\* The server passes on and stores what was typed.
LEMMA MessagesKeepTypes ==
    ASSUME GroupInv, SealInv, TypeInv, UNCHANGED focus,
           \/ CheckSend \/ \E u \in People, c \in Chats : Post(u, c)
           \/ \E r \in reqs : CheckForward(r) \/ StoreNew(r) \/ StoreEdit(r) \/ StoreFails(r)
    PROVE  TypeInv'
  <1> DEFINE n == made.thoughts
  <1>0. /\ WinFits(win, n) /\ FramesFit(line.sent, n) /\ SendsFit(reqs, n) /\ AskersFit(reqs)
        /\ LogFits(log, n) /\ lost \subseteq 1..MaxFiles /\ LineOK(line, log) /\ LogOK(log)
        /\ RequestsOK(reqs, log, Members)
    BY TypesOfGroup DEF TypeInv, SealInv
  <1>1. CASE CheckSend
    <2> DEFINE f == Head(line.sent)
    <2>1. /\ line.sent # <<>> /\ line'.sent = Tail(line.sent) /\ IsSeq(line.sent)
          /\ \/ reqs' = reqs \cup {SendRequest(f, "store")} /\ lost' = lost
             \/ Refused(f) /\ reqs' = reqs
          /\ UNCHANGED <<there, role, keyed, log, win, drafts, peerKey, jobs, mail, made>>
      BY <1>0, <1>1 DEF CheckSend, LineOK
    <2>2. FrameFits(f, n) /\ f.via = "composer" /\ FramesFit(line'.sent, n)
      BY <1>0, <2>1, TailSeq DEF FramesFit
    <2> HIDE DEF f
    <2>3. SendsFit(reqs', n) /\ AskersFit(reqs')
      <3>1. SendsFit({SendRequest(f, "store")}, n) /\ AskersFit({SendRequest(f, "store")})
        BY <2>2, NewFits
      <3>2. QED
        BY <1>0, <2>1, <3>1, FitsJoin
    <2>4. lost' \subseteq 1..MaxFiles
      BY <1>0, <2>1, <2>2, RefusedFits DEF FrameFits
    <2>5. QED
      BY <1>0, <2>1, <2>2, <2>3, <2>4, ServerFitting
  <1>2. ASSUME NEW u \in People, NEW c \in Chats, Post(u, c) PROVE TypeInv'
    <2> DEFINE m == Stores(u, "other", {}, IF c = "group" THEN EncryptForGroup({}, GroupKeys, u)
                                           ELSE SealFor(c, {}, {}), 0, <<>>, c, {})
    <2>1. m.text \subseteq 1..n
      BY DEF Stores
    <2>2. log' = [log EXCEPT ![c] = Append(@, m)]
      BY <1>2 DEF Post
    <2> HIDE DEF m
    <2>3. LogFits(log', n)
      BY <1>0, <2>1, <2>2, LogGrowsFit
    <2>4. QED
      BY <1>0, <1>2, <2>3, ServerFitting DEF Post, groupvars
  <1>3. ASSUME NEW r \in reqs, CheckForward(r) PROVE TypeInv'
    <2> DEFINE q == [r EXCEPT !.step = "store"]
    <2>1. /\ r.kind = "send" /\ reqs' \subseteq (reqs \ {r}) \cup {q}
          /\ UNCHANGED <<there, role, keyed, log, win, drafts, peerKey, jobs, line, made, lost>>
      BY <1>3 DEF CheckForward, Sending
    <2>2. SendFits(r, n) /\ RequestOK(r, log, Members) /\ r.by \in People
      BY <1>0 DEF SendsFit, RequestsOK, AskersFit
    <2>3. q.kind = "send" /\ q.frame = r.frame /\ q.by = r.by /\ q.step = "store"
      <3>1. Shape(r) /\ "frame" \in DOMAIN r
        BY <2>1, <2>2 DEF RequestOK, GroupInv, Harmless
      <3>2. QED
        BY <3>1, <2>1 DEF Shape
    <2> HIDE DEF q
    <2>4. SendsFit(reqs', n) /\ AskersFit(reqs')
      BY <1>0, <2>1, <2>2, <2>3 DEF SendsFit, SendFits, AskersFit
    <2>5. QED
      BY <1>0, <2>1, <2>4, ServerFitting
  <1>4. ASSUME NEW r \in reqs, StoreNew(r) PROVE TypeInv'
    <2> DEFINE f == r.frame
               m == Stores(Me, f.via, f.text, f.seal, f.batch, Copied(f), f.chat, r.moved)
    <2>1. r.kind = "send" /\ SendFits(r, n) /\ f.chat \in Chats
      BY <1>0, <1>4 DEF StoreNew, SendsFit, RequestsOK, RequestOK, FrameOK
    <2>2. FrameFits(f, n) /\ m.text = f.text
      BY <2>1 DEF SendFits, Stores
    <2>3. \/ log' = [log EXCEPT ![f.chat] = Append(@, m)] /\ lost' = lost
          \/ log' = log /\ Refused(f)
      BY <1>4 DEF StoreNew
    <2>4. /\ reqs' = reqs \ {r}
          /\ UNCHANGED <<there, role, keyed, win, drafts, peerKey, jobs, line, made>>
      BY <1>4 DEF StoreNew
    <2> HIDE DEF m, f
    <2>5. LogFits(log', n) /\ lost' \subseteq 1..MaxFiles
      <3>1. f.text \subseteq 1..n /\ f.batch \in 0..MaxFiles /\ m.text \subseteq 1..n
        BY <2>2 DEF FrameFits
      <3>2. LogFits([log EXCEPT ![f.chat] = Append(@, m)], n)
        BY <1>0, <2>1, <3>1, LogGrowsFit
      <3>3. Refused(f) => lost' \subseteq 1..MaxFiles
        BY <3>1, RefusedFits
      <3>4. QED
        BY <1>0, <2>3, <3>2, <3>3
    <2>6. QED
      BY <1>0, <2>4, <2>5, FitsJoin, ServerFitting
  <1>5. ASSUME NEW r \in reqs, StoreEdit(r) PROVE TypeInv'
    <2>1. r.frame.text \subseteq 1..n
      BY <1>0, <1>5 DEF StoreEdit, SendsFit, SendFits, FrameFits
    <2>2. LogFits(log', n)
      BY <1>0, <1>5, <2>1, EditedLog DEF LogFits
    <2>3. reqs' = reqs \ {r}
          /\ UNCHANGED <<there, role, keyed, win, drafts, peerKey, jobs, line, made, lost>>
      BY <1>5 DEF StoreEdit
    <2>4. QED
      BY <1>0, <2>2, <2>3, FitsJoin, ServerFitting
  <1>6. ASSUME NEW r \in reqs, StoreFails(r) PROVE TypeInv'
    <2>1. FrameFits(r.frame, n)
      BY <1>0, <1>6 DEF StoreFails, SendsFit, SendFits
    <2>2. lost' \subseteq 1..MaxFiles
      BY <1>6, <2>1, RefusedFits DEF StoreFails, FrameFits
    <2>3. /\ reqs' = reqs \ {r} /\ Move
          /\ UNCHANGED <<there, role, keyed, log, win, drafts, peerKey, jobs, line>>
      BY <1>6 DEF StoreFails, Break
    <2>4. QED
      BY <1>0, <2>2, <2>3, FitsJoin, ServerFitting
  <1>7. QED
    BY <1>1, <1>2, <1>3, <1>4, <1>5, <1>6

\* A doubt leaves the types.
LEMMA DoubtFits ==
    ASSUME WinOK(win, log), WinFits(win, made.thoughts),
           NEW what \in {"missed", "onboarded", "failed", "kept"}
    PROVE  /\ WinFits(Doubted(what), made.thoughts)
           /\ Doubted(what).chat = win.chat /\ Doubted(what).text = win.text
           /\ DOMAIN Doubted(what) = WinFields
  <1>1. DOMAIN win = WinFields
    BY DEF WinOK
  <1> DEFINE v == [win EXCEPT !.doubt = @ \cup {what}]
  <1>2. /\ v.chat = win.chat /\ v.text = win.text /\ v.files = win.files /\ v.status = win.status
        /\ v.keys = win.keys /\ v.pending = win.pending /\ v.doubt = win.doubt \cup {what}
        /\ DOMAIN v = WinFields
    BY <1>1 DEF WinFields
  <1>3. Doubted(what) = v \/ Doubted(what) = win
    BY DEF Doubted
  <1> HIDE DEF v
  <1>4. WinFits(v, made.thoughts)
    BY <1>2 DEF WinFits
  <1>5. QED
    BY <1>1, <1>2, <1>3, <1>4

\* A step of the group's requests changes roles, requests, frames to the page and doubts.
LEMMA GroupFitting ==
    ASSUME TypeInv, UNCHANGED <<log, drafts, peerKey, line, lost, focus>>,
           UNCHANGED made \/ Move, SealsIn(jobs') = SealsIn(jobs), WinFits(win', made.thoughts),
           RolesFit', SendsFit(reqs', made.thoughts), AskersFit(reqs')
    PROVE  TypeInv'
  <1>1. GroupTypes'
    BY DEF GroupTypes, RolesFit, AskersFit
  <1>2. QED
    BY <1>1, FittingKeeps DEF Fitting, TypeInv, TasksFit

\* What a request asks for when it is made.
LEMMA GroupAskedFits ==
    ASSUME TypeInv, SealInv, UNCHANGED focus, GroupAsked
    PROVE  TypeInv'
  <1>1. PICK k, b, o, s : /\ k # "send" /\ b \in People /\ s \in {"check", "write"}
                          /\ reqs' = reqs \cup {Request(k, b, o, s)}
    BY DEF GroupAsked, CheckAdd, AnnounceRemoval, AnnounceLeave, AnnounceDeletion, CheckRole
  <1>2. UNCHANGED <<there, role, keyed, log, drafts, peerKey, line, lost, win, jobs>> /\ Move
    BY DEF GroupAsked, PageKeeps, CheckAdd, AnnounceRemoval, AnnounceLeave, AnnounceDeletion,
           CheckRole
  <1>3. SendsFit(reqs, made.thoughts) /\ AskersFit(reqs) /\ WinFits(win, made.thoughts)
    BY TypesOfGroup DEF TypeInv
  <1>4. SendsFit(reqs', made.thoughts) /\ AskersFit(reqs')
    <2>1. SendsFit({Request(k, b, o, s)}, made.thoughts) /\ AskersFit({Request(k, b, o, s)})
      BY <1>1, NewFits
    <2>2. QED
      BY <1>1, <1>3, <2>1, FitsJoin
  <1>5. RolesFit'
    BY <1>2, TypesOfGroup DEF TypeInv, RolesFit, Members
  <1>6. QED
    BY <1>2, <1>3, <1>4, <1>5, GroupFitting

\* What the page is answered about the group carries no text.
LEMMA AnsweredSeals ==
    ASSUME NEW r, NEW kind \in {"updated", "closed"}, Answered(r, kind)
    PROVE  SealsIn(jobs') = SealsIn(jobs)
  <1>1. Job(kind, "group").kind # "seal"
    BY DEF Job
  <1>2. QED
    BY <1>1 DEF Answered, SealsIn

\* Transactions give and take roles that exist.
LEMMA GroupDoneFits ==
    ASSUME GroupInv, TypeInv, SealInv, UNCHANGED focus, NEW r \in reqs, GroupDone(r)
    PROVE  TypeInv'
  <1>1. UNCHANGED <<log, drafts, peerKey, line, lost, made>>
    BY DEF GroupDone, PageKeeps
  <1>2. WinFits(win, made.thoughts) /\ WinOK(win, log)
    BY DEF TypeInv, SealInv
  <1>3. WinFits(win', made.thoughts)
    BY <1>2, DoubtFits DEF GroupDone, UnlessHeard
  <1>4. SealsIn(jobs') = SealsIn(jobs)
    BY AnsweredSeals DEF GroupDone
  <1>5. RolesFit /\ r.of \in People /\ SendsFit(reqs, made.thoughts) /\ AskersFit(reqs)
        /\ RequestsOK(reqs, log, Members) /\ \A q \in reqs : Shape(q)
    BY TypesOfGroup DEF TypeInv, GroupInv, Harmless, SealInv
  <1>6. SendsFit(reqs \ {r}, made.thoughts) /\ AskersFit(reqs \ {r})
    BY <1>5, FitsJoin
  <1>7. (\E who : reqs' = Settled(reqs \ {r}, who)) \/ reqs' = reqs \ {r}
    BY DEF GroupDone, WriteAdd, WriteRole, WriteRemoval, Purge
  <1>8. SendsFit(reqs', made.thoughts) /\ AskersFit(reqs')
    BY <1>5, <1>6, <1>7, SettledFit DEF RequestsOK
  <1>9. RolesFit'
    <2>1. CASE WriteAdd(r)
      BY <1>5, <2>1 DEF WriteAdd, WithRole, RolesFit, Members
    <2>2. CASE WriteRole(r)
      BY <1>5, <2>2 DEF WriteRole, WithRole, RolesFit, Members
    <2>3. CASE WriteRemoval(r)
      BY <1>5, <2>3 DEF WriteRemoval, Dropped, RolesFit, Members
    <2>4. CASE Purge(r)
      BY <1>5, <2>4 DEF Purge, RolesFit, Members
    <2>5. QED
      BY <2>1, <2>2, <2>3, <2>4 DEF GroupDone
  <1>10. QED
    BY <1>1, <1>3, <1>4, <1>8, <1>9, GroupFitting

\* Refused requests end, announced ones go on.
LEMMA GroupRefusedFits ==
    ASSUME GroupInv, TypeInv, UNCHANGED focus, NEW r \in reqs, GroupRefused(r)
    PROVE  TypeInv'
  <1> DEFINE q == [r EXCEPT !.step = "write"]
  <1>1. /\ UNCHANGED <<there, role, keyed, log, drafts, peerKey, line, lost, win, jobs>>
        /\ UNCHANGED made \/ Move
    BY DEF GroupRefused, PageKeeps, CheckAnnounced, RequestFails, Break
  <1>2. /\ SendsFit(reqs, made.thoughts) /\ AskersFit(reqs) /\ WinFits(win, made.thoughts)
        /\ Shape(r)
    BY TypesOfGroup DEF TypeInv, GroupInv, Harmless
  <1>3. q.kind = r.kind /\ q.by = r.by /\ q.step = "write"
    BY <1>2 DEF Shape
  <1>4. \/ reqs' = reqs \ {r}
        \/ r.kind \in {"remove", "leave", "delete"} /\ reqs' = (reqs \ {r}) \cup {q}
    BY DEF GroupRefused, CheckAnnounced, RequestFails
  <1> HIDE DEF q
  <1>5. SendsFit(reqs', made.thoughts) /\ AskersFit(reqs')
    BY <1>2, <1>3, <1>4 DEF SendsFit, SendFits, AskersFit
  <1>6. RolesFit'
    BY <1>1, TypesOfGroup DEF TypeInv, RolesFit, Members
  <1>7. QED
    BY <1>1, <1>2, <1>5, <1>6, GroupFitting

\* Everything the server does keeps the types.
LEMMA ServerKeepsTypes ==
    GroupInv /\ SealInv /\ TypeInv /\ ServerStep /\ UNCHANGED focus => TypeInv'
  <1> SUFFICES ASSUME GroupInv, SealInv, TypeInv, ServerStep, UNCHANGED focus PROVE TypeInv'
    OBVIOUS
  <1>1. ASSUME NEW u \in People, SomebodyOnboards(u) PROVE TypeInv'
    <2>1. /\ UNCHANGED <<there, role, reqs, log, drafts, peerKey, line, lost, jobs>> /\ Move
          /\ keyed' = keyed \cup {u} /\ win' = Doubted("onboarded")
      BY <1>1 DEF SomebodyOnboards, Onboard, PageKeeps
    <2>2. WinFits(win', made.thoughts)
      BY <2>1, DoubtFits DEF TypeInv, SealInv
    <2>3. RolesFit'
      BY <2>1, TypesOfGroup DEF TypeInv, RolesFit, Members
    <2>4. SendsFit(reqs', made.thoughts) /\ AskersFit(reqs')
      BY <2>1, TypesOfGroup DEF TypeInv
    <2>5. QED
      BY <2>1, <2>2, <2>3, <2>4, GroupFitting
  <1>2. QED
    BY <1>1, MessagesKeepTypes, GroupAskedFits, GroupDoneFits, GroupRefusedFits DEF ServerStep

\* Every letter of the composer's stays where it is, with its text.
LettersStay ==
    /\ \A c \in Chats : \A k \in DOMAIN log[c] :
          /\ k \in DOMAIN log'[c]
          /\ log'[c][k].text = log[c][k].text /\ log'[c][k].via = log[c][k].via
    /\ \A c \in Chats : \A k \in DOMAIN log'[c] \ DOMAIN log[c] : log'[c][k].via # "composer"

\* A step that moves no text: it stays in the composer, in drafts, tasks, frames, requests and
\* messages.
TextStays ==
    /\ SameText /\ drafts' = drafts /\ SealsIn(jobs') = SealsIn(jobs)
    /\ line'.sent = line.sent /\ Sending("composer")' = Sending("composer") /\ LettersStay
    /\ made'.thoughts = made.thoughts /\ fate' = fate

\* A log that stays keeps its letters.
LEMMA SameLogStays == UNCHANGED log => LettersStay
  BY DEF LettersStay

\* An upload changes the files of a message only.
LEMMA UploadStays ==
    ASSUME SealInv, NEW j \in jobs, UploadEnds(j)
    PROVE  LettersStay /\ \A c \in Chats : DOMAIN log'[c] = DOMAIN log[c]
  <1> DEFINE old == Message(<<j.chat, j.no>>)
             file == [file |-> PrepareAttachment(j.files, j.to, Me), since |-> j.since]
             files == [b \in DOMAIN old.files \cup {j.files} |->
                          IF b = j.files THEN file ELSE old.files[b]]
             m == [old EXCEPT !.files = files]
  <1>1. LogOK(log)
    BY DEF SealInv
  <1>2. CASE log' = log
    BY <1>2 DEF LettersStay
  <1>3. CASE log' = [log EXCEPT ![j.chat][j.no].files = files]
    <2>1. log' = [log EXCEPT ![j.chat] = [log[j.chat] EXCEPT ![j.no] = m]]
      BY <1>3 DEF Message
    <2>2. DOMAIN log = Chats
      BY <1>1 DEF LogOK
    <2>3. ASSUME NEW c \in Chats
          PROVE  /\ DOMAIN log'[c] = DOMAIN log[c]
                 /\ \A k \in DOMAIN log[c] :
                       log'[c][k].text = log[c][k].text /\ log'[c][k].via = log[c][k].via
      <3>1. CASE c # j.chat
        <4> HIDE DEF m
        <4>1. log'[c] = log[c]
          BY <2>1, <2>2, <3>1
        <4>2. QED
          BY <4>1
      <3>2. CASE c = j.chat
        <4>1. old = log[c][j.no]
          BY <3>2 DEF Message
        <4>2. j.no \in DOMAIN log[c] => m.text = old.text /\ m.via = old.via
          BY <1>1, <4>1 DEF LogOK, MessageOK, MessageFields
        <4> HIDE DEF m, old
        <4>3. log'[c] = [log[c] EXCEPT ![j.no] = m]
          BY <2>1, <2>2, <3>2
        <4>4. /\ DOMAIN log'[c] = DOMAIN log[c]
              /\ j.no \in DOMAIN log[c] => log'[c][j.no] = m
              /\ \A k \in DOMAIN log[c] \ {j.no} : log'[c][k] = log[c][k]
          BY <4>3
        <4>5. QED
          BY <4>1, <4>2, <4>4
      <3>3. QED
        BY <3>1, <3>2
    <2>4. QED
      BY <2>3 DEF LettersStay
  <1>4. QED
    BY <1>2, <1>3 DEF UploadEnds

\* What the page does by itself: it moves no text but when it leaves the group, the line
\* breaks, or it dies.
Leaves ==
    /\ \E J : SealsIn(J) = SealsIn(jobs) /\ CloseChat(J)
    /\ UNCHANGED <<groupvars, log, peerKey, line, made, fate, lost>>
Aside ==
    /\ TextStays /\ UNCHANGED <<there, role, keyed>> /\ (UNCHANGED made \/ Move)
    /\ WinFits(win', made.thoughts) /\ lost' \subseteq 1..MaxFiles
    /\ SendsFit(reqs', made.thoughts) /\ AskersFit(reqs')
    /\ peerKey' \in {Nil, Peer} /\ LogFits(log', made.thoughts)

\* Most steps change the window, the tasks and the frames to the page only.
LEMMA QuietlyAside ==
    ASSUME TypeInv, UNCHANGED <<groupvars, log, drafts, fate>>, UNCHANGED made \/ Move,
           line'.sent = line.sent, SameText, WinFits(win', made.thoughts),
           SealsIn(jobs') = SealsIn(jobs), lost' \subseteq 1..MaxFiles, peerKey' \in {Nil, Peer}
    PROVE  Aside
  <1>1. LettersStay
    BY SameLogStays
  <1>2. made'.thoughts = made.thoughts
    BY MoveFits
  <1>3. Sending("composer")' = Sending("composer")
    BY DEF Sending, groupvars
  <1>4. SendsFit(reqs', made.thoughts) /\ AskersFit(reqs') /\ LogFits(log', made.thoughts)
    BY TypesOfGroup DEF TypeInv, groupvars
  <1>5. QED
    BY <1>1, <1>2, <1>3, <1>4 DEF Aside, TextStays, groupvars

\* A task that ends, or asks for something, carries no text.
LEMMA OtherTasks ==
    ASSUME NEW J, NEW j, j.kind # "seal"
    PROVE  SealsIn(J \ {j}) = SealsIn(J) /\ SealsIn(J \cup {j}) = SealsIn(J)
  BY DEF SealsIn

\* Frames that come in.
LEMMA FrameIsAside == SealInv /\ TypeInv /\ TakeFrame => Aside \/ Leaves
  <1> SUFFICES ASSUME SealInv, TypeInv, TakeFrame PROVE Aside \/ Leaves
    OBVIOUS
  <1>0. /\ WinOK(win, log) /\ WinFits(win, made.thoughts) /\ DOMAIN win = WinFields
        /\ lost \subseteq 1..MaxFiles /\ peerKey \in {Nil, Peer}
    BY DEF SealInv, TypeInv, WinOK
  <1>1. UNCHANGED <<groupvars, log, peerKey, line, made, fate>>
    BY DEF TakeFrame
  <1>2. ASSUME UNCHANGED drafts, SameText, WinFits(win', made.thoughts),
               SealsIn(jobs') = SealsIn(jobs), lost' \subseteq 1..MaxFiles
        PROVE  Aside
    BY <1>0, <1>1, <1>2, QuietlyAside
  <1>3. CASE StartLoad("group", jobs \cup {Job("info", "group")}) /\ UNCHANGED drafts
    <2>1. Job("info", "group").kind # "seal"
      BY DEF Job
    <2>2. SealsIn(jobs \cup {Job("info", "group")}) = SealsIn(jobs)
      BY <2>1, OtherTasks
    <2>3. QED
      BY <1>0, <1>2, <1>3, <2>2, LoadLeavesText
  <1>4. CASE CloseChat(jobs) /\ UNCHANGED lost
    BY <1>1, <1>4 DEF Leaves
  <1>5. CASE win' = [win EXCEPT !.mem["group"] = Nil] /\ UNCHANGED <<jobs, lost, drafts>>
    <2>1. ShownOnly(win, win')
      BY <1>0, <1>5 DEF ShownOnly, WinFields
    <2>2. SameText /\ WinFits(win', made.thoughts)
      BY <1>0, <2>1 DEF ShownOnly, SameText, WinFits
    <2>3. QED
      BY <1>0, <1>2, <1>5, <2>2
  <1>6. ASSUME NEW mem, NEW list, ListBecomes(mem, list, jobs), UNCHANGED drafts
        PROVE  Aside
    BY <1>0, <1>2, <1>6, ListLeavesText
  <1>7. CASE UNCHANGED <<win, jobs, lost, drafts>>
    BY <1>0, <1>2, <1>7 DEF SameText
  <1>8. QED
    BY <1>3, <1>4, <1>5, <1>6, <1>7 DEF TakeFrame

\* Answers that come in, or fail.
LEMMA AnswersAside ==
    ASSUME SealInv, TypeInv, NEW j \in jobs,
           \/ Serve(j) \/ KeysCome(j) \/ KeysFail(j) \/ PeerComes(j) \/ InfoComes(j)
           \/ LoadComes(j) \/ LoadFails(j) \/ PanelComes(j) \/ UploadEnds(j)
    PROVE  Aside \/ Leaves
  <1>0. /\ WinOK(win, log) /\ WinFits(win, made.thoughts) /\ DOMAIN win = WinFields
        /\ lost \subseteq 1..MaxFiles /\ peerKey \in {Nil, Peer} /\ JobOK(j, log)
    BY DEF SealInv, TypeInv, WinOK, JobsOK
  <1>1. ASSUME UNCHANGED <<groupvars, log, drafts, line, fate, peerKey>>, UNCHANGED made \/ Move,
               SameText, WinFits(win', made.thoughts),
               SealsIn(jobs') = SealsIn(jobs), lost' \subseteq 1..MaxFiles
        PROVE  Aside
    BY <1>0, <1>1, QuietlyAside
  <1>2. CASE Serve(j)
    <2> DEFINE d == IF j.kind = "keys" THEN GroupKeys ELSE Stored(j.chat)
               k == [j EXCEPT !.data = d]
    <2>1. j.kind \in {"keys", "load"} /\ jobs' = (jobs \ {j}) \cup {k}
          /\ UNCHANGED <<groupvars, log, drafts, peerKey, line, fate, win, made, lost>>
      BY <1>2 DEF Serve, Keeps
    <2>2. k.kind = j.kind
      BY <1>0, <2>1 DEF JobOK
    <2> HIDE DEF k
    <2>3. SealsIn(jobs') = SealsIn(jobs)
      BY <2>1, <2>2 DEF SealsIn
    <2>4. SameText
      BY <2>1 DEF SameText
    <2>5. QED
      BY <1>0, <1>1, <2>1, <2>3, <2>4
  <1>3. CASE KeysCome(j)
    <2>1. j.kind = "keys" /\ j.data # Nil /\ jobs' = jobs \ {j}
          /\ UNCHANGED <<groupvars, log, drafts, peerKey, line, fate, made, lost>>
      BY <1>3 DEF KeysCome, Keeps
    <2>2. \/ win' = [win EXCEPT !.status = "not-ready", !.keys = Nil]
          \/ win' = [win EXCEPT !.status = "ready", !.keys = j.data]
          \/ win' = win
          \/ win' = Doubted("kept")
      BY <1>3 DEF KeysCome
    <2>3. SameText /\ WinFits(win', made.thoughts)
      <3>1. CASE win' = [win EXCEPT !.status = "not-ready", !.keys = Nil]
        <4>1. /\ win'.chat = win.chat /\ win'.text = win.text /\ win'.files = win.files
              /\ win'.pending = win.pending /\ win'.doubt = win.doubt
              /\ win'.status = "not-ready" /\ win'.keys = Nil
          BY <1>0, <3>1 DEF WinFields
        <4>2. QED
          BY <1>0, <4>1 DEF WinFits, SameText
      <3>2. CASE win' = [win EXCEPT !.status = "ready", !.keys = j.data]
        <4>1. /\ win'.chat = win.chat /\ win'.text = win.text /\ win'.files = win.files
              /\ win'.pending = win.pending /\ win'.doubt = win.doubt
              /\ win'.status = "ready" /\ win'.keys = j.data
          BY <1>0, <3>2 DEF WinFields
        <4>2. QED
          BY <1>0, <2>1, <4>1 DEF WinFits, SameText
      <3>3. CASE win' = win \/ win' = Doubted("kept")
        BY <1>0, <3>3, DoubtFits DEF SameText
      <3>4. QED
        BY <2>2, <3>1, <3>2, <3>3
    <2>4. SealsIn(jobs') = SealsIn(jobs)
      BY <2>1, OtherTasks
    <2>5. QED
      BY <1>0, <1>1, <2>1, <2>3, <2>4
  <1>4. CASE KeysFail(j)
    <2> DEFINE w == Doubted("failed")
    <2>1. /\ j.kind = "keys" /\ jobs' = jobs \ {j}
          /\ win' = [w EXCEPT !.status = "loading", !.keys = Nil]
          /\ UNCHANGED <<groupvars, log, drafts, peerKey, line, fate, lost>>
          /\ (UNCHANGED made \/ Move)
      BY <1>4 DEF KeysFail, Keeps, Fails, Break
    <2>2. /\ WinFits(w, made.thoughts) /\ w.chat = win.chat /\ w.text = win.text
          /\ DOMAIN w = WinFields
      BY <1>0, DoubtFits
    <2> HIDE DEF w
    <2>3. /\ win'.chat = w.chat /\ win'.text = w.text /\ win'.files = w.files
          /\ win'.pending = w.pending /\ win'.doubt = w.doubt
          /\ win'.status = "loading" /\ win'.keys = Nil
      BY <2>1, <2>2 DEF WinFields
    <2>4. SameText /\ WinFits(win', made.thoughts)
      BY <2>2, <2>3 DEF WinFits, SameText
    <2>5. SealsIn(jobs') = SealsIn(jobs)
      BY <2>1, OtherTasks
    <2>6. QED
      BY <1>0, <1>1, <2>1, <2>4, <2>5
  <1>5. CASE PeerComes(j)
    <2>1. j.kind = "peer" /\ jobs' = jobs \ {j} /\ peerKey' \in {Nil, Peer}
          /\ UNCHANGED <<groupvars, log, drafts, line, fate, lost>>
          /\ (UNCHANGED made \/ Move)
      BY <1>0, <1>5 DEF PeerComes, Break
    <2>2. SameText /\ WinFits(win', made.thoughts)
      <3>1. CASE win.chat = "direct" /\ \E s \in {"not-ready", "ready"} :
                    win' = [win EXCEPT !.status = s]
        <4>1. /\ win'.chat = win.chat /\ win'.text = win.text /\ win'.files = win.files
              /\ win'.pending = win.pending /\ win'.doubt = win.doubt /\ win'.keys = win.keys
              /\ win'.status \in {"not-ready", "ready"}
          BY <1>0, <3>1 DEF WinFields
        <4>2. win.chat # "group" /\ win'.status \in {"loading", "ready", "not-ready"}
          BY <3>1, <4>1
        <4>3. QED
          BY <1>0, <4>1, <4>2 DEF WinFits, SameText
      <3>2. CASE win' = win
        BY <1>0, <3>2 DEF SameText
      <3>3. QED
        BY <1>5, <3>1, <3>2 DEF PeerComes
    <2>3. SealsIn(jobs') = SealsIn(jobs)
      BY <2>1, OtherTasks
    <2>4. QED
      BY <1>0, <2>1, <2>2, <2>3, QuietlyAside
  <1>6. CASE InfoComes(j)
    <2>1. j.kind = "info" /\ UNCHANGED <<groupvars, log, drafts, peerKey, line, fate, lost>>
          /\ (UNCHANGED made \/ Move) /\ jobs' \in {InfoNews(jobs \ {j}), jobs \ {j}}
          /\ win' \in {win, Doubted("failed")}
      BY <1>6 DEF InfoComes, Keeps, Fails, Break
    <2>2. SealsIn(jobs') = SealsIn(jobs)
      BY <2>1, OtherTasks, EntrySeals DEF InfoNews
    <2>3. SameText /\ WinFits(win', made.thoughts)
      BY <1>0, <2>1, DoubtFits DEF SameText
    <2>4. QED
      BY <1>0, <1>1, <2>1, <2>2, <2>3
  <1>7. CASE LoadComes(j) \/ LoadFails(j)
    <2>1. j.kind = "load" /\ UNCHANGED <<groupvars, log, drafts, peerKey, line, fate>>
          /\ (UNCHANGED made \/ Move)
      BY <1>7 DEF LoadComes, LoadFails, Keeps, Fails, Break
    <2>2. SealsIn(jobs \ {j}) = SealsIn(jobs)
      BY <2>1, OtherTasks
    <2>3. \/ \E mem, list : ListBecomes(mem, list, jobs \ {j})
          \/ jobs' = jobs \ {j} /\ UNCHANGED <<win, lost>>
      BY <1>7 DEF LoadComes, LoadFails
    <2>4. /\ SameText /\ WinFits(win', made.thoughts)
          /\ SealsIn(jobs') = SealsIn(jobs) /\ lost' \subseteq 1..MaxFiles
      BY <1>0, <2>2, <2>3, ListLeavesText DEF SameText
    <2>5. QED
      BY <1>1, <2>1, <2>4
  <1>8. CASE PanelComes(j)
    <2>1. /\ j.kind \in {"updated", "closed"}
          /\ UNCHANGED <<groupvars, log, peerKey, line, made, fate>>
      BY <1>8 DEF PanelComes
    <2>2. SealsIn(jobs \ {j}) = SealsIn(jobs)
      BY <2>1, OtherTasks
    <2>3. CASE StartLoad("group", (jobs \ {j}) \cup {Job("info", "group")}) /\ UNCHANGED drafts
      <3>1. Job("info", "group").kind # "seal"
        BY DEF Job
      <3>2. SealsIn((jobs \ {j}) \cup {Job("info", "group")}) = SealsIn(jobs)
        BY <2>2, <3>1, OtherTasks
      <3>3. QED
        BY <1>0, <1>1, <2>1, <2>3, <3>2, LoadLeavesText
    <2>4. CASE CloseChat(jobs \ {j}) /\ UNCHANGED lost
      BY <2>1, <2>2, <2>4 DEF Leaves
    <2>5. QED
      BY <1>8, <2>3, <2>4 DEF PanelComes
  <1>9. CASE UploadEnds(j)
    <2>1. j.kind = "upload" /\ jobs' = jobs \ {j} /\ win' = [win EXCEPT !.uploading = FALSE]
          /\ UNCHANGED <<groupvars, drafts, peerKey, line, fate, lost>> /\ (UNCHANGED made \/ Move)
      BY <1>9 DEF UploadEnds, Break
    <2>2. ShownOnly(win, win')
      BY <1>0, <2>1 DEF ShownOnly, WinFields
    <2>3. SameText /\ WinFits(win', made.thoughts)
      BY <1>0, <2>2 DEF ShownOnly, SameText, WinFits
    <2>4. LettersStay /\ \A c \in Chats : DOMAIN log'[c] = DOMAIN log[c]
      BY <1>9, UploadStays
    <2>5. LogFits(log', made.thoughts)
      BY <2>4 DEF LogFits, LettersStay, TypeInv
    <2>6. SealsIn(jobs') = SealsIn(jobs)
      BY <2>1, OtherTasks
    <2>7. made'.thoughts = made.thoughts
      BY <2>1, MoveFits
    <2>8. Sending("composer")' = Sending("composer")
      BY <2>1 DEF Sending, groupvars
    <2>9. SendsFit(reqs', made.thoughts) /\ AskersFit(reqs')
      BY <2>1, TypesOfGroup DEF TypeInv, groupvars
    <2>10. QED
      BY <1>0, <2>1, <2>3, <2>4, <2>5, <2>6, <2>7, <2>8, <2>9 DEF Aside, TextStays, groupvars
  <1>10. QED
    BY <1>2, <1>3, <1>4, <1>5, <1>6, <1>7, <1>8, <1>9

\* A forward carries the text of a message that is stored.
LEMMA ForwardsAside ==
    ASSUME SealInv, TypeInv,
           \/ \E i \in DOMAIN win.list, c \in Chats : Forward(win.list[i], c)
           \/ \E j \in jobs : ForwardSent(j)
    PROVE  Aside
  <1>0. /\ WinFits(win, made.thoughts) /\ lost \subseteq 1..MaxFiles /\ peerKey \in {Nil, Peer}
        /\ LogFits(log, made.thoughts) /\ SendsFit(reqs, made.thoughts) /\ AskersFit(reqs)
    BY TypesOfGroup DEF TypeInv
  <1>1. ASSUME NEW e, NEW c \in Chats, Forward(e, c) PROVE Aside
    <2> DEFINE k == [kind |-> "forward", chat |-> c, of |-> e]
    <2>1. k.kind # "seal" /\ jobs' = jobs \cup {k} /\ Move
          /\ UNCHANGED <<groupvars, log, drafts, peerKey, mail, line, fate, win, lost>>
      BY <1>1 DEF Forward, Keeps
    <2> HIDE DEF k
    <2>2. SealsIn(jobs') = SealsIn(jobs)
      BY <2>1, OtherTasks
    <2>3. QED
      BY <1>0, <2>1, <2>2, QuietlyAside DEF SameText
  <1>2. ASSUME NEW j \in jobs, ForwardSent(j) PROVE Aside
    <2> DEFINE to == IF j.chat = "group" THEN GroupKeys ELSE [r \in Pair |-> PublishedKey(r)]
               f == Forwarded(Message(j.of), j.chat, to)
               q == SendRequest(f, "check")
    <2>1. /\ j.kind = "forward" /\ jobs' = jobs \ {j} /\ (reqs' = reqs \/ reqs' = reqs \cup {q})
          /\ UNCHANGED <<there, role, keyed, log, win, drafts, peerKey, line, made, fate, lost>>
      BY <1>2 DEF ForwardSent
    <2>2. Ref(j.of, log)
      BY <2>1 DEF SealInv, JobsOK, JobOK
    <2>3. Message(j.of).text \subseteq 1..made.thoughts
      BY <1>0, <2>2 DEF LogFits, Ref, Message
    <2>4. f.text = Message(j.of).text /\ f.batch = 0 /\ f.via = "forward" /\ f.no = 0
      BY DEF Forwarded
    <2>5. q.frame = f
      BY DEF SendRequest
    <2> HIDE DEF f, to
    <2>6. FrameFits(f, made.thoughts)
      BY <2>3, <2>4, ComposerAssumption DEF FrameFits
    <2>7. SendsFit({q}, made.thoughts) /\ AskersFit({q})
      BY <2>4, <2>6, NewFits
    <2> HIDE DEF q
    <2>8. SendsFit(reqs', made.thoughts) /\ AskersFit(reqs')
      BY <1>0, <2>1, <2>7, FitsJoin
    <2>9. Sending("composer")' = Sending("composer")
      BY <2>1, <2>4, <2>5 DEF Sending
    <2>10. SealsIn(jobs') = SealsIn(jobs)
      BY <2>1, OtherTasks
    <2>11. LettersStay
      BY <2>1, SameLogStays
    <2>12. QED
      BY <1>0, <2>1, <2>8, <2>9, <2>10, <2>11 DEF Aside, TextStays, SameText
  <1>3. QED
    BY <1>1, <1>2

\* The line returns.
LEMMA ReturnIsAside == SealInv /\ TypeInv /\ Return => Aside
  <1> SUFFICES ASSUME SealInv, TypeInv, Return PROVE Aside
    OBVIOUS
  <1>0. /\ WinOK(win, log) /\ WinFits(win, made.thoughts) /\ LineOK(line, log)
        /\ lost \subseteq 1..MaxFiles /\ peerKey \in {Nil, Peer}
    BY DEF SealInv, TypeInv
  <1>1. UNCHANGED <<groupvars, log, drafts, peerKey, made, fate>> /\ line'.sent = line.sent
    BY <1>0 DEF Return, LineOK
  <1>2. /\ SameText /\ WinFits(win', made.thoughts)
        /\ SealsIn(jobs') = SealsIn(jobs) /\ lost' \subseteq 1..MaxFiles
    BY <1>0, LoadLeavesText DEF Return, SameText
  <1>3. QED
    BY <1>0, <1>1, <1>2, QuietlyAside

\* What a step of the page may do to a text.
LEMMA PageMoves ==
    SealInv /\ TypeInv /\ PageStep =>
        Aside \/ Leaves \/ (\E n \in 0..Len(line.sent) : Cut(n)) \/ Die
  <1> SUFFICES ASSUME SealInv, TypeInv, PageStep
               PROVE  Aside \/ Leaves \/ (\E n \in 0..Len(line.sent) : Cut(n)) \/ Die
    OBVIOUS
  <1>1. ASSUME NEW j \in jobs,
               \/ Serve(j) \/ KeysCome(j) \/ KeysFail(j) \/ PeerComes(j) \/ InfoComes(j)
               \/ LoadComes(j) \/ LoadFails(j) \/ PanelComes(j) \/ UploadEnds(j)
        PROVE  Aside \/ Leaves
    BY <1>1, AnswersAside
  <1>2. QED
    BY <1>1, FrameIsAside, ForwardsAside, ReturnIsAside DEF PageStep

\* The page keeps the types.
LEMMA PageKeepsTypes == SealInv /\ TypeInv /\ PageStep /\ UNCHANGED focus => TypeInv'
  <1> SUFFICES ASSUME SealInv, TypeInv, PageStep, UNCHANGED focus PROVE TypeInv'
    OBVIOUS
  <1> DEFINE n == made.thoughts
  <1>0. /\ WinFits(win, n) /\ DraftsFit(drafts, n) /\ TasksFit(jobs, n) /\ FramesFit(line.sent, n)
        /\ SendsFit(reqs, n) /\ LogFits(log, n) /\ peerKey \in {Nil, Peer}
        /\ lost \subseteq 1..MaxFiles /\ LineOK(line, log) /\ win.chat \in Chats \cup {Nil}
        /\ MaxFiles \in Nat
    BY ComposerAssumption DEF SealInv, WinOK, TypeInv
  <1>1. CASE Aside
    <2>1. GroupTypes'
      BY <1>1, TypesOfGroup DEF Aside, TypeInv, RolesFit, GroupTypes, AskersFit, Members
    <2>2. DraftsFit(drafts', n) /\ TasksFit(jobs', n) /\ FramesFit(line'.sent, n)
      BY <1>0, <1>1 DEF Aside, TextStays, TasksFit
    <2>3. Fitting(n) /\ (UNCHANGED made \/ Move)
      BY <1>1, <2>1, <2>2 DEF Fitting, Aside
    <2>4. QED
      BY <2>3, FittingKeeps
  <1>2. CASE Leaves
    <2>1. PICK J : SealsIn(J) = SealsIn(jobs) /\ CloseChat(J)
      BY <1>2 DEF Leaves
    <2>2. Switch(Nil, J, drafts, [win.mem EXCEPT !["group"] = Nil]) /\ TasksFit(J, n)
      BY <1>0, <2>1 DEF CloseChat, TasksFit
    <2>3. WinFits(win', n) /\ DraftsFit(drafts', n) /\ TasksFit(jobs', n)
      BY <1>0, <2>2, SwitchFits
    <2>4. GroupTypes'
      BY <1>2 DEF Leaves, TypeInv, GroupTypes, groupvars, Members
    <2>5. Fitting(n) /\ UNCHANGED made
      BY <1>0, <1>2, <2>3, <2>4 DEF Fitting, Leaves, groupvars
    <2>6. QED
      BY <2>5, FittingKeeps
  <1>3. ASSUME NEW k \in 0..Len(line.sent), Cut(k) PROVE TypeInv'
    <2> DEFINE cut == {line.sent[i] : i \in (k + 1)..Len(line.sent)}
    <2>1. /\ line'.sent = SubSeq(line.sent, 1, k) /\ win' \in {win, Doubted("missed")} /\ Move
          /\ lost' = lost \cup ({f.batch : f \in cut} \ {0})
                          \cup IF win.pending = Nil THEN {} ELSE {win.pending.files}
          /\ UNCHANGED <<groupvars, log, drafts, peerKey, jobs>>
      BY <1>3 DEF Cut, Break
    <2>2. IsSeq(line.sent)
      BY <1>0 DEF LineOK
    <2>3. FramesFit(line'.sent, n)
      BY <1>0, <2>1, <2>2, PrefixSeq DEF FramesFit
    <2>4. \A f \in cut : f.batch \in 0..MaxFiles
      <3>1. PICK S : line.sent \in Seq(S)
        BY <2>2 DEF IsSeq
      <3>2. (k + 1)..Len(line.sent) \subseteq DOMAIN line.sent
        BY <3>1
      <3>3. QED
        BY <1>0, <3>2 DEF FramesFit, FrameFits
    <2> HIDE DEF cut
    <2>5. {f.batch : f \in cut} \ {0} \subseteq 1..MaxFiles
      BY <1>0, <2>4
    <2>6. lost' \subseteq 1..MaxFiles
      BY <1>0, <2>1, <2>5 DEF WinFits
    <2>7. WinFits(win', n)
      BY <1>0, <2>1, DoubtFits DEF SealInv
    <2>8. GroupTypes'
      BY <2>1 DEF TypeInv, GroupTypes, groupvars, Members
    <2>9. Fitting(n)
      BY <1>0, <2>1, <2>3, <2>6, <2>7, <2>8 DEF Fitting, groupvars
    <2>10. QED
      BY <2>1, <2>9, FittingKeeps
  <1>4. CASE Die
    <2>1. /\ win' = [Closed EXCEPT !.mem = win.mem] /\ jobs' = {} /\ peerKey' = Nil
          /\ line' = [line EXCEPT !.up = FALSE] /\ Move
          /\ UNCHANGED <<groupvars, log, drafts, lost>>
      BY <1>4 DEF Die, Break
    <2>2. /\ win'.text = {} /\ win'.files = 0 /\ win'.pending = Nil /\ win'.status = "loading"
          /\ win'.doubt = {} /\ win'.chat = Nil
      BY <2>1 DEF Closed
    <2>3. WinFits(win', n)
      BY <1>0, <2>2, ComposerAssumption DEF WinFits, Chats
    <2>4. TasksFit(jobs', n)
      BY <2>1 DEF TasksFit, SealsIn
    <2>5. line'.sent = line.sent
      BY <1>0, <2>1 DEF LineOK
    <2>6. GroupTypes'
      BY <2>1 DEF TypeInv, GroupTypes, groupvars, Members
    <2>7. Fitting(n)
      BY <1>0, <2>1, <2>3, <2>4, <2>5, <2>6 DEF Fitting, groupvars
    <2>8. QED
      BY <2>1, <2>7, FittingKeeps
  <1>5. QED
    BY <1>1, <1>2, <1>3, <1>4, PageMoves

\* At the start nobody typed anything.
LEMMA InitTypes == ComposerInit => TypeInv
  <1> SUFFICES ASSUME ComposerInit PROVE TypeInv
    OBVIOUS
  <1>1. GroupTypes
    BY GroupsAssumption DEF ComposerInit, GroupsInit, GroupTypes, Members
  <1>2. WinFits(win, made.thoughts)
    BY ComposerAssumption DEF ComposerInit, Closed, WinFits, Chats
  <1>3. MadeFits(made, focus)
    BY ComposerAssumption DEF ComposerInit, MadeFits
  <1>4. FramesFit(line.sent, made.thoughts)
    BY NoneIsSeq DEF ComposerInit, FramesFit
  <1>5. LogFits(log, made.thoughts)
    BY NoneIsSeq DEF ComposerInit, LogFits
  <1>6. /\ DraftsFit(drafts, made.thoughts) /\ TasksFit(jobs, made.thoughts)
        /\ SendsFit(reqs, made.thoughts) /\ peerKey \in {Nil, Peer} /\ lost \subseteq 1..MaxFiles
    BY DEF ComposerInit, GroupsInit, DraftsFit, TasksFit, SealsIn, SendsFit
  <1>7. QED
    BY <1>1, <1>2, <1>3, <1>4, <1>5, <1>6 DEF TypeInv

\* What is typed, sent and stored, and the keys, picks and doubts, keep their types.
THEOREM TypesStayTrue == ComposerSpec => []TypeInv
  <1>1. GroupInv /\ SealInv /\ TypeInv /\ [ComposerNext]_composervars => TypeInv'
    <2> SUFFICES ASSUME GroupInv, SealInv, TypeInv, [ComposerNext]_composervars PROVE TypeInv'
      OBVIOUS
    <2>1. CASE UNCHANGED composervars
      BY <2>1 DEF composervars, groupvars, chatvars, TypeInv, GroupTypes, Members
    <2>2. CASE ComposerNext
      BY <2>2, UserKeepsTypes, ServerKeepsTypes, PageKeepsTypes DEF ComposerNext
    <2>3. QED
      BY <2>1, <2>2
  <1>2. QED
    BY <1>1, InitTypes, ChecksStayTrue, SealsStayTrue, PTL DEF ComposerSpec

\* The types of the composer's state (ChatWindow.tsx, MessageComposer.tsx): texts are of what
\* was typed, a group's window is ready exactly when it has keys, and bounds are kept.
THEOREM ComposerTypeCorrect == ComposerSpec => []ComposerTypeOK
  <1>1. SealInv /\ TypeInv => ComposerTypeOK
    <2> SUFFICES ASSUME SealInv, TypeInv PROVE ComposerTypeOK
      OBVIOUS
    <2>1. 1..made.thoughts \subseteq Thoughts
      BY ThoughtsCount
    <2>2. GroupTypes /\ peerKey \in {Nil, Peer} /\ lost \subseteq 1..MaxFiles
      BY DEF TypeInv
    <2>3. win.chat \in Chats \cup {Nil}
      BY DEF SealInv, WinOK
    <2>4. /\ win.status \in {"loading", "ready", "not-ready"} /\ win.files \in 0..MaxFiles
          /\ win.text \subseteq Thoughts
          /\ win.doubt \subseteq {"missed", "onboarded", "failed", "kept"}
          /\ win.chat = "group" => (win.status = "ready" <=> win.keys # Nil)
      BY <2>1 DEF TypeInv, WinFits
    <2>5. \A c \in Chats : drafts[c] \subseteq Thoughts
      BY <2>1 DEF TypeInv, DraftsFit
    <2>6. /\ made.moves <= focus.moves /\ made.thoughts <= focus.thoughts
          /\ made.files <= MaxFiles
      BY DEF TypeInv, MadeFits
    <2>7. QED
      BY <2>2, <2>3, <2>4, <2>5, <2>6 DEF ComposerTypeOK
  <1>2. QED
    BY <1>1, SealsStayTrue, TypesStayTrue, PTL

----------------------------------------------------------------------------
(* Where a thought is: at home, in the composer or the draft of one chat,   *)
(* with or without a task that encrypts it; or away, in one frame, one      *)
(* request or one message.                                                  *)

One(S) == \A x, y \in S : x = y

Sealing(t) == {j \in SealsIn(jobs) : t \in j.text}
OnLine(t) == {i \in DOMAIN line.sent : t \in line.sent[i].text}
Asked(t) == {r \in Sending("composer") : t \in r.frame.text}
Letters(c, t) == {n \in DOMAIN log[c] : log[c][n].via = "composer" /\ t \in log[c][n].text}

IsKept(t) == \E c \in Chats : Letters(c, t) # {}
Away(t) == OnLine(t) # {} \/ Asked(t) # {} \/ IsKept(t)
Written(t) == t \in win.text \/ \E c \in Chats : t \in drafts[c]
Read(t) == \E c \in Chats : \E n \in DOMAIN log[c] : t \in log[c][n].text

\* It is in one place of each kind at most, and on its way in one kind only.
Lone(t) ==
    /\ One(Sealing(t)) /\ One(OnLine(t)) /\ One(Asked(t))
    /\ \A c, d \in Chats : \A k \in Letters(c, t), l \in Letters(d, t) : c = d /\ k = l
    /\ OnLine(t) = {} \/ (Asked(t) = {} /\ ~ IsKept(t))
    /\ Asked(t) = {} \/ ~ IsKept(t)

\* A chat it belongs to while it is at home.
IsHome(c, t) ==
    \/ t \in drafts[c] \/ (c = win.chat /\ t \in win.text)
    \/ \E j \in Sealing(t) : j.chat = c

\* It has one home, shown if the chat is open, and none once it is away.
AtHome(t) ==
    /\ \A c, d \in Chats : IsHome(c, t) /\ IsHome(d, t) => c = d
    /\ win.chat # Nil /\ t \in drafts[win.chat] => t \in win.text
    /\ (\E c \in Chats : IsHome(c, t)) => ~ Away(t)
    /\ Sealing(t) # {} => Written(t)

Good(t) == Lone(t) /\ AtHome(t) /\ (Written(t) \/ OnLine(t) # {} \/ Asked(t) # {} \/ Read(t))

\* What was typed and not dropped is in its place.
TextInv == \A t \in 1..made.thoughts : fate[t] = {} => Good(t)

\* What is away stays where it is; a frame may have come nearer, a request may have learnt
\* who moved.
AwaySame(t) ==
    /\ \A c \in Chats : Letters(c, t)' = Letters(c, t)
    /\ OnLine(t)' = {} <=> OnLine(t) = {}
    /\ One(OnLine(t)) => One(OnLine(t)')
    /\ Asked(t)' = {} <=> Asked(t) = {}
    /\ One(Asked(t)) => One(Asked(t)')
    /\ Read(t) => Read(t)'

\* A thought may move between the composer and the drafts of its home.
LEMMA HomeMoves ==
    ASSUME NEW t, Good(t), AwaySame(t), Sealing(t)' = Sealing(t),
           \A c \in Chats : IsHome(c, t)' => IsHome(c, t), Written(t) => Written(t)',
           win'.chat # Nil /\ t \in drafts'[win'.chat] => t \in win'.text
    PROVE  Good(t)'
  <1>1. /\ OnLine(t)' = {} <=> OnLine(t) = {}
        /\ IsKept(t)' = IsKept(t)
        /\ Asked(t)' = {} <=> Asked(t) = {}
    BY DEF AwaySame, IsKept
  <1>2. Lone(t)'
    <2>1. One(Sealing(t))' /\ One(OnLine(t))' /\ One(Asked(t))'
      BY <1>1 DEF One, AwaySame, Good, Lone
    <2>2. \A c, d \in Chats : \A k \in Letters(c, t)', l \in Letters(d, t)' : c = d /\ k = l
      BY DEF AwaySame, Good, Lone
    <2>3. /\ OnLine(t)' = {} \/ (Asked(t)' = {} /\ ~ IsKept(t)')
          /\ Asked(t)' = {} \/ ~ IsKept(t)'
      BY <1>1 DEF Good, Lone
    <2>4. QED
      BY <2>1, <2>2, <2>3 DEF Lone
  <1>3. Away(t)' = Away(t)
    BY <1>1 DEF Away
  <1>4. AtHome(t)'
    BY <1>3 DEF AtHome, Good
  <1>5. QED
    BY <1>1, <1>2, <1>4 DEF Good, AwaySame

\* A step that does not touch frames, requests and messages.
LEMMA AwayStays ==
    ASSUME NEW t, line'.sent = line.sent, Sending("composer")' = Sending("composer"), LettersStay
    PROVE  AwaySame(t)
  <1>1. OnLine(t)' = OnLine(t) /\ Asked(t)' = Asked(t)
    BY DEF OnLine, Asked
  <1>2. \A c \in Chats : Letters(c, t)' = Letters(c, t)
    BY DEF LettersStay, Letters
  <1>3. Read(t) => Read(t)'
    BY DEF LettersStay, Read
  <1>4. QED
    BY <1>1, <1>2, <1>3 DEF AwaySame

\* A step that moves no text leaves every thought in its place.
LEMMA StaysGood ==
    ASSUME NEW t, Good(t), TextStays
    PROVE  Good(t)'
  <1>1. AwaySame(t)
    BY AwayStays DEF TextStays
  <1>2. Sealing(t)' = Sealing(t)
    BY DEF Sealing, TextStays
  <1>3. /\ \A c \in Chats : IsHome(c, t)' => IsHome(c, t)
        /\ Written(t) => Written(t)'
    BY <1>2 DEF IsHome, Written, TextStays, SameText
  <1>4. win'.chat # Nil /\ t \in drafts'[win'.chat] => t \in win'.text
    BY DEF TextStays, SameText, Good, AtHome
  <1>5. QED
    BY <1>1, <1>2, <1>3, <1>4, HomeMoves

\* So it goes for all of them.
LEMMA TextStaysKept == TextInv /\ TextStays => TextInv'
  BY StaysGood DEF TextInv, TextStays

\* Nothing became of a thought unless a step says so.
LEMMA FateTold ==
    ASSUME NEW S, NEW what, NEW t \in Thoughts, Fated(S, what)[t] = {}
    PROVE  fate[t] = {} /\ t \notin S
  BY DEF Fated

\* What nobody typed is nowhere.
LEMMA Nowhere ==
    ASSUME SealInv, TypeInv, NEW t, t \notin 1..made.thoughts
    PROVE  /\ t \notin win.text /\ \A c \in Chats : t \notin drafts[c]
           /\ Sealing(t) = {} /\ OnLine(t) = {} /\ Asked(t) = {}
           /\ \A c \in Chats : Letters(c, t) = {}
  <1>1. t \notin win.text /\ \A c \in Chats : t \notin drafts[c]
    BY DEF TypeInv, WinFits, DraftsFit
  <1>2. Sealing(t) = {} /\ OnLine(t) = {}
    BY DEF TypeInv, TasksFit, FramesFit, FrameFits, Sealing, OnLine
  <1>3. Asked(t) = {}
    BY DEF TypeInv, SendsFit, SendFits, FrameFits, Asked, Sending
  <1>4. \A c \in Chats : Letters(c, t) = {}
    BY DEF TypeInv, LogFits, Letters
  <1>5. QED
    BY <1>1, <1>2, <1>3, <1>4

\* A new thought has one home.
LEMMA NewThought ==
    ASSUME SealInv, TypeInv, NEW t, t \notin 1..made.thoughts, AwaySame(t),
           Sealing(t)' = Sealing(t), NEW h \in Chats, Written(t)',
           \A c \in Chats : t \in drafts'[c] => c = h, t \in win'.text => win'.chat = h,
           win'.chat # Nil /\ t \in drafts'[win'.chat] => t \in win'.text
    PROVE  Good(t)'
  <1>1. /\ Sealing(t) = {} /\ OnLine(t) = {} /\ Asked(t) = {}
        /\ \A c \in Chats : Letters(c, t) = {}
    BY Nowhere
  <1>2. /\ Sealing(t)' = {} /\ OnLine(t)' = {} /\ Asked(t)' = {}
        /\ \A c \in Chats : Letters(c, t)' = {}
    BY <1>1 DEF AwaySame
  <1>3. ~ Away(t)' /\ Lone(t)'
    BY <1>2 DEF Away, IsKept, Lone, One
  <1>4. \A c \in Chats : IsHome(c, t)' => c = h
    BY <1>2 DEF IsHome
  <1>5. AtHome(t)'
    BY <1>2, <1>3, <1>4 DEF AtHome
  <1>6. QED
    BY <1>3, <1>5 DEF Good

\* A change of the chat keeps a thought at home.
LEMMA SwitchKeepsText ==
    ASSUME SealInv, TypeInv, NEW t, Good(t), AwaySame(t),
           NEW c \in Chats \cup {Nil}, NEW J, NEW D, NEW mem, Switch(c, J, D, mem),
           SealsIn(J) = SealsIn(jobs), DOMAIN D = Chats,
           \A d \in Chats : t \in D[d] <=> t \in drafts[d]
    PROVE  Good(t)'
  <1>1. WinFits(win, made.thoughts) /\ win.chat \in Chats \cup {Nil}
    BY DEF SealInv, TypeInv, WinOK
  <1>2. win'.chat = c /\ win'.text = (IF c = Nil THEN {} ELSE drafts'[c])
    BY <1>1, SwitchMovesText
  <1>3. \A d \in Chats : drafts'[d] = IF d = win.chat THEN win.text ELSE D[d]
    BY <1>1, SwitchMovesText
  <1>4. SealsIn(jobs') = SealsIn(jobs)
    BY <1>1, SwitchMovesText
  <1>5. Sealing(t)' = Sealing(t)
    BY <1>4 DEF Sealing
  <1>6. \A e \in Chats : IsHome(e, t)' => IsHome(e, t)
    <2> SUFFICES ASSUME NEW e \in Chats, IsHome(e, t)' PROVE IsHome(e, t)
      OBVIOUS
    <2>1. t \in drafts'[e] \/ \E j \in Sealing(t) : j.chat = e
      BY <1>2, <1>3, <1>5 DEF IsHome
    <2>2. QED
      BY <1>3, <2>1 DEF IsHome
  <1>7. Written(t) => Written(t)'
    <2>1. CASE t \in win.text
      <3>1. win.chat \in Chats
        BY <1>1, <2>1 DEF WinFits
      <3>2. t \in drafts'[win.chat]
        BY <1>3, <2>1, <3>1
      <3>3. QED
        BY <3>1, <3>2 DEF Written
    <2>2. ASSUME NEW d \in Chats, t \in drafts[d], t \notin win.text PROVE Written(t)'
      <3>1. d # win.chat
        BY <2>2, ComposerAssumption DEF Good, AtHome
      <3>2. t \in drafts'[d]
        BY <1>3, <2>2, <3>1
      <3>3. QED
        BY <3>2 DEF Written
    <2>3. QED
      BY <2>1, <2>2 DEF Written
  <1>8. win'.chat # Nil /\ t \in drafts'[win'.chat] => t \in win'.text
    BY <1>2
  <1>9. QED
    BY <1>5, <1>6, <1>7, <1>8, HomeMoves

\* Steps of the user's that change the text in the composer, the drafts or history only.
LEMMA ComposerStays ==
    ASSUME NEW t, UNCHANGED <<groupvars, log, line>>
    PROVE  AwaySame(t)
  <1>1. Sending("composer")' = Sending("composer") /\ LettersStay
    BY SameLogStays DEF Sending, groupvars
  <1>2. QED
    BY <1>1, AwayStays

\* The composer is handed over, or a task begins, ends or fails.
LEMMA HandingKeeps ==
    ASSUME SealInv, TypeInv, TextInv, UNCHANGED focus,
           Submit \/ \E j \in jobs : Sealed(j) \/ NotSealed(j)
    PROVE  TextInv'
  <1>0. /\ WinFits(win, made.thoughts) /\ DraftsFit(drafts, made.thoughts)
        /\ DOMAIN win = WinFields /\ win.chat \in Chats \cup {Nil} /\ IsSeq(line.sent)
        /\ LineOK(line, log) /\ 1..made.thoughts \subseteq Thoughts
    BY ThoughtsCount DEF SealInv, TypeInv, WinOK, LineOK
  <1>1. CASE Submit
    <2>1. /\ jobs' = jobs \cup {SealJob} /\ win.chat # Nil
          /\ fate' = Fated({t \in win.text : \E j \in jobs : j.kind = "seal" /\ t \in j.text},
                           "again")
          /\ UNCHANGED <<groupvars, log, drafts, peerKey, mail, line, made>>
      BY <1>1 DEF Submit, Enabled
    <2>2. win'.chat = win.chat /\ win'.text = win.text
      BY <1>0, <1>1 DEF Submit, WinFields
    <2>3. SealJob.kind = "seal" /\ SealJob.text = win.text /\ SealJob.chat = win.chat
      BY DEF SealJob
    <2> SUFFICES ASSUME NEW t \in 1..made.thoughts, fate'[t] = {} PROVE Good(t)'
      BY <2>1 DEF TextInv
    <2>4. /\ fate[t] = {} /\ Good(t)
          /\ t \in win.text => Sealing(t) = {}
      <3>1. t \in Thoughts
        BY <1>0
      <3>2. /\ fate[t] = {}
            /\ t \notin {u \in win.text : \E j \in jobs : j.kind = "seal" /\ u \in j.text}
        BY <2>1, <3>1, FateTold
      <3>3. QED
        BY <3>2 DEF TextInv, Sealing, SealsIn
    <2>5. AwaySame(t)
      BY <2>1, ComposerStays
    <2>6. CASE t \notin win.text
      <3>1. Sealing(t)' = Sealing(t)
        BY <2>1, <2>3, <2>6 DEF Sealing, SealsIn
      <3>2. \A c \in Chats : IsHome(c, t)' => IsHome(c, t)
        BY <2>1, <2>2, <3>1 DEF IsHome
      <3>3. QED
        BY <2>1, <2>2, <2>4, <2>5, <3>1, <3>2, HomeMoves DEF Written, Good, AtHome
    <2>7. CASE t \in win.text
      <3>1. Sealing(t)' = {SealJob}
        BY <2>1, <2>3, <2>4, <2>7 DEF Sealing, SealsIn
      <3>2. IsHome(win.chat, t) /\ win.chat \in Chats
        BY <1>0, <2>1, <2>7 DEF IsHome
      <3>3. ~ Away(t) /\ \A c \in Chats : IsHome(c, t) => c = win.chat
        BY <2>4, <3>2 DEF Good, AtHome
      <3>4. ~ Away(t)'
        BY <2>5, <3>3 DEF Away, AwaySame, IsKept
      <3>5. \A c \in Chats : IsHome(c, t)' => c = win.chat
        BY <2>1, <2>2, <2>3, <3>1, <3>3 DEF IsHome
      <3>6. Written(t)' /\ t \in win'.text
        BY <2>2, <2>7 DEF Written
      <3>7. AtHome(t)'
        BY <3>4, <3>5, <3>6 DEF AtHome
      <3>8. Lone(t)'
        BY <3>1, <3>4 DEF Lone, One, Away, IsKept
      <3>9. QED
        BY <3>6, <3>7, <3>8 DEF Good
    <2>8. QED
      BY <2>6, <2>7
  <1>2. ASSUME NEW j \in jobs, Sealed(j) PROVE TextInv'
    <2>1. /\ j.kind = "seal" /\ line'.sent = Append(line.sent, Frame(j)) /\ jobs' = jobs \ {j}
          /\ drafts' = [drafts EXCEPT ![j.chat] = {}]
          /\ fate' = Fated((win.text \cup drafts[j.chat]) \ j.text, "cleared")
          /\ UNCHANGED <<groupvars, log, peerKey, mail, made, lost>>
      BY <1>0, <1>2 DEF Sealed, DraftGone, LineOK
    <2>2. win'.chat = win.chat /\ win'.text = {}
      BY <1>0, <1>2 DEF Sealed, WinFields
    <2>3. j.chat \in Chats
      BY <2>1 DEF SealInv, JobsOK, JobOK
    <2>4. /\ DOMAIN drafts = Chats /\ drafts'[j.chat] = {}
          /\ \A c \in Chats \ {j.chat} : drafts'[c] = drafts[c]
      BY <1>0, <2>1, <2>3 DEF DraftsFit
    <2>5. Frame(j).text = j.text
      BY DEF Frame
    <2> SUFFICES ASSUME NEW t \in 1..made.thoughts, fate'[t] = {} PROVE Good(t)'
      BY <2>1 DEF TextInv
    <2>6. /\ fate[t] = {} /\ t \notin (win.text \cup drafts[j.chat]) \ j.text
      BY <1>0, <2>1, FateTold
    <2>7. Good(t)
      BY <2>6 DEF TextInv
    <2>8. Asked(t)' = Asked(t) /\ \A c \in Chats : Letters(c, t)' = Letters(c, t)
      BY <2>1 DEF Asked, Sending, Letters, groupvars
    <2>9. Sealing(t)' = Sealing(t) \ {j}
      BY <2>1 DEF Sealing, SealsIn
    <2>10. CASE t \in j.text
      <3>1. j \in Sealing(t)
        BY <2>1, <2>10 DEF Sealing, SealsIn
      <3>2. IsHome(j.chat, t) /\ Sealing(t)' = {}
        BY <2>7, <2>9, <3>1 DEF IsHome, Good, Lone, One
      <3>3. ~ Away(t) /\ \A c \in Chats : IsHome(c, t) => c = j.chat
        BY <2>3, <2>7, <3>2 DEF Good, AtHome
      <3>4. Asked(t)' = {} /\ ~ IsKept(t)' /\ OnLine(t) = {}
        BY <2>8, <3>3 DEF Away, IsKept
      <3>5. One(OnLine(t))' /\ OnLine(t)' # {}
        <4> HIDE DEF Frame
        <4>1. PICK S : line.sent \in Seq(S)
          BY <1>0 DEF IsSeq
        <4> DEFINE s == Append(line.sent, Frame(j))
        <4>2. /\ DOMAIN s = 1..(Len(line.sent) + 1) /\ s[Len(line.sent) + 1] = Frame(j)
              /\ \A i \in 1..Len(line.sent) : s[i] = line.sent[i] /\ i \in DOMAIN line.sent
              /\ Len(line.sent) \in Nat
          BY <4>1
        <4> HIDE DEF s
        <4>3. OnLine(t)' = {i \in DOMAIN s : t \in s[i].text}
          BY <2>1 DEF OnLine, s
        <4>4. OnLine(t)' = {Len(line.sent) + 1}
          <5>1. Len(line.sent) + 1 \in OnLine(t)'
            BY <2>5, <2>10, <4>2, <4>3
          <5>2. \A i \in 1..Len(line.sent) : t \notin s[i].text
            BY <3>4, <4>2 DEF OnLine
          <5>3. \A i \in OnLine(t)' : i = Len(line.sent) + 1
            BY <4>2, <4>3, <5>2
          <5>4. QED
            BY <5>1, <5>3
        <4>5. QED
          BY <4>4 DEF One
      <3>6. \A c \in Chats : ~ IsHome(c, t)'
        <4>1. \A c \in Chats \ {j.chat} : t \notin drafts[c]
          BY <3>3 DEF IsHome
        <4>2. QED
          BY <2>2, <2>4, <3>2, <4>1 DEF IsHome
      <3>7. Lone(t)'
        BY <3>2, <3>4, <3>5 DEF Lone, One, IsKept
      <3>8. AtHome(t)'
        <4>1. win'.chat # Nil => t \notin drafts'[win'.chat]
          BY <1>0, <2>2, <3>6 DEF IsHome
        <4>2. QED
          BY <3>2, <3>6, <4>1 DEF AtHome
      <3>9. QED
        BY <3>5, <3>7, <3>8 DEF Good
    <2>11. CASE t \notin j.text
      <3>1. t \notin win.text /\ t \notin drafts[j.chat] /\ Sealing(t)' = Sealing(t)
        BY <2>6, <2>9, <2>11 DEF Sealing
      <3>2. OnLine(t)' = OnLine(t)
        <4> HIDE DEF Frame
        <4>1. \A i \in DOMAIN line'.sent : \/ i \in DOMAIN line.sent /\ line'.sent[i] = line.sent[i]
                                           \/ line'.sent[i] = Frame(j)
          BY <1>0, <2>1, AppendSeq
        <4>2. \A i \in DOMAIN line.sent : i \in DOMAIN line'.sent /\ line'.sent[i] = line.sent[i]
          BY <1>0, <2>1, AppendSeq
        <4>3. QED
          BY <2>5, <2>11, <4>1, <4>2 DEF OnLine
      <3>3. AwaySame(t)
        BY <2>1, <2>8, <3>2 DEF AwaySame, Read
      <3>4. \A c \in Chats : t \in drafts'[c] <=> t \in drafts[c]
        BY <2>4, <3>1
      <3>5. \A c \in Chats : IsHome(c, t)' => IsHome(c, t)
        BY <2>2, <3>1, <3>4 DEF IsHome
      <3>6. Written(t) => Written(t)'
        BY <3>1, <3>4 DEF Written
      <3>7. win'.chat # Nil /\ t \in drafts'[win'.chat] => t \in win'.text
        BY <1>0, <2>2, <2>7, <3>1, <3>4 DEF Good, AtHome
      <3>8. QED
        BY <2>7, <3>1, <3>3, <3>5, <3>6, <3>7, HomeMoves
    <2>12. QED
      BY <2>10, <2>11
  <1>3. ASSUME NEW j \in jobs, NotSealed(j) PROVE TextInv'
    <2>1. /\ jobs' = jobs \ {j}
          /\ UNCHANGED <<groupvars, log, drafts, peerKey, mail, line, fate, lost>>
          /\ made'.thoughts = made.thoughts
      BY <1>3, MoveFits DEF NotSealed, Break
    <2>2. win'.chat = win.chat /\ win'.text = win.text
      BY <1>0, <1>3 DEF NotSealed, WinFields
    <2> SUFFICES ASSUME NEW t \in 1..made.thoughts, fate[t] = {} PROVE Good(t)'
      BY <2>1 DEF TextInv
    <2>3. Good(t) /\ AwaySame(t)
      BY <2>1, ComposerStays DEF TextInv
    <2>4. Sealing(t)' \subseteq Sealing(t)
      BY <2>1 DEF Sealing, SealsIn
    <2>5. Written(t)' = Written(t) /\ \A c \in Chats : IsHome(c, t)' => IsHome(c, t)
      BY <2>1, <2>2, <2>4 DEF Written, IsHome
    <2>6. Away(t)' = Away(t) /\ IsKept(t)' = IsKept(t)
      BY <2>3 DEF Away, IsKept, AwaySame
    <2>7. AtHome(t)'
      BY <2>1, <2>2, <2>3, <2>4, <2>5, <2>6 DEF Good, AtHome
    <2>8. One(Sealing(t))' /\ One(OnLine(t))' /\ One(Asked(t))'
      BY <2>3, <2>4 DEF Good, Lone, One, AwaySame
    <2>9. Lone(t)'
      BY <2>3, <2>6, <2>8 DEF Good, Lone, AwaySame
    <2>10. Read(t) => Read(t)'
      BY <2>3 DEF AwaySame
    <2>11. QED
      BY <2>3, <2>5, <2>7, <2>9, <2>10 DEF Good, AwaySame
  <1>4. QED
    BY <1>1, <1>2, <1>3

\* The user opens a chat, or shares a text with one.
LEMMA ChatsKeepText ==
    ASSUME SealInv, TypeInv, TextInv, UNCHANGED focus, NEW c \in Chats, OpenChat(c) \/ Share(c)
    PROVE  TextInv'
  <1>0. /\ WinFits(win, made.thoughts) /\ DraftsFit(drafts, made.thoughts)
        /\ DOMAIN win = WinFields /\ win.chat \in Chats \cup {Nil} /\ MadeFits(made, focus)
        /\ 1..made.thoughts \subseteq Thoughts /\ made.thoughts \in Nat
        /\ made.thoughts + 1 \notin 1..made.thoughts
    BY ThoughtsCount DEF SealInv, TypeInv, WinOK
  <1>1. CASE OpenChat(c)
    <2>1. /\ Switch(c, jobs, drafts, win.mem) /\ (UNCHANGED made \/ Move)
          /\ UNCHANGED <<groupvars, log, peerKey, mail, line, fate, lost>>
      BY <1>1 DEF OpenChat
    <2>2. made'.thoughts = made.thoughts
      BY <2>1, MoveFits
    <2> SUFFICES ASSUME NEW t \in 1..made.thoughts, fate[t] = {} PROVE Good(t)'
      BY <2>1, <2>2 DEF TextInv
    <2>3. Good(t) /\ AwaySame(t)
      BY <2>1, ComposerStays DEF TextInv
    <2>4. DOMAIN drafts = Chats
      BY <1>0 DEF DraftsFit
    <2>5. QED
      BY <2>1, <2>3, <2>4, SwitchKeepsText
  <1>2. CASE Share(c)
    <2> PICK new : new = made.thoughts + 1
      OBVIOUS
    <2> DEFINE D == [drafts EXCEPT ![c] = @ \cup {new}]
               m == [made EXCEPT !.thoughts = new]
    <2>1. /\ made.moves < focus.moves /\ made' = Moved(m) /\ new <= focus.thoughts
          /\ \/ /\ win.chat = c /\ drafts' = D /\ win' = Reread(D) /\ jobs' = jobs
                /\ fate' = Fated(win.text \ D[c], "dropped")
             \/ win.chat # c /\ Switch(c, jobs, D, win.mem) /\ fate' = fate
          /\ UNCHANGED <<groupvars, log, peerKey, mail, line, lost>>
      BY <1>2 DEF Share
    <2>2. /\ m \in [thoughts : Nat, files : Nat, moves : Nat] /\ m.thoughts = new
          /\ m.moves = made.moves /\ m.files = made.files /\ new \in Nat
          /\ \A t \in 1..new : t \in 1..made.thoughts \/ t = new
      BY <1>0 DEF MadeFits
    <2>3. made'.thoughts = new
      <3> HIDE DEF m
      <3>1. QED
        BY <1>0, <2>1, <2>2, MoveCounts
    <2>4. DOMAIN drafts = Chats /\ DOMAIN D = Chats /\ D[c] = drafts[c] \cup {new}
          /\ \A d \in Chats \ {c} : D[d] = drafts[d]
      BY <1>0 DEF DraftsFit
    <2>5. \A t : AwaySame(t)
      BY <2>1, ComposerStays
    <2>6. new \notin win.text /\ \A d \in Chats : new \notin drafts[d]
      BY <1>0 DEF WinFits, DraftsFit
    <2>7. new \notin 1..made.thoughts
      BY <1>0
    <2> HIDE DEF D, m
    <2>8. CASE /\ win.chat = c /\ drafts' = D /\ win' = Reread(D) /\ jobs' = jobs
               /\ fate' = Fated(win.text \ D[c], "dropped")
      <3>1. win'.chat = c /\ win'.text = D[c] /\ \A t : Sealing(t)' = Sealing(t)
        BY <1>0, <2>8 DEF Reread, WinFields, Sealing
      <3>2. ASSUME NEW t \in 1..made.thoughts, fate'[t] = {} PROVE Good(t)'
        <4>1. fate[t] = {} /\ t \notin win.text \ D[c]
          BY <1>0, <2>8, <3>2, FateTold
        <4>2. Good(t) /\ t # new
          BY <2>7, <3>2, <4>1 DEF TextInv
        <4>3. \A d \in Chats : t \in drafts'[d] <=> t \in drafts[d]
          BY <2>4, <2>8, <4>2
        <4>4. \A e \in Chats : IsHome(e, t)' => IsHome(e, t)
          BY <2>8, <3>1, <4>3 DEF IsHome
        <4>5. Written(t) => Written(t)'
          BY <2>8, <3>1, <4>1, <4>3 DEF Written
        <4>6. win'.chat # Nil /\ t \in drafts'[win'.chat] => t \in win'.text
          BY <2>8, <3>1
        <4>7. QED
          BY <2>5, <3>1, <4>2, <4>4, <4>5, <4>6, HomeMoves
      <3>3. Good(new)'
        <4>1. Written(new)'
          BY <2>4, <3>1 DEF Written
        <4>2. \A d \in Chats : new \in drafts'[d] => d = c
          BY <2>4, <2>6, <2>8
        <4>3. win'.chat # Nil /\ new \in drafts'[win'.chat] => new \in win'.text
          BY <2>8, <3>1
        <4>4. QED
          BY <2>5, <2>7, <3>1, <4>1, <4>2, <4>3, NewThought
      <3>4. QED
        BY <2>2, <2>3, <3>2, <3>3 DEF TextInv
    <2>9. CASE win.chat # c /\ Switch(c, jobs, D, win.mem) /\ fate' = fate
      <3>1. ASSUME NEW t \in 1..made.thoughts, fate'[t] = {} PROVE Good(t)'
        <4>1. Good(t) /\ t # new
          BY <2>7, <2>9, <3>1 DEF TextInv
        <4>2. \A d \in Chats : t \in D[d] <=> t \in drafts[d]
          BY <2>4, <4>1
        <4>3. QED
          BY <2>4, <2>5, <2>9, <4>1, <4>2, SwitchKeepsText
      <3>2. Good(new)'
        <4>1. /\ win'.chat = c /\ win'.text = drafts'[c]
              /\ \A d \in Chats : drafts'[d] = IF d = win.chat THEN win.text ELSE D[d]
              /\ SealsIn(jobs') = SealsIn(jobs)
          BY <1>0, <2>4, <2>9, SwitchMovesText, ComposerAssumption
        <4>2. Sealing(new)' = Sealing(new)
          BY <4>1 DEF Sealing
        <4>3. \A d \in Chats : new \in drafts'[d] => d = c
          BY <2>4, <2>6, <4>1
        <4>4. Written(new)'
          BY <2>4, <2>9, <4>1 DEF Written
        <4>5. win'.chat # Nil /\ new \in drafts'[win'.chat] => new \in win'.text
          BY <4>1
        <4>6. QED
          BY <2>5, <2>7, <4>1, <4>2, <4>3, <4>4, <4>5, NewThought
      <3>3. QED
        BY <2>2, <2>3, <3>1, <3>2 DEF TextInv
    <2>10. QED
      BY <2>1, <2>8, <2>9
  <1>3. QED
    BY <1>1, <1>2

\* The user types, picks files, or lets the draft be saved.
LEMMA TypingKeepsText ==
    ASSUME SealInv, TypeInv, TextInv, UNCHANGED focus,
           Type \/ SelectFiles \/ RemoveFiles \/ PersistDraft
    PROVE  TextInv'
  <1>0. /\ WinFits(win, made.thoughts) /\ DraftsFit(drafts, made.thoughts)
        /\ DOMAIN win = WinFields /\ win.chat \in Chats \cup {Nil} /\ MadeFits(made, focus)
        /\ 1..made.thoughts \subseteq Thoughts /\ made.thoughts \in Nat
        /\ made.thoughts + 1 \notin 1..made.thoughts
    BY ThoughtsCount DEF SealInv, TypeInv, WinOK
  <1>1. CASE Type
    <2> PICK new : new = made.thoughts + 1
      OBVIOUS
    <2>1. /\ win.chat \in Chats /\ made'.thoughts = new
          /\ win'.chat = win.chat /\ win'.text = win.text \cup {new}
          /\ UNCHANGED <<groupvars, log, drafts, peerKey, jobs, mail, line, fate, lost>>
      BY <1>0, <1>1 DEF Type, Enabled, WinFields, MadeFits
    <2>2. \A t \in 1..new : t \in 1..made.thoughts \/ t = new
      BY <1>0
    <2>3. \A t : AwaySame(t) /\ Sealing(t)' = Sealing(t)
      BY <2>1, ComposerStays DEF Sealing
    <2>4. new \notin 1..made.thoughts /\ \A d \in Chats : new \notin drafts[d]
      BY <1>0 DEF DraftsFit
    <2>5. ASSUME NEW t \in 1..made.thoughts, fate'[t] = {} PROVE Good(t)'
      <3>1. Good(t) /\ t # new
        BY <2>1, <2>4, <2>5 DEF TextInv
      <3>2. \A e \in Chats : IsHome(e, t)' => IsHome(e, t)
        BY <2>1, <2>3, <3>1 DEF IsHome
      <3>3. Written(t) => Written(t)'
        BY <2>1 DEF Written
      <3>4. win'.chat # Nil /\ t \in drafts'[win'.chat] => t \in win'.text
        BY <2>1, <3>1 DEF Good, AtHome
      <3>5. QED
        BY <2>3, <3>1, <3>2, <3>3, <3>4, HomeMoves
    <2>6. Good(new)'
      <3>1. Written(new)'
        BY <2>1 DEF Written
      <3>2. \A d \in Chats : new \in drafts'[d] => d = win.chat
        BY <2>1, <2>4
      <3>3. win'.chat # Nil /\ new \in drafts'[win'.chat] => new \in win'.text
        BY <2>1
      <3>4. QED
        BY <2>1, <2>3, <2>4, <3>1, <3>2, <3>3, NewThought
    <2>7. QED
      BY <2>1, <2>2, <2>5, <2>6 DEF TextInv
  <1>2. CASE SelectFiles \/ RemoveFiles
    <2>1. UNCHANGED <<groupvars, log, drafts, peerKey, jobs, mail, line, fate, lost>> /\ SameText
      BY <1>0, <1>2 DEF SelectFiles, RemoveFiles, SameText, WinFields
    <2>2. made'.thoughts = made.thoughts
      BY <1>0, <1>2, MoveFits DEF SelectFiles, RemoveFiles, MadeFits
    <2>3. TextStays
      BY <2>1, <2>2, SameLogStays DEF TextStays, Sending, groupvars
    <2>4. QED
      BY <2>3, TextStaysKept
  <1>3. CASE PersistDraft
    <2>1. /\ win.chat \in Chats /\ drafts' = [drafts EXCEPT ![win.chat] = win.text]
          /\ UNCHANGED <<groupvars, log, win, peerKey, jobs, mail, line, made, fate, lost>>
      BY <1>0, <1>3 DEF PersistDraft, Persisted
    <2>2. drafts'[win.chat] = win.text /\ \A d \in Chats \ {win.chat} : drafts'[d] = drafts[d]
      BY <1>0, <2>1 DEF DraftsFit
    <2> SUFFICES ASSUME NEW t \in 1..made.thoughts, fate[t] = {} PROVE Good(t)'
      BY <2>1 DEF TextInv
    <2>3. Good(t) /\ AwaySame(t) /\ Sealing(t)' = Sealing(t)
      BY <2>1, ComposerStays DEF TextInv, Sealing
    <2>4. \A e \in Chats : IsHome(e, t)' => IsHome(e, t)
      BY <2>1, <2>2, <2>3 DEF IsHome
    <2>5. Written(t) => Written(t)'
      <3>1. t \in win.text => Written(t)'
        BY <2>1 DEF Written
      <3>2. ASSUME NEW d \in Chats, t \in drafts[d], t \notin win.text PROVE Written(t)'
        <4>1. d # win.chat
          BY <2>3, <3>2, ComposerAssumption DEF Good, AtHome
        <4>2. QED
          BY <2>2, <3>2, <4>1 DEF Written
      <3>3. QED
        BY <3>1, <3>2 DEF Written
    <2>6. win'.chat # Nil /\ t \in drafts'[win'.chat] => t \in win'.text
      BY <2>1, <2>2
    <2>7. QED
      BY <2>3, <2>4, <2>5, <2>6, HomeMoves
  <1>4. QED
    BY <1>1, <1>2, <1>3

\* A reply empties the composer, an edit replaces its text.
LEMMA ReplacingKeepsText ==
    ASSUME SealInv, TypeInv, TextInv, UNCHANGED focus,
           Reply \/ \E i \in DOMAIN win.list : Edit(win.list[i])
    PROVE  TextInv'
  <1>0. /\ DOMAIN win = WinFields /\ 1..made.thoughts \subseteq Thoughts
    BY ThoughtsCount DEF SealInv, TypeInv, WinOK
  <1>1. PICK text, what :
            /\ win'.text = text /\ win'.chat = win.chat /\ Move
            /\ fate' = Fated(win.text \cup text, what)
            /\ UNCHANGED <<groupvars, log, drafts, peerKey, jobs, mail, line, lost>>
    <2>1. CASE Reply
      <3>1. /\ win'.text = {} /\ win'.chat = win.chat /\ Move
            /\ fate' = Fated(win.text \cup {}, "dropped")
            /\ UNCHANGED <<groupvars, log, drafts, peerKey, jobs, mail, line, lost>>
        BY <1>0, <2>1 DEF Reply, WinFields, Fated
      <3>2. QED
        BY <3>1
    <2>2. ASSUME NEW i \in DOMAIN win.list, Edit(win.list[i])
          PROVE  /\ win'.text = Message(win.list[i]).text /\ win'.chat = win.chat /\ Move
                 /\ fate' = Fated(win.text \cup Message(win.list[i]).text, "edited")
                 /\ UNCHANGED <<groupvars, log, drafts, peerKey, jobs, mail, line, lost>>
      BY <1>0, <2>2 DEF Edit, WinFields
    <2>3. QED
      BY <2>1, <2>2
  <1>2. made'.thoughts = made.thoughts
    BY <1>1, MoveFits
  <1> SUFFICES ASSUME NEW t \in 1..made.thoughts, fate'[t] = {} PROVE Good(t)'
    BY <1>2 DEF TextInv
  <1>3. fate[t] = {} /\ t \notin win.text /\ t \notin text
    BY <1>0, <1>1, FateTold
  <1>4. Good(t) /\ AwaySame(t) /\ Sealing(t)' = Sealing(t)
    BY <1>1, <1>3, ComposerStays DEF TextInv, Sealing
  <1>5. \A e \in Chats : IsHome(e, t)' => IsHome(e, t)
    BY <1>1, <1>3, <1>4 DEF IsHome
  <1>6. Written(t) => Written(t)'
    BY <1>1, <1>3 DEF Written
  <1>7. win'.chat # Nil /\ t \in drafts'[win'.chat] => t \in win'.text
    BY <1>1, <1>3, <1>4 DEF Good, AtHome
  <1>8. QED
    BY <1>4, <1>5, <1>6, <1>7, HomeMoves

\* All the user does in the composer.
LEMMA UserKeepsText ==
    SealInv /\ TypeInv /\ TextInv /\ UserStep /\ UNCHANGED focus => TextInv'
  BY ChatsKeepText, TypingKeepsText, ReplacingKeepsText, HandingKeeps DEF UserStep

\* A step that leaves the composer, the drafts and the tasks leaves what is at home there.
LEMMA StaysHome ==
    ASSUME NEW t, Good(t), AwaySame(t), SameText, drafts' = drafts,
           SealsIn(jobs') = SealsIn(jobs)
    PROVE  Good(t)'
  <1>1. Sealing(t)' = Sealing(t)
    BY DEF Sealing
  <1>2. /\ \A c \in Chats : IsHome(c, t)' => IsHome(c, t)
        /\ Written(t) => Written(t)'
    BY <1>1 DEF IsHome, Written, SameText
  <1>3. win'.chat # Nil /\ t \in drafts'[win'.chat] => t \in win'.text
    BY DEF SameText, Good, AtHome
  <1>4. QED
    BY <1>1, <1>2, <1>3, HomeMoves

\* A thought on its way goes on to its next place.
LEMMA GoesOn ==
    ASSUME NEW t, Good(t), Away(t), SameText, drafts' = drafts,
           SealsIn(jobs') = SealsIn(jobs), Lone(t)',
           Read(t)' \/ Written(t) \/ OnLine(t)' # {} \/ Asked(t)' # {}
    PROVE  Good(t)'
  <1>1. Sealing(t)' = Sealing(t)
    BY DEF Sealing
  <1>2. Written(t)' = Written(t) /\ \A c \in Chats : IsHome(c, t)' = IsHome(c, t)
    BY <1>1 DEF IsHome, Written, SameText
  <1>3. \A c \in Chats : ~ IsHome(c, t)
    BY DEF Good, AtHome
  <1>4. AtHome(t)'
    BY <1>1, <1>2, <1>3 DEF AtHome, Good, SameText
  <1>5. QED
    BY <1>2, <1>4 DEF Good

\* The composer's request that ends takes a text with it only if that is told.
LEMMA RefusedKeepsText ==
    ASSUME SealInv, TypeInv, TextInv, NEW r \in reqs, r.kind = "send", reqs' = reqs \ {r},
           Refused(r.frame), made'.thoughts = made.thoughts,
           UNCHANGED <<log, win, drafts, jobs, line>>
    PROVE  TextInv'
  <1>1. LettersStay /\ SameText
    BY SameLogStays DEF SameText
  <1>2. CASE r.frame.via # "composer"
    <2>1. Sending("composer")' = Sending("composer") /\ fate' = fate
      BY <1>2 DEF Sending, Refused
    <2>2. QED
      BY <1>1, <2>1, TextStaysKept DEF TextStays
  <1>3. CASE r.frame.via = "composer"
    <2>1. fate' = Fated(r.frame.text, "refused") /\ 1..made.thoughts \subseteq Thoughts
      BY <1>3, ThoughtsCount DEF Refused
    <2> SUFFICES ASSUME NEW t \in 1..made.thoughts, fate'[t] = {} PROVE Good(t)'
      BY DEF TextInv
    <2>2. fate[t] = {} /\ t \notin r.frame.text
      BY <2>1, FateTold
    <2>3. Good(t)
      BY <2>2 DEF TextInv
    <2>4. Asked(t)' = Asked(t)
      BY <2>2 DEF Asked, Sending
    <2>5. /\ OnLine(t)' = OnLine(t) /\ \A c \in Chats : Letters(c, t)' = Letters(c, t)
          /\ Read(t)' = Read(t)
      BY DEF OnLine, Letters, Read
    <2>6. AwaySame(t)
      BY <2>4, <2>5 DEF AwaySame
    <2>7. QED
      BY <1>1, <2>3, <2>6, StaysHome
  <1>4. QED
    BY <1>2, <1>3

\* The server reads a frame: its text goes on in a request, or is refused.
LEMMA CheckKeepsText ==
    ASSUME SealInv, TypeInv, TextInv, CheckSend
    PROVE  TextInv'
  <1> DEFINE f == Head(line.sent)
             q == SendRequest(f, "store")
  <1>1. /\ line.sent # <<>> /\ Sending("composer") = {} /\ line'.sent = Tail(line.sent)
        /\ \/ reqs' = reqs \cup {q} /\ fate' = fate
           \/ fate' = (IF f.via = "composer" THEN Fated(f.text, "refused") ELSE fate)
              /\ reqs' = reqs
        /\ UNCHANGED <<log, win, drafts, jobs, made>>
    BY DEF CheckSend, Refused, SealInv, LineOK
  <1>2. /\ IsSeq(line.sent) /\ f.via = "composer" /\ 1 \in DOMAIN line.sent /\ f = line.sent[1]
        /\ 1..made.thoughts \subseteq Thoughts
    <2>1. IsSeq(line.sent)
      BY DEF SealInv, LineOK
    <2>2. QED
      BY <1>1, <2>1, TailSeq, ThoughtsCount DEF TypeInv, FramesFit
  <1>3. q.kind = "send" /\ q.frame = f
    BY DEF SendRequest
  <1> HIDE DEF f, q
  <1>4. \A t : Asked(t) = {}
    BY <1>1 DEF Asked
  <1>5. ASSUME NEW t
        PROVE  /\ OnLine(t)' \subseteq {i \in Nat \ {0} : i + 1 \in OnLine(t)}
               /\ \A i \in OnLine(t) : i # 1 => i - 1 \in OnLine(t)'
               /\ OnLine(t) \subseteq Nat \ {0}
    <2>1. PICK S : line.sent \in Seq(S)
      BY <1>2 DEF IsSeq
    <2> DEFINE s == Tail(line.sent)
    <2>2. /\ DOMAIN line.sent = 1..Len(line.sent) /\ Len(line.sent) \in Nat
          /\ DOMAIN s = 1..(Len(line.sent) - 1)
          /\ \A i \in 1..(Len(line.sent) - 1) : s[i] = line.sent[i + 1]
      BY <1>1, <2>1
    <2> HIDE DEF s
    <2>3. OnLine(t)' = {i \in DOMAIN s : t \in s[i].text}
      BY <1>1 DEF OnLine, s
    <2>4. \A i \in OnLine(t)' : i \in Nat \ {0} /\ i + 1 \in OnLine(t)
      BY <2>2, <2>3 DEF OnLine
    <2>5. ASSUME NEW i \in OnLine(t), i # 1 PROVE i - 1 \in OnLine(t)'
      <3>1. i \in 1..Len(line.sent) /\ t \in line.sent[i].text
        BY <2>2 DEF OnLine
      <3>2. i - 1 \in 1..(Len(line.sent) - 1) /\ (i - 1) + 1 = i
        BY <2>2, <2>5, <3>1
      <3>3. t \in s[i - 1].text
        BY <2>2, <3>1, <3>2
      <3>4. QED
        BY <2>2, <2>3, <3>2, <3>3
    <2>6. OnLine(t) \subseteq Nat \ {0}
      BY <2>2 DEF OnLine
    <2>7. QED
      BY <2>4, <2>5, <2>6
  <1> SUFFICES ASSUME NEW t \in 1..made.thoughts, fate'[t] = {} PROVE Good(t)'
    BY <1>1 DEF TextInv
  <1>6. /\ fate[t] = {} /\ Good(t)
        /\ t \in f.text => reqs' = reqs \cup {q}
    <2>1. fate[t] = {} /\ (t \in f.text => reqs' = reqs \cup {q})
      BY <1>1, <1>2, FateTold
    <2>2. QED
      BY <2>1 DEF TextInv
  <1>7. /\ \A c \in Chats : Letters(c, t)' = Letters(c, t)
        /\ Read(t)' = Read(t) /\ IsKept(t)' = IsKept(t)
    BY <1>1 DEF Letters, Read, IsKept
  <1>8. SameText /\ UNCHANGED drafts /\ SealsIn(jobs') = SealsIn(jobs)
    BY <1>1 DEF SameText
  <1>9. CASE t \in f.text
    <2>1. 1 \in OnLine(t)
      BY <1>2, <1>9 DEF OnLine
    <2>2. OnLine(t) = {1} /\ ~ IsKept(t) /\ Away(t)
      BY <1>6, <2>1 DEF Good, Lone, One, Away
    <2>3. OnLine(t)' = {}
      BY <1>5, <2>2
    <2>4. Asked(t)' = {q}
      <3>1. \A r \in Sending("composer")' : r = q
        BY <1>1, <1>6, <1>9 DEF Sending
      <3>2. q \in Sending("composer")'
        BY <1>2, <1>3, <1>6, <1>9 DEF Sending
      <3>3. QED
        BY <1>3, <1>9, <3>1, <3>2 DEF Asked
    <2>5. Lone(t)'
      BY <1>6, <1>7, <1>8, <2>2, <2>3, <2>4 DEF Lone, One, Good, Sealing
    <2>6. QED
      BY <1>6, <1>8, <2>2, <2>4, <2>5, GoesOn
  <1>10. CASE t \notin f.text
    <2>1. 1 \notin OnLine(t)
      BY <1>2, <1>10 DEF OnLine
    <2>2. OnLine(t)' = {} <=> OnLine(t) = {}
      BY <1>5, <2>1
    <2>3. ASSUME One(OnLine(t)), NEW i \in OnLine(t)', NEW k \in OnLine(t)' PROVE i = k
      <3>1. i \in Nat /\ k \in Nat /\ i + 1 \in OnLine(t) /\ k + 1 \in OnLine(t)
        BY <1>5
      <3>2. QED
        BY <2>3, <3>1 DEF One
    <2>4. One(OnLine(t)) => One(OnLine(t)')
      BY <2>3 DEF One
    <2>5. Asked(t)' = Asked(t)
      BY <1>1, <1>3, <1>10 DEF Asked, Sending
    <2>6. AwaySame(t)
      BY <1>7, <2>2, <2>4, <2>5 DEF AwaySame
    <2>7. QED
      BY <1>6, <1>8, <2>6, StaysHome
  <1>11. QED
    BY <1>9, <1>10

\* A log that grows by a message that is none of the composer's keeps its letters.
LEMMA OthersGrow ==
    ASSUME LogOK(log), NEW c \in Chats, NEW m, m.via # "composer",
           log' = [log EXCEPT ![c] = Append(@, m)]
    PROVE  LettersStay
  <1>1. DOMAIN log = Chats /\ IsSeq(log[c])
    BY DEF LogOK
  <1>2. log'[c] = Append(log[c], m) /\ \A d \in Chats \ {c} : log'[d] = log[d]
    BY <1>1
  <1>3. \A d \in Chats : \A k \in DOMAIN log[d] : k \in DOMAIN log'[d] /\ log'[d][k] = log[d][k]
    BY <1>1, <1>2, AppendSeq
  <1>4. \A d \in Chats : \A k \in DOMAIN log'[d] \ DOMAIN log[d] : log'[d][k] = m
    BY <1>1, <1>2, AppendSeq
  <1>5. QED
    BY <1>3, <1>4 DEF LettersStay

\* A message of the composer's is stored, and holds what its request held.
LEMMA StoringKeepsText ==
    ASSUME SealInv, TypeInv, TextInv, NEW r \in reqs, StoreNew(r)
    PROVE  TextInv'
  <1> DEFINE f == r.frame
             m == Stores(Me, f.via, f.text, f.seal, f.batch, Copied(f), f.chat, r.moved)
  <1>1. /\ r.kind = "send" /\ reqs' = reqs \ {r} /\ UNCHANGED <<win, drafts, jobs, line, made>>
        /\ \/ log' = [log EXCEPT ![f.chat] = Append(@, m)] /\ fate' = fate
           \/ log' = log /\ Refused(f)
    BY DEF StoreNew
  <1>2. f.chat \in Chats /\ LogOK(log) /\ m.via = f.via /\ m.text = f.text
    BY <1>1 DEF SealInv, RequestsOK, RequestOK, FrameOK, Stores
  <1>3. SameText
    BY <1>1 DEF SameText
  <1>4. CASE log' = log /\ Refused(f)
    BY <1>1, <1>4, RefusedKeepsText
  <1>5. CASE log' = [log EXCEPT ![f.chat] = Append(@, m)] /\ fate' = fate /\ f.via # "composer"
    <2>1. Sending("composer")' = Sending("composer")
      BY <1>1, <1>5 DEF Sending
    <2> HIDE DEF m, f
    <2>2. LettersStay
      BY <1>2, <1>5, OthersGrow
    <2>3. QED
      BY <1>1, <1>3, <1>5, <2>1, <2>2, TextStaysKept DEF TextStays
  <1>6. CASE log' = [log EXCEPT ![f.chat] = Append(@, m)] /\ fate' = fate /\ f.via = "composer"
    <2> SUFFICES ASSUME NEW t \in 1..made.thoughts, fate[t] = {} PROVE Good(t)'
      BY <1>1, <1>6 DEF TextInv
    <2>1. Good(t) /\ OnLine(t)' = OnLine(t) /\ Asked(t)' = Asked(t) \ {r}
      BY <1>1 DEF TextInv, OnLine, Asked, Sending
    <2>2. t \in f.text <=> r \in Asked(t)
      BY <1>1, <1>6 DEF Asked, Sending
    <2> HIDE DEF m, f
    <2>3. /\ DOMAIN log = Chats /\ IsSeq(log[f.chat])
          /\ log'[f.chat] = Append(log[f.chat], m) /\ \A d \in Chats \ {f.chat} : log'[d] = log[d]
      BY <1>2, <1>6 DEF LogOK
    <2> DEFINE new == Len(log'[f.chat])
    <2>4. /\ \A k \in DOMAIN log[f.chat] :
                k \in DOMAIN log'[f.chat] /\ log'[f.chat][k] = log[f.chat][k]
          /\ new \in DOMAIN log'[f.chat] /\ log'[f.chat][new] = m
          /\ \A k \in DOMAIN log'[f.chat] : k \in DOMAIN log[f.chat] \/ k = new
      <3>1. PICK S : log[f.chat] \in Seq(S)
        BY <2>3 DEF IsSeq
      <3>2. /\ DOMAIN log[f.chat] = 1..Len(log[f.chat]) /\ Len(log[f.chat]) \in Nat
            /\ DOMAIN Append(log[f.chat], m) = 1..(Len(log[f.chat]) + 1)
            /\ Len(Append(log[f.chat], m)) = Len(log[f.chat]) + 1
            /\ Append(log[f.chat], m)[Len(log[f.chat]) + 1] = m
            /\ \A k \in 1..Len(log[f.chat]) : Append(log[f.chat], m)[k] = log[f.chat][k]
        BY <3>1
      <3>3. QED
        BY <2>3, <3>2
    <2> HIDE DEF new
    <2>5. Read(t) => Read(t)'
      <3>1. \A d \in Chats : \A k \in DOMAIN log[d] :
               k \in DOMAIN log'[d] /\ log'[d][k] = log[d][k]
        BY <2>3, <2>4
      <3>2. QED
        BY <3>1 DEF Read
    <2>6. \A d \in Chats \ {f.chat} : Letters(d, t)' = Letters(d, t)
      BY <2>3 DEF Letters
    <2>7. CASE t \notin f.text
      <3>1. Letters(f.chat, t)' = Letters(f.chat, t)
        BY <1>2, <2>4, <2>7 DEF Letters
      <3>2. Asked(t)' = Asked(t)
        BY <2>1, <2>2, <2>7
      <3>3. AwaySame(t)
        BY <2>1, <2>5, <2>6, <3>1, <3>2 DEF AwaySame
      <3>4. QED
        BY <1>1, <1>3, <2>1, <3>3, StaysHome
    <2>8. CASE t \in f.text
      <3>1. Asked(t) = {r}
        BY <2>1, <2>2, <2>8 DEF Good, Lone, One
      <3>2. OnLine(t) = {} /\ ~ IsKept(t) /\ Away(t) /\ Asked(t)' = {}
        BY <2>1, <3>1 DEF Good, Lone, Away
      <3>3. \A d \in Chats : Letters(d, t) = {}
        BY <3>2 DEF IsKept
      <3>4. \A k \in Letters(f.chat, t)' : k = new
        BY <2>4, <1>2, <3>3 DEF Letters
      <3>5. \A d \in Chats : \A k \in Letters(d, t)' : d = f.chat /\ k = new
        BY <2>6, <3>3, <3>4
      <3>6. Read(t)'
        BY <1>2, <2>4, <2>8 DEF Read
      <3>7. Lone(t)'
        <4>1. \A c, d \in Chats : \A k \in Letters(c, t)', l \in Letters(d, t)' : c = d /\ k = l
          BY <3>5
        <4>2. One(Sealing(t))' /\ OnLine(t)' = {} /\ Asked(t)' = {}
          BY <1>1, <2>1, <3>2 DEF Good, Lone, One, Sealing
        <4>3. QED
          BY <4>1, <4>2 DEF Lone, One
      <3>8. QED
        BY <1>1, <1>3, <2>1, <3>2, <3>6, <3>7, GoesOn
    <2>9. QED
      BY <2>7, <2>8
  <1>7. QED
    BY <1>1, <1>4, <1>5, <1>6

\* An edit puts its text in the message it edits, and takes the old one away.
LEMMA EditingKeepsText ==
    ASSUME SealInv, TypeInv, TextInv, NEW r \in reqs, StoreEdit(r)
    PROVE  TextInv'
  <1> DEFINE f == r.frame
             old == Message(<<f.chat, f.no>>).text
  <1>1. /\ r.kind = "send" /\ reqs' = reqs \ {r} /\ UNCHANGED <<win, drafts, jobs, line, made>>
        /\ f.no # 0 /\ fate' = Fated(old \ f.text, "edited")
    BY DEF StoreEdit
  <1>2. f.via = "composer" /\ 1..made.thoughts \subseteq Thoughts
    BY <1>1, ThoughtsCount DEF TypeInv, SendsFit, SendFits
  <1>3. old = log[f.chat][f.no].text
    BY DEF Message
  <1>4. /\ f.chat \in Chats /\ f.no \in DOMAIN log[f.chat]
        /\ \A c \in Chats : DOMAIN log'[c] = DOMAIN log[c]
        /\ \A c \in Chats : \A k \in DOMAIN log[c] :
              /\ log'[c][k].via = log[c][k].via
              /\ log'[c][k].text = IF c = f.chat /\ k = f.no THEN f.text ELSE log[c][k].text
    BY EditedLog
  <1> HIDE DEF f, old
  <1> SUFFICES ASSUME NEW t \in 1..made.thoughts, fate'[t] = {} PROVE Good(t)'
    BY <1>1 DEF TextInv
  <1>5. fate[t] = {} /\ t \notin old \ f.text
    BY <1>1, <1>2, FateTold
  <1>6. Good(t) /\ OnLine(t)' = OnLine(t) /\ Asked(t)' = Asked(t) \ {r} /\ SameText
    BY <1>1, <1>5 DEF TextInv, OnLine, Asked, Sending, SameText
  <1>7. t \in f.text <=> r \in Asked(t)
    BY <1>1, <1>2 DEF Asked, Sending, f
  <1>8. CASE t \notin f.text
    <2>1. \A c \in Chats : \A k \in DOMAIN log[c] : t \in log'[c][k].text <=> t \in log[c][k].text
      BY <1>3, <1>4, <1>5, <1>8
    <2>2. Read(t) => Read(t)'
      BY <1>4, <2>1 DEF Read
    <2>3. \A c \in Chats : Letters(c, t)' = Letters(c, t)
      BY <1>4, <2>1 DEF Letters
    <2>4. Asked(t)' = Asked(t)
      BY <1>6, <1>7, <1>8
    <2>5. AwaySame(t)
      BY <1>6, <2>2, <2>3, <2>4 DEF AwaySame
    <2>6. QED
      BY <1>1, <1>6, <2>5, StaysHome
  <1>9. CASE t \in f.text
    <2>1. Asked(t) = {r}
      BY <1>6, <1>7, <1>9 DEF Good, Lone, One
    <2>2. OnLine(t) = {} /\ ~ IsKept(t) /\ Away(t) /\ Asked(t)' = {}
      BY <1>6, <2>1 DEF Good, Lone, Away
    <2>3. \A d \in Chats : Letters(d, t) = {}
      BY <2>2 DEF IsKept
    <2>4. \A d \in Chats : \A k \in Letters(d, t)' : d = f.chat /\ k = f.no
      BY <1>4, <2>3 DEF Letters
    <2>5. Read(t)'
      BY <1>4, <1>9 DEF Read
    <2>6. Lone(t)'
      <3>1. \A c, d \in Chats : \A k \in Letters(c, t)', l \in Letters(d, t)' : c = d /\ k = l
        BY <2>4
      <3>2. One(Sealing(t))' /\ OnLine(t)' = {} /\ Asked(t)' = {}
        BY <1>1, <1>6, <2>2 DEF Good, Lone, One, Sealing
      <3>3. QED
        BY <3>1, <3>2 DEF Lone, One
    <2>7. QED
      BY <1>1, <1>6, <2>2, <2>5, <2>6, GoesOn
  <1>10. QED
    BY <1>8, <1>9

\* The server's requests of the group and what others send hold no text of the composer's.
LEMMA OtherStepsStay ==
    ASSUME GroupInv, SealInv, TypeInv, UNCHANGED focus,
           \/ GroupAsked \/ \E u \in People : SomebodyOnboards(u) \/ \E c \in Chats : Post(u, c)
           \/ \E r \in reqs : CheckForward(r) \/ GroupRefused(r)
    PROVE  TextStays
  <1>0. DOMAIN win = WinFields /\ WinOK(win, log) /\ WinFits(win, made.thoughts)
    BY DEF SealInv, TypeInv, WinOK
  <1>1. CASE GroupAsked
    <2>1. PICK k, b, o, s : k # "send" /\ reqs' = reqs \cup {Request(k, b, o, s)}
      BY <1>1 DEF GroupAsked, CheckAdd, AnnounceRemoval, AnnounceLeave, AnnounceDeletion, CheckRole
    <2>2. UNCHANGED <<log, drafts, line, fate, win, jobs>> /\ Move
      BY <1>1 DEF GroupAsked, PageKeeps
    <2>3. Sending("composer")' = Sending("composer")
      BY <2>1 DEF Sending, Request
    <2>4. QED
      BY <2>2, <2>3, MoveFits, SameLogStays DEF TextStays, SameText
  <1>2. ASSUME NEW u \in People, SomebodyOnboards(u) PROVE TextStays
    <2>1. UNCHANGED <<reqs, log, drafts, line, fate, jobs>> /\ Move /\ win' = Doubted("onboarded")
      BY <1>2 DEF SomebodyOnboards, PageKeeps, Onboard
    <2>2. SameText
      BY <1>0, <2>1, DoubtFits DEF SameText
    <2>3. QED
      BY <2>1, <2>2, MoveFits, SameLogStays DEF TextStays, Sending
  <1>3. ASSUME NEW u \in People, NEW c \in Chats, Post(u, c) PROVE TextStays
    <2> DEFINE m == Stores(u, "other", {}, IF c = "group" THEN EncryptForGroup({}, GroupKeys, u)
                                           ELSE SealFor(c, {}, {}), 0, <<>>, c, {})
    <2>1. m.via = "other"
      BY DEF Stores
    <2>2. log' = [log EXCEPT ![c] = Append(@, m)] /\ Move
          /\ UNCHANGED <<groupvars, win, drafts, jobs, line, fate>>
      BY <1>3 DEF Post
    <2> HIDE DEF m
    <2>3. LettersStay
      BY <2>1, <2>2, OthersGrow DEF SealInv
    <2>4. QED
      BY <2>2, <2>3, MoveFits DEF TextStays, SameText, Sending, groupvars
  <1>4. ASSUME NEW r \in reqs, CheckForward(r) PROVE TextStays
    <2> DEFINE q == [r EXCEPT !.step = "store"]
    <2>1. /\ r.kind = "send" /\ r.frame.via = "forward"
          /\ (reqs' = reqs \ {r} \/ reqs' = (reqs \ {r}) \cup {q})
          /\ UNCHANGED <<log, win, drafts, jobs, line, made, fate>>
      BY <1>4 DEF CheckForward, Sending
    <2>2. q.frame.via = "forward"
      BY <2>1 DEF SealInv, RequestsOK, RequestOK
    <2> HIDE DEF q
    <2>3. Sending("composer")' = Sending("composer")
      BY <2>1, <2>2 DEF Sending
    <2>4. QED
      BY <2>1, <2>3, SameLogStays DEF TextStays, SameText
  <1>5. ASSUME NEW r \in reqs, GroupRefused(r) PROVE TextStays
    <2> DEFINE q == [r EXCEPT !.step = "write"]
    <2>1. UNCHANGED <<log, drafts, line, fate, win, jobs>> /\ (UNCHANGED made \/ Move)
      BY <1>5 DEF GroupRefused, PageKeeps, Break
    <2>2. r.kind # "send" /\ (reqs' = reqs \ {r} \/ reqs' = (reqs \ {r}) \cup {q})
      BY <1>5 DEF GroupRefused, CheckAnnounced, RequestFails, TypeInv, SendsFit, SendFits
    <2>3. q.kind = r.kind
      BY DEF GroupInv, Harmless, Shape
    <2> HIDE DEF q
    <2>4. Sending("composer")' = Sending("composer")
      BY <2>2, <2>3 DEF Sending
    <2>5. QED
      BY <2>1, <2>4, MoveFits, SameLogStays DEF TextStays, SameText
  <1>6. QED
    BY <1>1, <1>2, <1>3, <1>4, <1>5

\* A transaction of the group tells the requests under way who moved, and moves no text.
LEMMA DoneKeepsText ==
    ASSUME GroupInv, SealInv, TypeInv, TextInv, NEW r \in reqs, GroupDone(r)
    PROVE  TextInv'
  <1>1. UNCHANGED <<log, drafts, line, fate, made>> /\ r.kind # "send"
    BY DEF GroupDone, PageKeeps, WriteAdd, WriteRole, WriteRemoval, Purge
  <1>2. SameText
    <2>1. WinOK(win, log) /\ WinFits(win, made.thoughts)
      BY DEF SealInv, TypeInv
    <2>2. QED
      BY <2>1, DoubtFits DEF GroupDone, UnlessHeard, SameText
  <1>3. SealsIn(jobs') = SealsIn(jobs)
    BY AnsweredSeals DEF GroupDone
  <1>4. PICK who : reqs' = Settled(reqs \ {r}, who) \/ reqs' = reqs \ {r}
    BY DEF GroupDone, WriteAdd, WriteRole, WriteRemoval, Purge
  <1>5. CASE reqs' = reqs \ {r}
    <2>1. Sending("composer")' = Sending("composer")
      BY <1>1, <1>5 DEF Sending
    <2>2. QED
      BY <1>1, <1>2, <1>3, <2>1, SameLogStays, TextStaysKept DEF TextStays
  <1>6. CASE reqs' = Settled(reqs \ {r}, who)
    <2> SUFFICES ASSUME NEW t \in 1..made.thoughts, fate[t] = {} PROVE Good(t)'
      BY <1>1 DEF TextInv
    <2>1. Good(t)
      BY DEF TextInv
    <2>2. \A q \in reqs : Shape(q) /\ (q.kind = "send" => "frame" \in DOMAIN q)
      BY DEF GroupInv, Harmless, SealInv, RequestsOK, RequestOK
    <2> DEFINE Noted(q) == [q EXCEPT !.moved = @ \cup who]
    <2>3. \A q \in reqs : /\ Noted(q).kind = q.kind
                          /\ q.kind = "send" => Noted(q).frame = q.frame
      BY <2>2 DEF Shape
    <2>4. reqs' = {Noted(q) : q \in reqs \ {r}}
      BY <1>6 DEF Settled
    <2> HIDE DEF Noted
    <2>5. \A p \in Asked(t)' : \E q \in Asked(t) : p = Noted(q)
      BY <2>3, <2>4 DEF Asked, Sending
    <2>6. \A q \in Asked(t) : Noted(q) \in Asked(t)'
      BY <1>1, <2>3, <2>4 DEF Asked, Sending
    <2>7. (Asked(t)' = {} <=> Asked(t) = {}) /\ (One(Asked(t)) => One(Asked(t)'))
      BY <2>5, <2>6 DEF One
    <2>8. /\ OnLine(t)' = OnLine(t) /\ \A c \in Chats : Letters(c, t)' = Letters(c, t)
          /\ Read(t)' = Read(t)
      BY <1>1 DEF OnLine, Letters, Read
    <2>9. AwaySame(t)
      BY <2>7, <2>8 DEF AwaySame
    <2>10. QED
      BY <1>1, <1>2, <1>3, <2>1, <2>9, StaysHome
  <1>7. QED
    BY <1>4, <1>5, <1>6

\* All the server does.
LEMMA ServerKeepsText ==
    GroupInv /\ SealInv /\ TypeInv /\ TextInv /\ ServerStep /\ UNCHANGED focus => TextInv'
  <1> SUFFICES ASSUME GroupInv, SealInv, TypeInv, TextInv, ServerStep, UNCHANGED focus
               PROVE  TextInv'
    OBVIOUS
  <1>1. ASSUME NEW r \in reqs, StoreFails(r) PROVE TextInv'
    <2>1. /\ r.kind = "send" /\ reqs' = reqs \ {r} /\ Refused(r.frame) /\ Move
          /\ UNCHANGED <<log, win, drafts, jobs, line>>
      BY <1>1 DEF StoreFails, Break
    <2>2. made'.thoughts = made.thoughts
      BY <2>1, MoveFits
    <2>3. QED
      BY <2>1, <2>2, RefusedKeepsText
  <1>2. ASSUME \/ GroupAsked
               \/ \E u \in People : SomebodyOnboards(u) \/ \E c \in Chats : Post(u, c)
               \/ \E r \in reqs : CheckForward(r) \/ GroupRefused(r)
        PROVE  TextInv'
    BY <1>2, OtherStepsStay, TextStaysKept
  <1>3. QED
    BY <1>1, <1>2, CheckKeepsText, StoringKeepsText, EditingKeepsText, DoneKeepsText
    DEF ServerStep

\* What the page does by itself: a chat it leaves is saved, and what a broken line or a dead
\* page took is told.
LEMMA PageKeepsText ==
    SealInv /\ TypeInv /\ TextInv /\ PageStep /\ UNCHANGED focus => TextInv'
  <1> SUFFICES ASSUME SealInv, TypeInv, TextInv, PageStep, UNCHANGED focus PROVE TextInv'
    OBVIOUS
  <1>0. /\ WinFits(win, made.thoughts) /\ WinOK(win, log) /\ IsSeq(line.sent) /\ LineOK(line, log)
        /\ DOMAIN drafts = Chats /\ 1..made.thoughts \subseteq Thoughts
    BY ThoughtsCount DEF SealInv, TypeInv, LineOK, DraftsFit
  <1>1. CASE Aside
    BY <1>1, TextStaysKept DEF Aside
  <1>2. CASE Leaves
    <2>1. PICK J : SealsIn(J) = SealsIn(jobs) /\ CloseChat(J)
      BY <1>2 DEF Leaves
    <2>2. Switch(Nil, J, drafts, [win.mem EXCEPT !["group"] = Nil])
      BY <2>1 DEF CloseChat
    <2>3. UNCHANGED <<groupvars, log, line, made, fate>>
      BY <1>2 DEF Leaves
    <2> SUFFICES ASSUME NEW t \in 1..made.thoughts, fate[t] = {} PROVE Good(t)'
      BY <2>3 DEF TextInv
    <2>4. Good(t) /\ AwaySame(t)
      BY <2>3, ComposerStays DEF TextInv
    <2>5. QED
      BY <1>0, <2>1, <2>2, <2>4, SwitchKeepsText
  <1>3. ASSUME NEW n \in 0..Len(line.sent), Cut(n) PROVE TextInv'
    <2> DEFINE cut == {line.sent[i] : i \in (n + 1)..Len(line.sent)}
               texts == UNION {f.text : f \in cut}
    <2>1. /\ line'.sent = SubSeq(line.sent, 1, n) /\ win' \in {win, Doubted("missed")} /\ Move
          /\ fate' = Fated(texts, "cut")
          /\ UNCHANGED <<groupvars, log, drafts, peerKey, jobs>>
      BY <1>3 DEF Cut, Break
    <2>2. made'.thoughts = made.thoughts /\ SameText
      BY <1>0, <2>1, MoveFits, DoubtFits DEF SameText
    <2>3. PICK S : line.sent \in Seq(S)
      BY <1>0 DEF IsSeq
    <2>4. /\ DOMAIN line.sent = 1..Len(line.sent) /\ Len(line.sent) \in Nat /\ n \in Nat
          /\ DOMAIN SubSeq(line.sent, 1, n) = 1..n /\ 1..n \subseteq 1..Len(line.sent)
          /\ \A i \in 1..n : SubSeq(line.sent, 1, n)[i] = line.sent[i]
      BY <2>3
    <2>5. \A i \in DOMAIN line.sent \ 1..n : line.sent[i].text \subseteq texts
      <3>1. \A i \in DOMAIN line.sent \ 1..n : i \in (n + 1)..Len(line.sent)
        BY <2>4
      <3>2. QED
        BY <3>1
    <2> HIDE DEF texts, cut
    <2> SUFFICES ASSUME NEW t \in 1..made.thoughts, fate'[t] = {} PROVE Good(t)'
      BY <2>2 DEF TextInv
    <2>6. fate[t] = {} /\ t \notin texts
      BY <1>0, <2>1, FateTold
    <2>7. Good(t)
      BY <2>6 DEF TextInv
    <2>8. OnLine(t)' = OnLine(t)
      BY <2>1, <2>4, <2>5, <2>6 DEF OnLine
    <2>9. /\ Asked(t)' = Asked(t) /\ \A c \in Chats : Letters(c, t)' = Letters(c, t)
          /\ Read(t)' = Read(t)
      BY <2>1 DEF Asked, Sending, Letters, Read, groupvars
    <2>10. AwaySame(t)
      BY <2>8, <2>9 DEF AwaySame
    <2>11. QED
      BY <2>1, <2>2, <2>7, <2>10, StaysHome
  <1>4. CASE Die
    <2> DEFINE texts == UNION {j.text : j \in {k \in jobs : k.kind = "seal"}}
    <2>1. /\ win'.chat = Nil /\ win'.text = {} /\ jobs' = {} /\ line'.sent = line.sent /\ Move
          /\ fate' = Fated(win.text \cup texts, "killed")
          /\ UNCHANGED <<groupvars, log, drafts, lost>>
      BY <1>0, <1>4 DEF Die, Break, Closed, LineOK
    <2>2. made'.thoughts = made.thoughts
      BY <2>1, MoveFits
    <2>3. \A j \in SealsIn(jobs) : j.text \subseteq texts
      BY DEF SealsIn
    <2> HIDE DEF texts
    <2> SUFFICES ASSUME NEW t \in 1..made.thoughts, fate'[t] = {} PROVE Good(t)'
      BY <2>2 DEF TextInv
    <2>4. fate[t] = {} /\ t \notin win.text /\ t \notin texts
      BY <1>0, <2>1, FateTold
    <2>5. Good(t)
      BY <2>4 DEF TextInv
    <2>6. Sealing(t) = {} /\ Sealing(t)' = {}
      BY <2>1, <2>3, <2>4 DEF Sealing, SealsIn
    <2>7. AwaySame(t)
      <3>1. LettersStay /\ Sending("composer")' = Sending("composer")
        BY <2>1, SameLogStays DEF Sending, groupvars
      <3>2. QED
        BY <2>1, <3>1, AwayStays
    <2>8. /\ \A c \in Chats : IsHome(c, t)' => IsHome(c, t)
          /\ Written(t) => Written(t)'
      BY <2>1, <2>4, <2>6 DEF IsHome, Written
    <2>9. QED
      BY <2>1, <2>5, <2>6, <2>7, <2>8, HomeMoves
  <1>5. QED
    BY <1>1, <1>2, <1>3, <1>4, PageMoves

\* Whatever is typed and not dropped stays in its one place.
THEOREM TextStaysInPlace == ComposerSpec => []TextInv
  <1>1. ComposerInit => TextInv
    <2> SUFFICES ASSUME ComposerInit PROVE TextInv
      OBVIOUS
    <2>1. made.thoughts = 0
      BY DEF ComposerInit
    <2>2. 1..0 = {}
      OBVIOUS
    <2>3. QED
      BY <2>1, <2>2 DEF TextInv
  <1>2. GroupInv /\ SealInv /\ TypeInv /\ TextInv /\ [ComposerNext]_composervars => TextInv'
    <2> SUFFICES ASSUME GroupInv, SealInv, TypeInv, TextInv, [ComposerNext]_composervars
                 PROVE  TextInv'
      OBVIOUS
    <2>1. CASE UNCHANGED composervars
      <3>1. TextStays
        BY <2>1, SameLogStays
        DEF composervars, groupvars, chatvars, TextStays, SameText, Sending
      <3>2. QED
        BY <3>1, TextStaysKept
    <2>2. CASE ComposerNext
      BY <2>2, UserKeepsText, ServerKeepsText, PageKeepsText DEF ComposerNext
    <2>3. QED
      BY <2>1, <2>2
  <1>3. QED
    BY <1>1, <1>2, ChecksStayTrue, SealsStayTrue, TypesStayTrue, PTL DEF ComposerSpec

\* No text is lost or sent twice (handleSubmit, the drafts of ChatWindow.tsx and what becomes
\* of a frame): what was typed is in the composer, in a draft or on its way in one message at
\* most, unless one of the excused things happened to it.
THEOREM TextAlwaysKept == ComposerSpec => []TextIsKept
  <1>1. TextInv => TextIsKept
    <2> SUFFICES ASSUME TextInv, NEW t \in 1..made.thoughts, fate[t] = {}
                 PROVE  /\ Cardinality(Composed(t)) <= 1
                        /\ \/ t \in win.text \/ \E c \in Chats : t \in drafts[c]
                           \/ \E j \in jobs : j.kind = "seal" /\ t \in j.text
                           \/ \E i \in DOMAIN line.sent : t \in line.sent[i].text
                           \/ \E r \in Sending("composer") : t \in r.frame.text
                           \/ \E c \in Chats : \E n \in DOMAIN log[c] : t \in log[c][n].text
      BY DEF TextIsKept
    <2>1. Good(t)
      BY DEF TextInv
    <2>2. \A x \in Composed(t) :
             \/ \E i \in OnLine(t) : x = <<"sent", i>>
             \/ \E r \in Asked(t) : x = <<"sending", r>>
             \/ \E k \in Letters("group", t) : x = <<"group", k>>
             \/ \E k \in Letters("direct", t) : x = <<"direct", k>>
      BY DEF Composed, OnLine, Asked, Letters
    <2>3. "group" \in Chats /\ "direct" \in Chats
      BY DEF Chats
    <2>4. One(Composed(t))
      <3>1. CASE OnLine(t) # {}
        <4>1. /\ One(OnLine(t)) /\ Asked(t) = {} /\ Letters("group", t) = {}
              /\ Letters("direct", t) = {}
          BY <2>1, <2>3, <3>1 DEF Good, Lone, IsKept
        <4>2. QED
          BY <2>2, <4>1 DEF One
      <3>2. CASE OnLine(t) = {} /\ Asked(t) # {}
        <4>1. /\ One(Asked(t)) /\ Letters("group", t) = {} /\ Letters("direct", t) = {}
          BY <2>1, <2>3, <3>2 DEF Good, Lone, IsKept
        <4>2. QED
          BY <2>2, <3>2, <4>1 DEF One
      <3>3. CASE OnLine(t) = {} /\ Asked(t) = {}
        <4>1. /\ \A k, l \in Letters("group", t) : k = l
              /\ \A k, l \in Letters("direct", t) : k = l
              /\ Letters("group", t) = {} \/ Letters("direct", t) = {}
          BY <2>1, <2>3 DEF Good, Lone
        <4>2. QED
          BY <2>2, <3>3, <4>1 DEF One
      <3>4. QED
        BY <3>1, <3>2, <3>3
    <2>5. Composed(t) = {} \/ \E x : Composed(t) = {x}
      BY <2>4 DEF One
    <2>6. Cardinality(Composed(t)) <= 1
      <3>1. CASE Composed(t) = {}
        BY <3>1, FS_EmptySet
      <3>2. ASSUME NEW x, Composed(t) = {x} PROVE Cardinality(Composed(t)) <= 1
        <4>1. Cardinality({x}) = 1
          BY FS_Singleton
        <4>2. Cardinality(Composed(t)) = 1
          BY <3>2, <4>1
        <4>3. QED
          BY <4>2
      <3>3. QED
        BY <2>5, <3>1, <3>2
    <2>7. QED
      BY <2>1, <2>6 DEF Good, Written, OnLine, Asked, Read
  <1>2. QED
    BY <1>1, TextStaysInPlace, PTL

----------------------------------------------------------------------------
(* Where files wait: with the task, the frame or the request of their       *)
(* message, and nothing else on its way, or for a message that is stored    *)
(* and whose frame is still to come.                                        *)

\* A message that is the user's from another device, somebody else's, or forwarded.
Theirs(c, n) == log[c][n].via \in {"other", "forward"}

\* A message that the files b may be attached to, having been picked after `since' messages.
MayTake(c, n, b, since) == log[c][n].batch = b \/ Theirs(c, n) \/ n <= since \/ b \in lost

UploadsFit == \A j \in jobs : j.kind = "upload" =>
    Ref(<<j.chat, j.no>>, log) /\ MayTake(j.chat, j.no, j.files, j.since)

\* What the composer asks the server to store: nothing of it has files yet.
Asks == {r.frame : r \in Sending("composer")}
NoCopies ==
    /\ \A i \in DOMAIN line.sent : DOMAIN line.sent[i].copies = {}
    /\ \A f \in Asks : DOMAIN f.copies = {}

\* The message of the files that wait, p, is the only one of the composer's that is under way.
Carries(f, p) == f.chat = p.chat /\ f.no = 0 /\ f.batch = p.files
InTask(p) == /\ line.sent = <<>> /\ Asks = {}
             /\ \E j \in jobs : SealsIn(jobs) = {j} /\ Carries(Frame(j), p)
InFrame(p) == /\ SealsIn(jobs) = {} /\ Asks = {}
              /\ \E f : line.sent = <<f>> /\ Carries(f, p)
InRequest(p) == /\ SealsIn(jobs) = {} /\ line.sent = <<>>
                /\ \E f \in Asks : Asks = {f} /\ Carries(f, p)
OnTheWay(p) ==
    /\ \A n \in DOMAIN log[p.chat] : n > p.since => Theirs(p.chat, n)
    /\ InTask(p) \/ InFrame(p) \/ InRequest(p)

\* It is message no of its chat, no list shows it, and its frame comes before later ones.
Before(l, c, no) == \A i \in DOMAIN l : l[i][1] = c => l[i][2] < no
Holds(l, c, no) == \E i \in DOMAIN l : l[i] = <<c, no>>
Kept(p, no) ==
    /\ no \in DOMAIN log[p.chat] /\ no > p.since /\ log[p.chat][no].batch = p.files
    /\ \A n \in DOMAIN log[p.chat] : n > p.since /\ n < no => Theirs(p.chat, n)
IsNew(x, c) == x.kind = "new" /\ x.chat = c
Tells(m, c, no) ==
    \E i \in DOMAIN m : /\ IsNew(m[i], c) /\ m[i].no = no
                        /\ \A k \in DOMAIN m : k < i /\ IsNew(m[k], c) => m[k].no < no
Unshown(p, no) == /\ Before(win.list, p.chat, no)
                  /\ \A c \in Chats : win.mem[c] # Nil => Before(win.mem[c], p.chat, no)
Honest(p, no) == \A j \in jobs : j.kind = "load" /\ j.data # Nil =>
                     Before(j.data, p.chat, no) \/ Holds(j.data, p.chat, no)
HasCome(p, no) == Kept(p, no) /\ Tells(mail, p.chat, no) /\ Unshown(p, no) /\ Honest(p, no)

FilesWait ==
    win.pending # Nil /\ win.pending.files \notin lost =>
        /\ line.up /\ win.pending.chat \in Chats
        /\ win.pending.since \in 0..Len(log[win.pending.chat])
        /\ OnTheWay(win.pending) \/ \E no : HasCome(win.pending, no)

FileInv == FilesFollow /\ UploadsFit /\ NoCopies /\ FilesWait

\* Messages keep what they are, and new ones are not the composer's.
BatchesStay ==
    \A c \in Chats : \A n \in DOMAIN log[c] :
        /\ n \in DOMAIN log'[c]
        /\ log'[c][n].batch = log[c][n].batch /\ log'[c][n].via = log[c][n].via
NewAreTheirs == \A c \in Chats : \A n \in DOMAIN log'[c] \ DOMAIN log[c] : Theirs(c, n)'

\* Files stay where they are, and a new message of the composer's has none.
FilesStay ==
    \A c \in Chats : \A n \in DOMAIN log'[c] :
        \/ n \in DOMAIN log[c] /\ log'[c][n].files = log[c][n].files
        \/ n \notin DOMAIN log[c] /\ (DOMAIN log'[c][n].files = {} \/ Theirs(c, n)')

\* A log that does not change.
LEMMA SameLogFiles == UNCHANGED log => BatchesStay /\ NewAreTheirs /\ FilesStay
  BY DEF BatchesStay, NewAreTheirs, FilesStay

\* What might be attached to a message still may.
LEMMA MayStillTake ==
    ASSUME BatchesStay, lost \subseteq lost', NEW c \in Chats, NEW n \in DOMAIN log[c],
           NEW b, NEW since, MayTake(c, n, b, since)
    PROVE  MayTake(c, n, b, since)'
  BY DEF BatchesStay, MayTake, Theirs

\* Files that follow their message do so when no file is attached.
LEMMA FollowStays ==
    ASSUME FilesFollow, BatchesStay, FilesStay, lost \subseteq lost'
    PROVE  FilesFollow'
  <1> SUFFICES ASSUME NEW c \in Chats, NEW n \in DOMAIN log'[c],
                      NEW b \in DOMAIN log'[c][n].files, NEW s, s = log'[c][n].files[b].since
               PROVE  MayTake(c, n, b, s)'
    BY DEF FilesFollow, MayTake, Theirs
  <1>1. CASE n \in DOMAIN log[c] /\ log'[c][n].files = log[c][n].files
    <2>1. MayTake(c, n, b, s)
      BY <1>1 DEF FilesFollow, MayTake, Theirs
    <2>2. QED
      BY <1>1, <2>1, MayStillTake
  <1>2. CASE n \notin DOMAIN log[c] /\ DOMAIN log'[c][n].files = {}
    BY <1>2
  <1>3. CASE Theirs(c, n)'
    BY <1>3 DEF MayTake
  <1>4. QED
    BY <1>1, <1>2, <1>3 DEF FilesStay

\* Uploads under way stay as fit as they are.
LEMMA UploadsStay ==
    ASSUME UploadsFit, BatchesStay, lost \subseteq lost',
           \A j \in jobs' : j.kind = "upload" => j \in jobs
    PROVE  UploadsFit'
  <1> SUFFICES ASSUME NEW j \in jobs', j.kind = "upload"
               PROVE  Ref(<<j.chat, j.no>>, log') /\ MayTake(j.chat, j.no, j.files, j.since)'
    BY DEF UploadsFit
  <1>1. Ref(<<j.chat, j.no>>, log) /\ MayTake(j.chat, j.no, j.files, j.since)
    BY DEF UploadsFit
  <1>2. j.chat \in Chats /\ j.no \in DOMAIN log[j.chat]
    BY <1>1 DEF Ref
  <1>3. MayTake(j.chat, j.no, j.files, j.since)'
    BY <1>1, <1>2, MayStillTake
  <1>4. QED
    BY <1>2, <1>3 DEF Ref, BatchesStay

\* A message stays on its way when nothing of the composer's moves.
LEMMA WayStays ==
    ASSUME NEW p, OnTheWay(p), p.chat \in Chats, SealsIn(jobs') = SealsIn(jobs),
           line'.sent = line.sent, Asks' = Asks, BatchesStay, NewAreTheirs
    PROVE  OnTheWay(p)'
  <1>1. \A n \in DOMAIN log'[p.chat] : n > p.since => Theirs(p.chat, n)'
    BY DEF OnTheWay, BatchesStay, NewAreTheirs, Theirs
  <1>2. InTask(p) => InTask(p)'
    BY DEF InTask, SealsIn
  <1>3. (InFrame(p) => InFrame(p)') /\ (InRequest(p) => InRequest(p)')
    BY DEF InFrame, InRequest
  <1>4. QED
    BY <1>1, <1>2, <1>3 DEF OnTheWay

\* A sequence is as long as its domain.
LEMMA SeqDomain == ASSUME NEW s, IsSeq(s) PROVE Len(s) \in Nat /\ DOMAIN s = 1..Len(s)
  <1>1. PICK S : s \in Seq(S)
    BY DEF IsSeq
  <1>2. QED
    BY <1>1

\* Logs grow at their ends.
LEMMA LogsGrow ==
    ASSUME SealInv, SealInv', BatchesStay, NEW c \in Chats
    PROVE  /\ Len(log[c]) \in Nat /\ Len(log'[c]) \in Nat /\ Len(log[c]) <= Len(log'[c])
           /\ DOMAIN log[c] = 1..Len(log[c]) /\ DOMAIN log'[c] = 1..Len(log'[c])
  <1>1. IsSeq(log[c]) /\ IsSeq(log'[c])
    BY DEF SealInv, LogOK
  <1>2. /\ Len(log[c]) \in Nat /\ Len(log'[c]) \in Nat
        /\ DOMAIN log[c] = 1..Len(log[c]) /\ DOMAIN log'[c] = 1..Len(log'[c])
    BY <1>1, SeqDomain
  <1>3. 1..Len(log[c]) \subseteq 1..Len(log'[c])
    BY <1>2 DEF BatchesStay
  <1>4. Len(log[c]) <= Len(log'[c])
    <2>1. CASE Len(log[c]) = 0
      BY <1>2, <2>1
    <2>2. CASE Len(log[c]) # 0
      <3>1. Len(log[c]) \in 1..Len(log[c])
        BY <1>2, <2>2
      <3>2. QED
        BY <1>2, <1>3, <3>1
    <2>3. QED
      BY <2>1, <2>2
  <1>5. QED
    BY <1>2, <1>4

\* A message that is kept stays so.
LEMMA KeptStays ==
    ASSUME SealInv, SealInv', BatchesStay, NEW p, NEW no, Kept(p, no), p.chat \in Chats
    PROVE  Kept(p, no)'
  <1> DEFINE c == p.chat
  <1>1. /\ Len(log[c]) \in Nat /\ Len(log'[c]) \in Nat
        /\ DOMAIN log[c] = 1..Len(log[c]) /\ DOMAIN log'[c] = 1..Len(log'[c])
    BY LogsGrow
  <1>2. no \in DOMAIN log[c] /\ no \in DOMAIN log'[c] /\ log'[c][no].batch = p.files /\ no > p.since
    BY DEF Kept, BatchesStay
  <1>3. ASSUME NEW n \in DOMAIN log'[c], n > p.since, n < no PROVE Theirs(c, n)'
    <2>1. n \in DOMAIN log[c]
      BY <1>1, <1>2, <1>3
    <2>2. Theirs(c, n)
      BY <1>3, <2>1 DEF Kept
    <2>3. QED
      BY <2>1, <2>2 DEF Theirs, BatchesStay
  <1>4. QED
    BY <1>2, <1>3 DEF Kept

\* Files go on waiting when their message goes on, and no list shows it before its frame.
Goes(p) == OnTheWay(p)' \/ \E no : HasCome(p, no)'
Comes(p, no) == Tells(mail', p.chat, no) /\ Unshown(p, no)' /\ Honest(p, no)'
LEMMA WaitStays ==
    ASSUME SealInv, SealInv', FilesWait, lost \subseteq lost', line'.up = line.up, BatchesStay,
           NEW p, p = win.pending, p = win'.pending,
           p # Nil /\ p.files \notin lost' /\ p.chat \in Chats =>
              /\ OnTheWay(p) => Goes(p)
              /\ \A no : HasCome(p, no) => Comes(p, no)
    PROVE  FilesWait'
  <1> SUFFICES ASSUME p # Nil, p.files \notin lost'
               PROVE  /\ line'.up /\ p.chat \in Chats /\ p.since \in 0..Len(log'[p.chat])
                      /\ Goes(p)
    BY DEF FilesWait, Goes
  <1>1. /\ line.up /\ p.chat \in Chats /\ p.since \in 0..Len(log[p.chat])
        /\ OnTheWay(p) \/ \E no : HasCome(p, no)
    BY DEF FilesWait
  <1>2. p.since \in 0..Len(log'[p.chat])
    BY <1>1, LogsGrow
  <1>3. ASSUME NEW no, HasCome(p, no) PROVE HasCome(p, no)'
    <2>1. Kept(p, no)'
      BY <1>1, <1>3, KeptStays DEF HasCome
    <2>2. QED
      BY <1>1, <1>3, <2>1 DEF HasCome, Comes, Tells
  <1>4. QED
    BY <1>1, <1>2, <1>3 DEF Goes

\* A frame that comes in last leaves the frames before it as they are.
LEMMA MailGrows ==
    ASSUME IsSeq(mail), NEW m, m = mail \/ \E x : m = Append(mail, x), NEW c, NEW no,
           Tells(mail, c, no)
    PROVE  Tells(m, c, no)
  <1>1. CASE m = mail
    BY <1>1
  <1>2. ASSUME NEW x, m = Append(mail, x) PROVE Tells(m, c, no)
    <2>1. PICK i \in DOMAIN mail :
             /\ IsNew(mail[i], c) /\ mail[i].no = no
             /\ \A k \in DOMAIN mail : k < i /\ IsNew(mail[k], c) => mail[k].no < no
      BY DEF Tells
    <2>2. PICK S : mail \in Seq(S)
      BY DEF IsSeq
    <2>3. /\ DOMAIN mail = 1..Len(mail) /\ Len(mail) \in Nat
          /\ DOMAIN m = 1..(Len(mail) + 1) /\ \A k \in DOMAIN mail : m[k] = mail[k]
      BY <1>2, <2>2
    <2>4. i \in DOMAIN m /\ \A k \in DOMAIN m : k < i => k \in DOMAIN mail
      BY <2>3
    <2>5. QED
      BY <2>1, <2>3, <2>4 DEF Tells
  <1>3. QED
    BY <1>1, <1>2

\* The first frame is that of the message, or it is of another chat or kind or before it.
LEMMA TailTells ==
    ASSUME IsSeq(mail), mail # <<>>, NEW c, NEW no, Tells(mail, c, no)
    PROVE  \/ IsNew(Head(mail), c) /\ Head(mail).no = no
           \/ /\ Tells(Tail(mail), c, no)
              /\ IsNew(Head(mail), c) => Head(mail).no < no
  <1>1. PICK i \in DOMAIN mail :
           /\ IsNew(mail[i], c) /\ mail[i].no = no
           /\ \A k \in DOMAIN mail : k < i /\ IsNew(mail[k], c) => mail[k].no < no
    BY DEF Tells
  <1>2. PICK S : mail \in Seq(S)
    BY DEF IsSeq
  <1>3. /\ DOMAIN mail = 1..Len(mail) /\ Len(mail) \in Nat /\ 1 \in DOMAIN mail
        /\ Head(mail) = mail[1] /\ Len(Tail(mail)) = Len(mail) - 1
        /\ DOMAIN Tail(mail) = 1..(Len(mail) - 1)
        /\ \A k \in 1..(Len(mail) - 1) : Tail(mail)[k] = mail[k + 1] /\ k + 1 \in DOMAIN mail
    BY <1>2
  <1>4. CASE i = 1
    BY <1>1, <1>3, <1>4
  <1>5. CASE i # 1
    <2>1. i - 1 \in DOMAIN Tail(mail) /\ Tail(mail)[i - 1] = mail[i]
      BY <1>3, <1>5
    <2>2. \A k \in DOMAIN Tail(mail) : k < i - 1 =>
             k + 1 \in DOMAIN mail /\ k + 1 < i /\ Tail(mail)[k] = mail[k + 1]
      BY <1>3
    <2>3. \A k \in DOMAIN Tail(mail) : k < i - 1 /\ IsNew(Tail(mail)[k], c) => Tail(mail)[k].no < no
      BY <1>1, <2>2
    <2>4. Tells(Tail(mail), c, no)
      BY <1>1, <2>1, <2>3 DEF Tells
    <2>5. 1 < i
      BY <1>3, <1>5
    <2>6. QED
      BY <1>1, <1>3, <2>4, <2>5
  <1>6. QED
    BY <1>4, <1>5

\* The list of all messages holds each of them.
LEMMA StoredHolds ==
    ASSUME NEW c, NEW d, NEW no, no \in DOMAIN log[d]
    PROVE  Before(Stored(c), d, no) \/ Holds(Stored(c), d, no)
  <1>1. DOMAIN Stored(c) = DOMAIN log[c] /\ \A i \in DOMAIN log[c] : Stored(c)[i] = <<c, i>>
    BY DEF Stored
  <1>2. CASE c = d
    BY <1>1, <1>2 DEF Holds
  <1>3. CASE c # d
    BY <1>1, <1>3 DEF Before
  <1>4. QED
    BY <1>2, <1>3

\* A list that holds the message of the files that wait gives them to it or passes them over.
LEMMA HeldIsTaken ==
    ASSUME NEW list, NEW p, p = win.pending, p # Nil, NEW no, Kept(p, no),
           Holds(list, p.chat, no), p.files \notin lost \cup PassedOver(list)
    PROVE  Takes(list) /\ list[Len(list)] = <<p.chat, no>>
  <1>1. PICK i \in DOMAIN list : list[i] = <<p.chat, no>>
    BY DEF Holds
  <1>2. Message(list[i]).batch = p.files
    BY <1>1 DEF Message, Kept
  <1>3. QED
    BY <1>1, <1>2 DEF PassedOver

----------------------------------------------------------------------------
(* The list.                                                               *)

\* Tasks of which no upload is new, and whose new answers hold all messages.
Tame(J) == \A j \in J : /\ j.kind = "upload" => j \in jobs
                        /\ j.kind = "load" /\ j.data # Nil =>
                              j \in jobs \/ \E c \in Chats : j.data = Stored(c)

\* New answers are honest.
LEMMA HonestStays ==
    ASSUME NEW J, Tame(J), NEW p, NEW no, HasCome(p, no), NEW j \in J,
           j.kind = "load", j.data # Nil
    PROVE  Before(j.data, p.chat, no) \/ Holds(j.data, p.chat, no)
  <1>1. no \in DOMAIN log[p.chat] /\ Honest(p, no)
    BY DEF HasCome, Kept
  <1>2. CASE j \in jobs
    BY <1>1, <1>2 DEF Honest
  <1>3. CASE \E c \in Chats : j.data = Stored(c)
    BY <1>1, <1>3, StoredHolds
  <1>4. QED
    BY <1>2, <1>3 DEF Tame

\* An upload that a list begins is for the message of its files, or excused.
LEMMA NewUploadFits ==
    ASSUME SealInv, FilesWait, NEW list, ListOK(list, log), Takes(list),
           \A no : HasCome(win.pending, no) =>
               Before(list, win.pending.chat, no) \/ Holds(list, win.pending.chat, no),
           NEW u, u = Upload(list[Len(list)]), win.pending.files \notin lost \cup PassedOver(list)
    PROVE  Ref(<<u.chat, u.no>>, log) /\ MayTake(u.chat, u.no, u.files, u.since)
  <1> DEFINE p == win.pending
             e == list[Len(list)]
  <1>1. u.chat = e[1] /\ u.no = e[2] /\ u.files = p.files /\ u.since = p.since
    BY DEF Upload
  <1>2. Len(list) \in DOMAIN list /\ p # Nil /\ e[1] = p.chat
    <2>1. Len(list) > Len(win.list) /\ p # Nil /\ e[1] = p.chat
      BY DEF Takes
    <2>2. Len(win.list) \in Nat /\ Len(list) \in Nat /\ DOMAIN list = 1..Len(list)
      BY SeqDomain DEF SealInv, WinOK, ListOK
    <2>3. QED
      BY <2>1, <2>2
  <1>3. e[1] \in Chats /\ e[2] \in DOMAIN log[e[1]]
    BY <1>2 DEF ListOK, Ref
  <1>4. /\ p.since \in Nat /\ e[2] \in Nat
        /\ OnTheWay(p) \/ \E no : HasCome(p, no)
    <2>1. p.since \in 0..Len(log[p.chat]) /\ (OnTheWay(p) \/ \E no : HasCome(p, no))
      BY <1>2 DEF FilesWait
    <2>2. Len(log[p.chat]) \in Nat /\ DOMAIN log[p.chat] = 1..Len(log[p.chat])
      BY <1>2, <1>3, SeqDomain DEF SealInv, LogOK
    <2>3. QED
      BY <1>2, <1>3, <2>1, <2>2
  <1> HIDE DEF e, p
  <1>5. CASE OnTheWay(p)
    <2>1. e[2] > p.since => Theirs(e[1], e[2])
      BY <1>2, <1>3, <1>5 DEF OnTheWay
    <2>2. QED
      BY <1>1, <1>3, <1>4, <2>1 DEF MayTake, Ref
  <1>6. ASSUME NEW no, HasCome(p, no) PROVE MayTake(e[1], e[2], p.files, p.since)
    <2>1. /\ no \in DOMAIN log[e[1]] /\ log[e[1]][no].batch = p.files
          /\ \A n \in DOMAIN log[e[1]] : n > p.since /\ n < no => Theirs(e[1], n)
      BY <1>2, <1>6 DEF HasCome, Kept
    <2>2. CASE Before(list, p.chat, no)
      <3>1. e[2] < no
        BY <1>2, <2>2 DEF Before, e
      <3>2. QED
        BY <1>3, <1>4, <2>1, <3>1 DEF MayTake
    <2>3. CASE Holds(list, p.chat, no)
      <3>1. list[Len(list)] = <<p.chat, no>>
        BY <1>2, <1>6, <2>3, HeldIsTaken DEF HasCome, p
      <3>2. e[2] = no
        BY <3>1 DEF e
      <3>3. QED
        BY <2>1, <3>2 DEF MayTake
    <2>4. QED
      BY <1>6, <2>2, <2>3 DEF p
  <1>7. QED
    BY <1>1, <1>3, <1>4, <1>5, <1>6 DEF Ref

\* So the uploads stay fit when a list comes in.
LEMMA ListUploads ==
    ASSUME SealInv, FileInv, UNCHANGED log, NEW mem, NEW list, NEW J,
           ListBecomes(mem, list, J), ListOK(list, log), Tame(J),
           \A no : HasCome(win.pending, no) =>
               Before(list, win.pending.chat, no) \/ Holds(list, win.pending.chat, no)
    PROVE  UploadsFit' /\ lost \subseteq lost'
  <1> DEFINE x == Upload(list[Len(list)])
  <1>1. PICK u : u = x
    OBVIOUS
  <1> HIDE DEF x
  <1>2. /\ lost' = lost \cup PassedOver(list)
        /\ \A j \in jobs' : j \in J \/ (Takes(list) /\ j = u)
    <2>1. CASE Takes(list)
      <3>1. lost' = lost \cup PassedOver(list) /\ (jobs' = J \/ jobs' = J \cup {x})
        BY DEF ListBecomes, x
      <3>2. QED
        BY <1>1, <2>1, <3>1
    <2>2. CASE ~Takes(list)
      BY <2>2 DEF ListBecomes
    <2>3. QED
      BY <2>1, <2>2
  <1>3. ASSUME NEW j \in jobs', j.kind = "upload"
        PROVE  Ref(<<j.chat, j.no>>, log') /\ MayTake(j.chat, j.no, j.files, j.since)'
    <2>1. CASE j \in J
      <3>1. Ref(<<j.chat, j.no>>, log) /\ MayTake(j.chat, j.no, j.files, j.since)
        BY <1>3, <2>1 DEF Tame, FileInv, UploadsFit
      <3>2. QED
        BY <1>2, <3>1 DEF MayTake, Theirs
    <2>2. CASE Takes(list) /\ j = u /\ win.pending.files \notin lost'
      <3>1. Ref(<<u.chat, u.no>>, log) /\ MayTake(u.chat, u.no, u.files, u.since)
        BY <1>1, <1>2, <2>2, NewUploadFits DEF FileInv, x
      <3>2. QED
        BY <1>2, <2>2, <3>1 DEF MayTake, Theirs
    <2>3. CASE Takes(list) /\ j = u /\ win.pending.files \in lost'
      <3>1. u.files = win.pending.files /\ u.chat = list[Len(list)][1] /\ u.no = list[Len(list)][2]
        BY <1>1 DEF Upload, x
      <3>2. Len(list) \in DOMAIN list
        <4>1. Len(list) > Len(win.list)
          BY <2>3 DEF Takes
        <4>2. Len(win.list) \in Nat /\ Len(list) \in Nat /\ DOMAIN list = 1..Len(list)
          BY SeqDomain DEF SealInv, WinOK, ListOK
        <4>3. QED
          BY <4>1, <4>2
      <3>3. QED
        BY <2>3, <3>1, <3>2 DEF ListOK, Ref, MayTake
    <2>4. QED
      BY <1>2, <2>1, <2>2, <2>3
  <1>4. QED
    BY <1>2, <1>3 DEF UploadsFit

\* And the files go on waiting, or are taken.
LEMMA ListWaits ==
    ASSUME SealInv, SealInv', FileInv, UNCHANGED <<groupvars, log, line>>,
           NEW mem, NEW list, NEW J, ListBecomes(mem, list, J), ListOK(list, log), Tame(J),
           SealsIn(J) = SealsIn(jobs),
           \A c \in Chats : mem[c] \in {Nil, win.mem[c], list},
           \A no : HasCome(win.pending, no) =>
               /\ Before(list, win.pending.chat, no) \/ Holds(list, win.pending.chat, no)
               /\ Tells(mail', win.pending.chat, no) \/ Holds(list, win.pending.chat, no)
    PROVE  FilesWait'
  <1> DEFINE u == Upload(list[Len(list)])
  <1>1. u.kind = "upload"
    BY DEF Upload
  <1> HIDE DEF u
  <1>2. /\ lost' = lost \cup PassedOver(list) /\ (jobs' = J \/ jobs' = J \cup {u})
    BY DEF ListBecomes, u
  <1>3. SealsIn(jobs') = SealsIn(jobs)
    BY <1>1, <1>2 DEF SealsIn
  <1>4. /\ win'.list = list /\ win'.mem = mem
        /\ win'.pending = IF Takes(list) THEN Nil ELSE win.pending
    BY DEF ListBecomes, SealInv, WinOK, WinFields, StillWaits
  <1>5. CASE Takes(list)
    BY <1>4, <1>5 DEF FilesWait
  <1>6. CASE ~Takes(list)
    <2>1. PICK p : p = win.pending /\ p = win'.pending
      BY <1>4, <1>6
    <2>2. ASSUME p # Nil, p.files \notin lost', NEW no, HasCome(p, no)
          PROVE  Comes(p, no)
      <3>1. ~ Holds(list, p.chat, no)
        BY <1>2, <1>6, <2>1, <2>2, HeldIsTaken DEF HasCome
      <3>2. Before(list, p.chat, no) /\ Tells(mail', p.chat, no)
        BY <2>1, <2>2, <3>1
      <3>3. Unshown(p, no)'
        BY <1>4, <2>2, <3>2 DEF Unshown, HasCome, Before
      <3>4. \A j \in jobs' : j.kind = "load" => j \in J
        BY <1>1, <1>2
      <3>5. Honest(p, no)'
        BY <2>2, <3>4, HonestStays DEF Honest, Before, Holds
      <3>6. QED
        BY <3>2, <3>3, <3>5 DEF Comes
    <2>3. BatchesStay /\ NewAreTheirs /\ Asks' = Asks
      BY SameLogFiles DEF Asks, Sending, groupvars
    <2>4. p.chat \in Chats /\ OnTheWay(p) => Goes(p)
      BY <1>3, <2>3, WayStays DEF Goes
    <2>5. QED
      BY <1>2, <2>1, <2>2, <2>3, <2>4, WaitStays DEF FileInv
  <1>7. QED
    BY <1>5, <1>6

\* Files that are no longer waited for, or are lost, are no concern.
LEMMA Forgotten ==
    ASSUME FileInv, BatchesStay, FilesStay, lost \subseteq lost', NoCopies',
           \A j \in jobs' : j.kind = "upload" => j \in jobs,
           win'.pending = Nil \/ win'.pending.files \in lost'
    PROVE  FileInv'
  <1>1. FilesFollow' /\ UploadsFit'
    BY FollowStays, UploadsStay DEF FileInv
  <1>2. FilesWait'
    BY DEF FilesWait
  <1>3. QED
    BY <1>1, <1>2 DEF FileInv

\* The window keeps what it shows and the files that wait.
ShowsSame == /\ win'.pending = win.pending /\ win'.list = win.list
             /\ \A c \in Chats : win'.mem[c] \in {Nil, win.mem[c]}

\* Frames that come in are last.
MailSame == mail' = mail \/ \E x : mail' = Append(mail, x)

\* What shows nothing new does not disturb a message whose frame is to come.
LEMMA StaysUnshown ==
    ASSUME SealInv, ShowsSame, Tame(jobs'), NEW p, NEW no, HasCome(p, no), Tells(mail', p.chat, no)
    PROVE  Comes(p, no)
  <1>1. Unshown(p, no)'
    BY DEF HasCome, Unshown, ShowsSame, Before
  <1>2. Honest(p, no)'
    BY HonestStays DEF Honest, Before, Holds
  <1>3. QED
    BY <1>1, <1>2 DEF Comes

\* Files wait on while nothing new is shown and no frame is lost.
LEMMA WaitGoesOn ==
    ASSUME SealInv, SealInv', FilesWait, BatchesStay, lost \subseteq lost', line'.up = line.up,
           ShowsSame, Tame(jobs'), NEW p, p = win.pending,
           p # Nil => \A no : HasCome(p, no) => Tells(mail', p.chat, no),
           p # Nil /\ p.files \notin lost' /\ p.chat \in Chats /\ OnTheWay(p) => Goes(p)
    PROVE  FilesWait'
  <1>1. ASSUME p # Nil, NEW no, HasCome(p, no) PROVE Comes(p, no)
    BY <1>1, StaysUnshown
  <1>2. p = win'.pending
    BY DEF ShowsSame
  <1>3. QED
    BY <1>1, <1>2, WaitStays

\* Frames that come in last lose none.
LEMMA MailStays ==
    ASSUME SealInv, MailSame, NEW p, NEW no, HasCome(p, no)
    PROVE  Tells(mail', p.chat, no)
  <1>1. PICK m : m = mail'
    OBVIOUS
  <1>2. Tells(m, p.chat, no)
    BY <1>1, MailGrows DEF HasCome, MailSame, SealInv, MailOK
  <1>3. QED
    BY <1>1, <1>2 DEF Tells

\* What has to be shown of a step that shows nothing new.
LEMMA FilesGoOn ==
    ASSUME SealInv, SealInv', FileInv, BatchesStay, FilesStay, lost \subseteq lost', NoCopies',
           line'.up = line.up, ShowsSame, MailSame, Tame(jobs'),
           NEW p, p = win.pending,
           p # Nil /\ p.files \notin lost' /\ p.chat \in Chats /\ OnTheWay(p) => Goes(p)
    PROVE  FileInv'
  <1>1. FilesFollow' /\ UploadsFit'
    BY FollowStays, UploadsStay DEF FileInv, Tame
  <1>2. FilesWait'
    BY MailStays, WaitGoesOn DEF FileInv
  <1>3. QED
    BY <1>1, <1>2 DEF FileInv

\* A step in which nothing of the composer's moves.
LEMMA QuietForFiles ==
    ASSUME SealInv, SealInv', FileInv, BatchesStay, NewAreTheirs, FilesStay, lost \subseteq lost',
           UNCHANGED line, Asks' = Asks, SealsIn(jobs') = SealsIn(jobs), Tame(jobs'),
           ShowsSame, MailSame
    PROVE  FileInv'
  <1>1. NoCopies'
    BY DEF NoCopies, FileInv
  <1>2. PICK p : p = win.pending
    OBVIOUS
  <1>3. p.chat \in Chats /\ OnTheWay(p) => Goes(p)
    BY WayStays DEF Goes
  <1>4. QED
    BY <1>1, <1>2, <1>3, FilesGoOn

\* Nor does anything move when the log and the requests stay.
LEMMA QuietLog ==
    ASSUME SealInv, SealInv', FileInv, UNCHANGED <<groupvars, log, line>>, lost \subseteq lost',
           SealsIn(jobs') = SealsIn(jobs), Tame(jobs'), ShowsSame, MailSame
    PROVE  FileInv'
  <1>1. BatchesStay /\ NewAreTheirs /\ FilesStay /\ Asks' = Asks
    BY SameLogFiles DEF Asks, Sending, groupvars
  <1>2. QED
    BY <1>1, QuietForFiles

----------------------------------------------------------------------------
(* The user.                                                               *)

\* A task that begins by asking is tame.
LEMMA TameGrows ==
    ASSUME NEW J, Tame(J)
    PROVE  /\ \A k, c : k # "upload" => Tame(J \cup {Job(k, c)})
           /\ \A c, mem : Tame(J \cup {LoadJob(c, mem)})
           /\ \A K : K \subseteq J => Tame(K)
  <1>1. \A k, c : Job(k, c).kind = k /\ Job(k, c).data = Nil
    BY DEF Job
  <1>2. \A c, mem : LoadJob(c, mem).kind = "load" /\ LoadJob(c, mem).data = Nil
    BY DEF LoadJob
  <1>3. QED
    BY <1>1, <1>2 DEF Tame

\* The tasks of a chat that is opened are.
LEMMA TameEntry ==
    ASSUME NEW J, Tame(J), NEW c, NEW mem
    PROVE  Tame(OnEntry(c, J, mem)) /\ Tame(Rechecked(c, J))
  <1>1. Tame(Without({"keys"}, J))
    BY TameGrows DEF Without
  <1>2. \/ Rechecked(c, J) = Without({"keys"}, J)
        \/ Rechecked(c, J) = Without({"keys"}, J) \cup {Job("keys", c)}
        \/ Rechecked(c, J) = Without({"keys"}, J) \cup {Job("peer", c)}
    BY DEF Rechecked, KeyJobs
  <1>3. Tame(Rechecked(c, J))
    BY <1>1, <1>2, TameGrows
  <1>4. Tame(Rechecked(c, J) \cup {LoadJob(c, mem)})
    BY <1>3, TameGrows
  <1>5. Tame((Rechecked(c, J) \cup {LoadJob(c, mem)}) \cup {Job("info", c)})
    BY <1>4, TameGrows
  <1>6. OnEntry(c, J, mem) \subseteq (Rechecked(c, J) \cup {LoadJob(c, mem)}) \cup {Job("info", c)}
    BY DEF OnEntry
  <1>7. QED
    BY <1>3, <1>5, <1>6, TameGrows

\* The tasks under way are tame.
LEMMA TameJobs == Tame(jobs) /\ \A j : Tame(jobs \ {j})
  BY DEF Tame

\* A change of the chat forgets the files that wait.
LEMMA SwitchForgets ==
    ASSUME FileInv, NEW c, NEW J, NEW D, NEW mem, Switch(c, J, D, mem), Tame(J),
           UNCHANGED <<reqs, log, line, lost>>
    PROVE  FileInv'
  <1>1. win'.pending = Nil /\ Tame(jobs')
    BY TameEntry DEF Switch, Closed
  <1>2. BatchesStay /\ FilesStay /\ NoCopies'
    BY SameLogFiles DEF NoCopies, Asks, Sending, FileInv
  <1>3. QED
    BY <1>1, <1>2, Forgotten DEF Tame

\* Nothing is under way from the composer: no files wait for a message that is on its way.
LEMMA NothingUnderWay ==
    ASSUME NEW p, OnTheWay(p)
    PROVE  Behind
  <1>1. CASE InTask(p)
    BY <1>1 DEF InTask, SealsIn, Behind
  <1>2. CASE InFrame(p)
    <2>1. PICK f : line.sent = <<f>>
      BY <1>2 DEF InFrame
    <2>2. <<f>> # <<>>
      OBVIOUS
    <2>3. QED
      BY <2>1, <2>2 DEF Behind
  <1>3. CASE InRequest(p)
    BY <1>3 DEF InRequest, Asks, Sending, Behind
  <1>4. QED
    BY <1>1, <1>2, <1>3 DEF OnTheWay

\* A message is submitted, and its files wait for it alone or count as lost.
LEMMA SubmitKeepsFiles ==
    ASSUME SealInv, SealInv', FileInv, Submit
    PROVE  FileInv'
  <1> DEFINE behind == ({win.files} \ {0})
                           \cup IF win.pending = Nil THEN {} ELSE {win.pending.files}
             new == [chat |-> win.chat, files |-> win.files, since |-> Len(log[win.chat])]
  <1>1. /\ UNCHANGED <<groupvars, log, mail, line>> /\ line.up
        /\ jobs' = jobs \cup {SealJob} /\ lost' = lost \cup (IF Behind THEN behind ELSE {})
        /\ win' = IF win.edit # 0 \/ win.files = 0 THEN win ELSE [win EXCEPT !.pending = new]
    BY DEF Submit
  <1>2. BatchesStay /\ FilesStay /\ Asks' = Asks
    BY <1>1, SameLogFiles DEF Asks, Sending, groupvars
  <1>3. NoCopies'
    BY <1>1, <1>2 DEF NoCopies, FileInv
  <1>4. DOMAIN win = WinFields /\ win.chat \in Chats
    BY DEF SealInv, WinOK, Submit, Enabled
  <1>5. SealJob.kind = "seal"
    BY DEF SealJob
  <1>6. Tame(jobs')
    BY <1>1, <1>5 DEF Tame
  <1>7. /\ win'.list = win.list /\ win'.mem = win.mem
        /\ win'.pending = IF win.edit # 0 \/ win.files = 0 THEN win.pending ELSE new
    BY <1>1, <1>4 DEF WinFields
  <1>8. new.chat = win.chat /\ new.files = win.files /\ new.since = Len(log[win.chat])
    OBVIOUS
  <1> HIDE DEF new
  <1>9. CASE Behind
    <2>1. win'.pending = Nil \/ win'.pending.files \in lost'
      BY <1>1, <1>7, <1>8, <1>9
    <2>2. QED
      BY <1>1, <1>2, <1>3, <1>6, <2>1, Forgotten DEF Tame
  <1>10. CASE ~Behind /\ (win.edit # 0 \/ win.files = 0)
    <2>1. PICK p : p = win.pending
      OBVIOUS
    <2>2. ~OnTheWay(p)
      BY <1>10, NothingUnderWay
    <2>3. ShowsSame
      BY <1>7, <1>10 DEF ShowsSame
    <2>4. QED
      BY <1>1, <1>2, <1>3, <1>6, <2>1, <2>2, <2>3, FilesGoOn DEF MailSame
  <1>11. CASE ~Behind /\ win.edit = 0 /\ win.files # 0
    <2>1. FilesFollow' /\ UploadsFit'
      BY <1>1, <1>2, <1>6, FollowStays, UploadsStay DEF FileInv, Tame
    <2>2. PICK p : p = win'.pending
      OBVIOUS
    <2>3. p.chat = win.chat /\ p.files = win.files /\ p.since = Len(log[win.chat])
      BY <1>7, <1>8, <1>11, <2>2
    <2>4. Len(log[win.chat]) \in Nat /\ DOMAIN log[win.chat] = 1..Len(log[win.chat])
      BY <1>4, SeqDomain DEF SealInv, LogOK
    <2>5. \A n \in DOMAIN log'[p.chat] : n > p.since => Theirs(p.chat, n)'
      BY <1>1, <2>3, <2>4
    <2>6. SealsIn(jobs) = {} /\ line.sent = <<>> /\ Asks = {}
      BY <1>11 DEF Behind, SealsIn, Asks, Sending
    <2>7. SealsIn(jobs') = {SealJob} /\ line'.sent = <<>> /\ Asks' = {}
      BY <1>1, <1>2, <1>5, <2>6 DEF SealsIn
    <2>8. Carries(Frame(SealJob), p)
      BY <1>11, <2>3 DEF Carries, Frame, SealJob
    <2>9. InTask(p)'
      <3>1. PICK j : j = SealJob
        OBVIOUS
      <3>2. j \in jobs' /\ SealsIn(jobs') = {j} /\ Carries(Frame(j), p)
        BY <1>1, <2>7, <2>8, <3>1
      <3>3. QED
        BY <2>7, <3>2 DEF InTask, SealsIn, Carries, Frame
    <2>10. FilesWait'
      BY <1>1, <1>4, <2>2, <2>3, <2>4, <2>5, <2>9 DEF FilesWait, OnTheWay
    <2>11. QED
      BY <1>3, <2>1, <2>10 DEF FileInv
  <1>12. QED
    BY <1>9, <1>10, <1>11

\* The message is encrypted: its files wait for its frame.
LEMMA SealedKeepsFiles ==
    ASSUME SealInv, SealInv', FileInv, NEW j \in jobs, Sealed(j)
    PROVE  FileInv'
  <1>1. /\ UNCHANGED <<groupvars, log, mail, lost>> /\ jobs' = jobs \ {j} /\ j.kind = "seal"
        /\ win' = [win EXCEPT !.text = {}, !.edit = IF j.edit = 0 THEN @ ELSE 0,
                              !.files = IF j.edit = 0 THEN 0 ELSE @]
    BY DEF Sealed
  <1>2. BatchesStay /\ NewAreTheirs /\ FilesStay /\ Asks' = Asks
    BY <1>1, SameLogFiles DEF Asks, Sending, groupvars
  <1>3. PICK f : f = Frame(j)
    OBVIOUS
  <1>4. line'.up = line.up /\ line'.sent = Append(line.sent, f) /\ IsSeq(line.sent)
    BY <1>3 DEF Sealed, SealInv, LineOK
  <1>5. DOMAIN f.copies = {}
    BY <1>3 DEF Frame
  <1>6. NoCopies'
    <2>1. \A i \in DOMAIN line'.sent : DOMAIN line'.sent[i].copies = {}
      BY <1>4, <1>5, AppendSeq DEF NoCopies, FileInv
    <2>2. QED
      BY <1>2, <2>1 DEF NoCopies, FileInv
  <1>7. ShowsSame
    BY <1>1 DEF ShowsSame, SealInv, WinOK, WinFields
  <1>8. PICK p : p = win.pending
    OBVIOUS
  <1>9. ASSUME p.chat \in Chats, OnTheWay(p) PROVE Goes(p)
    <2>1. j \in SealsIn(jobs)
      BY <1>1 DEF SealsIn
    <2>2. InTask(p)
      BY <1>9, <2>1 DEF OnTheWay, InFrame, InRequest
    <2>3. SealsIn(jobs) = {j} /\ Carries(f, p) /\ line.sent = <<>> /\ Asks = {}
      BY <1>3, <2>1, <2>2 DEF InTask
    <2>4. SealsIn(jobs') = {}
      BY <1>1, <2>3 DEF SealsIn
    <2>5. line'.sent = <<f>>
      BY <1>4, <2>3
    <2>6. InFrame(p)'
      BY <1>2, <2>3, <2>4, <2>5 DEF InFrame, SealsIn, Carries
    <2>7. \A n \in DOMAIN log'[p.chat] : n > p.since => Theirs(p.chat, n)'
      BY <1>1, <1>9 DEF OnTheWay, Theirs
    <2>8. QED
      BY <2>6, <2>7 DEF Goes, OnTheWay
  <1>10. Tame(jobs')
    BY <1>1, TameJobs
  <1>11. QED
    BY <1>1, <1>2, <1>4, <1>6, <1>7, <1>8, <1>9, <1>10, FilesGoOn DEF MailSame

\* It is not: the files of a message are forgotten, an edit has none.
LEMMA NotSealedKeepsFiles ==
    ASSUME SealInv, SealInv', FileInv, NEW j \in jobs, NotSealed(j)
    PROVE  FileInv'
  <1>1. /\ UNCHANGED <<groupvars, log, mail, line, lost>> /\ jobs' = jobs \ {j} /\ j.kind = "seal"
        /\ win' = IF j.edit = 0 THEN [win EXCEPT !.pending = Nil] ELSE win
    BY DEF NotSealed
  <1>2. BatchesStay /\ FilesStay /\ Asks' = Asks
    BY <1>1, SameLogFiles DEF Asks, Sending, groupvars
  <1>3. NoCopies' /\ Tame(jobs')
    BY <1>1, <1>2, TameJobs DEF NoCopies, FileInv
  <1>4. CASE j.edit = 0
    <2>1. win'.pending = Nil
      BY <1>1, <1>4 DEF SealInv, WinOK, WinFields
    <2>2. QED
      BY <1>1, <1>2, <1>3, <2>1, Forgotten DEF Tame
  <1>5. CASE j.edit # 0
    <2>1. ShowsSame
      BY <1>1, <1>5 DEF ShowsSame
    <2>2. PICK p : p = win.pending
      OBVIOUS
    <2>3. ~OnTheWay(p)
      <3>1. j \in SealsIn(jobs)
        BY <1>1 DEF SealsIn
      <3>2. ~InFrame(p) /\ ~InRequest(p)
        BY <3>1 DEF InFrame, InRequest
      <3>3. ~InTask(p)
        BY <1>5, <3>1 DEF InTask, Carries, Frame
      <3>4. QED
        BY <3>2, <3>3 DEF OnTheWay
    <2>4. QED
      BY <1>1, <1>2, <1>3, <2>1, <2>2, <2>3, FilesGoOn DEF MailSame
  <1>6. QED
    BY <1>4, <1>5

\* All the user does.
LEMMA UserKeepsFiles == SealInv /\ SealInv' /\ FileInv /\ UserStep => FileInv'
  <1> SUFFICES ASSUME SealInv, SealInv', FileInv, UserStep PROVE FileInv'
    OBVIOUS
  <1>1. ASSUME UNCHANGED <<groupvars, log, jobs, mail, line, lost>>, ShowsSame PROVE FileInv'
    BY <1>1, QuietLog, TameJobs DEF MailSame
  <1>2. DOMAIN win = WinFields
    BY DEF SealInv, WinOK
  <1>3. ASSUME NEW c \in Chats, OpenChat(c) PROVE FileInv'
    BY <1>3, SwitchForgets, TameJobs DEF OpenChat, groupvars
  <1>4. ASSUME NEW c \in Chats, Share(c) PROVE FileInv'
    <2> DEFINE D == [drafts EXCEPT ![c] = @ \cup {made.thoughts + 1}]
    <2>1. UNCHANGED <<groupvars, log, mail, line, lost>>
      BY <1>4 DEF Share
    <2>2. CASE win' = Reread(D) /\ UNCHANGED jobs
      <3>1. ShowsSame
        BY <1>2, <2>2 DEF Reread, ShowsSame, WinFields
      <3>2. QED
        BY <1>1, <2>1, <2>2, <3>1
    <2>3. CASE Switch(c, jobs, D, win.mem)
      BY <2>1, <2>3, SwitchForgets, TameJobs DEF groupvars
    <2>4. QED
      BY <1>4, <2>2, <2>3 DEF Share
  <1>5. ASSUME Type \/ SelectFiles \/ RemoveFiles \/ PersistDraft \/ Reply
               \/ \E i \in DOMAIN win.list : Edit(win.list[i])
        PROVE  FileInv'
    <2>1. UNCHANGED <<groupvars, log, jobs, mail, line, lost>>
      BY <1>5 DEF Type, SelectFiles, RemoveFiles, PersistDraft, Reply, Edit
    <2>2. win'.pending = win.pending /\ win'.list = win.list /\ win'.mem = win.mem
      BY <1>2, <1>5
      DEF WinFields, Type, SelectFiles, RemoveFiles, PersistDraft, Reply, Edit
    <2>3. QED
      BY <1>1, <2>1, <2>2 DEF ShowsSame
  <1>6. QED
    BY <1>3, <1>4, <1>5, SubmitKeepsFiles, SealedKeepsFiles, NotSealedKeepsFiles DEF UserStep

----------------------------------------------------------------------------
(* The server.                                                             *)

\* A message appended to a log.
LEMMA LogAppended ==
    ASSUME LogOK(log), NEW c \in Chats, NEW m, log' = [log EXCEPT ![c] = Append(@, m)]
    PROVE  /\ \A d \in Chats : \A n \in DOMAIN log[d] :
                 n \in DOMAIN log'[d] /\ log'[d][n] = log[d][n]
           /\ \A d \in Chats : \A n \in DOMAIN log'[d] \ DOMAIN log[d] :
                 d = c /\ n = Len(log'[c])
           /\ Len(log'[c]) \in DOMAIN log'[c] /\ log'[c][Len(log'[c])] = m
           /\ Len(log[c]) \in Nat /\ Len(log'[c]) = Len(log[c]) + 1
           /\ DOMAIN log[c] = 1..Len(log[c])
  <1>1. DOMAIN log = Chats /\ IsSeq(log[c])
    BY DEF LogOK
  <1>2. log'[c] = Append(log[c], m) /\ \A d \in Chats \ {c} : log'[d] = log[d]
    BY <1>1
  <1>3. PICK S : log[c] \in Seq(S)
    BY <1>1 DEF IsSeq
  <1>4. /\ DOMAIN log[c] = 1..Len(log[c]) /\ Len(log[c]) \in Nat
        /\ DOMAIN log'[c] = 1..(Len(log[c]) + 1) /\ Len(log'[c]) = Len(log[c]) + 1
        /\ log'[c][Len(log[c]) + 1] = m
        /\ \A n \in 1..Len(log[c]) : log'[c][n] = log[c][n]
    BY <1>2, <1>3
  <1>5. QED
    BY <1>2, <1>4

\* So messages keep what they are.
LEMMA AppendedStays ==
    ASSUME LogOK(log), NEW c \in Chats, NEW m, log' = [log EXCEPT ![c] = Append(@, m)],
           DOMAIN m.files = {} \/ m.via \in {"other", "forward"}
    PROVE  /\ BatchesStay /\ FilesStay
           /\ m.via \in {"other", "forward"} => NewAreTheirs
  <1>1. BatchesStay
    BY LogAppended DEF BatchesStay
  <1>2. FilesStay
    BY LogAppended DEF FilesStay, Theirs
  <1>3. m.via \in {"other", "forward"} => NewAreTheirs
    BY LogAppended DEF NewAreTheirs, Theirs
  <1>4. QED
    BY <1>1, <1>2, <1>3

\* The server looks at a message: its files wait for the request it becomes, or are lost.
LEMMA CheckKeepsFiles ==
    ASSUME SealInv, SealInv', TypeInv, FileInv, CheckSend
    PROVE  FileInv'
  <1>1. PICK f : f = Head(line.sent)
    OBVIOUS
  <1>2. /\ UNCHANGED <<log, win, jobs, mail>> /\ line.sent # <<>> /\ Sending("composer") = {}
        /\ \/ reqs' = reqs \cup {SendRequest(f, "store")} /\ lost' = lost
           \/ Refused(f) /\ reqs' = reqs
    BY <1>1 DEF CheckSend
  <1>3. /\ line'.up = line.up /\ line'.sent = Tail(line.sent) /\ IsSeq(line.sent)
    BY DEF CheckSend, SealInv, LineOK
  <1>4. /\ 1 \in DOMAIN line.sent /\ f = line.sent[1]
        /\ \A i \in DOMAIN Tail(line.sent) : i + 1 \in DOMAIN line.sent
                                             /\ Tail(line.sent)[i] = line.sent[i + 1]
    BY <1>1, <1>2, <1>3, TailSeq
  <1>5. f.via = "composer" /\ DOMAIN f.copies = {}
    BY <1>4 DEF TypeInv, FramesFit, FileInv, NoCopies
  <1>6. SendRequest(f, "store").frame = f /\ SendRequest(f, "store").kind = "send"
    BY DEF SendRequest
  <1>7. Asks = {} /\ (reqs' = reqs => Asks' = {})
        /\ (reqs' = reqs \cup {SendRequest(f, "store")} => Asks' = {f})
    BY <1>2, <1>5, <1>6 DEF Asks, Sending
  <1>8. NoCopies'
    BY <1>2, <1>3, <1>4, <1>5, <1>7 DEF NoCopies, FileInv
  <1>9. lost \subseteq lost' /\ (Refused(f) => f.batch \in lost' \cup {0})
    BY <1>2 DEF Refused
  <1>10. PICK p : p = win.pending
    OBVIOUS
  <1>11. ASSUME p # Nil, p.files \notin lost', p.chat \in Chats, OnTheWay(p) PROVE Goes(p)
    <2>1. ~InTask(p) /\ ~InRequest(p)
      BY <1>2 DEF InTask, InRequest
    <2>2. PICK g : line.sent = <<g>> /\ Carries(g, p) /\ SealsIn(jobs) = {}
      BY <1>11, <2>1 DEF OnTheWay, InFrame
    <2>3. f = g /\ line'.sent = <<>>
      BY <1>3, <1>4, <2>2
    <2>4. p.files # 0
      BY <1>10, <1>11 DEF TypeInv, WinFits
    <2>5. ~Refused(f)
      BY <1>9, <1>11, <2>2, <2>3, <2>4 DEF Carries
    <2>6. Asks' = {f} /\ SealsIn(jobs') = {}
      BY <1>2, <1>7, <2>2, <2>5
    <2>7. InRequest(p)'
      BY <2>2, <2>3, <2>6 DEF InRequest, SealsIn, Carries
    <2>8. \A n \in DOMAIN log'[p.chat] : n > p.since => Theirs(p.chat, n)'
      BY <1>2, <1>11 DEF OnTheWay, Theirs
    <2>9. QED
      BY <2>7, <2>8 DEF Goes, OnTheWay
  <1>12. BatchesStay /\ FilesStay /\ ShowsSame /\ MailSame /\ Tame(jobs')
    BY <1>2, SameLogFiles, TameJobs DEF ShowsSame, MailSame
  <1>13. QED
    BY <1>3, <1>8, <1>9, <1>10, <1>11, <1>12, FilesGoOn

\* A request that ends is the one on the way, and no other of the composer's is.
LEMMA RequestOnTheWay ==
    ASSUME NEW r \in reqs, r.kind = "send", r.frame.via = "composer", NEW p, OnTheWay(p)
    PROVE  Carries(r.frame, p)
  <1>1. r.frame \in Asks
    BY DEF Asks, Sending
  <1>2. QED
    BY <1>1 DEF OnTheWay, InTask, InFrame, InRequest

\* Fewer requests have no more copies, and those of others are none of the composer's.
LEMMA FewerAsks ==
    ASSUME FileInv, line'.sent = line.sent, NEW r, reqs' = reqs \ {r}
    PROVE  NoCopies' /\ (r.kind = "send" /\ r.frame.via # "composer" => Asks' = Asks)
  <1>1. Asks' \subseteq Asks
    BY DEF Asks, Sending
  <1>2. NoCopies'
    BY <1>1 DEF NoCopies, FileInv
  <1>3. r.kind = "send" /\ r.frame.via # "composer" => Asks' = Asks
    BY DEF Asks, Sending
  <1>4. QED
    BY <1>2, <1>3

\* A message that is refused loses its files.
LEMMA RefusalKeepsFiles ==
    ASSUME SealInv, SealInv', TypeInv, FileInv, NEW r \in reqs, r.kind = "send",
           reqs' = reqs \ {r}, Refused(r.frame), UNCHANGED <<log, win, jobs, mail, line>>
    PROVE  FileInv'
  <1>1. BatchesStay /\ NewAreTheirs /\ FilesStay /\ ShowsSame /\ MailSame /\ Tame(jobs')
    BY SameLogFiles, TameJobs DEF ShowsSame, MailSame
  <1>2. lost \subseteq lost' /\ r.frame.batch \in lost' \cup {0}
    BY DEF Refused
  <1>3. CASE r.frame.via = "composer"
    <2>1. PICK p : p = win.pending
      OBVIOUS
    <2>2. p # Nil /\ p.files \notin lost' => ~OnTheWay(p)
      BY <1>2, <1>3, <2>1, RequestOnTheWay DEF Carries, TypeInv, WinFits
    <2>3. QED
      BY <1>1, <1>2, <2>1, <2>2, FewerAsks, FilesGoOn
  <1>4. CASE r.frame.via # "composer"
    BY <1>1, <1>2, <1>4, FewerAsks, QuietForFiles
  <1>5. QED
    BY <1>3, <1>4

\* The message of the files that wait is stored: its frame is to come.
LEMMA NewHasCome ==
    ASSUME SealInv, NEW p, p.chat \in Chats, p.since \in 0..Len(log[p.chat]), OnTheWay(p),
           NEW m, m.batch = p.files, log' = [log EXCEPT ![p.chat] = Append(@, m)],
           NEW no, no = Len(log'[p.chat]),
           NEW x, IsNew(x, p.chat), x.no = no, mail' = Append(mail, x), UNCHANGED <<win, jobs>>
    PROVE  HasCome(p, no)'
  <1> DEFINE c == p.chat
  <1>0. LogOK(log) /\ WinOK(win, log) /\ JobsOK(jobs, log) /\ MailOK(mail, log)
    BY DEF SealInv
  <1>1. /\ no \in DOMAIN log'[c] /\ log'[c][no] = m /\ no = Len(log[c]) + 1
        /\ Len(log[c]) \in Nat /\ DOMAIN log[c] = 1..Len(log[c])
        /\ \A n \in DOMAIN log[c] : n \in DOMAIN log'[c] /\ log'[c][n] = log[c][n]
        /\ \A n \in DOMAIN log'[c] \ DOMAIN log[c] : n = no
    <2>1. LogOK(log) /\ c \in Chats /\ log' = [log EXCEPT ![c] = Append(@, m)]
      BY <1>0
    <2>2. PICK k : k = c
      OBVIOUS
    <2> HIDE DEF c
    <2>3. /\ \A d \in Chats : \A n \in DOMAIN log[d] :
                n \in DOMAIN log'[d] /\ log'[d][n] = log[d][n]
          /\ \A d \in Chats : \A n \in DOMAIN log'[d] \ DOMAIN log[d] :
                d = k /\ n = Len(log'[k])
          /\ Len(log'[k]) \in DOMAIN log'[k] /\ log'[k][Len(log'[k])] = m
          /\ Len(log[k]) \in Nat /\ Len(log'[k]) = Len(log[k]) + 1
          /\ DOMAIN log[k] = 1..Len(log[k])
      BY <2>1, <2>2, LogAppended
    <2>4. no = Len(log'[k])
      BY <2>2 DEF c
    <2>5. QED
      BY <2>1, <2>2, <2>3, <2>4
  <1>2. no > p.since /\ \A n \in DOMAIN log[c] : n < no
    BY <1>1
  <1>3. Kept(p, no)'
    <2>1. ASSUME NEW n \in DOMAIN log'[c], n > p.since, n < no PROVE Theirs(c, n)'
      <3>1. n \in DOMAIN log[c] /\ log'[c][n] = log[c][n]
        BY <1>1, <2>1
      <3>2. Theirs(c, n)
        BY <2>1, <3>1 DEF OnTheWay
      <3>3. QED
        BY <3>1, <3>2 DEF Theirs
    <2>2. QED
      BY <1>1, <1>2, <2>1 DEF Kept
  <1>4. \A l : ListOK(l, log) => Before(l, c, no)
    BY <1>2 DEF ListOK, Ref, Before
  <1>5. Unshown(p, no)'
    BY <1>0, <1>4 DEF Unshown, WinOK, MemOK, Before
  <1>6. Honest(p, no)'
    BY <1>0, <1>4 DEF Honest, JobsOK, JobOK, Before
  <1>7. Tells(mail', c, no)
    <2>1. PICK S : mail \in Seq(S)
      BY <1>0 DEF MailOK, IsSeq
    <2>2. /\ DOMAIN mail = 1..Len(mail) /\ Len(mail) \in Nat
          /\ DOMAIN mail' = 1..(Len(mail) + 1) /\ mail'[Len(mail) + 1] = x
          /\ \A k \in DOMAIN mail : mail'[k] = mail[k]
      BY <2>1
    <2>3. \A k \in DOMAIN mail : IsNew(mail[k], c) => mail[k].no < no
      BY <1>0, <1>2 DEF MailOK, Ref, IsNew
    <2>4. \A k \in DOMAIN mail' : k < Len(mail) + 1 => k \in DOMAIN mail
      BY <2>2
    <2>5. QED
      BY <2>2, <2>3, <2>4 DEF Tells
  <1>8. Tells(mail, c, no)'
    BY <1>7 DEF Tells, IsNew
  <1>9. QED
    BY <1>3, <1>5, <1>6, <1>8 DEF HasCome

\* A message is stored.
LEMMA StoreKeepsFiles ==
    ASSUME SealInv, SealInv', TypeInv, FileInv, NEW r \in reqs, StoreNew(r)
    PROVE  FileInv'
  <1> DEFINE q == r.frame
  <1>1. PICK f : f = q
    OBVIOUS
  <1>2. PICK m : m = Stores(Me, f.via, f.text, f.seal, f.batch, Copied(f), f.chat, r.moved)
    OBVIOUS
  <1>3. /\ r.kind = "send" /\ reqs' = reqs \ {r} /\ UNCHANGED <<win, jobs, line>>
        /\ \/ /\ Me \in PeopleOf(f.chat) /\ log' = [log EXCEPT ![f.chat] = Append(@, m)]
              /\ mail' = Told(PeopleOf(f.chat), "new", f.chat, Len(log'[f.chat])) /\ lost' = lost
           \/ Refused(f) /\ UNCHANGED <<log, mail>>
    BY <1>1, <1>2 DEF StoreNew
  <1>4. f.chat \in Chats /\ LogOK(log)
    BY <1>1, <1>3 DEF SealInv, RequestsOK, RequestOK, FrameOK
  <1>5. m.via = f.via /\ m.batch = f.batch /\ m.files = Copied(f)
    BY <1>2 DEF Stores
  <1>6. CASE Refused(f) /\ UNCHANGED <<log, mail>>
    BY <1>1, <1>3, <1>6, RefusalKeepsFiles
  <1>7. CASE /\ Me \in PeopleOf(f.chat) /\ log' = [log EXCEPT ![f.chat] = Append(@, m)]
             /\ mail' = Told(PeopleOf(f.chat), "new", f.chat, Len(log'[f.chat])) /\ lost' = lost
    <2>1. PICK no : no = Len(log'[f.chat])
      OBVIOUS
    <2>2. PICK x : x = [kind |-> "new", chat |-> f.chat, no |-> no]
      OBVIOUS
    <2>3. IsNew(x, f.chat) /\ x.no = no
      BY <2>2 DEF IsNew
    <2>4. mail' = IF line.up THEN Append(mail, x) ELSE mail
      BY <1>7, <2>1, <2>2 DEF Told
    <2>5. MailSame /\ ShowsSame /\ Tame(jobs')
      BY <1>3, <2>4, TameJobs DEF MailSame, ShowsSame
    <2>6. CASE f.via = "composer"
      <3>1. f \in Asks
        BY <1>1, <1>3, <2>6 DEF Asks, Sending
      <3>2. DOMAIN m.files = {}
        BY <1>5, <3>1 DEF Copied, FileInv, NoCopies
      <3>3. BatchesStay /\ FilesStay
        BY <1>4, <1>7, <3>2, AppendedStays
      <3>4. PICK p : p = win.pending
        OBVIOUS
      <3>5. ASSUME p # Nil, p.files \notin lost', p.chat \in Chats, OnTheWay(p) PROVE Goes(p)
        <4>1. line.up /\ p.since \in 0..Len(log[p.chat])
          BY <1>7, <3>4, <3>5 DEF FileInv, FilesWait
        <4>2. f.chat = p.chat /\ f.batch = p.files
          BY <1>1, <1>3, <2>6, <3>5, RequestOnTheWay DEF Carries
        <4>3. HasCome(p, no)'
          BY <1>3, <1>5, <1>7, <2>1, <2>3, <2>4, <3>5, <4>1, <4>2, NewHasCome
        <4>4. QED
          BY <4>3 DEF Goes
      <3>6. NoCopies'
        BY <1>3, FewerAsks
      <3>7. QED
        BY <1>3, <1>7, <2>5, <3>3, <3>4, <3>5, <3>6, FilesGoOn
    <2>7. CASE f.via # "composer"
      <3>1. m.via \in {"other", "forward"}
        BY <1>1, <1>3, <1>5, <2>7 DEF TypeInv, SendsFit, SendFits
      <3>2. BatchesStay /\ FilesStay /\ NewAreTheirs
        BY <1>4, <1>7, <3>1, AppendedStays
      <3>3. Asks' = Asks
        BY <1>1, <1>3, <2>7, FewerAsks
      <3>4. QED
        BY <1>3, <1>7, <2>5, <3>2, <3>3, QuietForFiles
    <2>8. QED
      BY <2>6, <2>7
  <1>8. QED
    BY <1>3, <1>6, <1>7

\* An edit changes no files.
LEMMA EditKeepsFiles ==
    ASSUME SealInv, SealInv', TypeInv, FileInv, NEW r \in reqs, StoreEdit(r)
    PROVE  FileInv'
  <1> DEFINE f == r.frame
             m == log[f.chat][f.no]
             new == [m EXCEPT !.text = f.text, !.seal = f.seal, !.at = PeopleOf(f.chat),
                              !.moved = r.moved]
  <1>1. RequestOK(r, log, Members) /\ r.kind = "send" /\ f.no # 0 /\ reqs' = reqs \ {r}
        /\ UNCHANGED <<win, jobs, mail, line, lost>>
    BY DEF StoreEdit, SealInv, RequestsOK
  <1>2. f.chat \in Chats /\ f.no \in DOMAIN log[f.chat]
    BY <1>1 DEF RequestOK, FrameOK, Mine
  <1>3. DOMAIN log = Chats /\ MessageFields \subseteq DOMAIN m
    BY <1>2 DEF SealInv, LogOK, MessageOK
  <1>4. new.via = m.via /\ new.batch = m.batch /\ new.files = m.files
    BY <1>3 DEF MessageFields
  <1>5. log' = [log EXCEPT ![f.chat] = [log[f.chat] EXCEPT ![f.no] = new]]
    BY <1>2, <1>3 DEF StoreEdit, MessageFields
  <1>6. f.via = "composer"
    BY <1>1 DEF TypeInv, SendsFit, SendFits
  <1> HIDE DEF new
  <1>7. /\ log'[f.chat] = [log[f.chat] EXCEPT ![f.no] = new]
        /\ \A c \in Chats \ {f.chat} : log'[c] = log[c]
    BY <1>2, <1>3, <1>5
  <1>8. /\ DOMAIN log'[f.chat] = DOMAIN log[f.chat] /\ log'[f.chat][f.no] = new
        /\ \A k \in DOMAIN log[f.chat] \ {f.no} : log'[f.chat][k] = log[f.chat][k]
    BY <1>2, <1>7
  <1> HIDE DEF f
  <1>9. BatchesStay /\ FilesStay
    BY <1>2, <1>4, <1>7, <1>8 DEF BatchesStay, FilesStay
  <1>10. PICK p : p = win.pending
    OBVIOUS
  <1>11. ~OnTheWay(p)
    BY <1>1, <1>6, RequestOnTheWay DEF Carries, f
  <1>12. ShowsSame /\ MailSame /\ Tame(jobs') /\ NoCopies'
    BY <1>1, FewerAsks, TameJobs DEF ShowsSame, MailSame
  <1>13. QED
    BY <1>1, <1>9, <1>10, <1>11, <1>12, FilesGoOn

\* What the server does for others and for the group.
LEMMA OthersKeepFiles ==
    ASSUME GroupInv, SealInv, SealInv', TypeInv, UNCHANGED focus, FileInv,
           \/ GroupAsked \/ \E u \in People : SomebodyOnboards(u) \/ \E c \in Chats : Post(u, c)
           \/ \E r \in reqs : CheckForward(r) \/ GroupRefused(r)
    PROVE  FileInv'
  <1>1. SealsIn(jobs') = SealsIn(jobs) /\ Asks' = Asks
    BY OtherStepsStay DEF TextStays, Asks
  <1>2. DOMAIN win = WinFields
    BY DEF SealInv, WinOK
  <1>3. UNCHANGED <<line, jobs, lost>>
    BY DEF GroupAsked, SomebodyOnboards, Post, CheckForward, GroupRefused, PageKeeps
  <1>4. ShowsSame
    <2>1. win' = win \/ win' = Doubted("onboarded")
      BY DEF GroupAsked, SomebodyOnboards, Post, CheckForward, GroupRefused
    <2>2. QED
      BY <1>2, <2>1 DEF ShowsSame, Doubted, WinFields
  <1>5. MailSame
    BY DEF GroupAsked, SomebodyOnboards, Post, CheckForward, GroupRefused, Told, MailSame
  <1>6. BatchesStay /\ NewAreTheirs /\ FilesStay
    <2>1. CASE log' = log
      BY <2>1, SameLogFiles
    <2>2. ASSUME NEW u \in People, NEW c \in Chats, Post(u, c)
          PROVE  BatchesStay /\ NewAreTheirs /\ FilesStay
      <3> DEFINE m == Stores(u, "other", {},
                             IF c = "group" THEN EncryptForGroup({}, GroupKeys, u)
                             ELSE SealFor(c, {}, {}), 0, <<>>, c, {})
      <3>1. m.via = "other"
        BY DEF Stores
      <3>2. log' = [log EXCEPT ![c] = Append(@, m)]
        BY <2>2 DEF Post
      <3> HIDE DEF m
      <3>3. QED
        BY <3>1, <3>2, AppendedStays DEF SealInv
    <2>3. QED
      BY <2>1, <2>2 DEF GroupAsked, SomebodyOnboards, CheckForward, GroupRefused, PageKeeps
  <1>7. QED
    BY <1>1, <1>3, <1>4, <1>5, <1>6, TameJobs, QuietForFiles

\* A transaction of the group changes no request of the composer's but for who moved.
LEMMA DoneKeepsFiles ==
    ASSUME GroupInv, SealInv, SealInv', FileInv, NEW r \in reqs, GroupDone(r)
    PROVE  FileInv'
  <1>1. UNCHANGED <<log, line, lost>> /\ r.kind # "send"
    BY DEF GroupDone, PageKeeps, WriteAdd, WriteRole, WriteRemoval, Purge
  <1>2. ShowsSame
    <2>1. DOMAIN win = WinFields /\ (win' = win \/ win' = Doubted("missed"))
      BY DEF SealInv, WinOK, GroupDone, UnlessHeard
    <2>2. QED
      BY <2>1 DEF ShowsSame, Doubted, WinFields
  <1>3. SealsIn(jobs') = SealsIn(jobs)
    BY AnsweredSeals DEF GroupDone
  <1>4. Tame(jobs')
    <2>1. PICK k \in {"updated", "closed"} : Answered(r, k)
      BY DEF GroupDone
    <2>2. jobs' = jobs \/ jobs' = jobs \cup {Job(k, "group")}
      BY <2>1 DEF Answered
    <2>3. QED
      BY <2>2, TameJobs, TameGrows
  <1>5. MailSame
    BY DEF GroupDone, Told, MailSame
  <1>6. PICK who : reqs' = Settled(reqs \ {r}, who) \/ reqs' = reqs \ {r}
    BY DEF GroupDone, WriteAdd, WriteRole, WriteRemoval, Purge
  <1>7. Asks' = Asks
    <2>1. CASE reqs' = reqs \ {r}
      BY <1>1, <2>1 DEF Asks, Sending
    <2>2. CASE reqs' = Settled(reqs \ {r}, who)
      <3>1. \A q \in reqs : Shape(q) /\ (q.kind = "send" => "frame" \in DOMAIN q)
        BY DEF GroupInv, Harmless, SealInv, RequestsOK, RequestOK
      <3> DEFINE Noted(q) == [q EXCEPT !.moved = @ \cup who]
      <3>2. \A q \in reqs : /\ Noted(q).kind = q.kind
                            /\ q.kind = "send" => Noted(q).frame = q.frame
        BY <3>1 DEF Shape
      <3>3. reqs' = {Noted(q) : q \in reqs \ {r}}
        BY <2>2 DEF Settled
      <3> HIDE DEF Noted
      <3>4. \A f : f \in Asks' <=> \E q \in reqs' : q.kind = "send" /\ q.frame.via = "composer"
                                                   /\ f = q.frame
        BY DEF Asks, Sending
      <3>5. \A f : f \in Asks <=> \E q \in reqs : q.kind = "send" /\ q.frame.via = "composer"
                                                  /\ f = q.frame
        BY DEF Asks, Sending
      <3>6. \A f : f \in Asks' <=> f \in Asks
        BY <1>1, <3>2, <3>3, <3>4, <3>5
      <3>7. QED
        BY <3>6
    <2>3. QED
      BY <1>6, <2>1, <2>2
  <1>8. QED
    BY <1>1, <1>2, <1>3, <1>4, <1>5, <1>7, SameLogFiles, QuietForFiles

\* All the server does.
LEMMA ServerKeepsFiles ==
    GroupInv /\ SealInv /\ SealInv' /\ TypeInv /\ FileInv /\ ServerStep /\ UNCHANGED focus
        => FileInv'
  <1> SUFFICES ASSUME GroupInv, SealInv, SealInv', TypeInv, FileInv, ServerStep, UNCHANGED focus
               PROVE  FileInv'
    OBVIOUS
  <1>1. ASSUME NEW r \in reqs, StoreFails(r) PROVE FileInv'
    BY <1>1, RefusalKeepsFiles DEF StoreFails
  <1>2. ASSUME \/ GroupAsked
               \/ \E u \in People : SomebodyOnboards(u) \/ \E c \in Chats : Post(u, c)
               \/ \E r \in reqs : CheckForward(r) \/ GroupRefused(r)
        PROVE  FileInv'
    BY <1>2, OthersKeepFiles
  <1>3. QED
    BY <1>1, <1>2, CheckKeepsFiles, StoreKeepsFiles, EditKeepsFiles, DoneKeepsFiles DEF ServerStep

----------------------------------------------------------------------------
(* The page.                                                               *)

\* A list comes in.
LEMMA ListKeepsFiles ==
    ASSUME SealInv, SealInv', FileInv, UNCHANGED <<groupvars, log, line>>,
           NEW mem, NEW list, NEW J, ListBecomes(mem, list, J), ListOK(list, log), Tame(J),
           SealsIn(J) = SealsIn(jobs),
           \A c \in Chats : mem[c] \in {Nil, win.mem[c], list},
           \A no : HasCome(win.pending, no) =>
               /\ Before(list, win.pending.chat, no) \/ Holds(list, win.pending.chat, no)
               /\ Tells(mail', win.pending.chat, no) \/ Holds(list, win.pending.chat, no)
    PROVE  FileInv'
  <1>1. FilesWait'
    BY ListWaits
  <1>2. UploadsFit' /\ lost \subseteq lost'
    BY ListUploads
  <1>3. FilesFollow'
    BY <1>2, SameLogFiles, FollowStays DEF FileInv
  <1>4. NoCopies'
    BY DEF NoCopies, Asks, Sending, groupvars, FileInv
  <1>5. QED
    BY <1>1, <1>2, <1>3, <1>4 DEF FileInv

\* Nothing new is shown, and no frame is lost.
LEMMA QuietPage ==
    ASSUME SealInv, SealInv', FileInv, UNCHANGED <<groupvars, log, line, lost>>,
           SealsIn(jobs') = SealsIn(jobs), Tame(jobs'), ShowsSame,
           win.pending # Nil =>
               \A no : HasCome(win.pending, no) => Tells(mail', win.pending.chat, no)
    PROVE  FileInv'
  <1>1. BatchesStay /\ NewAreTheirs /\ FilesStay /\ Asks' = Asks
    BY SameLogFiles DEF Asks, Sending, groupvars
  <1>2. FilesFollow' /\ UploadsFit' /\ NoCopies'
    BY <1>1, FollowStays, UploadsStay DEF FileInv, Tame, NoCopies
  <1>3. PICK p : p = win.pending
    OBVIOUS
  <1>4. p.chat \in Chats /\ OnTheWay(p) => Goes(p)
    BY <1>1, WayStays DEF Goes
  <1>5. FilesWait'
    BY <1>1, <1>3, <1>4, WaitGoesOn DEF FileInv
  <1>6. QED
    BY <1>2, <1>5 DEF FileInv

\* A cached list is shown, and the list is asked for.
LEMMA LoadKeepsFiles ==
    ASSUME SealInv, SealInv', FileInv, UNCHANGED <<groupvars, log, line>>,
           NEW c \in Chats, NEW J, StartLoad(c, J), Tame(J), SealsIn(J) = SealsIn(jobs),
           \A no : HasCome(win.pending, no) => Tells(mail', win.pending.chat, no)
    PROVE  FileInv'
  <1>1. PICK l : l = LoadJob(c, win.mem)
    OBVIOUS
  <1>2. Tame(J \cup {l})
    BY <1>1, TameGrows
  <1>3. l.kind = "load"
    BY <1>1 DEF LoadJob
  <1>4. SealsIn(J \cup {l}) = SealsIn(jobs)
    BY <1>3, OtherTasks
  <1>5. CASE win.mem[c] = Nil
    <2>1. jobs' = J \cup {l} /\ UNCHANGED <<win, lost>>
      BY <1>1, <1>5 DEF StartLoad
    <2>2. QED
      BY <1>2, <1>4, <2>1, QuietPage DEF ShowsSame
  <1>6. CASE win.mem[c] # Nil
    <2>1. ListBecomes(win.mem, win.mem[c], J \cup {l})
      BY <1>1, <1>6 DEF StartLoad
    <2>2. ListOK(win.mem[c], log)
      BY <1>6 DEF SealInv, WinOK, MemOK
    <2>3. \A no : HasCome(win.pending, no) => Before(win.mem[c], win.pending.chat, no)
      BY <1>6 DEF HasCome, Unshown
    <2>4. QED
      BY <1>2, <1>4, <2>1, <2>2, <2>3, ListKeepsFiles
  <1>7. QED
    BY <1>5, <1>6

\* Frames that come in.
LEMMA FrameKeepsFiles == SealInv /\ SealInv' /\ FileInv /\ TakeFrame => FileInv'
  <1> SUFFICES ASSUME SealInv, SealInv', FileInv, TakeFrame PROVE FileInv'
    OBVIOUS
  <1>1. PICK x : x = Head(mail)
    OBVIOUS
  <1>2. UNCHANGED <<groupvars, log, line>> /\ mail # <<>> /\ mail' = Tail(mail)
    BY DEF TakeFrame
  <1>3. /\ IsSeq(mail) /\ DOMAIN win = WinFields /\ ListOK(win.list, log)
        /\ win.pending # Nil => win.pending.chat = win.chat
    BY DEF SealInv, MailOK, WinOK
  <1>4. PICK p : p = win.pending
    OBVIOUS
  <1>5. ASSUME NEW no, HasCome(p, no)
        PROVE  \/ IsNew(x, p.chat) /\ x.no = no
               \/ Tells(mail', p.chat, no) /\ (IsNew(x, p.chat) => x.no < no)
    <2>1. \/ IsNew(x, p.chat) /\ x.no = no
          \/ Tells(Tail(mail), p.chat, no) /\ (IsNew(x, p.chat) => x.no < no)
      BY <1>1, <1>2, <1>3, <1>5, TailTells DEF HasCome
    <2>2. QED
      BY <1>2, <2>1
  <1>6. CASE x.kind = "members" /\ StartLoad("group", jobs \cup {Job("info", "group")})
    <2>1. \A no : HasCome(p, no) => Tells(mail', p.chat, no)
      BY <1>5, <1>6 DEF IsNew
    <2>2. Tame(jobs \cup {Job("info", "group")})
      BY TameJobs, TameGrows
    <2>3. Job("info", "group").kind # "seal"
      BY DEF Job
    <2>4. SealsIn(jobs \cup {Job("info", "group")}) = SealsIn(jobs) /\ "group" \in Chats
      BY <2>3, OtherTasks DEF Chats
    <2>5. QED
      BY <1>2, <1>4, <1>6, <2>1, <2>2, <2>4, LoadKeepsFiles
  <1>7. CASE CloseChat(jobs) /\ UNCHANGED lost
    BY <1>2, <1>7, SwitchForgets, TameJobs DEF CloseChat, groupvars
  <1>8. CASE x.kind = "gone" /\ win' = [win EXCEPT !.mem["group"] = Nil] /\ UNCHANGED <<jobs, lost>>
    <2>1. \A no : HasCome(p, no) => Tells(mail', p.chat, no)
      BY <1>5, <1>8 DEF IsNew
    <2>2. ShowsSame
      <3>1. win'.pending = win.pending /\ win'.list = win.list
            /\ win'.mem = [win.mem EXCEPT !["group"] = Nil] /\ DOMAIN win.mem = Chats
        BY <1>3, <1>8 DEF WinFields, SealInv, WinOK, MemOK
      <3>2. QED
        BY <3>1 DEF ShowsSame
    <2>3. QED
      BY <1>2, <1>4, <1>8, <2>1, <2>2, QuietPage, TameJobs
  <1>9. CASE x.kind \in {"new", "members"} /\ win.chat # x.chat /\ UNCHANGED <<win, jobs, lost>>
    <2>1. p # Nil => \A no : HasCome(p, no) => Tells(mail', p.chat, no)
      BY <1>3, <1>4, <1>5, <1>9 DEF IsNew
    <2>2. QED
      BY <1>2, <1>4, <1>9, <2>1, QuietPage, TameJobs DEF ShowsSame
  <1>10. ASSUME NEW list, x.kind = "new", win.chat = x.chat,
                list = IF \E i \in DOMAIN win.list : win.list[i] = <<x.chat, x.no>> THEN win.list
                       ELSE Append(win.list, <<x.chat, x.no>>),
                ListBecomes([win.mem EXCEPT ![x.chat] = list], list, jobs)
         PROVE  FileInv'
    <2>1. Holds(list, x.chat, x.no) /\ ListOK(list, log)
      <3>1. Ref(<<x.chat, x.no>>, log)
        <4>1. x = mail[1] /\ 1 \in DOMAIN mail
          BY <1>1, <1>2, <1>3, TailSeq
        <4>2. QED
          BY <1>10, <4>1 DEF SealInv, MailOK
      <3>2. PICK e : e = <<x.chat, x.no>>
        OBVIOUS
      <3>3. CASE \E i \in DOMAIN win.list : win.list[i] = e
        <4>1. list = win.list
          BY <1>10, <3>2, <3>3
        <4>2. QED
          BY <1>3, <3>2, <3>3, <4>1 DEF Holds
      <3>4. CASE ~\E i \in DOMAIN win.list : win.list[i] = e
        <4>1. list = Append(win.list, e) /\ IsSeq(win.list)
          BY <1>3, <1>10, <3>2, <3>4 DEF ListOK
        <4>2. /\ IsSeq(list) /\ Len(list) \in DOMAIN list
              /\ \A i \in DOMAIN list : \/ i \in DOMAIN win.list /\ list[i] = win.list[i]
                                       \/ list[i] = e
          BY <4>1, AppendSeq
        <4>3. list[Len(list)] = e
          <5>1. PICK S : win.list \in Seq(S)
            BY <4>1 DEF IsSeq
          <5>2. QED
            BY <4>1, <5>1
        <4>4. QED
          BY <1>3, <3>1, <3>2, <4>2, <4>3 DEF ListOK, Holds
      <3>5. QED
        BY <3>3, <3>4
    <2>2. \A i \in DOMAIN list : \/ i \in DOMAIN win.list /\ list[i] = win.list[i]
                                 \/ list[i] = <<x.chat, x.no>>
      BY <1>3, <1>10, AppendSeq DEF ListOK
    <2>3. ASSUME NEW no, HasCome(p, no)
          PROVE  /\ Before(list, p.chat, no) \/ Holds(list, p.chat, no)
                 /\ Tells(mail', p.chat, no) \/ Holds(list, p.chat, no)
      <3>1. CASE IsNew(x, p.chat) /\ x.no = no
        BY <2>1, <3>1 DEF IsNew
      <3>2. CASE Tells(mail', p.chat, no) /\ (IsNew(x, p.chat) => x.no < no)
        <4>1. Before(win.list, p.chat, no)
          BY <1>4, <2>3 DEF HasCome, Unshown
        <4>2. Before(list, p.chat, no)
          BY <1>10, <2>2, <3>2, <4>1 DEF Before, IsNew
        <4>3. QED
          BY <3>2, <4>2
      <3>3. QED
        BY <1>5, <2>3, <3>1, <3>2
    <2>4. \A c \in Chats : [win.mem EXCEPT ![x.chat] = list][c] \in {Nil, win.mem[c], list}
      BY DEF SealInv, WinOK, MemOK
    <2>5. QED
      BY <1>2, <1>4, <1>10, <2>1, <2>3, <2>4, TameJobs, ListKeepsFiles
  <1>11. QED
    BY <1>1, <1>6, <1>7, <1>8, <1>9, <1>10 DEF TakeFrame

\* Answers that come in, or fail.
LEMMA AnswersKeepFiles ==
    ASSUME SealInv, SealInv', FileInv, NEW j \in jobs,
           \/ Serve(j) \/ KeysCome(j) \/ KeysFail(j) \/ PeerComes(j) \/ InfoComes(j)
    PROVE  FileInv'
  <1>1. UNCHANGED <<groupvars, log, line, lost, mail>>
    BY DEF Serve, KeysCome, KeysFail, PeerComes, InfoComes, Keeps
  <1>2. DOMAIN win = WinFields /\ JobOK(j, log)
    BY DEF SealInv, WinOK, JobsOK
  <1>3. ShowsSame
    <2>1. CASE Serve(j)
      BY <2>1 DEF Serve, ShowsSame
    <2>2. CASE KeysCome(j)
      <3>1. \/ win' = [win EXCEPT !.status = "not-ready", !.keys = Nil]
            \/ win' = [win EXCEPT !.status = "ready", !.keys = j.data]
            \/ win' = win
            \/ win' = Doubted("kept")
        BY <2>2 DEF KeysCome
      <3>2. QED
        BY <1>2, <3>1 DEF ShowsSame, Doubted, WinFields
    <2>3. CASE KeysFail(j)
      <3>1. win' = [Doubted("failed") EXCEPT !.status = "loading", !.keys = Nil]
        BY <2>3 DEF KeysFail
      <3>2. QED
        BY <1>2, <3>1 DEF ShowsSame, Doubted, WinFields
    <2>4. CASE PeerComes(j)
      <3>1. win' = win \/ \E s : win' = [win EXCEPT !.status = s]
        BY <2>4 DEF PeerComes
      <3>2. QED
        BY <1>2, <3>1 DEF ShowsSame, WinFields
    <2>5. CASE InfoComes(j)
      BY <1>2, <2>5 DEF InfoComes, ShowsSame, Doubted, WinFields
    <2>6. QED
      BY <2>1, <2>2, <2>3, <2>4, <2>5
  <1>4. SealsIn(jobs') = SealsIn(jobs) /\ Tame(jobs')
    <2>1. CASE Serve(j)
      <3> DEFINE d == IF j.kind = "keys" THEN GroupKeys ELSE Stored(j.chat)
                 k == [j EXCEPT !.data = d]
      <3>1. j.kind \in {"keys", "load"} /\ jobs' = (jobs \ {j}) \cup {k}
        BY <2>1 DEF Serve
      <3>2. k.kind = j.kind /\ (j.kind = "load" => k.data = Stored(j.chat) /\ j.chat \in Chats)
        BY <1>2, <3>1 DEF JobOK
      <3> HIDE DEF k
      <3>3. SealsIn(jobs') = SealsIn(jobs)
        BY <3>1, <3>2 DEF SealsIn
      <3>4. QED
        BY <3>1, <3>2, <3>3 DEF Tame
    <2>2. CASE KeysCome(j) \/ KeysFail(j) \/ PeerComes(j)
      <3>1. j.kind \in {"keys", "peer"} /\ jobs' = jobs \ {j}
        BY <2>2 DEF KeysCome, KeysFail, PeerComes
      <3>2. QED
        BY <3>1, OtherTasks, TameJobs
    <2>3. CASE InfoComes(j)
      <3>1. j.kind = "info" /\ jobs' \in {InfoNews(jobs \ {j}), jobs \ {j}}
        BY <2>3 DEF InfoComes
      <3>2. QED
        <4>1. PICK J : J = jobs \ {j}
          OBVIOUS
        <4>2. SealsIn(J) = SealsIn(jobs) /\ Tame(J)
          BY <3>1, <4>1, OtherTasks, TameJobs
        <4>3. SealsIn(Rechecked(win.chat, J)) = SealsIn(J) /\ Tame(Rechecked(win.chat, J))
          BY <4>2, EntrySeals, TameEntry
        <4>4. jobs' = Rechecked(win.chat, J) \/ jobs' = J
          BY <3>1, <4>1 DEF InfoNews
        <4>5. QED
          BY <4>2, <4>3, <4>4
    <2>4. QED
      BY <2>1, <2>2, <2>3
  <1>5. QED
    BY <1>1, <1>3, <1>4, QuietLog DEF MailSame

\* Lists that are answered, or not.
LEMMA ListsKeepFiles ==
    ASSUME SealInv, SealInv', FileInv, NEW j \in jobs,
           LoadComes(j) \/ LoadFails(j) \/ PanelComes(j)
    PROVE  FileInv'
  <1>1. UNCHANGED <<groupvars, log, line, mail>>
    BY DEF LoadComes, LoadFails, PanelComes, Keeps
  <1>2. PICK p : p = win.pending
    OBVIOUS
  <1>3. \A no : HasCome(p, no) => Tells(mail', p.chat, no)
    BY <1>1, MailStays DEF MailSame
  <1>4. ASSUME LoadComes(j) PROVE FileInv'
    <2> DEFINE list == IF j.data = Nil THEN Stored(j.chat) ELSE j.data
    <2>1. /\ j.kind = "load"
          /\ ListBecomes([win.mem EXCEPT ![j.chat] = list], list, jobs \ {j})
      BY <1>4 DEF LoadComes
    <2>2. JobOK(j, log)
      BY DEF SealInv, JobsOK
    <2>3. j.chat \in Chats
      BY <2>1, <2>2 DEF JobOK
    <2>4. ListOK(list, log)
      <3>1. CASE j.data = Nil
        BY <2>3, <3>1, StoredIsSeq DEF SealInv, Stored
      <3>2. CASE j.data # Nil
        BY <2>1, <2>2, <3>2 DEF JobOK
      <3>3. QED
        BY <3>1, <3>2
    <2>5. \A no : HasCome(p, no) => Before(list, p.chat, no) \/ Holds(list, p.chat, no)
      BY <2>1, StoredHolds DEF HasCome, Kept, Honest
    <2> HIDE DEF list
    <2>6. SealsIn(jobs \ {j}) = SealsIn(jobs) /\ Tame(jobs \ {j})
      BY <2>1, OtherTasks, TameJobs
    <2>7. \A c \in Chats : [win.mem EXCEPT ![j.chat] = list][c] \in {Nil, win.mem[c], list}
      BY DEF SealInv, WinOK, MemOK
    <2>8. QED
      BY <1>1, <1>2, <1>3, <2>1, <2>4, <2>5, <2>6, <2>7, ListKeepsFiles
  <1>5. ASSUME LoadFails(j) PROVE FileInv'
    <2>1. j.kind = "load"
      BY <1>5 DEF LoadFails
    <2>2. SealsIn(jobs \ {j}) = SealsIn(jobs) /\ Tame(jobs \ {j})
      BY <2>1, OtherTasks, TameJobs
    <2>3. CASE jobs' = jobs \ {j} /\ UNCHANGED <<win, lost>>
      BY <1>1, <1>2, <1>3, <2>2, <2>3, QuietPage DEF ShowsSame
    <2>4. CASE ListBecomes(win.mem, <<>>, jobs \ {j})
      <3>1. PICK none : none = <<>>
        OBVIOUS
      <3>2. ListOK(none, log) /\ \A c, no : Before(none, c, no)
        BY <3>1, NoneIsSeq DEF ListOK, Before
      <3>3. ListBecomes(win.mem, none, jobs \ {j})
        BY <2>4, <3>1
      <3>4. QED
        BY <1>1, <1>2, <1>3, <2>2, <3>2, <3>3, ListKeepsFiles
    <2>5. QED
      BY <1>5, <2>3, <2>4 DEF LoadFails
  <1>6. ASSUME PanelComes(j) PROVE FileInv'
    <2>1. j.kind \in {"updated", "closed"}
      BY <1>6 DEF PanelComes
    <2>2. SealsIn(jobs \ {j}) = SealsIn(jobs) /\ Tame(jobs \ {j})
      BY <2>1, OtherTasks, TameJobs
    <2>3. CASE StartLoad("group", (jobs \ {j}) \cup {Job("info", "group")})
      <3>1. Job("info", "group").kind # "seal"
        BY DEF Job
      <3>2. SealsIn((jobs \ {j}) \cup {Job("info", "group")}) = SealsIn(jobs) /\ "group" \in Chats
        BY <2>2, <3>1, OtherTasks DEF Chats
      <3>3. Tame((jobs \ {j}) \cup {Job("info", "group")})
        BY <2>2, TameGrows
      <3>4. QED
        BY <1>1, <1>2, <1>3, <2>3, <3>2, <3>3, LoadKeepsFiles
    <2>4. CASE CloseChat(jobs \ {j}) /\ UNCHANGED lost
      BY <1>1, <2>2, <2>4, SwitchForgets DEF CloseChat, groupvars
    <2>5. QED
      BY <1>6, <2>3, <2>4 DEF PanelComes
  <1>7. QED
    BY <1>4, <1>5, <1>6

\* An upload changes the files of its message only, and nothing else of any.
LEMMA UploadChanges ==
    ASSUME SealInv, FileInv, NEW j \in jobs, UploadEnds(j)
    PROVE  BatchesStay /\ NewAreTheirs /\ FilesFollow'
  <1> DEFINE old == Message(<<j.chat, j.no>>)
             file == [file |-> PrepareAttachment(j.files, j.to, Me), since |-> j.since]
             files == [b \in DOMAIN old.files \cup {j.files} |->
                          IF b = j.files THEN file ELSE old.files[b]]
             m == [old EXCEPT !.files = files]
  <1>1. LogOK(log) /\ j.kind = "upload" /\ lost' = lost
    BY DEF SealInv, UploadEnds
  <1>2. j.chat \in Chats /\ j.no \in DOMAIN log[j.chat] /\ MayTake(j.chat, j.no, j.files, j.since)
    BY <1>1 DEF FileInv, UploadsFit, Ref
  <1>3. CASE log' = log
    BY <1>1, <1>3, SameLogFiles, FollowStays DEF FileInv
  <1>4. CASE log' = [log EXCEPT ![j.chat][j.no].files = files]
    <2>1. log' = [log EXCEPT ![j.chat] = [log[j.chat] EXCEPT ![j.no] = m]]
      BY <1>4 DEF Message
    <2>2. old = log[j.chat][j.no] /\ DOMAIN log = Chats /\ MessageFields \subseteq DOMAIN old
      BY <1>1, <1>2 DEF LogOK, MessageOK, Message
    <2>3. m.batch = old.batch /\ m.via = old.via /\ m.files = files
      BY <2>2 DEF MessageFields
    <2>4. DOMAIN files = DOMAIN old.files \cup {j.files}
          /\ \A b \in DOMAIN files : \/ b = j.files /\ files[b].since = j.since
                                     \/ b \in DOMAIN old.files /\ files[b] = old.files[b]
      OBVIOUS
    <2> HIDE DEF m, old, files
    <2>5. /\ log'[j.chat] = [log[j.chat] EXCEPT ![j.no] = m]
          /\ \A c \in Chats \ {j.chat} : log'[c] = log[c]
      BY <1>2, <2>1, <2>2
    <2>6. /\ DOMAIN log'[j.chat] = DOMAIN log[j.chat] /\ log'[j.chat][j.no] = m
          /\ \A k \in DOMAIN log[j.chat] \ {j.no} : log'[j.chat][k] = log[j.chat][k]
      BY <1>2, <2>5
    <2>7. BatchesStay /\ NewAreTheirs
      BY <2>2, <2>3, <2>5, <2>6 DEF BatchesStay, NewAreTheirs
    <2>8. ASSUME NEW c \in Chats, NEW n \in DOMAIN log'[c], NEW b \in DOMAIN log'[c][n].files,
                 NEW s, s = log'[c][n].files[b].since
          PROVE  MayTake(c, n, b, s)'
      <3>1. n \in DOMAIN log[c] /\ MayTake(c, n, b, s)
        <4>1. CASE c = j.chat /\ n = j.no
          <5>1. \/ b = j.files /\ s = j.since
                \/ b \in DOMAIN old.files /\ s = old.files[b].since
            BY <2>3, <2>4, <2>6, <2>8, <4>1
          <5>2. CASE b = j.files /\ s = j.since
            BY <1>2, <4>1, <5>2
          <5>3. CASE b \in DOMAIN old.files /\ s = old.files[b].since
            BY <1>2, <2>2, <4>1, <5>3 DEF FileInv, FilesFollow, MayTake, Theirs
          <5>4. QED
            BY <5>1, <5>2, <5>3
        <4>2. CASE ~(c = j.chat /\ n = j.no)
          <5>1. n \in DOMAIN log[c] /\ log'[c][n] = log[c][n]
            BY <2>5, <2>6, <2>8, <4>2
          <5>2. QED
            BY <2>8, <5>1 DEF FileInv, FilesFollow, MayTake, Theirs
        <4>3. QED
          BY <4>1, <4>2
      <3>2. QED
        BY <1>1, <2>7, <3>1, MayStillTake
    <2>9. FilesFollow'
      BY <2>8 DEF FilesFollow, MayTake, Theirs
    <2>10. QED
      BY <2>7, <2>9
  <1>5. QED
    BY <1>3, <1>4 DEF UploadEnds

\* Files come to the message they were uploaded for.
LEMMA UploadKeepsFiles ==
    ASSUME SealInv, SealInv', FileInv, NEW j \in jobs, UploadEnds(j)
    PROVE  FileInv'
  <1>1. /\ j.kind = "upload" /\ jobs' = jobs \ {j} /\ win' = [win EXCEPT !.uploading = FALSE]
        /\ UNCHANGED <<groupvars, mail, line, lost>>
    BY DEF UploadEnds
  <1>2. BatchesStay /\ NewAreTheirs /\ FilesFollow'
    BY UploadChanges
  <1>3. Asks' = Asks /\ SealsIn(jobs') = SealsIn(jobs) /\ Tame(jobs') /\ MailSame
    BY <1>1, OtherTasks, TameJobs DEF Asks, Sending, groupvars, MailSame
  <1>4. UploadsFit' /\ NoCopies'
    BY <1>1, <1>2, <1>3, UploadsStay DEF FileInv, NoCopies
  <1>5. ShowsSame
    BY <1>1 DEF ShowsSame, SealInv, WinOK, WinFields
  <1>6. PICK p : p = win.pending
    OBVIOUS
  <1>7. p.chat \in Chats /\ OnTheWay(p) => Goes(p)
    BY <1>1, <1>2, <1>3, WayStays DEF Goes
  <1>8. FilesWait'
    BY <1>1, <1>2, <1>3, <1>5, <1>6, <1>7, MailStays, WaitGoesOn DEF FileInv
  <1>9. QED
    BY <1>2, <1>4, <1>8 DEF FileInv

\* A forward carries no files that wait.
LEMMA ForwardsKeepFiles ==
    ASSUME SealInv, SealInv', FileInv,
           \/ \E i \in DOMAIN win.list, c \in Chats : Forward(win.list[i], c)
           \/ \E j \in jobs : ForwardSent(j)
    PROVE  FileInv'
  <1>1. ASSUME NEW e, NEW c \in Chats, Forward(e, c) PROVE FileInv'
    <2> DEFINE k == [kind |-> "forward", chat |-> c, of |-> e]
    <2>1. k.kind = "forward" /\ jobs' = jobs \cup {k}
          /\ UNCHANGED <<groupvars, log, mail, line, win, lost>>
      BY <1>1 DEF Forward, Keeps
    <2> HIDE DEF k
    <2>2. SealsIn(jobs') = SealsIn(jobs) /\ Tame(jobs')
      BY <2>1, OtherTasks DEF Tame
    <2>3. QED
      BY <2>1, <2>2, QuietLog DEF ShowsSame, MailSame
  <1>2. ASSUME NEW j \in jobs, ForwardSent(j) PROVE FileInv'
    <2> DEFINE to == IF j.chat = "group" THEN GroupKeys ELSE [r \in Pair |-> PublishedKey(r)]
               f == Forwarded(Message(j.of), j.chat, to)
               q == SendRequest(f, "check")
    <2>1. /\ j.kind = "forward" /\ jobs' = jobs \ {j} /\ (reqs' = reqs \/ reqs' = reqs \cup {q})
          /\ UNCHANGED <<log, win, mail, line, lost>>
      BY <1>2 DEF ForwardSent
    <2>2. f.via = "forward"
      BY DEF Forwarded
    <2>3. q.frame = f
      BY DEF SendRequest
    <2> HIDE DEF f, to, q
    <2>4. Asks' = Asks
      BY <2>1, <2>2, <2>3 DEF Asks, Sending
    <2>5. SealsIn(jobs') = SealsIn(jobs) /\ Tame(jobs')
      BY <2>1, OtherTasks, TameJobs
    <2>6. QED
      BY <2>1, <2>4, <2>5, SameLogFiles, QuietForFiles DEF ShowsSame, MailSame
  <1>3. QED
    BY <1>1, <1>2

\* A line that breaks loses the files that wait; a page that dies forgets them.
LEMMA BreaksKeepFiles ==
    ASSUME SealInv, SealInv', FileInv, Return \/ Die \/ \E n \in 0..Len(line.sent) : Cut(n)
    PROVE  FileInv'
  <1>0. DOMAIN win = WinFields /\ LineOK(line, log)
    BY DEF SealInv, WinOK
  <1>1. UNCHANGED <<groupvars, log>> /\ BatchesStay /\ NewAreTheirs /\ FilesStay /\ Asks' = Asks
    <2>1. UNCHANGED <<groupvars, log>>
      BY DEF Return, Die, Cut
    <2>2. QED
      BY <2>1, SameLogFiles DEF Asks, Sending, groupvars
  <1>2. CASE Die
    <2>1. win'.pending = Nil /\ jobs' = {} /\ line'.sent = line.sent /\ lost' = lost
      BY <1>0, <1>2 DEF Die, Closed, LineOK
    <2>2. NoCopies'
      BY <1>1, <2>1 DEF NoCopies, FileInv
    <2>3. QED
      BY <1>1, <2>1, <2>2, Forgotten
  <1>3. ASSUME NEW n \in 0..Len(line.sent), Cut(n) PROVE FileInv'
    <2>1. /\ line'.sent = SubSeq(line.sent, 1, n) /\ jobs' = jobs
          /\ lost \subseteq lost' /\ (win.pending # Nil => win.pending.files \in lost')
          /\ win' = win \/ win' = Doubted("missed")
      BY <1>3 DEF Cut
    <2>2. win'.pending = win.pending
      BY <1>0, <2>1 DEF Doubted, WinFields
    <2>3. NoCopies'
      BY <1>0, <1>1, <2>1, PrefixSeq DEF NoCopies, FileInv, LineOK
    <2>4. QED
      BY <1>1, <2>1, <2>2, <2>3, Forgotten
  <1>4. CASE Return
    <2>1. ~line.up /\ line'.sent = line.sent
      BY <1>0, <1>4 DEF Return, LineOK
    <2>2. win.pending = Nil \/ win.pending.files \in lost
      BY <2>1 DEF FileInv, FilesWait
    <2>3. NoCopies'
      BY <1>1, <2>1 DEF NoCopies, FileInv
    <2>4. CASE UNCHANGED win /\ lost' = lost /\ \A j \in jobs' : j.kind = "upload" => j \in jobs
      BY <1>1, <2>2, <2>3, <2>4, Forgotten
    <2>5. ASSUME NEW c \in Chats, NEW K, Tame(K), win.mem[c] # Nil,
                 ListBecomes(win.mem, win.mem[c], K)
          PROVE  FileInv'
      <3>1. ListOK(win.mem[c], log)
        BY <2>5 DEF SealInv, WinOK, MemOK
      <3>2. \A no : HasCome(win.pending, no) => Before(win.mem[c], win.pending.chat, no)
        BY <2>5 DEF HasCome, Unshown
      <3>3. UploadsFit' /\ lost \subseteq lost'
        BY <1>1, <2>5, <3>1, <3>2, ListUploads
      <3>4. win'.pending \in {Nil, win.pending}
        BY <1>0, <2>5 DEF ListBecomes, WinFields, StillWaits
      <3>5. FilesWait'
        BY <2>2, <3>3, <3>4 DEF FilesWait
      <3>6. FilesFollow'
        BY <1>1, <3>3, FollowStays DEF FileInv
      <3>7. QED
        BY <2>3, <3>3, <3>5, <3>6 DEF FileInv
    <2>6. CASE win.chat # Nil /\ StartLoad(win.chat, jobs)
      <3>1. PICK c \in Chats : c = win.chat
        BY <2>6 DEF SealInv, WinOK
      <3>2. Tame(jobs \cup {LoadJob(c, win.mem)})
        BY TameJobs, TameGrows
      <3>3. CASE win.mem[c] = Nil
        <4>1. jobs' = jobs \cup {LoadJob(c, win.mem)} /\ UNCHANGED <<win, lost>>
          BY <2>6, <3>1, <3>3 DEF StartLoad
        <4>2. QED
          BY <2>4, <3>2, <4>1 DEF Tame
      <3>4. CASE win.mem[c] # Nil
        <4>1. ListBecomes(win.mem, win.mem[c], jobs \cup {LoadJob(c, win.mem)})
          BY <2>6, <3>1, <3>4 DEF StartLoad
        <4>2. QED
          BY <2>5, <3>2, <3>4, <4>1
      <3>5. QED
        BY <3>3, <3>4
    <2>7. QED
      BY <1>4, <2>4, <2>6 DEF Return
  <1>5. QED
    BY <1>2, <1>3, <1>4

\* All the page does by itself.
LEMMA PageKeepsFiles == SealInv /\ SealInv' /\ FileInv /\ PageStep => FileInv'
  <1> SUFFICES ASSUME SealInv, SealInv', FileInv, PageStep PROVE FileInv'
    OBVIOUS
  <1>1. ASSUME NEW j \in jobs,
               \/ Serve(j) \/ KeysCome(j) \/ KeysFail(j) \/ PeerComes(j) \/ InfoComes(j)
               \/ LoadComes(j) \/ LoadFails(j) \/ PanelComes(j) \/ UploadEnds(j)
        PROVE  FileInv'
    BY <1>1, AnswersKeepFiles, ListsKeepFiles, UploadKeepsFiles
  <1>2. QED
    BY <1>1, FrameKeepsFiles, ForwardsKeepFiles, BreaksKeepFiles DEF PageStep

\* Files that wait stay with the message they were sent with, wherever it is.
THEOREM FilesStayTrue == ComposerSpec => []FileInv
  <1>1. ComposerInit => FileInv
    <2> SUFFICES ASSUME ComposerInit PROVE FileInv
      OBVIOUS
    <2>1. /\ log = [c \in Chats |-> <<>>] /\ jobs = {} /\ reqs = {} /\ line.sent = <<>>
          /\ win.pending = Nil
      BY DEF ComposerInit, GroupsInit, Closed
    <2>2. \A c \in Chats : \A n \in DOMAIN log[c] : FALSE
      BY <2>1, NoneIsSeq
    <2>3. QED
      BY <2>1, <2>2, NoneIsSeq
      DEF FileInv, FilesFollow, UploadsFit, NoCopies, Asks, Sending, FilesWait
  <1>2. GroupInv /\ SealInv /\ SealInv' /\ TypeInv /\ FileInv /\ [ComposerNext]_composervars
            => FileInv'
    <2> SUFFICES ASSUME GroupInv, SealInv, SealInv', TypeInv, FileInv,
                        [ComposerNext]_composervars
                 PROVE  FileInv'
      OBVIOUS
    <2>1. CASE UNCHANGED composervars
      <3>1. UNCHANGED <<groupvars, log, line, lost, jobs, win, mail>>
        BY <2>1 DEF composervars, chatvars
      <3>2. QED
        BY <3>1, QuietLog, TameJobs DEF ShowsSame, MailSame
    <2>2. CASE ComposerNext
      BY <2>2, UserKeepsFiles, ServerKeepsFiles, PageKeepsFiles DEF ComposerNext
    <2>3. QED
      BY <2>1, <2>2
  <1>3. QED
    BY <1>1, <1>2, ChecksStayTrue, SealsStayTrue, TypesStayTrue, PTL DEF ComposerSpec

\* Files are attached to the message they were sent with (pendingFilesRef, the effect on the
\* list and doUpload of ChatWindow.tsx), unless one of the excused things happened.
THEOREM FilesAlwaysFollow == ComposerSpec => []FilesFollow
  <1>1. FileInv => FilesFollow
    BY DEF FileInv
  <1>2. QED
    BY <1>1, FilesStayTrue, PTL
=============================================================================
