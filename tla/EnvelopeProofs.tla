--------------------------- MODULE EnvelopeProofs ---------------------------
(***************************************************************************)
(* The group and the envelopes of Composer, for any people, founders and   *)
(* bounds.                                                                 *)
(*                                                                         *)
(* First, the server's group implements Membership, whatever a user's page *)
(* and the other members do.  A request writes what was checked one or     *)
(* more steps before, so that the check still holds then has to be an      *)
(* invariant: a request past its checks is about somebody who is not the   *)
(* creator (Harmless).  It stays true because no step makes anybody the    *)
(* creator.                                                                *)
(*                                                                         *)
(* Second, every message is encrypted for the chat's members and every     *)
(* recipient reads it and its files (EnvelopesFit).  That speaks of stored *)
(* messages; what makes it true is kept at every station on the way there: *)
(* the keys in the window while encryption is ready, the keys a task under *)
(* way began with, frames, requests, and the references to stored messages *)
(* that lists, frames and edits hold.  Its predicates take the part of the *)
(* state they speak of as a parameter.                                     *)
(*                                                                         *)
(* Third, the keys in the window are the members' once nothing is under    *)
(* way that will tell the page otherwise (KeysAreCurrent).                 *)
(***************************************************************************)
EXTENDS Composer, SequenceTheorems, TLAPS

----------------------------------------------------------------------------
(* The group: what a request past its checks is about.                      *)

NotCreator(u) == u \in Members => role[u] # "creator"
Shape(r) == {"kind", "by", "of", "step", "moved"} \subseteq DOMAIN r

Harmless(r) ==
    /\ Shape(r) /\ r.of \in People
    /\ r.kind \in {"remove", "leave"} /\ r.step = "write" => NotCreator(r.of)
    /\ r.kind \in {"admin", "member"} => NotCreator(r.of)

GroupInv ==
    /\ role = [u \in Members |-> role[u]]
    /\ \A r \in reqs : Harmless(r)

NoNewCreator == \A u \in Members' : role'[u] = "creator" => u \in Members /\ role[u] = "creator"

\* What a step promises, and a step that only sends messages.
Promise == GroupInv' /\ (Promised!Change \/ UNCHANGED <<there, role>>)
IsSend(q) == Shape(q) /\ q.kind = "send" /\ q.of = Me
OnlySends == UNCHANGED <<there, role>> /\ \A q \in reqs' : q \in reqs \/ IsSend(q)

----------------------------------------------------------------------------
(* Requests.                                                               *)

\* A new request has the fields it is given.
LEMMA NewRequest ==
    ASSUME NEW k, NEW b, NEW o, NEW s
    PROVE  LET q == Request(k, b, o, s) IN Shape(q) /\ q.kind = k /\ q.of = o /\ q.step = s
  BY DEF Request, Shape

\* A send is a request about the user, whatever it carries.
LEMMA NewSend == ASSUME NEW f, NEW s PROVE IsSend(SendRequest(f, s))
  BY DEF SendRequest, Shape, IsSend

\* A request that goes on is about the same person.
LEMMA NextStep ==
    ASSUME NEW r, NEW s, Shape(r)
    PROVE  LET q == [r EXCEPT !.step = s]
           IN  Shape(q) /\ q.kind = r.kind /\ q.of = r.of /\ q.step = s
  BY DEF Shape

\* Noting who moved changes nothing else of a request.
LEMMA SettledRequest ==
    ASSUME NEW S, NEW who, \A r \in S : Shape(r), NEW q \in Settled(S, who)
    PROVE  \E r \in S : Shape(q) /\ q.kind = r.kind /\ q.of = r.of /\ q.step = r.step
  BY DEF Shape, Settled

\* A request that was harmless stays so when nobody becomes the creator.
LEMMA HarmlessStays ==
    ASSUME NEW r, Harmless(r), NoNewCreator, NEW q,
           Shape(q), q.kind = r.kind, q.of = r.of, q.step = r.step
    PROVE  Harmless(q)'
  <1>1. NotCreator(r.of) => NotCreator(r.of)'
    BY DEF NotCreator, NoNewCreator
  <1>2. QED
    BY <1>1 DEF Harmless, Shape, NotCreator

----------------------------------------------------------------------------
(* Steps that leave the group alone.                                       *)

\* What the user does in the composer reaches the group only through later requests.
LEMMA UserIsQuiet == UserStep => UNCHANGED <<there, role, reqs>>
  <1> SUFFICES ASSUME UserStep PROVE UNCHANGED <<there, role, reqs>>
    OBVIOUS
  <1> USE DEF groupvars
  <1>1. ASSUME NEW c \in Chats, OpenChat(c) PROVE UNCHANGED <<there, role, reqs>>
    BY <1>1 DEF OpenChat
  <1>2. ASSUME NEW c \in Chats, Share(c) PROVE UNCHANGED <<there, role, reqs>>
    BY <1>2 DEF Share
  <1>3. CASE Type
    BY <1>3 DEF Type
  <1>4. CASE SelectFiles
    BY <1>4 DEF SelectFiles
  <1>5. CASE RemoveFiles
    BY <1>5 DEF RemoveFiles
  <1>6. CASE PersistDraft
    BY <1>6 DEF PersistDraft
  <1>7. CASE Reply
    BY <1>7 DEF Reply
  <1>8. CASE Submit
    BY <1>8 DEF Submit
  <1>9. ASSUME NEW e, Edit(e) PROVE UNCHANGED <<there, role, reqs>>
    BY <1>9 DEF Edit
  <1>10. ASSUME NEW j \in jobs, Sealed(j) PROVE UNCHANGED <<there, role, reqs>>
    BY <1>10 DEF Sealed
  <1>11. ASSUME NEW j \in jobs, NotSealed(j) PROVE UNCHANGED <<there, role, reqs>>
    BY <1>11 DEF NotSealed
  <1>12. QED
    BY <1>1, <1>2, <1>3, <1>4, <1>5, <1>6, <1>7, <1>8, <1>9, <1>10, <1>11 DEF UserStep

\* Forwarding is all the page does to the requests by itself.
LEMMA PageOnlySends == PageStep => OnlySends
  <1> SUFFICES ASSUME PageStep PROVE OnlySends
    OBVIOUS
  <1>0. UNCHANGED groupvars => OnlySends
    BY DEF groupvars, OnlySends
  <1>1. CASE TakeFrame
    BY <1>0, <1>1 DEF TakeFrame
  <1>2. ASSUME NEW j \in jobs, Serve(j) PROVE OnlySends
    BY <1>0, <1>2 DEF Serve, Keeps
  <1>3. ASSUME NEW j \in jobs, KeysCome(j) PROVE OnlySends
    BY <1>0, <1>3 DEF KeysCome, Keeps
  <1>4. ASSUME NEW j \in jobs, KeysFail(j) PROVE OnlySends
    BY <1>0, <1>4 DEF KeysFail, Keeps
  <1>5. ASSUME NEW j \in jobs, PeerComes(j) PROVE OnlySends
    BY <1>0, <1>5 DEF PeerComes
  <1>6. ASSUME NEW j \in jobs, InfoComes(j) PROVE OnlySends
    BY <1>0, <1>6 DEF InfoComes, Keeps
  <1>7. ASSUME NEW j \in jobs, LoadComes(j) PROVE OnlySends
    BY <1>0, <1>7 DEF LoadComes, Keeps
  <1>8. ASSUME NEW j \in jobs, LoadFails(j) PROVE OnlySends
    BY <1>0, <1>8 DEF LoadFails, Keeps
  <1>9. ASSUME NEW j \in jobs, PanelComes(j) PROVE OnlySends
    BY <1>0, <1>9 DEF PanelComes
  <1>10. ASSUME NEW j \in jobs, UploadEnds(j) PROVE OnlySends
    BY <1>0, <1>10 DEF UploadEnds
  <1>11. ASSUME NEW j \in jobs, ForwardSent(j) PROVE OnlySends
    <2>1. UNCHANGED <<there, role>>
      BY <1>11 DEF ForwardSent
    <2>2. PICK f : \A q \in reqs' : q \in reqs \/ q = SendRequest(f, "check")
      BY <1>11 DEF ForwardSent
    <2>3. QED
      BY <2>1, <2>2, NewSend DEF OnlySends
  <1>12. ASSUME NEW e, NEW c, Forward(e, c) PROVE OnlySends
    BY <1>0, <1>12 DEF Forward, Keeps
  <1>13. ASSUME NEW n, Cut(n) PROVE OnlySends
    BY <1>0, <1>13 DEF Cut
  <1>14. CASE Return
    BY <1>0, <1>14 DEF Return
  <1>15. CASE Die
    BY <1>0, <1>15 DEF Die
  <1>16. QED
    BY <1>1, <1>2, <1>3, <1>4, <1>5, <1>6, <1>7, <1>8, <1>9, <1>10, <1>11, <1>12, <1>13,
       <1>14, <1>15 DEF PageStep

\* Sending leaves the group alone.
LEMMA SendingIsHarmless == GroupInv /\ OnlySends => Promise
  <1> SUFFICES ASSUME GroupInv, OnlySends PROVE Promise
    OBVIOUS
  <1>1. NoNewCreator /\ Members' = Members
    BY DEF NoNewCreator, OnlySends, Members
  <1>2. ASSUME NEW q \in reqs' PROVE Harmless(q)'
    <2>1. CASE q \in reqs
      BY <1>1, <2>1, HarmlessStays DEF GroupInv, Harmless
    <2>2. CASE IsSend(q)
      BY <2>2, ComposerAssumption, GroupsAssumption DEF Harmless, IsSend, Shape
    <2>3. QED
      BY <2>1, <2>2 DEF OnlySends
  <1>3. QED
    BY <1>1, <1>2 DEF Promise, GroupInv, OnlySends

----------------------------------------------------------------------------
(* The group's requests.                                                   *)

\* A step that takes roles away or gives one that is not the creator's, and whose requests
\* go on harmlessly or are new and harmless, keeps the invariant.
LEMMA KeepsInv ==
    ASSUME GroupInv, NoNewCreator, role' = [u \in Members' |-> role'[u]],
           \A q \in reqs' : \/ \E r \in reqs : Shape(q) /\ q.kind = r.kind /\ q.of = r.of
                                                /\ q.step = r.step
                            \/ Harmless(q)'
    PROVE  GroupInv'
  BY HarmlessStays DEF GroupInv

\* Checks change no role.
LEMMA SameRoles ==
    ASSUME UNCHANGED <<there, role>>, GroupInv,
           \A q \in reqs' : q \in reqs \/ Harmless(q)
    PROVE  Promise
  <1>1. NoNewCreator /\ Members' = Members
    BY DEF NoNewCreator, Members
  <1>2. ASSUME NEW q \in reqs' PROVE Harmless(q)'
    BY <1>1, HarmlessStays DEF GroupInv, Harmless
  <1>3. QED
    BY <1>1, <1>2 DEF Promise, GroupInv

\* New requests, announced or checked, are harmless and change no role.
LEMMA AskingKeepsGroup == GroupInv /\ GroupAsked => Promise
  <1> SUFFICES ASSUME GroupInv, GroupAsked PROVE Promise
    OBVIOUS
  <1>1. ASSUME NEW a \in People, NEW u \in People, CheckAdd(a, u) PROVE Promise
    <2>1. Harmless(Request("add", a, u, "write"))
      BY NewRequest DEF Harmless
    <2>2. QED
      BY <1>1, <2>1, SameRoles DEF CheckAdd
  <1>2. ASSUME NEW a \in People, NEW u \in People, AnnounceRemoval(a, u) PROVE Promise
    <2>1. Harmless(Request("remove", a, u, "check"))
      BY NewRequest DEF Harmless
    <2>2. QED
      BY <1>2, <2>1, SameRoles DEF AnnounceRemoval
  <1>3. ASSUME NEW u \in People, AnnounceLeave(u) PROVE Promise
    <2>1. Harmless(Request("leave", u, u, "check"))
      BY NewRequest DEF Harmless
    <2>2. QED
      BY <1>3, <2>1, SameRoles DEF AnnounceLeave
  <1>4. ASSUME NEW a \in People, AnnounceDeletion(a) PROVE Promise
    <2>1. Harmless(Request("delete", a, a, "check"))
      BY NewRequest DEF Harmless
    <2>2. QED
      BY <1>4, <2>1, SameRoles DEF AnnounceDeletion
  <1>5. ASSUME NEW a \in People, NEW u \in People, NEW new \in {"admin", "member"},
               CheckRole(a, u, new)
        PROVE  Promise
    <2>1. NotCreator(u)
      BY <1>5 DEF CheckRole, IsCreator, NotCreator
    <2>2. Harmless(Request(new, a, u, "write"))
      BY <2>1, NewRequest DEF Harmless
    <2>3. QED
      BY <1>5, <2>2, SameRoles DEF CheckRole
  <1>6. QED
    BY <1>1, <1>2, <1>3, <1>4, <1>5 DEF GroupAsked

\* The check after an announcement lets only harmless requests pass.
LEMMA CheckingKeepsGroup ==
    ASSUME GroupInv, NEW r \in reqs, CheckAnnounced(r)
    PROVE  Promise
  <1> DEFINE q == [r EXCEPT !.step = "write"]
  <1>1. UNCHANGED <<there, role>>
    BY DEF CheckAnnounced
  <1>2. CASE reqs' = reqs \ {r}
    BY <1>1, <1>2, SameRoles
  <1>3. CASE /\ \/ r.kind = "remove" /\ MayRemove(r)
                \/ r.kind = "leave" /\ MayLeave(r)
                \/ r.kind = "delete" /\ MayDelete(r)
             /\ reqs' = (reqs \ {r}) \cup {q}
    <2>1. Harmless(r) /\ Shape(r)
      BY DEF GroupInv, Harmless
    <2>2. Shape(q) /\ q.kind = r.kind /\ q.of = r.of
      BY <2>1, NextStep
    <2>3. r.kind \in {"remove", "leave"} => NotCreator(r.of)
      BY <1>3 DEF MayRemove, MayLeave, IsCreator, NotCreator
    <2> HIDE DEF q
    <2>4. Harmless(q)
      BY <1>3, <2>1, <2>2, <2>3 DEF Harmless
    <2>5. QED
      BY <1>1, <1>3, <2>4, SameRoles
  <1>4. QED
    BY <1>2, <1>3 DEF CheckAnnounced

\* An addition joins somebody as a plain member, or nobody.
LEMMA AddingKeepsGroup ==
    ASSUME GroupInv, NEW r \in reqs, WriteAdd(r)
    PROVE  Promise
  <1>1. r.of \in People /\ \A x \in reqs : Shape(x)
    BY DEF GroupInv, Harmless
  <1>2. \A q \in reqs' : \E x \in reqs : /\ Shape(q) /\ q.kind = x.kind /\ q.of = x.of
                                         /\ q.step = x.step
    BY <1>1, SettledRequest DEF WriteAdd
  <1>3. CASE r.of \in Members
    <2>1. UNCHANGED <<there, role>>
      BY <1>3 DEF WriteAdd
    <2>2. NoNewCreator /\ role' = [u \in Members' |-> role'[u]]
      BY <2>1 DEF NoNewCreator, Members, GroupInv
    <2>3. QED
      BY <1>2, <2>1, <2>2, KeepsInv DEF Promise
  <1>4. CASE r.of \notin Members
    <2>1. there' = there /\ role' = WithRole(r.of, "member")
      BY <1>4 DEF WriteAdd
    <2>2. NoNewCreator /\ role' = [u \in Members' |-> role'[u]]
      BY <2>1 DEF NoNewCreator, Members, WithRole
    <2>3. Promised!Change
      BY <1>1, <1>4, <2>1
      DEF Promised!Change, Promised!Join, Promised!With, Promised!In, WithRole, Members
    <2>4. QED
      BY <1>2, <2>2, <2>3, KeepsInv DEF Promise
  <1>5. QED
    BY <1>3, <1>4

\* A change of role finds the target no creator still, or gone.
LEMMA RoleChangeKeepsGroup ==
    ASSUME GroupInv, NEW r \in reqs, WriteRole(r)
    PROVE  Promise
  <1>1. r.of \in People /\ NotCreator(r.of) /\ r.kind \in {"admin", "member"}
    BY DEF GroupInv, Harmless, WriteRole
  <1>2. \A q \in reqs' : q \in reqs /\ Shape(q)
    BY DEF WriteRole, GroupInv, Harmless
  <1>3. CASE r.of \notin Members
    BY <1>2, <1>3, SameRoles DEF WriteRole
  <1>4. CASE r.of \in Members
    <2>1. there' = there /\ role' = WithRole(r.of, r.kind)
      BY <1>4 DEF WriteRole
    <2>2. NoNewCreator /\ role' = [u \in Members' |-> role'[u]]
      BY <1>1, <2>1 DEF NoNewCreator, Members, WithRole
    <2>3. Promised!Change
      BY <1>1, <1>4, <2>1
      DEF Promised!Change, Promised!Become, Promised!With, Promised!In, WithRole, Members,
          NotCreator
    <2>4. QED
      BY <1>2, <2>2, <2>3, KeepsInv DEF Promise
  <1>5. QED
    BY <1>3, <1>4

\* A removal takes out somebody who is no creator still, or nobody.
LEMMA RemovalKeepsGroup ==
    ASSUME GroupInv, NEW r \in reqs, WriteRemoval(r)
    PROVE  Promise
  <1>1. /\ r.of \in People /\ NotCreator(r.of)
        /\ \A x \in reqs : Shape(x)
    BY DEF GroupInv, Harmless, WriteRemoval
  <1>2. \A q \in reqs' : \E x \in reqs : /\ Shape(q) /\ q.kind = x.kind /\ q.of = x.of
                                         /\ q.step = x.step
    BY <1>1, SettledRequest DEF WriteRemoval
  <1>3. there' = there /\ role' = Dropped(r.of)
    BY DEF WriteRemoval
  <1>4. NoNewCreator /\ role' = [u \in Members' |-> role'[u]]
    BY <1>3 DEF NoNewCreator, Members, Dropped
  <1>5. CASE r.of \in Members
    BY <1>1, <1>2, <1>3, <1>4, <1>5, KeepsInv
    DEF Promise, Promised!Change, Promised!Go, Promised!In, Dropped, Members, NotCreator
  <1>6. CASE r.of \notin Members
    <2>1. role' = role
      <3>1. Members \ {r.of} = Members
        BY <1>6
      <3>2. QED
        BY <1>3, <3>1 DEF Dropped, GroupInv
    <2>2. QED
      BY <1>2, <1>3, <1>4, <2>1, KeepsInv DEF Promise
  <1>7. QED
    BY <1>5, <1>6

\* A deletion dissolves the group.
LEMMA PurgeKeepsGroup ==
    ASSUME GroupInv, NEW r \in reqs, Purge(r)
    PROVE  Promise
  <1>1. \A x \in reqs : Shape(x)
    BY DEF GroupInv, Harmless
  <1>2. \A q \in reqs' : \E x \in reqs : /\ Shape(q) /\ q.kind = x.kind /\ q.of = x.of
                                         /\ q.step = x.step
    BY <1>1, SettledRequest DEF Purge
  <1>3. there' = FALSE /\ role' = [u \in {} |-> "member"]
    BY DEF Purge
  <1>4. NoNewCreator /\ role' = [u \in Members' |-> role'[u]]
    BY <1>3 DEF NoNewCreator, Members
  <1>5. Promised!Change
    BY <1>3 DEF Promised!Change, Promised!Dissolve
  <1>6. QED
    BY <1>2, <1>4, <1>5, KeepsInv DEF Promise

----------------------------------------------------------------------------
(* The server, and the whole.                                              *)

\* Every step of the server keeps the invariant and is a step of Membership or none.
LEMMA ServerKeepsGroup == GroupInv /\ ServerStep => Promise
  <1> SUFFICES ASSUME GroupInv, ServerStep PROVE Promise
    OBVIOUS
  <1>1. CASE CheckSend
    <2>1. PICK f : \A q \in reqs' : q \in reqs \/ q = SendRequest(f, "store")
      BY <1>1 DEF CheckSend
    <2>2. QED
      BY <1>1, <2>1, NewSend, SendingIsHarmless DEF CheckSend, OnlySends
  <1>2. CASE GroupAsked
    BY <1>2, AskingKeepsGroup
  <1>3. ASSUME NEW r \in reqs, CheckForward(r) PROVE Promise
    <2> DEFINE q == [r EXCEPT !.step = "store"]
    <2>1. Harmless(r) /\ Shape(r) /\ r.kind = "send"
      BY <1>3 DEF GroupInv, Harmless, CheckForward, Sending
    <2>2. Shape(q) /\ q.kind = r.kind /\ q.of = r.of
      BY <2>1, NextStep
    <2>3. UNCHANGED <<there, role>> /\ \A x \in reqs' : x \in reqs \/ x = q
      BY <1>3 DEF CheckForward
    <2> HIDE DEF q
    <2>4. Harmless(q)
      BY <2>1, <2>2 DEF Harmless
    <2>5. QED
      BY <2>3, <2>4, SameRoles
  <1>4. ASSUME NEW r \in reqs, StoreNew(r) \/ StoreEdit(r) \/ StoreFails(r) PROVE Promise
    <2>1. UNCHANGED <<there, role>> /\ reqs' = reqs \ {r}
      BY <1>4 DEF StoreNew, StoreEdit, StoreFails
    <2>2. QED
      BY <2>1, SameRoles
  <1>5. ASSUME NEW r \in reqs, GroupDone(r) PROVE Promise
    BY <1>5, AddingKeepsGroup, RoleChangeKeepsGroup, RemovalKeepsGroup, PurgeKeepsGroup
    DEF GroupDone
  <1>6. ASSUME NEW r \in reqs, GroupRefused(r) PROVE Promise
    <2>1. CASE CheckAnnounced(r)
      BY <2>1, CheckingKeepsGroup
    <2>2. CASE RequestFails(r)
      BY <2>2, SameRoles DEF RequestFails
    <2>3. QED
      BY <1>6, <2>1, <2>2 DEF GroupRefused
  <1>7. ASSUME NEW u \in People, SomebodyOnboards(u) PROVE Promise
    BY <1>7, SameRoles DEF SomebodyOnboards, Onboard
  <1>8. ASSUME NEW u \in People, NEW c \in Chats, Post(u, c) PROVE Promise
    BY <1>8, SameRoles DEF Post, groupvars
  <1>9. QED
    BY <1>1, <1>2, <1>3, <1>4, <1>5, <1>6, <1>7, <1>8 DEF ServerStep

\* So does every step of the composed system.
LEMMA GroupInductive == GroupInv /\ [ComposerNext]_composervars => Promise
  <1> SUFFICES ASSUME GroupInv, [ComposerNext]_composervars PROVE Promise
    OBVIOUS
  <1>1. CASE UserStep
    BY <1>1, UserIsQuiet, SameRoles
  <1>2. CASE ServerStep
    BY <1>2, ServerKeepsGroup
  <1>3. CASE PageStep
    BY <1>3, PageOnlySends, SendingIsHarmless
  <1>4. CASE UNCHANGED composervars
    BY <1>4, SameRoles DEF composervars, groupvars
  <1>5. QED
    BY <1>1, <1>2, <1>3, <1>4 DEF ComposerNext

\* A fresh group is one that Membership founds, and no request is under way.
LEMMA InitGroup == ComposerInit => GroupInv /\ Promised!Found
  BY GroupsAssumption DEF ComposerInit, GroupsInit, GroupInv, Members, Promised!Found

\* Past its checks, a removal, a departure or a change of role is never about the creator, and
\* whoever the requests under way are about is a user.
THEOREM ChecksStayTrue == ComposerSpec => []GroupInv
  <1>1. GroupInv /\ [ComposerNext]_composervars => GroupInv'
    BY GroupInductive DEF Promise
  <1>2. QED
    BY InitGroup, <1>1, PTL DEF ComposerSpec

\* The server implements Membership: the creator stays with that role for as long as the group
\* exists, people come and go one at a time, and a deleted group is not brought back, however
\* requests, their checks and their transactions overlap.
THEOREM GroupAlwaysKept == ComposerSpec => GroupIsKept
  <1>1. GroupInv /\ [ComposerNext]_composervars => [Promised!Change]_<<there, role>>
    BY GroupInductive DEF Promise
  <1>2. ComposerInit => Promised!Found
    BY InitGroup
  <1>3. QED
    BY ChecksStayTrue, <1>1, <1>2, PTL
    DEF ComposerSpec, GroupIsKept, Promised!Kept, Promised!membershipvars

----------------------------------------------------------------------------
(* What encryption promises its readers, for any texts, files and accounts  *)
(* (E2E): whoever a text or a file is encrypted for opens it with the       *)
(* author's public key, a forwarded file included.                          *)

\* Recipients with the public keys that are theirs.
KeyMap(to) == \A r \in DOMAIN to : to[r] = PublicKey(r)

\* Each of those with an envelope unwraps the file's key.
FileFits(file, name, by) ==
    /\ {"body", "meta", "envelopes"} \subseteq DOMAIN file
    /\ file.body = EncryptFile(name, GenerateFileKey(name))
    /\ file.meta = EncryptMetadata(name, GenerateFileKey(name))
    /\ \A r \in DOMAIN file.envelopes :
          UnwrapFileKey(file.envelopes[r], ChatKey(r, PublicKey(by))) = GenerateFileKey(name)

\* Both sides of a chat derive the same key (ECDH in deriveChatKey).
LEMMA ChatKeySymmetric ==
    ASSUME NEW a, NEW b
    PROVE  ChatKey(a, PublicKey(b)) = ChatKey(b, PublicKey(a))
  BY DEF ChatKey, PublicKey

\* encryptForGroup makes one envelope for each recipient, and each opens it.
THEOREM EnvelopesOpen ==
    ASSUME NEW plain, NEW to, NEW mine, KeyMap(to)
    PROVE  LET seal == EncryptForGroup(plain, to, mine) IN
           /\ DOMAIN seal = DOMAIN to
           /\ \A r \in DOMAIN seal : Decrypt(seal[r], ChatKey(r, PublicKey(mine))) = plain
  BY ChatKeySymmetric DEF EncryptForGroup, Decrypt, Encrypt, KeyMap

\* The file key is wrapped for each recipient in the same way.
LEMMA WrappedKeysOpen ==
    ASSUME NEW key, NEW to, NEW mine, KeyMap(to)
    PROVE  LET envelopes == WrapForAll(key, to, mine) IN
           /\ DOMAIN envelopes = DOMAIN to
           /\ \A r \in DOMAIN envelopes :
                 UnwrapFileKey(envelopes[r], ChatKey(r, PublicKey(mine))) = key
  BY ChatKeySymmetric DEF WrapForAll, WrapFileKey, UnwrapFileKey, Encrypt, Decrypt, KeyMap

\* A prepared attachment fits its recipients.
THEOREM PreparedFits ==
    ASSUME NEW name, NEW to, NEW mine, KeyMap(to)
    PROVE  FileFits(PrepareAttachment(name, to, mine), name, mine)
  BY WrappedKeysOpen DEF FileFits, PrepareAttachment

\* rewrapForwardedAttachment: a file that fitted the forwarder fits the new recipients.
THEOREM RewrappedFits ==
    ASSUME NEW file, NEW name, NEW by, FileFits(file, name, by),
           NEW own \in DOMAIN file.envelopes, NEW to, NEW mine, KeyMap(to)
    PROVE  FileFits(Rewrap(file, own, ChatKey(own, PublicKey(by)), to, mine), name, mine)
  <1> DEFINE key == UnwrapFileKey(file.envelopes[own], ChatKey(own, PublicKey(by)))
             copy == [file EXCEPT !.envelopes = WrapForAll(key, to, mine)]
  <1>1. key = GenerateFileKey(name)
    BY DEF FileFits
  <1>2. /\ {"body", "meta", "envelopes"} \subseteq DOMAIN copy
        /\ copy.body = file.body /\ copy.meta = file.meta
        /\ copy.envelopes = WrapForAll(key, to, mine)
    BY DEF FileFits
  <1> HIDE DEF key, copy
  <1>3. FileFits(copy, name, mine)
    BY <1>1, <1>2, WrappedKeysOpen DEF FileFits
  <1>4. QED
    BY <1>3 DEF Rewrap, key, copy

\* Whoever has an envelope of a file that fits sees the file.
THEOREM FittingFileOpens ==
    ASSUME NEW file, NEW name, NEW by, FileFits(file, name, by),
           NEW r \in DOMAIN file.envelopes
    PROVE  OpenFile(file, r, ChatKey(r, PublicKey(by))) = {name}
  BY DEF FileFits, OpenFile, GenerateFileKey, EncryptFile, EncryptMetadata, DecryptMetadata,
         DecryptFile, Encrypt, Decrypt

----------------------------------------------------------------------------
(* What is kept at every station of a message.                              *)

IsSeq(s) == \E S : s \in Seq(S)

\* A reference to a message of the log lg, to one of the user's own, and lists of references.
Ref(e, lg) == e[1] \in Chats /\ e[2] \in DOMAIN lg[e[1]]
Mine(c, n, lg) == c \in Chats /\ n \in DOMAIN lg[c] /\ lg[c][n].by = Me
ListOK(l, lg) == IsSeq(l) /\ \A i \in DOMAIN l : Ref(l[i], lg)
MemOK(mem, lg) == DOMAIN mem = Chats /\ \A c \in Chats : mem[c] # Nil => ListOK(mem[c], lg)

\* Everybody with an envelope reads the text.
SealFits(seal, text, by, c) ==
    \A r \in DOMAIN seal : Decrypt(seal[r], ChatKey(r, From(by, c, r))) = text

Apart(S, T) == (S \ T) \cup (T \ S)

MessageFields == {"by", "via", "text", "seal", "at", "moved", "batch", "files"}
MessageOK(m, c) ==
    /\ MessageFields \subseteq DOMAIN m
    /\ Apart(m.at, DOMAIN m.seal) \subseteq m.moved
    /\ SealFits(m.seal, m.text, m.by, c)
    /\ \A b \in DOMAIN m.files : FileFits(m.files[b].file, b, m.by)
LogOK(lg) ==
    /\ DOMAIN lg = Chats
    /\ \A c \in Chats : IsSeq(lg[c]) /\ \A n \in DOMAIN lg[c] : MessageOK(lg[c][n], c)

WinFields == {"chat", "text", "edit", "files", "pending", "uploading", "status", "keys", "list",
              "mem", "doubt"}
WinOK(w, lg) ==
    /\ DOMAIN w = WinFields /\ w.chat \in Chats \cup {Nil}
    /\ w.chat = "group" /\ w.status = "ready" => KeyMap(w.keys)
    /\ w.pending # Nil => w.pending.chat = w.chat
    /\ w.edit # 0 => Mine(w.chat, w.edit, lg)
    /\ ListOK(w.list, lg) /\ MemOK(w.mem, lg)

\* Keys as the server answers them.
Published(to) == \A r \in DOMAIN to : to[r] \in {PublicKey(r), NoKey}

JobOK(j, lg) ==
    /\ j.kind \in {"keys", "load"} => {"kind", "chat", "data"} \subseteq DOMAIN j
    /\ j.kind = "keys" /\ j.data # Nil => Published(j.data)
    /\ j.kind = "load" => j.chat \in Chats /\ (j.data # Nil => ListOK(j.data, lg))
    /\ j.kind = "seal" => /\ j.chat \in Chats /\ (j.chat = "group" => KeyMap(j.to))
                          /\ j.edit # 0 => Mine(j.chat, j.edit, lg)
    /\ j.kind = "upload" => KeyMap(j.to)
    /\ j.kind = "forward" => j.chat \in Chats /\ Ref(j.of, lg)
JobsOK(J, lg) == \A j \in J : JobOK(j, lg)

FrameOK(f, lg) ==
    /\ f.chat \in Chats /\ (f.chat = "direct" => DOMAIN f.seal = Pair)
    /\ SealFits(f.seal, f.text, Me, f.chat)
    /\ \A b \in DOMAIN f.copies : FileFits(f.copies[b], b, Me)
    /\ f.no # 0 => Mine(f.chat, f.no, lg)
LineOK(ln, lg) ==
    /\ {"up", "sent"} \subseteq DOMAIN ln /\ IsSeq(ln.sent)
    /\ \A i \in DOMAIN ln.sent : FrameOK(ln.sent[i], lg)
MailOK(ml, lg) ==
    IsSeq(ml) /\ \A i \in DOMAIN ml : ml[i].kind = "new" => Ref(<<ml[i].chat, ml[i].no>>, lg)

\* A message past its check fits the members but for those who moved since.
RequestOK(r, lg, members) ==
    r.kind = "send" =>
        /\ "frame" \in DOMAIN r /\ FrameOK(r.frame, lg)
        /\ r.step = "store" /\ r.frame.chat = "group" =>
              Apart(members, DOMAIN r.frame.seal) \subseteq r.moved
RequestsOK(R, lg, members) == \A r \in R : RequestOK(r, lg, members)

SealInv ==
    /\ LogOK(log) /\ WinOK(win, log) /\ JobsOK(jobs, log) /\ MailOK(mail, log)
    /\ LineOK(line, log) /\ RequestsOK(reqs, log, Members)

----------------------------------------------------------------------------
(* Sequences.                                                              *)

\* The empty sequence has no elements.
LEMMA NoneIsSeq == IsSeq(<<>>) /\ \A i \in DOMAIN <<>> : FALSE
  <1>1. <<>> \in Seq({})
    OBVIOUS
  <1>2. \A i \in DOMAIN <<>> : FALSE
    OBVIOUS
  <1>3. QED
    BY <1>1, <1>2 DEF IsSeq

\* Appending keeps the elements and adds one.
LEMMA AppendSeq ==
    ASSUME NEW s, IsSeq(s), NEW e
    PROVE  /\ IsSeq(Append(s, e)) /\ DOMAIN s \subseteq DOMAIN Append(s, e)
           /\ \A i \in DOMAIN Append(s, e) : \/ i \in DOMAIN s /\ Append(s, e)[i] = s[i]
                                             \/ Append(s, e)[i] = e
           /\ \A i \in DOMAIN s : Append(s, e)[i] = s[i]
           /\ Len(Append(s, e)) \in DOMAIN Append(s, e)
  <1>1. PICK S : s \in Seq(S)
    BY DEF IsSeq
  <1>2. s \in Seq(S \cup {e}) /\ e \in S \cup {e}
    BY <1>1
  <1>3. Append(s, e) \in Seq(S \cup {e})
    BY <1>2
  <1>4. /\ DOMAIN s \subseteq DOMAIN Append(s, e)
        /\ \A i \in DOMAIN Append(s, e) : \/ i \in DOMAIN s /\ Append(s, e)[i] = s[i]
                                          \/ Append(s, e)[i] = e
        /\ \A i \in DOMAIN s : Append(s, e)[i] = s[i]
        /\ Len(Append(s, e)) \in DOMAIN Append(s, e)
    BY <1>2, <1>3
  <1>5. QED
    BY <1>3, <1>4 DEF IsSeq

\* The tail of a sequence has its other elements.
LEMMA TailSeq ==
    ASSUME NEW s, IsSeq(s), s # <<>>
    PROVE  /\ IsSeq(Tail(s)) /\ 1 \in DOMAIN s /\ Head(s) = s[1]
           /\ \A i \in DOMAIN Tail(s) : i + 1 \in DOMAIN s /\ Tail(s)[i] = s[i + 1]
  <1>1. PICK S : s \in Seq(S)
    BY DEF IsSeq
  <1>2. Tail(s) \in Seq(S)
    BY <1>1
  <1>3. QED
    BY <1>1, <1>2 DEF IsSeq

\* A prefix has the first elements.
LEMMA PrefixSeq ==
    ASSUME NEW s, IsSeq(s), NEW n \in 0..Len(s)
    PROVE  /\ IsSeq(SubSeq(s, 1, n))
           /\ \A i \in DOMAIN SubSeq(s, 1, n) : i \in DOMAIN s /\ SubSeq(s, 1, n)[i] = s[i]
  <1>1. PICK S : s \in Seq(S)
    BY DEF IsSeq
  <1>2. SubSeq(s, 1, n) \in Seq(S)
    BY <1>1
  <1>3. QED
    BY <1>1, <1>2 DEF IsSeq

\* A sequence with one element replaced is a sequence.
LEMMA ExceptIsSeq ==
    ASSUME NEW s, IsSeq(s), NEW n, NEW v
    PROVE  IsSeq([s EXCEPT ![n] = v])
  <1>1. PICK S : s \in Seq(S)
    BY DEF IsSeq
  <1>2. s \in Seq(S \cup {v})
    BY <1>1
  <1>3. CASE n \in 1..Len(s)
    BY <1>2, <1>3, ExceptSeq DEF IsSeq
  <1>4. CASE n \notin DOMAIN s
    <2>1. [s EXCEPT ![n] = v] = s
      BY <1>1, <1>4
    <2>2. QED
      BY <2>1
  <1>5. QED
    BY <1>1, <1>3, <1>4

\* The list of the stored messages of a chat refers to messages that exist.
LEMMA StoredIsSeq ==
    ASSUME NEW lg, LogOK(lg), NEW c \in Chats
    PROVE  ListOK([i \in DOMAIN lg[c] |-> <<c, i>>], lg)
  <1> DEFINE l == [i \in DOMAIN lg[c] |-> <<c, i>>]
             T == {<<c, i>> : i \in DOMAIN lg[c]}
  <1>1. PICK S : lg[c] \in Seq(S)
    BY DEF IsSeq, LogOK
  <1>2. DOMAIN lg[c] = 1..Len(lg[c]) /\ Len(lg[c]) \in Nat
    BY <1>1
  <1>3. l \in [1..Len(lg[c]) -> T]
    BY <1>2
  <1>4. l \in Seq(T)
    BY <1>2, <1>3, SeqDef
  <1>5. \A i \in DOMAIN l : Ref(l[i], lg)
    BY DEF Ref
  <1>6. QED
    BY <1>4, <1>5 DEF IsSeq, ListOK

----------------------------------------------------------------------------
(* The log only grows: what was kept of an older log is kept of a newer.   *)

Grows(lg, new) ==
    \A c \in Chats : \A n \in DOMAIN lg[c] : n \in DOMAIN new[c] /\ new[c][n].by = lg[c][n].by

\* References outlive the growth of the log.
LEMMA RefsLast ==
    ASSUME NEW lg, NEW new, Grows(lg, new)
    PROVE  /\ \A e : Ref(e, lg) => Ref(e, new)
           /\ \A c, n : Mine(c, n, lg) => Mine(c, n, new)
           /\ \A l : ListOK(l, lg) => ListOK(l, new)
  BY DEF Grows, Ref, Mine, ListOK

\* So does everything that holds references.
LEMMA PartsLast ==
    ASSUME NEW lg, NEW new, Grows(lg, new)
    PROVE  /\ \A w : WinOK(w, lg) => WinOK(w, new)
           /\ \A J : JobsOK(J, lg) => JobsOK(J, new)
           /\ \A ml : MailOK(ml, lg) => MailOK(ml, new)
           /\ \A f : FrameOK(f, lg) => FrameOK(f, new)
           /\ \A ln : LineOK(ln, lg) => LineOK(ln, new)
           /\ \A R, ms : RequestsOK(R, lg, ms) => RequestsOK(R, new, ms)
  <1>1. \A w : WinOK(w, lg) => WinOK(w, new)
    BY RefsLast DEF WinOK, MemOK
  <1>2. \A J : JobsOK(J, lg) => JobsOK(J, new)
    BY RefsLast DEF JobsOK, JobOK
  <1>3. \A ml : MailOK(ml, lg) => MailOK(ml, new)
    BY RefsLast DEF MailOK
  <1>4. \A f : FrameOK(f, lg) => FrameOK(f, new)
    BY RefsLast DEF FrameOK
  <1>5. QED
    BY <1>1, <1>2, <1>3, <1>4 DEF LineOK, RequestsOK, RequestOK

----------------------------------------------------------------------------
(* The window.                                                             *)

\* A window that differs in its text, files, uploading or doubt only.
SameWindow(w, v) ==
    /\ DOMAIN v = DOMAIN w
    /\ v.chat = w.chat /\ v.status = w.status /\ v.keys = w.keys /\ v.pending = w.pending
    /\ v.edit = w.edit /\ v.list = w.list /\ v.mem = w.mem

\* A window that differs only in text, files and history is as good as before.
LEMMA SameWindowOK ==
    ASSUME NEW w, NEW v, NEW lg, WinOK(w, lg), SameWindow(w, v)
    PROVE  WinOK(v, lg)
  BY DEF WinOK, SameWindow

\* Noting a doubt leaves the window as it is.
LEMMA DoubtedIsSame ==
    ASSUME NEW what, WinOK(win, log)
    PROVE  SameWindow(win, Doubted(what))
  <1>1. DOMAIN win = WinFields
    BY DEF WinOK
  <1>2. SameWindow(win, [win EXCEPT !.doubt = @ \cup {what}])
    BY <1>1 DEF SameWindow, WinFields
  <1>3. QED
    BY <1>2 DEF Doubted, SameWindow

\* Taking a list starts uploads with the keys of the window and forgets the files.
LEMMA ListChange ==
    ASSUME NEW mem, NEW list, NEW J, WinOK(win, log), JobsOK(J, log),
           MemOK(mem, log), ListOK(list, log), ListBecomes(mem, list, J)
    PROVE  WinOK(win', log) /\ JobsOK(jobs', log)
  <1>1. DOMAIN win = WinFields
    BY DEF WinOK
  <1>2. \/ StillWaits(list) = win.pending
        \/ StillWaits(list) = Nil
    BY DEF StillWaits
  <1>3. /\ DOMAIN win' = WinFields
        /\ win'.list = list /\ win'.mem = mem /\ win'.pending = StillWaits(list)
        /\ win'.chat = win.chat /\ win'.status = win.status /\ win'.keys = win.keys
        /\ win'.edit = win.edit
    BY <1>1 DEF ListBecomes, WinFields
  <1>4. WinOK(win', log)
    BY <1>2, <1>3 DEF WinOK
  <1>5. ASSUME Takes(list), win.status = "ready"
        PROVE  JobOK(Upload(list[Len(list)]), log)
    <2>1. list[Len(list)][1] = win.chat
      BY <1>5 DEF Takes, WinOK
    <2>2. KeyMap(Recipients(list[Len(list)][1]))
      BY <1>5, <2>1 DEF Recipients, KeyMap, WinOK
    <2>3. QED
      BY <2>2 DEF JobOK, Upload
  <1>6. JobsOK(jobs', log)
    BY <1>5 DEF ListBecomes, JobsOK
  <1>7. QED
    BY <1>4, <1>6

\* A task that only asks has nothing to be wrong.
LEMMA NewJobs ==
    ASSUME NEW lg
    PROVE  /\ \A k \in {"keys", "peer", "info", "updated", "closed"} : \A c :
                 JobOK(Job(k, c), lg)
           /\ \A c \in Chats : \A mem : JobOK(LoadJob(c, mem), lg)
  BY DEF Job, LoadJob, JobOK

\* Starting a load shows at most a cached list.
LEMMA LoadStarts ==
    ASSUME NEW c \in Chats, NEW J, WinOK(win, log), JobsOK(J, log), StartLoad(c, J)
    PROVE  WinOK(win', log) /\ JobsOK(jobs', log)
  <1> DEFINE K == J \cup {LoadJob(c, win.mem)}
  <1>1. JobsOK(K, log)
    BY NewJobs DEF JobsOK
  <1>2. CASE win.mem[c] = Nil
    BY <1>1, <1>2 DEF StartLoad
  <1>3. CASE win.mem[c] # Nil
    <2>1. MemOK(win.mem, log) /\ ListOK(win.mem[c], log)
      BY <1>3 DEF WinOK, MemOK
    <2>2. ListBecomes(win.mem, win.mem[c], K)
      BY <1>3 DEF StartLoad
    <2>3. QED
      BY <1>1, <2>1, <2>2, ListChange
  <1>4. QED
    BY <1>2, <1>3

\* The tasks of a chat that is opened only ask.
LEMMA JobsAtEntry ==
    ASSUME NEW c \in Chats \cup {Nil}, NEW J, NEW mem, JobsOK(J, log)
    PROVE  JobsOK(OnEntry(c, J, mem), log) /\ JobsOK(Rechecked(c, J), log)
  <1>1. JobsOK(Rechecked(c, J), log)
    BY NewJobs DEF Rechecked, Without, KeyJobs, JobsOK
  <1>2. \A j \in OnEntry(c, J, mem) : \/ j \in Rechecked(c, J)
                                      \/ c \in Chats /\ j = LoadJob(c, mem)
                                      \/ j = Job("info", c)
    BY DEF OnEntry
  <1>3. QED
    BY <1>1, <1>2, NewJobs DEF JobsOK

\* A change of the chat resets the keys, the files and the edit.
LEMMA Switching ==
    ASSUME NEW c \in Chats \cup {Nil}, NEW J, NEW D, NEW mem, WinOK(win, log),
           JobsOK(J, log), MemOK(mem, log), Switch(c, J, D, mem)
    PROVE  WinOK(win', log) /\ JobsOK(jobs', log)
  <1>1. /\ DOMAIN win' = WinFields /\ win'.chat = c
        /\ win'.status = (IF c = "direct" /\ peerKey # Nil THEN "ready" ELSE "loading")
        /\ win'.pending = Nil /\ win'.edit = 0 /\ win'.mem = mem
        /\ win'.list = (IF c = Nil THEN <<>> ELSE IF mem[c] = Nil THEN win.list ELSE mem[c])
    BY DEF Switch, Closed, WinFields
  <1>2. ListOK(<<>>, log)
    BY NoneIsSeq DEF ListOK
  <1>3. ListOK(win'.list, log)
    BY <1>1, <1>2 DEF WinOK, MemOK
  <1>4. ~(c = "group" /\ win'.status = "ready")
    BY <1>1
  <1>5. WinOK(win', log)
    BY <1>1, <1>3, <1>4 DEF WinOK
  <1>6. JobsOK(jobs', log)
    BY JobsAtEntry DEF Switch
  <1>7. QED
    BY <1>5, <1>6

----------------------------------------------------------------------------
(* The user.                                                               *)

\* A step of the page, which leaves log and requests alone.
LEMMA PageSteps ==
    ASSUME SealInv, UNCHANGED <<log, role, reqs>>,
           WinOK(win', log), JobsOK(jobs', log), MailOK(mail', log), LineOK(line', log)
    PROVE  SealInv'
  BY DEF SealInv, Members

\* The task a submission begins.
LEMMA SealJobOK ==
    ASSUME SealInv, Enabled
    PROVE  JobOK(SealJob, log)
  <1>1. /\ SealJob.kind = "seal" /\ SealJob.chat = win.chat /\ SealJob.edit = win.edit
        /\ SealJob.to = Recipients(win.chat)
    BY DEF SealJob
  <1>2. WinOK(win, log) /\ win.chat \in Chats /\ win.status = "ready"
    BY DEF SealInv, WinOK, Enabled
  <1>3. win.chat = "group" => KeyMap(SealJob.to)
    BY <1>1, <1>2 DEF WinOK, Recipients
  <1> HIDE DEF SealJob
  <1>4. QED
    BY <1>1, <1>2, <1>3 DEF JobOK, WinOK

\* What is encrypted for keys that fit opens for everybody in a direct chat and a group.
LEMMA SealForFits ==
    ASSUME NEW c \in Chats, NEW text, NEW to, c = "group" => KeyMap(to)
    PROVE  /\ SealFits(SealFor(c, text, to), text, Me, c)
           /\ DOMAIN SealFor(c, text, to) = IF c = "group" THEN DOMAIN to ELSE Pair
  <1>1. CASE c = "group"
    BY <1>1, EnvelopesOpen DEF SealFor, SealFits, From
  <1>2. CASE c = "direct"
    <2>1. SealFor(c, text, to) = [r \in Pair |-> Encrypt(text, ChatKey(Me, PublicKey(Peer)))]
      BY <1>2 DEF SealFor, GetChatKey
    <2>2. Me # Peer
      BY ComposerAssumption
    <2>3. ASSUME NEW r \in Pair
          PROVE  ChatKey(r, From(Me, c, r)) = ChatKey(Me, PublicKey(Peer))
      <3>1. CASE r = Me
        <4>1. (CHOOSE p \in Pair \ {r} : TRUE) = Peer
          BY <2>2, <3>1 DEF Pair
        <4>2. QED
          BY <1>2, <3>1, <4>1 DEF From
      <3>2. CASE r = Peer
        <4>1. (CHOOSE p \in Pair \ {r} : TRUE) = Me
          BY <2>2, <3>2 DEF Pair
        <4>2. QED
          BY <1>2, <3>2, <4>1, ChatKeySymmetric DEF From
      <3>3. QED
        BY <3>1, <3>2 DEF Pair
    <2>4. QED
      BY <1>2, <2>1, <2>3 DEF SealFits, Encrypt, Decrypt
  <1>3. QED
    BY <1>1, <1>2 DEF Chats

\* What a submit sealed with the keys of its moment is a good frame.
LEMMA FrameIsOK ==
    ASSUME NEW j, NEW lg, JobOK(j, lg), j.kind = "seal"
    PROVE  FrameOK(Frame(j), lg)
  <1>1. /\ Frame(j).chat = j.chat /\ Frame(j).no = j.edit /\ Frame(j).text = j.text
        /\ Frame(j).seal = SealFor(j.chat, j.text, j.to) /\ Frame(j).copies = <<>>
    BY DEF Frame
  <1>2. j.chat \in Chats /\ (j.chat = "group" => KeyMap(j.to))
    BY DEF JobOK
  <1>3. j.edit # 0 => Mine(j.chat, j.edit, lg)
    BY DEF JobOK
  <1> HIDE DEF Frame
  <1>4. QED
    BY <1>1, <1>2, <1>3, SealForFits, NoneIsSeq DEF FrameOK

\* Nothing the user does in the composer breaks a seal or a key.
LEMMA UserKeepsSeals == SealInv /\ UserStep => SealInv'
  <1> SUFFICES ASSUME SealInv, UserStep PROVE SealInv'
    OBVIOUS
  <1>0. /\ WinOK(win, log) /\ JobsOK(jobs, log) /\ MailOK(mail, log) /\ LineOK(line, log)
        /\ DOMAIN win = WinFields
    BY DEF SealInv, WinOK
  <1>1. ASSUME NEW c \in Chats, OpenChat(c) PROVE SealInv'
    <2>1. MemOK(win.mem, log)
      BY <1>0 DEF WinOK
    <2>2. WinOK(win', log) /\ JobsOK(jobs', log)
      BY <1>0, <1>1, <2>1, Switching DEF OpenChat
    <2>3. QED
      BY <1>0, <1>1, <2>2, PageSteps DEF OpenChat, groupvars
  <1>2. ASSUME NEW c \in Chats, Share(c) PROVE SealInv'
    <2>1. MemOK(win.mem, log)
      BY <1>0 DEF WinOK
    <2>2. WinOK(win', log) /\ JobsOK(jobs', log)
      <3> DEFINE D == [drafts EXCEPT ![c] = @ \cup {made.thoughts + 1}]
      <3>1. CASE win' = Reread(D) /\ UNCHANGED jobs
        <4>1. SameWindow(win, win')
          BY <1>0, <3>1 DEF Reread, SameWindow, WinFields
        <4>2. QED
          BY <1>0, <3>1, <4>1, SameWindowOK
      <3>2. CASE Switch(c, jobs, D, win.mem)
        <4> HIDE DEF D
        <4>1. QED
          BY <1>0, <2>1, <3>2, Switching
      <3>3. QED
        BY <1>2, <3>1, <3>2 DEF Share
    <2>3. QED
      BY <1>0, <1>2, <2>2, PageSteps DEF Share, groupvars
  <1>3. CASE Type
    <2>1. SameWindow(win, win')
      BY <1>0, <1>3 DEF Type, SameWindow, WinFields
    <2>2. QED
      BY <1>0, <1>3, <2>1, SameWindowOK, PageSteps DEF Type, groupvars
  <1>4. CASE SelectFiles
    <2>1. SameWindow(win, win')
      BY <1>0, <1>4 DEF SelectFiles, SameWindow, WinFields
    <2>2. QED
      BY <1>0, <1>4, <2>1, SameWindowOK, PageSteps DEF SelectFiles, groupvars
  <1>5. CASE RemoveFiles
    <2>1. SameWindow(win, win')
      BY <1>0, <1>5 DEF RemoveFiles, SameWindow, WinFields
    <2>2. QED
      BY <1>0, <1>5, <2>1, SameWindowOK, PageSteps DEF RemoveFiles, groupvars
  <1>6. CASE PersistDraft
    BY <1>0, <1>6, PageSteps DEF PersistDraft, groupvars
  <1>7. CASE Reply
    <2>1. WinOK(win', log)
      <3>1. /\ DOMAIN win' = WinFields /\ win'.edit = 0
            /\ win'.chat = win.chat /\ win'.status = win.status /\ win'.keys = win.keys
            /\ win'.pending = win.pending /\ win'.list = win.list /\ win'.mem = win.mem
        BY <1>0, <1>7 DEF Reply, WinFields
      <3>2. QED
        BY <1>0, <3>1 DEF WinOK
    <2>2. QED
      BY <1>0, <1>7, <2>1, PageSteps DEF Reply, groupvars
  <1>8. CASE Submit
    <2>1. WinOK(win', log)
      <3>1. CASE win' = win
        BY <1>0, <3>1
      <3>2. CASE win' = [win EXCEPT !.pending = [chat |-> win.chat, files |-> win.files,
                                                 since |-> Len(log[win.chat])]]
        <4>1. /\ DOMAIN win' = WinFields /\ win'.pending.chat = win.chat
              /\ win'.chat = win.chat /\ win'.status = win.status /\ win'.keys = win.keys
              /\ win'.edit = win.edit /\ win'.list = win.list /\ win'.mem = win.mem
          BY <1>0, <3>2 DEF WinFields
        <4>2. QED
          BY <1>0, <4>1 DEF WinOK
      <3>3. QED
        BY <1>8, <3>1, <3>2 DEF Submit
    <2>2. JobsOK(jobs', log)
      BY <1>0, <1>8, SealJobOK DEF Submit, JobsOK
    <2>3. QED
      BY <1>0, <1>8, <2>1, <2>2, PageSteps DEF Submit, groupvars
  <1>9. ASSUME NEW i \in DOMAIN win.list, Edit(win.list[i]) PROVE SealInv'
    <2> DEFINE e == win.list[i]
    <2>1. Ref(e, log) /\ e[1] = win.chat /\ log[e[1]][e[2]].by = Me
      BY <1>0, <1>9 DEF WinOK, ListOK, Edit, Message
    <2>2. /\ DOMAIN win' = WinFields /\ win'.edit = e[2]
          /\ win'.chat = win.chat /\ win'.status = win.status /\ win'.keys = win.keys
          /\ win'.pending = win.pending /\ win'.list = win.list /\ win'.mem = win.mem
      BY <1>0, <1>9 DEF Edit, WinFields
    <2> HIDE DEF e
    <2>3. WinOK(win', log)
      BY <1>0, <2>1, <2>2 DEF WinOK, Mine, Ref
    <2>4. QED
      BY <1>0, <1>9, <2>3, PageSteps DEF Edit, groupvars
  <1>10. ASSUME NEW j \in jobs, Sealed(j) PROVE SealInv'
    <2>1. WinOK(win', log)
      <3>1. /\ DOMAIN win' = WinFields /\ win'.edit \in {win.edit, 0}
            /\ win'.chat = win.chat /\ win'.status = win.status /\ win'.keys = win.keys
            /\ win'.pending = win.pending /\ win'.list = win.list /\ win'.mem = win.mem
        BY <1>0, <1>10 DEF Sealed, WinFields
      <3>2. QED
        BY <1>0, <3>1 DEF WinOK
    <2>2. LineOK(line', log)
      <3>1. FrameOK(Frame(j), log)
        BY <1>0, <1>10, FrameIsOK DEF JobsOK, Sealed
      <3>2. {"up", "sent"} \subseteq DOMAIN line' /\ line'.sent = Append(line.sent, Frame(j))
        BY <1>0, <1>10 DEF Sealed, LineOK
      <3>3. QED
        BY <1>0, <3>1, <3>2, AppendSeq DEF LineOK
    <2>3. JobsOK(jobs', log)
      BY <1>0, <1>10 DEF Sealed, JobsOK
    <2>4. QED
      BY <1>0, <1>10, <2>1, <2>2, <2>3, PageSteps DEF Sealed, groupvars
  <1>11. ASSUME NEW j \in jobs, NotSealed(j) PROVE SealInv'
    <2>1. WinOK(win', log)
      <3>1. /\ DOMAIN win' = WinFields /\ win'.pending \in {win.pending, Nil}
            /\ win'.chat = win.chat /\ win'.status = win.status /\ win'.keys = win.keys
            /\ win'.edit = win.edit /\ win'.list = win.list /\ win'.mem = win.mem
        BY <1>0, <1>11 DEF NotSealed, WinFields
      <3>2. QED
        BY <1>0, <3>1 DEF WinOK
    <2>2. JobsOK(jobs', log)
      BY <1>0, <1>11 DEF NotSealed, JobsOK
    <2>3. QED
      BY <1>0, <1>11, <2>1, <2>2, PageSteps DEF NotSealed, groupvars
  <1>12. QED
    BY <1>1, <1>2, <1>3, <1>4, <1>5, <1>6, <1>7, <1>8, <1>9, <1>10, <1>11 DEF UserStep

----------------------------------------------------------------------------
(* The log, frames to the page, and requests.                              *)

\* The log grows by a message that fits.
LEMMA LogAppend ==
    ASSUME NEW lg, LogOK(lg), NEW c \in Chats, NEW m, MessageOK(m, c)
    PROVE  LET new == [lg EXCEPT ![c] = Append(@, m)]
           IN  LogOK(new) /\ Grows(lg, new) /\ Len(new[c]) \in DOMAIN new[c]
  <1> DEFINE new == [lg EXCEPT ![c] = Append(@, m)]
  <1>1. DOMAIN lg = Chats /\ IsSeq(lg[c])
    BY DEF LogOK
  <1>2. /\ DOMAIN new = Chats /\ new[c] = Append(lg[c], m)
        /\ \A d \in Chats \ {c} : new[d] = lg[d]
    BY <1>1
  <1> HIDE DEF new
  <1>3. \A d \in Chats : IsSeq(new[d]) /\ \A n \in DOMAIN new[d] : MessageOK(new[d][n], d)
    <2> SUFFICES ASSUME NEW d \in Chats
                 PROVE  IsSeq(new[d]) /\ \A n \in DOMAIN new[d] : MessageOK(new[d][n], d)
      OBVIOUS
    <2>1. CASE d = c
      <3>1. \A n \in DOMAIN lg[c] : MessageOK(lg[c][n], c)
        BY DEF LogOK
      <3>2. IsSeq(new[c]) /\ \A n \in DOMAIN new[c] : MessageOK(new[c][n], c)
        BY <1>1, <1>2, <3>1, AppendSeq
      <3>3. QED
        BY <2>1, <3>2
    <2>2. CASE d # c
      BY <1>2, <2>2 DEF LogOK
    <2>3. QED
      BY <2>1, <2>2
  <1>4. Grows(lg, new)
    BY <1>1, <1>2, AppendSeq DEF Grows
  <1>5. Len(new[c]) \in DOMAIN new[c]
    BY <1>1, <1>2, AppendSeq
  <1>6. QED
    BY <1>2, <1>3, <1>4, <1>5 DEF LogOK, new

\* A message may be replaced by one that fits and has the same author.
LEMMA LogChange ==
    ASSUME NEW lg, LogOK(lg), NEW c \in Chats, NEW n \in DOMAIN lg[c],
           NEW m, MessageOK(m, c), m.by = lg[c][n].by
    PROVE  LET new == [lg EXCEPT ![c] = [lg[c] EXCEPT ![n] = m]]
           IN  LogOK(new) /\ Grows(lg, new)
  <1> DEFINE new == [lg EXCEPT ![c] = [lg[c] EXCEPT ![n] = m]]
  <1>1. DOMAIN lg = Chats /\ IsSeq(lg[c])
    BY DEF LogOK
  <1>2. /\ DOMAIN new = Chats /\ new[c] = [lg[c] EXCEPT ![n] = m]
        /\ \A d \in Chats \ {c} : new[d] = lg[d]
    BY <1>1
  <1>3. IsSeq(new[c])
    BY <1>1, <1>2, ExceptIsSeq
  <1>4. DOMAIN new[c] = DOMAIN lg[c] /\ \A k \in DOMAIN lg[c] : new[c][k] \in {lg[c][k], m}
    BY <1>2
  <1>5. new[c][n] = m /\ \A k \in DOMAIN lg[c] \ {n} : new[c][k] = lg[c][k]
    BY <1>2
  <1> HIDE DEF new
  <1>6. LogOK(new)
    BY <1>2, <1>3, <1>4 DEF LogOK
  <1>7. Grows(lg, new)
    <2> SUFFICES ASSUME NEW d \in Chats, NEW k \in DOMAIN lg[d]
                 PROVE  k \in DOMAIN new[d] /\ new[d][k].by = lg[d][k].by
      BY DEF Grows
    <2>1. CASE d = c
      BY <1>4, <1>5, <2>1
    <2>2. CASE d # c
      BY <1>2, <2>2
    <2>3. QED
      BY <2>1, <2>2
  <1>8. QED
    BY <1>6, <1>7 DEF new

\* A frame about a new message refers to one that exists.
LEMMA ToldOK ==
    ASSUME NEW S, NEW kind, NEW c, NEW n, NEW lg, MailOK(mail, lg),
           kind = "new" => Ref(<<c, n>>, lg)
    PROVE  MailOK(Told(S, kind, c, n), lg)
  <1> DEFINE x == [kind |-> kind, chat |-> c, no |-> n]
  <1>1. x.kind = "new" => Ref(<<x.chat, x.no>>, lg)
    OBVIOUS
  <1> HIDE DEF x
  <1>2. MailOK(Append(mail, x), lg)
    BY <1>1, AppendSeq DEF MailOK
  <1>3. QED
    BY <1>2 DEF Told, x

\* The other frames refer to no message.
LEMMA OthersTold ==
    ASSUME NEW lg, MailOK(mail, lg)
    PROVE  \A S, c, n : /\ MailOK(Told(S, "members", c, n), lg)
                        /\ MailOK(Told(S, "gone", c, n), lg)
  <1> SUFFICES ASSUME NEW S, NEW c, NEW n, NEW kind \in {"members", "gone"}
               PROVE  MailOK(Told(S, kind, c, n), lg)
    OBVIOUS
  <1>1. kind # "new"
    OBVIOUS
  <1>2. QED
    BY <1>1, ToldOK

\* The members may change by those a request records.
LEMMA SettledRequests ==
    ASSUME NEW R, NEW who, NEW lg, NEW old, NEW new, \A r \in R : Shape(r),
           RequestsOK(R, lg, old), Apart(old, new) \subseteq who
    PROVE  RequestsOK(Settled(R, who), lg, new)
  <1> SUFFICES ASSUME NEW q \in Settled(R, who) PROVE RequestOK(q, lg, new)
    BY DEF RequestsOK
  <1>1. PICK r \in R : q = [r EXCEPT !.moved = @ \cup who]
    BY DEF Settled
  <1>2. Shape(r) /\ RequestOK(r, lg, old)
    BY DEF RequestsOK
  <1>3. /\ q.kind = r.kind /\ q.step = r.step /\ DOMAIN q = DOMAIN r
        /\ q.moved = r.moved \cup who
        /\ "frame" \in DOMAIN r => q.frame = r.frame
    BY <1>1, <1>2 DEF Shape
  <1>4. \A D : Apart(new, D) \subseteq Apart(old, D) \cup who
    BY DEF Apart
  <1>5. QED
    BY <1>2, <1>3, <1>4 DEF RequestOK

\* A request that is no send carries no frame.
LEMMA NotASend ==
    ASSUME NEW k, NEW b, NEW o, NEW s, NEW lg, NEW ms, k # "send"
    PROVE  RequestOK(Request(k, b, o, s), lg, ms)
  BY NewRequest DEF RequestOK

\* A send that passed its check fits the members; one before it need not.
LEMMA SendOK ==
    ASSUME NEW f, NEW s, NEW lg, NEW ms, FrameOK(f, lg),
           s = "store" /\ f.chat = "group" => DOMAIN f.seal = ms
    PROVE  RequestOK(SendRequest(f, s), lg, ms)
  <1>1. /\ "frame" \in DOMAIN SendRequest(f, s) /\ SendRequest(f, s).frame = f
        /\ SendRequest(f, s).step = s /\ SendRequest(f, s).moved = {}
    BY DEF SendRequest
  <1>2. QED
    BY <1>1 DEF RequestOK, Apart

----------------------------------------------------------------------------
(* The server.                                                             *)

\* A step of the server, and one that changes requests and frames to the page only.
LEMMA ServerSteps ==
    ASSUME SealInv, UNCHANGED <<win, jobs>>, Grows(log, log'), LogOK(log'),
           MailOK(mail', log'), LineOK(line', log'), RequestsOK(reqs', log', Members')
    PROVE  SealInv'
  BY PartsLast DEF SealInv

\* A log that stays has grown.
LEMMA SameLog == Grows(log, log)
  BY DEF Grows

\* The check of a frame lets it pass only with an envelope for each member.
LEMMA SendChecked == SealInv /\ CheckSend => SealInv'
  <1> SUFFICES ASSUME SealInv, CheckSend PROVE SealInv'
    OBVIOUS
  <1> DEFINE f == Head(line.sent)
  <1>1. LineOK(line, log) /\ line.sent # <<>>
    BY DEF SealInv, CheckSend
  <1>2. FrameOK(f, log)
    BY <1>1, TailSeq DEF LineOK
  <1>3. LineOK(line', log)
    <2>1. {"up", "sent"} \subseteq DOMAIN line' /\ line'.sent = Tail(line.sent)
      BY <1>1 DEF LineOK, CheckSend
    <2>2. QED
      BY <1>1, <2>1, TailSeq DEF LineOK
  <1>4. Members' = Members /\ log' = log
    BY DEF CheckSend, Members
  <1>5. RequestsOK(reqs', log, Members)
    <2>1. CASE Permitted(f) /\ reqs' = reqs \cup {SendRequest(f, "store")}
      <3>1. f.chat = "group" => DOMAIN f.seal = Members
        BY <2>1 DEF Permitted
      <3> HIDE DEF f
      <3>2. QED
        BY <1>2, <2>1, <3>1, SendOK DEF RequestsOK, SealInv
    <2>2. CASE reqs' = reqs
      BY <2>2 DEF SealInv
    <2>3. QED
      BY <2>1, <2>2 DEF CheckSend
  <1>6. QED
    BY <1>3, <1>4, <1>5, SameLog, ServerSteps DEF CheckSend, SealInv

\* So does the check of a forward.
LEMMA ForwardChecked ==
    ASSUME GroupInv, SealInv, NEW r \in reqs, CheckForward(r)
    PROVE  SealInv'
  <1> DEFINE q == [r EXCEPT !.step = "store"]
  <1>1. Members' = Members /\ log' = log
    BY DEF CheckForward, Members
  <1>2. /\ r.kind = "send" /\ Shape(r)
        /\ "frame" \in DOMAIN r /\ FrameOK(r.frame, log)
    BY DEF SealInv, RequestsOK, RequestOK, GroupInv, Harmless, CheckForward, Sending
  <1>3. q.frame = r.frame /\ "frame" \in DOMAIN q
    BY <1>2
  <1>4. ASSUME Permitted(r.frame) PROVE RequestOK(q, log, Members)
    <2>1. r.frame.chat = "group" => Apart(Members, DOMAIN r.frame.seal) = {}
      BY <1>4 DEF Permitted, Apart
    <2> HIDE DEF q
    <2>2. QED
      BY <1>2, <1>3, <2>1 DEF RequestOK
  <1>5. RequestsOK(reqs', log, Members)
    BY <1>4 DEF RequestsOK, SealInv, CheckForward
  <1>6. QED
    BY <1>1, <1>5, SameLog, ServerSteps DEF CheckForward, SealInv

\* A message is stored for those it was checked for, but for those who moved.
LEMMA NewStored ==
    ASSUME SealInv, NEW r \in reqs, StoreNew(r)
    PROVE  SealInv'
  <1> DEFINE f == r.frame
             m == Stores(Me, f.via, f.text, f.seal, f.batch, Copied(f), f.chat, r.moved)
  <1>1. /\ FrameOK(f, log) /\ f.chat \in Chats
        /\ f.chat = "group" => Apart(Members, DOMAIN f.seal) \subseteq r.moved
    BY DEF SealInv, RequestsOK, RequestOK, FrameOK, StoreNew
  <1>2. reqs' = reqs \ {r} /\ Members' = Members /\ UNCHANGED <<win, jobs, line>>
    BY DEF StoreNew, Members
  <1>3. RequestsOK(reqs', log, Members)
    BY <1>2 DEF SealInv, RequestsOK
  <1>4. CASE UNCHANGED <<log, mail>>
    BY <1>2, <1>3, <1>4, SameLog, ServerSteps DEF SealInv
  <1>5. CASE /\ log' = [log EXCEPT ![f.chat] = Append(@, m)]
             /\ mail' = Told(PeopleOf(f.chat), "new", f.chat, Len(log'[f.chat]))
    <2>1. /\ MessageFields \subseteq DOMAIN m /\ m.by = Me /\ m.text = f.text
          /\ m.seal = f.seal /\ m.at = PeopleOf(f.chat) /\ m.moved = r.moved
          /\ m.files = Copied(f)
      BY DEF Stores, MessageFields
    <2>2. Apart(m.at, DOMAIN m.seal) \subseteq m.moved
      <3>1. CASE f.chat = "group"
        BY <1>1, <2>1, <3>1 DEF PeopleOf
      <3>2. CASE f.chat = "direct"
        BY <1>1, <2>1, <3>2 DEF PeopleOf, FrameOK, Apart
      <3>3. QED
        BY <1>1, <3>1, <3>2 DEF Chats
    <2>3. \A b \in DOMAIN m.files : FileFits(m.files[b].file, b, m.by)
      <3>1. \A b \in DOMAIN Copied(f) : b \in DOMAIN f.copies /\ Copied(f)[b].file = f.copies[b]
        BY DEF Copied
      <3>2. QED
        BY <1>1, <2>1, <3>1 DEF FrameOK
    <2> HIDE DEF m
    <2>4. MessageOK(m, f.chat)
      BY <1>1, <2>1, <2>2, <2>3 DEF MessageOK, FrameOK
    <2>5. LogOK(log') /\ Grows(log, log') /\ Len(log'[f.chat]) \in DOMAIN log'[f.chat]
      BY <1>1, <1>5, <2>4, LogAppend DEF SealInv
    <2>6. MailOK(mail, log') /\ LineOK(line', log') /\ RequestsOK(reqs', log', Members')
      BY <1>2, <1>3, <2>5, PartsLast DEF SealInv
    <2>7. MailOK(mail', log')
      BY <1>1, <1>5, <2>5, <2>6, ToldOK DEF Ref
    <2>8. QED
      BY <1>2, <2>5, <2>6, <2>7, ServerSteps
  <1>6. QED
    BY <1>4, <1>5 DEF StoreNew

\* So is an edit, under the same author.
LEMMA EditStored ==
    ASSUME SealInv, NEW r \in reqs, StoreEdit(r)
    PROVE  SealInv'
  <1> DEFINE f == r.frame
             old == log[f.chat][f.no]
             m == [old EXCEPT !.text = f.text, !.seal = f.seal, !.at = PeopleOf(f.chat),
                              !.moved = r.moved]
  <1>1. /\ FrameOK(f, log) /\ Mine(f.chat, f.no, log)
        /\ f.chat = "group" => Apart(Members, DOMAIN f.seal) \subseteq r.moved
    BY DEF SealInv, RequestsOK, RequestOK, FrameOK, StoreEdit
  <1>2. /\ reqs' = reqs \ {r} /\ Members' = Members /\ UNCHANGED <<win, jobs, line, mail>>
    BY DEF StoreEdit, Members
  <1>3. log' = [log EXCEPT ![f.chat] = [log[f.chat] EXCEPT ![f.no] = m]]
    BY DEF StoreEdit
  <1>4. MessageOK(old, f.chat) /\ old.by = Me
    BY <1>1 DEF SealInv, LogOK, Mine
  <1>5. /\ MessageFields \subseteq DOMAIN m /\ m.by = old.by /\ m.text = f.text
        /\ m.seal = f.seal /\ m.at = PeopleOf(f.chat) /\ m.moved = r.moved
        /\ m.files = old.files
    BY <1>4 DEF MessageOK, MessageFields
  <1>6. Apart(m.at, DOMAIN m.seal) \subseteq m.moved
    <2>1. CASE f.chat = "group"
      BY <1>1, <1>5, <2>1 DEF PeopleOf
    <2>2. CASE f.chat = "direct"
      BY <1>1, <1>5, <2>2 DEF PeopleOf, FrameOK, Apart
    <2>3. QED
      BY <1>1, <2>1, <2>2 DEF Chats, Mine
  <1> HIDE DEF m
  <1>7. MessageOK(m, f.chat)
    BY <1>1, <1>4, <1>5, <1>6 DEF MessageOK, FrameOK
  <1>8. LogOK(log') /\ Grows(log, log')
    BY <1>1, <1>3, <1>5, <1>7, LogChange DEF SealInv, Mine
  <1>9. RequestsOK(reqs', log, Members)
    BY <1>2 DEF SealInv, RequestsOK
  <1>10. MailOK(mail', log') /\ LineOK(line', log') /\ RequestsOK(reqs', log', Members')
    BY <1>2, <1>8, <1>9, PartsLast DEF SealInv
  <1>11. QED
    BY <1>2, <1>8, <1>10, ServerSteps

\* A message from another client is sealed for the members of that moment.
LEMMA PostStored ==
    ASSUME SealInv, NEW u \in People, NEW c \in Chats, Post(u, c)
    PROVE  SealInv'
  <1> DEFINE seal == IF c = "group" THEN EncryptForGroup({}, GroupKeys, u) ELSE SealFor(c, {}, {})
             m == Stores(u, "other", {}, seal, 0, <<>>, c, {})
  <1>1. /\ Members' = Members /\ UNCHANGED <<win, jobs, line, reqs>>
        /\ log' = [log EXCEPT ![c] = Append(@, m)]
        /\ mail' = Told(PeopleOf(c), "new", c, Len(log'[c]))
    BY DEF Post, groupvars, Members
  <1>2. /\ MessageFields \subseteq DOMAIN m /\ m.by = u /\ m.text = {} /\ m.seal = seal
        /\ m.at = PeopleOf(c) /\ m.moved = {} /\ m.files = <<>>
    BY DEF Stores, MessageFields
  <1>3. SealFits(seal, {}, u, c) /\ DOMAIN seal = PeopleOf(c)
    <2>1. CASE c = "group"
      <3>1. KeyMap(GroupKeys) /\ DOMAIN GroupKeys = Members
        BY <2>1 DEF Post, PeopleOf, GroupKeys, PublishedKey, KeyMap
      <3>2. QED
        BY <2>1, <3>1, EnvelopesOpen DEF SealFits, From, PeopleOf
    <2>2. CASE c = "direct"
      <3>1. SealFits(SealFor(c, {}, {}), {}, Me, c) /\ DOMAIN SealFor(c, {}, {}) = Pair
        BY <2>2, SealForFits
      <3>2. QED
        BY <2>2, <3>1 DEF SealFits, From, PeopleOf
    <2>3. QED
      BY <2>1, <2>2 DEF Chats
  <1> HIDE DEF m, seal
  <1>4. MessageOK(m, c)
    BY <1>2, <1>3, NoneIsSeq DEF MessageOK, Apart
  <1>5. LogOK(log') /\ Grows(log, log') /\ Len(log'[c]) \in DOMAIN log'[c]
    BY <1>1, <1>4, LogAppend DEF SealInv
  <1>6. MailOK(mail, log') /\ LineOK(line', log') /\ RequestsOK(reqs', log', Members')
    BY <1>1, <1>5, PartsLast DEF SealInv
  <1>7. MailOK(mail', log')
    BY <1>1, <1>5, <1>6, ToldOK DEF Ref
  <1>8. QED
    BY <1>1, <1>5, <1>6, <1>7, ServerSteps

\* Requests of the group change the members; messages past their check are told.
LEMMA GroupDoneKeepsSeals ==
    ASSUME GroupInv, SealInv, NEW r \in reqs, GroupDone(r)
    PROVE  SealInv'
  <1>1. /\ \A x \in reqs \ {r} : Shape(x)
        /\ RequestsOK(reqs \ {r}, log, Members)
    BY DEF GroupInv, Harmless, SealInv, RequestsOK
  <1>2. RequestsOK(reqs', log, Members')
    <2>1. CASE WriteAdd(r)
      <3>1. Apart(Members, Members') \subseteq {r.of} \ Members
        BY <2>1 DEF WriteAdd, WithRole, Members, Apart
      <3>2. QED
        BY <1>1, <2>1, <3>1, SettledRequests DEF WriteAdd
    <2>2. CASE WriteRole(r)
      <3>1. Members' = Members
        BY <2>2 DEF WriteRole, WithRole, Members
      <3>2. QED
        BY <1>1, <2>2, <3>1 DEF WriteRole
    <2>3. CASE WriteRemoval(r)
      <3>1. Apart(Members, Members') \subseteq {r.of} \cap Members
        BY <2>3 DEF WriteRemoval, Dropped, Members, Apart
      <3>2. QED
        BY <1>1, <2>3, <3>1, SettledRequests DEF WriteRemoval
    <2>4. CASE Purge(r)
      <3>1. Apart(Members, Members') \subseteq Members
        BY <2>4 DEF Purge, Members, Apart
      <3>2. QED
        BY <1>1, <2>4, <3>1, SettledRequests DEF Purge
    <2>5. QED
      BY <2>1, <2>2, <2>3, <2>4 DEF GroupDone
  <1>3. UNCHANGED <<log, line>>
    BY DEF GroupDone, PageKeeps
  <1>4. MailOK(mail', log)
    <2>1. mail' \in {mail, Told(Members', "members", "group", 0)}
      BY DEF GroupDone
    <2>2. QED
      BY <2>1, OthersTold DEF SealInv
  <1>5. WinOK(win', log)
    BY DoubtedIsSame, SameWindowOK DEF GroupDone, UnlessHeard, SealInv
  <1>6. JobsOK(jobs', log)
    BY NewJobs DEF GroupDone, Answered, SealInv, JobsOK
  <1>7. QED
    BY <1>2, <1>3, <1>4, <1>5, <1>6 DEF SealInv

\* Requests about the group are announced and checked without touching a seal.
LEMMA GroupAskedKeepsSeals == SealInv /\ GroupAsked => SealInv'
  <1> SUFFICES ASSUME SealInv, GroupAsked PROVE SealInv'
    OBVIOUS
  <1>1. Members' = Members /\ UNCHANGED <<log, line, win, jobs>>
    BY DEF GroupAsked, PageKeeps, Members, CheckAdd, AnnounceRemoval, AnnounceLeave,
           AnnounceDeletion, CheckRole
  <1>2. \E k, b, o, s : k # "send" /\ reqs' = reqs \cup {Request(k, b, o, s)}
    BY DEF GroupAsked, CheckAdd, AnnounceRemoval, AnnounceLeave, AnnounceDeletion, CheckRole
  <1>3. RequestsOK(reqs', log, Members)
    BY <1>2, NotASend DEF SealInv, RequestsOK
  <1>4. MailOK(mail', log)
    <2>1. mail' \in {mail, Told(Members, "members", "group", 0), Told(Members, "gone", "group", 0)}
      BY DEF GroupAsked
    <2>2. QED
      BY <2>1, OthersTold DEF SealInv
  <1>5. QED
    BY <1>1, <1>3, <1>4 DEF SealInv

\* Nor does a request that is refused, or passes its check after its announcement.
LEMMA GroupRefusedKeepsSeals ==
    ASSUME GroupInv, SealInv, NEW r \in reqs, GroupRefused(r)
    PROVE  SealInv'
  <1>1. Members' = Members /\ UNCHANGED <<log, line, win, jobs, mail>>
    BY DEF GroupRefused, PageKeeps, Members, CheckAnnounced, RequestFails
  <1>2. RequestsOK(reqs', log, Members)
    <2> DEFINE q == [r EXCEPT !.step = "write"]
    <2>1. CASE reqs' = reqs \ {r}
      BY <2>1 DEF SealInv, RequestsOK
    <2>2. CASE r.kind \in {"remove", "leave", "delete"} /\ reqs' = (reqs \ {r}) \cup {q}
      <3>1. q.kind = r.kind
        BY NextStep DEF GroupInv, Harmless
      <3> HIDE DEF q
      <3>2. QED
        BY <2>2, <3>1 DEF SealInv, RequestsOK, RequestOK
    <2>3. QED
      BY <2>1, <2>2 DEF GroupRefused, CheckAnnounced, RequestFails
  <1>3. QED
    BY <1>1, <1>2 DEF SealInv

\* Every step of the server keeps the seals.
LEMMA ServerKeepsSeals == GroupInv /\ SealInv /\ ServerStep => SealInv'
  <1> SUFFICES ASSUME GroupInv, SealInv, ServerStep PROVE SealInv'
    OBVIOUS
  <1>1. ASSUME NEW r \in reqs, StoreFails(r) PROVE SealInv'
    <2>1. Members' = Members /\ reqs' = reqs \ {r}
      BY <1>1 DEF StoreFails, Members
    <2>2. RequestsOK(reqs', log, Members)
      BY <2>1 DEF SealInv, RequestsOK
    <2>3. QED
      BY <1>1, <2>1, <2>2 DEF StoreFails, SealInv
  <1>2. ASSUME NEW u \in People, SomebodyOnboards(u) PROVE SealInv'
    <2>1. Members' = Members /\ UNCHANGED <<log, line, jobs, mail, reqs>>
      BY <1>2 DEF SomebodyOnboards, Onboard, PageKeeps, Members
    <2>2. WinOK(win', log)
      BY <1>2, DoubtedIsSame, SameWindowOK DEF SomebodyOnboards, SealInv
    <2>3. QED
      BY <2>1, <2>2 DEF SealInv
  <1>3. QED
    BY <1>1, <1>2, SendChecked, ForwardChecked, NewStored, EditStored, PostStored,
       GroupAskedKeepsSeals, GroupDoneKeepsSeals, GroupRefusedKeepsSeals
    DEF ServerStep

----------------------------------------------------------------------------
(* The page.                                                               *)

\* A frame changes the list and asks, but brings no keys.
LEMMA FrameTaken == SealInv /\ TakeFrame => SealInv'
  <1> SUFFICES ASSUME SealInv, TakeFrame PROVE SealInv'
    OBVIOUS
  <1> DEFINE x == Head(mail)
  <1>0. /\ WinOK(win, log) /\ JobsOK(jobs, log) /\ MailOK(mail, log) /\ LineOK(line, log)
        /\ DOMAIN win = WinFields /\ MemOK(win.mem, log) /\ ListOK(win.list, log)
    BY DEF SealInv, WinOK
  <1>1. UNCHANGED <<log, role, reqs, line>> /\ MailOK(mail', log)
    BY <1>0, TailSeq DEF TakeFrame, groupvars, MailOK
  <1>2. x.kind = "new" => Ref(<<x.chat, x.no>>, log)
    BY <1>0, TailSeq DEF TakeFrame, MailOK
  <1>3. MemOK([win.mem EXCEPT !["group"] = Nil], log)
    BY <1>0 DEF MemOK
  <1>4. WinOK(win', log) /\ JobsOK(jobs', log)
    <2>1. CASE StartLoad("group", jobs \cup {Job("info", "group")})
      <3>1. JobsOK(jobs \cup {Job("info", "group")}, log)
        BY <1>0, NewJobs DEF JobsOK
      <3>2. QED
        BY <1>0, <2>1, <3>1, LoadStarts DEF Chats
    <2>2. CASE CloseChat(jobs)
      BY <1>0, <1>3, <2>2, Switching DEF CloseChat
    <2>3. CASE win' = [win EXCEPT !.mem["group"] = Nil] /\ UNCHANGED jobs
      <3>1. /\ DOMAIN win' = WinFields /\ win'.mem = [win.mem EXCEPT !["group"] = Nil]
            /\ win'.chat = win.chat /\ win'.status = win.status /\ win'.keys = win.keys
            /\ win'.pending = win.pending /\ win'.edit = win.edit /\ win'.list = win.list
        BY <1>0, <2>3 DEF WinFields
      <3>2. QED
        BY <1>0, <1>3, <2>3, <3>1 DEF WinOK
    <2>4. ASSUME NEW list, x.kind = "new",
                 list \in {win.list, Append(win.list, <<x.chat, x.no>>)},
                 ListBecomes([win.mem EXCEPT ![x.chat] = list], list, jobs)
          PROVE  WinOK(win', log) /\ JobsOK(jobs', log)
      <3>1. ListOK(list, log)
        <4> DEFINE e == <<x.chat, x.no>>
        <4>1. Ref(e, log)
          BY <1>2, <2>4
        <4> HIDE DEF e
        <4>2. ListOK(Append(win.list, e), log)
          BY <1>0, <4>1, AppendSeq DEF ListOK
        <4>3. QED
          BY <1>0, <2>4, <4>2 DEF e
      <3>2. MemOK([win.mem EXCEPT ![x.chat] = list], log)
        BY <1>0, <3>1 DEF MemOK
      <3>3. QED
        BY <1>0, <2>4, <3>1, <3>2, ListChange
    <2>5. CASE UNCHANGED <<win, jobs>>
      BY <1>0, <2>5
    <2>6. QED
      BY <2>1, <2>2, <2>3, <2>4, <2>5 DEF TakeFrame
  <1>5. QED
    BY <1>0, <1>1, <1>4, PageSteps

\* Keys that come are published ones, and are taken only when nobody lacks one.
LEMMA AnswersKeepSeals ==
    ASSUME SealInv, NEW j \in jobs,
           \/ Serve(j) \/ KeysCome(j) \/ KeysFail(j) \/ PeerComes(j) \/ InfoComes(j)
           \/ LoadComes(j) \/ LoadFails(j) \/ PanelComes(j)
    PROVE  SealInv'
  <1>0. /\ WinOK(win, log) /\ JobsOK(jobs, log) /\ MailOK(mail, log) /\ LineOK(line, log)
        /\ DOMAIN win = WinFields /\ MemOK(win.mem, log) /\ ListOK(win.list, log)
        /\ JobOK(j, log) /\ JobsOK(jobs \ {j}, log) /\ LogOK(log)
    BY DEF SealInv, WinOK, JobsOK
  <1>1. UNCHANGED <<log, role, reqs, line, mail>>
    BY DEF Serve, KeysCome, KeysFail, PeerComes, InfoComes, LoadComes, LoadFails, PanelComes,
           Keeps, groupvars
  <1> SUFFICES WinOK(win', log) /\ JobsOK(jobs', log)
    BY <1>0, <1>1, PageSteps
  <1>2. CASE Serve(j)
    <2> DEFINE d == IF j.kind = "keys" THEN GroupKeys ELSE Stored(j.chat)
               q == [j EXCEPT !.data = d]
    <2>1. q.kind = j.kind /\ q.chat = j.chat /\ q.data = d /\ DOMAIN q = DOMAIN j
      BY <1>0, <1>2 DEF Serve, JobOK
    <2>2. j.kind = "keys" => Published(d)
      BY DEF Published, GroupKeys, PublishedKey
    <2>3. j.kind = "load" => ListOK(d, log)
      BY <1>0, StoredIsSeq DEF JobOK, Stored
    <2>4. jobs' = (jobs \ {j}) \cup {q} /\ win' = win
      BY <1>2 DEF Serve
    <2> HIDE DEF d, q
    <2>5. JobOK(q, log)
      BY <1>0, <1>2, <2>1, <2>2, <2>3 DEF JobOK, Serve
    <2>6. QED
      BY <1>0, <2>4, <2>5 DEF JobsOK
  <1>3. CASE KeysCome(j)
    <2>1. CASE win' = [win EXCEPT !.status = "not-ready", !.keys = Nil]
      <3>1. /\ DOMAIN win' = WinFields /\ win'.status = "not-ready" /\ win'.chat = win.chat
            /\ win'.pending = win.pending /\ win'.edit = win.edit /\ win'.list = win.list
            /\ win'.mem = win.mem
        BY <1>0, <2>1 DEF WinFields
      <3>2. QED
        BY <1>0, <1>3, <3>1 DEF WinOK, KeysCome
    <2>2. CASE AllKeyed(j.data) /\ win' = [win EXCEPT !.status = "ready", !.keys = j.data]
      <3>1. /\ DOMAIN win' = WinFields /\ win'.keys = j.data /\ win'.chat = win.chat
            /\ win'.pending = win.pending /\ win'.edit = win.edit /\ win'.list = win.list
            /\ win'.mem = win.mem
        BY <1>0, <2>2 DEF WinFields
      <3>2. KeyMap(j.data)
        BY <1>0, <1>3, <2>2 DEF KeysCome, JobOK, Published, AllKeyed, KeyMap
      <3>3. QED
        BY <1>0, <1>3, <3>1, <3>2 DEF WinOK, KeysCome
    <2>3. CASE win' \in {win, Doubted("kept")}
      BY <1>0, <1>3, <2>3, DoubtedIsSame, SameWindowOK DEF KeysCome
    <2>4. QED
      BY <1>3, <2>1, <2>2, <2>3 DEF KeysCome
  <1>4. CASE KeysFail(j)
    <2>1. SameWindow(win, Doubted("failed"))
      BY <1>0, DoubtedIsSame
    <2>2. /\ DOMAIN win' = WinFields /\ win'.status = "loading" /\ win'.chat = win.chat
          /\ win'.pending = win.pending /\ win'.edit = win.edit /\ win'.list = win.list
          /\ win'.mem = win.mem
      BY <1>0, <1>4, <2>1 DEF KeysFail, SameWindow, WinFields
    <2>3. QED
      BY <1>0, <1>4, <2>2 DEF WinOK, KeysFail
  <1>5. CASE PeerComes(j)
    <2>1. CASE win.chat # "direct"
      BY <1>0, <1>5, <2>1 DEF PeerComes
    <2>2. CASE win.chat = "direct"
      <3>1. /\ DOMAIN win' = WinFields /\ win'.chat = "direct"
            /\ win'.pending = win.pending /\ win'.edit = win.edit /\ win'.list = win.list
            /\ win'.mem = win.mem
        BY <1>0, <1>5, <2>2 DEF PeerComes, WinFields
      <3>2. QED
        BY <1>0, <1>5, <2>2, <3>1 DEF WinOK, PeerComes
    <2>3. QED
      BY <2>1, <2>2
  <1>6. CASE InfoComes(j)
    <2>1. JobsOK(jobs', log)
      BY <1>0, <1>6, JobsAtEntry DEF InfoComes, InfoNews, WinOK
    <2>2. QED
      BY <1>0, <1>6, <2>1, DoubtedIsSame, SameWindowOK DEF InfoComes
  <1>7. CASE LoadComes(j)
    <2> DEFINE list == IF j.data = Nil THEN Stored(j.chat) ELSE j.data
    <2>1. ListOK(list, log) /\ j.chat \in Chats
      BY <1>0, <1>7, StoredIsSeq DEF LoadComes, JobOK, Stored
    <2>2. ListBecomes([win.mem EXCEPT ![j.chat] = list], list, jobs \ {j})
      BY <1>7 DEF LoadComes
    <2> HIDE DEF list
    <2>3. MemOK([win.mem EXCEPT ![j.chat] = list], log)
      BY <1>0, <2>1 DEF MemOK
    <2>4. QED
      BY <1>0, <2>1, <2>2, <2>3, ListChange
  <1>8. CASE LoadFails(j)
    <2>1. CASE ListBecomes(win.mem, <<>>, jobs \ {j})
      BY <1>0, <2>1, NoneIsSeq, ListChange DEF ListOK
    <2>2. QED
      BY <1>0, <1>8, <2>1 DEF LoadFails
  <1>9. CASE PanelComes(j)
    <2>1. CASE StartLoad("group", (jobs \ {j}) \cup {Job("info", "group")})
      <3>1. JobsOK((jobs \ {j}) \cup {Job("info", "group")}, log)
        BY <1>0, NewJobs DEF JobsOK
      <3>2. QED
        BY <1>0, <2>1, <3>1, LoadStarts DEF Chats
    <2>2. CASE CloseChat(jobs \ {j})
      <3>1. MemOK([win.mem EXCEPT !["group"] = Nil], log)
        BY <1>0 DEF MemOK
      <3>2. QED
        BY <1>0, <2>2, <3>1, Switching DEF CloseChat
    <2>3. QED
      BY <1>9, <2>1, <2>2 DEF PanelComes
  <1>10. QED
    BY <1>2, <1>3, <1>4, <1>5, <1>6, <1>7, <1>8, <1>9

\* A file is attached with envelopes for the keys its task began with.
LEMMA UploadKeepsSeals ==
    ASSUME SealInv, NEW j \in jobs, UploadEnds(j)
    PROVE  SealInv'
  <1> DEFINE old == Message(<<j.chat, j.no>>)
             file == [file |-> PrepareAttachment(j.files, j.to, Me), since |-> j.since]
             files == [b \in DOMAIN old.files \cup {j.files} |->
                          IF b = j.files THEN file ELSE old.files[b]]
             m == [old EXCEPT !.files = files]
  <1>0. /\ WinOK(win, log) /\ JobsOK(jobs, log) /\ MailOK(mail, log) /\ LineOK(line, log)
        /\ DOMAIN win = WinFields /\ JobOK(j, log) /\ LogOK(log) /\ RequestsOK(reqs, log, Members)
    BY DEF SealInv, WinOK, JobsOK
  <1>1. WinOK(win', log) /\ JobsOK(jobs', log)
    <2>1. SameWindow(win, win')
      BY <1>0 DEF UploadEnds, SameWindow, WinFields
    <2>2. QED
      BY <1>0, <2>1, SameWindowOK DEF UploadEnds, JobsOK
  <1>2. Members' = Members /\ UNCHANGED <<reqs, mail, line>>
    BY DEF UploadEnds, groupvars, Members
  <1>3. LogOK(log') /\ Grows(log, log')
    <2>1. CASE log' = log
      BY <1>0, <2>1, SameLog
    <2>2. CASE Accepted(j) /\ log' = [log EXCEPT ![j.chat][j.no].files = files]
      <3>1. log' = [log EXCEPT ![j.chat] = [log[j.chat] EXCEPT ![j.no] = m]]
        BY <2>2 DEF Message
      <3>2. CASE j.chat \notin Chats \/ j.no \notin DOMAIN log[j.chat]
        <4>1. DOMAIN log = Chats /\ \A c \in Chats : IsSeq(log[c])
          BY <1>0 DEF LogOK
        <4> HIDE DEF m
        <4>2. DOMAIN log' = Chats /\ \A c \in Chats \ {j.chat} : log'[c] = log[c]
          BY <3>1, <4>1
        <4>3. ASSUME j.chat \in Chats
              PROVE  log'[j.chat] = log[j.chat]
          <5>1. PICK S : log[j.chat] \in Seq(S)
            BY <4>1, <4>3 DEF IsSeq
          <5>2. log'[j.chat] = [log[j.chat] EXCEPT ![j.no] = m]
            BY <3>1, <4>1, <4>3
          <5>3. QED
            BY <3>2, <4>3, <5>1, <5>2
        <4>4. \A c \in Chats : log'[c] = log[c]
          BY <4>2, <4>3
        <4>5. QED
          BY <1>0, <4>2, <4>4 DEF LogOK, Grows
      <3>3. CASE j.chat \in Chats /\ j.no \in DOMAIN log[j.chat]
        <4>1. MessageOK(old, j.chat) /\ old = log[j.chat][j.no]
          BY <1>0, <3>3 DEF LogOK, Message
        <4>2. old.by = Me /\ FileFits(file.file, j.files, Me)
          BY <1>0, <2>2, PreparedFits DEF Accepted, JobOK, UploadEnds
        <4>3. \A b \in DOMAIN files : FileFits(files[b].file, b, Me)
          BY <4>1, <4>2 DEF MessageOK
        <4> HIDE DEF file, files
        <4>4. /\ MessageFields \subseteq DOMAIN m /\ m.files = files /\ m.by = old.by
              /\ m.text = old.text /\ m.seal = old.seal /\ m.at = old.at /\ m.moved = old.moved
          BY <4>1 DEF MessageOK, MessageFields
        <4> HIDE DEF m, old
        <4>5. MessageOK(m, j.chat)
          BY <4>1, <4>2, <4>3, <4>4 DEF MessageOK
        <4>6. QED
          BY <1>0, <3>1, <3>3, <4>1, <4>4, <4>5, LogChange
      <3>4. QED
        BY <3>2, <3>3
    <2>3. QED
      BY <2>1, <2>2 DEF UploadEnds
  <1>4. QED
    BY <1>0, <1>1, <1>2, <1>3, PartsLast DEF SealInv

\* A forward seals the text anew and rewraps the files the user could open.
LEMMA ForwardingKeepsSeals ==
    ASSUME GroupInv, SealInv, NEW j \in jobs, ForwardSent(j)
    PROVE  SealInv'
  <1> DEFINE to == IF j.chat = "group" THEN GroupKeys ELSE [r \in Pair |-> PublishedKey(r)]
             m == Message(j.of)
             f == Forwarded(m, j.chat, to)
  <1>0. /\ JobsOK(jobs, log) /\ JobOK(j, log) /\ LogOK(log) /\ RequestsOK(reqs, log, Members)
    BY DEF SealInv, JobsOK
  <1>1. /\ UNCHANGED <<log, win, mail, line>> /\ Members' = Members
        /\ JobsOK(jobs', log)
    BY <1>0 DEF ForwardSent, Members, JobsOK
  <1>2. j.chat \in Chats /\ Ref(j.of, log)
    BY <1>0 DEF ForwardSent, JobOK
  <1>3. MessageOK(m, j.of[1])
    BY <1>0, <1>2 DEF LogOK, Ref, Message
  <1>4. ASSUME AllKeyed(to)
        PROVE  FrameOK(f, log)
    <2>1. KeyMap(to)
      BY <1>4 DEF AllKeyed, KeyMap, GroupKeys, PublishedKey
    <2>2. /\ f.chat = j.chat /\ f.no = 0 /\ f.text = m.text
          /\ f.seal = SealFor(j.chat, m.text, to)
          /\ f.copies = [b \in {x \in DOMAIN m.files : Me \in DOMAIN m.files[x].file.envelopes} |->
                            Rewrap(m.files[b].file, Me, ChatKey(Me, PublicKey(m.by)), to, Me)]
      BY DEF Forwarded
    <2> HIDE DEF f, m, to
    <2>3. \A b \in DOMAIN f.copies : FileFits(f.copies[b], b, Me)
      BY <1>3, <2>1, <2>2, RewrappedFits DEF MessageOK
    <2>4. /\ SealFits(f.seal, f.text, Me, f.chat)
          /\ f.chat = "direct" => DOMAIN f.seal = Pair
      BY <1>2, <2>1, <2>2, SealForFits
    <2>5. QED
      BY <1>2, <2>2, <2>3, <2>4 DEF FrameOK
  <1>5. RequestsOK(reqs', log, Members)
    <2>1. CASE AllKeyed(to) /\ reqs' = reqs \cup {SendRequest(f, "check")}
      <3>1. FrameOK(f, log)
        BY <1>4, <2>1
      <3> HIDE DEF f
      <3>2. QED
        BY <1>0, <2>1, <3>1, SendOK DEF RequestsOK
    <2>2. CASE reqs' = reqs
      BY <1>0, <2>2
    <2>3. QED
      BY <2>1, <2>2 DEF ForwardSent
  <1>6. QED
    BY <1>1, <1>5 DEF SealInv

\* Every step of the page keeps the seals.
LEMMA PageKeepsSeals == GroupInv /\ SealInv /\ PageStep => SealInv'
  <1> SUFFICES ASSUME GroupInv, SealInv, PageStep PROVE SealInv'
    OBVIOUS
  <1>0. /\ WinOK(win, log) /\ JobsOK(jobs, log) /\ MailOK(mail, log) /\ LineOK(line, log)
        /\ DOMAIN win = WinFields /\ MemOK(win.mem, log) /\ ListOK(win.list, log)
    BY DEF SealInv, WinOK
  <1>1. ASSUME NEW i \in DOMAIN win.list, NEW c \in Chats, Forward(win.list[i], c)
        PROVE  SealInv'
    <2>1. Ref(win.list[i], log)
      BY <1>0 DEF ListOK
    <2>2. JobOK([kind |-> "forward", chat |-> c, of |-> win.list[i]], log)
      BY <2>1 DEF JobOK
    <2>3. JobsOK(jobs', log)
      BY <1>0, <1>1, <2>2 DEF Forward, JobsOK
    <2>4. QED
      BY <1>0, <1>1, <2>3, PageSteps DEF Forward, Keeps, groupvars
  <1>2. ASSUME NEW n \in 0..Len(line.sent), Cut(n) PROVE SealInv'
    <2>1. LineOK(line', log)
      <3>1. {"up", "sent"} \subseteq DOMAIN line' /\ line'.sent = SubSeq(line.sent, 1, n)
        BY <1>2 DEF Cut
      <3>2. QED
        BY <1>0, <3>1, PrefixSeq DEF LineOK
    <2>2. WinOK(win', log)
      BY <1>0, <1>2, DoubtedIsSame, SameWindowOK DEF Cut
    <2>3. MailOK(mail', log)
      BY <1>2, NoneIsSeq DEF Cut, MailOK
    <2>4. QED
      BY <1>0, <1>2, <2>1, <2>2, <2>3, PageSteps DEF Cut, groupvars
  <1>3. CASE Return
    <2>1. WinOK(win', log) /\ JobsOK(jobs', log)
      <3>1. CASE UNCHANGED <<win, jobs>>
        BY <1>0, <3>1
      <3>2. CASE win.chat # Nil /\ StartLoad(win.chat, jobs)
        <4>1. win.chat \in Chats
          BY <1>0, <3>2 DEF WinOK
        <4>2. QED
          BY <1>0, <3>2, <4>1, LoadStarts
      <3>3. QED
        BY <1>3, <3>1, <3>2 DEF Return
    <2>2. LineOK(line', log)
      <3>1. {"up", "sent"} \subseteq DOMAIN line' /\ line'.sent = line.sent
        BY <1>0, <1>3 DEF Return, LineOK
      <3>2. QED
        BY <1>0, <3>1 DEF LineOK
    <2>3. QED
      BY <1>0, <1>3, <2>1, <2>2, PageSteps DEF Return, groupvars
  <1>4. CASE Die
    <2>1. WinOK(win', log)
      <3>1. /\ DOMAIN win' = WinFields /\ win'.chat = Nil /\ win'.pending = Nil /\ win'.edit = 0
            /\ win'.list = <<>> /\ win'.mem = win.mem /\ win'.status = "loading"
        BY <1>4 DEF Die, Closed, WinFields
      <3>2. QED
        BY <1>0, <3>1, NoneIsSeq DEF WinOK, ListOK
    <2>2. LineOK(line', log)
      <3>1. {"up", "sent"} \subseteq DOMAIN line' /\ line'.sent = line.sent
        BY <1>0, <1>4 DEF Die, LineOK
      <3>2. QED
        BY <1>0, <3>1 DEF LineOK
    <2>3. JobsOK(jobs', log) /\ MailOK(mail', log)
      BY <1>4, NoneIsSeq DEF Die, JobsOK, MailOK
    <2>4. QED
      BY <1>4, <2>1, <2>2, <2>3, PageSteps DEF Die, groupvars
  <1>5. QED
    BY <1>1, <1>2, <1>3, <1>4, FrameTaken, AnswersKeepSeals, UploadKeepsSeals,
       ForwardingKeepsSeals DEF PageStep

----------------------------------------------------------------------------
(* The whole.                                                              *)

\* At first nothing is sealed and no keys are held.
LEMMA InitSeals == ComposerInit => SealInv
  <1> SUFFICES ASSUME ComposerInit PROVE SealInv
    OBVIOUS
  <1>1. LogOK(log)
    BY NoneIsSeq DEF ComposerInit, LogOK
  <1>2. WinOK(win, log)
    BY NoneIsSeq DEF ComposerInit, Closed, WinOK, WinFields, ListOK, MemOK
  <1>3. LineOK(line, log) /\ MailOK(mail, log)
    BY NoneIsSeq DEF ComposerInit, LineOK, MailOK
  <1>4. JobsOK(jobs, log) /\ RequestsOK(reqs, log, Members)
    BY DEF ComposerInit, GroupsInit, JobsOK, RequestsOK
  <1>5. QED
    BY <1>1, <1>2, <1>3, <1>4 DEF SealInv

\* At every station from the composer to the server, what is encrypted opens for those it is
\* encrypted for, and a message past its check fits the members but for those who moved since.
THEOREM SealsStayTrue == ComposerSpec => []SealInv
  <1>1. GroupInv /\ SealInv /\ [ComposerNext]_composervars => SealInv'
    <2> SUFFICES ASSUME GroupInv, SealInv, [ComposerNext]_composervars PROVE SealInv'
      OBVIOUS
    <2>1. CASE UNCHANGED composervars
      BY <2>1, PageSteps DEF composervars, groupvars, chatvars, SealInv
    <2>2. QED
      BY <2>1, UserKeepsSeals, ServerKeepsSeals, PageKeepsSeals DEF ComposerNext
  <1>2. QED
    BY InitSeals, <1>1, ChecksStayTrue, PTL DEF ComposerSpec

\* Every stored message was encrypted for the chat's members of that moment, except those who
\* came or went between the server's check and its transaction, and everybody it was encrypted
\* for reads its text and its files, those forwarded or edited included: for any people, any
\* number of chats opened meanwhile and any overlap of requests.
THEOREM EnvelopesAlwaysFit == ComposerSpec => []EnvelopesFit
  <1>1. SealInv => EnvelopesFit
    <2> SUFFICES ASSUME SealInv, NEW c \in Chats, NEW n \in DOMAIN log[c]
                 PROVE  LET m == log[c][n] IN
                        /\ (m.at \ DOMAIN m.seal) \cup (DOMAIN m.seal \ m.at) \subseteq m.moved
                        /\ \A r \in DOMAIN m.seal :
                              Decrypt(m.seal[r], ChatKey(r, From(m.by, c, r))) = m.text
                        /\ \A b \in DOMAIN m.files : \A r \in DOMAIN m.files[b].file.envelopes :
                              OpenFile(m.files[b].file, r, ChatKey(r, PublicKey(m.by))) = {b}
      BY DEF EnvelopesFit
    <2>1. MessageOK(log[c][n], c)
      BY DEF SealInv, LogOK
    <2>2. QED
      BY <2>1, FittingFileOpens DEF MessageOK, SealFits, Apart
  <1>2. QED
    BY SealsStayTrue, <1>1, PTL

----------------------------------------------------------------------------
(* The keys of the open group.                                             *)

\* Requests for the group's keys under way, served or not.
KeyAsks == {j \in jobs : j.kind = "keys"}

\* Something that is still to come makes the page ask for the keys, or is the asking.
Pending == ~ NoneTold \/ Asking("info") # {} \/ Asking("keys") # {}

\* What KeysAreCurrent promises.
Current == \/ win.status = "ready" /\ win.keys = GroupKeys /\ AllKeyed(GroupKeys)
           \/ win.status = "not-ready" /\ ~ (Members \subseteq keyed)

Watched == win.chat = "group" /\ Me \in Members /\ win.doubt = {}

\* If nothing is to come, an answer under way is up to date, and without one the window is.
KeysSoon ==
    Watched /\ ~ Pending => /\ \A j \in KeyAsks : j.data = GroupKeys
                            /\ KeyAsks # {} \/ Current

\* The effect's cleanup leaves one request for keys at most.
OneAsk == \A j, k \in KeyAsks : j = k

\* News of members are of the group.
MailForGroup == \A i \in DOMAIN mail : mail[i].kind = "members" => mail[i].chat = "group"

KeysInv == KeysSoon /\ OneAsk /\ MailForGroup

\* The window keeps its chat and its keys, and every doubt.
SameKeys ==
    /\ win'.chat = win.chat /\ win'.status = win.status /\ win'.keys = win.keys
    /\ win'.doubt = {} => win.doubt = {}

\* A step that neither the keys nor what is to come of them notices.
Calm ==
    /\ UNCHANGED <<role, keyed>>
    /\ win'.chat = "group" => SameKeys
    /\ KeyAsks' = KeyAsks /\ Asking("info") \subseteq Asking("info")'
    /\ NoneTold' => NoneTold

\* Nothing is promised after the step, or something is to come.
Excused == ~ Watched' \/ Pending'

\* Such a step keeps the promise.
LEMMA CalmKeeps == KeysSoon /\ Calm => KeysSoon'
  <1> SUFFICES ASSUME KeysSoon, Calm, Watched', ~ Pending'
               PROVE  /\ \A j \in KeyAsks' : j.data = GroupKeys'
                      /\ KeyAsks' # {} \/ Current'
    BY DEF KeysSoon
  <1>1. GroupKeys' = GroupKeys /\ Members' = Members /\ keyed' = keyed
    BY DEF Calm, GroupKeys, Members, PublishedKey
  <1>2. Watched
    BY <1>1 DEF Watched, Calm, SameKeys
  <1>3. \A j : j \in Asking("keys")' <=> j \in KeyAsks' /\ j.data = Nil
    BY DEF Asking, KeyAsks
  <1>4. \A j : j \in Asking("keys") <=> j \in KeyAsks /\ j.data = Nil
    BY DEF Asking, KeyAsks
  <1>5. ~ Pending
    BY <1>3, <1>4 DEF Pending, Calm
  <1>6. /\ \A j \in KeyAsks : j.data = GroupKeys
        /\ KeyAsks # {} \/ Current
    BY <1>2, <1>5 DEF KeysSoon
  <1>7. Current => Current'
    BY <1>1 DEF Current, Calm, SameKeys, Watched
  <1>8. QED
    BY <1>1, <1>6, <1>7 DEF Calm

\* A step after which nothing is promised, or something is to come, keeps it too.
LEMMA ExcusedKeeps == Excused => KeysSoon'
  BY DEF Excused, KeysSoon

\* The jobs that matter for the keys.
AsksIn(J) == {j \in J : j.kind = "keys"}
InfosIn(J) == {j \in J : j.kind = "info" /\ j.data = Nil}

\* A new list is none of the keys' business.
LEMMA ListIsCalm ==
    ASSUME WinOK(win, log), NEW mem, NEW list, NEW J, ListBecomes(mem, list, J)
    PROVE  SameKeys /\ KeyAsks' = AsksIn(J) /\ Asking("info")' = InfosIn(J)
  <1>1. DOMAIN win = WinFields
    BY DEF WinOK
  <1>2. SameKeys
    BY <1>1 DEF ListBecomes, SameKeys, WinFields
  <1> DEFINE u == Upload(list[Len(list)])
  <1>3. u.kind = "upload"
    BY DEF Upload
  <1> HIDE DEF u
  <1>4. jobs' = J \/ jobs' = J \cup {u}
    BY DEF ListBecomes, u
  <1>5. QED
    BY <1>2, <1>3, <1>4 DEF KeyAsks, Asking, AsksIn, InfosIn

\* Nor is the reading of a chat.
LEMMA LoadIsCalm ==
    ASSUME WinOK(win, log), NEW c, NEW J, StartLoad(c, J)
    PROVE  SameKeys /\ KeyAsks' = AsksIn(J) /\ Asking("info")' = InfosIn(J)
  <1> DEFINE l == LoadJob(c, win.mem)
             K == J \cup {l}
  <1>1. l.kind = "load"
    BY DEF LoadJob
  <1> HIDE DEF l
  <1>2. AsksIn(K) = AsksIn(J) /\ InfosIn(K) = InfosIn(J)
    BY <1>1 DEF AsksIn, InfosIn
  <1>3. CASE win.mem[c] = Nil
    <2>1. jobs' = K /\ win' = win
      BY <1>3 DEF StartLoad, l
    <2>2. QED
      BY <1>2, <2>1 DEF SameKeys, KeyAsks, Asking, AsksIn, InfosIn
  <1>4. CASE win.mem[c] # Nil
    <2>1. ListBecomes(win.mem, win.mem[c], K)
      BY <1>4 DEF StartLoad, l
    <2>2. QED
      BY <1>2, <2>1, ListIsCalm
  <1>5. QED
    BY <1>3, <1>4

\* Whoever enters the group asks for its keys, whoever leaves it gives up asking.
LEMMA SwitchAsks ==
    ASSUME NEW c, NEW J, NEW D, NEW mem, Switch(c, J, D, mem)
    PROVE  /\ win'.chat = c
           /\ KeyAsks' = IF c = "group" THEN {Job("keys", c)} ELSE {}
           /\ c = "group" => Asking("keys")' # {}
  <1> DEFINE k == Job("keys", c)
             l == LoadJob(c, mem)
             i == Job("info", c)
             p == Job("peer", c)
  <1>1. k.kind = "keys" /\ k.data = Nil /\ l.kind = "load" /\ i.kind = "info" /\ p.kind = "peer"
    BY DEF Job, LoadJob
  <1>2. win'.chat = c
    BY DEF Switch, Closed
  <1>3. jobs' = OnEntry(c, J, mem)
    BY DEF Switch
  <1>4. /\ Without({"keys"}, J) \subseteq jobs'
        /\ jobs' \subseteq Without({"keys"}, J) \cup {k, l, i, p}
        /\ k \in jobs' => k \in Without({"keys"}, J) \/ c = "group"
        /\ c = "group" => k \in jobs'
    <2> HIDE DEF k, l, i, p
    <2>1. KeyJobs(c) \subseteq {k, p} /\ (c = "group" => k \in KeyJobs(c))
      BY DEF KeyJobs, k, p
    <2>2. k \in KeyJobs(c) => c = "group"
      BY <1>1 DEF KeyJobs, k, p
    <2>3. /\ jobs' \subseteq Without({"keys"}, J) \cup KeyJobs(c) \cup {l, i}
          /\ Without({"keys"}, J) \cup KeyJobs(c) \subseteq jobs'
      BY <1>3 DEF OnEntry, Rechecked, l, i
    <2>4. k # l /\ k # i
      BY <1>1
    <2>5. QED
      BY <2>1, <2>2, <2>3, <2>4
  <1> HIDE DEF k, l, i, p
  <1>5. \A j \in Without({"keys"}, J) : j.kind # "keys"
    BY DEF Without
  <1>6. KeyAsks' = IF c = "group" THEN {k} ELSE {}
    BY <1>1, <1>4, <1>5 DEF KeyAsks
  <1>7. c = "group" => Asking("keys")' # {}
    BY <1>1, <1>4 DEF Asking
  <1>8. QED
    BY <1>2, <1>6, <1>7 DEF k

\* A step that leaves the chat, or enters one, is excused.
LEMMA SwitchKeeps ==
    ASSUME NEW c, NEW J, NEW D, NEW mem, Switch(c, J, D, mem)
    PROVE  Excused /\ OneAsk'
  BY SwitchAsks DEF Excused, Watched, Pending, OneAsk

\* A calm step keeps the whole invariant while no news come or go.
LEMMA CalmStep ==
    ASSUME KeysInv, Calm, UNCHANGED mail
    PROVE  KeysInv'
  <1>1. OneAsk'
    BY DEF KeysInv, OneAsk, Calm
  <1>2. MailForGroup'
    BY DEF KeysInv, MailForGroup
  <1>3. QED
    BY <1>1, <1>2, CalmKeeps DEF KeysInv


\* Steps that change neither the group, nor what is to come, nor the window but for its text,
\* its files and its list.
LEMMA QuietStep ==
    ASSUME KeysInv, UNCHANGED <<role, keyed, mail>>, win'.chat = "group" => SameKeys,
           KeyAsks' = KeyAsks, Asking("info") \subseteq Asking("info")'
    PROVE  KeysInv'
  <1>1. NoneTold' = NoneTold
    BY DEF NoneTold
  <1>2. Calm
    BY <1>1 DEF Calm
  <1>3. QED
    BY <1>2, CalmStep

\* Jobs that come or go without being about keys or information.
LEMMA OtherJobs ==
    ASSUME NEW j, j.kind \notin {"keys", "info"},
           jobs' \in {jobs, jobs \cup {j}, jobs \ {j}}
    PROVE  KeyAsks' = KeyAsks /\ Asking("info")' = Asking("info")
  BY DEF KeyAsks, Asking

\* What the user does in the composer.
LEMMA UserKeepsKeys == SealInv /\ KeysInv /\ UserStep => KeysInv'
  <1> SUFFICES ASSUME SealInv, KeysInv, UserStep PROVE KeysInv'
    OBVIOUS
  <1>1. DOMAIN win = WinFields
    BY DEF SealInv, WinOK
  <1>2. UNCHANGED jobs => KeyAsks' = KeyAsks /\ Asking("info")' = Asking("info")
    BY DEF KeyAsks, Asking
  <1>3. UNCHANGED mail /\ KeysInv => MailForGroup'
    BY DEF KeysInv, MailForGroup
  <1>4. ASSUME NEW c, NEW D, Switch(c, jobs, D, win.mem), UNCHANGED mail PROVE KeysInv'
    BY <1>3, <1>4, SwitchKeeps, ExcusedKeeps DEF KeysInv
  <1>5. ASSUME NEW c \in Chats, OpenChat(c) PROVE KeysInv'
    BY <1>4, <1>5 DEF OpenChat
  <1>6. UNCHANGED <<groupvars, mail>> => UNCHANGED <<role, keyed, mail>>
    BY DEF groupvars
  <1>7. ASSUME NEW c \in Chats, Share(c) PROVE KeysInv'
    <2> DEFINE t == made.thoughts + 1
               D == [drafts EXCEPT ![c] = @ \cup {t}]
    <2>1. UNCHANGED <<groupvars, mail>>
      BY <1>7 DEF Share
    <2>2. \/ win' = Reread(D) /\ UNCHANGED jobs
          \/ Switch(c, jobs, D, win.mem)
      BY <1>7 DEF Share
    <2> HIDE DEF D
    <2>3. win' = Reread(D) => SameKeys
      BY <1>1 DEF Reread, SameKeys, WinFields
    <2>4. QED
      BY <1>2, <1>4, <1>6, <2>1, <2>2, <2>3, QuietStep
  <1>8. CASE Type \/ SelectFiles \/ RemoveFiles \/ PersistDraft \/ Reply
    <2>1. UNCHANGED <<groupvars, mail, jobs>>
      BY <1>8 DEF Type, SelectFiles, RemoveFiles, PersistDraft, Reply
    <2>2. SameKeys
      <3>1. CASE Type
        BY <1>1, <3>1 DEF Type, SameKeys, WinFields
      <3>2. CASE SelectFiles
        BY <1>1, <3>2 DEF SelectFiles, SameKeys, WinFields
      <3>3. CASE RemoveFiles
        BY <1>1, <3>3 DEF RemoveFiles, SameKeys, WinFields
      <3>4. CASE PersistDraft
        BY <3>4 DEF PersistDraft, SameKeys
      <3>5. CASE Reply
        BY <1>1, <3>5 DEF Reply, SameKeys, WinFields
      <3>6. QED
        BY <1>8, <3>1, <3>2, <3>3, <3>4, <3>5
    <2>3. QED
      BY <1>2, <1>6, <2>1, <2>2, QuietStep
  <1>9. CASE Submit
    <2>1. UNCHANGED <<groupvars, mail>> /\ SameKeys
      <3>1. UNCHANGED <<groupvars, mail>>
        BY <1>9 DEF Submit
      <3>2. SameKeys
        BY <1>1, <1>9 DEF Submit, SameKeys, WinFields
      <3>3. QED
        BY <3>1, <3>2
    <2>2. SealJob.kind = "seal" /\ jobs' = jobs \cup {SealJob}
      BY <1>9 DEF Submit, SealJob
    <2>3. KeyAsks' = KeyAsks /\ Asking("info")' = Asking("info")
      BY <2>2, OtherJobs
    <2>4. QED
      BY <1>6, <2>1, <2>3, QuietStep
  <1>10. ASSUME NEW e, Edit(e) PROVE KeysInv'
    <2>1. UNCHANGED <<groupvars, mail, jobs>>
      BY <1>10 DEF Edit
    <2>2. SameKeys
      BY <1>1, <1>10 DEF Edit, SameKeys, WinFields
    <2>3. QED
      BY <1>2, <1>6, <2>1, <2>2, QuietStep
  <1>11. ASSUME NEW j \in jobs, Sealed(j) \/ NotSealed(j) PROVE KeysInv'
    <2>1. UNCHANGED <<groupvars, mail>> /\ j.kind = "seal" /\ jobs' = jobs \ {j}
      BY <1>11 DEF Sealed, NotSealed
    <2>2. SameKeys
      <3>1. CASE Sealed(j)
        BY <1>1, <3>1 DEF Sealed, SameKeys, WinFields
      <3>2. CASE NotSealed(j)
        BY <1>1, <3>2 DEF NotSealed, SameKeys, WinFields
      <3>3. QED
        BY <1>11, <3>1, <3>2
    <2>3. KeyAsks' = KeyAsks /\ Asking("info")' = Asking("info")
      BY <2>1, OtherJobs
    <2>4. QED
      BY <1>6, <2>1, <2>2, <2>3, QuietStep
  <1>12. QED
    BY <1>5, <1>7, <1>8, <1>9, <1>10, <1>11 DEF UserStep

\* What is told at the end of the line comes after what was told before.
LEMMA ToldKeepsNews ==
    ASSUME IsSeq(mail), MailForGroup, NEW S, NEW kind, NEW n, NEW c,
           kind = "members" => c = "group", mail' = Told(S, kind, c, n)
    PROVE  /\ MailForGroup'
           /\ NoneTold' => NoneTold
           /\ kind = "members" /\ line.up /\ Me \in S => ~ NoneTold'
  <1> DEFINE x == [kind |-> kind, chat |-> c, no |-> n]
  <1>1. x.kind = kind /\ x.chat = c
    OBVIOUS
  <1>2. CASE line.up /\ Me \in S
    <2>1. mail' = Append(mail, x)
      BY <1>2 DEF Told
    <2> HIDE DEF x
    <2>2. /\ DOMAIN mail \subseteq DOMAIN mail'
          /\ \A i \in DOMAIN mail' : (i \in DOMAIN mail /\ mail'[i] = mail[i]) \/ mail'[i] = x
          /\ \A i \in DOMAIN mail : mail'[i] = mail[i]
          /\ Len(mail') \in DOMAIN mail'
      BY <2>1, AppendSeq
    <2>3. MailForGroup'
      BY <1>1, <2>2 DEF MailForGroup
    <2>4. NoneTold' => NoneTold
      BY <2>2 DEF NoneTold
    <2>5. \E i \in DOMAIN mail' : mail'[i] = x
      <3>1. PICK T : mail \in Seq(T)
        BY DEF IsSeq
      <3>2. mail \in Seq(T \cup {x}) /\ x \in T \cup {x}
        BY <3>1
      <3>3. Append(mail, x)[Len(mail) + 1] = x /\ Len(mail) + 1 \in DOMAIN Append(mail, x)
        BY <3>2
      <3>4. QED
        BY <2>1, <3>3
    <2>6. kind = "members" => ~ NoneTold'
      BY <1>1, <2>5 DEF NoneTold
    <2>7. QED
      BY <2>3, <2>4, <2>6
  <1>3. CASE ~ (line.up /\ Me \in S)
    <2>1. mail' = mail
      BY <1>3 DEF Told
    <2>2. QED
      BY <1>3, <2>1 DEF MailForGroup, NoneTold
  <1>4. QED
    BY <1>2, <1>3


\* Steps of the server that only tell the page something.
LEMMA NewsStep ==
    ASSUME KeysInv, UNCHANGED <<role, keyed, win, jobs>>, NoneTold' => NoneTold, MailForGroup'
    PROVE  KeysInv'
  <1>1. KeyAsks' = KeyAsks /\ Asking("info")' = Asking("info") /\ SameKeys
    BY DEF KeyAsks, Asking, SameKeys
  <1>2. Calm
    BY <1>1 DEF Calm
  <1>3. OneAsk'
    BY <1>1 DEF KeysInv, OneAsk
  <1>4. QED
    BY <1>2, <1>3, CalmKeeps DEF KeysInv

\* A change of the group that the page hears of, has a doubt about, or has to come.
LEMMA ChangeStep ==
    ASSUME KeysInv, KeyAsks' = KeyAsks, Asking("info") \subseteq Asking("info")',
           NoneTold' => NoneTold, MailForGroup', win' = win \/ ~ Watched', UNCHANGED keyed,
           role' = role \/ Excused
    PROVE  KeysInv'
  <1>1. OneAsk'
    BY DEF KeysInv, OneAsk
  <1>2. ~ Watched' => KeysSoon'
    BY ExcusedKeeps DEF Excused
  <1>3. role' = role /\ win' = win => Calm
    BY DEF Calm, SameKeys
  <1>4. KeysSoon'
    BY <1>2, <1>3, CalmKeeps, ExcusedKeeps DEF KeysInv
  <1>5. QED
    BY <1>1, <1>4 DEF KeysInv

\* Whoever doubts promises nothing.
LEMMA DoubtExcuses ==
    ASSUME DOMAIN win = WinFields, NEW what, win' = Doubted(what)
    PROVE  ~ Watched'
  <1>1. CASE win.chat = "group"
    <2>1. win'.doubt = win.doubt \cup {what}
      BY <1>1 DEF Doubted, WinFields
    <2>2. QED
      BY <2>1 DEF Watched
  <1>2. CASE win.chat # "group"
    BY <1>2 DEF Doubted, Watched
  <1>3. QED
    BY <1>1, <1>2

\* The transactions of the group: an addition or a new role is told to the members, a removal
\* must find something to come, and after a deletion nobody is a member.
LEMMA GroupDoneKeepsKeys ==
    ASSUME SealInv, KeysInv, NEW r \in reqs, GroupDone(r)
    PROVE  KeysInv'
  <1>1. DOMAIN win = WinFields /\ IsSeq(mail)
    BY DEF SealInv, WinOK, MailOK
  <1>2. ASSUME NEW kind \in {"updated", "closed"}, Answered(r, kind)
        PROVE  /\ KeyAsks' = KeyAsks /\ Asking("info")' = Asking("info")
               /\ Asking("keys")' = Asking("keys")
    <2> DEFINE j == Job(kind, "group")
    <2>1. j.kind = kind
      BY DEF Job
    <2>2. jobs' \in {jobs, jobs \cup {j}, jobs \ {j}}
      BY <1>2 DEF Answered
    <2> HIDE DEF j
    <2>3. KeyAsks' = KeyAsks /\ Asking("info")' = Asking("info")
      BY <2>1, <2>2, OtherJobs
    <2>4. Asking("keys")' = Asking("keys")
      BY <2>1, <2>2 DEF Asking
    <2>5. QED
      BY <2>3, <2>4
  <1>3. MailForGroup /\ KeysSoon
    BY DEF KeysInv
  <1>4. ASSUME WriteAdd(r) \/ WriteRole(r), Answered(r, "updated"),
               mail' = IF r.kind = "add" /\ role' = role THEN mail
                       ELSE Told(Members', "members", "group", 0),
               win' = IF line.up \/ role' = role THEN win ELSE Doubted("missed")
        PROVE  KeysInv'
    <2>1. UNCHANGED keyed
      BY <1>4 DEF WriteAdd, WriteRole
    <2>2. KeyAsks' = KeyAsks /\ Asking("info")' = Asking("info")
      BY <1>2, <1>4
    <2>3. /\ MailForGroup' /\ (NoneTold' => NoneTold)
          /\ role' # role /\ line.up /\ Me \in Members' => ~ NoneTold'
      <3>1. CASE mail' = mail /\ role' = role
        BY <1>3, <3>1 DEF MailForGroup, NoneTold
      <3>2. CASE mail' = Told(Members', "members", "group", 0)
        BY <1>1, <1>3, <3>2, ToldKeepsNews
      <3>3. QED
        BY <1>4, <3>1, <3>2
    <2>4. win' = win \/ ~ Watched'
      BY <1>1, <1>4, DoubtExcuses
    <2>5. role' = role \/ Excused
      <3>1. CASE line.up
        BY <2>3, <3>1 DEF Excused, Watched, Pending
      <3>2. CASE ~ line.up
        BY <1>1, <1>4, <3>2, DoubtExcuses DEF Excused
      <3>3. QED
        BY <3>1, <3>2
    <2>6. QED
      BY <2>1, <2>2, <2>3, <2>4, <2>5, ChangeStep
  <1>5. ASSUME WriteRemoval(r), UnlessHeard, UNCHANGED mail,
               NEW kind \in {"updated", "closed"}, Answered(r, kind)
        PROVE  KeysInv'
    <2>1. UNCHANGED keyed
      BY <1>5 DEF WriteRemoval
    <2>2. /\ KeyAsks' = KeyAsks /\ Asking("info")' = Asking("info")
          /\ Asking("keys")' = Asking("keys")
      BY <1>2, <1>5
    <2>3. MailForGroup' /\ NoneTold' = NoneTold
      BY <1>3, <1>5 DEF MailForGroup, NoneTold
    <2>4. \/ win' = win /\ (role' = role \/ ~ Unheard)
          \/ win' = Doubted("missed")
      BY <1>5 DEF UnlessHeard
    <2>5. ~ Unheard => Pending'
      BY <2>2, <2>3 DEF Unheard, Pending
    <2>6. (win' = win \/ ~ Watched') /\ (role' = role \/ Excused)
      BY <1>1, <2>4, <2>5, DoubtExcuses DEF Excused
    <2>7. QED
      BY <2>1, <2>2, <2>3, <2>6, ChangeStep
  <1>6. ASSUME Purge(r), UNCHANGED <<win, mail>>, Answered(r, "closed") PROVE KeysInv'
    <2>1. UNCHANGED keyed /\ Members' = {}
      BY <1>6 DEF Purge, Members
    <2>2. KeyAsks' = KeyAsks /\ Asking("info")' = Asking("info")
      BY <1>2, <1>6
    <2>3. MailForGroup' /\ NoneTold' = NoneTold
      BY <1>3, <1>6 DEF MailForGroup, NoneTold
    <2>4. Excused
      BY <2>1 DEF Excused, Watched
    <2>5. QED
      BY <1>6, <2>1, <2>2, <2>3, <2>4, ChangeStep
  <1>7. r.kind = "leave" \/ r.kind # "leave"
    OBVIOUS
  <1>8. QED
    BY <1>4, <1>5, <1>6, <1>7 DEF GroupDone

\* The server's steps.
LEMMA ServerKeepsKeys == SealInv /\ KeysInv /\ ServerStep => KeysInv'
  <1> SUFFICES ASSUME SealInv, KeysInv, ServerStep PROVE KeysInv'
    OBVIOUS
  <1>1. DOMAIN win = WinFields /\ IsSeq(mail) /\ MailForGroup
    BY DEF SealInv, WinOK, MailOK, KeysInv
  <1>2. UNCHANGED mail => MailForGroup' /\ NoneTold' = NoneTold
    BY <1>1 DEF MailForGroup, NoneTold
  <1>3. UNCHANGED <<role, keyed, win, jobs, mail>> => KeysInv'
    BY <1>2, NewsStep
  <1>4. CASE CheckSend
    BY <1>3, <1>4 DEF CheckSend
  <1>5. ASSUME NEW r \in reqs, CheckForward(r) \/ StoreEdit(r) PROVE KeysInv'
    BY <1>3, <1>5 DEF CheckForward, StoreEdit
  <1>6. ASSUME NEW r \in reqs, StoreNew(r) PROVE KeysInv'
    <2>1. UNCHANGED <<role, keyed, win, jobs>>
      BY <1>6 DEF StoreNew
    <2>2. \/ UNCHANGED mail
          \/ mail' = Told(PeopleOf(r.frame.chat), "new", r.frame.chat, Len(log'[r.frame.chat]))
      BY <1>6 DEF StoreNew
    <2>3. MailForGroup' /\ (NoneTold' => NoneTold)
      BY <1>1, <1>2, <2>2, ToldKeepsNews
    <2>4. QED
      BY <2>1, <2>3, NewsStep
  <1>7. ASSUME NEW r \in reqs, StoreFails(r) PROVE KeysInv'
    BY <1>3, <1>7 DEF StoreFails
  <1>8. ASSUME NEW u \in People, NEW c \in Chats, Post(u, c) PROVE KeysInv'
    <2>1. UNCHANGED <<role, keyed, win, jobs>>
      BY <1>8 DEF Post, groupvars
    <2>2. mail' = Told(PeopleOf(c), "new", c, Len(log'[c]))
      BY <1>8 DEF Post
    <2>3. MailForGroup' /\ (NoneTold' => NoneTold)
      BY <1>1, <2>2, ToldKeepsNews
    <2>4. QED
      BY <2>1, <2>3, NewsStep
  <1>9. CASE GroupAsked
    <2>1. UNCHANGED <<role, keyed, win, jobs>>
      BY <1>9 DEF GroupAsked, CheckAdd, AnnounceRemoval, AnnounceLeave, AnnounceDeletion,
                  CheckRole
    <2>2. \/ UNCHANGED mail
          \/ mail' = Told(Members, "members", "group", 0)
          \/ mail' = Told(Members, "gone", "group", 0)
      BY <1>9 DEF GroupAsked
    <2>3. MailForGroup' /\ (NoneTold' => NoneTold)
      BY <1>1, <1>2, <2>2, ToldKeepsNews
    <2>4. QED
      BY <2>1, <2>3, NewsStep
  <1>10. ASSUME NEW r \in reqs, GroupRefused(r) PROVE KeysInv'
    BY <1>3, <1>10 DEF GroupRefused, CheckAnnounced, RequestFails
  <1>11. ASSUME NEW u \in People, SomebodyOnboards(u) PROVE KeysInv'
    <2>1. win' = Doubted("onboarded") /\ UNCHANGED <<jobs, mail>>
      BY <1>11 DEF SomebodyOnboards
    <2>2. Excused
      BY <1>1, <2>1, DoubtExcuses DEF Excused
    <2>3. OneAsk'
      BY <2>1 DEF KeysInv, OneAsk, KeyAsks
    <2>4. QED
      BY <1>2, <2>1, <2>2, <2>3, ExcusedKeeps DEF KeysInv
  <1>12. QED
    BY <1>4, <1>5, <1>6, <1>7, <1>8, <1>9, <1>10, <1>11, GroupDoneKeepsKeys DEF ServerStep


\* The server's answer about keys says whether everybody has one.
LEMMA KeysTell == AllKeyed(GroupKeys) <=> Members \subseteq keyed
  <1>1. \A u : PublicKey(u) # NoKey
    <2> SUFFICES ASSUME NEW u, PublicKey(u) = NoKey PROVE FALSE
      OBVIOUS
    <2>1. DOMAIN PublicKey(u) = {"public"} /\ DOMAIN NoKey = {"missing"}
      BY DEF PublicKey, NoKey
    <2>2. QED
      BY <2>1
  <1>2. \A u : PublishedKey(u) # NoKey <=> u \in keyed
    BY <1>1 DEF PublishedKey
  <1>3. DOMAIN GroupKeys = Members /\ \A u \in Members : GroupKeys[u] = PublishedKey(u)
    BY DEF GroupKeys
  <1>4. QED
    BY <1>2, <1>3 DEF AllKeyed

\* An answer about keys is taken, or its refusal.
LEMMA KeysTaken ==
    ASSUME SealInv, KeysInv, NEW j \in jobs, Serve(j) \/ KeysCome(j) \/ KeysFail(j)
    PROVE  KeysInv'
  <1>1. DOMAIN win = WinFields /\ JobOK(j, log) /\ MailForGroup /\ OneAsk /\ KeysSoon
    BY DEF SealInv, WinOK, KeysInv, JobsOK
  <1>2. UNCHANGED <<role, keyed, mail>>
    BY DEF Serve, KeysCome, KeysFail, Keeps, groupvars
  <1>3. MailForGroup' /\ NoneTold' = NoneTold
    BY <1>1, <1>2 DEF MailForGroup, NoneTold
  <1>4. GroupKeys' = GroupKeys /\ Members' = Members
    BY <1>2 DEF GroupKeys, Members, PublishedKey
  <1>5. CASE Serve(j)
    <2> DEFINE d == IF j.kind = "keys" THEN GroupKeys ELSE Stored(j.chat)
               n == [j EXCEPT !.data = d]
    <2>1. j.kind \in {"keys", "load"} /\ jobs' = (jobs \ {j}) \cup {n} /\ win' = win
      BY <1>5 DEF Serve
    <2>2. n.kind = j.kind /\ n.data = d
      BY <1>1, <2>1 DEF JobOK
    <2>3. j.kind = "keys" => d = GroupKeys
      OBVIOUS
    <2> HIDE DEF n, d
    <2>4. Asking("info")' = Asking("info")
      BY <2>1, <2>2 DEF Asking
    <2>5. CASE j.kind = "keys"
      <3>1. KeyAsks = {j}
        BY <1>1, <2>5 DEF OneAsk, KeyAsks
      <3>2. KeyAsks' = {n}
        BY <2>1, <2>2, <2>5, <3>1 DEF KeyAsks
      <3>3. KeysSoon'
        BY <1>4, <2>2, <2>3, <2>5, <3>2 DEF KeysSoon
      <3>4. OneAsk'
        BY <3>2 DEF OneAsk
      <3>5. QED
        BY <1>3, <3>3, <3>4 DEF KeysInv
    <2>6. CASE j.kind = "load"
      <3>1. KeyAsks' = KeyAsks
        BY <2>1, <2>2, <2>6 DEF KeyAsks
      <3>2. QED
        BY <1>2, <2>1, <2>4, <3>1, QuietStep DEF SameKeys
    <2>7. QED
      BY <2>1, <2>5, <2>6
  <1>6. ASSUME jobs' = jobs \ {j} PROVE OneAsk'
    BY <1>1, <1>6 DEF OneAsk, KeyAsks
  <1>7. CASE KeysCome(j)
    <2>1. j.kind = "keys" /\ j.data # Nil /\ jobs' = jobs \ {j}
      BY <1>7 DEF KeysCome
    <2>2. KeyAsks' \subseteq KeyAsks /\ j \in KeyAsks
      BY <2>1 DEF KeyAsks
    <2>3. Asking("info")' = Asking("info") /\ Asking("keys")' = Asking("keys")
      BY <2>1 DEF Asking
    <2>4. \/ /\ ~ AllKeyed(j.data)
             /\ win' = [win EXCEPT !.status = "not-ready", !.keys = Nil]
          \/ /\ AllKeyed(j.data)
             /\ win' = [win EXCEPT !.status = "ready", !.keys = j.data]
          \/ AllKeyed(j.data) /\ win.status = "ready" /\ j.data = win.keys /\ win' = win
          \/ win' = Doubted("kept")
      BY <1>7 DEF KeysCome
    <2>5. ASSUME Watched', ~ Pending'
          PROVE  (\A k \in KeyAsks' : k.data = GroupKeys') /\ Current'
      <3>1. /\ win'.doubt = win.doubt /\ win'.chat = win.chat
            /\ \/ ~ AllKeyed(j.data) /\ win'.status = "not-ready"
               \/ AllKeyed(j.data) /\ win'.status = "ready" /\ win'.keys = j.data
        BY <1>1, <2>4, <2>5, DoubtExcuses DEF WinFields
      <3>2. Watched /\ ~ Pending
        BY <1>3, <1>4, <2>3, <2>5, <3>1 DEF Watched, Pending
      <3>3. \A k \in KeyAsks : k.data = GroupKeys
        BY <1>1, <3>2 DEF KeysSoon
      <3>4. Current'
        BY <1>2, <1>4, <2>2, <3>1, <3>3, KeysTell DEF Current
      <3>5. QED
        BY <1>4, <2>2, <3>3, <3>4
    <2>6. KeysSoon'
      BY <2>5 DEF KeysSoon
    <2>7. QED
      BY <1>3, <1>6, <2>1, <2>6 DEF KeysInv
  <1>8. CASE KeysFail(j)
    <2> DEFINE w == Doubted("failed")
    <2>1. win' = [w EXCEPT !.status = "loading", !.keys = Nil] /\ jobs' = jobs \ {j}
      BY <1>8 DEF KeysFail
    <2>2. win.chat = "group" => w.doubt # {} /\ DOMAIN w = WinFields
      BY <1>1 DEF Doubted, WinFields
    <2>3. win.chat # "group" => w = win
      BY DEF Doubted
    <2> HIDE DEF w
    <2>4. ~ Watched'
      BY <1>1, <2>1, <2>2, <2>3 DEF Watched, WinFields
    <2>5. QED
      BY <1>3, <1>6, <2>1, <2>4, ExcusedKeeps DEF KeysInv, Excused
  <1>9. QED
    BY <1>5, <1>7, <1>8

\* Frames: news of members ask for information, the end of the group closes it.
LEMMA FrameKeepsKeys == SealInv /\ KeysInv /\ TakeFrame => KeysInv'
  <1> SUFFICES ASSUME SealInv, KeysInv, TakeFrame PROVE KeysInv'
    OBVIOUS
  <1> DEFINE x == Head(mail)
  <1>1. /\ DOMAIN win = WinFields /\ IsSeq(mail) /\ MailForGroup /\ OneAsk /\ KeysSoon
        /\ WinOK(win, log)
    BY DEF SealInv, WinOK, MailOK, KeysInv
  <1>2. mail # <<>> /\ mail' = Tail(mail) /\ UNCHANGED <<role, keyed>>
    BY DEF TakeFrame, groupvars
  <1>3. /\ x = mail[1] /\ 1 \in DOMAIN mail
        /\ \A i \in DOMAIN mail' : i + 1 \in DOMAIN mail /\ mail'[i] = mail[i + 1]
    BY <1>1, <1>2, TailSeq
  <1>4. MailForGroup'
    BY <1>1, <1>3 DEF MailForGroup
  <1>5. x.kind # "members" => (NoneTold' => NoneTold)
    <2>1. PICK T : mail \in Seq(T)
      BY <1>1 DEF IsSeq
    <2>2. \A i \in DOMAIN mail : i = 1 \/ (i - 1 \in DOMAIN mail' /\ mail'[i - 1] = mail[i])
      BY <1>2, <2>1
    <2>3. QED
      BY <1>3, <2>2 DEF NoneTold
  <1>6. ASSUME SameKeys, KeyAsks' = KeyAsks, Asking("info") \subseteq Asking("info")',
               x.kind # "members"
        PROVE  KeysInv'
    <2>1. Calm
      BY <1>2, <1>5, <1>6 DEF Calm
    <2>2. QED
      BY <1>1, <1>4, <1>6, <2>1, CalmKeeps DEF KeysInv, OneAsk
  <1>7. CASE x.kind = "members" /\ win.chat = "group"
                /\ StartLoad("group", jobs \cup {Job("info", "group")})
    <2> DEFINE j == Job("info", "group")
               J == jobs \cup {j}
    <2>1. j.kind = "info" /\ j.data = Nil
      BY DEF Job
    <2>2. KeyAsks' = AsksIn(J) /\ Asking("info")' = InfosIn(J)
      BY <1>1, <1>7, LoadIsCalm
    <2> HIDE DEF j
    <2>3. AsksIn(J) = KeyAsks /\ j \in InfosIn(J)
      BY <2>1 DEF AsksIn, InfosIn, KeyAsks
    <2>4. Excused /\ OneAsk'
      BY <1>1, <2>2, <2>3 DEF Excused, Pending, OneAsk
    <2>5. QED
      BY <1>4, <2>4, ExcusedKeeps DEF KeysInv
  <1>8. CASE CloseChat(jobs)
    <2>1. Excused /\ OneAsk'
      BY <1>8, SwitchKeeps DEF CloseChat
    <2>2. QED
      BY <1>4, <2>1, ExcusedKeeps DEF KeysInv
  <1>9. CASE x.kind = "gone" /\ win' = [win EXCEPT !.mem["group"] = Nil] /\ UNCHANGED jobs
    <2>1. SameKeys
      BY <1>1, <1>9 DEF SameKeys, WinFields
    <2>2. QED
      BY <1>6, <1>9, <2>1 DEF KeyAsks, Asking
  <1>10. CASE x.kind = "new" /\ \E mem, list : ListBecomes(mem, list, jobs)
    <2>1. SameKeys /\ KeyAsks' = KeyAsks /\ Asking("info")' = Asking("info")
      BY <1>1, <1>10, ListIsCalm DEF AsksIn, InfosIn, KeyAsks, Asking
    <2>2. QED
      BY <1>6, <1>10, <2>1
  <1>11. CASE x.kind \in {"new", "members"} /\ win.chat # x.chat /\ UNCHANGED <<win, jobs>>
    <2>1. CASE x.kind = "new"
      BY <1>6, <1>11, <2>1 DEF SameKeys, KeyAsks, Asking
    <2>2. CASE x.kind = "members"
      <3>1. x.chat = "group"
        BY <1>1, <1>3, <2>2 DEF MailForGroup
      <3>2. Excused /\ OneAsk'
        BY <1>1, <1>11, <3>1 DEF Excused, Watched, OneAsk, KeyAsks
      <3>3. QED
        BY <1>4, <3>2, ExcusedKeeps DEF KeysInv
    <2>3. QED
      BY <1>11, <2>1, <2>2
  <1>12. QED
    <2>1. \/ x.kind = "members" /\ win.chat = "group"
                /\ StartLoad("group", jobs \cup {Job("info", "group")})
          \/ CloseChat(jobs)
          \/ x.kind = "gone" /\ win' = [win EXCEPT !.mem["group"] = Nil] /\ UNCHANGED jobs
          \/ x.kind = "new" /\ \E mem, list : ListBecomes(mem, list, jobs)
          \/ x.kind \in {"new", "members"} /\ win.chat # x.chat /\ UNCHANGED <<win, jobs>>
      BY DEF TakeFrame
    <2>2. QED
      BY <1>7, <1>8, <1>9, <1>10, <1>11, <2>1

\* The page's other answers.
LEMMA AnswersKeepKeys ==
    ASSUME SealInv, KeysInv, NEW j \in jobs,
           \/ PeerComes(j) \/ InfoComes(j) \/ LoadComes(j) \/ LoadFails(j) \/ PanelComes(j)
           \/ UploadEnds(j) \/ ForwardSent(j)
    PROVE  KeysInv'
  <1>1. /\ DOMAIN win = WinFields /\ MailForGroup /\ OneAsk /\ KeysSoon
        /\ WinOK(win, log)
    BY DEF SealInv, WinOK, KeysInv
  <1>2. UNCHANGED <<role, keyed, mail>>
    BY DEF PeerComes, InfoComes, LoadComes, LoadFails, PanelComes, UploadEnds, ForwardSent,
           Keeps, groupvars
  <1>3. MailForGroup'
    BY <1>1, <1>2 DEF MailForGroup
  <1>4. ASSUME j.kind \notin {"keys", "info"}, jobs' = jobs \ {j}, win'.chat = "group" => SameKeys
        PROVE  KeysInv'
    BY <1>2, <1>4, OtherJobs, QuietStep
  <1>5. CASE PeerComes(j)
    <2>1. j.kind = "peer" /\ jobs' = jobs \ {j}
      BY <1>5 DEF PeerComes
    <2>2. \/ win' = win
          \/ win.chat = "direct"
             /\ \E s : win' = [win EXCEPT !.status = s]
      BY <1>5 DEF PeerComes
    <2>3. win'.chat = "group" => SameKeys
      BY <1>1, <2>2 DEF SameKeys, WinFields
    <2>4. QED
      BY <1>4, <2>1, <2>3
  <1>6. CASE InfoComes(j)
    <2>1. \/ jobs' = Rechecked(win.chat, jobs \ {j}) /\ win' = win
          \/ jobs' = jobs \ {j} /\ win' = Doubted("failed")
      BY <1>6 DEF InfoComes, InfoNews
    <2>2. CASE jobs' = Rechecked(win.chat, jobs \ {j}) /\ win' = win
      <3> DEFINE k == Job("keys", win.chat)
                 p == Job("peer", win.chat)
                 W == Without({"keys"}, jobs \ {j})
      <3>1. k.kind = "keys" /\ k.data = Nil /\ p.kind = "peer"
        BY DEF Job
      <3>2. /\ jobs' = W \cup KeyJobs(win.chat)
            /\ KeyJobs(win.chat) \in {{k}, {p}, {}}
            /\ win.chat = "group" => KeyJobs(win.chat) = {k}
        BY <2>2 DEF Rechecked, KeyJobs
      <3>3. \A i \in W : i.kind # "keys"
        BY DEF Without
      <3> HIDE DEF k, p, W
      <3>4. OneAsk'
        BY <3>1, <3>2, <3>3 DEF OneAsk, KeyAsks
      <3>5. win.chat = "group" => Asking("keys")' # {}
        BY <3>1, <3>2 DEF Asking
      <3>6. Excused
        BY <2>2, <3>5 DEF Excused, Watched, Pending
      <3>7. QED
        BY <1>3, <3>4, <3>6, ExcusedKeeps DEF KeysInv
    <2>3. CASE jobs' = jobs \ {j} /\ win' = Doubted("failed")
      <3>1. OneAsk'
        BY <1>1, <2>3 DEF OneAsk, KeyAsks
      <3>2. QED
        BY <1>1, <1>3, <2>3, <3>1, DoubtExcuses, ExcusedKeeps DEF KeysInv, Excused
    <2>4. QED
      BY <2>1, <2>2, <2>3
  <1>7. ASSUME NEW mem, NEW list, ListBecomes(mem, list, jobs \ {j}), j.kind = "load"
        PROVE  KeysInv'
    <2>1. SameKeys /\ KeyAsks' = AsksIn(jobs \ {j}) /\ Asking("info")' = InfosIn(jobs \ {j})
      BY <1>1, <1>7, ListIsCalm
    <2>2. KeyAsks' = KeyAsks /\ Asking("info")' = Asking("info")
      BY <1>7, <2>1 DEF AsksIn, InfosIn, KeyAsks, Asking
    <2>3. QED
      BY <1>2, <2>1, <2>2, QuietStep
  <1>8. CASE LoadComes(j)
    BY <1>7, <1>8 DEF LoadComes
  <1>9. CASE LoadFails(j)
    <2>1. /\ j.kind = "load"
          /\ \/ jobs' = jobs \ {j} /\ win' = win
             \/ ListBecomes(win.mem, <<>>, jobs \ {j})
      BY <1>9 DEF LoadFails
    <2>2. QED
      BY <1>4, <1>7, <2>1 DEF SameKeys
  <1>10. CASE PanelComes(j)
    <2>1. \/ /\ j.kind = "updated"
             /\ StartLoad("group", (jobs \ {j}) \cup {Job("info", "group")})
          \/ CloseChat(jobs \ {j})
      BY <1>10 DEF PanelComes
    <2>2. CASE j.kind = "updated" /\ StartLoad("group", (jobs \ {j}) \cup {Job("info", "group")})
      <3> DEFINE i == Job("info", "group")
                 J == (jobs \ {j}) \cup {i}
      <3>1. i.kind = "info" /\ i.data = Nil
        BY DEF Job
      <3>2. SameKeys /\ KeyAsks' = AsksIn(J) /\ Asking("info")' = InfosIn(J)
        BY <1>1, <2>2, LoadIsCalm
      <3> HIDE DEF i
      <3>3. AsksIn(J) = KeyAsks /\ Asking("info") \subseteq InfosIn(J)
        BY <2>2, <3>1 DEF AsksIn, InfosIn, KeyAsks, Asking
      <3>4. QED
        BY <1>2, <3>2, <3>3, QuietStep
    <2>3. CASE CloseChat(jobs \ {j})
      BY <1>3, <2>3, SwitchKeeps, ExcusedKeeps DEF KeysInv, CloseChat
    <2>4. QED
      BY <2>1, <2>2, <2>3
  <1>11. CASE UploadEnds(j)
    <2>1. j.kind = "upload" /\ jobs' = jobs \ {j} /\ win' = [win EXCEPT !.uploading = FALSE]
      BY <1>11 DEF UploadEnds
    <2>2. SameKeys
      BY <1>1, <2>1 DEF SameKeys, WinFields
    <2>3. QED
      BY <1>4, <2>1, <2>2
  <1>12. CASE ForwardSent(j)
    BY <1>4, <1>12 DEF ForwardSent, SameKeys
  <1>13. QED
    BY <1>5, <1>6, <1>8, <1>9, <1>10, <1>11, <1>12

\* The page's steps.
LEMMA PageKeepsKeys == SealInv /\ KeysInv /\ PageStep => KeysInv'
  <1> SUFFICES ASSUME SealInv, KeysInv, PageStep PROVE KeysInv'
    OBVIOUS
  <1>1. /\ DOMAIN win = WinFields /\ MailForGroup /\ OneAsk /\ KeysSoon
        /\ WinOK(win, log)
    BY DEF SealInv, WinOK, KeysInv
  <1>2. ASSUME NEW e, NEW c, Forward(e, c) PROVE KeysInv'
    <2> DEFINE j == [kind |-> "forward", chat |-> c, of |-> e]
    <2>1. j.kind = "forward" /\ jobs' = jobs \cup {j}
      BY <1>2 DEF Forward
    <2> HIDE DEF j
    <2>2. UNCHANGED <<role, keyed, mail, win>>
      BY <1>2 DEF Forward, Keeps, groupvars
    <2>3. KeyAsks' = KeyAsks /\ Asking("info")' = Asking("info")
      BY <2>1, OtherJobs
    <2>4. QED
      BY <2>2, <2>3, QuietStep DEF SameKeys
  <1>3. (MailForGroup' /\ NoneTold') \/ mail' # <<>>
    BY NoneIsSeq DEF MailForGroup, NoneTold
  <1>4. ASSUME NEW n, Cut(n) PROVE KeysInv'
    <2>1. UNCHANGED <<role, keyed, jobs>> /\ mail' = <<>>
      BY <1>4 DEF Cut, groupvars
    <2>2. (win' = win /\ NoneTold) \/ win' = Doubted("missed")
      BY <1>4 DEF Cut
    <2>3. OneAsk' /\ KeyAsks' = KeyAsks /\ Asking("info")' = Asking("info")
      BY <1>1, <2>1 DEF OneAsk, KeyAsks, Asking
    <2>4. CASE win' = win /\ NoneTold
      <3>1. Calm
        BY <2>1, <2>3, <2>4 DEF Calm, SameKeys
      <3>2. QED
        BY <1>1, <1>3, <2>1, <2>3, <3>1, CalmKeeps DEF KeysInv
    <2>5. CASE win' = Doubted("missed")
      BY <1>1, <1>3, <2>1, <2>3, <2>5, DoubtExcuses, ExcusedKeeps DEF KeysInv, Excused
    <2>6. QED
      BY <2>2, <2>4, <2>5
  <1>5. CASE Return
    <2>1. UNCHANGED <<role, keyed, mail>>
      BY <1>5 DEF Return, groupvars
    <2>2. \/ win' = win /\ jobs' = jobs
          \/ StartLoad(win.chat, jobs)
      BY <1>5 DEF Return
    <2>3. SameKeys /\ KeyAsks' = KeyAsks /\ Asking("info")' = Asking("info")
      BY <1>1, <2>2, LoadIsCalm DEF SameKeys, AsksIn, InfosIn, KeyAsks, Asking
    <2>4. QED
      BY <2>1, <2>3, QuietStep
  <1>6. CASE Die
    <2>1. win'.chat = Nil /\ win.chat # Nil /\ jobs' = {} /\ mail' = <<>>
      BY <1>6 DEF Die, Closed
    <2>2. OneAsk'
      BY <2>1 DEF OneAsk, KeyAsks
    <2>3. Excused
      BY <2>1, ComposerAssumption DEF Excused, Watched, Chats
    <2>4. QED
      BY <1>3, <2>1, <2>2, <2>3, ExcusedKeeps DEF KeysInv
  <1>7. QED
    BY <1>2, <1>4, <1>5, <1>6, FrameKeepsKeys, AnswersKeepKeys, KeysTaken DEF PageStep

\* At the start no chat is open.
LEMMA InitKeys == ComposerInit => KeysInv
  <1> SUFFICES ASSUME ComposerInit PROVE KeysInv
    OBVIOUS
  <1>1. jobs = {} /\ mail = <<>> /\ win.chat = Nil
    BY DEF ComposerInit, Closed
  <1>2. KeysSoon /\ OneAsk
    BY <1>1, ComposerAssumption DEF KeysSoon, Watched, OneAsk, KeyAsks, Chats
  <1>3. MailForGroup
    BY <1>1, NoneIsSeq DEF MailForGroup
  <1>4. QED
    BY <1>2, <1>3 DEF KeysInv

\* Once nothing is under way that will tell the page of its group, the keys it encrypts for are
\* those of the members, or it waits because somebody has none (GroupInfoPanel.tsx,
\* ChatWindow.tsx setStatusIfChanged).
THEOREM KeysAlwaysCurrent == ComposerSpec => []KeysAreCurrent
  <1>1. SealInv /\ KeysInv /\ [ComposerNext]_composervars => KeysInv'
    <2> SUFFICES ASSUME SealInv, KeysInv, [ComposerNext]_composervars PROVE KeysInv'
      OBVIOUS
    <2>1. CASE UNCHANGED composervars
      BY <2>1, QuietStep DEF composervars, groupvars, chatvars, SameKeys, KeyAsks, Asking
    <2>2. CASE ComposerNext
      BY <2>2, UserKeepsKeys, ServerKeepsKeys, PageKeepsKeys DEF ComposerNext
    <2>3. QED
      BY <2>1, <2>2
  <1>2. KeysInv => KeysAreCurrent
    <2> SUFFICES ASSUME KeysInv, win.chat = "group", Me \in Members, NoneTold,
                        Asking("info") = {}, \A j \in jobs : j.kind # "keys", win.doubt = {}
                 PROVE  Current
      BY DEF KeysAreCurrent, Current
    <2>1. KeyAsks = {} /\ Asking("keys") = {}
      BY DEF KeyAsks, Asking
    <2>2. QED
      BY <2>1 DEF KeysInv, KeysSoon, Watched, Pending
  <1>3. QED
    BY <1>1, <1>2, InitKeys, SealsStayTrue, PTL DEF ComposerSpec
=============================================================================
