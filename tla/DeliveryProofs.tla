--------------------------- MODULE DeliveryProofs ---------------------------
(***************************************************************************)
(* Proofs about Delivery and PresenceFanout, the two modules that run on   *)
(* the connections, for any users, any finite set of connections, any      *)
(* number of messages, any choice of who watches whom and any bound on the *)
(* work.                                                                   *)
(*                                                                         *)
(* That no message is lost is not inductive.  A send looks at presence     *)
(* before its transaction and again in the fan-out, a replay reads the     *)
(* queue and deletes all of it later: between the two looks the message is *)
(* nowhere.  The invariant says what carries it over: a connection that    *)
(* was open at the first look still is at the second and its user still    *)
(* online, a row that was not fetched waits for a fan-out that is still to *)
(* come.  A sweep that evicts the recipient breaks both: it is noted.      *)
(*                                                                         *)
(* That a view is current speaks only of users with nothing on its way to  *)
(* their watchers.  The invariant speaks of the others too: a view that is *)
(* out of date has a change of the same user behind it, a callback that    *)
(* still has to look for its audience or a frame for this very connection. *)
(* The callback finds the connection because presence and the registry     *)
(* agree on who is there, which is Connections' own invariant.             *)
(***************************************************************************)
EXTENDS Delivery, PresenceFanout, ConnectionsProofs

\* The messages NoLossWithoutCut speaks of.
Spared == Messages \ (System \cup cut \cup wiped)

\* Frames and replays are the recipient's, and a replay starts with its connection.
OwnWork ==
    /\ \A j \in jobs : j.to \in Mine
    /\ \A c \in Conns : replay[c].step # "idle" =>
          c \in Mine /\ pc[c] \notin {"closed", "admitted", "registered"}

\* A message under way that nothing cut: the connections that were open when it set out
\* still are, and if it is not queued there is one and presence knows of it.
WitnessesStay ==
    \A m \in OnTheirWay \ cut :
        /\ \A c \in witness[m] : c \in Mine /\ Open(c)
        /\ m \notin queued => witness[m] # {} /\ IsUserOnline(Recipient)

\* The fan-out of a message finds presence on and the socket of c in the registry.
Reachable(c) == pc[c] = "open" /\ IsUserOnline(Recipient)

\* A queued message before its fan-out: its row, a client that has it, or an open
\* connection that the fan-out will reach.
QueuedIsHeld ==
    \A m \in Spared :
        sends[m] = "stored" /\ m \in queued =>
            m \in unread \/ Reached(m) \/ \E c \in Mine : Reachable(c)

\* What a replay is about to delete, while the recipient was never evicted: rows it still
\* has to write, and rows stored since it fetched, whose fan-out is to come or whose
\* frames are in the pool.
ReplaysCover ==
    \A c \in Conns : replay[c].step = "writing" /\ pc[c] = "open" /\ Recipient \notin evicted =>
        \A m \in unread \cap Spared :
            m \in replay[c].rest \/ Reached(m) \/ Pending(m) \/ sends[m] = "stored"

SentIsHeld ==
    \A m \in Spared : sends[m] = "sent" => m \in unread \/ Reached(m) \/ Pending(m)

\* Every connection that witnessed the start of a send to an online user has the message
\* or a frame in the pool.
WitnessesAreServed ==
    \A m \in Messages \ (cut \cup queued) : sends[m] = "sent" =>
        \A c \in witness[m] : m \in got[c] \/ [to |-> c, msg |-> m] \in jobs

\* The connections underneath.
LinesInv == PresenceInv /\ RegistryIsExact

DeliveryInv ==
    /\ DeliveryTypeOK
    /\ LinesInv
    /\ OwnWork
    /\ WitnessesStay
    /\ QueuedIsHeld
    /\ ReplaysCover
    /\ SentIsHeld
    /\ WitnessesAreServed
    /\ read <= delivered

----------------------------------------------------------------------------
(* The connections underneath.                                             *)

\* Every step of Delivery is a step of Connections or leaves them alone.
LEMMA StepsOfConnections == [DeliveryNext]_dvars => [ConnNext]_cvars
  <1> SUFFICES ASSUME [DeliveryNext]_dvars
               PROVE  [ConnNext]_cvars
    OBVIOUS
  <1>1. ASSUME PresenceMoves \/ \E c \in Conns : LineBreaks(c)
        PROVE  ConnNext
    BY <1>1 DEF LineBreaks, PresenceMoves, OtherConnStep, ConnNext, ConnStep
  <1>2. CASE UNCHANGED cvars
    BY <1>2 DEF cvars
  <1>3. CASE UNCHANGED dvars
    BY <1>3 DEF dvars, cvars
  <1>4. QED
    BY <1>1, <1>2, <1>3
    DEF DeliveryNext, CheckPresence, Store, StoreFails, PostCallMessage, QueueCallMessage,
        Broadcast, BroadcastFails, WriteLive, FetchUnread, ReplayOne, ClearReplayed,
        LoadMessages, MarkDelivered, MarkRead

\* What Connections keeps, Delivery keeps.
LEMMA LinesInductive == LinesInv /\ [DeliveryNext]_dvars => LinesInv'
  BY StepsOfConnections, PresenceInductive, RegistryInductive DEF LinesInv, PresenceInv

\* The specification of the connections is implemented, whatever messages do.
THEOREM DeliveryRefinesConnections == DeliverySpec => ConnSpec
  <1>1. DeliveryInit => ConnInit
    BY DEF DeliveryInit
  <1>2. [DeliveryNext]_dvars => [ConnNext]_cvars
    BY StepsOfConnections
  <1>3. QED
    BY <1>1, <1>2, PTL DEF DeliverySpec, ConnSpec

\* An open connection is in the registry, and presence says that its user is online,
\* unless the sweep ever said otherwise.
LEMMA OpenIsReached ==
    ASSUME LinesInv, NEW c \in Mine, pc[c] = "open"
    PROVE  /\ c \in clients[Recipient]
           /\ Recipient \notin evicted => IsUserOnline(Recipient)
  <1>1. c \in clients[Recipient]
    BY DeliveryAssumption DEF LinesInv, RegistryIsExact, Mine
  <1>2. c \in Counted(Recipient)
    BY DEF Mine, Counted, CountedPhases
  <1>3. IsFiniteSet(Counted(Recipient)) /\ Cardinality(Counted(Recipient)) \in Nat
    BY CountedFinite, DeliveryAssumption
  <1>4. Cardinality(Counted(Recipient)) # 0
    BY <1>2, <1>3, FS_EmptySet
  <1>5. Recipient \notin evicted => status[Recipient].conns = Cardinality(Counted(Recipient))
    BY DeliveryAssumption DEF LinesInv, PresenceInv, Exact
  <1>6. IsUserOnline(Recipient) <=> status[Recipient].conns > 0
    BY DeliveryAssumption DEF LinesInv, PresenceInv, Backing
  <1>7. QED
    BY <1>1, <1>3, <1>4, <1>5, <1>6

----------------------------------------------------------------------------
(* Type correctness.                                                       *)

\* The recipient's connections are connections, and a registry entry is one.
LEMMA MineType == Mine \subseteq Conns /\ Messages \subseteq Nat
  BY DeliveryAssumption DEF Mine, ConnsOf, Messages

\* A frame that is written, or lost, leaves the types as they are.
LEMMA WriteType ==
    ASSUME DeliveryTypeOK, NEW c \in Conns, NEW m \in Messages, Write(c, m)
    PROVE  got' \in [Conns -> SUBSET Messages] /\ cut' \in SUBSET Messages
  <1> DEFINE more == got[c] \cup {m}
  <1>1. more \in SUBSET Messages /\ cut \cup {m} \in SUBSET Messages
    BY DEF DeliveryTypeOK
  <1>2. \/ got' = [got EXCEPT ![c] = more] /\ cut' = cut
        \/ cut' = cut \cup {m} /\ got' = got
    BY DEF Write, Receive
  <1> HIDE DEF more
  <1>3. QED
    BY <1>1, <1>2 DEF DeliveryTypeOK

\* Every step of a send, a replay or a client keeps the types.
LEMMA DeliveryTypeInductive == DeliveryTypeOK /\ [DeliveryNext]_dvars => DeliveryTypeOK'
  <1> SUFFICES ASSUME DeliveryTypeOK, [DeliveryNext]_dvars
               PROVE  DeliveryTypeOK'
    OBVIOUS
  <1> USE MineType, DeliveryAssumption
  <1>0. ConnTypeOK'
    BY StepsOfConnections, TypeInductive DEF DeliveryTypeOK
  <1>1. ASSUME NEW m \in Messages, CheckPresence(m)
        PROVE  DeliveryTypeOK'
    <2> DEFINE readers == {c \in Mine : Open(c)}
    <2>1. readers \in SUBSET Conns
      OBVIOUS
    <2>2. witness' = [witness EXCEPT ![m] = readers]
      BY <1>1 DEF CheckPresence
    <2> HIDE DEF readers
    <2>3. witness' \in [Messages -> SUBSET Conns]
      BY <2>1, <2>2 DEF DeliveryTypeOK
    <2>4. sends' \in [Messages -> Steps] /\ queued' \in SUBSET Messages /\ cut' \in SUBSET Messages
      BY <1>1 DEF CheckPresence, DeliveryTypeOK, Advance, Steps
    <2>5. QED
      BY <1>0, <1>1, <2>3, <2>4 DEF CheckPresence, DeliveryTypeOK, receiptVars
  <1>2. ASSUME NEW m \in Messages,
               Store(m) \/ StoreFails(m) \/ PostCallMessage(m) \/ QueueCallMessage(m)
                   \/ BroadcastFails(m)
        PROVE  DeliveryTypeOK'
    BY <1>0, <1>2 DEF Store, StoreFails, PostCallMessage, QueueCallMessage, BroadcastFails,
                      DeliveryTypeOK, Advance, Steps, receiptVars
  <1>3. ASSUME NEW m \in Messages, Broadcast(m)
        PROVE  DeliveryTypeOK'
    <2>1. [to : clients[Recipient], msg : {m}] \subseteq Job
      BY DEF DeliveryTypeOK, ConnTypeOK, Job
    <2>2. jobs' \in SUBSET Job
      BY <1>3, <2>1 DEF Broadcast, DeliveryTypeOK
    <2>3. QED
      BY <1>0, <1>3, <2>2 DEF Broadcast, DeliveryTypeOK, Advance, Steps, receiptVars
  <1>4. ASSUME NEW j \in jobs, WriteLive(j)
        PROVE  DeliveryTypeOK'
    <2>1. j.to \in Conns /\ j.msg \in Messages
      BY DEF DeliveryTypeOK, Job
    <2>2. got' \in [Conns -> SUBSET Messages] /\ cut' \in SUBSET Messages
      BY <1>4, <2>1, WriteType DEF WriteLive
    <2>3. QED
      BY <1>0, <1>4, <2>2 DEF WriteLive, DeliveryTypeOK, receiptVars
  <1>5. ASSUME NEW c \in Conns, NEW step \in {"idle", "writing", "done"},
               NEW rest \in SUBSET Messages, SetReplay(c, step, rest)
        PROVE  replay' \in [Conns -> Replay]
    BY <1>5 DEF SetReplay, Replay, DeliveryTypeOK
  <1>6. ASSUME NEW c \in Conns, FetchUnread(c)
        PROVE  DeliveryTypeOK'
    <2>1. replay' \in [Conns -> Replay]
      BY <1>5, <1>6 DEF FetchUnread, DeliveryTypeOK
    <2>2. QED
      BY <1>0, <1>6, <2>1 DEF FetchUnread, DeliveryTypeOK, receiptVars, sendVars
  <1>7. ASSUME NEW c \in Conns, ReplayOne(c)
        PROVE  DeliveryTypeOK'
    <2>1. PICK m \in replay[c].rest :
              /\ SetReplay(c, "writing", replay[c].rest \ {m})
              /\ IF m \in System THEN UNCHANGED <<got, cut>> ELSE Write(c, m)
      BY <1>7 DEF ReplayOne
    <2>2. replay[c].rest \in SUBSET Messages
      BY DEF DeliveryTypeOK, Replay
    <2>3. replay' \in [Conns -> Replay]
      BY <1>5, <2>1, <2>2
    <2>4. got' \in [Conns -> SUBSET Messages] /\ cut' \in SUBSET Messages
      BY <2>1, <2>2, WriteType DEF DeliveryTypeOK
    <2>5. QED
      BY <1>0, <1>7, <2>3, <2>4 DEF ReplayOne, DeliveryTypeOK, receiptVars, sendVars
  <1>8. ASSUME NEW c \in Conns, ClearReplayed(c)
        PROVE  DeliveryTypeOK'
    <2>1. replay' \in [Conns -> Replay]
      BY <1>5, <1>8 DEF ClearReplayed
    <2>2. QED
      BY <1>0, <1>8, <2>1 DEF ClearReplayed, DeliveryTypeOK, receiptVars, sendVars
  <1>9. ASSUME NEW c \in Conns, LoadMessages(c)
        PROVE  DeliveryTypeOK'
    BY <1>0, <1>9 DEF LoadMessages, Receive, Stored, DeliveryTypeOK, receiptVars, sendVars
  <1>10. ASSUME NEW c \in Conns, NEW m \in Messages, MarkDelivered(c, m) \/ MarkRead(c, m)
         PROVE  DeliveryTypeOK'
    <2>1. \A n \in 0..LastId : Bump(n, m) \in 0..LastId
      BY DEF Bump, Highest, Messages
    <2>2. QED
      BY <1>0, <1>10, <2>1 DEF MarkDelivered, MarkRead, DeliveryTypeOK, receiptVars, sendVars
  <1>11. ASSUME (\E c \in Conns : LineBreaks(c)) \/ PresenceMoves
         PROVE  DeliveryTypeOK'
    <2>1. OnTheirWay \in SUBSET Messages
      BY DEF OnTheirWay
    <2>2. QED
      BY <1>0, <1>11, <2>1 DEF LineBreaks, PresenceMoves, DeliveryTypeOK, receiptVars, sendVars
  <1>12. CASE UNCHANGED dvars
    BY <1>0, <1>12 DEF dvars, DeliveryTypeOK
  <1>13. QED
    BY <1>1, <1>2, <1>3, <1>4, <1>6, <1>7, <1>8, <1>9, <1>10, <1>11, <1>12 DEF DeliveryNext

----------------------------------------------------------------------------
(* What a step may do, seen from one part of the invariant at a time.      *)

\* A client never loses a message, and what is noted as cut or wiped stays noted.
LEMMA OnlyGrows ==
    ASSUME DeliveryTypeOK, [DeliveryNext]_dvars
    PROVE  /\ \A c \in Conns : got[c] \subseteq got'[c]
           /\ cut \subseteq cut' /\ wiped \subseteq wiped'
  <1> USE MineType DEF DeliveryTypeOK
  <1>1. ASSUME NEW c \in Conns, NEW ms, Receive(c, ms)
        PROVE  \A d \in Conns : got[d] \subseteq got'[d]
    BY <1>1 DEF Receive
  <1>2. ASSUME NEW c \in Conns, NEW m, Write(c, m)
        PROVE  (\A d \in Conns : got[d] \subseteq got'[d]) /\ cut \subseteq cut'
    BY <1>1, <1>2 DEF Write
  <1>3. ASSUME NEW m \in Messages,
               CheckPresence(m) \/ Store(m) \/ StoreFails(m) \/ PostCallMessage(m)
                   \/ QueueCallMessage(m) \/ Broadcast(m) \/ BroadcastFails(m)
        PROVE  got' = got /\ wiped' = wiped /\ cut \subseteq cut'
    BY <1>3 DEF CheckPresence, Store, StoreFails, PostCallMessage, QueueCallMessage,
                Broadcast, BroadcastFails
  <1>4. ASSUME NEW j \in jobs, WriteLive(j)
        PROVE  (\A d \in Conns : got[d] \subseteq got'[d]) /\ cut \subseteq cut' /\ wiped' = wiped
    BY <1>2, <1>4 DEF WriteLive, Job
  <1>5. ASSUME NEW c \in Conns, ReplayOne(c)
        PROVE  (\A d \in Conns : got[d] \subseteq got'[d]) /\ cut \subseteq cut' /\ wiped' = wiped
    BY <1>2, <1>5 DEF ReplayOne
  <1>6. ASSUME NEW c \in Conns, FetchUnread(c) \/ ClearReplayed(c)
        PROVE  got' = got /\ wiped \subseteq wiped' /\ cut \subseteq cut'
    BY <1>6 DEF FetchUnread, ClearReplayed
  <1>7. ASSUME NEW c \in Conns, LoadMessages(c)
        PROVE  (\A d \in Conns : got[d] \subseteq got'[d]) /\ cut' = cut /\ wiped' = wiped
    BY <1>1, <1>7 DEF LoadMessages
  <1>8. ASSUME NEW c \in Conns, NEW m \in Messages, MarkDelivered(c, m) \/ MarkRead(c, m)
        PROVE  got' = got /\ cut' = cut /\ wiped \subseteq wiped'
    BY <1>8 DEF MarkDelivered, MarkRead
  <1>9. ASSUME (\E c \in Conns : LineBreaks(c)) \/ PresenceMoves
        PROVE  got' = got /\ wiped' = wiped /\ cut \subseteq cut'
    BY <1>9 DEF LineBreaks, PresenceMoves
  <1>10. CASE UNCHANGED dvars
    BY <1>10 DEF dvars
  <1>11. QED
    BY <1>3, <1>4, <1>5, <1>6, <1>7, <1>8, <1>9, <1>10 DEF DeliveryNext

\* So a message that reached a client stays reached, and the spared ones only get fewer.
LEMMA ReachedStays ==
    ASSUME DeliveryTypeOK, [DeliveryNext]_dvars
    PROVE  /\ \A m \in Messages : Reached(m) => Reached(m)'
           /\ Spared' \subseteq Spared
  BY OnlyGrows, MineType DEF Reached, Spared

\* The connections stay put unless a line breaks or a connection step is taken.
LEMMA LinesStay ==
    ASSUME [DeliveryNext]_dvars
    PROVE  \/ UNCHANGED cvars
           \/ PresenceMoves
           \/ \E c \in Conns : LineBreaks(c)
  BY DEF DeliveryNext, dvars, cvars, CheckPresence, Store, StoreFails, PostCallMessage,
         QueueCallMessage, Broadcast, BroadcastFails, WriteLive, FetchUnread, ReplayOne,
         ClearReplayed, LoadMessages, MarkDelivered, MarkRead

\* Those steps leave the phases of connections that are open, or were never counted.
LEMMA PhasesMove ==
    ASSUME DeliveryTypeOK, PresenceMoves, NEW c \in Conns
    PROVE  /\ pc[c] = "open" => pc'[c] = "open" /\ (c \in wired => c \in wired')
           /\ pc'[c] \in {"closed", "admitted", "registered"} =>
                 pc[c] \in {"closed", "admitted", "registered"}
           /\ pc'[c] = "open" => pc[c] \in {"open", "registered"}
  BY DEF PresenceMoves, OtherConnStep, CheckConnectionLimit, UpgradeFails, Register, UserConnected,
         Stall, Resume, UpdateActivity, CheckLastConnection, EndCall, UserDisconnected, GrowOld,
         CleanupInactiveUsers, connVars, Goto, DeliveryTypeOK, ConnTypeOK

\* How a connection of the recipient's may stop being open: its line breaks, and everything
\* under way is noted as cut.
LEMMA OpenStays ==
    ASSUME DeliveryTypeOK, [DeliveryNext]_dvars, NEW c \in Mine, pc[c] = "open"
    PROVE  \/ pc'[c] = "open" /\ (c \in wired => c \in wired')
           \/ OnTheirWay \subseteq cut'
  <1> USE MineType
  <1>1. CASE UNCHANGED cvars
    BY <1>1 DEF cvars
  <1>2. ASSUME NEW d \in Conns, LineBreaks(d)
        PROVE  \/ pc'[c] = "open" /\ (c \in wired => c \in wired')
               \/ OnTheirWay \subseteq cut'
    BY <1>2 DEF LineBreaks, Drop, RemoveClient, Goto, DeliveryTypeOK, ConnTypeOK
  <1>3. CASE PresenceMoves
    BY <1>3, PhasesMove
  <1>4. QED
    BY <1>1, <1>2, <1>3, LinesStay

\* How presence may fall for the recipient: everything under way is noted as cut.
LEMMA OnlineStays ==
    ASSUME [DeliveryNext]_dvars, IsUserOnline(Recipient)
    PROVE  IsUserOnline(Recipient)' \/ OnTheirWay \subseteq cut'
  <1>1. CASE UNCHANGED cvars
    BY <1>1 DEF cvars, IsUserOnline
  <1>2. ASSUME NEW d \in Conns, LineBreaks(d)
        PROVE  IsUserOnline(Recipient)'
    BY <1>2 DEF LineBreaks, Drop, RemoveClient, presenceVars, IsUserOnline
  <1>3. CASE PresenceMoves
    BY <1>3 DEF PresenceMoves, IsUserOnline
  <1>4. QED
    BY <1>1, <1>2, <1>3, LinesStay

\* Who was evicted stays noted.
LEMMA EvictedStay ==
    ASSUME [DeliveryNext]_dvars
    PROVE  evicted \subseteq evicted'
  <1>1. CASE UNCHANGED cvars
    BY <1>1 DEF cvars
  <1>2. ASSUME NEW d \in Conns, LineBreaks(d)
        PROVE  evicted' = evicted
    BY <1>2 DEF LineBreaks, Drop, RemoveClient, presenceVars
  <1>3. CASE PresenceMoves
    BY <1>3 DEF PresenceMoves, OtherConnStep, CheckConnectionLimit, UpgradeFails, Register,
                UserConnected, Stall, Resume, UpdateActivity, CheckLastConnection, EndCall,
                UserDisconnected, GrowOld, CleanupInactiveUsers, presenceVars
  <1>4. QED
    BY <1>1, <1>2, <1>3, LinesStay

----------------------------------------------------------------------------
(* The parts of the invariant, one by one.                                 *)

\* Only the fan-out adds frames, for the registry of the recipient; a replay is
\* started for a connection that presence counts, and phases do not go back.
LEMMA OwnWorkKept ==
    ASSUME DeliveryInv, [DeliveryNext]_dvars
    PROVE  OwnWork'
  <1> USE MineType DEF DeliveryInv, DeliveryTypeOK, ConnTypeOK
  <1>1. clients[Recipient] \subseteq Mine
    BY DeliveryAssumption DEF LinesInv, RegistryIsExact, Mine
  <1>2. \A j \in jobs' : j.to \in Mine
    <2>1. jobs' \subseteq jobs \/ \E m \in Messages : Broadcast(m)
      BY DEF DeliveryNext, dvars, CheckPresence, Store, StoreFails, PostCallMessage,
             QueueCallMessage, BroadcastFails, WriteLive, FetchUnread, ReplayOne, ClearReplayed,
             LoadMessages, MarkDelivered, MarkRead, LineBreaks, PresenceMoves, sendVars
    <2>2. ASSUME NEW m \in Messages, Broadcast(m)
          PROVE  \A j \in jobs' : j.to \in Mine
      BY <1>1, <2>2 DEF Broadcast, OwnWork
    <2>3. QED
      BY <2>1, <2>2 DEF OwnWork
  <1>3. ASSUME NEW c \in Conns, replay'[c].step # "idle"
        PROVE  c \in Mine /\ pc'[c] \notin {"closed", "admitted", "registered"}
    <2>1. replay'[c] = replay[c] \/ FetchUnread(c) \/ ReplayOne(c) \/ ClearReplayed(c)
      BY DEF DeliveryNext, dvars, CheckPresence, Store, StoreFails, PostCallMessage,
             QueueCallMessage, Broadcast, BroadcastFails, WriteLive, FetchUnread, ReplayOne,
             ClearReplayed, LoadMessages, MarkDelivered, MarkRead, LineBreaks, PresenceMoves,
             SetReplay
    <2>2. c \in Mine /\ pc[c] \notin {"closed", "admitted", "registered"}
      BY <1>3, <2>1 DEF OwnWork, FetchUnread, ReplayOne, ClearReplayed, CountedPhases
    <2>3. CASE UNCHANGED cvars
      BY <2>2, <2>3 DEF cvars
    <2>4. ASSUME NEW d \in Conns, LineBreaks(d)
          PROVE  pc'[c] \notin {"closed", "admitted", "registered"}
      BY <2>2, <2>4 DEF LineBreaks, Drop, RemoveClient, Goto
    <2>5. CASE PresenceMoves
      BY <2>2, <2>5, PhasesMove
    <2>6. QED
      BY <2>2, <2>3, <2>4, <2>5, LinesStay
  <1>4. QED
    BY <1>2, <1>3 DEF OwnWork, Mine, ConnsOf

\* A send sets out with witnesses or with a queued row, and what breaks that cuts it.
LEMMA WitnessesStayKept ==
    ASSUME DeliveryInv, [DeliveryNext]_dvars
    PROVE  WitnessesStay'
  <1> SUFFICES ASSUME NEW m \in Messages, m \notin cut', m \in OnTheirWay'
               PROVE  /\ \A c \in witness'[m] : c \in Mine /\ pc'[c] = "open" /\ c \in wired'
                      /\ m \notin queued' => witness'[m] # {} /\ IsUserOnline(Recipient)'
    BY DEF WitnessesStay, Mine, ConnsOf, Messages, OnTheirWay, Open
  <1> USE DEF DeliveryInv
  <1>1. m \notin cut
    BY OnlyGrows
  <1>2. CASE CheckPresence(m)
    <2>1. /\ witness'[m] = {c \in Mine : Open(c)}
          /\ UNCHANGED <<pc, wired>> /\ IsUserOnline(Recipient)' = IsUserOnline(Recipient)
      BY <1>2 DEF CheckPresence, DeliveryTypeOK, cvars, IsUserOnline
    <2>2. m \notin queued' => IsUserOnline(Recipient) /\ \E c \in Mine : Open(c)
      BY <1>1, <1>2 DEF CheckPresence, DeliveryTypeOK
    <2>3. QED
      BY <2>1, <2>2 DEF Open
  <1>3. CASE ~CheckPresence(m)
    <2>1. /\ m \in OnTheirWay
          /\ witness'[m] = witness[m]
          /\ m \in queued' <=> m \in queued
      BY <1>3 DEF DeliveryNext, dvars, CheckPresence, Store, StoreFails, PostCallMessage,
             QueueCallMessage, Broadcast, BroadcastFails, WriteLive, FetchUnread, ReplayOne,
             ClearReplayed, LoadMessages, MarkDelivered, MarkRead, LineBreaks, PresenceMoves,
             sendVars, Advance, OnTheirWay, DeliveryTypeOK
    <2>2. /\ \A c \in witness[m] : c \in Mine /\ pc[c] = "open" /\ c \in wired
          /\ m \notin queued => witness[m] # {} /\ IsUserOnline(Recipient)
      BY <1>1, <2>1 DEF WitnessesStay, Open
    <2>3. \A c \in witness[m] : pc'[c] = "open" /\ c \in wired'
      BY <2>1, <2>2, OpenStays
    <2>4. m \notin queued => IsUserOnline(Recipient)'
      BY <2>1, <2>2, OnlineStays
    <2>5. QED
      BY <2>1, <2>2, <2>3, <2>4
  <1>4. QED
    BY <1>2, <1>3

\* A frame leaves the pool for the client it was made for, or into a broken line.
LEMMA JobLands ==
    ASSUME DeliveryTypeOK, OwnWork, [DeliveryNext]_dvars, NEW j \in jobs, j \notin jobs',
           j.msg \notin cut'
    PROVE  j.to \in Mine /\ j.msg \in got'[j.to]
  <1>1. WriteLive(j)
    BY DEF DeliveryNext, dvars, CheckPresence, Store, StoreFails, PostCallMessage,
           QueueCallMessage, Broadcast, BroadcastFails, WriteLive, FetchUnread, ReplayOne,
           ClearReplayed, LoadMessages, MarkDelivered, MarkRead, LineBreaks, PresenceMoves,
           sendVars
  <1>2. j.to \in Conns /\ j.to \in Mine
    BY DEF OwnWork, DeliveryTypeOK, Job
  <1>3. QED
    BY <1>1, <1>2 DEF WriteLive, Write, Receive, DeliveryTypeOK

\* So a message with a frame in the pool keeps one or reaches a client.
LEMMA PendingLands ==
    ASSUME DeliveryTypeOK, OwnWork, [DeliveryNext]_dvars, NEW m \in Messages, Pending(m),
           m \notin cut'
    PROVE  Pending(m)' \/ Reached(m)'
  <1>1. PICK j \in jobs : j.msg = m
    BY DEF Pending
  <1>2. CASE j \in jobs'
    BY <1>1, <1>2 DEF Pending
  <1>3. CASE j \notin jobs'
    <2>1. j.to \in Mine /\ m \in got'[j.to]
      BY <1>1, <1>3, JobLands
    <2>2. QED
      BY <2>1 DEF Reached, Mine, ConnsOf
  <1>4. QED
    BY <1>2, <1>3

\* A row leaves the queue because its client says it was read, or with all the others at
\* the end of an open connection's replay.
LEMMA RowsLeave ==
    ASSUME DeliveryTypeOK, OwnWork, [DeliveryNext]_dvars, NEW m \in unread, m \notin unread',
           m \notin wiped'
    PROVE  \/ Reached(m)
           \/ \E c \in Mine : /\ replay[c].step = "writing" /\ replay[c].rest = {}
                              /\ pc[c] = "open" /\ Recipient \notin evicted
                              /\ UNCHANGED <<cvars, sends, jobs>>
  <1>1. \/ \E c \in Conns, n \in Messages : MarkRead(c, n)
        \/ \E c \in Conns : ClearReplayed(c)
    BY DEF DeliveryNext, dvars, CheckPresence, Store, StoreFails, PostCallMessage,
           QueueCallMessage, Broadcast, BroadcastFails, WriteLive, FetchUnread, ReplayOne,
           LoadMessages, MarkDelivered, LineBreaks, PresenceMoves
  <1>2. ASSUME NEW c \in Conns, NEW n \in Messages, MarkRead(c, n)
        PROVE  Reached(m)
    BY <1>2 DEF MarkRead, Reached
  <1>3. ASSUME NEW c \in Conns, ClearReplayed(c)
        PROVE  /\ c \in Mine /\ replay[c].step = "writing" /\ replay[c].rest = {}
               /\ pc[c] = "open"
               /\ Recipient \in evicted => Reached(m)
               /\ UNCHANGED <<cvars, sends, jobs>>
    <2>1. c \in Mine /\ replay[c].step = "writing" /\ replay[c].rest = {}
      BY <1>3 DEF ClearReplayed, OwnWork
    <2>2. pc[c] = "open" /\ (Recipient \in evicted => m \in got[c])
      BY <1>3 DEF ClearReplayed
    <2>3. QED
      BY <1>3, <2>1, <2>2 DEF ClearReplayed, sendVars, Reached
  <1>4. QED
    BY <1>1, <1>2, <1>3

\* The fan-out of a message puts a frame in the pool for every open connection while
\* presence is on.
LEMMA BroadcastReaches ==
    ASSUME LinesInv, NEW m \in Messages, Broadcast(m), NEW c \in Mine, Reachable(c)
    PROVE  [to |-> c, msg |-> m] \in jobs' /\ Pending(m)'
  <1>1. c \in clients[Recipient] /\ IsUserOnline(Recipient)
    BY OpenIsReached DEF Reachable
  <1>2. [to |-> c, msg |-> m] \in jobs'
    BY <1>1 DEF Broadcast
  <1>3. QED
    BY <1>2 DEF Pending

\* How a send comes to be stored, or sent.
LEMMA SendAdvances ==
    ASSUME DeliveryTypeOK, [DeliveryNext]_dvars, NEW m \in Messages, m \notin cut',
           sends'[m] # sends[m]
    PROVE  /\ sends'[m] = "stored" => /\ m \in queued => m \in unread'
                                      /\ queued' = queued
           /\ sends'[m] = "sent" => Broadcast(m) /\ sends[m] = "stored"
           /\ sends[m] = "stored" => Broadcast(m)
  <1>1. ASSUME NEW n \in Messages, n # m, NEW step, Advance(n, step)
        PROVE  FALSE
    BY <1>1 DEF Advance, DeliveryTypeOK
  <1>2. \/ CheckPresence(m) \/ Store(m) \/ StoreFails(m) \/ PostCallMessage(m)
        \/ QueueCallMessage(m) \/ Broadcast(m) \/ BroadcastFails(m)
    BY <1>1 DEF DeliveryNext, dvars, CheckPresence, Store, StoreFails, PostCallMessage,
           QueueCallMessage, Broadcast, BroadcastFails, WriteLive, FetchUnread, ReplayOne,
           ClearReplayed, LoadMessages, MarkDelivered, MarkRead, LineBreaks, PresenceMoves,
           sendVars
  <1>3. ~BroadcastFails(m)
    BY DEF BroadcastFails
  <1>4. QED
    BY <1>2, <1>3 DEF CheckPresence, Store, StoreFails, PostCallMessage,
           QueueCallMessage, Broadcast, Advance, DeliveryTypeOK

\* A queued message keeps a row, a client or an open connection until its fan-out.
LEMMA QueuedIsHeldKept ==
    ASSUME DeliveryInv, [DeliveryNext]_dvars
    PROVE  QueuedIsHeld'
  <1> SUFFICES ASSUME NEW m \in Spared', sends'[m] = "stored", m \in queued'
               PROVE  m \in unread' \/ Reached(m)' \/ \E c \in Mine : Reachable(c)'
    BY DEF QueuedIsHeld, Mine, ConnsOf
  <1> USE DEF DeliveryInv
  <1>1. m \in Spared /\ m \in Messages /\ m \notin cut' /\ m \notin wiped'
    BY ReachedStays DEF Spared, Messages
  <1>2. CASE sends[m] # "stored"
    BY <1>1, <1>2, SendAdvances
  <1>3. CASE sends[m] = "stored"
    <2>1. m \in queued
      BY <1>3 DEF DeliveryNext, dvars, CheckPresence, Store, StoreFails, PostCallMessage,
             QueueCallMessage, Broadcast, BroadcastFails, WriteLive, FetchUnread, ReplayOne,
             ClearReplayed, LoadMessages, MarkDelivered, MarkRead, LineBreaks, PresenceMoves,
             sendVars, Advance, DeliveryTypeOK
    <2>2. ASSUME NEW c \in Mine, Reachable(c)
          PROVE  Reachable(c)'
      <3>1. m \in OnTheirWay
        BY <1>1, <1>3 DEF OnTheirWay
      <3>2. QED
        BY <1>1, <2>2, <3>1, OpenStays, OnlineStays DEF Reachable
    <2>3. m \in unread \/ Reached(m) \/ \E c \in Mine : Reachable(c)
      BY <1>1, <1>3, <2>1 DEF QueuedIsHeld
    <2>4. m \in unread /\ m \notin unread' => Reached(m) \/ \E c \in Mine : Reachable(c)
      BY <1>1, RowsLeave, OpenIsReached DEF Reachable
    <2>5. QED
      BY <1>1, <2>2, <2>3, <2>4, ReachedStays
  <1>4. QED
    BY <1>2, <1>3

\* What a replay will delete stays covered: a new row's fan-out is still to come, and
\* that fan-out reaches the replaying connection.
LEMMA ReplaysCoverKept ==
    ASSUME DeliveryInv, [DeliveryNext]_dvars
    PROVE  ReplaysCover'
  <1> SUFFICES ASSUME NEW c \in Conns, replay'[c].step = "writing", pc'[c] = "open",
                      Recipient \notin evicted', NEW m \in unread', m \in Spared'
               PROVE  \/ m \in replay'[c].rest \/ Reached(m)' \/ Pending(m)'
                      \/ sends'[m] = "stored"
    BY DEF ReplaysCover
  <1> USE DEF DeliveryInv
  <1>0. Recipient \notin evicted
    BY EvictedStay
  <1>1. m \in Spared /\ m \in Messages /\ m \notin System /\ m \notin cut' /\ m \notin wiped'
    BY ReachedStays DEF Spared, Messages
  <1>2. CASE FetchUnread(c)
    BY <1>2 DEF FetchUnread, SetReplay, DeliveryTypeOK
  <1>3. ASSUME ~FetchUnread(c)
        PROVE  /\ c \in Mine /\ replay[c].step = "writing" /\ pc[c] = "open"
               /\ \/ replay'[c] = replay[c]
                  \/ /\ ReplayOne(c)
                     /\ m \in replay[c].rest => m \in replay'[c].rest \/ Write(c, m)
    <2>1. replay'[c] = replay[c] \/ ReplayOne(c) \/ ClearReplayed(c)
      BY <1>3 DEF DeliveryNext, dvars, CheckPresence, Store, StoreFails, PostCallMessage,
             QueueCallMessage, Broadcast, BroadcastFails, WriteLive, FetchUnread, ReplayOne,
             ClearReplayed, LoadMessages, MarkDelivered, MarkRead, LineBreaks, PresenceMoves,
             SetReplay, DeliveryTypeOK
    <2>2. ~ClearReplayed(c)
      BY DEF ClearReplayed, SetReplay, DeliveryTypeOK
    <2>3. replay[c].step = "writing"
      BY <2>1, <2>2 DEF ReplayOne
    <2>4. c \in Mine /\ pc[c] \notin {"closed", "admitted", "registered"}
      BY <2>3 DEF OwnWork
    <2>5. ASSUME UNCHANGED cvars
          PROVE  pc[c] = "open"
      BY <2>5 DEF cvars
    <2>6. /\ \A d \in Conns : LineBreaks(d) => pc[c] = "open"
          /\ PresenceMoves => pc[c] = "open"
      <3>1. ASSUME NEW d \in Conns, LineBreaks(d)
            PROVE  pc[c] = "open"
        BY <2>4, <3>1 DEF LineBreaks, Drop, RemoveClient, Goto, DeliveryTypeOK, ConnTypeOK
      <3>2. CASE PresenceMoves
        BY <2>4, <3>2, PhasesMove
      <3>3. QED
        BY <3>1, <3>2
    <2>7. pc[c] = "open"
      BY <2>5, <2>6, LinesStay
    <2>8. ReplayOne(c) /\ m \in replay[c].rest => m \in replay'[c].rest \/ Write(c, m)
      BY <1>1 DEF ReplayOne, SetReplay, DeliveryTypeOK
    <2>9. QED
      BY <2>1, <2>2, <2>3, <2>4, <2>7, <2>8
  <1>4. CASE ~FetchUnread(c) /\ m \notin unread
    <2>1. sends'[m] = "stored"
      BY <1>4 DEF DeliveryNext, dvars, CheckPresence, Store, StoreFails, PostCallMessage,
             QueueCallMessage, Broadcast, BroadcastFails, WriteLive, FetchUnread, ReplayOne,
             ClearReplayed, LoadMessages, MarkDelivered, MarkRead, LineBreaks, PresenceMoves,
             Advance, DeliveryTypeOK
    <2>2. QED
      BY <2>1
  <1>5. CASE ~FetchUnread(c) /\ m \in unread
    <2>1. m \in replay[c].rest \/ Reached(m) \/ Pending(m) \/ sends[m] = "stored"
      BY <1>0, <1>1, <1>3, <1>5 DEF ReplaysCover
    <2>2. CASE m \in replay[c].rest
      <3>1. Write(c, m) => Reached(m)'
        BY <1>1, <1>3, <1>5 DEF Write, Receive, Reached, Mine, ConnsOf, DeliveryTypeOK
      <3>2. QED
        BY <1>3, <1>5, <2>2, <3>1
    <2>3. CASE Reached(m)
      BY <1>1, <2>3, ReachedStays
    <2>4. CASE Pending(m)
      BY <1>1, <2>4, PendingLands
    <2>5. CASE sends[m] = "stored"
      <3>1. sends'[m] # "stored" => Broadcast(m)
        BY <1>1, <2>5, SendAdvances
      <3>2. Broadcast(m) => Pending(m)'
        BY <1>0, <1>1, <1>3, <1>5, BroadcastReaches, OpenIsReached DEF Reachable
      <3>3. QED
        BY <3>1, <3>2
    <2>6. QED
      BY <2>1, <2>2, <2>3, <2>4, <2>5
  <1>6. QED
    BY <1>2, <1>4, <1>5

\* A message that was sent stays with a client, in the queue or in the pool.
LEMMA SentIsHeldKept ==
    ASSUME DeliveryInv, [DeliveryNext]_dvars
    PROVE  SentIsHeld'
  <1> SUFFICES ASSUME NEW m \in Spared', sends'[m] = "sent"
               PROVE  m \in unread' \/ Reached(m)' \/ Pending(m)'
    BY DEF SentIsHeld
  <1> USE DEF DeliveryInv
  <1>1. m \in Spared /\ m \in Messages /\ m \notin cut /\ m \notin cut' /\ m \notin wiped'
    BY ReachedStays DEF Spared, Messages
  <1>2. ASSUME m \in unread, m \notin unread', sends[m] # "stored"
        PROVE  Reached(m) \/ Pending(m)
    <2>1. CASE Reached(m)
      BY <2>1
    <2>2. ASSUME NEW c \in Mine, replay[c].step = "writing", replay[c].rest = {}, pc[c] = "open",
                 Recipient \notin evicted
          PROVE  Reached(m) \/ Pending(m)
      BY <1>1, <1>2, <2>2, MineType DEF ReplaysCover
    <2>3. QED
      BY <1>1, <1>2, <2>1, <2>2, RowsLeave
  <1>3. CASE sends[m] = "sent"
    <2>1. m \in unread' \/ Reached(m) \/ Pending(m)
      BY <1>1, <1>2, <1>3 DEF SentIsHeld
    <2>2. QED
      BY <1>1, <2>1, ReachedStays, PendingLands
  <1>4. CASE sends[m] # "sent"
    <2>1. Broadcast(m) /\ sends[m] = "stored"
      BY <1>1, <1>4, SendAdvances
    <2>2. ASSUME NEW c \in Mine, Reachable(c)
          PROVE  Pending(m)'
      BY <1>1, <2>1, <2>2, BroadcastReaches
    <2>3. CASE m \notin queued
      <3>1. m \in OnTheirWay
        BY <1>1, <2>1 DEF OnTheirWay
      <3>2. PICK c \in witness[m] : c \in Mine /\ Reachable(c)
        BY <1>1, <2>3, <3>1 DEF WitnessesStay, Open, Reachable
      <3>3. QED
        BY <2>2, <3>2
    <2>4. CASE m \in queued
      <3>1. m \in unread \/ Reached(m) \/ \E c \in Mine : Reachable(c)
        BY <1>1, <2>1, <2>4 DEF QueuedIsHeld
      <3>2. unread' = unread
        BY <2>1 DEF Broadcast
      <3>3. QED
        BY <1>1, <2>2, <3>1, <3>2, ReachedStays
    <2>5. QED
      BY <2>3, <2>4
  <1>5. QED
    BY <1>3, <1>4

\* A witness gets a frame in the fan-out and then the message, or its line breaks.
LEMMA WitnessesAreServedKept ==
    ASSUME DeliveryInv, [DeliveryNext]_dvars
    PROVE  WitnessesAreServed'
  <1> SUFFICES ASSUME NEW m \in Messages, m \notin cut', m \notin queued', sends'[m] = "sent",
                      NEW c \in witness'[m]
               PROVE  m \in got'[c] \/ [to |-> c, msg |-> m] \in jobs'
    BY DEF WitnessesAreServed, Messages
  <1> USE DEF DeliveryInv
  <1>1. m \notin cut
    BY OnlyGrows
  <1>2. c \in witness[m] /\ c \in Conns /\ m \notin queued
    <2>1. ~CheckPresence(m)
      BY DEF CheckPresence, Advance, DeliveryTypeOK
    <2>2. witness'[m] = witness[m] /\ (m \in queued' <=> m \in queued)
      BY <2>1 DEF DeliveryNext, dvars, CheckPresence, Store, StoreFails, PostCallMessage,
             QueueCallMessage, Broadcast, BroadcastFails, WriteLive, FetchUnread, ReplayOne,
             ClearReplayed, LoadMessages, MarkDelivered, MarkRead, LineBreaks, PresenceMoves,
             sendVars, DeliveryTypeOK
    <2>3. QED
      BY <2>2 DEF DeliveryTypeOK
  <1>3. CASE sends[m] = "sent"
    <2> DEFINE j == [to |-> c, msg |-> m]
    <2>1. m \in got[c] \/ j \in jobs
      BY <1>1, <1>2, <1>3 DEF WitnessesAreServed
    <2>2. j \in jobs /\ j \notin jobs' => m \in got'[c]
      <3>1. j.to = c /\ j.msg = m
        OBVIOUS
      <3> HIDE DEF j
      <3>2. QED
        BY <3>1, JobLands
    <2>3. QED
      BY <1>2, <2>1, <2>2, OnlyGrows
  <1>4. CASE sends[m] # "sent"
    <2>1. Broadcast(m) /\ sends[m] = "stored"
      BY <1>1, <1>4, SendAdvances
    <2>2. c \in Mine /\ Reachable(c)
      BY <1>1, <1>2, <2>1 DEF WitnessesStay, OnTheirWay, Open, Reachable
    <2>3. QED
      BY <2>1, <2>2, BroadcastReaches
  <1>5. QED
    BY <1>3, <1>4

----------------------------------------------------------------------------
(* The receipts.                                                           *)

\* Bump never lowers a pointer, and two pointers in order stay in order.
LEMMA BumpAdvances ==
    \A a, b, m \in Nat : /\ Bump(a, m) >= a
                         /\ b <= a => Bump(b, m) <= Bump(a, m) /\ b <= Bump(a, m)
  BY DEF Bump, Highest

\* Neither pointer goes back, and read stays at or below delivered.
LEMMA ReceiptsAdvance ==
    ASSUME DeliveryTypeOK, read <= delivered, [DeliveryNext]_dvars
    PROVE  delivered' >= delivered /\ read' >= read /\ read' <= delivered'
  <1>1. delivered \in Nat /\ read \in Nat
    BY DeliveryAssumption DEF DeliveryTypeOK
  <1>2. ASSUME NEW c \in Conns, NEW m \in Messages, MarkDelivered(c, m) \/ MarkRead(c, m)
        PROVE  delivered' >= delivered /\ read' >= read /\ read' <= delivered'
    <2>1. \/ delivered' = Bump(delivered, m) /\ read' \in {read, Bump(read, m)}
          \/ delivered' = delivered /\ read' = read
      BY <1>2 DEF MarkDelivered, MarkRead, receiptVars
    <2>2. m \in Nat
      BY MineType
    <2>3. QED
      BY <1>1, <2>1, <2>2, BumpAdvances
  <1>3. ASSUME UNCHANGED receiptVars
        PROVE  delivered' >= delivered /\ read' >= read /\ read' <= delivered'
    BY <1>1, <1>3 DEF receiptVars
  <1>4. QED
    BY <1>2, <1>3 DEF DeliveryNext, dvars, CheckPresence, Store, StoreFails, PostCallMessage,
           QueueCallMessage, Broadcast, BroadcastFails, WriteLive, FetchUnread, ReplayOne,
           ClearReplayed, LoadMessages, LineBreaks, PresenceMoves, receiptVars

----------------------------------------------------------------------------
(* The theorems.                                                           *)

\* In the beginning nothing was sent and nobody is connected.
LEMMA DeliveryInitially == DeliveryInit => DeliveryInv
  <1> SUFFICES ASSUME DeliveryInit
               PROVE  DeliveryInv
    OBVIOUS
  <1>1. LinesInv /\ ConnTypeOK
    <2>1. ConnInit
      BY DEF DeliveryInit
    <2>2. PresenceInv /\ RegistryIsExact
      BY <2>1, PresenceInitially, RegistryInitially
    <2>3. QED
      BY <2>1, <2>2 DEF LinesInv, PresenceInv
  <1>2. DeliveryTypeOK
    BY <1>1, DeliveryAssumption DEF DeliveryInit, DeliveryTypeOK, Steps, Replay
  <1>3. OwnWork /\ WitnessesStay /\ QueuedIsHeld /\ ReplaysCover /\ SentIsHeld /\ WitnessesAreServed
    BY DEF DeliveryInit, OwnWork, WitnessesStay, QueuedIsHeld, ReplaysCover, SentIsHeld,
           WitnessesAreServed, OnTheirWay, Spared
  <1>4. read <= delivered
    BY DEF DeliveryInit
  <1>5. QED
    BY <1>1, <1>2, <1>3, <1>4 DEF DeliveryInv

\* The inductive invariant: nothing under way is forgotten between two looks at presence.
THEOREM DeliveryInvariant == DeliverySpec => []DeliveryInv
  <1>1. DeliveryInv /\ [DeliveryNext]_dvars => DeliveryInv'
    BY DeliveryTypeInductive, LinesInductive, OwnWorkKept, WitnessesStayKept, QueuedIsHeldKept,
       ReplaysCoverKept, SentIsHeldKept, WitnessesAreServedKept, ReceiptsAdvance DEF DeliveryInv
  <1>2. QED
    BY <1>1, DeliveryInitially, PTL DEF DeliverySpec

\* Whatever connects, breaks, fails or is acknowledged, the state keeps its types.
THEOREM DeliveryTypeCorrect == DeliverySpec => []DeliveryTypeOK
  BY DeliveryInvariant, PTL DEF DeliveryInv

\* For any number of messages and connections, stalls and sweeps included: a user's message
\* whose send is over and that no broken line, failed query or fall of presence met on its
\* way is with a client of the recipient or queued for them.
THEOREM NothingIsLost == DeliverySpec => []NoLossWithoutCut
  <1>1. DeliveryInv => NoLossWithoutCut
    BY DEF DeliveryInv, SentIsHeld, Spared, NoLossWithoutCut
  <1>2. QED
    BY <1>1, DeliveryInvariant, PTL

\* For any number of them: a socket that was open when a send to an online user began, and
\* still is, is sent the message unless presence fell before the fan-out.
THEOREM SteadySocketAlwaysServed == DeliverySpec => []SteadySocketIsServed
  <1>1. DeliveryInv => SteadySocketIsServed
    BY DEF DeliveryInv, WitnessesAreServed, SteadySocketIsServed
  <1>2. QED
    BY <1>1, DeliveryInvariant, PTL

\* No order of acknowledgements from any number of devices takes a tick back.
THEOREM ReceiptsAlwaysAdvance == DeliverySpec => ReceiptsOnlyAdvance
  <1>1. DeliveryInv /\ [DeliveryNext]_dvars =>
            [delivered' >= delivered /\ read' >= read /\ read' <= delivered']_dvars
    BY ReceiptsAdvance DEF DeliveryInv
  <1>2. QED
    BY <1>1, DeliveryInvariant, PTL DEF DeliverySpec, ReceiptsOnlyAdvance

----------------------------------------------------------------------------
(* The presence notifications.                                             *)

\* What a watcher of u ought to be shown.
Truth(u) == IF IsUserOnline(u) THEN "online" ELSE "offline"

\* Changes on their way carry the current state, for users without overlap.
ChangesAgree ==
    \A u \in Users \ overlapped :
        /\ \A b \in BOOLEAN : callbacks[u][b] > 0 => b = IsUserOnline(u)
        /\ \A f \in frames : f.user = u => f.online = IsUserOnline(u)

\* Frames and views exist for watchers only.
OnlyWatchers ==
    /\ \A f \in frames : <<f.to, f.user>> \in Watches
    /\ \A c \in Conns, u \in Users : view[c][u] # "unknown" => <<c, u>> \in Watches

\* A view of an open connection is right, or a callback has yet to run, or a frame that
\* will put it right is in the pool.
ViewsCatchUp ==
    \A c \in Conns, u \in Users :
        /\ pc[c] = "open" /\ c \in wired
        /\ Owner[c] \notin evicted
        /\ u \notin overlapped
        /\ view[c][u] # "unknown"
        => \/ view[c][u] = Truth(u)
           \/ \E b \in BOOLEAN : callbacks[u][b] > 0
           \/ \E f \in frames : f.to = c /\ f.user = u

FanoutInv ==
    /\ FanoutTypeOK
    /\ PresenceInv
    /\ RegistryIsExact
    /\ ChangesAgree
    /\ OnlyWatchers
    /\ ViewsCatchUp

----------------------------------------------------------------------------
(* The connections underneath.                                             *)

\* Every step of the fan-out is a step of Connections or leaves them alone.
LEMMA FanoutStepsOfConnections == [FanoutNext]_fvars => [ConnNext]_cvars
  BY DEF FanoutNext, fvars, cvars, Connect, Disconnect, Sweep, Quiet, BroadcastPresenceChange,
         BroadcastPresenceFails, AskPresence, WritePresence, ConnNext, ConnStep

\* The specification of the connections is implemented, whatever watchers are told.
THEOREM FanoutRefinesConnections == FanoutSpec => ConnSpec
  <1>1. FanoutInit => ConnInit
    BY DEF FanoutInit
  <1>2. QED
    BY <1>1, FanoutStepsOfConnections, PTL DEF FanoutSpec, ConnSpec

\* A broadcast finds every open connection of a user the sweep spared.
LEMMA OpenIsOnline ==
    ASSUME PresenceInv, RegistryIsExact, NEW c \in Conns, pc[c] = "open",
           Owner[c] \notin evicted
    PROVE  c \in clients[Owner[c]] /\ IsUserOnline(Owner[c])
  <1> DEFINE u == Owner[c]
  <1>1. u \in Users
    BY OwnerType
  <1>2. c \in clients[u]
    BY <1>1 DEF RegistryIsExact, ConnsOf
  <1>3. c \in Counted(u)
    BY DEF Counted, CountedPhases, ConnsOf
  <1>4. IsFiniteSet(Counted(u)) /\ Cardinality(Counted(u)) \in Nat
    BY <1>1, CountedFinite
  <1>5. Cardinality(Counted(u)) # 0
    BY <1>3, <1>4, FS_EmptySet
  <1>6. status[u].conns = Cardinality(Counted(u))
    BY <1>1 DEF PresenceInv, Exact
  <1>7. IsUserOnline(u) <=> status[u].conns > 0
    BY <1>1 DEF PresenceInv, Backing
  <1>8. QED
    BY <1>2, <1>4, <1>5, <1>6, <1>7

----------------------------------------------------------------------------
(* Type correctness.                                                       *)

\* New callbacks are counted in natural numbers.
LEMMA SpawnType ==
    ASSUME FanoutTypeOK, NEW S \in SUBSET Users, NEW b \in BOOLEAN, Spawn(S, b)
    PROVE  callbacks' \in [Users -> [BOOLEAN -> Nat]] /\ overlapped' \in SUBSET Users
  <1>1. \A u \in Users : callbacks[u] \in [BOOLEAN -> Nat] /\ callbacks[u][b] + 1 \in Nat
    BY DEF FanoutTypeOK
  <1>2. \A u \in Users : [callbacks[u] EXCEPT ![b] = @ + 1] \in [BOOLEAN -> Nat]
    BY <1>1
  <1>3. QED
    BY <1>1, <1>2 DEF Spawn, FanoutTypeOK

\* A goroutine that has run is counted off.
LEMMA RunType ==
    ASSUME FanoutTypeOK, NEW u \in Users, NEW b \in BOOLEAN, callbacks[u][b] > 0,
           callbacks' = [callbacks EXCEPT ![u][b] = @ - 1]
    PROVE  /\ callbacks' \in [Users -> [BOOLEAN -> Nat]]
           /\ \A v \in Users, d \in BOOLEAN :
                 callbacks'[v][d] = IF v = u /\ d = b THEN callbacks[v][d] - 1 ELSE callbacks[v][d]
  <1>1. callbacks[u] \in [BOOLEAN -> Nat] /\ callbacks[u][b] - 1 \in Nat
    BY DEF FanoutTypeOK
  <1> DEFINE row == [callbacks[u] EXCEPT ![b] = @ - 1]
  <1>2. /\ row \in [BOOLEAN -> Nat]
        /\ \A d \in BOOLEAN : row[d] = IF d = b THEN callbacks[u][d] - 1 ELSE callbacks[u][d]
    BY <1>1
  <1>3. callbacks' = [callbacks EXCEPT ![u] = row]
    OBVIOUS
  <1> HIDE DEF row
  <1>4. QED
    BY <1>2, <1>3 DEF FanoutTypeOK

\* What the presence table has to do with a step of the fan-out: the users it spawns a
\* callback for, and only those, may have changed, and to what the callback says.
Announced(S, b) ==
    /\ S \in SUBSET Users
    /\ \A u \in S : IsUserOnline(u)' = b
    /\ \A u \in Users \ S : IsUserOnline(u)' = IsUserOnline(u)

\* UserConnected makes its user online, who may have been online before.
LEMMA ConnectAnnounces ==
    ASSUME PresenceInv, NEW c \in Conns, UserConnected(c)
    PROVE  Announced({u \in {Owner[c]} : CameOnline(u)}, TRUE)
  <1>1. Owner[c] \in Users
    BY OwnerType
  <1>2. status'[Owner[c]].online = TRUE
    BY <1>1 DEF UserConnected, PresenceInv, ConnTypeOK
  <1>3. \A u \in Users \ {Owner[c]} : status'[u] = status[u]
    BY DEF UserConnected, PresenceInv, ConnTypeOK
  <1>4. \A u \in Users : IsUserOnline(u) \in BOOLEAN
    BY DEF IsUserOnline, PresenceInv, ConnTypeOK, Status
  <1>5. QED
    BY <1>1, <1>2, <1>3, <1>4 DEF Announced, CameOnline, IsUserOnline

\* UserDisconnected takes its user off with the last connection, and only then.
LEMMA DisconnectAnnounces ==
    ASSUME PresenceInv, NEW c \in Conns, UserDisconnected(c)
    PROVE  Announced({u \in {Owner[c]} : status[u].known /\ status[u].conns <= 1}, FALSE)
  <1> DEFINE me == Owner[c]
             left == OneLess(status[me].conns)
             on == status[me].online /\ left > 0
  <1>1. me \in Users
    BY OwnerType
  <1>2. status[me].conns \in Nat /\ status[me].online \in BOOLEAN
        /\ (status[me].online <=> status[me].conns > 0)
    BY <1>1, StatusMembers DEF PresenceInv, ConnTypeOK, Backing, IsUserOnline
  <1>3. \A u \in Users \ {me} : status'[u] = status[u]
    BY DEF UserDisconnected, PresenceInv, ConnTypeOK
  <1>4. CASE ~status[me].known
    <2>1. status'[me] = status[me]
      BY <1>4 DEF UserDisconnected
    <2>2. \A u \in Users : IsUserOnline(u)' = IsUserOnline(u)
      BY <1>3, <2>1 DEF IsUserOnline
    <2> DEFINE S == {u \in {me} : status[u].known /\ status[u].conns <= 1}
    <2>3. S = {}
      BY <1>4
    <2> HIDE DEF S
    <2>4. Announced(S, FALSE)
      BY <2>2, <2>3 DEF Announced
    <2>5. QED
      BY <2>4 DEF S
  <1>5. CASE status[me].known
    <2>1. status'[me] = [known |-> TRUE, conns |-> left, online |-> on]
      BY <1>1, <1>5 DEF UserDisconnected, PresenceInv, ConnTypeOK
    <2>2. /\ status[me].conns <= 1 => ~on
          /\ ~(status[me].conns <= 1) => on = status[me].online
          /\ on \in BOOLEAN
      BY <1>2 DEF OneLess
    <2> HIDE DEF on
    <2>3. status'[me].online = on
      BY <2>1
    <2>4. status[me].conns <= 1 => status'[me].online = FALSE
      BY <2>2, <2>3
    <2>5. ~(status[me].conns <= 1) => status'[me].online = status[me].online
      BY <2>2, <2>3
    <2>6. QED
      BY <1>1, <1>3, <1>5, <2>4, <2>5 DEF Announced, IsUserOnline
  <1>6. QED
    BY <1>4, <1>5

\* The sweep takes off the users it timed out; an entry it expires was offline already.
LEMMA SweepAnnounces ==
    ASSUME PresenceInv, CleanupInactiveUsers
    PROVE  Announced({u \in Users : TimedOut(u)}, FALSE)
  <1>1. \A u \in Users :
            status'[u] = IF Expired(u) THEN Absent
                         ELSE IF TimedOut(u)
                              THEN [known |-> TRUE, conns |-> 0, online |-> FALSE]
                              ELSE status[u]
    BY DEF CleanupInactiveUsers
  <1>2. \A u \in Users : IsUserOnline(u) \in BOOLEAN
    BY DEF IsUserOnline, PresenceInv, ConnTypeOK, Status
  <1>3. ASSUME NEW u \in Users, TimedOut(u)
        PROVE  status'[u].online = FALSE
    BY <1>1, <1>3 DEF Absent
  <1>4. ASSUME NEW u \in Users, ~TimedOut(u)
        PROVE  status'[u].online = status[u].online
    <2>1. Expired(u) => ~status[u].online
      BY <1>4 DEF Expired, IsUserOnline
    <2>2. status'[u] = IF Expired(u) THEN Absent ELSE status[u]
      BY <1>1, <1>4
    <2>3. Absent.online = FALSE
      BY DEF Absent
    <2>4. QED
      BY <1>2, <2>1, <2>2, <2>3 DEF IsUserOnline
  <1>5. QED
    BY <1>3, <1>4 DEF Announced, IsUserOnline

\* The quiet steps leave the table's answers, and the open connections, as they were.
LEMMA QuietIsQuiet ==
    ASSUME ConnTypeOK, Quiet
    PROVE  /\ UNCHANGED <<status, evicted>>
           /\ \A c \in Conns : pc'[c] = "open" /\ c \in wired' => pc[c] = "open" /\ c \in wired
  <1> USE DEF ConnTypeOK, Goto
  <1>1. ASSUME NEW c \in Conns,
               CheckConnectionLimit(c) \/ UpgradeFails(c) \/ Register(c)
                   \/ Drop(c) \/ Stall(c) \/ Resume(c) \/ UpdateActivity(c)
                   \/ RemoveClient(c) \/ CheckLastConnection(c) \/ EndCall(c)
        PROVE  /\ UNCHANGED <<status, evicted>>
               /\ \A d \in Conns : pc'[d] = "open" /\ d \in wired' => pc[d] = "open" /\ d \in wired
    BY <1>1 DEF CheckConnectionLimit, UpgradeFails, Register, Drop, Stall, Resume,
                UpdateActivity, RemoveClient, CheckLastConnection, EndCall, presenceVars, connVars
  <1>2. ASSUME NEW u \in Users, GrowOld(u)
        PROVE  UNCHANGED <<pc, wired, status, evicted>>
    BY <1>2 DEF GrowOld, connVars
  <1>3. QED
    BY <1>1, <1>2 DEF Quiet

\* Callbacks, frames and views keep their types.
LEMMA FanoutTypeInductive ==
    ASSUME FanoutTypeOK, PresenceInv, [FanoutNext]_fvars
    PROVE  FanoutTypeOK'
  <1>0. ConnTypeOK'
    BY FanoutStepsOfConnections, TypeInductive DEF FanoutTypeOK
  <1>1. ASSUME NEW c \in Conns, Connect(c)
        PROVE  FanoutTypeOK'
    <2> DEFINE S == {u \in {Owner[c]} : CameOnline(u)}
    <2>1. S \in SUBSET Users
      BY OwnerType
    <2>2. callbacks' \in [Users -> [BOOLEAN -> Nat]] /\ overlapped' \in SUBSET Users
      BY <1>1, <2>1, SpawnType DEF Connect
    <2>3. QED
      BY <1>0, <1>1, <2>2 DEF Connect, FanoutTypeOK
  <1>2. ASSUME NEW c \in Conns, Disconnect(c)
        PROVE  FanoutTypeOK'
    <2> DEFINE S == {u \in {Owner[c]} : status[u].known /\ status[u].conns <= 1}
    <2>1. S \in SUBSET Users
      BY OwnerType
    <2>2. callbacks' \in [Users -> [BOOLEAN -> Nat]] /\ overlapped' \in SUBSET Users
      BY <1>2, <2>1, SpawnType DEF Disconnect
    <2>3. QED
      BY <1>0, <1>2, <2>2 DEF Disconnect, FanoutTypeOK
  <1>3. CASE Sweep
    <2>1. callbacks' \in [Users -> [BOOLEAN -> Nat]] /\ overlapped' \in SUBSET Users
      BY <1>3, SpawnType DEF Sweep
    <2>2. QED
      BY <1>0, <1>3, <2>1 DEF Sweep, FanoutTypeOK
  <1>4. CASE Quiet
    BY <1>0, <1>4 DEF Quiet, FanoutTypeOK
  <1>5. ASSUME NEW u \in Users, NEW b \in BOOLEAN, BroadcastPresenceChange(u, b)
        PROVE  FanoutTypeOK'
    <2>1. callbacks' \in [Users -> [BOOLEAN -> Nat]]
      BY <1>5, RunType DEF BroadcastPresenceChange
    <2>2. Audience(u) \subseteq Conns
      BY DEF Audience, FanoutTypeOK, ConnTypeOK
    <2>3. {[to |-> c, user |-> u, online |-> b] : c \in Audience(u)} \subseteq Frame
      BY <2>2 DEF Frame
    <2>4. QED
      BY <1>0, <1>5, <2>1, <2>3 DEF BroadcastPresenceChange, FanoutTypeOK
  <1>6. ASSUME NEW u \in Users, NEW b \in BOOLEAN, BroadcastPresenceFails(u, b)
        PROVE  FanoutTypeOK'
    <2>1. callbacks' \in [Users -> [BOOLEAN -> Nat]]
      BY <1>6, RunType DEF BroadcastPresenceFails
    <2>2. QED
      BY <1>0, <1>6, <2>1 DEF BroadcastPresenceFails, FanoutTypeOK
  <1>7. ASSUME NEW c \in Conns, NEW u \in Users, AskPresence(c, u)
        PROVE  FanoutTypeOK'
    <2>1. IsUserOnline(u) \in BOOLEAN
      BY DEF IsUserOnline, PresenceInv, ConnTypeOK, Status
    <2>2. [to |-> c, user |-> u, online |-> IsUserOnline(u)] \in Frame
      BY <2>1 DEF Frame
    <2>3. QED
      BY <1>0, <1>7, <2>2 DEF AskPresence, FanoutTypeOK
  <1>8. ASSUME NEW f \in frames, WritePresence(f)
        PROVE  FanoutTypeOK'
    <2>1. f.to \in Conns /\ f.user \in Users
      BY DEF FanoutTypeOK, Frame
    <2> DEFINE shown == IF f.online THEN "online" ELSE "offline"
               row == [view[f.to] EXCEPT ![f.user] = shown]
    <2>2. row \in [Users -> {"unknown", "online", "offline"}]
      BY <2>1 DEF FanoutTypeOK
    <2>3. view' = [view EXCEPT ![f.to] = row] \/ view' = view
      BY <1>8 DEF WritePresence
    <2> HIDE DEF row
    <2>4. view' \in [Conns -> [Users -> {"unknown", "online", "offline"}]]
      BY <2>1, <2>2, <2>3 DEF FanoutTypeOK
    <2>5. QED
      BY <1>0, <1>8, <2>4 DEF WritePresence, FanoutTypeOK
  <1>9. CASE UNCHANGED fvars
    BY <1>0, <1>9 DEF fvars, FanoutTypeOK
  <1>10. QED
    BY <1>1, <1>2, <1>3, <1>4, <1>5, <1>6, <1>7, <1>8, <1>9 DEF FanoutNext

----------------------------------------------------------------------------
(* The parts of the invariant.                                             *)

\* Watchers are connections of somebody else.
LEMMA WatcherType == \A w \in Watches : w[1] \in Conns /\ w[2] \in Users /\ Owner[w[1]] # w[2]
  BY FanoutAssumption

\* A step that spawns callbacks for exactly the users it may have changed keeps the
\* changes on their way true: who had one already overlaps.
LEMMA SpawnKeeps ==
    ASSUME FanoutInv, NEW S, NEW b \in BOOLEAN, Spawn(S, b), Announced(S, b), UNCHANGED frames,
           evicted \subseteq evicted',
           \A c \in Conns, u \in Users :
               pc'[c] = "open" /\ c \in wired' /\ view'[c][u] # "unknown" =>
                   pc[c] = "open" /\ c \in wired /\ view'[c][u] = view[c][u]
    PROVE  ChangesAgree' /\ ViewsCatchUp'
  <1> USE DEF FanoutInv
  <1>1. S \in SUBSET Users
    BY DEF Announced
  <1>2. ASSUME NEW u \in Users
        PROVE  callbacks'[u] = IF u \in S THEN [callbacks[u] EXCEPT ![b] = @ + 1] ELSE callbacks[u]
    BY DEF Spawn
  <1>3. ASSUME NEW u \in Users
        PROVE  /\ callbacks[u] \in [BOOLEAN -> Nat]
               /\ u \in S => \A d \in BOOLEAN : callbacks'[u][d] = IF d = b THEN callbacks[u][b] + 1
                                                                          ELSE callbacks[u][d]
               /\ u \notin S => callbacks'[u] = callbacks[u]
    BY <1>2 DEF FanoutTypeOK
  <1>4. ASSUME NEW u \in S, u \notin overlapped'
        PROVE  /\ \A d \in BOOLEAN : callbacks[u][d] = 0
               /\ \A f \in frames : f.user # u
    <2>1. ~InFlight(u)
      BY <1>4 DEF Spawn
    <2>2. \A d \in BOOLEAN : callbacks[u][d] \in Nat
      BY <1>1, <1>3
    <2>3. QED
      BY <2>1, <2>2 DEF InFlight
  <1>5. overlapped \subseteq overlapped'
    BY DEF Spawn
  <1>6. ChangesAgree'
    <2> SUFFICES ASSUME NEW u \in Users, u \notin overlapped'
                 PROVE  /\ \A d \in BOOLEAN : callbacks'[u][d] > 0 => d = IsUserOnline(u)'
                        /\ \A f \in frames : f.user = u => f.online = IsUserOnline(u)'
      BY DEF ChangesAgree
    <2>1. CASE u \in S
      BY <1>3, <1>4, <2>1 DEF Announced
    <2>2. CASE u \notin S
      BY <1>3, <1>5, <2>2 DEF Announced, ChangesAgree
    <2>3. QED
      BY <2>1, <2>2
  <1>7. ViewsCatchUp'
    <2> SUFFICES ASSUME NEW c \in Conns, NEW u \in Users, pc'[c] = "open", c \in wired',
                        Owner[c] \notin evicted', u \notin overlapped', view'[c][u] # "unknown"
                 PROVE  \/ view'[c][u] = Truth(u)'
                        \/ \E d \in BOOLEAN : callbacks'[u][d] > 0
                        \/ \E f \in frames' : f.to = c /\ f.user = u
      BY DEF ViewsCatchUp
    <2>1. CASE u \in S
      <3>1. callbacks'[u][b] = callbacks[u][b] + 1 /\ callbacks[u][b] \in Nat
        BY <1>3, <2>1
      <3>2. QED
        BY <3>1
    <2>2. CASE u \notin S
      <3>1. IsUserOnline(u)' = IsUserOnline(u) /\ callbacks'[u] = callbacks[u]
        BY <1>3, <2>2 DEF Announced
      <3>2. pc[c] = "open" /\ c \in wired /\ view'[c][u] = view[c][u]
            /\ Owner[c] \notin evicted /\ u \notin overlapped
        BY <1>5
      <3>3. \/ view[c][u] = Truth(u)
            \/ \E d \in BOOLEAN : callbacks[u][d] > 0
            \/ \E f \in frames : f.to = c /\ f.user = u
        BY <3>2 DEF ViewsCatchUp
      <3>4. Truth(u)' = Truth(u)
        BY <3>1 DEF Truth
      <3>5. QED
        BY <3>1, <3>2, <3>3, <3>4
    <2>3. QED
      BY <2>1, <2>2
  <1>8. QED
    BY <1>6, <1>7

\* A step that leaves the table alone and lets no view become open keeps both parts, if
\* the callbacks and frames it takes away are made good.
LEMMA ConnectKeepsViews ==
    ASSUME FanoutInv, NEW c \in Conns, Connect(c)
    PROVE  ChangesAgree' /\ ViewsCatchUp'
  <1> DEFINE S == {u \in {Owner[c]} : CameOnline(u)}
  <1>1. Spawn(S, TRUE) /\ Announced(S, TRUE) /\ UNCHANGED <<frames, evicted>>
    BY ConnectAnnounces DEF Connect, FanoutInv, UserConnected
  <1>2. \A d \in Conns, u \in Users :
            pc'[d] = "open" /\ d \in wired' /\ view'[d][u] # "unknown" =>
                pc[d] = "open" /\ d \in wired /\ view'[d][u] = view[d][u]
    BY DEF Connect, UserConnected, Goto, FanoutInv, FanoutTypeOK, ConnTypeOK
  <1> HIDE DEF S
  <1>3. QED
    BY <1>1, <1>2, SpawnKeeps

\* A disconnect announces what it changed.
LEMMA DisconnectKeepsViews ==
    ASSUME FanoutInv, NEW c \in Conns, Disconnect(c)
    PROVE  ChangesAgree' /\ ViewsCatchUp'
  <1> DEFINE S == {u \in {Owner[c]} : status[u].known /\ status[u].conns <= 1}
  <1>1. Spawn(S, FALSE) /\ Announced(S, FALSE) /\ UNCHANGED <<frames, evicted>>
    BY DisconnectAnnounces DEF Disconnect, FanoutInv, UserDisconnected
  <1>2. \A d \in Conns, u \in Users :
            pc'[d] = "open" /\ d \in wired' /\ view'[d][u] # "unknown" =>
                pc[d] = "open" /\ d \in wired /\ view'[d][u] = view[d][u]
    BY DEF Disconnect, UserDisconnected, Goto, FanoutInv, FanoutTypeOK, ConnTypeOK
  <1> HIDE DEF S
  <1>3. QED
    BY <1>1, <1>2, SpawnKeeps

\* A sweep announces everybody it took off.
LEMMA SweepKeepsViews ==
    ASSUME FanoutInv, Sweep
    PROVE  ChangesAgree' /\ ViewsCatchUp'
  <1> DEFINE S == {u \in Users : TimedOut(u)}
  <1>1. Spawn(S, FALSE) /\ Announced(S, FALSE) /\ UNCHANGED <<frames, pc, wired, view>>
        /\ evicted \subseteq evicted'
    BY SweepAnnounces DEF Sweep, FanoutInv, CleanupInactiveUsers, connVars
  <1> HIDE DEF S
  <1>2. QED
    BY <1>1, SpawnKeeps

\* The audience of a callback is every open watcher the sweep spared.
LEMMA AudienceHears ==
    ASSUME FanoutInv, NEW c \in Conns, NEW u \in Users, <<c, u>> \in Watches, pc[c] = "open",
           Owner[c] \notin evicted
    PROVE  c \in Audience(u)
  <1>1. c \in clients[Owner[c]] /\ IsUserOnline(Owner[c])
    BY OpenIsOnline DEF FanoutInv
  <1>2. Owner[c] \in Users \ {u}
    BY OwnerType, WatcherType
  <1>3. QED
    BY <1>1, <1>2 DEF Audience

\* A callback that runs hands what it carried over to the frames.
LEMMA CallbackKeepsViews ==
    ASSUME FanoutInv, NEW u \in Users, NEW b \in BOOLEAN, BroadcastPresenceChange(u, b)
    PROVE  ChangesAgree' /\ OnlyWatchers' /\ ViewsCatchUp'
  <1> USE DEF FanoutInv
  <1> DEFINE new == {[to |-> c, user |-> u, online |-> b] : c \in Audience(u)}
  <1>1. /\ callbacks[u][b] > 0
        /\ frames' = frames \cup new
        /\ UNCHANGED <<pc, wired, status, evicted, view, overlapped>>
    BY DEF BroadcastPresenceChange, cvars
  <1>2. \A v \in Users, d \in BOOLEAN :
            callbacks'[v][d] = IF v = u /\ d = b THEN callbacks[v][d] - 1 ELSE callbacks[v][d]
    BY RunType DEF BroadcastPresenceChange
  <1>3. \A v \in Users, d \in BOOLEAN : callbacks[v][d] \in Nat
    BY DEF FanoutTypeOK
  <1>4. ChangesAgree'
    <2> SUFFICES ASSUME NEW v \in Users, v \notin overlapped
                 PROVE  /\ \A d \in BOOLEAN : callbacks'[v][d] > 0 => d = IsUserOnline(v)
                        /\ \A f \in frames' : f.user = v => f.online = IsUserOnline(v)
      BY <1>1 DEF ChangesAgree, IsUserOnline
    <2>1. \A d \in BOOLEAN : callbacks'[v][d] > 0 => callbacks[v][d] > 0
      BY <1>2, <1>3
    <2>2. \A f \in new : f.user = v => v = u /\ f.online = b
      OBVIOUS
    <2>3. v = u => b = IsUserOnline(v)
      BY <1>1 DEF ChangesAgree
    <2>4. QED
      BY <1>1, <2>1, <2>2, <2>3 DEF ChangesAgree
  <1>5. OnlyWatchers'
    <2>1. \A c \in Audience(u) : <<c, u>> \in Watches
      BY DEF Audience
    <2>2. \A f \in new : f.to \in Audience(u) /\ f.user = u
      OBVIOUS
    <2>3. QED
      BY <1>1, <2>1, <2>2 DEF OnlyWatchers
  <1>6. ViewsCatchUp'
    <2> SUFFICES ASSUME NEW c \in Conns, NEW v \in Users, pc[c] = "open", c \in wired,
                        Owner[c] \notin evicted, v \notin overlapped, view[c][v] # "unknown",
                        view[c][v] # Truth(v)
                 PROVE  \/ \E d \in BOOLEAN : callbacks'[v][d] > 0
                        \/ \E f \in frames' : f.to = c /\ f.user = v
      BY <1>1 DEF ViewsCatchUp, Truth, IsUserOnline
    <2>1. \/ \E d \in BOOLEAN : callbacks[v][d] > 0
          \/ \E f \in frames : f.to = c /\ f.user = v
      BY DEF ViewsCatchUp
    <2>2. CASE v = u
      <3>1. c \in Audience(u)
        BY <2>2, AudienceHears DEF OnlyWatchers
      <3>2. [to |-> c, user |-> u, online |-> b] \in frames'
        BY <1>1, <3>1
      <3>3. QED
        BY <2>2, <3>2
    <2>3. CASE v # u
      BY <1>1, <1>2, <2>1, <2>3
    <2>4. QED
      BY <2>2, <2>3
  <1>7. QED
    BY <1>4, <1>5, <1>6

\* A callback that cannot read the chats is noted as an overlap.
LEMMA FailureKeepsViews ==
    ASSUME FanoutInv, NEW u \in Users, NEW b \in BOOLEAN, BroadcastPresenceFails(u, b)
    PROVE  ChangesAgree' /\ OnlyWatchers' /\ ViewsCatchUp'
  <1> USE DEF FanoutInv
  <1>1. /\ callbacks[u][b] > 0
        /\ overlapped' = overlapped \cup {u}
        /\ UNCHANGED <<pc, wired, status, evicted, view, frames>>
    BY DEF BroadcastPresenceFails, cvars
  <1>2. \A v \in Users \ {u}, d \in BOOLEAN : callbacks'[v][d] = callbacks[v][d]
    BY RunType DEF BroadcastPresenceFails
  <1>3. QED
    BY <1>1, <1>2 DEF ChangesAgree, OnlyWatchers, ViewsCatchUp, Truth, IsUserOnline

\* An answer over HTTP is one more frame that tells the truth.
LEMMA AnswerKeepsViews ==
    ASSUME FanoutInv, NEW c \in Conns, NEW u \in Users, AskPresence(c, u)
    PROVE  ChangesAgree' /\ OnlyWatchers' /\ ViewsCatchUp'
  <1> USE DEF FanoutInv
  <1> DEFINE f == [to |-> c, user |-> u, online |-> IsUserOnline(u)]
  <1>1. /\ <<c, u>> \in Watches
        /\ frames' = frames \cup {f}
        /\ UNCHANGED <<pc, wired, status, evicted, view, callbacks, overlapped>>
    BY DEF AskPresence, cvars
  <1>2. f.to = c /\ f.user = u /\ f.online = IsUserOnline(u)
    OBVIOUS
  <1> HIDE DEF f
  <1>3. QED
    BY <1>1, <1>2 DEF ChangesAgree, OnlyWatchers, ViewsCatchUp, Truth, IsUserOnline

\* A frame that is written puts the view it is for right.
LEMMA WriteKeepsViews ==
    ASSUME FanoutInv, NEW f \in frames, WritePresence(f)
    PROVE  ChangesAgree' /\ OnlyWatchers' /\ ViewsCatchUp'
  <1> USE DEF FanoutInv
  <1>1. /\ frames' = frames \ {f}
        /\ UNCHANGED <<pc, wired, status, evicted, callbacks, overlapped>>
    BY DEF WritePresence, cvars
  <1>2. f.to \in Conns /\ f.user \in Users /\ f.online \in BOOLEAN
    BY DEF FanoutTypeOK, Frame
  <1> DEFINE shown == IF f.online THEN "online" ELSE "offline"
  <1>3. ASSUME NEW c \in Conns, NEW u \in Users
        PROVE  view'[c][u] = IF c = f.to /\ u = f.user /\ c \in wired THEN shown ELSE view[c][u]
    <2>1. CASE f.to \in wired
      BY <1>2, <2>1 DEF WritePresence, FanoutTypeOK
    <2>2. CASE f.to \notin wired
      BY <2>2 DEF WritePresence
    <2>3. QED
      BY <2>1, <2>2
  <1>4. f.user \notin overlapped => shown = Truth(f.user)
    BY <1>2 DEF ChangesAgree, Truth
  <1>5. ChangesAgree'
    BY <1>1 DEF ChangesAgree, IsUserOnline
  <1>6. OnlyWatchers'
    BY <1>1, <1>3 DEF OnlyWatchers
  <1>7. ViewsCatchUp'
    <2> SUFFICES ASSUME NEW c \in Conns, NEW u \in Users, pc[c] = "open", c \in wired,
                        Owner[c] \notin evicted, u \notin overlapped, view'[c][u] # "unknown",
                        view'[c][u] # Truth(u)
                 PROVE  \/ \E d \in BOOLEAN : callbacks[u][d] > 0
                        \/ \E g \in frames' : g.to = c /\ g.user = u
      BY <1>1 DEF ViewsCatchUp, Truth, IsUserOnline
    <2>1. ~(c = f.to /\ u = f.user)
      BY <1>3, <1>4
    <2>2. view'[c][u] = view[c][u]
      BY <1>3, <2>1
    <2>3. QED
      BY <1>1, <2>1, <2>2 DEF ViewsCatchUp
  <1>8. QED
    BY <1>5, <1>6, <1>7

----------------------------------------------------------------------------
(* The theorems.                                                           *)

\* Every step keeps the invariant.
LEMMA FanoutInductive == FanoutInv /\ [FanoutNext]_fvars => FanoutInv'
  <1> SUFFICES ASSUME FanoutInv, [FanoutNext]_fvars
               PROVE  FanoutInv'
    OBVIOUS
  <1>1. PresenceInv' /\ RegistryIsExact' /\ FanoutTypeOK'
    BY FanoutStepsOfConnections, PresenceInductive, RegistryInductive, FanoutTypeInductive
    DEF FanoutInv, PresenceInv
  <1>2. ASSUME NEW c \in Conns, Connect(c) \/ Disconnect(c)
        PROVE  OnlyWatchers'
    BY <1>2 DEF FanoutInv, Connect, Disconnect, OnlyWatchers, FanoutTypeOK
  <1>3. CASE Sweep
    <2>1. OnlyWatchers'
      BY <1>3 DEF FanoutInv, Sweep, OnlyWatchers
    <2>2. QED
      BY <1>1, <1>3, <2>1, SweepKeepsViews DEF FanoutInv
  <1>4. CASE Quiet
    <2>1. UNCHANGED <<callbacks, frames, view, overlapped, status, evicted>>
          /\ \A c \in Conns : pc'[c] = "open" /\ c \in wired' => pc[c] = "open" /\ c \in wired
      BY <1>4, QuietIsQuiet DEF Quiet, FanoutInv, PresenceInv
    <2>2. ChangesAgree' /\ OnlyWatchers' /\ ViewsCatchUp'
      BY <2>1 DEF FanoutInv, ChangesAgree, OnlyWatchers, ViewsCatchUp, Truth, IsUserOnline
    <2>3. QED
      BY <1>1, <2>2 DEF FanoutInv
  <1>5. CASE UNCHANGED fvars
    BY <1>1, <1>5 DEF fvars, FanoutInv, ChangesAgree, OnlyWatchers, ViewsCatchUp, Truth,
                      IsUserOnline
  <1>6. QED
    BY <1>1, <1>2, <1>3, <1>4, <1>5, ConnectKeepsViews, DisconnectKeepsViews, CallbackKeepsViews,
       FailureKeepsViews, AnswerKeepsViews, WriteKeepsViews DEF FanoutNext, FanoutInv

\* The inductive invariant: a view that is out of date is about to be corrected.
THEOREM FanoutInvariant == FanoutSpec => []FanoutInv
  <1>1. FanoutInit => FanoutInv
    <2> SUFFICES ASSUME FanoutInit
                 PROVE  FanoutInv
      OBVIOUS
    <2>1. PresenceInv /\ RegistryIsExact
      BY PresenceInitially, RegistryInitially DEF FanoutInit
    <2>2. FanoutTypeOK
      BY <2>1 DEF FanoutInit, FanoutTypeOK, PresenceInv
    <2>3. ChangesAgree /\ OnlyWatchers /\ ViewsCatchUp
      BY DEF FanoutInit, ChangesAgree, OnlyWatchers, ViewsCatchUp
    <2>4. QED
      BY <2>1, <2>2, <2>3 DEF FanoutInv
  <1>2. QED
    BY <1>1, FanoutInductive, PTL DEF FanoutSpec

\* Callbacks, frames and views keep their types, the number of callbacks never below zero.
THEOREM FanoutTypeCorrect == FanoutSpec => []FanoutTypeOK
  BY FanoutInvariant, PTL DEF FanoutInv

\* For any users and watchers: a view is right whenever nothing of that user is on its
\* way and no two changes, and no failed query, ever met.
THEOREM ViewAlwaysCurrent == FanoutSpec => []ViewIsCurrent
  <1>1. FanoutInv => ViewIsCurrent
    BY DEF FanoutInv, ViewIsCurrent, ViewsCatchUp, Truth, InFlight, Reading
  <1>2. QED
    BY <1>1, FanoutInvariant, PTL

\* For any users and watchers: no frame in the pool is out of date unless changes overlapped.
THEOREM FramesAlwaysAgree == FanoutSpec => []FramesAgree
  <1>1. FanoutInv => FramesAgree
    BY DEF FanoutInv, FramesAgree, ChangesAgree, FanoutTypeOK, Frame
  <1>2. QED
    BY <1>1, FanoutInvariant, PTL

=============================================================================
