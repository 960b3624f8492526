------------------------- MODULE ConnectionsProofs -------------------------
(***************************************************************************)
(* Proofs about Connections, for any set of users, any finite set of       *)
(* connection attempts and any limit.                                      *)
(*                                                                         *)
(* The invariants of Connections are not inductive: that a user shown      *)
(* online is backed by a connection follows only from how the counter, the *)
(* flag and the phases move together.  Backing states that.                *)
(***************************************************************************)
EXTENDS Connections, FiniteSetTheorems, TLAPS

\* An entry that was never made, or was expired, is Absent; the flag says that the
\* counter is positive; the counter never exceeds the connections it stands for.
Backing ==
    \A u \in Users :
        /\ ~status[u].known => status[u] = Absent
        /\ IsUserOnline(u) <=> status[u].conns > 0
        /\ status[u].conns <= Cardinality(Counted(u))

\* The counter is exact for users the sweep spared.
Exact == \A u \in Users \ evicted : status[u].conns = Cardinality(Counted(u))

\* A user with a connection that reads and still has its peer has not been idle for two minutes.
ReadersAreFresh ==
    \A u \in Users : age[u] >= 2 => \A c \in ConnsOf(u) : ~(Reading(c) /\ c \in wired)

----------------------------------------------------------------------------
(* Type correctness.                                                       *)

\* A connection belongs to a user.
LEMMA OwnerType == \A c \in Conns : Owner[c] \in Users
  BY ConnectionsAssumption

\* The values presence writes are values of the table.
LEMMA StatusMembers ==
    /\ Absent \in Status
    /\ \A n \in Nat, b \in BOOLEAN : [known |-> TRUE, conns |-> n, online |-> b] \in Status
    /\ \A n \in Nat : OneLess(n) \in Nat
    /\ \A s \in Status : s.known \in BOOLEAN /\ s.conns \in Nat /\ s.online \in BOOLEAN
  BY DEF Absent, Status, OneLess

\* The registry, the phases and the presence table keep their types under every
\* step of the connection goroutines, the sweep and the passing of time.
LEMMA TypeInductive == ConnTypeOK /\ [ConnNext]_cvars => ConnTypeOK'
  <1> SUFFICES ASSUME ConnTypeOK, [ConnNext]_cvars
               PROVE  ConnTypeOK'
    OBVIOUS
  <1> USE ConnectionsAssumption, OwnerType DEF ConnTypeOK, Phases, Goto
  <1>1. ASSUME NEW c \in Conns, CheckConnectionLimit(c)
        PROVE  ConnTypeOK'
    BY <1>1 DEF CheckConnectionLimit, presenceVars
  <1>2. ASSUME NEW c \in Conns, UpgradeFails(c)
        PROVE  ConnTypeOK'
    BY <1>2 DEF UpgradeFails, presenceVars
  <1>3. ASSUME NEW c \in Conns, Register(c)
        PROVE  ConnTypeOK'
    BY <1>3 DEF Register, presenceVars
  <1>4. ASSUME NEW c \in Conns, UserConnected(c)
        PROVE  ConnTypeOK'
    <2>1. status[Owner[c]].conns + 1 \in Nat
      BY StatusMembers
    <2>2. status' \in [Users -> Status]
      BY <1>4, <2>1, StatusMembers DEF UserConnected
    <2>3. QED
      BY <1>4, <2>2 DEF UserConnected
  <1>5. ASSUME NEW c \in Conns, Drop(c)
        PROVE  ConnTypeOK'
    BY <1>5 DEF Drop, presenceVars
  <1>6. ASSUME NEW c \in Conns, Stall(c)
        PROVE  ConnTypeOK'
    BY <1>6 DEF Stall, presenceVars
  <1>7. ASSUME NEW c \in Conns, Resume(c)
        PROVE  ConnTypeOK'
    BY <1>7 DEF Resume
  <1>8. ASSUME NEW c \in Conns, UpdateActivity(c)
        PROVE  ConnTypeOK'
    BY <1>8 DEF UpdateActivity, connVars
  <1>9. ASSUME NEW c \in Conns, RemoveClient(c)
        PROVE  ConnTypeOK'
    BY <1>9 DEF RemoveClient, presenceVars
  <1>10. ASSUME NEW c \in Conns, CheckLastConnection(c)
         PROVE  ConnTypeOK'
    BY <1>10 DEF CheckLastConnection, presenceVars
  <1>11. ASSUME NEW c \in Conns, EndCall(c)
         PROVE  ConnTypeOK'
    BY <1>11 DEF EndCall, presenceVars
  <1>12. ASSUME NEW c \in Conns, UserDisconnected(c)
         PROVE  ConnTypeOK'
    <2> DEFINE u    == Owner[c]
               left == OneLess(status[u].conns)
               on   == status[u].online /\ left > 0
               entry == [known |-> TRUE, conns |-> left, online |-> on]
    <2>1. left \in Nat /\ on \in BOOLEAN
      BY StatusMembers
    <2>2. entry \in Status
      BY <2>1, StatusMembers
    <2>3. status' \in [Users -> Status] /\ age' \in [Users -> 0..3]
      <3>1. \/ status' = [status EXCEPT ![u] = entry] /\ age' = [age EXCEPT ![u] = 0]
            \/ UNCHANGED <<status, age>>
        BY <1>12 DEF UserDisconnected
      <3> HIDE DEF entry
      <3>2. QED
        BY <2>2, <3>1
    <2>4. QED
      BY <1>12, <2>3 DEF UserDisconnected
  <1>13. ASSUME NEW u \in Users, GrowOld(u)
         PROVE  ConnTypeOK'
    BY <1>13 DEF GrowOld, connVars
  <1>14. CASE CleanupInactiveUsers
    <2>1. status' \in [Users -> Status]
      BY <1>14, StatusMembers DEF CleanupInactiveUsers
    <2>2. QED
      BY <1>14, <2>1 DEF CleanupInactiveUsers, connVars
  <1>15. CASE UNCHANGED cvars
    BY <1>15 DEF cvars
  <1>16. QED
    BY <1>1, <1>2, <1>3, <1>4, <1>5, <1>6, <1>7, <1>8, <1>9, <1>10, <1>11, <1>12,
       <1>13, <1>14, <1>15 DEF ConnNext, ConnStep

\* The connection and presence state always has its type, the counter never going
\* below zero included.
THEOREM TypeCorrect == ConnSpec => []ConnTypeOK
  <1>1. ConnInit => ConnTypeOK
    BY StatusMembers, ConnectionsAssumption DEF ConnInit, ConnTypeOK, Phases
  <1>2. QED
    BY <1>1, TypeInductive, PTL DEF ConnSpec

----------------------------------------------------------------------------
(* The counter and the connections it stands for.                          *)

\* Every set of counted connections is finite, so it has a size.
LEMMA CountedFinite ==
    ASSUME NEW u \in Users
    PROVE  IsFiniteSet(Counted(u)) /\ Cardinality(Counted(u)) \in Nat
  <1>1. Counted(u) \subseteq Conns
    BY DEF Counted, ConnsOf
  <1>2. IsFiniteSet(Counted(u))
    BY <1>1, ConnectionsAssumption, FS_Subset
  <1>3. QED
    BY <1>2, FS_CardinalityType

\* A step that leaves the phase of every connection counted or uncounted leaves
\* the counted sets as they were: only UserConnected and UserDisconnected do more.
LEMMA CountedUnchanged ==
    ASSUME ConnTypeOK, NEW c \in Conns, NEW phase \in Phases, Goto(c, phase),
           pc[c] \in CountedPhases <=> phase \in CountedPhases
    PROVE  \A u \in Users : Counted(u)' = Counted(u)
  <1>1. \A d \in Conns : pc'[d] \in CountedPhases <=> pc[d] \in CountedPhases
    BY DEF ConnTypeOK, Goto
  <1>2. QED
    BY <1>1 DEF Counted, ConnsOf

\* UserConnected adds its connection to those of its owner and of nobody else.
LEMMA CountedAdds ==
    ASSUME ConnTypeOK, NEW c \in Conns, UserConnected(c)
    PROVE  \A u \in Users :
               Cardinality(Counted(u)') =
                   Cardinality(Counted(u)) + (IF u = Owner[c] THEN 1 ELSE 0)
  <1> SUFFICES ASSUME NEW u \in Users
               PROVE  Cardinality(Counted(u)') =
                          Cardinality(Counted(u)) + (IF u = Owner[c] THEN 1 ELSE 0)
    OBVIOUS
  <1>1. \A d \in Conns : pc'[d] \in CountedPhases <=> pc[d] \in CountedPhases \/ d = c
    BY DEF UserConnected, Goto, ConnTypeOK, CountedPhases
  <1>2. c \notin Counted(u)
    BY DEF UserConnected, Counted, CountedPhases
  <1>3. Counted(u)' = IF u = Owner[c] THEN Counted(u) \cup {c} ELSE Counted(u)
    BY <1>1 DEF Counted, ConnsOf
  <1>4. IsFiniteSet(Counted(u)) /\ Cardinality(Counted(u)) \in Nat
    BY CountedFinite
  <1>5. Cardinality(Counted(u) \cup {c}) = Cardinality(Counted(u)) + 1
    BY <1>2, <1>4, FS_AddElement
  <1>6. QED
    BY <1>3, <1>4, <1>5

\* UserDisconnected takes its connection from those of its owner and of nobody else.
LEMMA CountedRemoves ==
    ASSUME ConnTypeOK, NEW c \in Conns, UserDisconnected(c)
    PROVE  \A u \in Users :
               /\ Cardinality(Counted(u)') =
                      Cardinality(Counted(u)) - (IF u = Owner[c] THEN 1 ELSE 0)
               /\ u = Owner[c] => Cardinality(Counted(u)) > 0
  <1> SUFFICES ASSUME NEW u \in Users
               PROVE  /\ Cardinality(Counted(u)') =
                             Cardinality(Counted(u)) - (IF u = Owner[c] THEN 1 ELSE 0)
                      /\ u = Owner[c] => Cardinality(Counted(u)) > 0
    OBVIOUS
  <1>1. \A d \in Conns : pc'[d] \in CountedPhases <=> pc[d] \in CountedPhases /\ d # c
    BY DEF UserDisconnected, Goto, ConnTypeOK, CountedPhases
  <1>2. u = Owner[c] => c \in Counted(u)
    BY DEF UserDisconnected, Counted, ConnsOf, CountedPhases
  <1>3. Counted(u)' = IF u = Owner[c] THEN Counted(u) \ {c} ELSE Counted(u)
    BY <1>1 DEF Counted, ConnsOf
  <1>4. IsFiniteSet(Counted(u)) /\ Cardinality(Counted(u)) \in Nat
    BY CountedFinite
  <1>5. u = Owner[c] => Cardinality(Counted(u)) # 0
    BY <1>2, <1>4, FS_EmptySet
  <1>6. u = Owner[c] => Cardinality(Counted(u) \ {c}) = Cardinality(Counted(u)) - 1
    BY <1>2, <1>4, FS_RemoveElement
  <1>7. QED
    BY <1>3, <1>4, <1>5, <1>6

----------------------------------------------------------------------------
(* The inductive invariant.                                                *)

PresenceInv == ConnTypeOK /\ Backing /\ Exact

\* A step that changes neither the table nor the counted sets keeps both parts.
LEMMA TableUntouched ==
    ASSUME PresenceInv, UNCHANGED <<status, evicted>>,
           \A u \in Users : Counted(u)' = Counted(u)
    PROVE  Backing' /\ Exact'
  BY DEF PresenceInv, Backing, Exact, IsUserOnline

\* A new connection raises the counter by the one connection it adds.
LEMMA ConnectKeeps ==
    ASSUME PresenceInv, NEW c \in Conns, UserConnected(c)
    PROVE  Backing' /\ Exact'
  <1> USE DEF PresenceInv
  <1>1. Owner[c] \in Users /\ evicted' = evicted
    BY OwnerType DEF UserConnected
  <1>2. \A u \in Users : status[u].conns \in Nat /\ Cardinality(Counted(u)) \in Nat
    BY StatusMembers, CountedFinite DEF ConnTypeOK
  <1>3. \A u \in Users : Cardinality(Counted(u))' =
                              Cardinality(Counted(u)) + (IF u = Owner[c] THEN 1 ELSE 0)
    BY CountedAdds
  <1>4. ASSUME NEW u \in Users
        PROVE  /\ ~status'[u].known => status'[u] = Absent
               /\ status'[u].online <=> status'[u].conns > 0
               /\ status'[u].conns <= Cardinality(Counted(u))'
               /\ u \notin evicted' => status'[u].conns = Cardinality(Counted(u))'
    <2>1. CASE u = Owner[c]
      <3>1. status'[u].known /\ status'[u].online /\ status'[u].conns = status[u].conns + 1
        BY <2>1 DEF UserConnected, ConnTypeOK
      <3>2. Cardinality(Counted(u))' = Cardinality(Counted(u)) + 1
        BY <1>3, <2>1
      <3>3. QED
        BY <1>1, <1>2, <3>1, <3>2 DEF Backing, Exact
    <2>2. CASE u # Owner[c]
      <3>1. status'[u] = status[u]
        BY <2>2 DEF UserConnected, ConnTypeOK
      <3>2. Cardinality(Counted(u))' = Cardinality(Counted(u))
        BY <1>2, <1>3, <2>2
      <3>3. QED
        BY <1>1, <3>1, <3>2 DEF Backing, Exact, IsUserOnline
    <2>3. QED
      BY <2>1, <2>2
  <1>5. QED
    BY <1>4 DEF Backing, Exact, IsUserOnline

\* A connection that leaves takes one from the counter unless the sweep zeroed it;
\* the flag falls exactly when nothing is left.
LEMMA DisconnectKeeps ==
    ASSUME PresenceInv, NEW c \in Conns, UserDisconnected(c)
    PROVE  Backing' /\ Exact'
  <1> USE DEF PresenceInv
  <1> DEFINE me == Owner[c]
             left == OneLess(status[me].conns)
  <1>1. me \in Users /\ evicted' = evicted
    BY OwnerType DEF UserDisconnected
  <1>2. \A u \in Users : status[u].conns \in Nat /\ Cardinality(Counted(u)) \in Nat
    BY StatusMembers, CountedFinite DEF ConnTypeOK
  <1>3. \A u \in Users \ {me} : status'[u] = status[u]
    BY DEF UserDisconnected, ConnTypeOK
  <1>4. /\ status'[me].conns = left
        /\ status'[me].online <=> left > 0
        /\ ~status'[me].known => status'[me] = Absent
    <2>1. CASE status[me].known
      <3> DEFINE on == status[me].online /\ left > 0
      <3>1. status'[me] = [known |-> TRUE, conns |-> left, online |-> on]
        BY <1>1, <2>1 DEF UserDisconnected, ConnTypeOK
      <3> HIDE DEF on
      <3>2. status'[me].known /\ status'[me].conns = left /\ status'[me].online = on
        BY <3>1
      <3> USE DEF on
      <3>3. left > 0 => status[me].online
        BY <1>1, <1>2 DEF Backing, IsUserOnline, OneLess
      <3>4. QED
        BY <3>2, <3>3
    <2>2. CASE ~status[me].known
      <3>1. status'[me] = status[me] /\ status[me] = Absent
        BY <1>1, <2>2 DEF UserDisconnected, Backing
      <3>2. QED
        BY <3>1 DEF Absent, OneLess
    <2>3. QED
      BY <2>1, <2>2
  <1>5. Backing'
    BY <1>1, <1>2, <1>3, <1>4, CountedRemoves DEF Backing, IsUserOnline, OneLess
  <1>6. Exact'
    BY <1>1, <1>2, <1>3, <1>4, CountedRemoves DEF Exact, OneLess
  <1>7. QED
    BY <1>5, <1>6

\* The sweep zeroes entries; those it zeroes while counted it reports in evicted.
LEMMA SweepKeeps ==
    ASSUME PresenceInv, CleanupInactiveUsers
    PROVE  Backing' /\ Exact'
  <1> USE DEF PresenceInv
  <1>1. \A u \in Users : Counted(u)' = Counted(u)
    BY DEF CleanupInactiveUsers, connVars, Counted, ConnsOf
  <1>2. \A u \in Users : status[u].conns \in Nat /\ Cardinality(Counted(u)) \in Nat
    BY StatusMembers, CountedFinite DEF ConnTypeOK
  <1>3. \A u \in Users :
           \/ status'[u] = Absent
           \/ status'[u] = [known |-> TRUE, conns |-> 0, online |-> FALSE]
           \/ status'[u] = status[u]
    BY DEF CleanupInactiveUsers
  <1>4. Backing'
    BY <1>1, <1>2, <1>3 DEF Backing, IsUserOnline, Absent
  <1>5. Exact'
    <2> SUFFICES ASSUME NEW u \in Users, u \notin evicted'
                 PROVE  status'[u].conns = Cardinality(Counted(u))
      BY <1>1 DEF Exact
    <2>1. u \notin evicted /\ (TimedOut(u) => Counted(u) = {})
      BY DEF CleanupInactiveUsers
    <2>2. status[u].conns = Cardinality(Counted(u))
      BY <2>1 DEF Exact
    <2>3. ~TimedOut(u)
      <3>1. Counted(u) = {} => status[u].conns = 0
        BY <2>2, CountedFinite, FS_EmptySet
      <3>2. IsUserOnline(u) => ~(status[u].conns = 0)
        BY <1>2 DEF Backing
      <3>3. QED
        BY <2>1, <3>1, <3>2 DEF TimedOut
    <2>4. Expired(u) => status[u].conns = 0
      BY <1>2, <2>3 DEF Expired, Backing
    <2>5. status'[u] = IF Expired(u) THEN Absent ELSE status[u]
      BY <2>3 DEF CleanupInactiveUsers
    <2>6. QED
      BY <2>2, <2>4, <2>5 DEF Absent
  <1>6. QED
    BY <1>4, <1>5

\* Backing and exactness survive every step.
LEMMA PresenceInductive == PresenceInv /\ [ConnNext]_cvars => PresenceInv'
  <1> SUFFICES ASSUME PresenceInv, [ConnNext]_cvars
               PROVE  Backing' /\ Exact'
    BY TypeInductive DEF PresenceInv
  <1>1. ASSUME NEW c \in Conns, NEW phase \in Phases, Goto(c, phase),
               pc[c] \in CountedPhases <=> phase \in CountedPhases,
               UNCHANGED <<status, evicted>>
        PROVE  Backing' /\ Exact'
    <2>1. \A u \in Users : Counted(u)' = Counted(u)
      BY <1>1, CountedUnchanged DEF PresenceInv
    <2>2. QED
      BY <1>1, <2>1, TableUntouched
  <1>2. ASSUME UNCHANGED <<pc, status, evicted>>
        PROVE  Backing' /\ Exact'
    <2>1. \A u \in Users : Counted(u)' = Counted(u)
      BY <1>2 DEF Counted, ConnsOf
    <2>2. QED
      BY <1>2, <2>1, TableUntouched
  <1>3. ASSUME NEW c \in Conns, CheckConnectionLimit(c)
        PROVE  Backing' /\ Exact'
    BY <1>1, <1>3 DEF CheckConnectionLimit, presenceVars, CountedPhases, Phases
  <1>4. ASSUME NEW c \in Conns, UpgradeFails(c)
        PROVE  Backing' /\ Exact'
    BY <1>1, <1>4 DEF UpgradeFails, presenceVars, CountedPhases, Phases
  <1>5. ASSUME NEW c \in Conns, Register(c)
        PROVE  Backing' /\ Exact'
    BY <1>1, <1>5 DEF Register, presenceVars, CountedPhases, Phases
  <1>6. ASSUME NEW c \in Conns, Drop(c) \/ Stall(c) \/ Resume(c) \/ UpdateActivity(c)
        PROVE  Backing' /\ Exact'
    BY <1>2, <1>6 DEF Drop, Stall, Resume, UpdateActivity, presenceVars, connVars
  <1>7. ASSUME NEW c \in Conns, RemoveClient(c)
        PROVE  Backing' /\ Exact'
    BY <1>1, <1>7 DEF RemoveClient, Reading, presenceVars, CountedPhases, Phases
  <1>8. ASSUME NEW c \in Conns, CheckLastConnection(c)
        PROVE  Backing' /\ Exact'
    BY <1>1, <1>8 DEF CheckLastConnection, presenceVars, CountedPhases, Phases
  <1>9. ASSUME NEW c \in Conns, EndCall(c)
        PROVE  Backing' /\ Exact'
    BY <1>1, <1>9 DEF EndCall, presenceVars, CountedPhases, Phases
  <1>10. ASSUME NEW c \in Conns, UserConnected(c) \/ UserDisconnected(c)
         PROVE  Backing' /\ Exact'
    BY <1>10, ConnectKeeps, DisconnectKeeps
  <1>11. ASSUME NEW u \in Users, GrowOld(u)
         PROVE  Backing' /\ Exact'
    BY <1>2, <1>11 DEF GrowOld, connVars
  <1>12. CASE CleanupInactiveUsers
    BY <1>12, SweepKeeps
  <1>13. CASE UNCHANGED cvars
    BY <1>2, <1>13 DEF cvars
  <1>14. QED
    BY <1>3, <1>4, <1>5, <1>6, <1>7, <1>8, <1>9, <1>10, <1>11, <1>12, <1>13
    DEF ConnNext, ConnStep

\* Nobody is counted before the first connection.
LEMMA PresenceInitially == ConnInit => PresenceInv
  <1> SUFFICES ASSUME ConnInit
               PROVE  PresenceInv
    OBVIOUS
  <1>1. ConnTypeOK
    BY StatusMembers, ConnectionsAssumption DEF ConnInit, ConnTypeOK, Phases
  <1>2. \A u \in Users : Counted(u) = {} /\ status[u] = Absent
    BY DEF ConnInit, Counted, ConnsOf, CountedPhases
  <1>3. \A u \in Users : Cardinality(Counted(u)) = 0
    BY <1>2, FS_EmptySet
  <1>4. QED
    BY <1>1, <1>2, <1>3 DEF PresenceInv, Backing, Exact, IsUserOnline, Absent

\* The inductive invariant holds of every reachable state.
THEOREM PresenceInvariant == ConnSpec => []PresenceInv
  BY PresenceInitially, PresenceInductive, PTL DEF ConnSpec

\* No order of connects, disconnects and sweeps leaves a user online with no
\* connection that will still take them off.
THEOREM OnlineAlwaysBacked == ConnSpec => []OnlineIsBacked
  <1>1. PresenceInv => OnlineIsBacked
    <2> SUFFICES ASSUME PresenceInv, NEW u \in Users, IsUserOnline(u)
                 PROVE  Counted(u) # {}
      BY DEF OnlineIsBacked
    <2>1. status[u].conns > 0 /\ status[u].conns <= Cardinality(Counted(u))
      BY DEF PresenceInv, Backing
    <2>2. status[u].conns \in Nat /\ Cardinality(Counted(u)) \in Nat
      BY StatusMembers, CountedFinite DEF PresenceInv, ConnTypeOK
    <2>3. Cardinality(Counted(u)) # 0
      BY <2>1, <2>2
    <2>4. QED
      BY <2>3, FS_EmptySet
  <1>2. QED
    BY <1>1, PresenceInvariant, PTL

\* For every user the sweep spared the counter is the number of their counted
\* connections, and the flag says whether there is one.
THEOREM CountAlwaysExact == ConnSpec => []CountIsExact
  <1>1. PresenceInv => CountIsExact
    <2> SUFFICES ASSUME PresenceInv, NEW u \in Users, u \notin evicted
                 PROVE  /\ status[u].conns = Cardinality(Counted(u))
                        /\ IsUserOnline(u) <=> Counted(u) # {}
      BY DEF CountIsExact
    <2>1. status[u].conns = Cardinality(Counted(u))
      BY DEF PresenceInv, Exact
    <2>2. IsUserOnline(u) <=> Cardinality(Counted(u)) > 0
      BY <2>1 DEF PresenceInv, Backing
    <2>3. Cardinality(Counted(u)) \in Nat /\ IsFiniteSet(Counted(u))
      BY CountedFinite
    <2>4. Cardinality(Counted(u)) = 0 <=> Counted(u) = {}
      BY <2>3, FS_EmptySet
    <2>5. QED
      BY <2>1, <2>2, <2>3, <2>4
  <1>2. QED
    BY <1>1, PresenceInvariant, PTL

----------------------------------------------------------------------------
(* The registry.                                                           *)

\* A broadcast to a user reaches their connections from Register to RemoveClient, no others.
RegistryIsExact ==
    \A u \in Users : clients[u] = {c \in ConnsOf(u) : pc[c] \in {"registered", "open"}}

\* Register and RemoveClient are the only steps that enter or leave those two phases.
LEMMA RegistryInductive ==
    ConnTypeOK /\ RegistryIsExact /\ [ConnNext]_cvars => RegistryIsExact'
  <1> SUFFICES ASSUME ConnTypeOK, RegistryIsExact, [ConnNext]_cvars, NEW u \in Users
               PROVE  clients'[u] = {c \in ConnsOf(u) : pc'[c] \in {"registered", "open"}}
    BY DEF RegistryIsExact, ConnsOf
  <1> USE ConnectionsAssumption DEF ConnTypeOK, RegistryIsExact, ConnsOf, Goto
  <1>1. ASSUME NEW c \in Conns,
               CheckConnectionLimit(c) \/ UpgradeFails(c) \/ UserConnected(c)
                   \/ CheckLastConnection(c) \/ EndCall(c) \/ UserDisconnected(c)
        PROVE  clients'[u] = {d \in ConnsOf(u) : pc'[d] \in {"registered", "open"}}
    BY <1>1 DEF CheckConnectionLimit, UpgradeFails, UserConnected, CheckLastConnection,
                EndCall, UserDisconnected
  <1>2. ASSUME NEW c \in Conns, Register(c)
        PROVE  clients'[u] = {d \in ConnsOf(u) : pc'[d] \in {"registered", "open"}}
    BY <1>2 DEF Register
  <1>3. ASSUME NEW c \in Conns, RemoveClient(c)
        PROVE  clients'[u] = {d \in ConnsOf(u) : pc'[d] \in {"registered", "open"}}
    BY <1>3 DEF RemoveClient, Reading
  <1>4. ASSUME UNCHANGED <<pc, clients>>
        PROVE  clients'[u] = {d \in ConnsOf(u) : pc'[d] \in {"registered", "open"}}
    BY <1>4
  <1>5. QED
    BY <1>1, <1>2, <1>3, <1>4
    DEF ConnNext, ConnStep, Drop, Stall, Resume, UpdateActivity, GrowOld,
        CleanupInactiveUsers, connVars, cvars

\* The registry starts empty.
LEMMA RegistryInitially == ConnInit => RegistryIsExact
  BY DEF ConnInit, RegistryIsExact, ConnsOf

\* The registry and the phases always agree: a connection whose read loop runs is
\* reached by every broadcast to its user, one that is leaving by none.
THEOREM RegistryAlwaysExact == ConnSpec => []RegistryIsExact
  BY RegistryInitially, TypeCorrect, RegistryInductive, PTL DEF ConnSpec

----------------------------------------------------------------------------
(* What the sweep may hit.                                                 *)

\* A connection that begins to read, or hears from its peer again, makes its user
\* fresh, and nobody grows old while a connection of theirs reads.
LEMMA FreshInductive ==
    ConnTypeOK /\ ReadersAreFresh /\ [ConnNext]_cvars => ReadersAreFresh'
  <1> SUFFICES ASSUME ConnTypeOK, ReadersAreFresh, [ConnNext]_cvars,
                      NEW u \in Users, NEW d \in ConnsOf(u),
                      age'[u] >= 2, Reading(d)', d \in wired'
               PROVE  FALSE
    BY DEF ReadersAreFresh
  <1> USE DEF ConnTypeOK, Reading, Goto
  <1>1. d \in Conns /\ Owner[d] = u
    BY DEF ConnsOf
  <1>2. age[u] >= 2 => ~(Reading(d) /\ d \in wired)
    BY DEF ReadersAreFresh
  <1>3. ASSUME NEW c \in Conns,
               CheckConnectionLimit(c) \/ UpgradeFails(c) \/ RemoveClient(c)
                   \/ CheckLastConnection(c) \/ EndCall(c)
        PROVE  FALSE
    BY <1>1, <1>2, <1>3
    DEF CheckConnectionLimit, UpgradeFails, RemoveClient, CheckLastConnection, EndCall,
        presenceVars
  <1>4. ASSUME NEW c \in Conns, Register(c)
        PROVE  FALSE
    BY <1>1, <1>2, <1>4 DEF Register, presenceVars
  <1>5. ASSUME NEW c \in Conns, UserConnected(c)
        PROVE  FALSE
    BY <1>1, <1>2, <1>5, OwnerType DEF UserConnected
  <1>6. ASSUME NEW c \in Conns, Drop(c) \/ Stall(c)
        PROVE  FALSE
    BY <1>1, <1>2, <1>6 DEF Drop, Stall, presenceVars
  <1>7. ASSUME NEW c \in Conns, Resume(c)
        PROVE  FALSE
    BY <1>1, <1>2, <1>7, OwnerType DEF Resume
  <1>8. ASSUME NEW c \in Conns, UpdateActivity(c)
        PROVE  FALSE
    BY <1>1, <1>2, <1>8, OwnerType DEF UpdateActivity, connVars
  <1>9. ASSUME NEW c \in Conns, UserDisconnected(c)
        PROVE  FALSE
    BY <1>1, <1>2, <1>9, OwnerType DEF UserDisconnected
  <1>10. ASSUME NEW v \in Users, GrowOld(v)
         PROVE  FALSE
    BY <1>1, <1>2, <1>10 DEF GrowOld, connVars, ConnsOf
  <1>11. CASE CleanupInactiveUsers
    BY <1>1, <1>2, <1>11 DEF CleanupInactiveUsers, connVars
  <1>12. CASE UNCHANGED cvars
    BY <1>1, <1>2, <1>12 DEF cvars
  <1>13. QED
    BY <1>3, <1>4, <1>5, <1>6, <1>7, <1>8, <1>9, <1>10, <1>11, <1>12
    DEF ConnNext, ConnStep

\* The sweep takes a user off while a connection of theirs is counted only if that
\* connection sits in a handler, lost its peer or is on its way out.
THEOREM EvictionAlwaysNeedsStall == ConnSpec => EvictionNeedsStall
  <1> DEFINE Step == \A u \in evicted' \ evicted : \A c \in Counted(u) :
                         ~(Reading(c) /\ c \in wired)
  <1>1. ConnInit => ReadersAreFresh
    BY DEF ConnInit, ReadersAreFresh
  <1>2. ConnTypeOK /\ ReadersAreFresh /\ [ConnNext]_cvars => [Step]_cvars
    <2> SUFFICES ASSUME ConnTypeOK, ReadersAreFresh, ConnNext,
                        NEW u \in evicted' \ evicted, NEW c \in Counted(u)
                 PROVE  ~(Reading(c) /\ c \in wired)
      OBVIOUS
    <2>1. CleanupInactiveUsers
      BY DEF ConnNext, ConnStep, CheckConnectionLimit, UpgradeFails, Register, UserConnected,
             Drop, Stall, Resume, UpdateActivity, RemoveClient, CheckLastConnection,
             EndCall, UserDisconnected, GrowOld, presenceVars
    <2>2. u \in Users /\ age[u] >= 2
      BY <2>1 DEF CleanupInactiveUsers, TimedOut, ConnTypeOK
    <2>3. QED
      BY <2>2 DEF ReadersAreFresh, Counted
  <1>3. QED
    BY <1>1, <1>2, TypeCorrect, FreshInductive, PTL DEF ConnSpec, EvictionNeedsStall

=============================================================================
