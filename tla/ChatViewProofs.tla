--------------------------- MODULE ChatViewProofs ---------------------------
(***************************************************************************)
(* Proofs about ChatView, for any chats, any finite set of messages and    *)
(* any bounds.                                                             *)
(*                                                                         *)
(* What the caches hold is not inductive: the answer of a load, a message  *)
(* or an edit being decrypted, and the list on the screen all go into a    *)
(* cache later.  The invariant speaks of them too.  Whatever a chat may    *)
(* take a list from (Holds: memory, disk, and the screen while it is that  *)
(* chat's) holds messages that belong there (Fine); whatever is under way  *)
(* belongs to the chat it is for and is not purged unless it is late       *)
(* (FlightTrue); and a frame that ran ahead of its statement casts doubt   *)
(* on the chat until the statement has run (Ahead).                        *)
(*                                                                         *)
(* A step of the page is proved in two halves: that the new page takes its *)
(* lists from the old one (Derived), which says nothing of the server, and *)
(* that what was fine for a chat still is, which says nothing of the page. *)
(*                                                                         *)
(* The badges rest on an invariant of their own: a message is counted in a *)
(* badge, unread on the server, or on its way to a badge as a live frame   *)
(* or a decryption, and never two of them, so that the badge of a chat and *)
(* what is on its way to it never exceed the messages of the chat.         *)
(*                                                                         *)
(* So does what the open chat shows.  A mark that a message in the list    *)
(* lacks is under way behind everything that was read before it (Current); *)
(* a message that the list lacks is under way too, and will come with      *)
(* marks that are current then (Coming); and so it is with the list that   *)
(* an answer under way will put there (Faithful), seen from its place      *)
(* among the frames.  A chat that others are about to empty is excepted    *)
(* until they have (Settled).  A step that takes the t-th item moves the   *)
(* places behind it (Place); one that sends leaves them (InPlace).         *)
(***************************************************************************)
EXTENDS ChatView, FiniteSetTheorems, SequenceTheorems, TLAPS

----------------------------------------------------------------------------
(* What is under way.                                                      *)

Faces == SUBSET (Marks \cup {"sealed"})

NewItem == [kind : {"new"}, chat : Chats, msg : Messages, marks : SUBSET Marks,
            replayed : BOOLEAN, late : BOOLEAN]
MarkItem == [kind : Marks, chat : Chats, msg : Messages, late : BOOLEAN]
WordItem == [kind : {"cleared", "gone", "changed"}, chat : Chats, msg : {None}, late : BOOLEAN]
DoneItem == [kind : {"done"}, chat : Chats, msg : {"cleared", "gone", "left"}, late : BOOLEAN]
LoadItem == [kind : {"messages"}, chat : Chats, msg : {None}, data : Lists, served : BOOLEAN,
             late : BOOLEAN]
OpenKinds == {"openingNew"} \cup {kind \in {"openingEdit"} : "edited" \in Marks}
OpenItem == [kind : OpenKinds, chat : Chats, msg : Messages, live : BOOLEAN, marks : Faces,
             bump : BOOLEAN, late : BOOLEAN]

Items == NewItem \cup MarkItem \cup WordItem \cup DoneItem \cup LoadItem \cup OpenItem

\* y is x, perhaps late by now.
Aged(x, y) ==
    /\ y \in Items
    /\ y.kind = x.kind /\ y.chat = x.chat /\ y.msg = x.msg
    /\ x.late => y.late
    /\ x.kind \in {"new", "openingNew", "openingEdit"} => y.marks = x.marks
    /\ x.kind = "new" => y.replayed = x.replayed
    /\ x.kind \in {"openingNew", "openingEdit"} => y.live = x.live /\ y.bump = x.bump
    /\ x.kind = "messages" => y.data = x.data /\ y.served = x.served

\* What marks a message as late does not change what it is.
LEMMA AgedLate ==
    ASSUME ChatViewAssumption, NEW x \in Items, NEW b \in BOOLEAN, x.late => b
    PROVE  /\ Aged(x, [x EXCEPT !.late = b]) /\ [x EXCEPT !.late = b].late = b
           /\ Aged(x, x)
  <1> USE ChatViewAssumption DEF ChatViewAssumption
  <1>1. CASE x \in NewItem
    BY <1>1 DEF Aged, Items, NewItem
  <1>2. CASE x \in MarkItem
    BY <1>2 DEF Aged, Items, MarkItem
  <1>3. CASE x \in WordItem
    BY <1>3 DEF Aged, Items, WordItem
  <1>4. CASE x \in DoneItem
    BY <1>4 DEF Aged, Items, DoneItem
  <1>5. CASE x \in LoadItem
    BY <1>5 DEF Aged, Items, LoadItem
  <1>6. CASE x \in OpenItem
    BY <1>6 DEF Aged, Items, OpenItem, OpenKinds
  <1>7. QED
    BY <1>1, <1>2, <1>3, <1>4, <1>5, <1>6 DEF Items

\* What the fields of an item are, by its kind.
LEMMA ItemFields ==
    ASSUME ChatViewAssumption, NEW x \in Items
    PROVE  /\ x.chat \in Chats /\ x.late \in BOOLEAN
           /\ x.kind \in {"new", "messages", "openingNew", "openingEdit", "cleared", "gone",
                          "changed", "done"} \cup Marks
           /\ x.kind = "new" => x \in NewItem
           /\ x.kind \in Marks => x \in MarkItem
           /\ x.kind \in {"cleared", "gone", "changed"} => x \in WordItem
           /\ x.kind = "done" => x \in DoneItem
           /\ x.kind = "messages" => x \in LoadItem
           /\ x.kind \in {"openingNew", "openingEdit"} => x \in OpenItem
           /\ x.kind = "openingEdit" => "edited" \in Marks
  BY ChatViewAssumption DEF ChatViewAssumption, Items, NewItem, MarkItem, WordItem, DoneItem,
     LoadItem, OpenItem, OpenKinds

\* A function on 1..n is a sequence.
LEMMA FlightIsSeq ==
    ASSUME NEW F, NEW n \in Nat, DOMAIN F = 1..n, F = [j \in DOMAIN F |-> F[j]],
           \A j \in 1..n : F[j] \in Items
    PROVE  F \in Seq(Items) /\ Len(F) = n
  <1>1. F \in [1..n -> Items]
    OBVIOUS
  <1>2. QED
    BY <1>1, SeqDef

\* The history of what is overtaken leaves everything else alone.
LEMMA OvertakenAges ==
    ASSUME ChatViewAssumption, flight \in Seq(Items), NEW y, NEW i \in DOMAIN flight
    PROVE  /\ Overtaken(y, i) \in Seq(Items) /\ Len(Overtaken(y, i)) = Len(flight)
           /\ DOMAIN Overtaken(y, i) = DOMAIN flight
           /\ \A j \in DOMAIN flight : Aged(flight[j], Overtaken(y, i)[j])
  <1> DEFINE G == Overtaken(y, i)
  <1>1. DOMAIN G = 1..Len(flight) /\ Len(flight) \in Nat /\ G = [j \in DOMAIN G |-> G[j]]
    BY LenProperties DEF Overtaken
  <1>2. ASSUME NEW j \in DOMAIN flight
        PROVE  Aged(flight[j], G[j])
    <2>1. flight[j] \in Items
      BY ElementOfSeq, LenProperties
    <2>2. G[j] = flight[j] \/ G[j] = [flight[j] EXCEPT !.late = TRUE]
      BY DEF Overtaken
    <2>3. flight[j].late \in BOOLEAN
      BY <2>1, ItemFields
    <2>4. QED
      BY <2>1, <2>2, <2>3, AgedLate
  <1>3. \A j \in 1..Len(flight) : G[j] \in Items
    BY <1>2, LenProperties DEF Aged
  <1>4. QED
    BY <1>1, <1>2, <1>3, FlightIsSeq, LenProperties

\* What is left when the item at i is taken out of a sequence.
LEMMA WithoutItem ==
    ASSUME NEW F \in Seq(Items), NEW i \in DOMAIN F
    PROVE  /\ Without(F, i) \in Seq(Items) /\ Len(Without(F, i)) = Len(F) - 1
           /\ \A k \in DOMAIN Without(F, i) :
                 Without(F, i)[k] = F[IF k < i THEN k ELSE k + 1]
  <1> DEFINE A == SubSeq(F, 1, i - 1)
             B == SubSeq(F, i + 1, Len(F))
  <1>1. i \in 1..Len(F) /\ Len(F) \in Nat /\ \A j \in 1..Len(F) : F[j] \in Items
    BY LenProperties, ElementOfSeq
  <1>2. /\ A \in Seq(Items) /\ Len(A) = i - 1
        /\ \A k \in 1..(i - 1) : A[k] = F[k]
    <2>1. \A k \in 1..(i - 1) : F[k] \in Items
      BY <1>1
    <2>2. /\ A \in Seq(Items)
          /\ Len(A) = IF 1 <= i - 1 THEN i - 1 - 1 + 1 ELSE 0
          /\ \A k \in 1..(i - 1 - 1 + 1) : A[k] = F[1 + k - 1]
      BY <1>1, <2>1, SubSeqProperties
    <2>3. QED
      BY <1>1, <2>2
  <1>3. /\ B \in Seq(Items) /\ Len(B) = Len(F) - i
        /\ \A k \in 1..(Len(F) - i) : B[k] = F[k + i]
    <2>1. \A k \in (i + 1)..Len(F) : F[k] \in Items
      BY <1>1
    <2>2. /\ B \in Seq(Items)
          /\ Len(B) = IF i + 1 <= Len(F) THEN Len(F) - (i + 1) + 1 ELSE 0
          /\ \A k \in 1..(Len(F) - (i + 1) + 1) : B[k] = F[i + 1 + k - 1]
      BY <1>1, <2>1, SubSeqProperties
    <2>3. QED
      BY <1>1, <2>2
  <1> HIDE DEF A, B
  <1>4. /\ A \o B \in Seq(Items) /\ Len(A \o B) = Len(F) - 1
        /\ \A k \in 1..(Len(F) - 1) :
              (A \o B)[k] = IF k <= i - 1 THEN A[k] ELSE B[k - (i - 1)]
    <2>1. /\ A \o B \in Seq(Items) /\ Len(A \o B) = Len(A) + Len(B)
          /\ \A k \in 1..(Len(A) + Len(B)) :
                (A \o B)[k] = IF k <= Len(A) THEN A[k] ELSE B[k - Len(A)]
      BY <1>2, <1>3, ConcatProperties
    <2>2. Len(A) = i - 1 /\ Len(A) + Len(B) = Len(F) - 1
      BY <1>1, <1>2, <1>3
    <2>3. QED
      BY <2>1, <2>2
  <1>5. Without(F, i) = A \o B
    BY DEF Without, A, B
  <1>6. DOMAIN Without(F, i) = 1..(Len(F) - 1)
    BY <1>4, <1>5, LenProperties
  <1>7. ASSUME NEW k \in 1..(Len(F) - 1)
        PROVE  (A \o B)[k] = F[IF k < i THEN k ELSE k + 1]
    <2>0. (A \o B)[k] = IF k <= i - 1 THEN A[k] ELSE B[k - (i - 1)]
      BY <1>4
    <2>1. CASE k < i
      <3>1. k \in 1..(i - 1) /\ k <= i - 1
        BY <1>1, <2>1
      <3>2. (A \o B)[k] = A[k] /\ A[k] = F[k]
        BY <1>2, <2>0, <3>1
      <3>3. QED
        BY <2>1, <3>2
    <2>2. CASE k >= i
      <3>1. k - (i - 1) \in 1..(Len(F) - i) /\ k - (i - 1) + i = k + 1 /\ ~(k <= i - 1)
            /\ ~(k < i)
        BY <1>1, <2>2
      <3>2. (A \o B)[k] = B[k - (i - 1)] /\ B[k - (i - 1)] = F[k + 1]
        BY <1>3, <2>0, <3>1
      <3>3. QED
        BY <3>1, <3>2
    <2>3. k < i \/ k >= i
      BY <1>1
    <2>4. QED
      BY <2>1, <2>2, <2>3
  <1>8. QED
    BY <1>4, <1>5, <1>6, <1>7

\* What remains when an item is taken: the others, some of them late now.
LEMMA TakenItems ==
    ASSUME ChatViewAssumption, flight \in Seq(Items), NEW i \in DOMAIN flight
    PROVE  /\ Taken(i) \in Seq(Items) /\ Len(Taken(i)) = Len(flight) - 1
           /\ \A k \in DOMAIN Taken(i) :
                 LET j == IF k < i THEN k ELSE k + 1
                 IN  j \in DOMAIN flight /\ j # i /\ Aged(flight[j], Taken(i)[k])
           /\ \A j \in DOMAIN flight \ {i} :
                 LET k == IF j < i THEN j ELSE j - 1
                 IN  k \in DOMAIN Taken(i) /\ Aged(flight[j], Taken(i)[k])
  <1> DEFINE F == Overtaken(flight[i], i)
  <1>1. /\ F \in Seq(Items) /\ Len(F) = Len(flight) /\ DOMAIN F = DOMAIN flight
        /\ \A j \in DOMAIN flight : Aged(flight[j], F[j])
    BY OvertakenAges
  <1> HIDE DEF F
  <1>2. /\ Without(F, i) \in Seq(Items) /\ Len(Without(F, i)) = Len(F) - 1
        /\ \A k \in DOMAIN Without(F, i) :
              Without(F, i)[k] = F[IF k < i THEN k ELSE k + 1]
    BY <1>1, WithoutItem
  <1>3. Taken(i) = Without(F, i)
    BY DEF Taken, F
  <1>4. Len(flight) \in Nat /\ DOMAIN flight = 1..Len(flight)
        /\ DOMAIN Taken(i) = 1..(Len(flight) - 1)
    BY <1>1, <1>2, <1>3, LenProperties
  <1>5. ASSUME NEW k \in DOMAIN Taken(i)
        PROVE  LET j == IF k < i THEN k ELSE k + 1
               IN  j \in DOMAIN flight /\ j # i /\ Aged(flight[j], Taken(i)[k])
    BY <1>1, <1>2, <1>3, <1>4
  <1>6. ASSUME NEW j \in DOMAIN flight \ {i}
        PROVE  LET k == IF j < i THEN j ELSE j - 1
               IN  k \in DOMAIN Taken(i) /\ Aged(flight[j], Taken(i)[k])
    <2> DEFINE k == IF j < i THEN j ELSE j - 1
    <2>1. k \in DOMAIN Taken(i) /\ (IF k < i THEN k ELSE k + 1) = j
      BY <1>4
    <2>2. Taken(i)[k] = F[j]
      BY <1>2, <1>3, <2>1
    <2>3. QED
      BY <1>1, <2>1, <2>2
  <1>7. QED
    BY <1>1, <1>2, <1>3, <1>5, <1>6

\* The members of a set of positions can be counted off, from the first to the last.
LEMMA CountedOff ==
    ASSUME NEW n \in Nat, NEW S \in SUBSET (1..n)
    PROVE  /\ Cardinality(S) \in Nat
           /\ \A k \in 1..Cardinality(S) :
                 Nth(S, k) \in S /\ Cardinality({j \in S : j < Nth(S, k)}) = k - 1
           /\ \A i \in S : \E k \in 1..Cardinality(S) : Nth(S, k) = i
           /\ \A k, l \in 1..Cardinality(S) : k < l => Nth(S, k) < Nth(S, l)
  <1> DEFINE before(i) == {j \in S : j < i}
             rank == [i \in S |-> Cardinality(before(i)) + 1]
             c == Cardinality(S)
  <1>0. \A i \in S : i \in Nat
    OBVIOUS
  <1>1. IsFiniteSet(S) /\ c \in Nat
    <2>1. IsFiniteSet(1..n)
      BY FS_Interval
    <2>2. QED
      BY <2>1, FS_Subset, FS_CardinalityType
  <1>2. ASSUME NEW i \in S
        PROVE  IsFiniteSet(before(i)) /\ Cardinality(before(i)) \in Nat
               /\ Cardinality(before(i)) + 1 \in 1..c
    <2>1. IsFiniteSet(S \ {i}) /\ Cardinality(S \ {i}) = c - 1
      BY <1>1, FS_RemoveElement
    <2>2. before(i) \in SUBSET (S \ {i})
      OBVIOUS
    <2>3. IsFiniteSet(before(i)) /\ Cardinality(before(i)) <= Cardinality(S \ {i})
      BY <2>1, <2>2, FS_Subset
    <2>4. Cardinality(before(i)) \in Nat
      BY <2>3, FS_CardinalityType
    <2>5. QED
      BY <1>1, <2>1, <2>3, <2>4
  <1>3. ASSUME NEW i \in S, NEW j \in S, i < j
        PROVE  Cardinality(before(i)) < Cardinality(before(j))
    <2>1. IsFiniteSet(before(j) \ {i}) /\ Cardinality(before(j) \ {i}) = Cardinality(before(j)) - 1
      <3>1. i \in before(j) /\ IsFiniteSet(before(j))
        BY <1>2, <1>3
      <3>2. QED
        BY <3>1, FS_RemoveElement
    <2>2. before(i) \in SUBSET (before(j) \ {i})
      <3>1. ASSUME NEW k \in before(i)
            PROVE  k \in before(j) /\ k # i
        <4>1. k \in S /\ k < i /\ k \in Nat /\ i \in Nat /\ j \in Nat
          BY <1>0
        <4>2. k < j /\ k # i
          BY <1>3, <4>1
        <4>3. QED
          BY <4>1, <4>2
      <3>2. QED
        BY <3>1
    <2>3. Cardinality(before(i)) <= Cardinality(before(j) \ {i})
      BY <2>1, <2>2, FS_Subset
    <2>4. QED
      BY <1>2, <2>1, <2>3
  <1>10. rank \in [S -> 1..c] /\ \A i \in S : rank[i] = Cardinality(before(i)) + 1
    BY <1>2
  <1>11. \A i : before(i) = {j \in S : j < i}
    OBVIOUS
  <1> HIDE DEF rank, before
  <1>4. rank \in Injection(S, 1..c)
    <2>1. rank \in [S -> 1..c]
      BY <1>10
    <2>2. ASSUME NEW i \in S, NEW j \in S, rank[i] = rank[j]
          PROVE  i = j
      <3>1. Cardinality(before(i)) = Cardinality(before(j)) /\ Cardinality(before(i)) \in Nat
        BY <1>2, <1>10, <2>2
      <3>2. ~(i < j) /\ ~(j < i)
        BY <1>3, <3>1
      <3>3. i \in Nat /\ j \in Nat
        BY <1>0
      <3>4. QED
        BY <3>2, <3>3
    <2>3. QED
      BY <2>1, <2>2 DEF Injection, IsInjective
  <1>5. rank \in Surjection(S, 1..c)
    <2>1. IsFiniteSet(1..c) /\ Cardinality(1..c) = c
      BY <1>1, FS_Interval
    <2>2. QED
      BY <1>4, <2>1, FS_Injection
  <1>6. ASSUME NEW k \in 1..c
        PROVE  Nth(S, k) \in S /\ Cardinality({j \in S : j < Nth(S, k)}) = k - 1
    <2>1. PICK i \in S : rank[i] = k
      BY <1>5 DEF Surjection
    <2>2. Cardinality(before(i)) = k - 1
      BY <1>2, <1>10, <2>1
    <2>3. Cardinality({j \in S : j < i}) = k - 1
      BY <1>11, <2>2
    <2>4. QED
      BY <2>3 DEF Nth
  <1>7. ASSUME NEW i \in S
        PROVE  \E k \in 1..c : Nth(S, k) = i
    <2>1. rank[i] \in 1..c /\ Cardinality(before(i)) = rank[i] - 1
      BY <1>2, <1>10
    <2>2. /\ Nth(S, rank[i]) \in S
          /\ Cardinality(before(Nth(S, rank[i]))) = rank[i] - 1
      BY <1>6, <1>11, <2>1
    <2>3. rank[Nth(S, rank[i])] = rank[i]
      BY <1>2, <1>10, <2>1, <2>2
    <2>4. Nth(S, rank[i]) = i
      BY <1>4, <2>2, <2>3 DEF Injection, IsInjective
    <2>5. QED
      BY <2>1, <2>4
  <1>8. ASSUME NEW k \in 1..c, NEW l \in 1..c, k < l
        PROVE  Nth(S, k) < Nth(S, l)
    <2>1. /\ Nth(S, k) \in S /\ Cardinality(before(Nth(S, k))) = k - 1
          /\ Nth(S, l) \in S /\ Cardinality(before(Nth(S, l))) = l - 1
      BY <1>6, <1>11
    <2>2. k - 1 < l - 1 /\ k \in Nat /\ l \in Nat
      BY <1>1, <1>8
    <2>3. ~(Nth(S, l) < Nth(S, k))
      <3>1. SUFFICES ASSUME Nth(S, l) < Nth(S, k)
                     PROVE  FALSE
        OBVIOUS
      <3>2. l - 1 < k - 1
        BY <1>3, <2>1, <3>1
      <3>3. QED
        BY <2>2, <3>2
    <2>4. Nth(S, k) # Nth(S, l)
      BY <2>1, <2>2
    <2>5. Nth(S, k) \in Nat /\ Nth(S, l) \in Nat
      BY <1>0, <2>1
    <2>6. QED
      BY <2>3, <2>4, <2>5
  <1>9. QED
    BY <1>1, <1>6, <1>7, <1>8

Kept == {i \in DOMAIN flight : ~IsFrame(flight[i])}

\* When the socket breaks the answers and the decryptions stay, in their order.
LEMMA LastingItems ==
    ASSUME flight \in Seq(Items)
    PROVE  /\ Lasting \in Seq(Items)
           /\ \A k \in DOMAIN Lasting :
                 Nth(Kept, k) \in Kept /\ Lasting[k] = flight[Nth(Kept, k)]
           /\ \A i \in Kept : \E k \in DOMAIN Lasting : Lasting[k] = flight[i]
           /\ \A k, l \in DOMAIN Lasting : k < l => Nth(Kept, k) < Nth(Kept, l)
  <1>1. /\ Kept \in SUBSET (1..Len(flight)) /\ Len(flight) \in Nat
        /\ \A i \in Kept : flight[i] \in Items
    BY LenProperties, ElementOfSeq DEF Kept
  <1>2. /\ Cardinality(Kept) \in Nat
        /\ \A k \in 1..Cardinality(Kept) : Nth(Kept, k) \in Kept
        /\ \A i \in Kept : \E k \in 1..Cardinality(Kept) : Nth(Kept, k) = i
        /\ \A k, l \in 1..Cardinality(Kept) : k < l => Nth(Kept, k) < Nth(Kept, l)
    BY <1>1, CountedOff
  <1>3. Lasting = [k \in 1..Cardinality(Kept) |-> flight[Nth(Kept, k)]]
    BY DEF Lasting, Kept
  <1>4. \A k \in 1..Cardinality(Kept) : Lasting[k] = flight[Nth(Kept, k)] /\ Lasting[k] \in Items
    BY <1>1, <1>2, <1>3
  <1>5. Lasting \in Seq(Items)
    BY <1>2, <1>3, <1>4, FlightIsSeq
  <1>6. QED
    BY <1>2, <1>3, <1>4, <1>5

\* The rows can be replayed one after the other.
LEMMA ReplayOrder ==
    ASSUME IsFiniteSet(rows),
           NEW order, order = CHOOSE s \in [1..Cardinality(rows) -> rows] :
                                  \A i, j \in DOMAIN s : i # j => s[i] # s[j]
    PROVE  /\ Cardinality(rows) \in Nat /\ order \in [1..Cardinality(rows) -> rows]
           /\ \A i, j \in DOMAIN order : i # j => order[i] # order[j]
  <1>1. Cardinality(rows) \in Nat /\ ExistsBijection(1..Cardinality(rows), rows)
    BY FS_CardinalityType
  <1>2. PICK s \in Bijection(1..Cardinality(rows), rows) : TRUE
    BY <1>1 DEF ExistsBijection
  <1>3. /\ s \in [1..Cardinality(rows) -> rows]
        /\ \A i, j \in DOMAIN s : i # j => s[i] # s[j]
    <2>1. s \in Injection(1..Cardinality(rows), rows)
      BY <1>2 DEF Bijection
    <2>2. s \in [1..Cardinality(rows) -> rows] /\ DOMAIN s = 1..Cardinality(rows)
      BY <2>1 DEF Injection, IsInjective
    <2>3. \A i, j \in 1..Cardinality(rows) : s[i] = s[j] => i = j
      BY <2>1 DEF Injection, IsInjective
    <2>4. QED
      BY <2>2, <2>3
  <1>4. QED
    BY <1>1, <1>3

----------------------------------------------------------------------------
(* Lists.                                                                  *)

\* The members of a list, their marks, and what belongs to Lists.
LEMMA ListMembers ==
    /\ \A L \in Lists : /\ DOMAIN L \subseteq Messages /\ L = [m \in DOMAIN L |-> L[m]]
                        /\ \A m \in DOMAIN L : L[m] \in Faces
    /\ \A L : /\ L = [m \in DOMAIN L |-> L[m]] /\ DOMAIN L \subseteq Messages
              /\ \A m \in DOMAIN L : L[m] \in Faces
              => L \in Lists
    /\ Empty \in Lists /\ DOMAIN Empty = {}
  <1>1. Lists = UNION {[S -> Faces] : S \in SUBSET Messages}
    BY DEF Lists, Faces
  <1>2. ASSUME NEW L \in Lists
        PROVE  /\ DOMAIN L \subseteq Messages /\ L = [m \in DOMAIN L |-> L[m]]
               /\ \A m \in DOMAIN L : L[m] \in Faces
    <2>1. PICK S \in SUBSET Messages : L \in [S -> Faces]
      BY <1>1
    <2>2. QED
      BY <2>1
  <1>3. ASSUME NEW L, L = [m \in DOMAIN L |-> L[m]], DOMAIN L \subseteq Messages,
               \A m \in DOMAIN L : L[m] \in Faces
        PROVE  L \in Lists
    <2>1. L \in [DOMAIN L -> Faces] /\ DOMAIN L \in SUBSET Messages
      BY <1>3
    <2>2. QED
      BY <1>1, <2>1
  <1>4. Empty \in Lists /\ DOMAIN Empty = {}
    BY <1>3 DEF Empty
  <1>5. QED
    BY <1>2, <1>3, <1>4

\* Adding a message to a list, and changing one in it.
LEMMA ListChanges ==
    ASSUME NEW L \in Lists, NEW m, NEW x \in Faces
    PROVE  /\ m \in Messages => With(L, m, x) \in Lists
           /\ DOMAIN With(L, m, x) = DOMAIN L \cup {m}
           /\ Patch(L, m, x) \in Lists /\ DOMAIN Patch(L, m, x) = DOMAIN L
  <1>1. DOMAIN L \subseteq Messages /\ \A n \in DOMAIN L : L[n] \in Faces
    BY ListMembers
  <1>2. DOMAIN With(L, m, x) = DOMAIN L \cup {m}
        /\ With(L, m, x) = [n \in DOMAIN With(L, m, x) |-> With(L, m, x)[n]]
        /\ \A n \in DOMAIN With(L, m, x) : With(L, m, x)[n] \in Faces
    BY <1>1 DEF With
  <1>3. m \in Messages => With(L, m, x) \in Lists
    BY <1>1, <1>2, ListMembers
  <1>4. QED
    BY <1>1, <1>2, <1>3 DEF Patch

\* A message added to a list.
LEMMA AddedMessage ==
    ASSUME NEW L \in Lists, NEW m \in Messages, NEW x \in Faces
    PROVE  With(L, m, x) \in Lists
  BY ListChanges

----------------------------------------------------------------------------
(* The page.                                                               *)

Badges == UNION {[S -> Nat] : S \in SUBSET Chats}

Page == [active : Chats \cup {None}, shown : Lists, loading : BOOLEAN,
         mem : [Chats -> Lists \cup {None}], disk : [Chats -> Lists \cup {None}],
         chats : Badges, saved : Badges, greeted : BOOLEAN,
         owner : Chats \cup {None}, blurred : BOOLEAN, doubted : SUBSET Chats]

\* Whether p has m in a list of chat c: in a cache or, if that is still the one, on its screen.
Holds(p, c, m) ==
    \/ p.mem[c] # None /\ m \in DOMAIN p.mem[c]
    \/ p.disk[c] # None /\ m \in DOMAIN p.disk[c]
    \/ p.owner = c /\ ~p.blurred /\ m \in DOMAIN p.shown

\* The screen of q is the one of p, or one of the lists p has.
SameScreen(p, q) ==
    q.owner # None /\ ~q.blurred =>
        \/ q.owner = p.owner /\ ~p.blurred /\ DOMAIN q.shown \subseteq DOMAIN p.shown
        \/ q.owner \notin p.doubted /\ \A m \in DOMAIN q.shown : Holds(p, q.owner, m)

\* What q has, p has already.
Derived(p, q) ==
    /\ p.doubted \subseteq q.doubted
    /\ \A c \in Chats \ q.doubted, m \in Messages : Holds(q, c, m) => Holds(p, c, m)
    /\ SameScreen(p, q)

\* An open chat that is loaded has its own list on the screen.
Owned(p) == p.active # None /\ ~p.loading /\ ~p.blurred => p.owner = p.active

\* No badge of q is higher than in p.
Quieter(p, q) ==
    /\ q.saved = p.saved
    /\ \A c \in DOMAIN q.chats : c \in DOMAIN p.chats /\ q.chats[c] <= p.chats[c]

\* The badges of a page.
LEMMA BadgeMembers ==
    /\ \A B \in Badges : /\ DOMAIN B \subseteq Chats /\ B = [c \in DOMAIN B |-> B[c]]
                         /\ \A c \in DOMAIN B : B[c] \in Nat
    /\ \A B : /\ B = [c \in DOMAIN B |-> B[c]] /\ DOMAIN B \subseteq Chats
              /\ \A c \in DOMAIN B : B[c] \in Nat
              => B \in Badges
    /\ Empty \in Badges
  <1>1. ASSUME NEW B \in Badges
        PROVE  /\ DOMAIN B \subseteq Chats /\ B = [c \in DOMAIN B |-> B[c]]
               /\ \A c \in DOMAIN B : B[c] \in Nat
    <2>1. PICK S \in SUBSET Chats : B \in [S -> Nat]
      BY DEF Badges
    <2>2. QED
      BY <2>1
  <1>2. ASSUME NEW B, B = [c \in DOMAIN B |-> B[c]], DOMAIN B \subseteq Chats,
               \A c \in DOMAIN B : B[c] \in Nat
        PROVE  B \in Badges
    <2>1. B \in [DOMAIN B -> Nat] /\ DOMAIN B \in SUBSET Chats
      BY <1>2
    <2>2. QED
      BY <2>1 DEF Badges
  <1>3. Empty \in Badges
    BY <1>2 DEF Empty
  <1>4. QED
    BY <1>1, <1>2, <1>3

\* A change after a change.
LEMMA DerivedIsTransitive ==
    ASSUME ChatViewAssumption, NEW p \in Page, NEW q \in Page, NEW r \in Page,
           Derived(p, q), Derived(q, r)
    PROVE  Derived(p, r)
  <1>1. p.doubted \subseteq r.doubted
    BY DEF Derived
  <1>2. \A c \in Chats \ r.doubted, m \in Messages : Holds(r, c, m) => Holds(p, c, m)
    BY DEF Derived
  <1>3. ASSUME r.owner # None, ~r.blurred
        PROVE  \/ r.owner = p.owner /\ ~p.blurred /\ DOMAIN r.shown \subseteq DOMAIN p.shown
               \/ r.owner \notin p.doubted /\ \A m \in DOMAIN r.shown : Holds(p, r.owner, m)
    <2>1. r.owner \in Chats /\ DOMAIN r.shown \subseteq Messages
      BY <1>3, ListMembers DEF Page
    <2>2. CASE r.owner = q.owner /\ ~q.blurred /\ DOMAIN r.shown \subseteq DOMAIN q.shown
      BY <1>3, <2>2 DEF Derived, SameScreen
    <2>3. CASE r.owner \notin q.doubted /\ \A m \in DOMAIN r.shown : Holds(q, r.owner, m)
      BY <2>1, <2>3 DEF Derived
    <2>4. QED
      BY <1>3, <2>2, <2>3 DEF Derived, SameScreen
  <1>4. QED
    BY <1>1, <1>2, <1>3 DEF Derived, SameScreen

\* The history of a doubtful change.
LEMMA DoubtPage ==
    ASSUME ChatViewAssumption, NEW p \in Page, NEW c, NEW b \in BOOLEAN, b => c \in Chats
    PROVE  /\ Doubt(p, c, b) \in Page /\ Derived(p, Doubt(p, c, b))
           /\ Quieter(p, Doubt(p, c, b))
           /\ Owned(p) => Owned(Doubt(p, c, b))
           /\ b => c \in Doubt(p, c, b).doubted /\ Doubt(p, c, b).blurred
           /\ ~b => Doubt(p, c, b) = p
           /\ Doubt(p, c, b).active = p.active /\ Doubt(p, c, b).chats = p.chats
           /\ Doubt(p, c, b).greeted = p.greeted /\ Doubt(p, c, b).shown = p.shown
           /\ Doubt(p, c, b).loading = p.loading /\ Doubt(p, c, b).owner = p.owner
           /\ Doubt(p, c, b).mem = p.mem /\ Doubt(p, c, b).disk = p.disk
           /\ Doubt(p, c, b).doubted \ {c} = p.doubted \ {c}
  <1> DEFINE q == Doubt(p, c, b)
  <1>1. /\ q = p \/ q = [p EXCEPT !.doubted = @ \cup {c}, !.blurred = TRUE]
        /\ b => q = [p EXCEPT !.doubted = @ \cup {c}, !.blurred = TRUE]
        /\ ~b => q = p
    BY DEF Doubt
  <1> HIDE DEF q
  <1>2. /\ q \in Page /\ q.active = p.active /\ q.chats = p.chats /\ q.greeted = p.greeted
        /\ q.shown = p.shown /\ q.loading = p.loading /\ q.owner = p.owner
        /\ q.mem = p.mem /\ q.disk = p.disk /\ q.doubted \ {c} = p.doubted \ {c}
        /\ q.saved = p.saved
        /\ b => c \in q.doubted /\ q.blurred
        /\ p.doubted \subseteq q.doubted
        /\ q.blurred \/ q = p
    <2>1. CASE ~b
      BY <1>1, <2>1
    <2>2. CASE b
      <3>1. q = [p EXCEPT !.doubted = @ \cup {c}, !.blurred = TRUE] /\ c \in Chats
        BY <1>1, <2>2
      <3>2. q.doubted = p.doubted \cup {c} /\ q.blurred = TRUE
        BY <3>1 DEF Page
      <3>3. q.active = p.active /\ q.chats = p.chats /\ q.greeted = p.greeted
        BY <3>1 DEF Page
      <3>4. /\ q.shown = p.shown /\ q.loading = p.loading /\ q.owner = p.owner
            /\ q.mem = p.mem /\ q.disk = p.disk /\ q.saved = p.saved
        BY <3>1 DEF Page
      <3>5. p.doubted \cup {c} \in SUBSET Chats
        BY <3>1 DEF Page
      <3>6. q \in Page
        BY <3>1, <3>5 DEF Page
      <3>7. QED
        BY <2>2, <3>1, <3>2, <3>3, <3>4, <3>6
    <2>3. QED
      BY <2>1, <2>2
  <1>3. p.chats \in Badges
    BY DEF Page
  <1>4. Quieter(p, q)
    BY <1>2, <1>3, BadgeMembers DEF Quieter
  <1>5. Derived(p, q)
    BY <1>2 DEF Derived, Holds, SameScreen
  <1>6. Owned(p) => Owned(q)
    BY <1>2 DEF Owned
  <1>7. ~b => q = p
    BY <1>1
  <1>8. QED
    BY <1>2, <1>4, <1>5, <1>6, <1>7 DEF q

\* Dropping the copies of a chat, taking it off the list of chats, disowning its list.
LEMMA DropPage ==
    ASSUME ChatViewAssumption, NEW p \in Page, NEW c \in Chats,
           NEW q, q \in {DropMem(p, c), DropCaches(p, c), Unlist(p, c), Disown(p, c)}
    PROVE  /\ q \in Page /\ Derived(p, q) /\ Quieter(p, q)
           /\ q.active = p.active /\ q.shown = p.shown /\ q.loading = p.loading
           /\ q.greeted = p.greeted /\ q.blurred = p.blurred /\ q.doubted = p.doubted
           /\ q # Disown(p, c) \/ p.active # c => (Owned(p) => Owned(q))
  <1>0. p.chats \in Badges /\ DOMAIN p.chats \subseteq Chats
        /\ \A d \in DOMAIN p.chats : p.chats[d] \in Nat
    BY BadgeMembers DEF Page
  <1>1. CASE q = DropMem(p, c)
    <2>1. q = [p EXCEPT !.mem[c] = None]
      BY <1>1 DEF DropMem
    <2>2. /\ q \in Page /\ q.disk = p.disk /\ q.owner = p.owner /\ q.saved = p.saved
          /\ q.chats = p.chats /\ q.mem = [p.mem EXCEPT ![c] = None]
          /\ q.active = p.active /\ q.shown = p.shown /\ q.loading = p.loading
          /\ q.greeted = p.greeted /\ q.blurred = p.blurred /\ q.doubted = p.doubted
      BY <2>1 DEF Page
    <2>3. \A d \in Chats : q.mem[d] = p.mem[d] \/ q.mem[d] = None
      BY <2>2 DEF Page
    <2>4. Derived(p, q)
      BY <2>2, <2>3 DEF Derived, Holds, SameScreen
    <2>5. QED
      BY <1>0, <2>2, <2>4 DEF Quieter, Owned
  <1>2. CASE q = DropCaches(p, c)
    <2>1. q = [p EXCEPT !.mem[c] = None, !.disk[c] = None]
      BY <1>2 DEF DropCaches
    <2>2. /\ q \in Page /\ q.owner = p.owner /\ q.saved = p.saved
          /\ q.chats = p.chats /\ q.mem = [p.mem EXCEPT ![c] = None]
          /\ q.disk = [p.disk EXCEPT ![c] = None]
          /\ q.active = p.active /\ q.shown = p.shown /\ q.loading = p.loading
          /\ q.greeted = p.greeted /\ q.blurred = p.blurred /\ q.doubted = p.doubted
      BY <2>1 DEF Page
    <2>3. \A d \in Chats : /\ q.mem[d] = p.mem[d] \/ q.mem[d] = None
                           /\ q.disk[d] = p.disk[d] \/ q.disk[d] = None
      BY <2>2 DEF Page
    <2>4. Derived(p, q)
      BY <2>2, <2>3 DEF Derived, Holds, SameScreen
    <2>5. QED
      BY <1>0, <2>2, <2>4 DEF Quieter, Owned
  <1>3. CASE q = Unlist(p, c)
    <2> DEFINE B == [d \in DOMAIN p.chats \ {c} |-> p.chats[d]]
    <2>1. q = [p EXCEPT !.chats = B]
      BY <1>3 DEF Unlist
    <2>2. B \in Badges /\ \A d \in DOMAIN B : d \in DOMAIN p.chats /\ B[d] = p.chats[d]
      BY <1>0, BadgeMembers
    <2> HIDE DEF B
    <2>3. /\ q \in Page /\ q.owner = p.owner /\ q.saved = p.saved
          /\ q.chats = B /\ q.mem = p.mem /\ q.disk = p.disk
          /\ q.active = p.active /\ q.shown = p.shown /\ q.loading = p.loading
          /\ q.greeted = p.greeted /\ q.blurred = p.blurred /\ q.doubted = p.doubted
      BY <2>1, <2>2 DEF Page
    <2>4. Derived(p, q)
      BY <2>3 DEF Derived, Holds, SameScreen
    <2>5. QED
      BY <1>0, <2>2, <2>3, <2>4 DEF Quieter, Owned
  <1>4. CASE q = Disown(p, c)
    <2>1. q = [p EXCEPT !.owner = IF @ = c THEN None ELSE @]
      BY <1>4 DEF Disown
    <2>2. /\ q \in Page /\ q.owner = (IF p.owner = c THEN None ELSE p.owner)
          /\ q.saved = p.saved
          /\ q.chats = p.chats /\ q.mem = p.mem /\ q.disk = p.disk
          /\ q.active = p.active /\ q.shown = p.shown /\ q.loading = p.loading
          /\ q.greeted = p.greeted /\ q.blurred = p.blurred /\ q.doubted = p.doubted
      BY <2>1 DEF Page
    <2>3. Derived(p, q)
      <3>1. q.owner = None \/ q.owner = p.owner
        BY <2>2
      <3>2. None \notin Chats
        BY ChatViewAssumption DEF ChatViewAssumption
      <3>3. QED
        BY <2>2, <3>1, <3>2 DEF Derived, Holds, SameScreen
    <2>4. p.active # c => (Owned(p) => Owned(q))
      BY <2>2 DEF Owned
    <2>5. QED
      BY <1>0, <1>4, <2>2, <2>3, <2>4 DEF Quieter
  <1>5. QED
    BY <1>1, <1>2, <1>3, <1>4

\* What loadMessages finds is what the page has.
LEMMA CachedList ==
    ASSUME ChatViewAssumption, NEW p \in Page, NEW c \in Chats
    PROVE  /\ Cached(p, c) \in Lists \cup {None}
           /\ Cached(p, c) # None => \A m \in DOMAIN Cached(p, c) : Holds(p, c, m)
  BY DEF Cached, Page, Holds

\* loadMessages shows what the page has, and so does the list of what is asked.
LEMMA StartLoadPage ==
    ASSUME ChatViewAssumption, NEW p \in Page, NEW c \in Chats
    PROVE  /\ StartLoad(p, c) \in Page /\ Derived(p, StartLoad(p, c))
           /\ Quieter(p, StartLoad(p, c))
           /\ p.active = c => Owned(StartLoad(p, c))
           /\ StartLoad(p, c).active = p.active /\ StartLoad(p, c).chats = p.chats
           /\ StartLoad(p, c).greeted = p.greeted /\ StartLoad(p, c).doubted = p.doubted
  <1> DEFINE q == StartLoad(p, c)
             L == Cached(p, c)
  <1>0. p.chats \in Badges /\ DOMAIN p.chats \subseteq Chats
        /\ \A d \in DOMAIN p.chats : p.chats[d] \in Nat
    BY BadgeMembers DEF Page
  <1>1. L \in Lists \cup {None} /\ (L # None => \A m \in DOMAIN L : Holds(p, c, m))
    BY CachedList
  <1>2. CASE L = None
    <2>1. q = [p EXCEPT !.loading = TRUE]
      BY <1>2 DEF StartLoad
    <2> HIDE DEF q, L
    <2>2. /\ q \in Page /\ q.owner = p.owner /\ q.saved = p.saved
          /\ q.chats = p.chats /\ q.mem = p.mem /\ q.disk = p.disk
          /\ q.active = p.active /\ q.shown = p.shown /\ q.loading = TRUE
          /\ q.greeted = p.greeted /\ q.blurred = p.blurred /\ q.doubted = p.doubted
      BY <2>1 DEF Page
    <2>3. Derived(p, q)
      BY <2>2 DEF Derived, Holds, SameScreen
    <2>4. QED
      BY <1>0, <2>2, <2>3 DEF Quieter, Owned, q
  <1>3. CASE L # None
    <2>1. q = [p EXCEPT !.shown = L, !.mem[c] = L, !.loading = FALSE,
                        !.owner = c, !.blurred = c \in p.doubted]
      BY <1>3 DEF StartLoad
    <2> HIDE DEF q, L
    <2>2. L \in Lists
      BY <1>1, <1>3
    <2>3. q.owner = c /\ q.saved = p.saved
      BY <2>1 DEF Page
    <2>4. q.chats = p.chats /\ q.mem = [p.mem EXCEPT ![c] = L] /\ q.disk = p.disk
      BY <2>1 DEF Page
    <2>5. q.active = p.active /\ q.shown = L /\ q.loading = FALSE
      BY <2>1 DEF Page
    <2>6. q.greeted = p.greeted /\ q.blurred = (c \in p.doubted) /\ q.doubted = p.doubted
      BY <2>1 DEF Page
    <2>7. q \in Page
      <3>1. [p.mem EXCEPT ![c] = L] \in [Chats -> Lists \cup {None}]
        BY <2>2 DEF Page
      <3>2. (c \in p.doubted) \in BOOLEAN
        OBVIOUS
      <3>3. q = [active |-> p.active, shown |-> L, loading |-> FALSE,
                 mem |-> [p.mem EXCEPT ![c] = L], disk |-> p.disk, chats |-> p.chats,
                 saved |-> p.saved, greeted |-> p.greeted, owner |-> c,
                 blurred |-> (c \in p.doubted), doubted |-> p.doubted]
        BY <2>1 DEF Page
      <3>4. QED
        BY <2>2, <3>1, <3>2, <3>3 DEF Page
    <2>8. \A d \in Chats : q.mem[d] = (IF d = c THEN L ELSE p.mem[d])
      BY <2>4 DEF Page
    <2>9. Derived(p, q)
      <3>1. ASSUME NEW d \in Chats \ q.doubted, NEW m \in Messages, Holds(q, d, m)
            PROVE  Holds(p, d, m)
        <4>1. CASE d = c
          <5>1. m \in DOMAIN L \/ (p.disk[c] # None /\ m \in DOMAIN p.disk[c])
            BY <2>3, <2>4, <2>5, <2>8, <3>1, <4>1 DEF Holds
          <5>2. CASE m \in DOMAIN L
            BY <1>1, <1>3, <4>1, <5>2
          <5>3. CASE p.disk[c] # None /\ m \in DOMAIN p.disk[c]
            BY <4>1, <5>3 DEF Holds
          <5>4. QED
            BY <5>1, <5>2, <5>3
        <4>2. CASE d # c
          BY <2>3, <2>4, <2>8, <3>1, <4>2 DEF Holds
        <4>3. QED
          BY <4>1, <4>2
      <3>2. SameScreen(p, q)
        BY <1>1, <1>3, <2>3, <2>5, <2>6 DEF SameScreen
      <3>3. QED
        BY <2>6, <3>1, <3>2 DEF Derived
    <2>10. Quieter(p, q)
      BY <1>0, <2>3, <2>4 DEF Quieter
    <2>11. p.active = c => Owned(q)
      BY <2>3, <2>5 DEF Owned
    <2>12. QED
      BY <2>4, <2>5, <2>6, <2>7, <2>9, <2>10, <2>11 DEF q
  <1>4. QED
    BY <1>2, <1>3

\* Badges that do not grow.
LEMMA QuieterIsTransitive ==
    ASSUME NEW p \in Page, NEW q \in Page, NEW r \in Page, Quieter(p, q), Quieter(q, r)
    PROVE  Quieter(p, r)
  <1>1. \A B \in {p.chats, q.chats, r.chats} : \A c \in DOMAIN B : B[c] \in Nat
    BY BadgeMembers DEF Page
  <1>2. QED
    BY <1>1 DEF Quieter

\* A page with another chat open, or none.
LEMMA ActivePage ==
    ASSUME ChatViewAssumption, NEW p \in Page, NEW c \in Chats \cup {None}
    PROVE  /\ [p EXCEPT !.active = c] \in Page /\ Derived(p, [p EXCEPT !.active = c])
           /\ Quieter(p, [p EXCEPT !.active = c]) /\ [p EXCEPT !.active = c].active = c
  <1> DEFINE q == [p EXCEPT !.active = c]
  <1>0. p.chats \in Badges /\ DOMAIN p.chats \subseteq Chats
        /\ \A d \in DOMAIN p.chats : p.chats[d] \in Nat
    BY BadgeMembers DEF Page
  <1>1. /\ q \in Page /\ q.owner = p.owner /\ q.saved = p.saved
        /\ q.chats = p.chats /\ q.mem = p.mem /\ q.disk = p.disk
        /\ q.active = c /\ q.shown = p.shown
        /\ q.blurred = p.blurred /\ q.doubted = p.doubted
    BY DEF Page
  <1> HIDE DEF q
  <1>2. Derived(p, q)
    BY <1>1 DEF Derived, Holds, SameScreen
  <1>3. QED
    BY <1>0, <1>1, <1>2 DEF Quieter, q

\* The effects of a changed activeChatId.
LEMMA ActivatePage ==
    ASSUME ChatViewAssumption, NEW p \in Page, NEW c \in Chats \cup {None}
    PROVE  /\ Activate(p, c) \in Page /\ Derived(p, Activate(p, c))
           /\ Quieter(p, Activate(p, c)) /\ Owned(Activate(p, c))
  <1> DEFINE a == [p EXCEPT !.active = c]
  <1>1. a \in Page /\ Derived(p, a) /\ Quieter(p, a) /\ a.active = c
    BY ActivePage
  <1> HIDE DEF a
  <1>2. CASE c = None
    <2>1. Activate(p, c) = a
      BY <1>2 DEF Activate, a
    <2>2. Owned(a)
      BY <1>1, <1>2 DEF Owned
    <2>3. QED
      BY <1>1, <2>1, <2>2
  <1>3. CASE c # None
    <2> DEFINE b == OnReconnect(a, c)
               q == StartLoad(b, c)
    <2>1. c \in Chats
      BY <1>3
    <2>2. b \in Page /\ Derived(p, b) /\ Quieter(p, b) /\ b.active = c
      <3>1. CASE Rerun
        <4> DEFINE d == DropMem(a, c)
        <4>1. d \in Page /\ Derived(a, d) /\ Quieter(a, d) /\ d.active = c
          BY <1>1, <2>1, DropPage
        <4> HIDE DEF d
        <4>2. Derived(p, d) /\ Quieter(p, d)
          BY <1>1, <4>1, DerivedIsTransitive, QuieterIsTransitive
        <4>3. /\ StartLoad(d, c) \in Page /\ Derived(d, StartLoad(d, c))
              /\ Quieter(d, StartLoad(d, c)) /\ StartLoad(d, c).active = c
          BY <2>1, <4>1, StartLoadPage
        <4>4. Derived(p, StartLoad(d, c)) /\ Quieter(p, StartLoad(d, c))
          BY <4>1, <4>2, <4>3, DerivedIsTransitive, QuieterIsTransitive
        <4>5. b = StartLoad(d, c)
          BY <3>1 DEF OnReconnect, d
        <4>6. QED
          BY <4>3, <4>4, <4>5
      <3>2. CASE ~Rerun
        <4>1. b = a
          BY <3>2 DEF OnReconnect
        <4>2. QED
          BY <1>1, <4>1
      <3>3. QED
        BY <3>1, <3>2
    <2>3. Activate(p, c) = IF c \in DOMAIN q.chats THEN [q EXCEPT !.chats[c] = 0] ELSE q
      BY <1>3 DEF Activate, a
    <2> HIDE DEF b
    <2>4. q \in Page /\ Derived(b, q) /\ Quieter(b, q) /\ Owned(q)
      BY <2>1, <2>2, StartLoadPage
    <2> HIDE DEF q
    <2>5. Derived(p, q) /\ Quieter(p, q)
      BY <2>2, <2>4, DerivedIsTransitive, QuieterIsTransitive
    <2>6. CASE c \in DOMAIN q.chats
      <3> DEFINE r == [q EXCEPT !.chats[c] = 0]
      <3>0. q.chats \in Badges /\ DOMAIN q.chats \subseteq Chats
            /\ \A d \in DOMAIN q.chats : q.chats[d] \in Nat
        BY <2>4, BadgeMembers DEF Page
      <3>1. [q.chats EXCEPT ![c] = 0] \in Badges
        <4> DEFINE B == [q.chats EXCEPT ![c] = 0]
        <4>1. DOMAIN B \subseteq Chats /\ B = [d \in DOMAIN B |-> B[d]]
              /\ \A d \in DOMAIN B : B[d] \in Nat
          BY <3>0
        <4> HIDE DEF B
        <4>2. B \in Badges
          BY <4>1, BadgeMembers
        <4>3. QED
          BY <4>2 DEF B
      <3>2. r.chats = [q.chats EXCEPT ![c] = 0] /\ r.saved = q.saved /\ r.owner = q.owner
        BY <2>4 DEF Page
      <3>3. r.mem = q.mem /\ r.disk = q.disk /\ r.active = q.active /\ r.shown = q.shown
        BY <2>4 DEF Page
      <3>4. r.blurred = q.blurred /\ r.doubted = q.doubted /\ r.loading = q.loading
        BY <2>4 DEF Page
      <3>5. r \in Page
        BY <2>4, <3>1 DEF Page
      <3> HIDE DEF r
      <3>6. Derived(q, r)
        BY <3>2, <3>3, <3>4 DEF Derived, Holds, SameScreen
      <3>7. Quieter(q, r)
        BY <3>0, <3>2 DEF Quieter
      <3>8. Owned(r)
        BY <2>4, <3>2, <3>3, <3>4 DEF Owned
      <3>9. Derived(p, r) /\ Quieter(p, r)
        BY <2>4, <2>5, <3>5, <3>6, <3>7, DerivedIsTransitive, QuieterIsTransitive
      <3>10. Activate(p, c) = r
        BY <2>3, <2>6 DEF r
      <3>11. QED
        BY <3>5, <3>8, <3>9, <3>10
    <2>7. CASE c \notin DOMAIN q.chats
      BY <2>3, <2>4, <2>5, <2>7
    <2>8. QED
      BY <2>6, <2>7
  <1>4. QED
    BY <1>2, <1>3

Asked == [Chats \X BOOLEAN -> Nat]

\* One more request, or one less.
LEMMA AskedMore ==
    ASSUME NEW bag \in Asked, NEW c \in Chats, NEW b \in BOOLEAN
    PROVE  Add(bag, <<c, b>>) \in Asked /\ (bag[<<c, b>>] > 0 => Sub(bag, <<c, b>>) \in Asked)
  <1>1. <<c, b>> \in Chats \X BOOLEAN
    OBVIOUS
  <1>2. QED
    BY <1>1 DEF Add, Sub, Asked

\* What loadMessages asks.
LEMMA AskLoadBag ==
    ASSUME ChatViewAssumption, NEW bag \in Asked, NEW p, NEW c \in Chats
    PROVE  AskLoad(bag, p, c) \in Asked
  <1>1. (Cached(p, c) # None) \in BOOLEAN
    OBVIOUS
  <1>2. QED
    BY <1>1, AskedMore DEF AskLoad

\* What a changed activeChatId asks.
LEMMA AskActivateBag ==
    ASSUME ChatViewAssumption, NEW bag \in Asked, NEW p, NEW c \in Chats \cup {None}
    PROVE  AskActivate(bag, p, c) \in Asked
  <1>1. CASE c = None
    BY <1>1 DEF AskActivate
  <1>2. CASE c # None
    <2>1. c \in Chats
      BY <1>2
    <2>2. CASE Rerun
      <3>1. AskLoad(bag, DropMem(p, c), c) \in Asked
        BY <2>1, AskLoadBag
      <3>2. AskLoad(AskLoad(bag, DropMem(p, c), c), OnReconnect(p, c), c) \in Asked
        BY <2>1, <3>1, AskLoadBag
      <3>3. QED
        BY <1>2, <2>2, <3>2 DEF AskActivate
    <2>3. CASE ~Rerun
      BY <1>2, <2>1, <2>3, AskLoadBag DEF AskActivate
    <2>4. QED
      BY <2>2, <2>3
  <1>3. QED
    BY <1>1, <1>2

\* setActiveChatId.
LEMMA SetActivePage ==
    ASSUME ChatViewAssumption, NEW p \in Page, asked \in Asked, NEW c \in Chats \cup {None},
           SetActive(p, c)
    PROVE  /\ page' \in Page /\ Derived(p, page') /\ Quieter(p, page')
           /\ Owned(p) => Owned(page')
           /\ asked' \in Asked
  <1>1. CASE c = p.active
    <2>1. page' = p /\ asked' = asked
      BY <1>1 DEF SetActive
    <2>2. \A m \in DOMAIN p.shown : m \in DOMAIN p.shown
      OBVIOUS
    <2>3. Derived(p, p)
      BY DEF Derived, SameScreen
    <2>4. Quieter(p, p)
      BY BadgeMembers DEF Quieter, Page
    <2>5. QED
      BY <2>1, <2>3, <2>4
  <1>2. CASE c # p.active
    <2>1. page' = Activate(p, c) /\ asked' = AskActivate(asked, p, c)
      BY <1>2 DEF SetActive
    <2>2. AskActivate(asked, p, c) \in Asked
      BY AskActivateBag
    <2>3. /\ Activate(p, c) \in Page /\ Derived(p, Activate(p, c))
          /\ Quieter(p, Activate(p, c)) /\ Owned(Activate(p, c))
      BY ActivatePage
    <2>4. QED
      BY <2>1, <2>2, <2>3
  <1>3. QED
    BY <1>1, <1>2

----------------------------------------------------------------------------
(* Types.                                                                  *)

Doings == [chat : Chats, kind : {"cleared", "gone", "left"}, mine : BOOLEAN]

ServerTyped ==
    /\ home \in [Messages -> Chats \cup {None}]
    /\ marks \in [Messages -> SUBSET Marks]
    /\ purged \subseteq Messages /\ rows \subseteq Messages /\ twice \subseteq Messages
    /\ alive \subseteq Chats
    /\ doing \subseteq Doings

ClientTyped ==
    /\ line \in {"up", "down"}
    /\ page \in Page
    /\ asked \in Asked /\ listing \in BOOLEAN
    /\ events \in 0..MaxEvents

Typed == ServerTyped /\ ClientTyped /\ flight \in Seq(Items)

SentNew(m, c) == [New(m, FALSE) EXCEPT !.chat = c]
DoneWord(kind, c) == [Word("done", c) EXCEPT !.msg = kind]

\* A message that is sent.
LEMMA SentNewItem ==
    ASSUME ChatViewAssumption, ServerTyped, NEW m \in Messages, NEW c \in Chats
    PROVE  /\ SentNew(m, c) \in Items /\ SentNew(m, c).kind = "new"
           /\ SentNew(m, c).chat = c /\ SentNew(m, c).msg = m
  <1>1. PICK x : x = SentNew(m, c)
    OBVIOUS
  <1>2. x = [kind |-> "new", chat |-> c, msg |-> m, marks |-> marks[m],
             replayed |-> FALSE, late |-> FALSE]
    BY <1>1 DEF New, SentNew
  <1>3. x \in NewItem
    BY <1>2 DEF NewItem, ServerTyped
  <1>4. x \in Items
    BY <1>3 DEF Items
  <1>5. QED
    BY <1>1, <1>2, <1>4

\* A message that was sent, and is replayed or sent again.
LEMMA NewItemOf ==
    ASSUME ChatViewAssumption, ServerTyped, NEW m \in Messages, NEW b \in BOOLEAN,
           home[m] # None
    PROVE  /\ New(m, b) \in Items /\ New(m, b).kind = "new" /\ New(m, b).late = FALSE
           /\ New(m, b).chat = home[m] /\ New(m, b).msg = m /\ New(m, b).replayed = b
  <1>1. New(m, b) \in NewItem
    BY DEF New, NewItem, ServerTyped
  <1>2. QED
    BY <1>1 DEF New, Items

\* What happens to a message that was sent.
LEMMA MarkItemOf ==
    ASSUME ChatViewAssumption, ServerTyped, NEW m \in Messages, NEW mark \in Marks,
           home[m] # None
    PROVE  Mark(m, mark) \in Items /\ Mark(m, mark).kind = mark
  <1>1. Mark(m, mark) \in MarkItem
    BY DEF Mark, MarkItem, ServerTyped
  <1>2. QED
    BY <1>1 DEF Mark, Items

\* What happens to a chat.
LEMMA WordItemOf ==
    ASSUME NEW c \in Chats, NEW kind \in {"cleared", "gone", "changed"}
    PROVE  Word(kind, c) \in Items /\ Word(kind, c).kind = kind /\ Word(kind, c).chat = c
  BY DEF Word, WordItem, Items

\* The answer to one's own clearing, deletion or leaving.
LEMMA DoneWordItem ==
    ASSUME NEW c \in Chats, NEW kind \in {"cleared", "gone", "left"}
    PROVE  /\ DoneWord(kind, c) \in Items /\ DoneWord(kind, c).kind = "done"
           /\ DoneWord(kind, c).chat = c
  BY DEF DoneWord, Word, DoneItem, Items

\* The stored messages of a chat are a list.
LEMMA StoredList ==
    ASSUME ChatViewAssumption, ServerTyped, NEW c \in Chats
    PROVE  /\ Stored(c) \in Lists
           /\ \A m \in DOMAIN Stored(c) : home[m] = c /\ m \notin purged
  <1> DEFINE S == {n \in Messages : home[n] = c /\ n \notin purged}
  <1>1. /\ DOMAIN Stored(c) = S /\ Stored(c) = [m \in S |-> marks[m]]
        /\ \A m \in S : Stored(c)[m] \in Faces
    BY DEF Stored, ServerTyped, Faces
  <1>2. Stored(c) \in Lists
    BY <1>1, ListMembers
  <1>3. QED
    BY <1>1, <1>2

\* An answer of the server.
LEMMA AnswerItem ==
    ASSUME ChatViewAssumption, ServerTyped, NEW c \in Chats, NEW b \in BOOLEAN,
           NEW l \in BOOLEAN
    PROVE  LET x == [Answer(c, b) EXCEPT !.late = l]
           IN  /\ x \in Items /\ x.kind = "messages" /\ x.chat = c /\ x.data = Stored(c)
               /\ x.late = l
  <1>1. Stored(c) \in Lists
    BY StoredList
  <1>2. Answer(c, b) \in LoadItem /\ Answer(c, b).chat = c /\ Answer(c, b).data = Stored(c)
    BY <1>1 DEF Answer, LoadItem
  <1>3. PICK y \in LoadItem : y = Answer(c, b)
    BY <1>2
  <1>4. /\ [y EXCEPT !.late = l] \in LoadItem /\ [y EXCEPT !.late = l].kind = "messages"
        /\ [y EXCEPT !.late = l].chat = y.chat /\ [y EXCEPT !.late = l].data = y.data
        /\ [y EXCEPT !.late = l].late = l
    BY DEF LoadItem
  <1>5. QED
    BY <1>2, <1>3, <1>4 DEF Items

\* The answer of the chat list is a set of badges.
LEMMA ListedBadges ==
    ASSUME ChatViewAssumption, ServerTyped
    PROVE  Listed \in Badges /\ DOMAIN Listed = alive
           /\ \A c \in alive : Listed[c] = Cardinality({m \in rows : home[m] = c})
  <1>1. ASSUME NEW c \in alive
        PROVE  Listed[c] \in Nat /\ Listed[c] = Cardinality({m \in rows : home[m] = c})
    <2>1. {m \in rows : home[m] = c} \in SUBSET Messages /\ IsFiniteSet(Messages)
      BY ChatViewAssumption DEF ServerTyped, ChatViewAssumption
    <2>2. Cardinality({m \in rows : home[m] = c}) \in Nat
      BY <2>1, FS_Subset, FS_CardinalityType
    <2>3. QED
      BY <2>2 DEF Listed
  <1>2. Listed = [c \in DOMAIN Listed |-> Listed[c]] /\ DOMAIN Listed = alive
    BY DEF Listed
  <1>3. Listed \in Badges
    BY <1>1, <1>2, BadgeMembers DEF ServerTyped
  <1>4. QED
    BY <1>1, <1>2, <1>3

\* One more item under way, at the end.
LEMMA SentFlight ==
    ASSUME flight \in Seq(Items), NEW x \in Items, NEW F, F \in {Sent(x), Append(flight, x)}
    PROVE  /\ F \in Seq(Items) /\ Len(F) \in {Len(flight), Len(flight) + 1}
           /\ DOMAIN flight \subseteq DOMAIN F
           /\ \A j \in DOMAIN flight : F[j] = flight[j]
           /\ \A k \in DOMAIN F \ DOMAIN flight : k = Len(flight) + 1 /\ F[k] = x
           /\ F = Append(flight, x) \/ line = "up" =>
                 Len(flight) + 1 \in DOMAIN F /\ F[Len(flight) + 1] = x
  <1>1. Len(flight) \in Nat /\ DOMAIN flight = 1..Len(flight)
    BY LenProperties
  <1>2. /\ Append(flight, x) \in Seq(Items) /\ Len(Append(flight, x)) = Len(flight) + 1
        /\ \A j \in 1..Len(flight) : Append(flight, x)[j] = flight[j]
        /\ Append(flight, x)[Len(flight) + 1] = x
    BY AppendProperties
  <1>3. DOMAIN Append(flight, x) = 1..(Len(flight) + 1)
    BY <1>2, LenProperties
  <1>4. CASE F = Append(flight, x)
    BY <1>1, <1>2, <1>3, <1>4
  <1>5. CASE F = flight /\ line # "up" /\ F # Append(flight, x)
    BY <1>1, <1>5
  <1>6. QED
    BY <1>4, <1>5 DEF Sent

----------------------------------------------------------------------------
(* The inductive invariant.                                                *)

\* Messages belong to a chat once they were sent.
Sensible ==
    /\ rows \cap purged = {}
    /\ \A m \in rows \cup purged \cup twice : home[m] # None

\* What an item is about belongs to its chat, and is not purged unless the item is late.
ItemTrue(x, h, gone) ==
    /\ IsNew(x) => h[x.msg] = x.chat /\ (~x.late => x.msg \notin gone)
    /\ x.kind = "messages" =>
          \A m \in DOMAIN x.data : h[m] = x.chat /\ (~x.late => m \notin gone)
FlightTrue == \A i \in DOMAIN flight : ItemTrue(flight[i], home, purged)

OneDoing == \A d, e \in doing : d.chat = e.chat => d = e

\* The others were told that c is cleared or deleted, and the frame is under way.
Told(c) == \E i \in DOMAIN flight : flight[i].chat = c /\ flight[i].kind \in {"cleared", "gone"}

\* The frame about c is through, what it announced is not done.
Ahead(c) == \E d \in doing : d.chat = c /\ ~d.mine /\ ~Told(c)

\* A list of c may hold m.
Fine(m, c) == home[m] = c /\ (m \in purged => NewsOf(c)) /\ ~Ahead(c)

ListsFine ==
    \A c \in Chats \ page.doubted, m \in Messages : Holds(page, c, m) => Fine(m, c)

\* The list on the screen is of its owner.
ScreenTrue ==
    page.owner # None /\ ~page.blurred => \A m \in DOMAIN page.shown : home[m] = page.owner

ViewInv ==
    /\ Typed
    /\ Sensible
    /\ FlightTrue
    /\ OneDoing
    /\ ListsFine
    /\ ScreenTrue
    /\ Owned(page)

\* The invariant implies the properties that the runs check.
LEMMA ViewInvImplies ==
    ASSUME ChatViewAssumption, ViewInv
    PROVE  ChatViewTypeOK /\ ShownIsActive /\ CachesAreTrue
  <1>1. ChatViewTypeOK
    <2>1. page.chats \in Badges
      BY DEF ViewInv, Typed, ClientTyped, Page
    <2>2. DOMAIN page.chats \subseteq Chats /\ \A c \in DOMAIN page.chats : page.chats[c] \in Nat
      BY <2>1, BadgeMembers
    <2>3. /\ page.active \in Chats \cup {None} /\ page.owner \in Chats \cup {None}
          /\ page.shown \in Lists
          /\ page.mem \in [Chats -> Lists \cup {None}]
          /\ page.disk \in [Chats -> Lists \cup {None}]
      BY DEF ViewInv, Typed, ClientTyped, Page
    <2>4. QED
      BY <2>2, <2>3 DEF ViewInv, Typed, ServerTyped, ClientTyped, ChatViewTypeOK, Asked
  <1>2. ShownIsActive
    BY DEF ViewInv, ShownIsActive, Owned, ScreenTrue
  <1>3. CachesAreTrue
    <2>1. SUFFICES ASSUME NEW c \in Chats \ page.doubted,
                          NEW cache \in {page.mem[c], page.disk[c]}, cache # None,
                          NEW m \in DOMAIN cache
                   PROVE  home[m] = c /\ (m \in purged => NewsOf(c))
      BY DEF CachesAreTrue
    <2>2. cache \in Lists
      BY <2>1 DEF ViewInv, Typed, ClientTyped, Page
    <2>3. m \in Messages
      BY <2>1, <2>2, ListMembers
    <2>4. Holds(page, c, m)
      BY <2>1 DEF Holds
    <2>5. QED
      BY <2>3, <2>4 DEF ViewInv, ListsFine, Fine
  <1>4. QED
    BY <1>1, <1>2, <1>3

\* The first state.
LEMMA ViewInitInv ==
    ASSUME ChatViewAssumption, ViewInit
    PROVE  ViewInv
  <1> USE DEF ViewInit
  <1>1. Typed
    <2>1. ServerTyped
      BY DEF ServerTyped
    <2>2. page \in Page
      <3>1. Empty \in Lists /\ Empty \in Badges
        BY ListMembers, BadgeMembers
      <3>2. [c \in Chats |-> None] \in [Chats -> Lists \cup {None}]
        OBVIOUS
      <3>3. QED
        BY <3>1, <3>2 DEF Page
    <2>3. events \in 0..MaxEvents
      BY ChatViewAssumption DEF ChatViewAssumption
    <2>4. asked \in Asked
      BY DEF Asked
    <2>5. flight \in Seq(Items)
      BY EmptySeq
    <2>6. line \in {"up", "down"} /\ listing \in BOOLEAN
      OBVIOUS
    <2>7. QED
      BY <2>1, <2>2, <2>3, <2>4, <2>5, <2>6 DEF Typed, ClientTyped
  <1>2. Sensible /\ OneDoing
    BY DEF Sensible, OneDoing
  <1>3. FlightTrue
    BY DEF FlightTrue
  <1>4. \A c \in Chats, m \in Messages : ~Holds(page, c, m)
    <2>1. page.owner = None /\ None \notin Chats
      BY ChatViewAssumption DEF ChatViewAssumption
    <2>2. \A c \in Chats : page.mem[c] = None /\ page.disk[c] = None
      OBVIOUS
    <2>3. QED
      BY <2>1, <2>2 DEF Holds
  <1>5. ListsFine
    BY <1>4 DEF ListsFine
  <1>6. ScreenTrue /\ Owned(page)
    BY DEF ScreenTrue, Owned
  <1>7. QED
    BY <1>1, <1>2, <1>3, <1>5, <1>6 DEF ViewInv

----------------------------------------------------------------------------
(* What every step is made of.                                             *)

\* Items that were there before, or that are true of the messages, keep the flight true.
LEMMA FlightStays ==
    ASSUME ChatViewAssumption, Typed, FlightTrue,
           \A m \in Messages : home[m] # None => home'[m] = home[m],
           purged' = purged,
           \A k \in DOMAIN flight' :
              \/ \E j \in DOMAIN flight : Aged(flight[j], flight'[k])
              \/ ItemTrue(flight'[k], home', purged')
    PROVE  FlightTrue'
  <1>1. SUFFICES ASSUME NEW k \in DOMAIN flight'
                 PROVE  ItemTrue(flight'[k], home', purged')
    BY DEF FlightTrue
  <1>2. CASE ItemTrue(flight'[k], home', purged')
    BY <1>2
  <1>3. CASE \E j \in DOMAIN flight : Aged(flight[j], flight'[k])
    <2>1. PICK j \in DOMAIN flight : Aged(flight[j], flight'[k])
      BY <1>3
    <2>2. PICK x : x = flight[j]
      OBVIOUS
    <2>3. PICK y : y = flight'[k]
      OBVIOUS
    <2>4. x \in Items /\ Aged(x, y) /\ ItemTrue(x, home, purged)
      BY <2>1, <2>2, <2>3, ElementOfSeq, LenProperties DEF Typed, FlightTrue
    <2>5. None \notin Chats /\ x.chat \in Chats /\ x.late \in BOOLEAN
      BY <2>4, ItemFields, ChatViewAssumption DEF ChatViewAssumption
    <2>6. IsNew(y) => home'[y.msg] = y.chat /\ (~y.late => y.msg \notin purged')
      <3>1. SUFFICES ASSUME IsNew(y)
                     PROVE  home'[y.msg] = y.chat /\ (~y.late => y.msg \notin purged')
        OBVIOUS
      <3>2. IsNew(x) /\ x.msg = y.msg /\ x.chat = y.chat /\ (x.late => y.late)
        BY <2>4, <3>1 DEF Aged, IsNew
      <3>3. x.msg \in Messages
        BY <2>4, <3>2, ItemFields DEF IsNew, NewItem, OpenItem
      <3>4. home[x.msg] = x.chat /\ (~x.late => x.msg \notin purged)
        BY <2>4, <3>2 DEF ItemTrue
      <3>5. QED
        BY <2>5, <3>2, <3>3, <3>4
    <2>7. y.kind = "messages" =>
             \A m \in DOMAIN y.data : home'[m] = y.chat /\ (~y.late => m \notin purged')
      <3>1. SUFFICES ASSUME y.kind = "messages", NEW m \in DOMAIN y.data
                     PROVE  home'[m] = y.chat /\ (~y.late => m \notin purged')
        OBVIOUS
      <3>2. x.kind = "messages" /\ x.data = y.data /\ x.chat = y.chat /\ (x.late => y.late)
        BY <2>4, <3>1 DEF Aged
      <3>3. x.data \in Lists
        BY <2>4, <3>2, ItemFields DEF LoadItem
      <3>4. m \in Messages
        BY <3>1, <3>2, <3>3, ListMembers
      <3>5. home[m] = x.chat /\ (~x.late => m \notin purged)
        BY <2>4, <3>1, <3>2 DEF ItemTrue
      <3>6. QED
        BY <2>5, <3>2, <3>4, <3>5
    <2>8. QED
      BY <2>3, <2>6, <2>7 DEF ItemTrue
  <1>4. QED
    BY <1>2, <1>3

\* A list that is derived from those the page has is as good.
LEMMA ListsStay ==
    ASSUME ChatViewAssumption, page \in Page, page' \in Page, ListsFine, ScreenTrue,
           Derived(page, page'),
           \A m \in Messages : home[m] # None => home'[m] = home[m],
           \A c \in Chats \ page'.doubted, m \in Messages : Fine(m, c) => Fine(m, c)'
    PROVE  ListsFine' /\ ScreenTrue'
  <1>0. None \notin Chats
    BY ChatViewAssumption DEF ChatViewAssumption
  <1>1. \A c \in Chats \ page'.doubted, m \in Messages : Holds(page', c, m) => Fine(m, c)'
    BY DEF Derived, ListsFine
  <1>2. ASSUME page'.owner # None, ~page'.blurred, NEW m \in DOMAIN page'.shown
        PROVE  home'[m] = page'.owner
    <2>0. page'.owner \in Chats /\ m \in Messages
      BY <1>2, ListMembers DEF Page
    <2>1. CASE /\ page'.owner = page.owner /\ ~page.blurred
               /\ DOMAIN page'.shown \subseteq DOMAIN page.shown
      BY <1>0, <1>2, <2>0, <2>1 DEF ScreenTrue
    <2>2. CASE /\ page'.owner \notin page.doubted
               /\ \A n \in DOMAIN page'.shown : Holds(page, page'.owner, n)
      <3>1. Fine(m, page'.owner)
        BY <1>2, <2>0, <2>2 DEF ListsFine
      <3>2. QED
        BY <1>0, <2>0, <3>1 DEF Fine
    <2>3. QED
      BY <1>2, <2>1, <2>2 DEF Derived, SameScreen
  <1>3. ListsFine'
    BY <1>1 DEF ListsFine
  <1>4. ScreenTrue'
    BY <1>2 DEF ScreenTrue
  <1>5. QED
    BY <1>3, <1>4

NewsKinds == {"cleared", "gone", "done"}

\* News that are still under way.
LEMMA NewsStay ==
    ASSUME NEW c, \A j \in DOMAIN flight :
              flight[j].chat = c /\ flight[j].kind \in NewsKinds =>
                 \E k \in DOMAIN flight' : Aged(flight[j], flight'[k])
    PROVE  (NewsOf(c) => NewsOf(c)') /\ (Told(c) => Told(c)')
  BY DEF NewsOf, Told, NewsKinds, Aged

\* What was fine for a list is fine as long as the news are under way and nothing more is done.
LEMMA FineStays ==
    ASSUME NEW c, NEW m, home'[m] = home[m], purged' = purged,
           \A d \in doing' : d.chat = c /\ ~d.mine => \E e \in doing : e.chat = c /\ ~e.mine,
           NewsOf(c) => NewsOf(c)', Told(c) => Told(c)', Fine(m, c)
    PROVE  Fine(m, c)'
  BY DEF Fine, Ahead

\* The server has nothing to do with it.
LEMMA ServerStays ==
    ASSUME ViewInv, UNCHANGED <<server, twice>>
    PROVE  /\ ServerTyped' /\ Sensible' /\ OneDoing'
           /\ home' = home /\ purged' = purged /\ doing' = doing
  BY DEF server, ViewInv, Typed, ServerTyped, Sensible, OneDoing

\* An item is taken, and whatever comes of it.
LEMMA ItemTaken ==
    ASSUME ChatViewAssumption, ViewInv, NEW i \in DOMAIN flight, flight' = Taken(i),
           UNCHANGED <<server, twice>>
    PROVE  /\ flight' \in Seq(Items) /\ FlightTrue'
           /\ \A c \in Chats, m \in Messages :
                 /\ ~(flight[i].chat = c /\ flight[i].kind \in NewsKinds)
                 /\ Fine(m, c)
                 => Fine(m, c)'
  <1>1. flight \in Seq(Items)
    BY DEF ViewInv, Typed
  <1>2. home' = home /\ purged' = purged /\ doing' = doing
    BY ServerStays
  <1>3. flight' \in Seq(Items)
    BY <1>1, TakenItems
  <1>4. \A k \in DOMAIN flight' : \E j \in DOMAIN flight : Aged(flight[j], flight'[k])
    BY <1>1, TakenItems
  <1>5. \A j \in DOMAIN flight \ {i} : \E k \in DOMAIN flight' : Aged(flight[j], flight'[k])
    BY <1>1, TakenItems
  <1>6. FlightTrue'
    BY <1>2, <1>4, FlightStays DEF ViewInv
  <1>7. ASSUME NEW c \in Chats, NEW m \in Messages, Fine(m, c),
               ~(flight[i].chat = c /\ flight[i].kind \in NewsKinds)
        PROVE  Fine(m, c)'
    <2>1. \A j \in DOMAIN flight :
             flight[j].chat = c /\ flight[j].kind \in NewsKinds =>
                \E k \in DOMAIN flight' : Aged(flight[j], flight'[k])
      BY <1>5, <1>7
    <2>2. (NewsOf(c) => NewsOf(c)') /\ (Told(c) => Told(c)')
      BY <2>1, NewsStay
    <2>3. QED
      BY <1>2, <1>7, <2>2, FineStays
  <1>8. QED
    BY <1>3, <1>6, <1>7

\* The lists of chats other than c are those of the page, and the owner of its screen is c or
\* none, or the screen is that of the page.
OthersKept(p, q, c) ==
    /\ \A d \in Chats \ {c} : d \notin q.doubted => d \notin p.doubted
    /\ \A d \in Chats \ {c} : q.mem[d] = p.mem[d] /\ q.disk[d] = p.disk[d]
    /\ q.owner \notin {c, None} /\ ~q.blurred =>
          /\ q.owner = p.owner /\ ~p.blurred
          /\ DOMAIN q.shown \subseteq DOMAIN p.shown

\* A change of the lists of one chat: what is in them must be fine by itself.
LEMMA OneChatChanges ==
    ASSUME ChatViewAssumption, page \in Page, page' \in Page, ListsFine, ScreenTrue,
           home' = home, NEW c \in Chats, OthersKept(page, page', c),
           \A d \in Chats \ {c}, m \in Messages : Fine(m, d) => Fine(m, d)',
           c \notin page'.doubted =>
              \A m \in Messages : Holds(page', c, m) => Fine(m, c)',
           page'.owner = c /\ ~page'.blurred =>
              \A m \in DOMAIN page'.shown : home[m] = c
    PROVE  ListsFine' /\ ScreenTrue'
  <1>0. None \notin Chats
    BY ChatViewAssumption DEF ChatViewAssumption
  <1>1. ASSUME NEW d \in Chats \ page'.doubted, NEW m \in Messages, Holds(page', d, m)
        PROVE  Fine(m, d)'
    <2>1. CASE d = c
      BY <1>1, <2>1
    <2>2. CASE d # c
      <3>1. d \notin page.doubted
        BY <1>1, <2>2 DEF OthersKept
      <3>2. page'.mem[d] = page.mem[d] /\ page'.disk[d] = page.disk[d]
        BY <2>2 DEF OthersKept
      <3>3. page'.owner = d /\ ~page'.blurred =>
               /\ page'.owner = page.owner /\ ~page.blurred
               /\ DOMAIN page'.shown \subseteq DOMAIN page.shown
        BY <1>0, <2>2 DEF OthersKept
      <3>4. Holds(page, d, m)
        BY <1>1, <3>2, <3>3 DEF Holds
      <3>5. QED
        BY <2>2, <3>1, <3>4 DEF ListsFine
    <2>3. QED
      BY <2>1, <2>2
  <1>2. ASSUME page'.owner # None, ~page'.blurred, NEW m \in DOMAIN page'.shown
        PROVE  home'[m] = page'.owner
    <2>1. CASE page'.owner = c
      BY <1>2, <2>1
    <2>2. CASE page'.owner # c
      BY <1>2, <2>2 DEF OthersKept, ScreenTrue
    <2>3. QED
      BY <2>1, <2>2
  <1>3. ListsFine'
    BY <1>1 DEF ListsFine
  <1>4. ScreenTrue'
    BY <1>2 DEF ScreenTrue
  <1>5. QED
    BY <1>3, <1>4

\* The parts of the invariant that hold after an item is handled, but for the page.
HandledRest ==
    /\ ServerTyped' /\ Sensible' /\ OneDoing' /\ FlightTrue' /\ flight' \in Seq(Items)
    /\ line' \in {"up", "down"} /\ asked' \in Asked /\ listing' \in BOOLEAN
    /\ events' \in 0..MaxEvents

\* The parts together.
LEMMA PartsTogether ==
    ASSUME HandledRest, page' \in Page, ListsFine', ScreenTrue', Owned(page')
    PROVE  ViewInv'
  BY DEF HandledRest, ViewInv, Typed, ClientTyped

\* A page that only shows what it has.
LEMMA DerivedStep ==
    ASSUME ChatViewAssumption, ViewInv, HandledRest, page' \in Page, Derived(page, page'),
           home' = home, Owned(page'),
           \A c \in Chats \ page'.doubted, m \in Messages : Fine(m, c) => Fine(m, c)'
    PROVE  ViewInv'
  <1>1. page \in Page /\ ListsFine /\ ScreenTrue
    BY DEF ViewInv, Typed, ClientTyped
  <1>2. ListsFine' /\ ScreenTrue'
    BY <1>1, ListsStay
  <1>3. QED
    BY <1>2, PartsTogether

\* The same page.
LEMMA DerivedItself ==
    ASSUME NEW p \in Page
    PROVE  Derived(p, p) /\ Quieter(p, p)
  <1>1. \A c \in DOMAIN p.chats : p.chats[c] \in Nat
    BY BadgeMembers DEF Page
  <1>2. QED
    BY <1>1 DEF Derived, SameScreen, Quieter

----------------------------------------------------------------------------
(* Frames, decryptions and answers.                                        *)

\* A message or an edit starts to be decrypted.
LEMMA DecryptStep ==
    ASSUME ChatViewAssumption, ViewInv, NEW i \in DOMAIN flight, Decrypt(i)
    PROVE  ViewInv'
  <1>0. /\ flight \in Seq(Items) /\ page \in Page /\ ServerTyped /\ ClientTyped
        /\ UNCHANGED <<server, line, asked, listing, page, twice, events>>
        /\ flight[i].kind \in {"new", "edited"}
    BY DEF ViewInv, Typed, ClientTyped, Decrypt
  <1>1. PICK x : x = flight[i]
    OBVIOUS
  <1>2. x \in Items
    BY <1>0, <1>1, ElementOfSeq, LenProperties
  <1>3. PICK y : /\ y = [kind |-> IF x.kind = "new" THEN "openingNew" ELSE "openingEdit",
                         chat |-> x.chat, msg |-> x.msg, live |-> x.chat = page.active,
                         marks |-> (IF x.kind = "new" THEN x.marks ELSE {})
                                   \cup (IF x.chat \in DOMAIN page.chats THEN {}
                                         ELSE {"sealed"}),
                         bump |-> /\ x.kind = "new" /\ ~(x.chat = page.active)
                                  /\ x.msg \notin Own /\ ~x.replayed,
                         late |-> x.late]
                 /\ flight' = [Overtaken(x, i) EXCEPT ![i] = y]
    BY <1>1 DEF Decrypt
  <1>4. y \in Items /\ y.kind \notin NewsKinds /\ y.kind # "messages"
    <2>1. x.msg \in Messages /\ x.chat \in Chats /\ x.late \in BOOLEAN
      BY <1>0, <1>1, <1>2, ItemFields DEF NewItem, MarkItem
    <2>2. x.kind = "new" => x.marks \in SUBSET Marks /\ x.replayed \in BOOLEAN
      BY <1>2, ItemFields DEF NewItem
    <2>3. y.marks \in Faces
      BY <1>3, <2>2 DEF Faces
    <2>4. y.kind \in OpenKinds
      BY <1>0, <1>1, <1>2, <1>3, ItemFields DEF OpenKinds
    <2>5. y \in OpenItem
      <3>1. y.live \in BOOLEAN /\ y.bump \in BOOLEAN
        BY <1>3
      <3>2. y = [kind |-> y.kind, chat |-> y.chat, msg |-> y.msg, live |-> y.live,
                 marks |-> y.marks, bump |-> y.bump, late |-> y.late]
        BY <1>3
      <3>3. y.chat = x.chat /\ y.msg = x.msg /\ y.late = x.late
        BY <1>3
      <3>4. QED
        BY <2>1, <2>3, <2>4, <3>1, <3>2, <3>3 DEF OpenItem
    <2>6. QED
      BY <2>4, <2>5 DEF Items, OpenKinds, NewsKinds
  <1>5. IsNew(y) => IsNew(x) /\ y.msg = x.msg /\ y.chat = x.chat /\ y.late = x.late
    BY <1>0, <1>1, <1>3 DEF IsNew
  <1>6. /\ Overtaken(x, i) \in Seq(Items) /\ DOMAIN Overtaken(x, i) = DOMAIN flight
        /\ \A j \in DOMAIN flight : Aged(flight[j], Overtaken(x, i)[j])
    BY <1>0, OvertakenAges
  <1>7. /\ flight' \in Seq(Items) /\ DOMAIN flight' = DOMAIN flight /\ flight'[i] = y
        /\ \A j \in DOMAIN flight \ {i} : Aged(flight[j], flight'[j])
    <2>1. PICK F : F = Overtaken(x, i)
      OBVIOUS
    <2>2. F \in Seq(Items) /\ i \in 1..Len(F) /\ DOMAIN F = 1..Len(F)
      BY <1>6, <2>1, LenProperties
    <2>3. [F EXCEPT ![i] = y] \in Seq(Items)
      BY <1>4, <2>2, ExceptSeq
    <2>4. QED
      BY <1>3, <1>6, <2>1, <2>2, <2>3
  <1>8. ServerTyped' /\ Sensible' /\ OneDoing' /\ home' = home /\ purged' = purged
        /\ doing' = doing
    BY <1>0, ServerStays
  <1>9. FlightTrue'
    <2>1. ItemTrue(y, home', purged')
      <3>1. ItemTrue(x, home, purged)
        BY <1>1 DEF ViewInv, FlightTrue
      <3>2. QED
        BY <1>4, <1>5, <1>8, <3>1 DEF ItemTrue
    <2>2. \A k \in DOMAIN flight' :
              \/ \E j \in DOMAIN flight : Aged(flight[j], flight'[k])
              \/ ItemTrue(flight'[k], home', purged')
      BY <1>7, <2>1
    <2>3. QED
      BY <1>8, <2>2, FlightStays DEF ViewInv
  <1>10. ASSUME NEW c \in Chats, NEW m \in Messages, Fine(m, c)
         PROVE  Fine(m, c)'
    <2>1. \A j \in DOMAIN flight :
             flight[j].chat = c /\ flight[j].kind \in NewsKinds =>
                \E k \in DOMAIN flight' : Aged(flight[j], flight'[k])
      BY <1>0, <1>7 DEF NewsKinds
    <2>2. (NewsOf(c) => NewsOf(c)') /\ (Told(c) => Told(c)')
      BY <2>1, NewsStay
    <2>3. QED
      BY <1>8, <1>10, <2>2, FineStays
  <1>11. HandledRest
    BY <1>0, <1>7, <1>8, <1>9 DEF HandledRest, ClientTyped
  <1>12. page' = page /\ Derived(page, page) /\ Owned(page)
    BY <1>0, DerivedItself DEF ViewInv
  <1>13. QED
    BY <1>0, <1>8, <1>10, <1>11, <1>12, DerivedStep

\* setMessages with the caches of one chat written along.
LEMMA WritePage ==
    ASSUME NEW p \in Page, NEW c \in Chats, NEW L \in Lists, NEW q, q = Write(p, c, L)
    PROVE  /\ q \in Page /\ q.shown = L /\ q.mem[c] = L /\ q.disk[c] = L
           /\ \A d \in Chats \ {c} : q.mem[d] = p.mem[d] /\ q.disk[d] = p.disk[d]
           /\ q.owner = p.owner /\ q.blurred = p.blurred /\ q.doubted = p.doubted
           /\ q.active = p.active /\ q.loading = p.loading
           /\ q.chats = p.chats /\ q.saved = p.saved /\ q.greeted = p.greeted
  <1>1. q = [p EXCEPT !.shown = L, !.mem[c] = L, !.disk[c] = L]
    BY DEF Write
  <1>2. [p.mem EXCEPT ![c] = L] \in [Chats -> Lists \cup {None}]
        /\ [p.disk EXCEPT ![c] = L] \in [Chats -> Lists \cup {None}]
    BY DEF Page
  <1>3. q.mem = [p.mem EXCEPT ![c] = L] /\ q.disk = [p.disk EXCEPT ![c] = L]
    BY <1>1 DEF Page
  <1>4. /\ q.shown = L /\ q.owner = p.owner /\ q.blurred = p.blurred /\ q.doubted = p.doubted
        /\ q.active = p.active /\ q.loading = p.loading
        /\ q.chats = p.chats /\ q.saved = p.saved /\ q.greeted = p.greeted
    BY <1>1 DEF Page
  <1>5. q \in Page
    BY <1>1, <1>2 DEF Page
  <1>6. QED
    BY <1>3, <1>4, <1>5 DEF Page

Bump(p, c) == [p EXCEPT !.chats[c] = @ + 1]

\* One more in a badge.
LEMMA BumpPage ==
    ASSUME NEW p \in Page, NEW c \in Chats, c \in DOMAIN p.chats,
           NEW q, q = Bump(p, c)
    PROVE  /\ q \in Page /\ q.shown = p.shown /\ q.mem = p.mem /\ q.disk = p.disk
           /\ q.owner = p.owner /\ q.blurred = p.blurred /\ q.doubted = p.doubted
           /\ q.active = p.active /\ q.loading = p.loading
           /\ q.saved = p.saved /\ q.greeted = p.greeted
           /\ DOMAIN q.chats = DOMAIN p.chats
           /\ \A d \in DOMAIN p.chats :
                 q.chats[d] = IF d = c THEN p.chats[d] + 1 ELSE p.chats[d]
  <1> USE DEF Bump
  <1>0. DOMAIN p.chats \subseteq Chats /\ \A d \in DOMAIN p.chats : p.chats[d] \in Nat
    BY BadgeMembers DEF Page
  <1>1. [p.chats EXCEPT ![c] = @ + 1] \in Badges
    <2> DEFINE B == [p.chats EXCEPT ![c] = @ + 1]
    <2>1. /\ DOMAIN B \subseteq Chats /\ B = [d \in DOMAIN B |-> B[d]]
          /\ \A d \in DOMAIN B : B[d] \in Nat
      BY <1>0
    <2> HIDE DEF B
    <2>2. B \in Badges
      BY <2>1, BadgeMembers
    <2>3. QED
      BY <2>2 DEF B
  <1>2. q.chats = [p.chats EXCEPT ![c] = @ + 1]
    BY DEF Page
  <1>3. /\ q.shown = p.shown /\ q.mem = p.mem /\ q.disk = p.disk
        /\ q.owner = p.owner /\ q.blurred = p.blurred /\ q.doubted = p.doubted
        /\ q.active = p.active /\ q.loading = p.loading
        /\ q.saved = p.saved /\ q.greeted = p.greeted
    BY DEF Page
  <1>4. q \in Page
    BY <1>1 DEF Page
  <1>5. /\ DOMAIN q.chats = DOMAIN p.chats
        /\ \A d \in DOMAIN p.chats :
              q.chats[d] = IF d = c THEN p.chats[d] + 1 ELSE p.chats[d]
    BY <1>0, <1>2
  <1>6. QED
    BY <1>3, <1>4, <1>5

\* What holds of the item that is handled, and of the rest.
LEMMA Handled ==
    ASSUME ChatViewAssumption, ViewInv, NEW i \in DOMAIN flight, flight' = Taken(i),
           UNCHANGED <<server, line, twice, events>>, asked' \in Asked, listing' \in BOOLEAN
    PROVE  /\ HandledRest /\ home' = home /\ purged' = purged /\ doing' = doing
           /\ flight[i] \in Items /\ ItemTrue(flight[i], home, purged)
           /\ \A c \in Chats, m \in Messages :
                 /\ ~(flight[i].chat = c /\ flight[i].kind \in NewsKinds)
                 /\ Fine(m, c)
                 => Fine(m, c)'
           /\ page \in Page /\ ListsFine /\ ScreenTrue /\ Owned(page)
           /\ asked \in Asked /\ listing \in BOOLEAN
  <1>1. UNCHANGED <<server, twice>> /\ line' = line /\ events' = events
    BY DEF server
  <1>2. /\ ServerTyped' /\ Sensible' /\ OneDoing'
        /\ home' = home /\ purged' = purged /\ doing' = doing
    BY <1>1, ServerStays
  <1>3. /\ flight' \in Seq(Items) /\ FlightTrue'
        /\ \A c \in Chats, m \in Messages :
              /\ ~(flight[i].chat = c /\ flight[i].kind \in NewsKinds)
              /\ Fine(m, c)
              => Fine(m, c)'
    BY <1>1, ItemTaken
  <1>4. HandledRest
    BY <1>1, <1>2, <1>3 DEF HandledRest, ViewInv, Typed, ClientTyped
  <1>5. flight[i] \in Items
    BY ElementOfSeq, LenProperties DEF ViewInv, Typed
  <1>6. ItemTrue(flight[i], home, purged)
    BY DEF ViewInv, FlightTrue
  <1>7. QED
    BY <1>2, <1>3, <1>4, <1>5, <1>6 DEF ViewInv, Typed, ClientTyped

\* A page on which one chat changed: what the step needs for it.
LEMMA ChangedStep ==
    ASSUME ChatViewAssumption, ViewInv, HandledRest, page' \in Page, home' = home,
           NEW c \in Chats, OthersKept(page, page', c), Owned(page'),
           \A d \in Chats \ {c}, m \in Messages : Fine(m, d) => Fine(m, d)',
           c \notin page'.doubted =>
              \A m \in Messages : Holds(page', c, m) => Fine(m, c)',
           page'.owner = c /\ ~page'.blurred =>
              \A m \in DOMAIN page'.shown : home[m] = c
    PROVE  ViewInv'
  <1>1. page \in Page /\ ListsFine /\ ScreenTrue
    BY DEF ViewInv, Typed, ClientTyped
  <1>2. ListsFine' /\ ScreenTrue'
    BY <1>1, OneChatChanges
  <1>3. QED
    BY <1>2, PartsTogether

\* A new message is added to the open chat.
LEMMA ApplyNewStep ==
    ASSUME ChatViewAssumption, ViewInv, NEW i \in DOMAIN flight, ApplyNew(i)
    PROVE  ViewInv'
  <1>1. PICK x : x = flight[i]
    OBVIOUS
  <1> DEFINE known == x.chat \in DOMAIN page.chats
             p == IF known /\ x.bump THEN [page EXCEPT !.chats[x.chat] = @ + 1] ELSE page
             add == x.live /\ x.msg \notin DOMAIN p.shown
             list == With(p.shown, x.msg, x.marks)
             q == IF add THEN Write(p, x.chat, list) ELSE p
             b == x.live /\ (x.late \/ Doing(x.chat) \/ "sealed" \in x.marks
                             \/ ~OnTheRightList(page, x.chat))
  <1>2. /\ x.kind = "openingNew" /\ flight' = Taken(i)
        /\ UNCHANGED <<server, line, twice, events>>
        /\ asked' = asked /\ listing' = (listing \/ ~known)
        /\ page' = Doubt(q, x.chat, b)
    BY <1>1 DEF ApplyNew
  <1>3. asked' \in Asked /\ listing' \in BOOLEAN
    BY <1>2 DEF ViewInv, Typed, ClientTyped
  <1>4. /\ HandledRest /\ home' = home /\ purged' = purged /\ doing' = doing
        /\ x \in Items /\ ItemTrue(x, home, purged)
        /\ \A c \in Chats, m \in Messages :
              /\ ~(x.chat = c /\ x.kind \in NewsKinds)
              /\ Fine(m, c)
              => Fine(m, c)'
        /\ page \in Page /\ ListsFine /\ ScreenTrue /\ Owned(page)
    BY <1>1, <1>2, <1>3, Handled
  <1>5. /\ x.chat \in Chats /\ x.msg \in Messages /\ x.marks \in Faces
        /\ x.live \in BOOLEAN /\ x.late \in BOOLEAN /\ x.bump \in BOOLEAN
        /\ home[x.msg] = x.chat /\ (~x.late => x.msg \notin purged)
    BY <1>2, <1>4, ItemFields DEF OpenItem, ItemTrue, IsNew
  <1>6. \A c \in Chats, m \in Messages : Fine(m, c) => Fine(m, c)'
    BY <1>2, <1>4 DEF NewsKinds
  <1>7. /\ p \in Page /\ p.shown = page.shown /\ p.mem = page.mem /\ p.disk = page.disk
        /\ p.owner = page.owner /\ p.blurred = page.blurred /\ p.doubted = page.doubted
        /\ p.active = page.active /\ p.loading = page.loading
    <2>1. CASE known /\ x.bump
      <3>1. p = [page EXCEPT !.chats[x.chat] = @ + 1] /\ x.chat \in DOMAIN page.chats
        BY <2>1
      <3> HIDE DEF p
      <3>2. PICK c : c = x.chat
        OBVIOUS
      <3>3. c \in Chats /\ c \in DOMAIN page.chats /\ p = Bump(page, c)
        BY <1>5, <3>1, <3>2 DEF Bump
      <3>4. page \in Page
        BY <1>4
      <3>5. PICK r : r = Bump(page, c)
        OBVIOUS
      <3>6. /\ r \in Page /\ r.shown = page.shown /\ r.mem = page.mem /\ r.disk = page.disk
            /\ r.owner = page.owner /\ r.blurred = page.blurred /\ r.doubted = page.doubted
            /\ r.active = page.active /\ r.loading = page.loading
        BY <3>3, <3>4, <3>5, BumpPage
      <3>7. QED
        BY <3>3, <3>5, <3>6
    <2>2. CASE ~(known /\ x.bump)
      <3>1. p = page
        BY <2>2
      <3> HIDE DEF p
      <3>2. QED
        BY <1>4, <3>1
    <2>3. QED
      BY <2>1, <2>2
  <1>8. list \in Lists /\ DOMAIN list = DOMAIN page.shown \cup {x.msg}
    <2> HIDE DEF p
    <2>1. PICK L : L = p.shown
      OBVIOUS
    <2>2. L \in Lists /\ L = page.shown
      BY <1>7, <2>1 DEF Page
    <2>3. PICK n : n = x.msg
      OBVIOUS
    <2>4. PICK f : f = x.marks
      OBVIOUS
    <2>5. list = With(L, n, f)
      BY <2>1, <2>3, <2>4
    <2> HIDE DEF list
    <2>6. n \in Messages /\ f \in Faces
      BY <1>5, <2>3, <2>4
    <2>7. With(L, n, f) \in Lists
      BY <2>2, <2>6, AddedMessage
    <2>8. DOMAIN With(L, n, f) = DOMAIN L \cup {n}
      BY DEF With
    <2>9. QED
      BY <2>2, <2>3, <2>5, <2>7, <2>8
  <1> HIDE DEF p
  <1> HIDE DEF list
  <1>9. /\ q \in Page
        /\ add => q.shown = list /\ q.mem[x.chat] = list /\ q.disk[x.chat] = list
        /\ ~add => q.shown = page.shown /\ q.mem = page.mem /\ q.disk = page.disk
        /\ \A d \in Chats \ {x.chat} : q.mem[d] = page.mem[d] /\ q.disk[d] = page.disk[d]
        /\ q.owner = page.owner /\ q.blurred = page.blurred /\ q.doubted = page.doubted
        /\ q.active = page.active /\ q.loading = page.loading
    <2>1. CASE add
      BY <1>5, <1>7, <1>8, <2>1, WritePage
    <2>2. CASE ~add
      BY <1>7, <2>2
    <2>3. QED
      BY <2>1, <2>2
  <1> HIDE DEF q
  <1>10. b \in BOOLEAN /\ (b = TRUE \/ b = FALSE)
    BY <1>5
  <1>11. /\ page' \in Page
         /\ b => x.chat \in page'.doubted /\ page'.blurred
         /\ ~b => page' = q
         /\ page'.active = q.active /\ page'.shown = q.shown /\ page'.loading = q.loading
         /\ page'.owner = q.owner /\ page'.mem = q.mem /\ page'.disk = q.disk
         /\ page'.doubted \ {x.chat} = q.doubted \ {x.chat}
    BY <1>2, <1>5, <1>9, <1>10, DoubtPage
  <1>12. OthersKept(page, page', x.chat)
    <2>1. page'.owner \notin {x.chat, None} /\ ~page'.blurred => ~add
      BY <1>9, <1>10, <1>11 DEF OnTheRightList
    <2>2. QED
      BY <1>9, <1>11, <2>1 DEF OthersKept
  <1>13. Owned(page')
    BY <1>4, <1>9, <1>11 DEF Owned
  <1>14. add /\ ~b => /\ page.owner = x.chat /\ ~page.blurred /\ ~x.late /\ ~Doing(x.chat)
    BY DEF OnTheRightList
  <1>15. ASSUME x.chat \notin page'.doubted, NEW m \in Messages, Holds(page', x.chat, m)
         PROVE  Fine(m, x.chat)'
    <2>1. ~b /\ page' = q /\ x.chat \notin page.doubted
      BY <1>9, <1>11, <1>15
    <2>2. CASE Holds(page, x.chat, m)
      BY <1>4, <1>5, <1>6, <2>1, <2>2 DEF ListsFine
    <2>3. CASE ~Holds(page, x.chat, m)
      <3>1. add /\ m = x.msg
        BY <1>8, <1>9, <1>14, <1>15, <2>1, <2>3 DEF Holds
      <3>2. ~x.late /\ ~Doing(x.chat)
        BY <1>14, <2>1, <3>1
      <3>3. home'[m] = x.chat /\ m \notin purged'
        BY <1>4, <1>5, <3>1, <3>2
      <3>4. ~Ahead(x.chat)'
        BY <1>4, <3>2 DEF Ahead, Doing
      <3>5. QED
        BY <3>3, <3>4 DEF Fine
    <2>4. QED
      BY <2>2, <2>3
  <1>16. ASSUME page'.owner = x.chat, ~page'.blurred, NEW m \in DOMAIN page'.shown
         PROVE  home[m] = x.chat
    <2>1. ~b /\ page' = q /\ page.owner = x.chat /\ ~page.blurred
      BY <1>9, <1>11, <1>16
    <2>2. m \in DOMAIN page.shown \/ m = x.msg
      BY <1>8, <1>9, <1>16, <2>1
    <2>3. x.chat # None
      BY <1>5, ChatViewAssumption DEF ChatViewAssumption
    <2>4. QED
      BY <1>4, <1>5, <2>1, <2>2, <2>3 DEF ScreenTrue
  <1>17. QED
    BY <1>4, <1>5, <1>6, <1>11, <1>12, <1>13, <1>15, <1>16, ChangedStep

\* A mark on the list on the screen, written to the caches of its chat.
LEMMA MarkedPage ==
    ASSUME ChatViewAssumption, NEW p \in Page, NEW c \in Chats, NEW m \in Messages,
           NEW mark \in Marks, NEW sealed \in Faces, NEW b \in BOOLEAN,
           b \/ OnTheRightList(p, c), Owned(p),
           NEW q, q = Doubt(MarkShown(p, c, m, mark, sealed), c, b)
    PROVE  q \in Page /\ Derived(p, q) /\ Owned(q) /\ Quieter(p, q)
  <1> DEFINE f == ((IF m \in DOMAIN p.shown THEN p.shown[m] ELSE {})
                   \ (IF mark = "edited" THEN {"sealed"} ELSE {}))
                  \cup {mark} \cup sealed
             L == Patch(p.shown, m, f)
             r == Write(p, c, L)
  <1>1. p.shown \in Lists
    BY DEF Page
  <1>2. f \in Faces
    <2>1. (IF m \in DOMAIN p.shown THEN p.shown[m] ELSE {}) \in Faces
      BY <1>1, ListMembers DEF Faces
    <2>2. QED
      BY <2>1 DEF Faces
  <1>3. MarkShown(p, c, m, mark, sealed) = r
    BY DEF MarkShown
  <1> HIDE DEF f
  <1>4. L \in Lists /\ DOMAIN L = DOMAIN p.shown
    BY <1>1, <1>2, ListChanges
  <1> HIDE DEF L
  <1>5. /\ r \in Page /\ r.shown = L /\ r.mem[c] = L /\ r.disk[c] = L
        /\ \A d \in Chats \ {c} : r.mem[d] = p.mem[d] /\ r.disk[d] = p.disk[d]
        /\ r.owner = p.owner /\ r.blurred = p.blurred /\ r.doubted = p.doubted
        /\ r.active = p.active /\ r.loading = p.loading
        /\ r.chats = p.chats /\ r.saved = p.saved
    BY <1>4, WritePage
  <1> HIDE DEF r
  <1>6. /\ q \in Page /\ Derived(r, q) /\ Quieter(r, q)
        /\ b => c \in q.doubted /\ q.blurred
        /\ ~b => q = r
        /\ q.active = r.active /\ q.shown = r.shown /\ q.loading = r.loading
        /\ q.owner = r.owner /\ q.mem = r.mem /\ q.disk = r.disk
        /\ q.doubted \ {c} = r.doubted \ {c}
    BY <1>3, <1>5, DoubtPage
  <1>7. Owned(q)
    BY <1>5, <1>6 DEF Owned
  <1>8. Quieter(p, q)
    <2>1. Quieter(p, r)
      BY <1>5, DerivedItself DEF Quieter
    <2>2. QED
      BY <1>5, <1>6, <2>1, QuieterIsTransitive
  <1>9. Derived(p, q)
    <2>1. p.doubted \subseteq q.doubted
      BY <1>5, <1>6 DEF Derived
    <2>2. ASSUME NEW d \in Chats \ q.doubted, NEW n \in Messages, Holds(q, d, n)
          PROVE  Holds(p, d, n)
      <3>1. CASE d = c
        <4>1. q = r /\ p.owner = c /\ ~p.blurred
          BY <1>6, <2>2, <3>1 DEF OnTheRightList
        <4>2. n \in DOMAIN p.shown
          BY <1>4, <1>5, <2>2, <3>1, <4>1 DEF Holds
        <4>3. QED
          BY <3>1, <4>1, <4>2 DEF Holds
      <3>2. CASE d # c
        <4>1. q.mem[d] = p.mem[d] /\ q.disk[d] = p.disk[d]
          BY <1>5, <1>6, <3>2
        <4>2. CASE q.owner = d /\ ~q.blurred /\ n \in DOMAIN q.shown
          <5>1. q = r
            BY <1>6, <4>2
          <5>2. QED
            BY <1>4, <1>5, <4>2, <5>1 DEF Holds
        <4>3. QED
          BY <2>2, <4>1, <4>2 DEF Holds
      <3>3. QED
        BY <3>1, <3>2
    <2>3. SameScreen(p, q)
      <3>1. CASE b
        BY <1>6, <3>1 DEF SameScreen
      <3>2. CASE ~b
        BY <1>4, <1>5, <1>6, <3>2 DEF SameScreen
      <3>3. QED
        BY <3>1, <3>2
    <2>4. QED
      BY <2>1, <2>2, <2>3 DEF Derived
  <1>10. QED
    BY <1>6, <1>7, <1>8, <1>9


\* A mark that was handled: the page shows it where it showed the message.
LEMMA MarkedStep ==
    ASSUME ChatViewAssumption, ViewInv, HandledRest, home' = home,
           \A c \in Chats, m \in Messages : Fine(m, c) => Fine(m, c)',
           NEW c \in Chats, NEW m \in Messages, NEW mark \in Marks, NEW sealed \in Faces,
           NEW b \in BOOLEAN, b \/ OnTheRightList(page, c),
           page' = Doubt(MarkShown(page, c, m, mark, sealed), c, b)
    PROVE  ViewInv'
  <1>1. page \in Page /\ Owned(page)
    BY DEF ViewInv, Typed, ClientTyped
  <1>2. PICK q : q = Doubt(MarkShown(page, c, m, mark, sealed), c, b)
    OBVIOUS
  <1>3. q \in Page /\ Derived(page, q) /\ Owned(q)
    BY <1>1, <1>2, MarkedPage
  <1>4. page' = q
    BY <1>2
  <1>5. page' \in Page /\ Derived(page, page') /\ Owned(page')
    BY <1>3, <1>4
  <1>6. QED
    BY <1>5, DerivedStep

\* An edit is decrypted.
LEMMA ApplyEditStep ==
    ASSUME ChatViewAssumption, ViewInv, NEW i \in DOMAIN flight, ApplyEdit(i)
    PROVE  ViewInv'
  <1>1. PICK x : x = flight[i]
    OBVIOUS
  <1>2. PICK b : b = (x.late \/ x.marks # {} \/ ~OnTheRightList(page, x.chat))
    OBVIOUS
  <1>3. /\ x.kind = "openingEdit" /\ flight' = Taken(i)
        /\ UNCHANGED <<server, line, twice, events>>
        /\ asked' = asked /\ listing' = listing
        /\ page' = Doubt(MarkShown(page, x.chat, x.msg, "edited", x.marks), x.chat, b)
    BY <1>1, <1>2 DEF ApplyEdit
  <1>4. asked' \in Asked /\ listing' \in BOOLEAN
    BY <1>3 DEF ViewInv, Typed, ClientTyped
  <1>5. /\ HandledRest /\ home' = home
        /\ x \in Items
        /\ \A c \in Chats, m \in Messages :
              /\ ~(x.chat = c /\ x.kind \in NewsKinds)
              /\ Fine(m, c)
              => Fine(m, c)'
    BY <1>1, <1>3, <1>4, Handled
  <1>6. /\ x.chat \in Chats /\ x.msg \in Messages /\ x.marks \in Faces
        /\ "edited" \in Marks /\ b \in BOOLEAN
    BY <1>2, <1>3, <1>5, ItemFields DEF OpenItem
  <1>7. \A c \in Chats, m \in Messages : Fine(m, c) => Fine(m, c)'
    BY <1>3, <1>5 DEF NewsKinds
  <1>8. b \/ OnTheRightList(page, x.chat)
    BY <1>2
  <1>9. QED
    BY <1>3, <1>5, <1>6, <1>7, <1>8, MarkedStep

\* The page stays as it is.
LEMMA SamePageStep ==
    ASSUME ChatViewAssumption, ViewInv, HandledRest, home' = home, page' = page,
           \A c \in Chats, m \in Messages : Fine(m, c) => Fine(m, c)'
    PROVE  ViewInv'
  <1>1. page' \in Page /\ Derived(page, page') /\ Owned(page')
    BY DerivedItself DEF ViewInv, Typed, ClientTyped
  <1>2. QED
    BY <1>1, DerivedStep

\* Files are added to a message, or it is deleted.
LEMMA ApplyMarkStep ==
    ASSUME ChatViewAssumption, ViewInv, NEW i \in DOMAIN flight, ApplyMark(i)
    PROVE  ViewInv'
  <1>1. PICK x : x = flight[i]
    OBVIOUS
  <1>2. PICK b : b = (x.late \/ ~OnTheRightList(page, x.chat))
    OBVIOUS
  <1>3. /\ x.kind \in {"files", "deleted"} /\ flight' = Taken(i)
        /\ UNCHANGED <<server, line, twice, events>>
        /\ asked' = asked /\ listing' = (listing \/ x.kind = "deleted")
        /\ page' = IF x.chat # page.active THEN page
                   ELSE Doubt(MarkShown(page, x.chat, x.msg, x.kind, {}), x.chat, b)
    BY <1>1, <1>2 DEF ApplyMark
  <1>4. asked' \in Asked /\ listing' \in BOOLEAN
    BY <1>3 DEF ViewInv, Typed, ClientTyped
  <1>5. /\ HandledRest /\ home' = home
        /\ x \in Items
        /\ \A c \in Chats, m \in Messages :
              /\ ~(x.chat = c /\ x.kind \in NewsKinds)
              /\ Fine(m, c)
              => Fine(m, c)'
    BY <1>1, <1>3, <1>4, Handled
  <1>6. x.kind \in Marks
    BY <1>3, <1>5, ItemFields
  <1>7. x.chat \in Chats /\ x.msg \in Messages /\ {} \in Faces /\ b \in BOOLEAN
    BY <1>2, <1>5, <1>6, ItemFields DEF MarkItem, Faces
  <1>8. \A c \in Chats, m \in Messages : Fine(m, c) => Fine(m, c)'
    BY <1>3, <1>5 DEF NewsKinds
  <1>9. b \/ OnTheRightList(page, x.chat)
    BY <1>2
  <1>10. CASE x.chat # page.active
    BY <1>3, <1>5, <1>8, <1>10, SamePageStep
  <1>11. CASE x.chat = page.active
    <2>1. page' = Doubt(MarkShown(page, x.chat, x.msg, x.kind, {}), x.chat, b)
      BY <1>3, <1>11
    <2>2. QED
      BY <1>5, <1>6, <1>7, <1>8, <1>9, <2>1, MarkedStep
  <1>12. QED
    BY <1>10, <1>11

\* An edit of a chat that is not open.
LEMMA IgnoreEditStep ==
    ASSUME ChatViewAssumption, ViewInv, NEW i \in DOMAIN flight, IgnoreEdit(i)
    PROVE  ViewInv'
  <1>1. PICK x : x = flight[i]
    OBVIOUS
  <1>2. /\ x.kind = "edited" /\ flight' = Taken(i)
        /\ UNCHANGED <<server, line, twice, events>>
        /\ asked' = asked /\ listing' = listing /\ page' = page
    BY <1>1 DEF IgnoreEdit
  <1>3. asked' \in Asked /\ listing' \in BOOLEAN
    BY <1>2 DEF ViewInv, Typed, ClientTyped
  <1>4. /\ HandledRest /\ home' = home
        /\ \A c \in Chats, m \in Messages :
              /\ ~(x.chat = c /\ x.kind \in NewsKinds)
              /\ Fine(m, c)
              => Fine(m, c)'
    BY <1>1, <1>2, <1>3, Handled
  <1>5. \A c \in Chats, m \in Messages : Fine(m, c) => Fine(m, c)'
    BY <1>2, <1>4 DEF NewsKinds
  <1>6. QED
    BY <1>2, <1>4, <1>5, SamePageStep

\* A group or pin event: the open chat is loaded again.
LEMMA OnChangedStep ==
    ASSUME ChatViewAssumption, ViewInv, NEW i \in DOMAIN flight, OnChanged(i)
    PROVE  ViewInv'
  <1>1. PICK x : x = flight[i]
    OBVIOUS
  <1>2. /\ x.kind = "changed" /\ flight' = Taken(i)
        /\ UNCHANGED <<server, line, twice, events>>
        /\ IF x.chat = page.active
           THEN page' = StartLoad(page, x.chat) /\ asked' = AskLoad(asked, page, x.chat)
           ELSE page' = page /\ asked' = asked
        /\ listing' \in {listing, TRUE}
    BY <1>1 DEF OnChanged
  <1>3. x \in Items /\ x.chat \in Chats /\ page \in Page /\ asked \in Asked
        /\ listing \in BOOLEAN
    BY <1>1, ElementOfSeq, LenProperties, ItemFields DEF ViewInv, Typed, ClientTyped
  <1>4. AskLoad(asked, page, x.chat) \in Asked
    BY <1>3, AskLoadBag
  <1>5. asked' \in Asked /\ listing' \in BOOLEAN
    BY <1>2, <1>3, <1>4
  <1>6. /\ HandledRest /\ home' = home
        /\ \A c \in Chats, m \in Messages :
              /\ ~(x.chat = c /\ x.kind \in NewsKinds)
              /\ Fine(m, c)
              => Fine(m, c)'
    BY <1>1, <1>2, <1>5, Handled
  <1>7. \A c \in Chats, m \in Messages : Fine(m, c) => Fine(m, c)'
    BY <1>2, <1>6 DEF NewsKinds
  <1>8. CASE x.chat # page.active
    BY <1>2, <1>6, <1>7, <1>8, SamePageStep
  <1>9. CASE x.chat = page.active
    <2>1. PICK q : q = StartLoad(page, x.chat)
      OBVIOUS
    <2>2. q \in Page /\ Derived(page, q) /\ Owned(q)
      BY <1>3, <1>9, <2>1, StartLoadPage
    <2>3. page' = q
      BY <1>2, <1>9, <2>1
    <2>4. page' \in Page /\ Derived(page, page') /\ Owned(page')
      BY <2>2, <2>3
    <2>5. QED
      BY <1>6, <1>7, <2>4, DerivedStep
  <1>10. QED
    BY <1>8, <1>9

----------------------------------------------------------------------------
(* Clearing, deletion, answers.                                            *)

\* The fields of a page whose chat c loses its copies.
LEMMA DropCachesFields ==
    ASSUME NEW p \in Page, NEW c \in Chats, NEW q, q = DropCaches(p, c)
    PROVE  /\ q \in Page /\ q.mem[c] = None /\ q.disk[c] = None
           /\ \A d \in Chats \ {c} : q.mem[d] = p.mem[d] /\ q.disk[d] = p.disk[d]
           /\ q.shown = p.shown /\ q.owner = p.owner /\ q.blurred = p.blurred
           /\ q.doubted = p.doubted /\ q.active = p.active /\ q.loading = p.loading
           /\ q.chats = p.chats /\ q.saved = p.saved
  <1>1. q = [p EXCEPT !.mem[c] = None, !.disk[c] = None]
    BY DEF DropCaches
  <1>2. q.mem = [p.mem EXCEPT ![c] = None] /\ q.disk = [p.disk EXCEPT ![c] = None]
    BY <1>1 DEF Page
  <1>3. /\ q.shown = p.shown /\ q.owner = p.owner /\ q.blurred = p.blurred
        /\ q.doubted = p.doubted /\ q.active = p.active /\ q.loading = p.loading
        /\ q.chats = p.chats /\ q.saved = p.saved
    BY <1>1 DEF Page
  <1>4. [p.mem EXCEPT ![c] = None] \in [Chats -> Lists \cup {None}]
        /\ [p.disk EXCEPT ![c] = None] \in [Chats -> Lists \cup {None}]
    BY DEF Page
  <1>5. q \in Page
    BY <1>1, <1>4 DEF Page
  <1>6. QED
    BY <1>2, <1>3, <1>5 DEF Page

\* The fields of a page whose list of chats loses c.
LEMMA UnlistFields ==
    ASSUME NEW p \in Page, NEW c \in Chats, NEW q, q = Unlist(p, c)
    PROVE  /\ q \in Page /\ q.mem = p.mem /\ q.disk = p.disk
           /\ q.shown = p.shown /\ q.owner = p.owner /\ q.blurred = p.blurred
           /\ q.doubted = p.doubted /\ q.active = p.active /\ q.loading = p.loading
           /\ q.saved = p.saved
           /\ \A d \in DOMAIN q.chats : d \in DOMAIN p.chats /\ q.chats[d] = p.chats[d]
  <1> DEFINE B == [d \in DOMAIN p.chats \ {c} |-> p.chats[d]]
  <1>0. p.chats \in Badges /\ DOMAIN p.chats \subseteq Chats
        /\ \A d \in DOMAIN p.chats : p.chats[d] \in Nat
    BY BadgeMembers DEF Page
  <1>1. q = [p EXCEPT !.chats = B]
    BY DEF Unlist
  <1>2. B \in Badges /\ \A d \in DOMAIN B : d \in DOMAIN p.chats /\ B[d] = p.chats[d]
    BY <1>0, BadgeMembers
  <1> HIDE DEF B
  <1>3. QED
    BY <1>1, <1>2 DEF Page

\* The fields of a page whose list on the screen is not that of c.
LEMMA DisownFields ==
    ASSUME NEW p \in Page, NEW c \in Chats, NEW q, q = Disown(p, c)
    PROVE  /\ q \in Page /\ q.mem = p.mem /\ q.disk = p.disk
           /\ q.owner = IF p.owner = c THEN None ELSE p.owner
           /\ q.shown = p.shown /\ q.blurred = p.blurred
           /\ q.doubted = p.doubted /\ q.active = p.active /\ q.loading = p.loading
           /\ q.saved = p.saved /\ q.chats = p.chats
  BY DEF Disown, Page

Blank(p) == [p EXCEPT !.shown = Empty]

\* The fields of a page with nothing on its screen.
LEMMA BlankFields ==
    ASSUME NEW p \in Page, NEW q, q = Blank(p)
    PROVE  /\ q \in Page /\ q.mem = p.mem /\ q.disk = p.disk /\ q.owner = p.owner
           /\ DOMAIN q.shown = {} /\ q.blurred = p.blurred
           /\ q.doubted = p.doubted /\ q.active = p.active /\ q.loading = p.loading
           /\ q.saved = p.saved /\ q.chats = p.chats
  BY ListMembers DEF Blank, Page

Silent(p, c) == [p EXCEPT !.chats[c] = 0]

\* The fields of a page whose chat c loses its badge.
LEMMA SilentFields ==
    ASSUME NEW p \in Page, NEW c \in Chats, c \in DOMAIN p.chats, NEW q, q = Silent(p, c)
    PROVE  /\ q \in Page /\ q.mem = p.mem /\ q.disk = p.disk /\ q.owner = p.owner
           /\ q.shown = p.shown /\ q.blurred = p.blurred
           /\ q.doubted = p.doubted /\ q.active = p.active /\ q.loading = p.loading
           /\ q.saved = p.saved
           /\ DOMAIN q.chats = DOMAIN p.chats
           /\ \A d \in DOMAIN p.chats : q.chats[d] = IF d = c THEN 0 ELSE p.chats[d]
  <1>0. DOMAIN p.chats \subseteq Chats /\ \A d \in DOMAIN p.chats : p.chats[d] \in Nat
    BY BadgeMembers DEF Page
  <1>1. [p.chats EXCEPT ![c] = 0] \in Badges
    <2> DEFINE B == [p.chats EXCEPT ![c] = 0]
    <2>1. /\ DOMAIN B \subseteq Chats /\ B = [d \in DOMAIN B |-> B[d]]
          /\ \A d \in DOMAIN B : B[d] \in Nat
      BY <1>0
    <2> HIDE DEF B
    <2>2. B \in Badges
      BY <2>1, BadgeMembers
    <2>3. QED
      BY <2>2 DEF B
  <1>2. q = [p EXCEPT !.chats[c] = 0]
    BY DEF Silent
  <1>3. q.chats = [p.chats EXCEPT ![c] = 0]
    BY <1>2 DEF Page
  <1>4. /\ q.mem = p.mem /\ q.disk = p.disk /\ q.owner = p.owner
        /\ q.shown = p.shown /\ q.blurred = p.blurred
        /\ q.doubted = p.doubted /\ q.active = p.active /\ q.loading = p.loading
        /\ q.saved = p.saved
    BY <1>2 DEF Page
  <1>5. q \in Page
    BY <1>1, <1>2 DEF Page
  <1>6. /\ DOMAIN q.chats = DOMAIN p.chats
        /\ \A d \in DOMAIN p.chats : q.chats[d] = IF d = c THEN 0 ELSE p.chats[d]
    BY <1>3
  <1>7. QED
    BY <1>4, <1>5, <1>6

\* Nothing that q has is of chat c; the other chats have what they had.
Dropped(p, q, c) ==
    /\ q.mem[c] = None /\ q.disk[c] = None
    /\ \A d \in Chats \ {c} : q.mem[d] = p.mem[d] /\ q.disk[d] = p.disk[d]
    /\ q.doubted = p.doubted
    /\ q.owner = c => DOMAIN q.shown = {}
    /\ q.owner \notin {c, None} =>
          q.owner = p.owner /\ q.blurred = p.blurred /\ DOMAIN q.shown \subseteq DOMAIN p.shown

\* The news about a chat were handled: its lists are gone.
LEMMA DroppedStep ==
    ASSUME ChatViewAssumption, ViewInv, HandledRest, home' = home, NEW c \in Chats,
           \A d \in Chats \ {c}, m \in Messages : Fine(m, d) => Fine(m, d)',
           NEW q \in Page, Dropped(page, q, c), Owned(q), NEW b \in BOOLEAN,
           page' = Doubt(q, c, b)
    PROVE  ViewInv'
  <1>1. PICK r : r = Doubt(q, c, b)
    OBVIOUS
  <1>2. /\ r \in Page /\ Owned(r) /\ (b => r.blurred) /\ (~b => r = q)
        /\ r.shown = q.shown /\ r.owner = q.owner /\ r.mem = q.mem /\ r.disk = q.disk
        /\ r.doubted \ {c} = q.doubted \ {c}
    BY <1>1, DoubtPage
  <1>3. page' = r
    BY <1>1
  <1>4. OthersKept(page, r, c)
    BY <1>2 DEF Dropped, OthersKept
  <1>5. \A m \in Messages : ~Holds(r, c, m)
    BY <1>2 DEF Dropped, Holds
  <1>6. r.owner = c => DOMAIN r.shown = {}
    BY <1>2 DEF Dropped
  <1>7. /\ page' \in Page /\ OthersKept(page, page', c) /\ Owned(page')
        /\ \A m \in Messages : ~Holds(page', c, m)
        /\ page'.owner = c => DOMAIN page'.shown = {}
    BY <1>2, <1>3, <1>4, <1>5, <1>6
  <1>8. c \notin page'.doubted =>
           \A m \in Messages : Holds(page', c, m) => Fine(m, c)'
    BY <1>7
  <1>9. page'.owner = c /\ ~page'.blurred =>
           \A m \in DOMAIN page'.shown : home[m] = c
    BY <1>7
  <1>10. QED
    BY <1>7, <1>8, <1>9, ChangedStep

\* The open chat, or another one, was cleared by somebody else.
LEMMA OnClearedStep ==
    ASSUME ChatViewAssumption, ViewInv, NEW i \in DOMAIN flight, OnCleared(i)
    PROVE  ViewInv'
  <1>1. PICK x : x = flight[i]
    OBVIOUS
  <1>2. x \in Items /\ x.chat \in Chats /\ x.late \in BOOLEAN /\ page \in Page /\ Owned(page)
        /\ asked \in Asked /\ listing \in BOOLEAN
    BY <1>1, ElementOfSeq, LenProperties, ItemFields DEF ViewInv, Typed, ClientTyped
  <1>3. PICK p : p = DropCaches(page, x.chat)
    OBVIOUS
  <1>4. PICK q : q = IF x.chat = page.active THEN Blank(p) ELSE Disown(p, x.chat)
    OBVIOUS
  <1>5. PICK r : r = IF x.chat \in DOMAIN q.chats THEN Silent(q, x.chat) ELSE q
    OBVIOUS
  <1>6. /\ flight' = Taken(i)
        /\ UNCHANGED <<server, line, twice, events>>
        /\ asked' = asked /\ listing' = listing
        /\ page' = Doubt(r, x.chat, x.late)
    BY <1>1, <1>3, <1>4, <1>5 DEF OnCleared, Blank, Silent
  <1>7. /\ p \in Page /\ p.mem[x.chat] = None /\ p.disk[x.chat] = None
        /\ \A d \in Chats \ {x.chat} : p.mem[d] = page.mem[d] /\ p.disk[d] = page.disk[d]
        /\ p.shown = page.shown /\ p.owner = page.owner /\ p.blurred = page.blurred
        /\ p.doubted = page.doubted /\ p.active = page.active /\ p.loading = page.loading
    BY <1>2, <1>3, DropCachesFields
  <1>8. /\ q \in Page /\ q.mem = p.mem /\ q.disk = p.disk
        /\ q.doubted = p.doubted /\ q.active = p.active /\ q.loading = p.loading
        /\ q.blurred = p.blurred
        /\ x.chat = page.active => q.owner = p.owner /\ DOMAIN q.shown = {}
        /\ x.chat # page.active =>
              q.owner = (IF p.owner = x.chat THEN None ELSE p.owner) /\ q.shown = p.shown
    <2>1. CASE x.chat = page.active
      BY <1>4, <1>7, <2>1, BlankFields
    <2>2. CASE x.chat # page.active
      BY <1>2, <1>4, <1>7, <2>2, DisownFields
    <2>3. QED
      BY <2>1, <2>2
  <1>9. /\ r \in Page /\ r.mem = q.mem /\ r.disk = q.disk /\ r.owner = q.owner
        /\ r.doubted = q.doubted /\ r.active = q.active /\ r.loading = q.loading
        /\ r.blurred = q.blurred /\ r.shown = q.shown
    <2>1. CASE x.chat \in DOMAIN q.chats
      BY <1>2, <1>5, <1>8, <2>1, SilentFields
    <2>2. CASE x.chat \notin DOMAIN q.chats
      BY <1>5, <1>8, <2>2
    <2>3. QED
      BY <2>1, <2>2
  <1>10. x.chat # None
    BY <1>2, ChatViewAssumption DEF ChatViewAssumption
  <1>11. Dropped(page, r, x.chat)
    BY <1>7, <1>8, <1>9, <1>10 DEF Dropped
  <1>12. Owned(r)
    BY <1>2, <1>7, <1>8, <1>9 DEF Owned
  <1>13. /\ HandledRest /\ home' = home
         /\ \A d \in Chats \ {x.chat}, m \in Messages : Fine(m, d) => Fine(m, d)'
    BY <1>1, <1>2, <1>6, Handled
  <1>14. QED
    BY <1>2, <1>6, <1>9, <1>11, <1>12, <1>13, DroppedStep

\* A chat was deleted by somebody else: it is closed.
LEMMA OnDeletedStep ==
    ASSUME ChatViewAssumption, ViewInv, NEW i \in DOMAIN flight, OnDeleted(i)
    PROVE  ViewInv'
  <1>1. PICK x : x = flight[i]
    OBVIOUS
  <1>2. x \in Items /\ x.chat \in Chats /\ x.late \in BOOLEAN /\ page \in Page /\ Owned(page)
        /\ asked \in Asked /\ listing \in BOOLEAN
    BY <1>1, ElementOfSeq, LenProperties, ItemFields DEF ViewInv, Typed, ClientTyped
  <1>3. PICK o : o = DropCaches(page, x.chat)
    OBVIOUS
  <1>4. PICK p : p = Unlist(o, x.chat)
    OBVIOUS
  <1>5. PICK q : q = Disown(p, x.chat)
    OBVIOUS
  <1>6. PICK r : r = IF x.chat = page.active THEN [q EXCEPT !.active = None, !.shown = Empty]
                     ELSE q
    OBVIOUS
  <1>7. /\ flight' = Taken(i)
        /\ UNCHANGED <<server, line, twice, events>>
        /\ asked' = asked /\ (listing' = listing \/ listing' = ListActivate)
        /\ page' = Doubt(r, x.chat, x.late)
    <2>1. CASE x.chat = page.active
      BY <1>1, <1>3, <1>4, <1>5, <1>6, <2>1 DEF OnDeleted
    <2>2. CASE x.chat # page.active
      BY <1>1, <1>3, <1>4, <1>5, <1>6, <2>2 DEF OnDeleted
    <2>3. QED
      BY <2>1, <2>2
  <1>8. /\ o \in Page /\ o.mem[x.chat] = None /\ o.disk[x.chat] = None
        /\ \A d \in Chats \ {x.chat} : o.mem[d] = page.mem[d] /\ o.disk[d] = page.disk[d]
        /\ o.shown = page.shown /\ o.owner = page.owner /\ o.blurred = page.blurred
        /\ o.doubted = page.doubted /\ o.active = page.active /\ o.loading = page.loading
    BY <1>2, <1>3, DropCachesFields
  <1>9. /\ p \in Page /\ p.mem = o.mem /\ p.disk = o.disk
        /\ p.shown = o.shown /\ p.owner = o.owner /\ p.blurred = o.blurred
        /\ p.doubted = o.doubted /\ p.active = o.active /\ p.loading = o.loading
    BY <1>2, <1>4, <1>8, UnlistFields
  <1>10. /\ q \in Page /\ q.mem = p.mem /\ q.disk = p.disk
         /\ q.owner = (IF p.owner = x.chat THEN None ELSE p.owner)
         /\ q.shown = p.shown /\ q.blurred = p.blurred
         /\ q.doubted = p.doubted /\ q.active = p.active /\ q.loading = p.loading
    BY <1>2, <1>5, <1>9, DisownFields
  <1>11. /\ r \in Page /\ r.mem = q.mem /\ r.disk = q.disk /\ r.owner = q.owner
         /\ r.doubted = q.doubted /\ r.loading = q.loading
         /\ r.blurred = q.blurred /\ DOMAIN r.shown \subseteq DOMAIN q.shown
         /\ r.active = None \/ (r.active = q.active /\ x.chat # page.active)
    <2>1. CASE x.chat = page.active
      <3>1. r = [q EXCEPT !.active = None, !.shown = Empty]
        BY <1>6, <2>1
      <3>2. Empty \in Lists /\ DOMAIN Empty = {}
        BY ListMembers
      <3>3. QED
        BY <1>10, <3>1, <3>2 DEF Page
    <2>2. CASE x.chat # page.active
      BY <1>6, <1>10, <2>2
    <2>3. QED
      BY <2>1, <2>2
  <1>12. x.chat # None
    BY <1>2, ChatViewAssumption DEF ChatViewAssumption
  <1>13. Dropped(page, r, x.chat)
    BY <1>8, <1>9, <1>10, <1>11, <1>12 DEF Dropped
  <1>14. Owned(r)
    BY <1>2, <1>8, <1>9, <1>10, <1>11 DEF Owned
  <1>15. ListActivate \in BOOLEAN
    BY <1>2 DEF ListActivate, Rerun, ViewInv, Typed, ClientTyped, Page
  <1>16. listing' \in BOOLEAN /\ asked' \in Asked
    BY <1>2, <1>7, <1>15
  <1>17. /\ HandledRest /\ home' = home
         /\ \A d \in Chats \ {x.chat}, m \in Messages : Fine(m, d) => Fine(m, d)'
    BY <1>1, <1>7, <1>16, Handled
  <1>18. QED
    BY <1>2, <1>7, <1>11, <1>13, <1>14, <1>17, DroppedStep

\* The answer to the user's own clearing, deletion or leaving.
LEMMA AnsweredStep ==
    ASSUME ChatViewAssumption, ViewInv, NEW i \in DOMAIN flight, Answered(i)
    PROVE  ViewInv'
  <1>1. PICK x : x = flight[i]
    OBVIOUS
  <1>2. x \in Items /\ x.chat \in Chats /\ x.late \in BOOLEAN /\ page \in Page /\ Owned(page)
        /\ asked \in Asked /\ listing \in BOOLEAN
    BY <1>1, ElementOfSeq, LenProperties, ItemFields DEF ViewInv, Typed, ClientTyped
  <1>3. PICK o : o = DropCaches(page, x.chat)
    OBVIOUS
  <1>4. PICK p : p = [o EXCEPT !.shown = Empty, !.owner = x.chat,
                               !.blurred = page.active # x.chat]
    OBVIOUS
  <1>5. PICK u : u = Unlist(p, x.chat)
    OBVIOUS
  <1>6. PICK r : r = IF x.msg = "cleared" THEN p ELSE [u EXCEPT !.active = None]
    OBVIOUS
  <1>7. /\ flight' = Taken(i)
        /\ UNCHANGED <<server, line, twice, events>>
        /\ asked' = asked /\ (listing' = listing \/ listing' = ListActivate)
        /\ page' = Doubt(r, x.chat, x.late)
    <2>1. CASE x.msg = "cleared"
      BY <1>1, <1>3, <1>4, <1>5, <1>6, <2>1 DEF Answered
    <2>2. CASE x.msg # "cleared"
      BY <1>1, <1>3, <1>4, <1>5, <1>6, <2>2 DEF Answered
    <2>3. QED
      BY <2>1, <2>2
  <1>8. /\ o \in Page /\ o.mem[x.chat] = None /\ o.disk[x.chat] = None
        /\ \A d \in Chats \ {x.chat} : o.mem[d] = page.mem[d] /\ o.disk[d] = page.disk[d]
        /\ o.doubted = page.doubted /\ o.active = page.active
    BY <1>2, <1>3, DropCachesFields
  <1>9. /\ p \in Page /\ p.mem = o.mem /\ p.disk = o.disk
        /\ DOMAIN p.shown = {} /\ p.owner = x.chat /\ p.blurred = (page.active # x.chat)
        /\ p.doubted = o.doubted /\ p.active = o.active
    <2>1. Empty \in Lists /\ DOMAIN Empty = {}
      BY ListMembers
    <2>2. PICK b : b = (page.active # x.chat)
      OBVIOUS
    <2>3. b \in BOOLEAN /\ p = [o EXCEPT !.shown = Empty, !.owner = x.chat, !.blurred = b]
      BY <1>4, <2>2
    <2>4. /\ p.mem = o.mem /\ p.disk = o.disk /\ p.owner = x.chat /\ p.blurred = b
          /\ p.shown = Empty /\ p.doubted = o.doubted /\ p.active = o.active
      BY <1>8, <2>3 DEF Page
    <2>5. p \in Page
      BY <1>2, <1>8, <2>1, <2>3 DEF Page
    <2>6. QED
      BY <2>1, <2>2, <2>4, <2>5
  <1>10. /\ u \in Page /\ u.mem = p.mem /\ u.disk = p.disk
         /\ u.shown = p.shown /\ u.owner = p.owner /\ u.blurred = p.blurred
         /\ u.doubted = p.doubted
    BY <1>2, <1>5, <1>9, UnlistFields
  <1>11. /\ r \in Page /\ r.mem = p.mem /\ r.disk = p.disk
         /\ r.shown = p.shown /\ r.owner = p.owner /\ r.blurred = p.blurred
         /\ r.doubted = p.doubted
         /\ r.active = None \/ r.active = p.active
    <2>1. CASE x.msg = "cleared"
      BY <1>6, <1>9, <2>1
    <2>2. CASE x.msg # "cleared"
      <3>1. r = [u EXCEPT !.active = None]
        BY <1>6, <2>2
      <3>2. QED
        BY <1>10, <3>1 DEF Page
    <2>3. QED
      BY <2>1, <2>2
  <1>12. Dropped(page, r, x.chat)
    BY <1>8, <1>9, <1>11 DEF Dropped
  <1>13. Owned(r)
    BY <1>8, <1>9, <1>11 DEF Owned
  <1>14. ListActivate \in BOOLEAN
    BY <1>2 DEF ListActivate, Rerun, ViewInv, Typed, ClientTyped, Page
  <1>15. listing' \in BOOLEAN /\ asked' \in Asked
    BY <1>2, <1>7, <1>14
  <1>16. /\ HandledRest /\ home' = home
         /\ \A d \in Chats \ {x.chat}, m \in Messages : Fine(m, d) => Fine(m, d)'
    BY <1>1, <1>7, <1>15, Handled
  <1>17. QED
    BY <1>2, <1>7, <1>11, <1>12, <1>13, <1>16, DroppedStep

\* The end of loadMessages.
LEMMA ApplyLoadStep ==
    ASSUME ChatViewAssumption, ViewInv, NEW i \in DOMAIN flight, ApplyLoad(i)
    PROVE  ViewInv'
  <1>1. PICK x : x = flight[i]
    OBVIOUS
  <1>2. PICK sealed : sealed = (x.chat \notin DOMAIN page.chats)
    OBVIOUS
  <1>3. PICK L : L = [m \in DOMAIN x.data |->
                         IF sealed THEN x.data[m] \cup {"sealed"} ELSE x.data[m]]
    OBVIOUS
  <1>4. PICK w : w = Write(page, x.chat, L)
    OBVIOUS
  <1>5. PICK a : a = (x.chat # page.active)
    OBVIOUS
  <1>6. PICK p : p = [w EXCEPT !.loading = FALSE, !.owner = x.chat,
                               !.doubted = page.doubted \ {x.chat}, !.blurred = a]
    OBVIOUS
  <1>7. PICK b : b = (x.late \/ Doing(x.chat) \/ sealed)
    OBVIOUS
  <1>8. x.kind = "messages" /\ flight' = Taken(i)
        /\ UNCHANGED <<server, line, twice, events>>
        /\ asked' = asked /\ listing' = listing
    BY <1>1 DEF ApplyLoad
  <1>9. /\ x \in Items /\ x.chat \in Chats /\ x.late \in BOOLEAN /\ page \in Page
        /\ x.data \in Lists /\ asked \in Asked /\ listing \in BOOLEAN
    BY <1>1, <1>8, ElementOfSeq, LenProperties, ItemFields
    DEF ViewInv, Typed, ClientTyped, LoadItem
  <1>10. /\ HandledRest /\ home' = home /\ purged' = purged /\ doing' = doing
         /\ ItemTrue(x, home, purged)
         /\ \A c \in Chats, m \in Messages :
               /\ ~(x.chat = c /\ x.kind \in NewsKinds)
               /\ Fine(m, c)
               => Fine(m, c)'
    BY <1>1, <1>8, <1>9, Handled
  <1>11. L \in Lists /\ DOMAIN L = DOMAIN x.data
    <2>1. DOMAIN x.data \subseteq Messages /\ \A m \in DOMAIN x.data : x.data[m] \in Faces
      BY <1>9, ListMembers
    <2>2. \A m \in DOMAIN x.data : L[m] \in Faces
      BY <1>3, <2>1 DEF Faces
    <2>3. DOMAIN L = DOMAIN x.data /\ L = [m \in DOMAIN L |-> L[m]]
      BY <1>3
    <2>4. QED
      BY <2>1, <2>2, <2>3, ListMembers
  <1>12. /\ w \in Page /\ w.shown = L /\ w.mem[x.chat] = L /\ w.disk[x.chat] = L
         /\ \A d \in Chats \ {x.chat} : w.mem[d] = page.mem[d] /\ w.disk[d] = page.disk[d]
         /\ w.doubted = page.doubted /\ w.active = page.active
    BY <1>4, <1>9, <1>11, WritePage, SMTT(30)
  <1>13. /\ p \in Page /\ p.shown = L /\ p.mem = w.mem /\ p.disk = w.disk
         /\ p.owner = x.chat /\ p.blurred = a /\ p.doubted = page.doubted \ {x.chat}
         /\ p.active = page.active
    <2>1. page.doubted \ {x.chat} \in SUBSET Chats /\ a \in BOOLEAN
      BY <1>5, <1>9 DEF Page
    <2>2. /\ p.shown = w.shown /\ p.mem = w.mem /\ p.disk = w.disk
          /\ p.owner = x.chat /\ p.blurred = a /\ p.doubted = page.doubted \ {x.chat}
          /\ p.active = w.active
      BY <1>6, <1>12 DEF Page
    <2>3. p \in Page
      BY <1>6, <1>9, <1>12, <2>1 DEF Page
    <2>4. QED
      BY <1>12, <2>2, <2>3
  <1>14. page' = Doubt(p, x.chat, b)
    <2>1. page' = Doubt([Write(page, x.chat, [m \in DOMAIN x.data |->
                             IF x.chat \notin DOMAIN page.chats THEN x.data[m] \cup {"sealed"}
                             ELSE x.data[m]])
                         EXCEPT !.loading = FALSE, !.owner = x.chat,
                                !.doubted = @ \ {x.chat}, !.blurred = x.chat # page.active],
                        x.chat, x.late \/ Doing(x.chat) \/ x.chat \notin DOMAIN page.chats)
      BY <1>1 DEF ApplyLoad
    <2>2. L = [m \in DOMAIN x.data |->
                 IF x.chat \notin DOMAIN page.chats THEN x.data[m] \cup {"sealed"}
                 ELSE x.data[m]]
      BY <1>2, <1>3
    <2>3. page' = Doubt([Write(page, x.chat, L)
                         EXCEPT !.loading = FALSE, !.owner = x.chat,
                                !.doubted = @ \ {x.chat}, !.blurred = x.chat # page.active],
                        x.chat, x.late \/ Doing(x.chat) \/ x.chat \notin DOMAIN page.chats)
      BY <2>1, <2>2, Zenon
    <2>4. page' = Doubt([w EXCEPT !.loading = FALSE, !.owner = x.chat,
                                  !.doubted = w.doubted \ {x.chat}, !.blurred = a], x.chat, b)
      BY <1>2, <1>4, <1>5, <1>7, <2>3, Zenon
    <2>5. page' = Doubt([w EXCEPT !.loading = FALSE, !.owner = x.chat,
                                  !.doubted = page.doubted \ {x.chat}, !.blurred = a],
                        x.chat, b)
      BY <1>12, <2>4, Zenon
    <2>6. QED
      BY <1>6, <2>5, Zenon
  <1>15. b \in BOOLEAN
    BY <1>2, <1>7, <1>9 DEF Doing
  <1>16. PICK r : r = Doubt(p, x.chat, b)
    OBVIOUS
  <1>17. /\ r \in Page /\ (Owned(p) => Owned(r)) /\ (~b => r = p)
         /\ b => r.blurred /\ x.chat \in r.doubted
         /\ r.shown = p.shown /\ r.owner = p.owner /\ r.mem = p.mem /\ r.disk = p.disk
         /\ r.doubted \ {x.chat} = p.doubted \ {x.chat}
    BY <1>9, <1>13, <1>15, <1>16, DoubtPage
  <1>18. Owned(r)
    BY <1>5, <1>13, <1>17 DEF Owned
  <1>19. OthersKept(page, r, x.chat)
    BY <1>12, <1>13, <1>17 DEF OthersKept
  <1>20. \A m \in DOMAIN L : home[m] = x.chat /\ (~x.late => m \notin purged)
    BY <1>8, <1>10, <1>11 DEF ItemTrue
  <1>21. ASSUME x.chat \notin r.doubted, NEW m \in Messages, Holds(r, x.chat, m)
         PROVE  Fine(m, x.chat)'
    <2>1. ~b /\ ~x.late /\ ~Doing(x.chat)
      BY <1>7, <1>15, <1>17, <1>21
    <2>2. m \in DOMAIN L
      BY <1>12, <1>13, <1>17, <1>21 DEF Holds
    <2>3. home'[m] = x.chat /\ m \notin purged'
      BY <1>10, <1>20, <2>1, <2>2
    <2>4. ~Ahead(x.chat)'
      BY <1>10, <2>1 DEF Ahead, Doing
    <2>5. QED
      BY <2>3, <2>4 DEF Fine
  <1>22. page' = r
    BY <1>14, <1>16
  <1>23. /\ page' \in Page /\ OthersKept(page, page', x.chat) /\ Owned(page')
         /\ page'.shown = L
         /\ x.chat \notin page'.doubted =>
               \A m \in Messages : Holds(page', x.chat, m) => Fine(m, x.chat)'
    BY <1>13, <1>17, <1>18, <1>19, <1>21, <1>22
  <1>24. page'.owner = x.chat /\ ~page'.blurred => \A m \in DOMAIN page'.shown : home[m] = x.chat
    BY <1>20, <1>23
  <1>25. \A d \in Chats \ {x.chat}, m \in Messages : Fine(m, d) => Fine(m, d)'
    BY <1>10
  <1>26. QED
    BY <1>9, <1>10, <1>23, <1>24, <1>25, ChangedStep

----------------------------------------------------------------------------
(* The server.                                                             *)

\* Items that stay keep the news under way.
LEMMA FineKept ==
    ASSUME home' = home, purged' = purged,
           \A d \in doing' : ~d.mine => \E e \in doing : e.chat = d.chat /\ ~e.mine,
           \A j \in DOMAIN flight : \E k \in DOMAIN flight' : Aged(flight[j], flight'[k])
    PROVE  \A c \in Chats, m \in Messages : Fine(m, c) => Fine(m, c)'
  <1>1. ASSUME NEW c \in Chats, NEW m \in Messages, Fine(m, c)
        PROVE  Fine(m, c)'
    <2>1. (NewsOf(c) => NewsOf(c)') /\ (Told(c) => Told(c)')
      BY NewsStay
    <2>2. \A d \in doing' : d.chat = c /\ ~d.mine => \E e \in doing : e.chat = c /\ ~e.mine
      OBVIOUS
    <2>3. QED
      BY <1>1, <2>1, <2>2, FineStays
  <1>2. QED
    BY <1>1

\* An item is itself.
LEMMA AgedItself ==
    ASSUME ChatViewAssumption, NEW x \in Items
    PROVE  Aged(x, x)
  <1>1. x.late \in BOOLEAN
    BY ItemFields
  <1>2. QED
    BY <1>1, AgedLate

\* Nothing new is under way.
LEMMA FlightUnchanged ==
    ASSUME ChatViewAssumption, ViewInv, flight' = flight,
           \A m \in Messages : home[m] # None => home'[m] = home[m], purged' = purged
    PROVE  /\ flight' \in Seq(Items) /\ FlightTrue'
           /\ \A j \in DOMAIN flight : \E k \in DOMAIN flight' : Aged(flight[j], flight'[k])
  <1>1. flight \in Seq(Items) /\ Typed /\ FlightTrue
    BY DEF ViewInv, Typed
  <1>2. \A j \in DOMAIN flight : Aged(flight[j], flight[j])
    BY <1>1, AgedItself, ElementOfSeq, LenProperties
  <1>3. /\ \A j \in DOMAIN flight : \E k \in DOMAIN flight' : Aged(flight[j], flight'[k])
        /\ \A k \in DOMAIN flight' : \E j \in DOMAIN flight : Aged(flight[j], flight'[k])
    BY <1>2
  <1>4. FlightTrue'
    BY <1>1, <1>3, FlightStays
  <1>5. QED
    BY <1>1, <1>3, <1>4

\* One more item is under way.
LEMMA FlightGrows ==
    ASSUME ChatViewAssumption, ViewInv, NEW x \in Items, flight' = Append(flight, x),
           \A m \in Messages : home[m] # None => home'[m] = home[m], purged' = purged,
           ItemTrue(x, home', purged')
    PROVE  /\ flight' \in Seq(Items) /\ FlightTrue'
           /\ \A j \in DOMAIN flight : \E k \in DOMAIN flight' : Aged(flight[j], flight'[k])
           /\ \E k \in DOMAIN flight' : flight'[k] = x
  <1>1. flight \in Seq(Items) /\ Typed /\ FlightTrue
    BY DEF ViewInv, Typed
  <1>2. \A j \in DOMAIN flight : Aged(flight[j], flight[j])
    BY <1>1, AgedItself, ElementOfSeq, LenProperties
  <1>3. PICK F : F = Append(flight, x)
    OBVIOUS
  <1>4. /\ F \in Seq(Items) /\ DOMAIN flight \subseteq DOMAIN F
        /\ \A j \in DOMAIN flight : F[j] = flight[j]
        /\ \A k \in DOMAIN F \ DOMAIN flight : F[k] = x
    BY <1>1, <1>3, SentFlight
  <1>5. Len(flight) + 1 \in DOMAIN F /\ F[Len(flight) + 1] = x
    BY <1>1, <1>3, AppendProperties, LenProperties
  <1>6. /\ flight' \in Seq(Items)
        /\ \A j \in DOMAIN flight : \E k \in DOMAIN flight' : Aged(flight[j], flight'[k])
        /\ \A k \in DOMAIN flight' :
              \/ \E j \in DOMAIN flight : Aged(flight[j], flight'[k])
              \/ ItemTrue(flight'[k], home', purged')
    <2>1. flight' = F
      BY <1>3
    <2>2. \A j \in DOMAIN flight : j \in DOMAIN F /\ Aged(flight[j], F[j])
      BY <1>2, <1>4
    <2>3. \A k \in DOMAIN F : k \in DOMAIN flight \/ F[k] = x
      BY <1>4
    <2>4. QED
      BY <1>4, <2>1, <2>2, <2>3
  <1>7. FlightTrue'
    BY <1>1, <1>6, FlightStays
  <1>8. \E k \in DOMAIN flight' : flight'[k] = x
    BY <1>3, <1>5
  <1>9. QED
    BY <1>6, <1>7, <1>8

\* What is under way becomes late, some of it.
LEMMA FlightAges ==
    ASSUME ChatViewAssumption, flight \in Seq(Items),
           NEW F, DOMAIN F = DOMAIN flight, F = [j \in DOMAIN F |-> F[j]],
           \A j \in DOMAIN flight :
              \E b \in BOOLEAN : /\ flight[j].late => b
                                 /\ F[j] = [flight[j] EXCEPT !.late = b]
    PROVE  F \in Seq(Items) /\ \A j \in DOMAIN flight : Aged(flight[j], F[j])
  <1>1. Len(flight) \in Nat /\ DOMAIN flight = 1..Len(flight)
    BY LenProperties
  <1>2. ASSUME NEW j \in DOMAIN flight
        PROVE  Aged(flight[j], F[j])
    <2>1. flight[j] \in Items
      BY ElementOfSeq, LenProperties
    <2>2. PICK b \in BOOLEAN : (flight[j].late => b) /\ F[j] = [flight[j] EXCEPT !.late = b]
      OBVIOUS
    <2>3. QED
      BY <2>1, <2>2, AgedLate
  <1>3. \A j \in 1..Len(flight) : F[j] \in Items
    BY <1>1, <1>2 DEF Aged
  <1>4. QED
    BY <1>1, <1>2, <1>3, FlightIsSeq

\* The server answers a request for messages.
LEMMA AnswerLoadStep ==
    ASSUME ChatViewAssumption, ViewInv, NEW c \in Chats, NEW b \in BOOLEAN, AnswerLoad(c, b)
    PROVE  ViewInv'
  <1>1. /\ asked[<<c, b>>] > 0 /\ asked' = Sub(asked, <<c, b>>)
        /\ UNCHANGED <<server, twice>> /\ line' = line /\ listing' = listing
        /\ page' = page /\ events' = events
    BY DEF AnswerLoad
  <1>2. PICK l \in BOOLEAN : l = Doing(c)
    BY DEF Doing
  <1>3. PICK x : x = [Answer(c, b) EXCEPT !.late = l]
    OBVIOUS
  <1>4. flight' = Append(flight, x)
    BY <1>2, <1>3 DEF AnswerLoad
  <1>5. ServerTyped
    BY DEF ViewInv, Typed
  <1>6. x \in Items /\ x.kind = "messages" /\ x.chat = c /\ x.data = Stored(c)
    BY <1>3, <1>5, AnswerItem
  <1>7. /\ ServerTyped' /\ Sensible' /\ OneDoing'
        /\ home' = home /\ purged' = purged /\ doing' = doing
    BY <1>1, ServerStays
  <1>8. ItemTrue(x, home', purged')
    <2>1. \A m \in DOMAIN Stored(c) : home[m] = c /\ m \notin purged
      BY <1>5, StoredList
    <2>2. QED
      BY <1>6, <1>7, <2>1 DEF ItemTrue, IsNew
  <1>9. /\ flight' \in Seq(Items) /\ FlightTrue'
        /\ \A j \in DOMAIN flight : \E k \in DOMAIN flight' : Aged(flight[j], flight'[k])
    BY <1>4, <1>6, <1>7, <1>8, FlightGrows
  <1>10. asked' \in Asked
    BY <1>1, AskedMore DEF ViewInv, Typed, ClientTyped
  <1>11. HandledRest
    BY <1>1, <1>7, <1>9, <1>10 DEF HandledRest, ViewInv, Typed, ClientTyped
  <1>12. \A e \in Chats, m \in Messages : Fine(m, e) => Fine(m, e)'
    BY <1>7, <1>9, FineKept
  <1>13. QED
    BY <1>1, <1>7, <1>11, <1>12, SamePageStep

\* A request for messages fails.
LEMMA FailLoadStep ==
    ASSUME ChatViewAssumption, ViewInv, NEW c \in Chats, NEW b \in BOOLEAN, FailLoad(c, b)
    PROVE  ViewInv'
  <1>1. /\ asked[<<c, b>>] > 0 /\ asked' = Sub(asked, <<c, b>>)
        /\ UNCHANGED <<server, twice>> /\ line' = line /\ listing' = listing
        /\ flight' = flight /\ events' = events
    BY DEF FailLoad
  <1>2. PICK p : p = [page EXCEPT !.loading = FALSE,
                                  !.shown = IF b THEN @ ELSE Empty,
                                  !.owner = IF b THEN @ ELSE None]
    OBVIOUS
  <1>3. page' = Doubt(p, c, TRUE)
    BY <1>2 DEF FailLoad
  <1>4. page \in Page
    BY DEF ViewInv, Typed, ClientTyped
  <1>5. p \in Page /\ p.mem = page.mem /\ p.disk = page.disk /\ p.doubted = page.doubted
    BY <1>2, <1>4, ListMembers DEF Page
  <1>6. PICK r : r = Doubt(p, c, TRUE)
    OBVIOUS
  <1>7. /\ r \in Page /\ r.blurred /\ r.mem = p.mem /\ r.disk = p.disk
        /\ c \in r.doubted /\ r.doubted \ {c} = p.doubted \ {c}
    <2>1. PICK t \in BOOLEAN : t = TRUE
      OBVIOUS
    <2>2. r = Doubt(p, c, t) /\ t
      BY <1>6, <2>1
    <2>3. /\ Doubt(p, c, t) \in Page
          /\ t => c \in Doubt(p, c, t).doubted /\ Doubt(p, c, t).blurred
          /\ Doubt(p, c, t).mem = p.mem /\ Doubt(p, c, t).disk = p.disk
          /\ Doubt(p, c, t).doubted \ {c} = p.doubted \ {c}
      BY <1>5, DoubtPage
    <2>4. QED
      BY <2>2, <2>3
  <1>8. Derived(page, r) /\ Owned(r)
    BY <1>5, <1>7 DEF Derived, Holds, SameScreen, Owned
  <1>9. page' \in Page /\ Derived(page, page') /\ Owned(page')
    BY <1>3, <1>6, <1>7, <1>8
  <1>10. /\ ServerTyped' /\ Sensible' /\ OneDoing'
         /\ home' = home /\ purged' = purged /\ doing' = doing
    BY <1>1, ServerStays
  <1>11. /\ flight' \in Seq(Items) /\ FlightTrue'
         /\ \A j \in DOMAIN flight : \E k \in DOMAIN flight' : Aged(flight[j], flight'[k])
    BY <1>1, <1>10, FlightUnchanged
  <1>12. asked' \in Asked
    BY <1>1, AskedMore DEF ViewInv, Typed, ClientTyped
  <1>13. HandledRest
    BY <1>1, <1>10, <1>11, <1>12 DEF HandledRest, ViewInv, Typed, ClientTyped
  <1>14. \A e \in Chats, m \in Messages : Fine(m, e) => Fine(m, e)'
    BY <1>10, <1>11, FineKept
  <1>15. QED
    BY <1>9, <1>10, <1>13, <1>14, DerivedStep

\* The list of chats is loaded, or is not.
LEMMA EndListStep ==
    ASSUME ChatViewAssumption, ViewInv, NEW data \in {Listed, None}, EndList(data)
    PROVE  ViewInv'
  <1>1. /\ listing' = FALSE
        /\ page' = IF data = None THEN page ELSE [page EXCEPT !.chats = data, !.saved = data]
        /\ UNCHANGED <<server, twice>> /\ line' = line /\ asked' = asked
        /\ flight' = flight /\ events' = events
    BY DEF EndList
  <1>2. page \in Page /\ Owned(page) /\ ServerTyped
    BY DEF ViewInv, Typed, ClientTyped
  <1>3. page' \in Page /\ Derived(page, page') /\ Owned(page')
    <2>1. CASE data = None
      BY <1>1, <1>2, <2>1, DerivedItself
    <2>2. CASE data # None
      <3>1. data \in Badges
        BY <1>2, <2>2, ListedBadges
      <3>2. PICK q : q = [page EXCEPT !.chats = data, !.saved = data]
        OBVIOUS
      <3>3. /\ q \in Page /\ q.mem = page.mem /\ q.disk = page.disk
            /\ q.doubted = page.doubted /\ q.owner = page.owner /\ q.shown = page.shown
            /\ q.blurred = page.blurred /\ q.active = page.active
            /\ q.loading = page.loading
        BY <1>2, <3>1, <3>2 DEF Page
      <3>4. Derived(page, q) /\ Owned(q)
        BY <1>2, <3>3 DEF Derived, Holds, SameScreen, Owned
      <3>5. page' = q
        BY <1>1, <2>2, <3>2
      <3>6. QED
        BY <3>3, <3>4, <3>5
    <2>3. QED
      BY <2>1, <2>2
  <1>4. /\ ServerTyped' /\ Sensible' /\ OneDoing'
        /\ home' = home /\ purged' = purged /\ doing' = doing
    BY <1>1, ServerStays
  <1>5. /\ flight' \in Seq(Items) /\ FlightTrue'
        /\ \A j \in DOMAIN flight : \E k \in DOMAIN flight' : Aged(flight[j], flight'[k])
    BY <1>1, <1>4, FlightUnchanged
  <1>6. HandledRest
    BY <1>1, <1>4, <1>5 DEF HandledRest, ViewInv, Typed, ClientTyped
  <1>7. \A e \in Chats, m \in Messages : Fine(m, e) => Fine(m, e)'
    BY <1>4, <1>5, FineKept
  <1>8. QED
    BY <1>3, <1>4, <1>6, <1>7, DerivedStep

\* The statement that clears, deletes or leaves a chat runs.
LEMMA CommitStep ==
    ASSUME ChatViewAssumption, ViewInv, NEW d \in doing, Commit(d)
    PROVE  ViewInv'
  <1> DEFINE hit(j) == /\ flight[j].chat = d.chat
                       /\ IsNew(flight[j]) \/ flight[j].kind = "messages"
             touched == d.kind # "left"
  <1>1. PICK F : F = [j \in DOMAIN flight |->
                         IF hit(j) THEN [flight[j] EXCEPT !.late = TRUE] ELSE flight[j]]
    OBVIOUS
  <1>2. PICK x : x = DoneWord(d.kind, d.chat)
    OBVIOUS
  <1>3. /\ doing' = doing \ {d}
        /\ purged' = IF d.kind = "left" THEN purged
                     ELSE purged \cup {m \in Messages : home[m] = d.chat}
        /\ alive' = IF d.kind = "cleared" THEN alive ELSE alive \ {d.chat}
        /\ rows' = {m \in rows : home[m] # d.chat}
        /\ flight' = IF d.mine THEN Append(F, x) ELSE F
        /\ home' = home /\ marks' = marks /\ line' = line /\ asked' = asked
        /\ listing' = listing /\ page' = page /\ twice' = twice /\ events' = events
    BY <1>1, <1>2 DEF Commit, DoneWord
  <1>4. /\ ServerTyped /\ Sensible /\ OneDoing /\ FlightTrue /\ flight \in Seq(Items)
        /\ ClientTyped /\ page \in Page
        /\ d.chat \in Chats /\ d.kind \in {"cleared", "gone", "left"} /\ None \notin Chats
    BY ChatViewAssumption
    DEF ChatViewAssumption, ViewInv, Typed, ServerTyped, ClientTyped, Doings
  <1>5. x \in Items /\ x.kind = "done" /\ x.chat = d.chat
    <2>1. ServerTyped /\ d.chat \in Chats /\ d.kind \in {"cleared", "gone", "left"}
      BY <1>4
    <2>2. /\ DoneWord(d.kind, d.chat) \in Items
          /\ DoneWord(d.kind, d.chat).kind = "done"
          /\ DoneWord(d.kind, d.chat).chat = d.chat
      BY <2>1, DoneWordItem
    <2>3. QED
      BY <1>2, <2>2
  <1>6. F \in Seq(Items) /\ DOMAIN F = DOMAIN flight
        /\ \A j \in DOMAIN flight : Aged(flight[j], F[j])
    <2>1. ASSUME NEW j \in DOMAIN flight
          PROVE  \E b \in BOOLEAN : /\ flight[j].late => b
                                    /\ F[j] = [flight[j] EXCEPT !.late = b]
      <3>1. flight[j] \in Items /\ flight[j].late \in BOOLEAN
        BY <1>4, ElementOfSeq, LenProperties, ItemFields
      <3>2. CASE hit(j)
        BY <1>1, <3>2
      <3>3. CASE ~hit(j)
        <4>1. F[j] = flight[j]
          BY <1>1, <3>3
        <4>2. flight[j] = [flight[j] EXCEPT !.late = flight[j].late]
          BY <3>1 DEF Items, NewItem, MarkItem, WordItem, DoneItem, LoadItem, OpenItem
        <4>3. QED
          BY <3>1, <4>1, <4>2
      <3>4. QED
        BY <3>2, <3>3
    <2>2. DOMAIN F = DOMAIN flight /\ F = [j \in DOMAIN F |-> F[j]]
      BY <1>1
    <2>3. QED
      BY <1>4, <2>1, <2>2, FlightAges
  <1>7. ASSUME NEW j \in DOMAIN flight
        PROVE  ItemTrue(F[j], home', purged')
    <2>1. PICK y : y = flight[j]
      OBVIOUS
    <2>2. PICK z : z = F[j]
      OBVIOUS
    <2>3. y \in Items /\ Aged(y, z) /\ ItemTrue(y, home, purged) /\ y.late \in BOOLEAN
      BY <1>4, <1>6, <2>1, <2>2, ElementOfSeq, LenProperties, ItemFields DEF FlightTrue
    <2>4. y.chat = d.chat /\ (IsNew(y) \/ y.kind = "messages") => z.late
      <3>1. SUFFICES ASSUME y.chat = d.chat, IsNew(y) \/ y.kind = "messages"
                     PROVE  z.late
        OBVIOUS
      <3>2. z = [y EXCEPT !.late = TRUE]
        BY <1>1, <2>1, <2>2, <3>1
      <3>3. QED
        BY <2>3, <3>2, AgedLate
    <2>5. IsNew(z) => home[z.msg] = z.chat /\ (~z.late => z.msg \notin purged')
      <3>1. SUFFICES ASSUME IsNew(z)
                     PROVE  home[z.msg] = z.chat /\ (~z.late => z.msg \notin purged')
        OBVIOUS
      <3>2. IsNew(y) /\ y.msg = z.msg /\ y.chat = z.chat /\ (y.late => z.late)
        BY <2>3, <3>1 DEF Aged, IsNew
      <3>3. home[y.msg] = y.chat /\ (~y.late => y.msg \notin purged)
        BY <2>3, <3>2 DEF ItemTrue
      <3>4. QED
        BY <1>3, <2>4, <3>2, <3>3
    <2>6. z.kind = "messages" =>
             \A m \in DOMAIN z.data : home[m] = z.chat /\ (~z.late => m \notin purged')
      <3>1. SUFFICES ASSUME z.kind = "messages", NEW m \in DOMAIN z.data
                     PROVE  home[m] = z.chat /\ (~z.late => m \notin purged')
        OBVIOUS
      <3>2. y.kind = "messages" /\ y.data = z.data /\ y.chat = z.chat /\ (y.late => z.late)
        BY <2>3, <3>1 DEF Aged
      <3>3. home[m] = y.chat /\ (~y.late => m \notin purged)
        BY <2>3, <3>1, <3>2 DEF ItemTrue
      <3>4. QED
        BY <1>3, <2>4, <3>2, <3>3
    <2>7. QED
      BY <1>3, <2>2, <2>5, <2>6 DEF ItemTrue
  <1>8. /\ flight' \in Seq(Items)
        /\ \A j \in DOMAIN flight : j \in DOMAIN flight' /\ flight'[j] = F[j]
        /\ \A k \in DOMAIN flight' : k \in DOMAIN flight \/ flight'[k] = x
        /\ d.mine => \E k \in DOMAIN flight' : flight'[k] = x
    <2>1. CASE d.mine
      <3>1. PICK G : G = Append(F, x)
        OBVIOUS
      <3>2. /\ G \in Seq(Items) /\ Len(G) = Len(F) + 1 /\ G[Len(F) + 1] = x
            /\ \A j \in 1..Len(F) : G[j] = F[j]
        BY <1>5, <1>6, <3>1, AppendProperties
      <3>3. DOMAIN F = 1..Len(F) /\ Len(F) \in Nat /\ DOMAIN G = 1..(Len(F) + 1)
        BY <1>6, <3>2, LenProperties
      <3>4. flight' = G
        BY <1>3, <2>1, <3>1
      <3>5. \A j \in DOMAIN flight : j \in DOMAIN G /\ G[j] = F[j]
        BY <1>6, <3>2, <3>3
      <3>6. \A k \in DOMAIN G : k \in DOMAIN flight \/ G[k] = x
        BY <1>6, <3>2, <3>3
      <3>7. \E k \in DOMAIN G : G[k] = x
        BY <3>2, <3>3
      <3>8. QED
        BY <3>2, <3>4, <3>5, <3>6, <3>7
    <2>2. CASE ~d.mine
      BY <1>3, <1>6, <2>2
    <2>3. QED
      BY <2>1, <2>2
  <1>9. FlightTrue'
    <2>1. ASSUME NEW k \in DOMAIN flight'
          PROVE  ItemTrue(flight'[k], home', purged')
      <3>1. CASE k \in DOMAIN flight
        BY <1>7, <1>8, <3>1
      <3>2. CASE flight'[k] = x
        BY <1>5, <3>2 DEF ItemTrue, IsNew
      <3>3. QED
        BY <1>8, <3>1, <3>2
    <2>2. QED
      BY <2>1 DEF FlightTrue
  <1>10. ServerTyped'
    <2>1. purged' \subseteq Messages /\ rows' \subseteq Messages /\ alive' \subseteq Chats
          /\ doing' \subseteq Doings
      BY <1>3, <1>4 DEF ServerTyped
    <2>2. QED
      BY <1>3, <1>4, <2>1 DEF ServerTyped
  <1>11. Sensible'
    <2>1. rows' \cap purged' = {}
      BY <1>3, <1>4 DEF Sensible
    <2>2. \A m \in rows' \cup purged' \cup twice' : home'[m] # None
      BY <1>3, <1>4 DEF Sensible
    <2>3. QED
      BY <2>1, <2>2 DEF Sensible
  <1>12. OneDoing'
    BY <1>3, <1>4 DEF OneDoing
  <1>13. HandledRest
    BY <1>3, <1>4, <1>8, <1>9, <1>10, <1>11, <1>12 DEF HandledRest, ClientTyped
  <1>14. ASSUME NEW c \in Chats, NEW m \in Messages, Fine(m, c)
         PROVE  Fine(m, c)'
    <2>1. \A j \in DOMAIN flight : \E k \in DOMAIN flight' : Aged(flight[j], flight'[k])
      BY <1>6, <1>8
    <2>2. (NewsOf(c) => NewsOf(c)') /\ (Told(c) => Told(c)')
      BY <2>1, NewsStay
    <2>3. \A e \in doing' : e \in doing /\ e # d
      BY <1>3
    <2>4. ~Ahead(c)'
      BY <1>14, <2>2, <2>3 DEF Fine, Ahead
    <2>5. home'[m] = c
      BY <1>3, <1>14 DEF Fine
    <2>6. m \in purged' => NewsOf(c)'
      <3>1. CASE c # d.chat
        BY <1>3, <1>14, <2>2, <3>1 DEF Fine
      <3>2. CASE c = d.chat /\ d.mine
        BY <1>5, <1>8, <3>2 DEF NewsOf
      <3>3. CASE c = d.chat /\ ~d.mine
        <4>1. Told(c)
          BY <1>14, <3>3 DEF Fine, Ahead
        <4>2. QED
          BY <2>2, <4>1 DEF Told, NewsOf
      <3>4. QED
        BY <3>1, <3>2, <3>3
    <2>7. QED
      BY <2>4, <2>5, <2>6 DEF Fine
  <1>15. QED
    BY <1>3, <1>13, <1>14, SamePageStep

\* The statement fails.
LEMMA CommitFailsStep ==
    ASSUME ChatViewAssumption, ViewInv, NEW d \in doing, CommitFails(d)
    PROVE  ViewInv'
  <1>1. PICK F : F = [j \in DOMAIN flight |->
                         [flight[j] EXCEPT !.late = @ \/ flight[j].chat = d.chat]]
    OBVIOUS
  <1>2. PICK b : b = ~d.mine
    OBVIOUS
  <1>3. /\ doing' = doing \ {d} /\ page' = Doubt(page, d.chat, b) /\ flight' = F
        /\ home' = home /\ marks' = marks /\ purged' = purged /\ alive' = alive
        /\ rows' = rows /\ line' = line /\ asked' = asked
        /\ listing' = listing /\ twice' = twice /\ events' = events
    BY <1>1, <1>2 DEF CommitFails
  <1>4. /\ ServerTyped /\ Sensible /\ OneDoing /\ FlightTrue /\ flight \in Seq(Items)
        /\ ClientTyped /\ page \in Page /\ Owned(page) /\ Typed
        /\ d.chat \in Chats /\ b \in BOOLEAN
    BY <1>2 DEF ViewInv, Typed, ServerTyped, ClientTyped, Doings
  <1>5. F \in Seq(Items) /\ DOMAIN F = DOMAIN flight
        /\ \A j \in DOMAIN flight : Aged(flight[j], F[j])
    <2>1. ASSUME NEW j \in DOMAIN flight
          PROVE  \E t \in BOOLEAN : /\ flight[j].late => t
                                    /\ F[j] = [flight[j] EXCEPT !.late = t]
      <3>1. flight[j].late \in BOOLEAN
        BY <1>4, ElementOfSeq, LenProperties, ItemFields
      <3>2. PICK t \in BOOLEAN : t = (flight[j].late \/ flight[j].chat = d.chat)
        BY <3>1
      <3>3. F[j] = [flight[j] EXCEPT !.late = t]
        BY <1>1, <3>2
      <3>4. QED
        BY <3>1, <3>2, <3>3
    <2>2. DOMAIN F = DOMAIN flight /\ F = [j \in DOMAIN F |-> F[j]]
      BY <1>1
    <2>3. QED
      BY <1>4, <2>1, <2>2, FlightAges
  <1>6. /\ \A j \in DOMAIN flight : \E k \in DOMAIN flight' : Aged(flight[j], flight'[k])
        /\ \A k \in DOMAIN flight' : \E j \in DOMAIN flight : Aged(flight[j], flight'[k])
        /\ flight' \in Seq(Items)
    BY <1>3, <1>5
  <1>7. FlightTrue'
    BY <1>3, <1>4, <1>6, FlightStays
  <1>8. ServerTyped' /\ Sensible' /\ OneDoing'
    BY <1>3, <1>4 DEF ServerTyped, Sensible, OneDoing
  <1>9. HandledRest
    BY <1>3, <1>4, <1>6, <1>7, <1>8 DEF HandledRest, ClientTyped
  <1>10. PICK q : q = Doubt(page, d.chat, b)
    OBVIOUS
  <1>11. q \in Page /\ Derived(page, q) /\ Owned(q)
    BY <1>4, <1>10, DoubtPage
  <1>12. page' \in Page /\ Derived(page, page') /\ Owned(page')
    BY <1>3, <1>10, <1>11
  <1>13. \A e \in doing' : e \in doing
    BY <1>3
  <1>14. \A c \in Chats, m \in Messages : Fine(m, c) => Fine(m, c)'
    BY <1>3, <1>6, <1>13, FineKept
  <1>15. QED
    BY <1>3, <1>9, <1>12, <1>14, DerivedStep

\* Something is sent, if the socket is open.
LEMMA FlightSent ==
    ASSUME ChatViewAssumption, ViewInv, NEW x \in Items, flight' \in {flight, Append(flight, x)},
           \A m \in Messages : home[m] # None => home'[m] = home[m], purged' = purged,
           ItemTrue(x, home', purged')
    PROVE  /\ flight' \in Seq(Items) /\ FlightTrue'
           /\ \A j \in DOMAIN flight : \E k \in DOMAIN flight' : Aged(flight[j], flight'[k])
  <1>1. CASE flight' = flight
    BY <1>1, FlightUnchanged
  <1>2. CASE flight' = Append(flight, x)
    BY <1>2, FlightGrows
  <1>3. QED
    BY <1>1, <1>2

\* One more event.
LEMMA EventCounted ==
    ASSUME ChatViewAssumption, ViewInv, Event
    PROVE  events' \in 0..MaxEvents
  BY DEF Event, ChatViewAssumption, ViewInv, Typed, ClientTyped

\* A message is sent.
LEMMA SendStep ==
    ASSUME ChatViewAssumption, ViewInv, NEW c \in Chats, NEW m \in Messages, Send(c, m)
    PROVE  ViewInv'
  <1>1. PICK x : x = SentNew(m, c)
    OBVIOUS
  <1>2. /\ c \in alive /\ home[m] = None
        /\ home' = [home EXCEPT ![m] = c]
        /\ rows' = IF line = "down" /\ m \notin Own THEN rows \cup {m} ELSE rows
        /\ flight' \in {flight, Append(flight, x)}
        /\ marks' = marks /\ purged' = purged /\ alive' = alive /\ doing' = doing
        /\ line' = line /\ asked' = asked /\ listing' = listing /\ page' = page
        /\ twice' = twice
    BY <1>1 DEF Send, SentNew
  <1>3. events' \in 0..MaxEvents
    BY EventCounted DEF Send
  <1>4. /\ ServerTyped /\ Sensible /\ OneDoing /\ ClientTyped /\ None \notin Chats
    BY ChatViewAssumption DEF ChatViewAssumption, ViewInv, Typed
  <1>5. x \in Items /\ x.kind = "new" /\ x.chat = c /\ x.msg = m
    <2>1. ServerTyped
      BY <1>4
    <2>2. /\ SentNew(m, c) \in Items /\ SentNew(m, c).kind = "new"
          /\ SentNew(m, c).chat = c /\ SentNew(m, c).msg = m
      BY <2>1, SentNewItem
    <2>3. QED
      BY <1>1, <2>2
  <1>6. /\ home'[m] = c /\ \A n \in Messages \ {m} : home'[n] = home[n]
        /\ m \notin purged /\ m \notin rows /\ m \notin twice
    BY <1>2, <1>4 DEF ServerTyped, Sensible
  <1>7. \A n \in Messages : home[n] # None => home'[n] = home[n]
    BY <1>2, <1>6
  <1>8. ItemTrue(x, home', purged')
    BY <1>2, <1>5, <1>6 DEF ItemTrue, IsNew
  <1>9. /\ flight' \in Seq(Items) /\ FlightTrue'
        /\ \A j \in DOMAIN flight : \E k \in DOMAIN flight' : Aged(flight[j], flight'[k])
    BY <1>2, <1>5, <1>7, <1>8, FlightSent
  <1>10. ServerTyped'
    <2>1. home' \in [Messages -> Chats \cup {None}] /\ rows' \subseteq Messages
      BY <1>2, <1>4 DEF ServerTyped
    <2>2. QED
      BY <1>2, <1>4, <2>1 DEF ServerTyped
  <1>11. Sensible'
    <2>1. rows' \subseteq rows \cup {m}
      BY <1>2
    <2>2. rows' \cap purged' = {}
      BY <1>2, <1>4, <1>6, <2>1 DEF Sensible
    <2>3. \A n \in rows' \cup purged' \cup twice' : home'[n] # None
      <3>1. \A n \in rows \cup purged \cup twice : home[n] # None /\ n \in Messages
        BY <1>4 DEF Sensible, ServerTyped
      <3>2. QED
        BY <1>2, <1>4, <1>6, <1>7, <2>1, <3>1
    <2>4. QED
      BY <2>2, <2>3 DEF Sensible
  <1>12. OneDoing'
    BY <1>2, <1>4 DEF OneDoing
  <1>13. HandledRest
    BY <1>2, <1>3, <1>4, <1>9, <1>10, <1>11, <1>12 DEF HandledRest, ClientTyped
  <1>14. ASSUME NEW e \in Chats, NEW n \in Messages, Fine(n, e)
         PROVE  Fine(n, e)'
    <2>1. home'[n] = home[n]
      BY <1>4, <1>7, <1>14 DEF Fine
    <2>2. (NewsOf(e) => NewsOf(e)') /\ (Told(e) => Told(e)')
      BY <1>9, NewsStay
    <2>3. \A g \in doing' : g.chat = e /\ ~g.mine => \E h \in doing : h.chat = e /\ ~h.mine
      BY <1>2
    <2>4. QED
      BY <1>2, <1>14, <2>1, <2>2, <2>3, FineStays
  <1>15. page \in Page /\ page' = page /\ ListsFine /\ ScreenTrue /\ Owned(page)
    BY <1>2 DEF ViewInv, Typed, ClientTyped
  <1>16. page' \in Page /\ Derived(page, page') /\ Owned(page')
    BY <1>15, DerivedItself
  <1>17. ListsFine' /\ ScreenTrue'
    BY <1>7, <1>14, <1>15, <1>16, ListsStay
  <1>18. QED
    BY <1>13, <1>16, <1>17, PartsTogether

\* A message is edited, deleted or gets files.
LEMMA ChangeStep ==
    ASSUME ChatViewAssumption, ViewInv, NEW m \in Messages, NEW mark \in Marks, Change(m, mark)
    PROVE  ViewInv'
  <1>1. PICK x : x = Mark(m, mark)
    OBVIOUS
  <1>2. /\ home[m] \in alive
        /\ marks' = [marks EXCEPT ![m] = @ \cup {mark}]
        /\ rows' = IF mark = "deleted" THEN rows \ {m} ELSE rows
        /\ flight' \in {flight, Append(flight, x)}
        /\ home' = home /\ purged' = purged /\ alive' = alive /\ doing' = doing
        /\ line' = line /\ asked' = asked /\ listing' = listing /\ page' = page
        /\ twice' = twice
    BY <1>1 DEF Change, Sent
  <1>3. events' \in 0..MaxEvents
    BY EventCounted DEF Change
  <1>4. /\ ServerTyped /\ Sensible /\ OneDoing /\ ClientTyped /\ None \notin Chats
        /\ Marks \subseteq {"edited", "deleted", "files"}
    BY ChatViewAssumption DEF ChatViewAssumption, ViewInv, Typed
  <1>5. x \in Items /\ x.kind = mark
    <2>1. ServerTyped /\ home[m] # None
      BY <1>2, <1>4 DEF ServerTyped
    <2>2. Mark(m, mark) \in Items /\ Mark(m, mark).kind = mark
      BY <2>1, MarkItemOf
    <2>3. QED
      BY <1>1, <2>2
  <1>6. ItemTrue(x, home', purged')
    BY <1>4, <1>5 DEF ItemTrue, IsNew
  <1>7. /\ flight' \in Seq(Items) /\ FlightTrue'
        /\ \A j \in DOMAIN flight : \E k \in DOMAIN flight' : Aged(flight[j], flight'[k])
    BY <1>2, <1>5, <1>6, FlightSent
  <1>8. ServerTyped'
    <2>1. marks' \in [Messages -> SUBSET Marks] /\ rows' \subseteq Messages
      BY <1>2, <1>4 DEF ServerTyped
    <2>2. QED
      BY <1>2, <1>4, <2>1 DEF ServerTyped
  <1>9. Sensible' /\ OneDoing'
    BY <1>2, <1>4 DEF Sensible, OneDoing
  <1>10. HandledRest
    BY <1>2, <1>3, <1>4, <1>7, <1>8, <1>9 DEF HandledRest, ClientTyped
  <1>11. \A e \in Chats, n \in Messages : Fine(n, e) => Fine(n, e)'
    BY <1>2, <1>7, FineKept
  <1>12. QED
    BY <1>2, <1>10, <1>11, SamePageStep

\* A group changes, or its pins.
LEMMA ChangeGroupStep ==
    ASSUME ChatViewAssumption, ViewInv, NEW c \in Chats, NEW out \in BOOLEAN,
           ChangeGroup(c, out)
    PROVE  ViewInv'
  <1>1. PICK x : x = Word("changed", c)
    OBVIOUS
  <1>2. /\ alive' = IF out THEN alive \ {c} ELSE alive
        /\ flight' \in {flight, Append(flight, x)}
        /\ home' = home /\ purged' = purged /\ marks' = marks /\ rows' = rows
        /\ doing' = doing
        /\ line' = line /\ asked' = asked /\ listing' = listing /\ page' = page
        /\ twice' = twice
    BY <1>1 DEF ChangeGroup, Sent
  <1>3. events' \in 0..MaxEvents
    BY EventCounted DEF ChangeGroup
  <1>4. ServerTyped /\ Sensible /\ OneDoing /\ ClientTyped
    BY DEF ViewInv, Typed
  <1>5. x \in Items /\ x.kind = "changed"
    BY <1>1, <1>4, WordItemOf
  <1>6. ItemTrue(x, home', purged')
    BY <1>5 DEF ItemTrue, IsNew
  <1>7. /\ flight' \in Seq(Items) /\ FlightTrue'
        /\ \A j \in DOMAIN flight : \E k \in DOMAIN flight' : Aged(flight[j], flight'[k])
    BY <1>2, <1>5, <1>6, FlightSent
  <1>8. ServerTyped' /\ Sensible' /\ OneDoing'
    BY <1>2, <1>4 DEF ServerTyped, Sensible, OneDoing
  <1>9. HandledRest
    BY <1>2, <1>3, <1>4, <1>7, <1>8 DEF HandledRest, ClientTyped
  <1>10. \A e \in Chats, n \in Messages : Fine(n, e) => Fine(n, e)'
    BY <1>2, <1>7, FineKept
  <1>11. QED
    BY <1>2, <1>9, <1>10, SamePageStep

\* Somebody announces that a chat is cleared, deleted or left.
LEMMA AnnounceStep ==
    ASSUME ChatViewAssumption, ViewInv, NEW c \in Chats,
           NEW kind \in {"cleared", "gone", "left"}, NEW mine \in BOOLEAN, NEW told \in BOOLEAN,
           Announce(c, kind, mine, told)
    PROVE  ViewInv'
  <1>1. PICK x : x = Word(kind, c)
    OBVIOUS
  <1>2. PICK b \in BOOLEAN : b = (line = "down" /\ ~mine)
    OBVIOUS
  <1>3. PICK e : e = [chat |-> c, kind |-> kind, mine |-> mine]
    OBVIOUS
  <1>4. /\ ~Doing(c)
        /\ kind = "left" => mine
        /\ told \in (IF ~mine THEN {TRUE} ELSE IF kind = "gone" THEN BOOLEAN ELSE {FALSE})
        /\ doing' = doing \cup {e}
        /\ flight' = IF told THEN Sent(x) ELSE flight
        /\ page' = Doubt(page, c, b)
        /\ home' = home /\ purged' = purged /\ marks' = marks /\ rows' = rows
        /\ alive' = alive
        /\ line' = line /\ asked' = asked /\ listing' = listing
        /\ twice' = twice
    BY <1>1, <1>2, <1>3 DEF Announce
  <1>5. events' \in 0..MaxEvents
    BY EventCounted DEF Announce
  <1>6. /\ ServerTyped /\ Sensible /\ OneDoing /\ ClientTyped /\ page \in Page /\ Owned(page)
        /\ line \in {"up", "down"}
    BY DEF ViewInv, Typed, ClientTyped
  <1>7. /\ flight' \in Seq(Items) /\ FlightTrue'
        /\ \A j \in DOMAIN flight : \E k \in DOMAIN flight' : Aged(flight[j], flight'[k])
        /\ told /\ line = "up" => \E k \in DOMAIN flight' : flight'[k] = x
    <2>1. CASE told /\ line = "up"
      <3>1. kind \in {"cleared", "gone", "changed"}
        BY <1>4, <2>1
      <3>2. x \in Items /\ x.kind = kind
        BY <1>1, <3>1, WordItemOf
      <3>3. ItemTrue(x, home', purged')
        BY <3>1, <3>2 DEF ItemTrue, IsNew
      <3>4. flight' = Append(flight, x)
        BY <1>4, <2>1 DEF Sent
      <3>5. QED
        BY <1>4, <3>2, <3>3, <3>4, FlightGrows
    <2>2. CASE ~(told /\ line = "up")
      <3>1. flight' = flight
        BY <1>4, <2>2 DEF Sent
      <3>2. QED
        BY <1>4, <2>2, <3>1, FlightUnchanged
    <2>3. QED
      BY <2>1, <2>2
  <1>8. ServerTyped'
    BY <1>3, <1>4, <1>6 DEF ServerTyped, Doings
  <1>9. Sensible' /\ OneDoing'
    BY <1>3, <1>4, <1>6 DEF Sensible, OneDoing, Doing
  <1>10. HandledRest
    BY <1>4, <1>5, <1>6, <1>7, <1>8, <1>9 DEF HandledRest, ClientTyped
  <1>11. PICK q : q = Doubt(page, c, b)
    OBVIOUS
  <1>12. q \in Page /\ Derived(page, q) /\ Owned(q) /\ (b => c \in q.doubted)
    BY <1>6, <1>11, DoubtPage
  <1>13. page' \in Page /\ Derived(page, page') /\ Owned(page') /\ (b => c \in page'.doubted)
    BY <1>4, <1>11, <1>12
  <1>14. ASSUME NEW d \in Chats \ page'.doubted, NEW m \in Messages, Fine(m, d)
         PROVE  Fine(m, d)'
    <2>1. (NewsOf(d) => NewsOf(d)') /\ (Told(d) => Told(d)')
      BY <1>7, NewsStay
    <2>2. CASE d # c
      <3>1. \A g \in doing' : g.chat = d /\ ~g.mine => \E h \in doing : h.chat = d /\ ~h.mine
        BY <1>3, <1>4, <2>2
      <3>2. QED
        BY <1>4, <1>14, <2>1, <3>1, FineStays
    <2>3. CASE d = c
      <3>1. ~b
        BY <1>13, <1>14, <2>3
      <3>2. ~Ahead(c)'
        <4>1. CASE mine
          <5>1. \A g \in doing' : g.chat = c => g.mine
            BY <1>3, <1>4, <4>1 DEF Doing
          <5>2. QED
            BY <5>1 DEF Ahead
        <4>2. CASE ~mine
          <5>1. told /\ line = "up" /\ kind \in {"cleared", "gone"}
            BY <1>2, <1>4, <1>6, <3>1, <4>2
          <5>2. x.kind = kind /\ x.chat = c
            BY <1>1, <5>1, WordItemOf
          <5>3. Told(c)'
            BY <1>7, <5>1, <5>2 DEF Told
          <5>4. QED
            BY <5>3 DEF Ahead
        <4>3. QED
          BY <4>1, <4>2
      <3>3. QED
        BY <1>4, <1>14, <2>1, <2>3, <3>2 DEF Fine
    <2>4. QED
      BY <2>2, <2>3
  <1>15. QED
    BY <1>4, <1>10, <1>13, <1>14, DerivedStep

----------------------------------------------------------------------------
(* The line, and the user.                                                 *)

\* The page p, with the chats of S in doubt as well.
Wary(p, S) == [p EXCEPT !.doubted = @ \cup S]

\* A page with more to doubt.
LEMMA MoreDoubt ==
    ASSUME NEW p \in Page, NEW S \in SUBSET Chats, NEW q, q = Wary(p, S)
    PROVE  /\ q \in Page /\ Derived(p, q) /\ (Owned(p) => Owned(q))
           /\ q.doubted = p.doubted \cup S
  <1>1. /\ q.mem = p.mem /\ q.disk = p.disk /\ q.owner = p.owner /\ q.shown = p.shown
        /\ q.blurred = p.blurred /\ q.active = p.active /\ q.loading = p.loading
        /\ q.doubted = p.doubted \cup S
    BY DEF Page, Wary
  <1>2. p.doubted \cup S \in SUBSET Chats
    BY DEF Page
  <1>3. q \in Page
    BY <1>2 DEF Page, Wary
  <1>4. Derived(p, q) /\ (Owned(p) => Owned(q))
    BY <1>1 DEF Derived, Holds, SameScreen, Owned
  <1>5. QED
    BY <1>1, <1>3, <1>4

\* The socket breaks: the chats whose frames are lost are in doubt.
LEMMA LineBreaksStep ==
    ASSUME ChatViewAssumption, ViewInv, LineBreaks
    PROVE  ViewInv'
  <1>1. PICK S : S = {flight[i].chat : i \in {j \in DOMAIN flight : IsFrame(flight[j])}}
    OBVIOUS
  <1>2. PICK q : q = Wary(page, S)
    OBVIOUS
  <1>3. /\ line' = "down" /\ flight' = Lasting /\ page' = q
        /\ UNCHANGED <<server, twice>> /\ asked' = asked /\ listing' = listing
    BY <1>1, <1>2 DEF LineBreaks, Wary
  <1>4. events' \in 0..MaxEvents
    BY EventCounted DEF LineBreaks
  <1>5. /\ ServerTyped /\ FlightTrue /\ Typed /\ ClientTyped /\ page \in Page /\ Owned(page)
        /\ flight \in Seq(Items)
    BY DEF ViewInv, Typed, ClientTyped
  <1>6. /\ ServerTyped' /\ Sensible' /\ OneDoing'
        /\ home' = home /\ purged' = purged /\ doing' = doing
    BY <1>3, ServerStays
  <1>7. \A j \in DOMAIN flight : flight[j] \in Items /\ Aged(flight[j], flight[j])
    BY <1>5, AgedItself, ElementOfSeq, LenProperties
  <1>8. S \in SUBSET Chats
    <2>1. \A j \in DOMAIN flight : flight[j].chat \in Chats
      BY <1>7, ItemFields
    <2>2. QED
      BY <1>1, <2>1
  <1>9. q \in Page /\ Derived(page, q) /\ Owned(q) /\ q.doubted = page.doubted \cup S
    BY <1>2, <1>5, <1>8, MoreDoubt
  <1>10. /\ flight' \in Seq(Items)
         /\ \A k \in DOMAIN flight' : \E j \in DOMAIN flight : Aged(flight[j], flight'[k])
         /\ \A j \in DOMAIN flight \ {i \in DOMAIN flight : IsFrame(flight[i])} :
               \E k \in DOMAIN flight' : flight'[k] = flight[j]
    BY <1>3, <1>5, <1>7, LastingItems DEF Kept
  <1>11. FlightTrue'
    BY <1>5, <1>6, <1>10, FlightStays
  <1>12. HandledRest
    BY <1>3, <1>4, <1>5, <1>6, <1>10, <1>11 DEF HandledRest, ClientTyped
  <1>13. ASSUME NEW c \in Chats \ page'.doubted, NEW m \in Messages, Fine(m, c)
         PROVE  Fine(m, c)'
    <2>1. c \notin S
      BY <1>3, <1>9, <1>13
    <2>2. \A j \in DOMAIN flight : flight[j].chat = c => ~IsFrame(flight[j])
      BY <1>1, <2>1
    <2>3. \A j \in DOMAIN flight :
             flight[j].chat = c /\ flight[j].kind \in NewsKinds =>
                \E k \in DOMAIN flight' : Aged(flight[j], flight'[k])
      BY <1>7, <1>10, <2>2
    <2>4. (NewsOf(c) => NewsOf(c)') /\ (Told(c) => Told(c)')
      BY <2>3, NewsStay
    <2>5. QED
      BY <1>6, <1>13, <2>4, FineStays
  <1>14. page' \in Page /\ Derived(page, page') /\ Owned(page')
    BY <1>3, <1>9
  <1>15. QED
    BY <1>6, <1>12, <1>13, <1>14, DerivedStep

\* A chat is opened, from the list or from a notification, or closed.
LEMMA OpenStep ==
    ASSUME ChatViewAssumption, ViewInv,
           NEW p \in Page, Derived(page, p), Owned(p), NEW c \in Chats \cup {None},
           SetActive(p, c), Event, listing' \in BOOLEAN,
           UNCHANGED <<server, line, flight, twice>>
    PROVE  ViewInv'
  <1>1. events' \in 0..MaxEvents
    BY EventCounted
  <1>2. page \in Page /\ asked \in Asked /\ ClientTyped
    BY DEF ViewInv, Typed, ClientTyped
  <1>3. page' \in Page /\ Derived(p, page') /\ Owned(page') /\ asked' \in Asked
    BY <1>2, SetActivePage
  <1>4. Derived(page, page')
    <2>1. PICK r : r = page'
      OBVIOUS
    <2>2. r \in Page /\ Derived(p, r)
      BY <1>3, <2>1
    <2>3. Derived(page, r)
      BY <1>2, <2>2, DerivedIsTransitive
    <2>4. QED
      BY <2>1, <2>3
  <1>5. /\ ServerTyped' /\ Sensible' /\ OneDoing'
        /\ home' = home /\ purged' = purged /\ doing' = doing
    BY ServerStays
  <1>6. /\ flight' \in Seq(Items) /\ FlightTrue'
        /\ \A j \in DOMAIN flight : \E k \in DOMAIN flight' : Aged(flight[j], flight'[k])
    BY <1>5, FlightUnchanged
  <1>7. HandledRest
    BY <1>1, <1>2, <1>3, <1>5, <1>6 DEF HandledRest, ClientTyped
  <1>8. \A e \in Chats, m \in Messages : Fine(m, e) => Fine(m, e)'
    BY <1>5, <1>6, FineKept
  <1>9. QED
    BY <1>3, <1>4, <1>5, <1>7, <1>8, DerivedStep

\* The three ways to do so.
LEMMA UserStep ==
    ASSUME ChatViewAssumption, ViewInv, (\E c \in Chats : Open(c) \/ Tap(c)) \/ Back
    PROVE  ViewInv'
  <1>1. page \in Page /\ Owned(page) /\ listing \in BOOLEAN /\ ClientTyped
        /\ None \notin Chats
    BY ChatViewAssumption DEF ChatViewAssumption, ViewInv, Typed, ClientTyped
  <1>2. ListActivate \in BOOLEAN
    BY <1>1 DEF ListActivate, Rerun, Page
  <1>3. Derived(page, page)
    BY <1>1, DerivedItself
  <1>4. ASSUME NEW c \in Chats, Open(c)
        PROVE  ViewInv'
    <2>1. /\ Event /\ SetActive(page, c) /\ listing' \in BOOLEAN
          /\ UNCHANGED <<server, line, flight, twice>>
      BY <1>2, <1>4 DEF Open
    <2>2. QED
      BY <1>1, <1>3, <2>1, OpenStep
  <1>5. ASSUME NEW c \in Chats, Tap(c)
        PROVE  ViewInv'
    <2>1. PICK p : p = DropMem(page, c)
      OBVIOUS
    <2>2. /\ Event /\ SetActive(p, c) /\ listing' \in BOOLEAN
          /\ UNCHANGED <<server, line, flight, twice>>
      BY <1>5, <2>1 DEF Tap
    <2>3. p \in Page /\ Derived(page, p) /\ Owned(p)
      <3>1. p = [page EXCEPT !.mem[c] = None]
        BY <2>1 DEF DropMem
      <3>2. /\ p.active = page.active /\ p.loading = page.loading
            /\ p.blurred = page.blurred /\ p.owner = page.owner
        BY <1>1, <3>1 DEF Page
      <3>3. p \in Page /\ Derived(page, p)
        BY <1>1, <2>1, DropPage
      <3>4. QED
        BY <1>1, <3>2, <3>3 DEF Owned
    <2>4. QED
      BY <2>2, <2>3, OpenStep
  <1>6. ASSUME Back
        PROVE  ViewInv'
    <2>1. /\ Event /\ SetActive(page, None) /\ listing' \in BOOLEAN
          /\ UNCHANGED <<server, line, flight, twice>>
      BY <1>2, <1>6 DEF Back
    <2>2. QED
      BY <1>1, <1>3, <2>1, OpenStep
  <1>7. QED
    BY <1>4, <1>5, <1>6

\* The page is loaded anew.
LEMMA ReloadStep ==
    ASSUME ChatViewAssumption, ViewInv, Reload
    PROVE  ViewInv'
  <1>1. PICK S : S = {flight[i].chat : i \in
                        {j \in DOMAIN flight : IsFrame(flight[j]) \/ flight[j].kind = "done"}}
    OBVIOUS
  <1>2. PICK T : T = {d.chat : d \in doing}
    OBVIOUS
  <1>3. PICK M : M = [c \in Chats |-> None]
    OBVIOUS
  <1>4. PICK q : q = [page EXCEPT !.active = None, !.shown = Empty, !.loading = FALSE,
                         !.mem = M, !.chats = page.saved, !.greeted = FALSE, !.owner = None,
                         !.blurred = FALSE, !.doubted = page.doubted \cup S \cup T]
    OBVIOUS
  <1>5. /\ doing' = {[d EXCEPT !.mine = FALSE] : d \in doing}
        /\ line' = "down" /\ flight' = <<>> /\ asked' = [x \in DOMAIN asked |-> 0]
        /\ listing' = TRUE
        /\ home' = home /\ marks' = marks /\ purged' = purged /\ alive' = alive
        /\ rows' = rows /\ twice' = twice
    BY DEF Reload
  <1>6. page' = q
    BY <1>1, <1>2, <1>3, <1>4 DEF Reload
  <1>7. events' \in 0..MaxEvents
    BY EventCounted DEF Reload
  <1>8. /\ ServerTyped /\ Sensible /\ OneDoing /\ ClientTyped /\ page \in Page
        /\ flight \in Seq(Items) /\ None \notin Chats
    BY ChatViewAssumption DEF ChatViewAssumption, ViewInv, Typed, ClientTyped
  <1>9. S \in SUBSET Chats /\ T \in SUBSET Chats
    <2>1. \A j \in DOMAIN flight : flight[j].chat \in Chats
      BY <1>8, ElementOfSeq, LenProperties, ItemFields
    <2>2. \A d \in doing : d.chat \in Chats
      BY <1>8 DEF ServerTyped, Doings
    <2>3. QED
      BY <1>1, <1>2, <2>1, <2>2
  <1>10. /\ q.mem = M /\ q.disk = page.disk /\ q.owner = None /\ q.active = None
         /\ q.doubted = page.doubted \cup S \cup T
    BY <1>4, <1>8 DEF Page
  <1>11. q \in Page
    <2>1. page.doubted \cup S \cup T \in SUBSET Chats
      BY <1>8, <1>9 DEF Page
    <2>2. M \in [Chats -> Lists \cup {None}]
      BY <1>3
    <2>3. QED
      BY <1>4, <1>8, <2>1, <2>2, ListMembers DEF Page
  <1>12. Owned(q)
    BY <1>10 DEF Owned
  <1>13. Derived(page, q)
    <2>1. \A c \in Chats : q.mem[c] = None
      BY <1>3, <1>10
    <2>2. \A c \in Chats, m \in Messages : Holds(q, c, m) => Holds(page, c, m)
      BY <1>8, <1>10, <2>1 DEF Holds
    <2>3. QED
      BY <1>10, <2>2 DEF Derived, SameScreen
  <1>14. page' \in Page /\ Derived(page, page') /\ Owned(page')
    BY <1>6, <1>11, <1>12, <1>13
  <1>15. \A g \in doing' : \E d \in doing : g.chat = d.chat /\ g.kind = d.kind /\ g.mine = FALSE
    BY <1>5, <1>8 DEF ServerTyped, Doings
  <1>16. ServerTyped'
    <2>1. doing' \subseteq Doings
      BY <1>5, <1>8 DEF ServerTyped, Doings
    <2>2. QED
      BY <1>5, <1>8, <2>1 DEF ServerTyped
  <1>17. Sensible'
    BY <1>5, <1>8 DEF Sensible
  <1>18. OneDoing'
    <2>1. SUFFICES ASSUME NEW g \in doing', NEW h \in doing', g.chat = h.chat
                   PROVE  g = h
      BY DEF OneDoing
    <2>2. PICK d \in doing : g = [d EXCEPT !.mine = FALSE]
      BY <1>5
    <2>3. PICK e \in doing : h = [e EXCEPT !.mine = FALSE]
      BY <1>5
    <2>4. g.chat = d.chat /\ h.chat = e.chat
      BY <1>8, <2>2, <2>3 DEF ServerTyped, Doings
    <2>5. d = e
      BY <1>8, <2>1, <2>4 DEF OneDoing
    <2>6. QED
      BY <2>2, <2>3, <2>5
  <1>19. flight' \in Seq(Items) /\ FlightTrue'
    BY <1>5, EmptySeq DEF FlightTrue
  <1>20. asked' \in Asked
    BY <1>5, <1>8 DEF ClientTyped, Asked
  <1>21. HandledRest
    BY <1>5, <1>7, <1>16, <1>17, <1>18, <1>19, <1>20 DEF HandledRest
  <1>22. ASSUME NEW c \in Chats \ page'.doubted, NEW m \in Messages, Fine(m, c)
         PROVE  Fine(m, c)'
    <2>1. c \notin S /\ c \notin T
      BY <1>6, <1>10, <1>22
    <2>2. ~NewsOf(c)
      <3>1. \A j \in DOMAIN flight :
               flight[j].chat = c => ~IsFrame(flight[j]) /\ flight[j].kind # "done"
        BY <1>1, <2>1
      <3>2. QED
        BY <3>1 DEF NewsOf, IsFrame, FrameKinds
    <2>3. m \notin purged
      BY <1>22, <2>2 DEF Fine
    <2>4. \A g \in doing' : g.chat # c
      BY <1>2, <1>15, <2>1
    <2>5. ~Ahead(c)'
      BY <2>4 DEF Ahead
    <2>6. QED
      BY <1>5, <1>22, <2>3, <2>5 DEF Fine
  <1>23. QED
    BY <1>5, <1>14, <1>21, <1>22, DerivedStep

\* One sequence after the other.
LEMMA Joined ==
    ASSUME NEW A \in Seq(Items), NEW B \in Seq(Items)
    PROVE  /\ A \o B \in Seq(Items) /\ Len(A \o B) = Len(A) + Len(B)
           /\ \A j \in DOMAIN A : j \in DOMAIN (A \o B) /\ (A \o B)[j] = A[j]
           /\ \A k \in DOMAIN (A \o B) : k \in DOMAIN A \/ (k - Len(A) \in DOMAIN B
                                                           /\ (A \o B)[k] = B[k - Len(A)])
  <1>1. PICK C : C = A \o B
    OBVIOUS
  <1>2. /\ C \in Seq(Items) /\ Len(C) = Len(A) + Len(B)
        /\ \A i \in 1..(Len(A) + Len(B)) : C[i] = IF i <= Len(A) THEN A[i] ELSE B[i - Len(A)]
    BY <1>1, ConcatProperties
  <1>3. /\ Len(A) \in Nat /\ Len(B) \in Nat /\ DOMAIN A = 1..Len(A) /\ DOMAIN B = 1..Len(B)
        /\ DOMAIN C = 1..(Len(A) + Len(B))
    BY <1>2, LenProperties
  <1>4. \A j \in DOMAIN A : j \in DOMAIN C /\ C[j] = A[j]
    BY <1>2, <1>3
  <1>5. ASSUME NEW k \in DOMAIN C
        PROVE  k \in DOMAIN A \/ (k - Len(A) \in DOMAIN B /\ C[k] = B[k - Len(A)])
    <2>1. CASE k <= Len(A)
      BY <1>3, <2>1
    <2>2. CASE ~(k <= Len(A))
      <3>1. k - Len(A) \in 1..Len(B) /\ C[k] = B[k - Len(A)]
        BY <1>2, <1>3, <2>2
      <3>2. QED
        BY <1>3, <3>1
    <2>3. QED
      BY <2>1, <2>2
  <1>6. QED
    BY <1>1, <1>2, <1>4, <1>5

\* What is under way when the socket has opened: what was before, the replay, and at most one
\* message that comes live as well.
LEMMA ReturnedFlight ==
    ASSUME ChatViewAssumption, ViewInv, NEW live \in rows \cup {None}, LineReturns(live)
    PROVE  /\ flight' \in Seq(Items)
           /\ \A j \in DOMAIN flight : j \in DOMAIN flight' /\ Aged(flight[j], flight'[j])
           /\ \A j \in DOMAIN flight : flight[j].kind = "messages" => flight'[j].late
           /\ \A k \in DOMAIN flight' :
                 \/ k \in DOMAIN flight
                 \/ \E m \in rows : flight'[k] = New(m, TRUE)
                 \/ live # None /\ k = Len(flight') /\ flight'[k] = New(live, FALSE)
  <1>1. PICK order : order = CHOOSE s \in [1..Cardinality(rows) -> rows] :
                                \A i, j \in DOMAIN s : i # j => s[i] # s[j]
    OBVIOUS
  <1>2. PICK again : again = IF live = None THEN <<>> ELSE <<New(live, FALSE)>>
    OBVIOUS
  <1>3. PICK old : old = [i \in DOMAIN flight |->
                             [flight[i] EXCEPT !.late = @ \/ flight[i].kind = "messages"]]
    OBVIOUS
  <1>4. PICK R : R = [i \in DOMAIN order |-> New(order[i], TRUE)]
    OBVIOUS
  <1>5. flight' = old \o R \o again
    BY <1>1, <1>2, <1>3, <1>4 DEF LineReturns
  <1>6. /\ flight \in Seq(Items) /\ ServerTyped /\ rows \subseteq Messages /\ IsFiniteSet(rows)
        /\ \A m \in rows : home[m] # None
        /\ None \notin Messages
    <2>1. flight \in Seq(Items) /\ ServerTyped /\ rows \subseteq Messages
          /\ \A m \in rows : home[m] # None
      BY DEF ViewInv, Typed, ServerTyped, Sensible
    <2>2. IsFiniteSet(Messages) /\ None \notin Messages
      BY ChatViewAssumption DEF ChatViewAssumption
    <2>3. QED
      BY <2>1, <2>2, FS_Subset
  <1>7. /\ Cardinality(rows) \in Nat /\ order \in [1..Cardinality(rows) -> rows]
    BY <1>1, <1>6, ReplayOrder
  <1>8. \A m \in rows, b \in BOOLEAN : New(m, b) \in Items
    BY <1>6, NewItemOf
  <1>9. /\ R \in Seq(Items) /\ \A i \in DOMAIN R : \E m \in rows : R[i] = New(m, TRUE)
    <2>1. DOMAIN R = 1..Cardinality(rows) /\ R = [i \in DOMAIN R |-> R[i]]
      BY <1>4, <1>7
    <2>2. \A i \in 1..Cardinality(rows) : order[i] \in rows /\ R[i] = New(order[i], TRUE)
      BY <1>4, <1>7
    <2>3. \A i \in 1..Cardinality(rows) : R[i] \in Items
      BY <1>8, <2>2
    <2>4. R \in Seq(Items)
      BY <1>7, <2>1, <2>3, FlightIsSeq
    <2>5. QED
      BY <2>1, <2>2, <2>4
  <1>10. /\ again \in Seq(Items) /\ Len(again) \in {0, 1}
         /\ \A i \in DOMAIN again : live # None /\ i = 1 /\ Len(again) = 1
                                    /\ again[i] = New(live, FALSE)
    <2>1. CASE live = None
      <3>1. again = <<>>
        BY <1>2, <2>1
      <3>2. QED
        BY <3>1, EmptySeq
    <2>2. CASE live # None
      <3>1. PICK y : y = New(live, FALSE)
        OBVIOUS
      <3>2. y \in Items
        BY <1>8, <2>2, <3>1
      <3>3. again = <<y>>
        BY <1>2, <2>2, <3>1
      <3>4. again \in Seq(Items) /\ Len(again) = 1 /\ again[1] = y /\ DOMAIN again = {1}
        BY <3>2, <3>3
      <3>5. QED
        BY <2>2, <3>1, <3>4
    <2>3. QED
      BY <2>1, <2>2
  <1>11. /\ old \in Seq(Items) /\ DOMAIN old = DOMAIN flight
         /\ \A j \in DOMAIN flight : Aged(flight[j], old[j])
         /\ \A j \in DOMAIN flight : flight[j].kind = "messages" => old[j].late
    <2>1. ASSUME NEW j \in DOMAIN flight
          PROVE  \E t \in BOOLEAN : /\ flight[j].late => t
                                    /\ old[j] = [flight[j] EXCEPT !.late = t]
      <3>1. flight[j].late \in BOOLEAN
        BY <1>6, ElementOfSeq, LenProperties, ItemFields
      <3>2. PICK t \in BOOLEAN : t = (flight[j].late \/ flight[j].kind = "messages")
        BY <3>1
      <3>3. old[j] = [flight[j] EXCEPT !.late = t]
        BY <1>3, <3>2
      <3>4. QED
        BY <3>1, <3>2, <3>3
    <2>2. DOMAIN old = DOMAIN flight /\ old = [j \in DOMAIN old |-> old[j]]
      BY <1>3
    <2>3. \A j \in DOMAIN flight : flight[j].kind = "messages" => old[j].late
      <3>1. SUFFICES ASSUME NEW j \in DOMAIN flight, flight[j].kind = "messages"
                     PROVE  old[j].late
        OBVIOUS
      <3>2. flight[j] \in Items
        BY <1>6, ElementOfSeq, LenProperties
      <3>3. PICK t \in BOOLEAN : t = (flight[j].late \/ flight[j].kind = "messages")
        OBVIOUS
      <3>4. old[j] = [flight[j] EXCEPT !.late = t] /\ t = TRUE
        BY <1>3, <3>1, <3>3
      <3>5. QED
        BY <3>2, <3>4, AgedLate
    <2>4. QED
      BY <1>6, <2>1, <2>2, <2>3, FlightAges
  <1>12. PICK H : H = old \o R
    OBVIOUS
  <1>13. /\ H \in Seq(Items)
         /\ \A j \in DOMAIN flight : j \in DOMAIN H /\ H[j] = old[j]
         /\ \A k \in DOMAIN H : k \in DOMAIN flight \/ \E m \in rows : H[k] = New(m, TRUE)
    <2>1. /\ old \o R \in Seq(Items)
          /\ \A j \in DOMAIN old : j \in DOMAIN (old \o R) /\ (old \o R)[j] = old[j]
          /\ \A k \in DOMAIN (old \o R) :
                k \in DOMAIN old \/ (k - Len(old) \in DOMAIN R
                                     /\ (old \o R)[k] = R[k - Len(old)])
      BY <1>9, <1>11, Joined
    <2>2. /\ H \in Seq(Items)
          /\ \A j \in DOMAIN old : j \in DOMAIN H /\ H[j] = old[j]
          /\ \A k \in DOMAIN H :
                k \in DOMAIN old \/ (k - Len(old) \in DOMAIN R /\ H[k] = R[k - Len(old)])
      BY <1>12, <2>1, Zenon
    <2>3. \A k \in DOMAIN H : k \in DOMAIN flight \/ \E m \in rows : H[k] = New(m, TRUE)
      <3>1. TAKE k \in DOMAIN H
      <3>2. CASE k \in DOMAIN old
        BY <1>11, <3>2
      <3>3. CASE k - Len(old) \in DOMAIN R /\ H[k] = R[k - Len(old)]
        <4>1. PICK i : i = k - Len(old)
          OBVIOUS
        <4>2. i \in DOMAIN R /\ H[k] = R[i]
          BY <3>3, <4>1
        <4>3. PICK m \in rows : R[i] = New(m, TRUE)
          BY <1>9, <4>2
        <4>4. QED
          BY <4>2, <4>3
      <3>4. QED
        BY <2>2, <3>2, <3>3
    <2>4. QED
      BY <1>11, <2>2, <2>3
  <1>14. PICK G : G = H \o again
    OBVIOUS
  <1>15. /\ G \in Seq(Items) /\ Len(G) = Len(H) + Len(again)
         /\ \A k \in DOMAIN H : k \in DOMAIN G /\ G[k] = H[k]
         /\ \A k \in DOMAIN G : k \in DOMAIN H \/ (k - Len(H) \in DOMAIN again
                                                 /\ G[k] = again[k - Len(H)])
    BY <1>10, <1>13, <1>14, Joined
  <1>16. flight' = G
    BY <1>5, <1>12, <1>14
  <1>17. /\ \A j \in DOMAIN flight : j \in DOMAIN G /\ Aged(flight[j], G[j])
         /\ \A j \in DOMAIN flight : flight[j].kind = "messages" => G[j].late
    BY <1>11, <1>13, <1>15
  <1>18. ASSUME NEW k \in DOMAIN G
         PROVE  \/ k \in DOMAIN flight
                \/ \E m \in rows : G[k] = New(m, TRUE)
                \/ live # None /\ k = Len(G) /\ G[k] = New(live, FALSE)
    <2>1. CASE k \in DOMAIN H
      BY <1>13, <1>15, <2>1
    <2>2. CASE k \notin DOMAIN H
      <3>1. k - Len(H) \in DOMAIN again /\ G[k] = again[k - Len(H)]
        BY <1>15, <2>2
      <3>2. live # None /\ k - Len(H) = 1 /\ Len(again) = 1 /\ G[k] = New(live, FALSE)
        BY <1>10, <3>1
      <3>3. k \in Nat /\ Len(H) \in Nat
        BY <1>13, <1>15, LenProperties
      <3>4. k = Len(G)
        BY <1>15, <3>2, <3>3
      <3>5. QED
        BY <3>2, <3>4
    <2>3. QED
      BY <2>1, <2>2
  <1>19. QED
    BY <1>15, <1>16, <1>17, <1>18

\* The socket opens.
LEMMA LineReturnsStep ==
    ASSUME ChatViewAssumption, ViewInv, NEW live \in rows \cup {None}, LineReturns(live)
    PROVE  ViewInv'
  <1>1. PICK c : c = page.active
    OBVIOUS
  <1>2. PICK d : d = DropMem(page, c)
    OBVIOUS
  <1>3. PICK g : g = [page EXCEPT !.greeted = TRUE]
    OBVIOUS
  <1>4. PICK b : b = (c # None)
    OBVIOUS
  <1>5. /\ line' = "up" /\ rows' = {}
        /\ twice' = IF live = None THEN twice ELSE twice \cup {live}
        /\ home' = home /\ marks' = marks /\ purged' = purged /\ alive' = alive
        /\ doing' = doing /\ events' = events
    BY DEF LineReturns
  <1>6. IF page.greeted
        THEN /\ listing' = TRUE
             /\ page' = IF c = None THEN page ELSE StartLoad(d, c)
             /\ asked' = IF c = None THEN asked ELSE AskLoad(asked, d, c)
        ELSE page' = Doubt(g, c, b) /\ asked' = asked /\ listing' = listing
    BY <1>1, <1>2, <1>3, <1>4 DEF LineReturns
  <1>7. /\ ServerTyped /\ Sensible /\ OneDoing /\ ClientTyped /\ page \in Page /\ Owned(page)
        /\ asked \in Asked /\ listing \in BOOLEAN /\ Typed /\ FlightTrue
        /\ c \in Chats \cup {None} /\ page.greeted \in BOOLEAN
    BY <1>1 DEF ViewInv, Typed, ClientTyped, Page
  <1>8. /\ flight' \in Seq(Items)
        /\ \A j \in DOMAIN flight : j \in DOMAIN flight' /\ Aged(flight[j], flight'[j])
        /\ \A k \in DOMAIN flight' :
              \/ k \in DOMAIN flight
              \/ \E m \in rows : flight'[k] = New(m, TRUE)
              \/ live # None /\ k = Len(flight') /\ flight'[k] = New(live, FALSE)
    BY ReturnedFlight
  <1>9. \A m \in rows, t \in BOOLEAN : ItemTrue(New(m, t), home', purged')
    <2>1. SUFFICES ASSUME NEW m \in rows, NEW t \in BOOLEAN
                   PROVE  ItemTrue(New(m, t), home', purged')
      OBVIOUS
    <2>2. m \in Messages /\ home[m] # None /\ m \notin purged
      BY <1>7 DEF ServerTyped, Sensible
    <2>3. New(m, t).kind = "new" /\ New(m, t).chat = home[m] /\ New(m, t).msg = m
      BY DEF New
    <2>4. QED
      BY <1>5, <2>2, <2>3 DEF ItemTrue, IsNew
  <1>10. /\ \A j \in DOMAIN flight : \E k \in DOMAIN flight' : Aged(flight[j], flight'[k])
         /\ \A k \in DOMAIN flight' :
               \/ \E j \in DOMAIN flight : Aged(flight[j], flight'[k])
               \/ ItemTrue(flight'[k], home', purged')
    BY <1>8, <1>9
  <1>11. FlightTrue'
    BY <1>5, <1>7, <1>10, FlightStays
  <1>12. ServerTyped'
    <2>1. twice' \subseteq Messages
      BY <1>5, <1>7 DEF ServerTyped
    <2>2. QED
      BY <1>5, <1>7, <2>1 DEF ServerTyped
  <1>13. Sensible' /\ OneDoing'
    BY <1>5, <1>7 DEF Sensible, OneDoing
  <1>14. page' \in Page /\ Derived(page, page') /\ Owned(page') /\ asked' \in Asked
         /\ listing' \in BOOLEAN
    <2>1. CASE page.greeted /\ c = None
      BY <1>6, <1>7, <2>1, DerivedItself
    <2>2. CASE page.greeted /\ c # None
      <3>1. c \in Chats /\ page' = StartLoad(d, c) /\ asked' = AskLoad(asked, d, c)
            /\ listing' = TRUE
        BY <1>6, <1>7, <2>2
      <3>2. d \in Page /\ Derived(page, d) /\ d.active = c
        BY <1>1, <1>2, <1>7, <3>1, DropPage
      <3>3. PICK r : r = StartLoad(d, c)
        OBVIOUS
      <3>4. r \in Page /\ Derived(d, r) /\ Owned(r)
        BY <3>1, <3>2, <3>3, StartLoadPage
      <3>5. Derived(page, r)
        BY <1>7, <3>2, <3>4, DerivedIsTransitive
      <3>6. AskLoad(asked, d, c) \in Asked
        BY <1>7, <3>1, AskLoadBag
      <3>7. QED
        BY <3>1, <3>3, <3>4, <3>5, <3>6
    <2>3. CASE ~page.greeted
      <3>1. page' = Doubt(g, c, b) /\ asked' = asked /\ listing' = listing
        BY <1>6, <2>3
      <3>2. /\ g \in Page /\ g.mem = page.mem /\ g.disk = page.disk
            /\ g.doubted = page.doubted /\ g.owner = page.owner /\ g.shown = page.shown
            /\ g.blurred = page.blurred /\ g.active = page.active
            /\ g.loading = page.loading
        BY <1>3, <1>7 DEF Page
      <3>3. Derived(page, g) /\ Owned(g)
        BY <1>7, <3>2 DEF Derived, Holds, SameScreen, Owned
      <3>4. b \in BOOLEAN /\ (b => c \in Chats)
        BY <1>4, <1>7
      <3>5. PICK r : r = Doubt(g, c, b)
        OBVIOUS
      <3>6. r \in Page /\ Derived(g, r) /\ Owned(r)
        BY <3>2, <3>3, <3>4, <3>5, DoubtPage
      <3>7. Derived(page, r)
        BY <1>7, <3>2, <3>3, <3>6, DerivedIsTransitive
      <3>8. QED
        BY <1>7, <3>1, <3>5, <3>6, <3>7
    <2>4. QED
      BY <1>7, <2>1, <2>2, <2>3
  <1>15. HandledRest
    BY <1>5, <1>7, <1>8, <1>11, <1>12, <1>13, <1>14 DEF HandledRest, ClientTyped
  <1>16. \A e \in Chats, m \in Messages : Fine(m, e) => Fine(m, e)'
    BY <1>5, <1>10, FineKept
  <1>17. QED
    BY <1>5, <1>14, <1>15, <1>16, DerivedStep

----------------------------------------------------------------------------
(* The theorems.                                                           *)

\* Every step keeps the invariant.
LEMMA ViewNextInv ==
    ASSUME ChatViewAssumption, ViewInv, [ViewNext]_viewvars
    PROVE  ViewInv'
  <1>1. ASSUME NEW i \in DOMAIN flight, Handle(i)
        PROVE  ViewInv'
    <2>1. CASE Decrypt(i)
      BY <2>1, DecryptStep
    <2>2. CASE ApplyNew(i)
      BY <2>2, ApplyNewStep
    <2>3. CASE ApplyEdit(i)
      BY <2>3, ApplyEditStep
    <2>4. CASE ApplyMark(i)
      BY <2>4, ApplyMarkStep
    <2>5. CASE IgnoreEdit(i)
      BY <2>5, IgnoreEditStep
    <2>6. CASE OnCleared(i)
      BY <2>6, OnClearedStep
    <2>7. CASE OnDeleted(i)
      BY <2>7, OnDeletedStep
    <2>8. CASE OnChanged(i)
      BY <2>8, OnChangedStep
    <2>9. CASE ApplyLoad(i)
      BY <2>9, ApplyLoadStep
    <2>10. CASE Answered(i)
      BY <2>10, AnsweredStep
    <2>11. QED
      BY <1>1, <2>1, <2>2, <2>3, <2>4, <2>5, <2>6, <2>7, <2>8, <2>9, <2>10 DEF Handle
  <1>2. ASSUME Respond
        PROVE  ViewInv'
    <2>1. CASE \E c \in Chats, served \in BOOLEAN : AnswerLoad(c, served) \/ FailLoad(c, served)
      BY <2>1, AnswerLoadStep, FailLoadStep
    <2>2. CASE \E data \in {Listed, None} : EndList(data)
      BY <2>2, EndListStep
    <2>3. CASE \E d \in doing : Commit(d) \/ CommitFails(d)
      BY <2>3, CommitStep, CommitFailsStep
    <2>4. QED
      BY <1>2, <2>1, <2>2, <2>3 DEF Respond
  <1>3. ASSUME Happen
        PROVE  ViewInv'
    <2>1. CASE \E c \in Chats, m \in Messages : Send(c, m)
      BY <2>1, SendStep
    <2>2. CASE \E m \in Messages, mark \in Marks : Change(m, mark)
      BY <2>2, ChangeStep
    <2>3. CASE \E c \in Chats, out \in BOOLEAN : ChangeGroup(c, out)
      BY <2>3, ChangeGroupStep
    <2>4. CASE \E c \in Chats, kind \in {"cleared", "gone", "left"}, mine, told \in BOOLEAN :
                  Announce(c, kind, mine, told)
      BY <2>4, AnnounceStep
    <2>5. CASE LineBreaks
      BY <2>5, LineBreaksStep
    <2>6. CASE (\E c \in Chats : Open(c) \/ Tap(c)) \/ Back
      BY <2>6, UserStep
    <2>7. CASE Reload
      BY <2>7, ReloadStep
    <2>8. QED
      BY <1>3, <2>1, <2>2, <2>3, <2>4, <2>5, <2>6, <2>7 DEF Happen
  <1>4. ASSUME NEW live \in rows \cup {None}, LineReturns(live)
        PROVE  ViewInv'
    BY <1>4, LineReturnsStep
  <1>5. ASSUME UNCHANGED viewvars
        PROVE  ViewInv'
    <2>1. /\ page' = page /\ flight' = flight /\ home' = home /\ purged' = purged
          /\ doing' = doing /\ marks' = marks /\ alive' = alive /\ rows' = rows
          /\ twice' = twice /\ line' = line /\ asked' = asked /\ listing' = listing
          /\ events' = events
      BY <1>5 DEF viewvars, server, net
    <2>2. UNCHANGED <<server, twice>>
      BY <2>1 DEF server
    <2>3. ServerTyped' /\ Sensible' /\ OneDoing'
      BY <2>2, ServerStays
    <2>4. /\ flight' \in Seq(Items) /\ FlightTrue'
          /\ \A j \in DOMAIN flight : \E k \in DOMAIN flight' : Aged(flight[j], flight'[k])
      BY <2>1, FlightUnchanged
    <2>5. HandledRest
      BY <2>1, <2>3, <2>4 DEF HandledRest, ViewInv, Typed, ClientTyped
    <2>6. \A e \in Chats, m \in Messages : Fine(m, e) => Fine(m, e)'
      BY <2>1, <2>4, FineKept
    <2>7. QED
      BY <2>1, <2>5, <2>6, SamePageStep
  <1>6. QED
    BY <1>1, <1>2, <1>3, <1>4, <1>5 DEF ViewNext

\* The inductive invariant of the chats page.
THEOREM ViewInvariant == ViewSpec => []ViewInv
  <1>1. ViewInit => ViewInv
    BY ChatViewAssumption, ViewInitInv
  <1>2. ViewInv /\ [ViewNext]_viewvars => ViewInv'
    BY ChatViewAssumption, ViewNextInv
  <1>3. QED
    BY <1>1, <1>2, PTL DEF ViewSpec

\* The variables of the chats page keep their types.
THEOREM ChatViewTypeCorrect == ViewSpec => []ChatViewTypeOK
  <1>1. ViewInv => ChatViewTypeOK
    BY ChatViewAssumption, ViewInvImplies
  <1>2. QED
    BY <1>1, ViewInvariant, PTL

\* Under the heading of a loaded chat are the messages of that chat and of no other, however
\* many loads, frames and decryptions of other chats end meanwhile, unless a change meant for
\* another chat was applied to its list.
THEOREM ShownAlwaysActive == ViewSpec => []ShownIsActive
  <1>1. ViewInv => ShownIsActive
    BY ChatViewAssumption, ViewInvImplies
  <1>2. QED
    BY <1>1, ViewInvariant, PTL

\* The caches of a chat hold its own messages, and none that was cleared or deleted with the
\* chat once the news of that is through.
THEOREM CachesAlwaysTrue == ViewSpec => []CachesAreTrue
  <1>1. ViewInv => CachesAreTrue
    BY ChatViewAssumption, ViewInvImplies
  <1>2. QED
    BY <1>1, ViewInvariant, PTL

----------------------------------------------------------------------------
(* The badges.                                                             *)

\* An item that will raise the badge of its chat when it is through.
LiveItem(x) == \/ x.kind = "new" /\ ~x.replayed /\ x.msg \notin Own
               \/ x.kind = "openingNew" /\ x.bump

\* The messages of such items of a flight, and that no message has two of them.
LiveIn(F) == {m \in Messages : \E i \in DOMAIN F : LiveItem(F[i]) /\ F[i].msg = m}
OnceIn(F) ==
    \A i, j \in DOMAIN F : LiveItem(F[i]) /\ LiveItem(F[j]) /\ F[i].msg = F[j].msg => i = j

\* The messages of S that belong to chat c.
Of(h, S, c) == {m \in S : h[m] = c}

\* How often a message of chat c may have counted, at most.
Ever(h, t, c) == Cardinality(Of(h, Messages \ Own, c)) + Cardinality(Of(h, t, c))

\* The badges of p have room for the messages in L, and so has the saved list of chats.
BadgesFit(h, t, L, p) ==
    /\ \A c \in DOMAIN p.chats : p.chats[c] + Cardinality(Of(h, L, c)) <= Ever(h, t, c)
    /\ \A c \in DOMAIN p.saved : p.saved[c] <= Ever(h, t, c)

\* A message is in a badge, unread on the server or on its way to a badge, never two of them.
BadgeInv ==
    /\ OnceIn(flight)
    /\ LiveIn(flight) \cap (rows \cup Own) = {}
    /\ rows \cap (Own \cup twice) = {}
    /\ BadgesFit(home, twice, LiveIn(flight), page)

\* The messages of a chat can be counted.
LEMMA OfCounts ==
    ASSUME ChatViewAssumption, NEW h, NEW c, NEW S \in SUBSET Messages, NEW T \in SUBSET S
    PROVE  /\ IsFiniteSet(Of(h, S, c)) /\ Cardinality(Of(h, S, c)) \in Nat
           /\ Cardinality(Of(h, T, c)) \in Nat
           /\ Cardinality(Of(h, T, c)) <= Cardinality(Of(h, S, c))
  <1>1. IsFiniteSet(Messages)
    BY ChatViewAssumption DEF ChatViewAssumption
  <1>2. Of(h, S, c) \in SUBSET Messages /\ Of(h, T, c) \in SUBSET Of(h, S, c)
    BY DEF Of
  <1>3. IsFiniteSet(Of(h, S, c))
    BY <1>1, <1>2, FS_Subset
  <1>4. IsFiniteSet(Of(h, T, c)) /\ Cardinality(Of(h, T, c)) <= Cardinality(Of(h, S, c))
    BY <1>2, <1>3, FS_Subset
  <1>5. QED
    BY <1>3, <1>4, FS_CardinalityType

\* How often a message may have counted is a number.
LEMMA EverCounts ==
    ASSUME ChatViewAssumption, NEW h, NEW c, NEW t \in SUBSET Messages
    PROVE  /\ Cardinality(Of(h, Messages \ Own, c)) \in Nat /\ Cardinality(Of(h, t, c)) \in Nat
           /\ Ever(h, t, c) \in Nat
  <1>1. /\ Messages \ Own \in SUBSET Messages
        /\ t \in SUBSET t /\ Messages \ Own \in SUBSET (Messages \ Own)
    OBVIOUS
  <1>2. Cardinality(Of(h, Messages \ Own, c)) \in Nat
    BY <1>1, OfCounts
  <1>3. Cardinality(Of(h, t, c)) \in Nat
    BY <1>1, OfCounts
  <1>4. QED
    BY <1>2, <1>3 DEF Ever

\* Quieter badges have room for fewer messages.
LEMMA FitQuieter ==
    ASSUME ChatViewAssumption, NEW h, NEW t \in SUBSET Messages, NEW S \in SUBSET Messages,
           NEW T \in SUBSET S, NEW p \in Page, NEW q \in Page, Quieter(p, q),
           BadgesFit(h, t, S, p)
    PROVE  BadgesFit(h, t, T, q)
  <1>1. /\ \A c \in DOMAIN p.chats : p.chats[c] \in Nat
        /\ \A c \in DOMAIN q.chats : q.chats[c] \in Nat
    BY BadgeMembers DEF Page
  <1>2. ASSUME NEW c \in DOMAIN q.chats
        PROVE  q.chats[c] + Cardinality(Of(h, T, c)) <= Ever(h, t, c)
    <2>1. c \in DOMAIN p.chats /\ q.chats[c] <= p.chats[c]
      BY DEF Quieter
    <2>2. p.chats[c] + Cardinality(Of(h, S, c)) <= Ever(h, t, c)
      BY <2>1 DEF BadgesFit
    <2>3. /\ Cardinality(Of(h, S, c)) \in Nat /\ Cardinality(Of(h, T, c)) \in Nat
          /\ Cardinality(Of(h, T, c)) <= Cardinality(Of(h, S, c))
      BY OfCounts
    <2>4. Ever(h, t, c) \in Nat
      BY EverCounts
    <2>5. QED
      BY <1>1, <2>1, <2>2, <2>3, <2>4
  <1>3. QED
    BY <1>2 DEF BadgesFit, Quieter

\* A flight whose live items come from those of another, each from one of its own.
LEMMA LiveFollows ==
    ASSUME NEW F, NEW G, NEW s, OnceIn(F),
           \A k \in DOMAIN G : LiveItem(G[k]) =>
              s[k] \in DOMAIN F /\ LiveItem(F[s[k]]) /\ F[s[k]].msg = G[k].msg,
           \A k, l \in DOMAIN G : LiveItem(G[k]) /\ LiveItem(G[l]) /\ s[k] = s[l] => k = l
    PROVE  OnceIn(G) /\ LiveIn(G) \subseteq LiveIn(F)
  <1>1. ASSUME NEW k \in DOMAIN G, NEW l \in DOMAIN G,
               LiveItem(G[k]), LiveItem(G[l]), G[k].msg = G[l].msg
        PROVE  k = l
    <2>1. /\ s[k] \in DOMAIN F /\ LiveItem(F[s[k]]) /\ F[s[k]].msg = G[k].msg
          /\ s[l] \in DOMAIN F /\ LiveItem(F[s[l]]) /\ F[s[l]].msg = G[l].msg
      BY <1>1
    <2>2. s[k] = s[l]
      BY <1>1, <2>1 DEF OnceIn
    <2>3. QED
      BY <1>1, <2>2
  <1>2. ASSUME NEW m \in LiveIn(G)
        PROVE  m \in LiveIn(F)
    <2>1. PICK k \in DOMAIN G : LiveItem(G[k]) /\ G[k].msg = m
      BY DEF LiveIn
    <2>2. s[k] \in DOMAIN F /\ LiveItem(F[s[k]]) /\ F[s[k]].msg = m /\ m \in Messages
      BY <2>1 DEF LiveIn
    <2>3. QED
      BY <2>2 DEF LiveIn
  <1>3. QED
    BY <1>1, <1>2 DEF OnceIn

\* What becomes late is no livelier.
LEMMA AgedLive ==
    ASSUME NEW x, NEW y, Aged(x, y), LiveItem(y)
    PROVE  LiveItem(x) /\ x.msg = y.msg
  <1>1. CASE y.kind = "new"
    BY <1>1 DEF Aged, LiveItem
  <1>2. CASE y.kind = "openingNew"
    BY <1>2 DEF Aged, LiveItem
  <1>3. QED
    BY <1>1, <1>2 DEF LiveItem

\* Items that stay in place.
LEMMA LiveAged ==
    ASSUME OnceIn(flight), NEW G,
           \A k \in DOMAIN G : (k \in DOMAIN flight /\ Aged(flight[k], G[k])) \/ ~LiveItem(G[k])
    PROVE  OnceIn(G) /\ LiveIn(G) \subseteq LiveIn(flight)
  <1>1. PICK s : s = [k \in DOMAIN G |-> k]
    OBVIOUS
  <1>2. \A k \in DOMAIN G : s[k] = k
    BY <1>1
  <1>3. \A k \in DOMAIN G : LiveItem(G[k]) =>
           s[k] \in DOMAIN flight /\ LiveItem(flight[s[k]]) /\ flight[s[k]].msg = G[k].msg
    BY <1>2, AgedLive
  <1>4. \A k, l \in DOMAIN G : LiveItem(G[k]) /\ LiveItem(G[l]) /\ s[k] = s[l] => k = l
    BY <1>2
  <1>5. QED
    BY <1>3, <1>4, LiveFollows

\* One more item that is not live.
LEMMA LiveAppended ==
    ASSUME ChatViewAssumption, flight \in Seq(Items), OnceIn(flight),
           NEW F \in Seq(Items), DOMAIN F = DOMAIN flight,
           \A k \in DOMAIN F : Aged(flight[k], F[k]),
           NEW x \in Items, ~LiveItem(x), NEW G, G = Append(F, x)
    PROVE  OnceIn(G) /\ LiveIn(G) \subseteq LiveIn(flight)
  <1>1. Len(F) \in Nat /\ DOMAIN F = 1..Len(F)
    BY LenProperties
  <1>2. /\ G \in Seq(Items) /\ Len(G) = Len(F) + 1
        /\ \A j \in 1..Len(F) : G[j] = F[j]
        /\ G[Len(F) + 1] = x
    BY AppendProperties
  <1>3. DOMAIN G = 1..(Len(F) + 1)
    BY <1>2, LenProperties
  <1>4. ASSUME NEW k \in DOMAIN G
        PROVE  (k \in DOMAIN flight /\ Aged(flight[k], G[k])) \/ ~LiveItem(G[k])
    <2>1. CASE k \in 1..Len(F)
      BY <1>1, <1>2, <2>1
    <2>2. CASE k \notin 1..Len(F)
      <3>1. k = Len(F) + 1
        BY <1>1, <1>3, <2>2
      <3>2. QED
        BY <1>2, <3>1
    <2>3. QED
      BY <2>1, <2>2
  <1>5. QED
    BY <1>4, LiveAged

\* What remains when an item is taken has nothing of its message, if that was live.
LEMMA LiveTaken ==
    ASSUME ChatViewAssumption, flight \in Seq(Items), OnceIn(flight), NEW i \in DOMAIN flight
    PROVE  /\ OnceIn(Taken(i)) /\ LiveIn(Taken(i)) \subseteq LiveIn(flight)
           /\ LiveItem(flight[i]) => flight[i].msg \notin LiveIn(Taken(i))
  <1>1. PICK G : G = Taken(i)
    OBVIOUS
  <1>2. PICK s : s = [k \in DOMAIN G |-> IF k < i THEN k ELSE k + 1]
    OBVIOUS
  <1>3. ASSUME NEW k \in DOMAIN G
        PROVE  s[k] \in DOMAIN flight /\ s[k] # i /\ Aged(flight[s[k]], G[k])
    <2>1. LET j == IF k < i THEN k ELSE k + 1
          IN  j \in DOMAIN flight /\ j # i /\ Aged(flight[j], G[k])
      BY <1>1, TakenItems
    <2>2. QED
      BY <1>2, <2>1
  <1>4. ASSUME NEW k \in DOMAIN G, LiveItem(G[k])
        PROVE  s[k] \in DOMAIN flight /\ LiveItem(flight[s[k]]) /\ flight[s[k]].msg = G[k].msg
    BY <1>3, <1>4, AgedLive
  <1>5. ASSUME NEW k \in DOMAIN G, NEW l \in DOMAIN G, s[k] = s[l]
        PROVE  k = l
    <2>1. k \in Nat /\ l \in Nat /\ i \in Nat
      <3>1. Taken(i) \in Seq(Items)
        BY TakenItems
      <3>2. QED
        BY <1>1, <3>1, LenProperties
    <2>2. QED
      BY <1>2, <1>5, <2>1
  <1>6. OnceIn(G) /\ LiveIn(G) \subseteq LiveIn(flight)
    BY <1>4, <1>5, LiveFollows
  <1>7. ASSUME LiveItem(flight[i]), flight[i].msg \in LiveIn(G)
        PROVE  FALSE
    <2>1. PICK k \in DOMAIN G : LiveItem(G[k]) /\ G[k].msg = flight[i].msg
      BY <1>7 DEF LiveIn
    <2>2. s[k] = i
      BY <1>4, <1>7, <2>1 DEF OnceIn
    <2>3. QED
      BY <1>3, <2>2
  <1>8. QED
    BY <1>1, <1>6, <1>7

\* A step that raises no badge and sends nothing live.
LEMMA QuietStep ==
    ASSUME ChatViewAssumption, ViewInv, ViewInv', BadgeInv, home' = home, twice' = twice,
           rows' \subseteq rows, OnceIn(flight'), LiveIn(flight') \subseteq LiveIn(flight),
           Quieter(page, page')
    PROVE  BadgeInv'
  <1>1. page \in Page /\ page' \in Page /\ twice \in SUBSET Messages
    BY DEF ViewInv, Typed, ServerTyped, ClientTyped
  <1>2. PICK q : q = page'
    OBVIOUS
  <1>3. PICK L : L = LiveIn(flight')
    OBVIOUS
  <1>4. LiveIn(flight) \in SUBSET Messages /\ L \in SUBSET LiveIn(flight)
    BY <1>3 DEF LiveIn
  <1>5. q \in Page /\ Quieter(page, q) /\ BadgesFit(home, twice, LiveIn(flight), page)
    BY <1>1, <1>2 DEF BadgeInv
  <1>6. BadgesFit(home, twice, L, q)
    BY <1>1, <1>4, <1>5, FitQuieter
  <1>7. BadgesFit(home', twice', LiveIn(flight'), page')
    BY <1>2, <1>3, <1>6
  <1>8. LiveIn(flight') \cap (rows' \cup Own) = {} /\ rows' \cap (Own \cup twice') = {}
    BY DEF BadgeInv
  <1>9. QED
    BY <1>7, <1>8 DEF BadgeInv

\* An item is handled, and raises no badge.
LEMMA HandledBadge ==
    ASSUME ChatViewAssumption, ViewInv, ViewInv', BadgeInv, NEW i \in DOMAIN flight,
           flight' = Taken(i), UNCHANGED <<server, twice>>, Quieter(page, page')
    PROVE  BadgeInv'
  <1>1. flight \in Seq(Items) /\ OnceIn(flight)
    BY DEF ViewInv, Typed, BadgeInv
  <1>2. home' = home /\ rows' = rows /\ twice' = twice
    BY DEF server
  <1>3. PICK F : F = Taken(i)
    OBVIOUS
  <1>4. OnceIn(F) /\ LiveIn(F) \subseteq LiveIn(flight)
    BY <1>1, <1>3, LiveTaken
  <1>5. OnceIn(flight') /\ LiveIn(flight') \subseteq LiveIn(flight)
    BY <1>3, <1>4
  <1>6. QED
    BY <1>2, <1>5, QuietStep

\* What is under way stays as it is, or becomes late, and the badges do not grow.
LEMMA AgedBadge ==
    ASSUME ChatViewAssumption, ViewInv, ViewInv', BadgeInv, home' = home, twice' = twice,
           rows' \subseteq rows, Quieter(page, page'),
           \A k \in DOMAIN flight' :
              (k \in DOMAIN flight /\ Aged(flight[k], flight'[k])) \/ ~LiveItem(flight'[k])
    PROVE  BadgeInv'
  <1>1. PICK G : G = flight'
    OBVIOUS
  <1>2. \A k \in DOMAIN G : (k \in DOMAIN flight /\ Aged(flight[k], G[k])) \/ ~LiveItem(G[k])
    BY <1>1
  <1>3. OnceIn(flight)
    BY DEF BadgeInv
  <1>4. OnceIn(G) /\ LiveIn(G) \subseteq LiveIn(flight)
    BY <1>2, <1>3, LiveAged
  <1>5. OnceIn(flight') /\ LiveIn(flight') \subseteq LiveIn(flight)
    BY <1>1, <1>4
  <1>6. QED
    BY <1>5, QuietStep

\* Nothing becomes of what is under way.
LEMMA SameFlightBadge ==
    ASSUME ChatViewAssumption, ViewInv, ViewInv', BadgeInv, home' = home, twice' = twice,
           rows' \subseteq rows, Quieter(page, page'), flight' = flight
    PROVE  BadgeInv'
  <1>1. OnceIn(flight') /\ LiveIn(flight') \subseteq LiveIn(flight)
    BY DEF BadgeInv
  <1>2. QED
    BY <1>1, QuietStep

\* One more item is under way that is not live, and the badges do not grow.
LEMMA SentBadge ==
    ASSUME ChatViewAssumption, ViewInv, ViewInv', BadgeInv, home' = home, twice' = twice,
           rows' \subseteq rows, Quieter(page, page'),
           NEW x \in Items, ~LiveItem(x), flight' \in {flight, Append(flight, x)}
    PROVE  BadgeInv'
  <1>1. CASE flight' = flight
    BY <1>1, SameFlightBadge
  <1>2. CASE flight' = Append(flight, x)
    <2>1. flight \in Seq(Items) /\ OnceIn(flight)
      BY DEF ViewInv, Typed, BadgeInv
    <2>2. DOMAIN flight = DOMAIN flight /\ \A k \in DOMAIN flight : Aged(flight[k], flight[k])
      BY <2>1, AgedItself, ElementOfSeq, LenProperties
    <2>3. PICK G : G = Append(flight, x)
      OBVIOUS
    <2>4. OnceIn(G) /\ LiveIn(G) \subseteq LiveIn(flight)
      BY <2>1, <2>2, <2>3, LiveAppended
    <2>5. OnceIn(flight') /\ LiveIn(flight') \subseteq LiveIn(flight)
      BY <1>2, <2>3, <2>4
    <2>6. QED
      BY <2>5, QuietStep
  <1>3. QED
    BY <1>1, <1>2

\* A page with the same badges.
LEMMA SameBadges ==
    ASSUME NEW p \in Page, NEW q, q.chats = p.chats, q.saved = p.saved
    PROVE  Quieter(p, q)
  <1>1. \A c \in DOMAIN p.chats : p.chats[c] \in Nat
    BY BadgeMembers DEF Page
  <1>2. QED
    BY <1>1 DEF Quieter

\* A message or an edit starts to be decrypted.
LEMMA DecryptBadge ==
    ASSUME ChatViewAssumption, ViewInv, ViewInv', BadgeInv, NEW i \in DOMAIN flight, Decrypt(i)
    PROVE  BadgeInv'
  <1>1. PICK x : x = flight[i]
    OBVIOUS
  <1>2. PICK y : /\ y = [kind |-> IF x.kind = "new" THEN "openingNew" ELSE "openingEdit",
                         chat |-> x.chat, msg |-> x.msg, live |-> x.chat = page.active,
                         marks |-> (IF x.kind = "new" THEN x.marks ELSE {})
                                   \cup (IF x.chat \in DOMAIN page.chats THEN {}
                                         ELSE {"sealed"}),
                         bump |-> /\ x.kind = "new" /\ ~(x.chat = page.active)
                                  /\ x.msg \notin Own /\ ~x.replayed,
                         late |-> x.late]
                 /\ flight' = [Overtaken(x, i) EXCEPT ![i] = y]
    BY <1>1 DEF Decrypt
  <1>3. flight \in Seq(Items) /\ OnceIn(flight) /\ page \in Page
    BY DEF ViewInv, Typed, ClientTyped, BadgeInv
  <1>4. home' = home /\ rows' = rows /\ twice' = twice /\ page' = page
    BY DEF Decrypt, server
  <1>5. LiveItem(y) => LiveItem(x) /\ y.msg = x.msg
    <2>1. /\ y.kind \in {"openingNew", "openingEdit"} /\ y.msg = x.msg
          /\ y.bump => x.kind = "new" /\ x.msg \notin Own /\ ~x.replayed
      BY <1>2
    <2>2. QED
      BY <2>1 DEF LiveItem
  <1>6. PICK O : O = Overtaken(x, i)
    OBVIOUS
  <1>7. DOMAIN O = DOMAIN flight /\ \A j \in DOMAIN flight : Aged(flight[j], O[j])
    BY <1>1, <1>3, <1>6, OvertakenAges
  <1>8. PICK G : G = [O EXCEPT ![i] = y]
    OBVIOUS
  <1>9. /\ DOMAIN G = DOMAIN flight /\ G[i] = y
        /\ \A k \in DOMAIN flight \ {i} : G[k] = O[k]
    BY <1>7, <1>8
  <1>10. PICK s : s = [k \in DOMAIN G |-> k]
    OBVIOUS
  <1>11. \A k \in DOMAIN G : s[k] = k
    BY <1>10
  <1>12. ASSUME NEW k \in DOMAIN G, LiveItem(G[k])
         PROVE  s[k] \in DOMAIN flight /\ LiveItem(flight[s[k]]) /\ flight[s[k]].msg = G[k].msg
    <2>1. CASE k = i
      BY <1>1, <1>5, <1>9, <1>11, <1>12, <2>1
    <2>2. CASE k # i
      <3>1. Aged(flight[k], G[k]) /\ k \in DOMAIN flight
        BY <1>7, <1>9, <2>2
      <3>2. QED
        BY <1>11, <1>12, <3>1, AgedLive
    <2>3. QED
      BY <2>1, <2>2
  <1>13. \A k, l \in DOMAIN G : LiveItem(G[k]) /\ LiveItem(G[l]) /\ s[k] = s[l] => k = l
    BY <1>11
  <1>14. OnceIn(G) /\ LiveIn(G) \subseteq LiveIn(flight)
    BY <1>3, <1>12, <1>13, LiveFollows
  <1>15. OnceIn(flight') /\ LiveIn(flight') \subseteq LiveIn(flight)
    BY <1>2, <1>6, <1>8, <1>14
  <1>16. Quieter(page, page')
    BY <1>3, <1>4, DerivedItself
  <1>17. QED
    BY <1>4, <1>15, <1>16, QuietStep

\* An edit, files or a deletion are shown.
LEMMA MarkBadge ==
    ASSUME ChatViewAssumption, ViewInv, ViewInv', BadgeInv, NEW i \in DOMAIN flight,
           ApplyEdit(i) \/ ApplyMark(i) \/ IgnoreEdit(i)
    PROVE  BadgeInv'
  <1>1. PICK x : x = flight[i]
    OBVIOUS
  <1>2. /\ x \in Items /\ page \in Page /\ Owned(page)
    BY <1>1, ElementOfSeq, LenProperties DEF ViewInv, Typed, ClientTyped
  <1>3. x.chat \in Chats /\ x.late \in BOOLEAN
    BY <1>2, ItemFields
  <1>4. CASE ApplyEdit(i)
    <2>1. PICK b : b = (x.late \/ x.marks # {} \/ ~OnTheRightList(page, x.chat))
      OBVIOUS
    <2>2. PICK q : q = Doubt(MarkShown(page, x.chat, x.msg, "edited", x.marks), x.chat, b)
      OBVIOUS
    <2>3. /\ x.kind = "openingEdit" /\ flight' = Taken(i) /\ UNCHANGED <<server, twice>>
          /\ page' = q
      BY <1>1, <1>4, <2>1, <2>2 DEF ApplyEdit, server
    <2>4. /\ x.msg \in Messages /\ x.marks \in Faces /\ "edited" \in Marks /\ b \in BOOLEAN
          /\ b \/ OnTheRightList(page, x.chat)
      BY <1>2, <1>3, <2>1, <2>3, ItemFields DEF OpenItem
    <2>5. Quieter(page, q)
      BY <1>2, <1>3, <2>2, <2>4, MarkedPage
    <2>6. QED
      BY <2>3, <2>5, HandledBadge
  <1>5. CASE ApplyMark(i)
    <2>1. PICK b : b = (x.late \/ ~OnTheRightList(page, x.chat))
      OBVIOUS
    <2>2. PICK q : q = Doubt(MarkShown(page, x.chat, x.msg, x.kind, {}), x.chat, b)
      OBVIOUS
    <2>3. /\ x.kind \in {"files", "deleted"} /\ flight' = Taken(i)
          /\ UNCHANGED <<server, twice>> /\ (page' = q \/ page' = page)
      BY <1>1, <1>5, <2>1, <2>2 DEF ApplyMark, server
    <2>4. x.kind \in Marks
      BY <1>2, <2>3, ItemFields
    <2>5. /\ x.msg \in Messages /\ {} \in Faces /\ b \in BOOLEAN
          /\ b \/ OnTheRightList(page, x.chat)
      BY <1>2, <1>3, <2>1, <2>4, ItemFields DEF MarkItem, Faces
    <2>6. Quieter(page, q)
      BY <1>2, <1>3, <2>2, <2>4, <2>5, MarkedPage
    <2>7. Quieter(page, page')
      BY <1>2, <2>3, <2>6, DerivedItself
    <2>8. QED
      BY <2>3, <2>7, HandledBadge
  <1>6. CASE IgnoreEdit(i)
    <2>1. flight' = Taken(i) /\ UNCHANGED <<server, twice>> /\ page' = page
      BY <1>6 DEF IgnoreEdit, server
    <2>2. Quieter(page, page')
      BY <1>2, <2>1, DerivedItself
    <2>3. QED
      BY <2>1, <2>2, HandledBadge
  <1>7. QED
    BY <1>4, <1>5, <1>6

\* The news that a chat was cleared or deleted: its badge goes, or the chat.
LEMMA NewsBadge ==
    ASSUME ChatViewAssumption, ViewInv, ViewInv', BadgeInv, NEW i \in DOMAIN flight,
           OnCleared(i) \/ OnDeleted(i) \/ Answered(i)
    PROVE  BadgeInv'
  <1>1. PICK x : x = flight[i]
    OBVIOUS
  <1>2. x \in Items /\ x.chat \in Chats /\ x.late \in BOOLEAN /\ page \in Page
    BY <1>1, ElementOfSeq, LenProperties, ItemFields DEF ViewInv, Typed, ClientTyped
  <1>3. PICK o : o = DropCaches(page, x.chat)
    OBVIOUS
  <1>4. o \in Page /\ o.chats = page.chats /\ o.saved = page.saved
    BY <1>2, <1>3, DropCachesFields
  <1>5. \A c \in DOMAIN page.chats : page.chats[c] \in Nat
    BY <1>2, BadgeMembers DEF Page
  <1>6. CASE OnCleared(i)
    <2>1. PICK q : q = IF x.chat = page.active THEN Blank(o) ELSE Disown(o, x.chat)
      OBVIOUS
    <2>2. PICK r : r = IF x.chat \in DOMAIN q.chats THEN Silent(q, x.chat) ELSE q
      OBVIOUS
    <2>3. /\ flight' = Taken(i) /\ UNCHANGED <<server, twice>>
          /\ page' = Doubt(r, x.chat, x.late)
      BY <1>1, <1>3, <1>6, <2>1, <2>2 DEF OnCleared, Blank, Silent, server
    <2>4. q \in Page /\ q.chats = page.chats /\ q.saved = page.saved
      <3>1. CASE x.chat = page.active
        BY <1>4, <2>1, <3>1, BlankFields
      <3>2. CASE x.chat # page.active
        BY <1>2, <1>4, <2>1, <3>2, DisownFields
      <3>3. QED
        BY <3>1, <3>2
    <2>5. r \in Page /\ Quieter(page, r)
      <3>1. CASE x.chat \in DOMAIN q.chats
        <4>1. /\ r \in Page /\ r.saved = q.saved /\ DOMAIN r.chats = DOMAIN q.chats
              /\ \A d \in DOMAIN q.chats : r.chats[d] = IF d = x.chat THEN 0 ELSE q.chats[d]
          BY <1>2, <2>2, <2>4, <3>1, SilentFields
        <4>2. QED
          BY <1>5, <2>4, <4>1 DEF Quieter
      <3>2. CASE x.chat \notin DOMAIN q.chats
        BY <1>2, <2>2, <2>4, <3>2, SameBadges
      <3>3. QED
        BY <3>1, <3>2
    <2>6. PICK t : t = Doubt(r, x.chat, x.late)
      OBVIOUS
    <2>7. t \in Page /\ Quieter(r, t)
      BY <1>2, <2>5, <2>6, DoubtPage
    <2>8. Quieter(page, t)
      BY <1>2, <2>5, <2>7, QuieterIsTransitive
    <2>9. QED
      BY <2>3, <2>6, <2>8, HandledBadge
  <1>7. CASE OnDeleted(i)
    <2>1. PICK p : p = Unlist(o, x.chat)
      OBVIOUS
    <2>2. PICK q : q = Disown(p, x.chat)
      OBVIOUS
    <2>3. PICK r : r = IF x.chat = page.active THEN [q EXCEPT !.active = None, !.shown = Empty]
                       ELSE q
      OBVIOUS
    <2>4. /\ flight' = Taken(i) /\ UNCHANGED <<server, twice>>
          /\ page' = Doubt(r, x.chat, x.late)
      <3>1. CASE x.chat = page.active
        BY <1>1, <1>3, <1>7, <2>1, <2>2, <2>3, <3>1 DEF OnDeleted, server
      <3>2. CASE x.chat # page.active
        BY <1>1, <1>3, <1>7, <2>1, <2>2, <2>3, <3>2 DEF OnDeleted, server
      <3>3. QED
        BY <3>1, <3>2
    <2>5. /\ p \in Page /\ p.saved = o.saved
          /\ \A d \in DOMAIN p.chats : d \in DOMAIN o.chats /\ p.chats[d] = o.chats[d]
      BY <1>2, <1>4, <2>1, UnlistFields
    <2>6. q \in Page /\ q.chats = p.chats /\ q.saved = p.saved
      BY <1>2, <2>2, <2>5, DisownFields
    <2>7. r \in Page /\ r.chats = q.chats /\ r.saved = q.saved
      <3>1. CASE x.chat = page.active
        <4>1. r = [q EXCEPT !.active = None, !.shown = Empty] /\ Empty \in Lists
          BY <2>3, <3>1, ListMembers
        <4>2. QED
          BY <2>6, <4>1 DEF Page
      <3>2. CASE x.chat # page.active
        BY <2>3, <2>6, <3>2
      <3>3. QED
        BY <3>1, <3>2
    <2>8. Quieter(page, r)
      BY <1>4, <1>5, <2>5, <2>6, <2>7 DEF Quieter
    <2>9. PICK t : t = Doubt(r, x.chat, x.late)
      OBVIOUS
    <2>10. t \in Page /\ Quieter(r, t)
      BY <1>2, <2>7, <2>9, DoubtPage
    <2>11. Quieter(page, t)
      BY <1>2, <2>7, <2>8, <2>10, QuieterIsTransitive
    <2>12. QED
      BY <2>4, <2>9, <2>11, HandledBadge
  <1>8. CASE Answered(i)
    <2>1. PICK b : b = (page.active # x.chat)
      OBVIOUS
    <2>2. PICK p : p = [o EXCEPT !.shown = Empty, !.owner = x.chat, !.blurred = b]
      OBVIOUS
    <2>3. PICK u : u = Unlist(p, x.chat)
      OBVIOUS
    <2>4. PICK r : r = IF x.msg = "cleared" THEN p ELSE [u EXCEPT !.active = None]
      OBVIOUS
    <2>5. p = [o EXCEPT !.shown = Empty, !.owner = x.chat, !.blurred = page.active # x.chat]
      BY <2>1, <2>2
    <2>6. /\ flight' = Taken(i) /\ UNCHANGED <<server, twice>>
          /\ page' = Doubt(r, x.chat, x.late)
      <3>1. CASE x.msg = "cleared"
        BY <1>1, <1>3, <1>8, <2>3, <2>4, <2>5, <3>1 DEF Answered, server
      <3>2. CASE x.msg # "cleared"
        BY <1>1, <1>3, <1>8, <2>3, <2>4, <2>5, <3>2 DEF Answered, server
      <3>3. QED
        BY <3>1, <3>2
    <2>7. p \in Page /\ p.chats = o.chats /\ p.saved = o.saved
      BY <1>2, <1>4, <2>1, <2>2, ListMembers DEF Page
    <2>8. /\ u \in Page /\ u.saved = p.saved
          /\ \A d \in DOMAIN u.chats : d \in DOMAIN p.chats /\ u.chats[d] = p.chats[d]
      BY <1>2, <2>3, <2>7, UnlistFields
    <2>9. r \in Page /\ Quieter(page, r)
      <3>1. CASE x.msg = "cleared"
        BY <1>2, <1>4, <2>4, <2>7, <3>1, SameBadges
      <3>2. CASE x.msg # "cleared"
        <4>1. r = [u EXCEPT !.active = None]
          BY <2>4, <3>2
        <4>2. r \in Page /\ r.chats = u.chats /\ r.saved = u.saved
          BY <2>8, <4>1 DEF Page
        <4>3. QED
          BY <1>4, <1>5, <2>7, <2>8, <4>2 DEF Quieter
      <3>3. QED
        BY <3>1, <3>2
    <2>10. PICK t : t = Doubt(r, x.chat, x.late)
      OBVIOUS
    <2>11. t \in Page /\ Quieter(r, t)
      BY <1>2, <2>9, <2>10, DoubtPage
    <2>12. Quieter(page, t)
      BY <1>2, <2>9, <2>11, QuieterIsTransitive
    <2>13. QED
      BY <2>6, <2>10, <2>12, HandledBadge
  <1>9. QED
    BY <1>6, <1>7, <1>8

\* The open chat is loaded again.
LEMMA OnChangedBadge ==
    ASSUME ChatViewAssumption, ViewInv, ViewInv', BadgeInv, NEW i \in DOMAIN flight,
           OnChanged(i)
    PROVE  BadgeInv'
  <1>1. PICK x : x = flight[i]
    OBVIOUS
  <1>2. x \in Items /\ x.chat \in Chats /\ page \in Page
    BY <1>1, ElementOfSeq, LenProperties, ItemFields DEF ViewInv, Typed, ClientTyped
  <1>3. PICK q : q = StartLoad(page, x.chat)
    OBVIOUS
  <1>4. /\ flight' = Taken(i) /\ UNCHANGED <<server, twice>> /\ (page' = q \/ page' = page)
    BY <1>1, <1>3 DEF OnChanged, server
  <1>5. Quieter(page, q)
    BY <1>2, <1>3, StartLoadPage
  <1>6. Quieter(page, page')
    BY <1>2, <1>4, <1>5, DerivedItself
  <1>7. QED
    BY <1>4, <1>6, HandledBadge

\* The answer of a load is written.
LEMMA ApplyLoadBadge ==
    ASSUME ChatViewAssumption, ViewInv, ViewInv', BadgeInv, NEW i \in DOMAIN flight,
           ApplyLoad(i)
    PROVE  BadgeInv'
  <1>1. PICK x : x = flight[i]
    OBVIOUS
  <1>2. x \in Items /\ x.chat \in Chats /\ page \in Page
    BY <1>1, ElementOfSeq, LenProperties, ItemFields DEF ViewInv, Typed, ClientTyped
  <1>3. flight' = Taken(i) /\ UNCHANGED <<server, twice>>
    BY DEF ApplyLoad, server
  <1>4. page'.chats = page.chats /\ page'.saved = page.saved
    BY <1>1, <1>2 DEF ApplyLoad, Doubt, Write, Page
  <1>5. Quieter(page, page')
    <2>1. PICK q : q = page'
      OBVIOUS
    <2>2. q.chats = page.chats /\ q.saved = page.saved
      BY <1>4, <2>1
    <2>3. Quieter(page, q)
      BY <1>2, <2>2, SameBadges
    <2>4. QED
      BY <2>1, <2>3
  <1>6. QED
    BY <1>3, <1>5, HandledBadge

\* One more of the set S is counted, and one less has still to be.
LEMMA BumpFits ==
    ASSUME ChatViewAssumption, NEW h, NEW t \in SUBSET Messages, NEW S \in SUBSET Messages,
           NEW m \in S, NEW T \in SUBSET S, m \notin T,
           NEW p \in Page, NEW c \in Chats, c \in DOMAIN p.chats, h[m] = c,
           NEW q, q = Bump(p, c), BadgesFit(h, t, S, p)
    PROVE  q \in Page /\ BadgesFit(h, t, T, q)
  <1>1. /\ q \in Page /\ q.saved = p.saved /\ DOMAIN q.chats = DOMAIN p.chats
        /\ \A d \in DOMAIN p.chats : q.chats[d] = IF d = c THEN p.chats[d] + 1 ELSE p.chats[d]
    BY BumpPage
  <1>2. \A d \in DOMAIN p.chats : p.chats[d] \in Nat
    BY BadgeMembers DEF Page
  <1>3. ASSUME NEW d \in DOMAIN p.chats
        PROVE  q.chats[d] + Cardinality(Of(h, T, d)) <= Ever(h, t, d)
    <2>1. p.chats[d] + Cardinality(Of(h, S, d)) <= Ever(h, t, d)
      BY DEF BadgesFit
    <2>2. /\ IsFiniteSet(Of(h, S, d)) /\ Cardinality(Of(h, S, d)) \in Nat
          /\ Cardinality(Of(h, T, d)) \in Nat
          /\ Cardinality(Of(h, T, d)) <= Cardinality(Of(h, S, d))
      BY OfCounts
    <2>3. Ever(h, t, d) \in Nat
      BY EverCounts
    <2>4. CASE d # c
      BY <1>1, <1>2, <2>1, <2>2, <2>3, <2>4
    <2>5. CASE d = c
      <3>1. m \in Of(h, S, d) /\ Of(h, T, d) \in SUBSET (Of(h, S, d) \ {m})
        BY <2>5 DEF Of
      <3>2. PICK X : X = Of(h, S, d)
        OBVIOUS
      <3>3. IsFiniteSet(X \ {m}) /\ Cardinality(X \ {m}) = Cardinality(X) - 1
        <4>1. IsFiniteSet(X) /\ m \in X
          BY <2>2, <3>1, <3>2
        <4>2. QED
          BY <4>1, FS_RemoveElement
      <3>4. Cardinality(Of(h, T, d)) <= Cardinality(Of(h, S, d)) - 1
        <4>1. Of(h, T, d) \in SUBSET (X \ {m})
          BY <3>1, <3>2
        <4>2. Cardinality(Of(h, T, d)) <= Cardinality(X \ {m})
          BY <3>3, <4>1, FS_Subset
        <4>3. QED
          BY <3>2, <3>3, <4>2
      <3>5. q.chats[d] = p.chats[d] + 1
        BY <1>1, <2>5
      <3>6. QED
        BY <1>2, <2>1, <2>2, <2>3, <3>4, <3>5
    <2>6. QED
      BY <2>4, <2>5
  <1>4. QED
    BY <1>1, <1>3 DEF BadgesFit

\* With one more message the set has one more of its chat, and no more of the others.
LEMMA OfMore ==
    ASSUME ChatViewAssumption, NEW h, NEW S \in SUBSET Messages, NEW m \in Messages,
           NEW T \in SUBSET (S \cup {m}), NEW c
    PROVE  /\ Cardinality(Of(h, T, c)) \in Nat /\ Cardinality(Of(h, S, c)) \in Nat
           /\ Cardinality(Of(h, T, c)) <= Cardinality(Of(h, S, c)) + 1
           /\ h[m] # c => Cardinality(Of(h, T, c)) <= Cardinality(Of(h, S, c))
  <1>1. T \in SUBSET Messages /\ S \in SUBSET S /\ T \in SUBSET T
    OBVIOUS
  <1>2. /\ Cardinality(Of(h, T, c)) \in Nat /\ Cardinality(Of(h, S, c)) \in Nat
        /\ IsFiniteSet(Of(h, S, c))
    BY <1>1, OfCounts
  <1>3. /\ IsFiniteSet(Of(h, S, c) \cup {m})
        /\ Cardinality(Of(h, S, c) \cup {m}) =
              IF m \in Of(h, S, c) THEN Cardinality(Of(h, S, c))
              ELSE Cardinality(Of(h, S, c)) + 1
    BY <1>2, FS_AddElement
  <1>4. Of(h, T, c) \in SUBSET (Of(h, S, c) \cup {m})
    BY DEF Of
  <1>5. Cardinality(Of(h, T, c)) <= Cardinality(Of(h, S, c) \cup {m})
    BY <1>3, <1>4, FS_Subset
  <1>6. h[m] # c => Cardinality(Of(h, T, c)) <= Cardinality(Of(h, S, c))
    <2>1. SUFFICES ASSUME h[m] # c
                   PROVE  Cardinality(Of(h, T, c)) <= Cardinality(Of(h, S, c))
      OBVIOUS
    <2>2. Of(h, T, c) \in SUBSET Of(h, S, c)
      BY <2>1 DEF Of
    <2>3. QED
      BY <1>2, <2>2, FS_Subset
  <1>7. QED
    BY <1>2, <1>3, <1>5, <1>6

\* A new one of the chat.
LEMMA OfOneMore ==
    ASSUME ChatViewAssumption, NEW h, NEW S \in SUBSET Messages, NEW m \in Messages, m \notin S,
           NEW u, u = S \cup {m}
    PROVE  Cardinality(Of(h, u, h[m])) = Cardinality(Of(h, S, h[m])) + 1
  <1>1. S \in SUBSET S
    OBVIOUS
  <1>2. IsFiniteSet(Of(h, S, h[m]))
    BY <1>1, OfCounts
  <1>3. Of(h, u, h[m]) = Of(h, S, h[m]) \cup {m} /\ m \notin Of(h, S, h[m])
    BY DEF Of
  <1>4. QED
    BY <1>2, <1>3, FS_AddElement

\* A message is sent: it is a new one of its chat, and may count.
LEMMA SentFits ==
    ASSUME ChatViewAssumption, NEW h, NEW g, NEW t \in SUBSET Messages,
           NEW S \in SUBSET Messages, NEW m \in Messages, NEW c \in Chats,
           h[m] = None, g[m] = c, \A n \in Messages \ {m} : g[n] = h[n],
           m \notin S, m \notin t, NEW T \in SUBSET (S \cup {m}), m \in T => m \notin Own,
           NEW p \in Page, BadgesFit(h, t, S, p)
    PROVE  BadgesFit(g, t, T, p)
  <1>1. /\ DOMAIN p.chats \subseteq Chats /\ DOMAIN p.saved \subseteq Chats
        /\ \A d \in DOMAIN p.chats : p.chats[d] \in Nat
        /\ \A d \in DOMAIN p.saved : p.saved[d] \in Nat
    BY BadgeMembers DEF Page
  <1>2. None \notin Chats
    BY ChatViewAssumption DEF ChatViewAssumption
  <1>3. ASSUME NEW d \in Chats
        PROVE  /\ Cardinality(Of(g, T, d)) \in Nat /\ Cardinality(Of(h, S, d)) \in Nat
               /\ Ever(h, t, d) \in Nat /\ Ever(g, t, d) \in Nat
               /\ Ever(h, t, d) <= Ever(g, t, d)
               /\ \/ Cardinality(Of(g, T, d)) <= Cardinality(Of(h, S, d))
                  \/ /\ Cardinality(Of(g, T, d)) <= Cardinality(Of(h, S, d)) + 1
                     /\ Ever(g, t, d) = Ever(h, t, d) + 1
    <2>1. Of(g, S, d) = Of(h, S, d) /\ Of(g, t, d) = Of(h, t, d)
      BY DEF Of
    <2>2. /\ Cardinality(Of(g, T, d)) \in Nat /\ Cardinality(Of(g, S, d)) \in Nat
          /\ Cardinality(Of(g, T, d)) <= Cardinality(Of(g, S, d)) + 1
          /\ g[m] # d => Cardinality(Of(g, T, d)) <= Cardinality(Of(g, S, d))
      BY OfMore
    <2>3. /\ Cardinality(Of(g, Messages \ Own, d)) \in Nat
          /\ Cardinality(Of(h, Messages \ Own, d)) \in Nat
          /\ Cardinality(Of(h, t, d)) \in Nat /\ Ever(h, t, d) \in Nat
          /\ Ever(g, t, d) \in Nat
      BY EverCounts
    <2>4. Of(h, Messages \ Own, d) \in SUBSET Of(g, Messages \ Own, d)
      BY <1>2 DEF Of
    <2>5. IsFiniteSet(Of(g, Messages \ Own, d)) /\ IsFiniteSet(Of(h, Messages \ Own, d))
      <3>1. Messages \ Own \in SUBSET Messages /\ Messages \ Own \in SUBSET (Messages \ Own)
        OBVIOUS
      <3>2. QED
        BY <3>1, OfCounts
    <2>6. Cardinality(Of(h, Messages \ Own, d)) <= Cardinality(Of(g, Messages \ Own, d))
      BY <2>4, <2>5, FS_Subset
    <2>7. Ever(h, t, d) <= Ever(g, t, d)
      BY <2>1, <2>3, <2>6 DEF Ever
    <2>8. CASE d = c /\ m \in T
      <3>1. /\ m \notin Of(h, Messages \ Own, d)
            /\ Of(g, Messages \ Own, d) = Of(h, Messages \ Own, d) \cup {m}
        BY <1>2, <2>8 DEF Of
      <3>2. Cardinality(Of(g, Messages \ Own, d)) = Cardinality(Of(h, Messages \ Own, d)) + 1
        BY <2>5, <3>1, FS_AddElement
      <3>3. Ever(g, t, d) = Ever(h, t, d) + 1
        BY <2>1, <2>3, <3>2 DEF Ever
      <3>4. QED
        BY <2>1, <2>2, <2>3, <2>7, <3>3
    <2>9. CASE ~(d = c /\ m \in T)
      <3>1. Cardinality(Of(g, T, d)) <= Cardinality(Of(g, S, d))
        <4>1. CASE d # c
          BY <2>2, <4>1
        <4>2. CASE m \notin T
          <5>1. T \in SUBSET S
            BY <4>2
          <5>2. QED
            BY <5>1, OfCounts
        <4>3. QED
          BY <2>9, <4>1, <4>2
      <3>2. QED
        BY <2>1, <2>2, <2>3, <2>7, <3>1
    <2>10. QED
      BY <2>8, <2>9
  <1>4. ASSUME NEW d \in DOMAIN p.chats
        PROVE  p.chats[d] + Cardinality(Of(g, T, d)) <= Ever(g, t, d)
    <2>1. p.chats[d] + Cardinality(Of(h, S, d)) <= Ever(h, t, d) /\ p.chats[d] \in Nat
      BY <1>1 DEF BadgesFit
    <2>2. d \in Chats
      BY <1>1
    <2>3. QED
      BY <1>3, <2>1, <2>2
  <1>5. ASSUME NEW d \in DOMAIN p.saved
        PROVE  p.saved[d] <= Ever(g, t, d)
    <2>1. p.saved[d] <= Ever(h, t, d) /\ p.saved[d] \in Nat /\ d \in Chats
      BY <1>1 DEF BadgesFit
    <2>2. QED
      BY <1>3, <2>1
  <1>6. QED
    BY <1>4, <1>5 DEF BadgesFit

\* The list of chats is loaded: each unread row counts, and what is under way may.
LEMMA ListedFits ==
    ASSUME ChatViewAssumption, NEW h, NEW t \in SUBSET Messages, NEW L \in SUBSET Messages,
           NEW R \in SUBSET Messages, L \cap R = {}, L \cap Own = {}, R \cap Own = {},
           NEW p, p.saved = p.chats,
           \A c \in DOMAIN p.chats : p.chats[c] = Cardinality(Of(h, R, c))
    PROVE  BadgesFit(h, t, L, p)
  <1>1. ASSUME NEW c
        PROVE  /\ Cardinality(Of(h, R, c)) + Cardinality(Of(h, L, c)) <= Ever(h, t, c)
               /\ Cardinality(Of(h, R, c)) <= Ever(h, t, c)
    <2>1. /\ R \in SUBSET (Messages \ Own) /\ L \in SUBSET (Messages \ Own)
          /\ Messages \ Own \in SUBSET Messages
      OBVIOUS
    <2>2. /\ IsFiniteSet(Of(h, Messages \ Own, c))
          /\ Cardinality(Of(h, R, c)) \in Nat /\ Cardinality(Of(h, L, c)) \in Nat
      BY <2>1, OfCounts
    <2>3. IsFiniteSet(Of(h, R, c)) /\ IsFiniteSet(Of(h, L, c))
      <3>1. R \in SUBSET R /\ L \in SUBSET L
        OBVIOUS
      <3>2. QED
        BY <3>1, OfCounts
    <2>4. Of(h, R, c) \cap Of(h, L, c) = {}
      BY DEF Of
    <2>5. Of(h, R, c) \cup Of(h, L, c) \in SUBSET Of(h, Messages \ Own, c)
      BY <2>1 DEF Of
    <2>6. /\ Cardinality(Of(h, R, c) \cup Of(h, L, c)) =
                Cardinality(Of(h, R, c)) + Cardinality(Of(h, L, c))
                - Cardinality(Of(h, R, c) \cap Of(h, L, c))
      BY <2>3, FS_Union
    <2>7. Cardinality({}) = 0
      BY FS_EmptySet
    <2>8. Cardinality(Of(h, R, c) \cup Of(h, L, c)) <= Cardinality(Of(h, Messages \ Own, c))
      BY <2>2, <2>5, FS_Subset
    <2>9. /\ Cardinality(Of(h, Messages \ Own, c)) \in Nat /\ Cardinality(Of(h, t, c)) \in Nat
      BY EverCounts
    <2>10. Cardinality(Of(h, R, c)) + Cardinality(Of(h, L, c))
              <= Cardinality(Of(h, Messages \ Own, c))
      <3>1. Cardinality(Of(h, R, c) \cap Of(h, L, c)) = 0
        BY <2>4, <2>7
      <3>2. Cardinality(Of(h, R, c) \cup Of(h, L, c)) =
               Cardinality(Of(h, R, c)) + Cardinality(Of(h, L, c))
        BY <2>2, <2>6, <3>1
      <3>3. QED
        BY <2>8, <3>2
    <2>11. QED
      BY <2>2, <2>9, <2>10 DEF Ever
  <1>2. QED
    BY <1>1 DEF BadgesFit

\* A message that is replayed comes live as well: it may count twice.
LEMMA TwiceFits ==
    ASSUME ChatViewAssumption, NEW h, NEW t \in SUBSET Messages, NEW S \in SUBSET Messages,
           NEW m \in Messages, m \notin t, NEW T \in SUBSET (S \cup {m}),
           NEW p \in Page, BadgesFit(h, t, S, p)
    PROVE  BadgesFit(h, t \cup {m}, T, p)
  <1>1. /\ \A d \in DOMAIN p.chats : p.chats[d] \in Nat
        /\ \A d \in DOMAIN p.saved : p.saved[d] \in Nat
    BY BadgeMembers DEF Page
  <1>2. PICK u : u = t \cup {m}
    OBVIOUS
  <1>3. u \in SUBSET (t \cup {m}) /\ u \in SUBSET Messages
    BY <1>2
  <1>4. ASSUME NEW d
        PROVE  /\ Cardinality(Of(h, T, d)) \in Nat /\ Cardinality(Of(h, S, d)) \in Nat
               /\ Ever(h, t, d) \in Nat /\ Ever(h, u, d) \in Nat
               /\ Ever(h, t, d) <= Ever(h, u, d)
               /\ \/ Cardinality(Of(h, T, d)) <= Cardinality(Of(h, S, d))
                  \/ /\ Cardinality(Of(h, T, d)) <= Cardinality(Of(h, S, d)) + 1
                     /\ Ever(h, u, d) = Ever(h, t, d) + 1
    <2>1. /\ Cardinality(Of(h, T, d)) \in Nat /\ Cardinality(Of(h, S, d)) \in Nat
          /\ Cardinality(Of(h, T, d)) <= Cardinality(Of(h, S, d)) + 1
          /\ h[m] # d => Cardinality(Of(h, T, d)) <= Cardinality(Of(h, S, d))
      BY OfMore
    <2>2. /\ Cardinality(Of(h, Messages \ Own, d)) \in Nat
          /\ Cardinality(Of(h, t, d)) \in Nat /\ Ever(h, t, d) \in Nat
          /\ Cardinality(Of(h, u, d)) \in Nat /\ Ever(h, u, d) \in Nat
      BY <1>3, EverCounts
    <2>3. h[m] = d => Cardinality(Of(h, u, d)) = Cardinality(Of(h, t, d)) + 1
      <3>1. Cardinality(Of(h, u, h[m])) = Cardinality(Of(h, t, h[m])) + 1
        BY <1>2, OfOneMore
      <3>2. QED
        BY <3>1
    <2>4. Cardinality(Of(h, t, d)) <= Cardinality(Of(h, u, d))
      <3>1. t \in SUBSET u
        BY <1>2
      <3>2. QED
        BY <1>3, <3>1, OfCounts
    <2>5. QED
      BY <2>1, <2>2, <2>3, <2>4 DEF Ever
  <1>5. ASSUME NEW d \in DOMAIN p.chats
        PROVE  p.chats[d] + Cardinality(Of(h, T, d)) <= Ever(h, u, d)
    <2>1. p.chats[d] + Cardinality(Of(h, S, d)) <= Ever(h, t, d) /\ p.chats[d] \in Nat
      BY <1>1 DEF BadgesFit
    <2>2. QED
      BY <1>4, <2>1
  <1>6. ASSUME NEW d \in DOMAIN p.saved
        PROVE  p.saved[d] <= Ever(h, u, d)
    <2>1. p.saved[d] <= Ever(h, t, d) /\ p.saved[d] \in Nat
      BY <1>1 DEF BadgesFit
    <2>2. QED
      BY <1>4, <2>1
  <1>7. QED
    BY <1>2, <1>5, <1>6 DEF BadgesFit

\* The parts of the invariant together.
LEMMA BadgeTogether ==
    ASSUME NEW F, flight' = F, OnceIn(F), LiveIn(F) \cap (rows' \cup Own) = {},
           rows' \cap (Own \cup twice') = {},
           NEW q, page' = q, NEW h, home' = h, NEW t, twice' = t,
           BadgesFit(h, t, LiveIn(F), q)
    PROVE  BadgeInv'
  BY DEF BadgeInv

\* A decrypted message raises the badge of its chat, or is shown.
LEMMA ApplyNewBadge ==
    ASSUME ChatViewAssumption, ViewInv, ViewInv', BadgeInv, NEW i \in DOMAIN flight, ApplyNew(i)
    PROVE  BadgeInv'
  <1>1. PICK x : x = flight[i]
    OBVIOUS
  <1>2. /\ x \in Items /\ page \in Page /\ x.kind = "openingNew" /\ flight \in Seq(Items)
        /\ flight' = Taken(i) /\ UNCHANGED <<server, twice>>
        /\ home' = home /\ rows' = rows /\ twice' = twice /\ twice \in SUBSET Messages
    BY <1>1, ElementOfSeq, LenProperties
    DEF ApplyNew, server, ViewInv, Typed, ServerTyped, ClientTyped
  <1>3. x.chat \in Chats /\ x.msg \in Messages /\ x.bump \in BOOLEAN /\ home[x.msg] = x.chat
    <2>1. ItemTrue(x, home, purged)
      BY <1>1 DEF ViewInv, FlightTrue
    <2>2. QED
      BY <1>2, <2>1, ItemFields DEF OpenItem, ItemTrue, IsNew
  <1>4. PICK p : p = IF x.chat \in DOMAIN page.chats /\ x.bump THEN Bump(page, x.chat) ELSE page
    OBVIOUS
  <1>5. p \in Page
    BY <1>2, <1>3, <1>4, BumpPage
  <1>6. PICK q : q = IF x.live /\ x.msg \notin DOMAIN p.shown
                     THEN Write(p, x.chat, With(p.shown, x.msg, x.marks)) ELSE p
    OBVIOUS
  <1>7. PICK b : b = (x.live /\ (x.late \/ Doing(x.chat) \/ "sealed" \in x.marks
                                 \/ ~OnTheRightList(page, x.chat)))
    OBVIOUS
  <1>8. page' = Doubt(q, x.chat, b)
    BY <1>1, <1>4, <1>6, <1>7 DEF ApplyNew, Bump
  <1>9. PICK r : r = Doubt(q, x.chat, b)
    OBVIOUS
  <1>10. r.chats = p.chats /\ r.saved = p.saved
    <2>1. q.chats = p.chats /\ q.saved = p.saved
      BY <1>5, <1>6 DEF Write, Page
    <2>2. r = q \/ r = [q EXCEPT !.doubted = @ \cup {x.chat}, !.blurred = TRUE]
      BY <1>9 DEF Doubt
    <2>3. q.chats = p.chats /\ q.saved = p.saved /\ "chats" \in DOMAIN q /\ "saved" \in DOMAIN q
      BY <1>5, <1>6, <2>1 DEF Write, Page
    <2>4. QED
      BY <2>2, <2>3
  <1>11. page' = r /\ r \in Page
    BY <1>8, <1>9 DEF ViewInv, Typed, ClientTyped
  <1>12. Quieter(p, r)
    BY <1>5, <1>10, SameBadges
  <1>13. PICK F : F = Taken(i)
    OBVIOUS
  <1>14. /\ OnceIn(F) /\ LiveIn(F) \subseteq LiveIn(flight)
         /\ LiveItem(x) => x.msg \notin LiveIn(F)
    BY <1>1, <1>2, <1>13, LiveTaken DEF BadgeInv
  <1>15. LiveIn(flight) \in SUBSET Messages /\ LiveIn(F) \in SUBSET LiveIn(flight)
    BY <1>14 DEF LiveIn
  <1>16. BadgesFit(home, twice, LiveIn(F), p)
    <2>1. BadgesFit(home, twice, LiveIn(flight), page)
      BY DEF BadgeInv
    <2>2. CASE x.chat \in DOMAIN page.chats /\ x.bump
      <3>1. LiveItem(x) /\ x.msg \in LiveIn(flight)
        BY <1>1, <1>2, <1>3, <2>2 DEF LiveItem, LiveIn
      <3>2. x.msg \notin LiveIn(F) /\ p = Bump(page, x.chat)
        BY <1>4, <1>14, <2>2, <3>1
      <3>3. QED
        BY <1>2, <1>3, <1>15, <2>1, <2>2, <3>1, <3>2, BumpFits
    <2>3. CASE ~(x.chat \in DOMAIN page.chats /\ x.bump)
      <3>1. p = page /\ Quieter(page, page)
        BY <1>2, <1>4, <2>3, DerivedItself
      <3>2. QED
        BY <1>2, <1>15, <2>1, <3>1, FitQuieter
    <2>4. QED
      BY <2>2, <2>3
  <1>17. BadgesFit(home, twice, LiveIn(F), r)
    <2>1. LiveIn(F) \in SUBSET LiveIn(F) /\ LiveIn(F) \in SUBSET Messages
      BY <1>15
    <2>2. QED
      BY <1>2, <1>5, <1>11, <1>12, <1>16, <2>1, FitQuieter
  <1>18. LiveIn(F) \cap (rows' \cup Own) = {} /\ rows' \cap (Own \cup twice') = {}
    BY <1>2, <1>15 DEF BadgeInv
  <1>19. flight' = F
    BY <1>2, <1>13
  <1>20. QED
    BY <1>2, <1>11, <1>14, <1>17, <1>18, <1>19, BadgeTogether

\* In G only the item at z is a new live one, and it is about m.
NewAt(G, z, m) ==
    \A k \in DOMAIN G : \/ k \in DOMAIN flight /\ Aged(flight[k], G[k])
                        \/ ~LiveItem(G[k])
                        \/ k = z /\ G[k].msg = m

\* What has one more live item than before.
LEMMA LiveAdded ==
    ASSUME OnceIn(flight), NEW G, NEW z, NEW m \in Messages, m \notin LiveIn(flight),
           NewAt(G, z, m)
    PROVE  OnceIn(G) /\ LiveIn(G) \subseteq LiveIn(flight) \cup {m}
  <1>1. ASSUME NEW k \in DOMAIN G, LiveItem(G[k])
        PROVE  \/ k \in DOMAIN flight /\ LiveItem(flight[k]) /\ flight[k].msg = G[k].msg
               \/ k = z /\ G[k].msg = m
    BY <1>1, AgedLive DEF NewAt
  <1>2. ASSUME NEW k \in DOMAIN flight, LiveItem(flight[k])
        PROVE  flight[k].msg # m
    BY <1>2 DEF LiveIn
  <1>3. ASSUME NEW k \in DOMAIN G, NEW l \in DOMAIN G,
               LiveItem(G[k]), LiveItem(G[l]), G[k].msg = G[l].msg
        PROVE  k = l
    <2>1. CASE G[k].msg = m
      BY <1>1, <1>2, <1>3, <2>1
    <2>2. CASE G[k].msg # m
      <3>1. /\ k \in DOMAIN flight /\ LiveItem(flight[k]) /\ flight[k].msg = G[k].msg
            /\ l \in DOMAIN flight /\ LiveItem(flight[l]) /\ flight[l].msg = G[l].msg
        BY <1>1, <1>3, <2>2
      <3>2. QED
        BY <1>3, <3>1 DEF OnceIn
    <2>3. QED
      BY <2>1, <2>2
  <1>4. ASSUME NEW n \in LiveIn(G)
        PROVE  n \in LiveIn(flight) \cup {m}
    <2>1. n \in Messages
      BY DEF LiveIn
    <2>2. PICK k \in DOMAIN G : LiveItem(G[k]) /\ G[k].msg = n
      BY DEF LiveIn
    <2>3. QED
      BY <1>1, <2>1, <2>2 DEF LiveIn
  <1>5. QED
    BY <1>3, <1>4 DEF OnceIn

\* A message that was not sent yet is nowhere.
LEMMA NotLiveYet ==
    ASSUME ChatViewAssumption, ViewInv, NEW m \in Messages, home[m] = None
    PROVE  m \notin LiveIn(flight) /\ m \notin rows /\ m \notin twice
  <1>1. m \notin rows /\ m \notin twice
    BY DEF ViewInv, Sensible
  <1>2. ASSUME NEW i \in DOMAIN flight, LiveItem(flight[i]), flight[i].msg = m
        PROVE  FALSE
    <2>1. flight[i] \in Items /\ flight[i].chat \in Chats
      BY ElementOfSeq, LenProperties, ItemFields DEF ViewInv, Typed
    <2>2. ItemTrue(flight[i], home, purged)
      BY DEF ViewInv, FlightTrue
    <2>3. home[m] = flight[i].chat
      BY <1>2, <2>2 DEF ItemTrue, IsNew, LiveItem
    <2>4. QED
      BY <2>1, <2>3, ChatViewAssumption DEF ChatViewAssumption
  <1>3. QED
    BY <1>1, <1>2 DEF LiveIn

\* A message is sent: it becomes unread, or is on its way to a badge.
LEMMA SendBadge ==
    ASSUME ChatViewAssumption, ViewInv, ViewInv', BadgeInv, NEW c \in Chats, NEW m \in Messages,
           Send(c, m)
    PROVE  BadgeInv'
  <1>1. PICK x : x = SentNew(m, c)
    OBVIOUS
  <1>2. /\ home[m] = None /\ home' = [home EXCEPT ![m] = c]
        /\ rows' = IF line = "down" /\ m \notin Own THEN rows \cup {m} ELSE rows
        /\ flight' = IF line = "up" THEN Append(flight, x) ELSE flight
        /\ page' = page /\ twice' = twice
    BY <1>1 DEF Send, SentNew
  <1>3. /\ ServerTyped /\ page \in Page /\ flight \in Seq(Items) /\ twice \in SUBSET Messages
        /\ line \in {"up", "down"} /\ OnceIn(flight)
        /\ LiveIn(flight) \cap (rows \cup Own) = {} /\ rows \cap (Own \cup twice) = {}
        /\ BadgesFit(home, twice, LiveIn(flight), page)
    BY DEF ViewInv, Typed, ServerTyped, ClientTyped, BadgeInv
  <1>4. x \in Items /\ x.msg = m
    <2>1. SentNew(m, c) \in Items /\ SentNew(m, c).msg = m
      BY <1>3, SentNewItem
    <2>2. QED
      BY <1>1, <2>1
  <1>5. m \notin LiveIn(flight) /\ m \notin rows /\ m \notin twice
    BY <1>2, NotLiveYet
  <1>6. PICK g : g = [home EXCEPT ![m] = c]
    OBVIOUS
  <1>7. g[m] = c /\ \A n \in Messages \ {m} : g[n] = home[n]
    BY <1>3, <1>6 DEF ServerTyped
  <1>8. PICK F : F = IF line = "up" THEN Append(flight, x) ELSE flight
    OBVIOUS
  <1>9. LiveIn(flight) \in SUBSET Messages /\ LiveIn(flight) \in SUBSET (LiveIn(flight) \cup {m})
    BY DEF LiveIn
  <1>10. /\ OnceIn(F) /\ LiveIn(F) \in SUBSET (LiveIn(flight) \cup {m})
         /\ m \in LiveIn(F) => m \notin Own /\ line = "up"
    <2>1. CASE line = "down"
      BY <1>3, <1>5, <1>8, <1>9, <2>1
    <2>2. CASE line = "up"
      <3>1. PICK z : z = Len(flight) + 1
        OBVIOUS
      <3>2. F = Append(flight, x)
        BY <1>8, <2>2
      <3>3. /\ \A k \in DOMAIN flight : F[k] = flight[k]
            /\ \A k \in DOMAIN F \ DOMAIN flight : k = z /\ F[k] = x
        BY <1>3, <1>4, <3>1, <3>2, SentFlight
      <3>4. \A k \in DOMAIN flight : Aged(flight[k], flight[k])
        BY <1>3, AgedItself, ElementOfSeq, LenProperties
      <3>5. \A k \in DOMAIN F : \/ k \in DOMAIN flight /\ Aged(flight[k], F[k])
                                \/ k = z /\ F[k].msg = m /\ F[k] = x
        BY <1>4, <3>3, <3>4
      <3>6. OnceIn(F) /\ LiveIn(F) \subseteq LiveIn(flight) \cup {m}
        <4>1. OnceIn(flight) /\ m \notin LiveIn(flight)
          BY <1>3, <1>5
        <4>2. NewAt(F, z, m)
          BY <3>5 DEF NewAt
        <4>3. QED
          BY <4>1, <4>2, LiveAdded
      <3>7. ASSUME m \in LiveIn(F)
            PROVE  m \notin Own
        <4>1. PICK k \in DOMAIN F : LiveItem(F[k]) /\ F[k].msg = m
          BY <3>7 DEF LiveIn
        <4>2. CASE k \in DOMAIN flight /\ Aged(flight[k], F[k])
          <5>1. LiveItem(flight[k]) /\ flight[k].msg = m
            BY <4>1, <4>2, AgedLive
          <5>2. QED
            BY <1>5, <4>2, <5>1 DEF LiveIn
        <4>3. CASE F[k] = x
          <5>1. x.kind = "new"
            BY <1>1 DEF SentNew, New
          <5>2. QED
            BY <1>4, <4>1, <4>3, <5>1 DEF LiveItem
        <4>4. QED
          BY <3>5, <4>2, <4>3
      <3>8. QED
        BY <2>2, <3>6, <3>7
    <2>3. QED
      BY <1>3, <2>1, <2>2
  <1>11. BadgesFit(g, twice, LiveIn(F), page)
    BY <1>2, <1>3, <1>5, <1>7, <1>9, <1>10, SentFits
  <1>12. LiveIn(F) \cap (rows' \cup Own) = {} /\ rows' \cap (Own \cup twice') = {}
    BY <1>2, <1>3, <1>5, <1>10
  <1>13. flight' = F /\ home' = g
    BY <1>2, <1>6, <1>8
  <1>14. QED
    BY <1>2, <1>10, <1>11, <1>12, <1>13, BadgeTogether

\* A message is edited, deleted or gets files; a group changes.
LEMMA ChangeBadge ==
    ASSUME ChatViewAssumption, ViewInv, ViewInv', BadgeInv,
           \/ \E m \in Messages, mark \in Marks : Change(m, mark)
           \/ \E c \in Chats, out \in BOOLEAN : ChangeGroup(c, out)
    PROVE  BadgeInv'
  <1>1. page \in Page /\ Quieter(page, page) /\ ServerTyped
    BY DerivedItself DEF ViewInv, Typed, ClientTyped
  <1>2. ASSUME NEW m \in Messages, NEW mark \in Marks, Change(m, mark)
        PROVE  BadgeInv'
    <2>1. PICK x : x = Mark(m, mark)
      OBVIOUS
    <2>2. /\ home[m] \in alive /\ rows' \subseteq rows
          /\ flight' \in {flight, Append(flight, x)}
          /\ home' = home /\ twice' = twice /\ page' = page
      BY <1>2, <2>1 DEF Change, Sent
    <2>3. home[m] # None
      BY <1>1, <2>2, ChatViewAssumption DEF ChatViewAssumption, ServerTyped
    <2>4. Mark(m, mark) \in Items /\ Mark(m, mark).kind = mark
      BY <1>1, <2>3, MarkItemOf
    <2>5. x \in Items /\ ~LiveItem(x)
      BY <2>1, <2>4, ChatViewAssumption DEF ChatViewAssumption, LiveItem
    <2>6. Quieter(page, page')
      BY <1>1, <2>2
    <2>7. QED
      BY <2>2, <2>5, <2>6, SentBadge
  <1>3. ASSUME NEW c \in Chats, NEW out \in BOOLEAN, ChangeGroup(c, out)
        PROVE  BadgeInv'
    <2>1. PICK x : x = Word("changed", c)
      OBVIOUS
    <2>2. /\ flight' \in {flight, Append(flight, x)}
          /\ home' = home /\ twice' = twice /\ page' = page /\ rows' = rows
      BY <1>3, <2>1 DEF ChangeGroup, Sent
    <2>3. x \in Items /\ ~LiveItem(x)
      BY <1>1, <2>1, WordItemOf DEF LiveItem
    <2>4. Quieter(page, page')
      BY <1>1, <2>2
    <2>5. QED
      BY <2>2, <2>3, <2>4, SentBadge
  <1>4. QED
    BY <1>2, <1>3

\* A clearing or a deletion is announced.
LEMMA AnnounceBadge ==
    ASSUME ChatViewAssumption, ViewInv, ViewInv', BadgeInv, NEW c \in Chats,
           NEW kind \in {"cleared", "gone", "left"}, NEW mine \in BOOLEAN, NEW told \in BOOLEAN,
           Announce(c, kind, mine, told)
    PROVE  BadgeInv'
  <1>1. PICK x : x = Word(kind, c)
    OBVIOUS
  <1>2. PICK b \in BOOLEAN : b = (line = "down" /\ ~mine)
    OBVIOUS
  <1>3. PICK r : r = Doubt(page, c, b)
    OBVIOUS
  <1>4. /\ kind = "left" => mine
        /\ told \in (IF ~mine THEN {TRUE} ELSE IF kind = "gone" THEN BOOLEAN ELSE {FALSE})
        /\ flight' = IF told THEN Sent(x) ELSE flight
        /\ page' = r
        /\ home' = home /\ rows' = rows /\ twice' = twice
    BY <1>1, <1>2, <1>3 DEF Announce
  <1>5. page \in Page /\ Quieter(page, r)
    BY <1>3, DoubtPage DEF ViewInv, Typed, ClientTyped
  <1>6. Quieter(page, page')
    BY <1>4, <1>5
  <1>7. CASE told
    <2>1. kind \in {"cleared", "gone", "changed"}
      BY <1>4, <1>7
    <2>2. x \in Items /\ ~LiveItem(x)
      BY <1>1, <2>1, WordItemOf DEF LiveItem
    <2>3. flight' \in {flight, Append(flight, x)}
      BY <1>4, <1>7 DEF Sent
    <2>4. QED
      BY <1>4, <1>6, <2>2, <2>3, SentBadge
  <1>8. CASE ~told
    BY <1>4, <1>6, <1>8, SameFlightBadge
  <1>9. QED
    BY <1>7, <1>8

\* An item that became late lives as it did.
LEMMA LateItem ==
    ASSUME ChatViewAssumption, flight \in Seq(Items), NEW j \in DOMAIN flight, NEW y,
           \/ y = flight[j]
           \/ y = [flight[j] EXCEPT !.late = TRUE]
           \/ \E t \in BOOLEAN : (flight[j].late => t) /\ y = [flight[j] EXCEPT !.late = t]
    PROVE  Aged(flight[j], y)
  <1>1. flight[j] \in Items
    BY ElementOfSeq, LenProperties
  <1>2. CASE y = flight[j]
    BY <1>1, <1>2, AgedLate
  <1>3. CASE \E t \in BOOLEAN : (flight[j].late => t) /\ y = [flight[j] EXCEPT !.late = t]
    <2>1. PICK t \in BOOLEAN : (flight[j].late => t) /\ y = [flight[j] EXCEPT !.late = t]
      BY <1>3
    <2>2. QED
      BY <1>1, <2>1, AgedLate
  <1>4. CASE y = [flight[j] EXCEPT !.late = TRUE]
    <2>1. PICK t \in BOOLEAN : t = TRUE
      OBVIOUS
    <2>2. (flight[j].late => t) /\ y = [flight[j] EXCEPT !.late = t]
      BY <1>4, <2>1
    <2>3. QED
      BY <1>3, <2>1, <2>2
  <1>5. QED
    BY <1>2, <1>3, <1>4

\* The statement runs; nothing becomes live by it.
LEMMA CommitBadge ==
    ASSUME ChatViewAssumption, ViewInv, ViewInv', BadgeInv, NEW d \in doing, Commit(d)
    PROVE  BadgeInv'
  <1>1. PICK F : F = [j \in DOMAIN flight |->
                         IF /\ flight[j].chat = d.chat
                            /\ IsNew(flight[j]) \/ flight[j].kind = "messages"
                         THEN [flight[j] EXCEPT !.late = TRUE] ELSE flight[j]]
    OBVIOUS
  <1>2. PICK x : x = DoneWord(d.kind, d.chat)
    OBVIOUS
  <1>3. /\ rows' = {m \in rows : home[m] # d.chat}
        /\ flight' = IF d.mine THEN Append(F, x) ELSE F
        /\ home' = home /\ page' = page /\ twice' = twice
    BY <1>1, <1>2 DEF Commit, DoneWord
  <1>4. /\ ServerTyped /\ flight \in Seq(Items) /\ page \in Page /\ OnceIn(flight)
        /\ d.chat \in Chats /\ d.kind \in {"cleared", "gone", "left"}
    BY DEF ViewInv, Typed, ServerTyped, ClientTyped, Doings, BadgeInv
  <1>5. x \in Items /\ ~LiveItem(x)
    <2>1. /\ DoneWord(d.kind, d.chat) \in Items
          /\ DoneWord(d.kind, d.chat).kind = "done"
      BY <1>4, DoneWordItem
    <2>2. QED
      BY <1>2, <2>1 DEF LiveItem
  <1>6. DOMAIN F = DOMAIN flight /\ \A j \in DOMAIN flight : Aged(flight[j], F[j])
    <2>1. ASSUME NEW j \in DOMAIN flight
          PROVE  Aged(flight[j], F[j])
      <3>1. F[j] = flight[j] \/ F[j] = [flight[j] EXCEPT !.late = TRUE]
        BY <1>1
      <3>2. QED
        BY <1>4, <3>1, LateItem
    <2>2. QED
      BY <1>1, <2>1
  <1>7. F \in Seq(Items)
    <2>1. F = [j \in DOMAIN F |-> F[j]] /\ DOMAIN F = 1..Len(flight) /\ Len(flight) \in Nat
      BY <1>1, <1>4, LenProperties
    <2>2. \A j \in 1..Len(flight) : F[j] \in Items
      BY <1>6, <2>1 DEF Aged
    <2>3. QED
      BY <2>1, <2>2, FlightIsSeq
  <1>8. PICK G : G = IF d.mine THEN Append(F, x) ELSE F
    OBVIOUS
  <1>9. OnceIn(G) /\ LiveIn(G) \subseteq LiveIn(flight)
    <2>1. CASE d.mine
      BY <1>4, <1>5, <1>6, <1>7, <1>8, <2>1, LiveAppended
    <2>2. CASE ~d.mine
      <3>1. \A k \in DOMAIN G : (k \in DOMAIN flight /\ Aged(flight[k], G[k])) \/ ~LiveItem(G[k])
        BY <1>6, <1>8, <2>2
      <3>2. QED
        BY <1>4, <3>1, LiveAged
    <2>3. QED
      BY <2>1, <2>2
  <1>10. OnceIn(flight') /\ LiveIn(flight') \subseteq LiveIn(flight)
    BY <1>3, <1>8, <1>9
  <1>11. Quieter(page, page') /\ rows' \subseteq rows
    BY <1>3, <1>4, DerivedItself
  <1>12. QED
    BY <1>3, <1>10, <1>11, QuietStep

\* The statement fails.
LEMMA CommitFailsBadge ==
    ASSUME ChatViewAssumption, ViewInv, ViewInv', BadgeInv, NEW d \in doing, CommitFails(d)
    PROVE  BadgeInv'
  <1>1. PICK F : F = [j \in DOMAIN flight |->
                         [flight[j] EXCEPT !.late = @ \/ flight[j].chat = d.chat]]
    OBVIOUS
  <1>2. PICK b : b = ~d.mine
    OBVIOUS
  <1>3. PICK r : r = Doubt(page, d.chat, b)
    OBVIOUS
  <1>4. /\ page' = r /\ flight' = F /\ home' = home /\ rows' = rows /\ twice' = twice
    BY <1>1, <1>2, <1>3 DEF CommitFails
  <1>5. /\ flight \in Seq(Items) /\ page \in Page /\ d.chat \in Chats /\ b \in BOOLEAN
    BY <1>2 DEF ViewInv, Typed, ServerTyped, ClientTyped, Doings
  <1>6. \A k \in DOMAIN F : k \in DOMAIN flight /\ Aged(flight[k], F[k])
    <2>1. ASSUME NEW k \in DOMAIN flight
          PROVE  Aged(flight[k], F[k])
      <3>1. flight[k].late \in BOOLEAN
        BY <1>5, ElementOfSeq, LenProperties, ItemFields
      <3>2. PICK t \in BOOLEAN : t = (flight[k].late \/ flight[k].chat = d.chat)
        BY <3>1
      <3>3. F[k] = [flight[k] EXCEPT !.late = t]
        BY <1>1, <3>2
      <3>4. QED
        BY <1>5, <3>2, <3>3, LateItem
    <2>2. QED
      BY <1>1, <2>1
  <1>7. \A k \in DOMAIN flight' :
           (k \in DOMAIN flight /\ Aged(flight[k], flight'[k])) \/ ~LiveItem(flight'[k])
    BY <1>4, <1>6
  <1>8. Quieter(page, r)
    BY <1>3, <1>5, DoubtPage
  <1>9. Quieter(page, page') /\ rows' \subseteq rows
    BY <1>4, <1>8
  <1>10. QED
    BY <1>4, <1>7, <1>9, AgedBadge

\* A request for messages is answered, or fails.
LEMMA LoadBadge ==
    ASSUME ChatViewAssumption, ViewInv, ViewInv', BadgeInv, NEW c \in Chats,
           NEW s \in BOOLEAN, AnswerLoad(c, s) \/ FailLoad(c, s)
    PROVE  BadgeInv'
  <1>1. page \in Page /\ ServerTyped /\ flight \in Seq(Items)
    BY DEF ViewInv, Typed, ClientTyped
  <1>2. CASE AnswerLoad(c, s)
    <2>1. PICK l \in BOOLEAN : l = Doing(c)
      BY DEF Doing
    <2>2. PICK x : x = [Answer(c, s) EXCEPT !.late = l]
      OBVIOUS
    <2>3. /\ flight' = Append(flight, x) /\ page' = page
          /\ home' = home /\ rows' = rows /\ twice' = twice
      BY <1>2, <2>1, <2>2 DEF AnswerLoad, server
    <2>4. x \in Items /\ ~LiveItem(x)
      BY <1>1, <2>2, AnswerItem DEF LiveItem
    <2>5. Quieter(page, page')
      BY <1>1, <2>3, DerivedItself
    <2>6. QED
      BY <2>3, <2>4, <2>5, SentBadge
  <1>3. CASE FailLoad(c, s)
    <2>1. PICK p : p = [page EXCEPT !.loading = FALSE,
                                    !.shown = IF s THEN @ ELSE Empty,
                                    !.owner = IF s THEN @ ELSE None]
      OBVIOUS
    <2>2. PICK t \in BOOLEAN : t = TRUE
      OBVIOUS
    <2>3. PICK r : r = Doubt(p, c, t)
      OBVIOUS
    <2>4. /\ page' = r /\ flight' = flight
          /\ home' = home /\ rows' = rows /\ twice' = twice
      BY <1>3, <2>1, <2>2, <2>3 DEF FailLoad, server
    <2>5. p \in Page /\ p.chats = page.chats /\ p.saved = page.saved
      BY <1>1, <2>1, ListMembers DEF Page
    <2>6. r \in Page /\ Quieter(p, r)
      BY <2>3, <2>5, DoubtPage
    <2>7. Quieter(page, p)
      BY <1>1, <2>5, SameBadges
    <2>8. Quieter(page, r)
      BY <1>1, <2>5, <2>6, <2>7, QuieterIsTransitive
    <2>9. Quieter(page, page')
      BY <2>4, <2>8
    <2>10. QED
      BY <2>4, <2>9, SameFlightBadge
  <1>4. QED
    BY <1>2, <1>3

\* A request for the chats is answered, or fails: the badges are the unread rows.
LEMMA EndListBadge ==
    ASSUME ChatViewAssumption, ViewInv, ViewInv', BadgeInv, NEW data \in {Listed, None},
           EndList(data)
    PROVE  BadgeInv'
  <1>1. /\ page \in Page /\ ServerTyped /\ OnceIn(flight) /\ rows \in SUBSET Messages
        /\ twice \in SUBSET Messages
        /\ LiveIn(flight) \cap (rows \cup Own) = {} /\ rows \cap (Own \cup twice) = {}
    BY DEF ViewInv, Typed, ServerTyped, ClientTyped, BadgeInv
  <1>2. /\ flight' = flight /\ home' = home /\ rows' = rows /\ twice' = twice
        /\ page' = IF data = None THEN page ELSE [page EXCEPT !.chats = data, !.saved = data]
    BY DEF EndList, server
  <1>3. CASE data = None
    <2>1. Quieter(page, page')
      BY <1>1, <1>2, <1>3, DerivedItself
    <2>2. QED
      BY <1>2, <2>1, SameFlightBadge
  <1>4. CASE data # None
    <2>1. PICK q : q = [page EXCEPT !.chats = data, !.saved = data]
      OBVIOUS
    <2>2. q.chats = data /\ q.saved = data /\ data = Listed
      BY <1>1, <1>4, <2>1 DEF Page
    <2>3. \A c \in DOMAIN q.chats : q.chats[c] = Cardinality(Of(home, rows, c))
      BY <1>1, <2>2, ListedBadges DEF Of
    <2>4. LiveIn(flight) \in SUBSET Messages
      BY DEF LiveIn
    <2>5. LiveIn(flight) \cap rows = {} /\ LiveIn(flight) \cap Own = {} /\ rows \cap Own = {}
      BY <1>1
    <2>6. BadgesFit(home, twice, LiveIn(flight), q)
      BY <1>1, <2>2, <2>3, <2>4, <2>5, ListedFits
    <2>7. page' = q
      BY <1>2, <1>4, <2>1
    <2>8. LiveIn(flight) \cap (rows' \cup Own) = {} /\ rows' \cap (Own \cup twice') = {}
      BY <1>1, <1>2
    <2>9. QED
      BY <1>1, <1>2, <2>6, <2>7, <2>8, BadgeTogether
  <1>5. QED
    BY <1>3, <1>4

\* What the page does when the socket has opened raises no badge.
LEMMA ReturnedPage ==
    ASSUME ChatViewAssumption, ViewInv, NEW live \in rows \cup {None}, LineReturns(live)
    PROVE  Quieter(page, page')
  <1>1. PICK c : c = page.active
    OBVIOUS
  <1>2. PICK d : d = DropMem(page, c)
    OBVIOUS
  <1>3. PICK g : g = [page EXCEPT !.greeted = TRUE]
    OBVIOUS
  <1>4. PICK b \in BOOLEAN : b = (c # None)
    OBVIOUS
  <1>5. /\ page.greeted => page' = IF c = None THEN page ELSE StartLoad(d, c)
        /\ ~page.greeted => page' = Doubt(g, c, b)
    BY <1>1, <1>2, <1>3, <1>4 DEF LineReturns
  <1>6. page \in Page /\ c \in Chats \cup {None}
    BY <1>1 DEF ViewInv, Typed, ClientTyped, Page
  <1>7. CASE page.greeted /\ c = None
    BY <1>5, <1>6, <1>7, DerivedItself
  <1>8. CASE page.greeted /\ c # None
    <2>1. c \in Chats /\ page' = StartLoad(d, c)
      BY <1>5, <1>6, <1>8
    <2>2. d \in Page /\ Quieter(page, d)
      BY <1>2, <1>6, <2>1, DropPage
    <2>3. PICK r : r = StartLoad(d, c)
      OBVIOUS
    <2>4. r \in Page /\ Quieter(d, r)
      BY <2>1, <2>2, <2>3, StartLoadPage
    <2>5. Quieter(page, r)
      BY <1>6, <2>2, <2>4, QuieterIsTransitive
    <2>6. QED
      BY <2>1, <2>3, <2>5
  <1>9. CASE ~page.greeted
    <2>1. page' = Doubt(g, c, b)
      BY <1>5, <1>9
    <2>2. g \in Page /\ g.chats = page.chats /\ g.saved = page.saved
      BY <1>3, <1>6 DEF Page
    <2>3. Quieter(page, g)
      BY <1>6, <2>2, SameBadges
    <2>4. PICK r : r = Doubt(g, c, b)
      OBVIOUS
    <2>5. r \in Page /\ Quieter(g, r)
      BY <1>4, <1>6, <2>2, <2>4, DoubtPage
    <2>6. Quieter(page, r)
      BY <1>6, <2>2, <2>3, <2>5, QuieterIsTransitive
    <2>7. QED
      BY <2>1, <2>4, <2>6
  <1>10. QED
    BY <1>7, <1>8, <1>9

\* The unread rows are replayed, which counts nothing; one of them may come live as well.
LEMMA LineReturnsBadge ==
    ASSUME ChatViewAssumption, ViewInv, ViewInv', BadgeInv, NEW live \in rows \cup {None},
           LineReturns(live)
    PROVE  BadgeInv'
  <1>1. PICK G : G = flight'
    OBVIOUS
  <1>2. PICK z : z = Len(G)
    OBVIOUS
  <1>3. PICK q : q = page'
    OBVIOUS
  <1>4. /\ page \in Page /\ q \in Page /\ OnceIn(flight) /\ rows \in SUBSET Messages
        /\ twice \in SUBSET Messages
        /\ LiveIn(flight) \cap (rows \cup Own) = {} /\ rows \cap (Own \cup twice) = {}
        /\ BadgesFit(home, twice, LiveIn(flight), page)
    BY <1>3 DEF ViewInv, Typed, ServerTyped, ClientTyped, BadgeInv
  <1>5. /\ home' = home /\ rows' = {}
        /\ twice' = IF live = None THEN twice ELSE twice \cup {live}
    BY DEF LineReturns
  <1>6. Quieter(page, q)
    BY <1>3, ReturnedPage
  <1>7. /\ \A j \in DOMAIN flight : Aged(flight[j], G[j])
        /\ \A k \in DOMAIN G : \/ k \in DOMAIN flight
                               \/ \E m \in rows : G[k] = New(m, TRUE)
                               \/ live # None /\ k = z /\ G[k] = New(live, FALSE)
    BY <1>1, <1>2, ReturnedFlight
  <1>8. \A m : ~LiveItem(New(m, TRUE)) /\ New(m, FALSE).msg = m
    BY DEF LiveItem, New
  <1>9. LiveIn(flight) \in SUBSET Messages /\ LiveIn(flight) \in SUBSET LiveIn(flight)
    BY DEF LiveIn
  <1>10. CASE live = None
    <2>1. \A k \in DOMAIN flight' :
             (k \in DOMAIN flight /\ Aged(flight[k], flight'[k])) \/ ~LiveItem(flight'[k])
      BY <1>1, <1>7, <1>8, <1>10
    <2>2. rows' \subseteq rows /\ Quieter(page, page') /\ twice' = twice
      BY <1>3, <1>5, <1>6, <1>10
    <2>3. QED
      BY <1>5, <2>1, <2>2, AgedBadge
  <1>11. CASE live # None
    <2>1. /\ live \in rows /\ live \in Messages
          /\ live \notin LiveIn(flight) /\ live \notin twice /\ live \notin Own
      BY <1>4, <1>11
    <2>2. NewAt(G, z, live)
      BY <1>7, <1>8 DEF NewAt
    <2>3. OnceIn(G) /\ LiveIn(G) \in SUBSET (LiveIn(flight) \cup {live})
      BY <1>4, <2>1, <2>2, LiveAdded
    <2>4. BadgesFit(home, twice, LiveIn(flight), q)
      BY <1>4, <1>6, <1>9, FitQuieter
    <2>5. PICK t : t = twice \cup {live}
      OBVIOUS
    <2>6. BadgesFit(home, t, LiveIn(G), q)
      BY <1>4, <1>9, <2>1, <2>3, <2>4, <2>5, TwiceFits
    <2>7. LiveIn(G) \cap (rows' \cup Own) = {} /\ rows' \cap (Own \cup twice') = {}
      BY <1>4, <1>5, <2>1, <2>3
    <2>8. flight' = G /\ page' = q /\ twice' = t
      BY <1>1, <1>3, <1>5, <1>11, <2>5
    <2>9. QED
      BY <1>5, <2>3, <2>6, <2>7, <2>8, BadgeTogether
  <1>12. QED
    BY <1>10, <1>11

\* The socket breaks: what travelled on it is lost.
LEMMA LineBreaksBadge ==
    ASSUME ChatViewAssumption, ViewInv, ViewInv', BadgeInv, LineBreaks
    PROVE  BadgeInv'
  <1>1. PICK S : S = {flight[i].chat : i \in {j \in DOMAIN flight : IsFrame(flight[j])}}
    OBVIOUS
  <1>2. PICK q : q = Wary(page, S)
    OBVIOUS
  <1>3. /\ flight' = Lasting /\ page' = q
        /\ home' = home /\ rows' = rows /\ twice' = twice
    BY <1>1, <1>2 DEF LineBreaks, Wary, server
  <1>4. flight \in Seq(Items) /\ page \in Page /\ OnceIn(flight)
    BY DEF ViewInv, Typed, ClientTyped, BadgeInv
  <1>5. PICK G : G = Lasting
    OBVIOUS
  <1>6. PICK s : s = [k \in DOMAIN G |-> Nth(Kept, k)]
    OBVIOUS
  <1>7. /\ G \in Seq(Items)
        /\ \A k \in DOMAIN G : s[k] \in Kept /\ G[k] = flight[s[k]]
        /\ \A k, l \in DOMAIN G : k < l => s[k] < s[l]
    BY <1>4, <1>5, <1>6, LastingItems
  <1>8. \A k \in DOMAIN G : s[k] \in DOMAIN flight /\ s[k] \in Nat /\ k \in Nat
    BY <1>4, <1>7, LenProperties DEF Kept
  <1>9. \A k, l \in DOMAIN G : s[k] = s[l] => k = l
    BY <1>7, <1>8
  <1>10. OnceIn(G) /\ LiveIn(G) \subseteq LiveIn(flight)
    BY <1>4, <1>7, <1>8, <1>9, LiveFollows
  <1>11. OnceIn(flight') /\ LiveIn(flight') \subseteq LiveIn(flight)
    BY <1>3, <1>5, <1>10
  <1>12. Quieter(page, q)
    <2>1. q.chats = page.chats /\ q.saved = page.saved
      BY <1>2, <1>4 DEF Wary, Page
    <2>2. QED
      BY <1>4, <2>1, SameBadges
  <1>13. Quieter(page, page') /\ rows' \subseteq rows
    BY <1>3, <1>12
  <1>14. QED
    BY <1>3, <1>11, <1>13, QuietStep

\* A chat is opened, from the list or from a notification, or closed.
LEMMA OpenBadge ==
    ASSUME ChatViewAssumption, ViewInv, ViewInv', BadgeInv,
           NEW p \in Page, Quieter(page, p), NEW c \in Chats \cup {None},
           SetActive(p, c), UNCHANGED <<server, line, flight, twice>>
    PROVE  BadgeInv'
  <1>1. page \in Page /\ asked \in Asked
    BY DEF ViewInv, Typed, ClientTyped
  <1>2. page' \in Page /\ Quieter(p, page')
    BY <1>1, SetActivePage
  <1>3. PICK r : r = page'
    OBVIOUS
  <1>4. r \in Page /\ Quieter(p, r)
    BY <1>2, <1>3
  <1>5. Quieter(page, r)
    BY <1>1, <1>4, QuieterIsTransitive
  <1>6. /\ flight' = flight /\ home' = home /\ rows' \subseteq rows /\ twice' = twice
        /\ Quieter(page, page')
    BY <1>3, <1>5 DEF server
  <1>7. QED
    BY <1>6, SameFlightBadge

\* The three ways to do so.
LEMMA UserBadge ==
    ASSUME ChatViewAssumption, ViewInv, ViewInv', BadgeInv,
           (\E c \in Chats : Open(c) \/ Tap(c)) \/ Back
    PROVE  BadgeInv'
  <1>1. page \in Page /\ Quieter(page, page)
    BY DerivedItself DEF ViewInv, Typed, ClientTyped
  <1>2. ASSUME NEW c \in Chats, Open(c)
        PROVE  BadgeInv'
    <2>1. SetActive(page, c) /\ UNCHANGED <<server, line, flight, twice>>
      BY <1>2 DEF Open
    <2>2. QED
      BY <1>1, <2>1, OpenBadge
  <1>3. ASSUME NEW c \in Chats, Tap(c)
        PROVE  BadgeInv'
    <2>1. PICK p : p = DropMem(page, c)
      OBVIOUS
    <2>2. SetActive(p, c) /\ UNCHANGED <<server, line, flight, twice>>
      BY <1>3, <2>1 DEF Tap
    <2>3. p \in Page /\ Quieter(page, p)
      BY <1>1, <2>1, DropPage
    <2>4. QED
      BY <2>2, <2>3, OpenBadge
  <1>4. ASSUME Back
        PROVE  BadgeInv'
    <2>1. SetActive(page, None) /\ UNCHANGED <<server, line, flight, twice>>
      BY <1>4 DEF Back
    <2>2. QED
      BY <1>1, <2>1, OpenBadge
  <1>5. QED
    BY <1>2, <1>3, <1>4

\* Without a flight only the badges count.
LEMMA NothingLive ==
    ASSUME NEW F, F = <<>>
    PROVE  OnceIn(F) /\ LiveIn(F) = {}
  <1>1. DOMAIN F = {}
    OBVIOUS
  <1>2. QED
    BY <1>1 DEF OnceIn, LiveIn

\* The page is loaded anew: the saved badges are the older ones.
LEMMA ReloadBadge ==
    ASSUME ChatViewAssumption, ViewInv, ViewInv', BadgeInv, Reload
    PROVE  BadgeInv'
  <1>1. PICK q : q = page'
    OBVIOUS
  <1>2. /\ page \in Page /\ twice \in SUBSET Messages
        /\ BadgesFit(home, twice, LiveIn(flight), page) /\ rows \cap (Own \cup twice) = {}
    BY DEF ViewInv, Typed, ServerTyped, ClientTyped, BadgeInv
  <1>3. /\ flight' = <<>> /\ home' = home /\ rows' = rows /\ twice' = twice
        /\ q.chats = page.saved /\ q.saved = page.saved
    BY <1>1, <1>2 DEF Reload, Page
  <1>4. PICK F : F = flight'
    OBVIOUS
  <1>5. OnceIn(F) /\ LiveIn(F) = {}
    BY <1>3, <1>4, NothingLive
  <1>6. \A c \in DOMAIN page.saved : page.saved[c] \in Nat
    BY <1>2, BadgeMembers DEF Page
  <1>7. \A c : Cardinality(Of(home, {}, c)) = 0
    <2>1. \A c : Of(home, {}, c) = {}
      BY DEF Of
    <2>2. QED
      BY <2>1, FS_EmptySet
  <1>8. BadgesFit(home, twice, {}, q)
    BY <1>2, <1>3, <1>6, <1>7 DEF BadgesFit
  <1>9. LiveIn(F) \cap (rows' \cup Own) = {} /\ rows' \cap (Own \cup twice') = {}
    BY <1>2, <1>3, <1>5
  <1>10. BadgesFit(home, twice, LiveIn(F), q) /\ flight' = F /\ page' = q
    BY <1>1, <1>4, <1>5, <1>8
  <1>11. QED
    BY <1>3, <1>5, <1>9, <1>10, BadgeTogether

\* Every step keeps the invariant.
LEMMA BadgeNext ==
    ASSUME ChatViewAssumption, ViewInv, ViewInv', BadgeInv, [ViewNext]_viewvars
    PROVE  BadgeInv'
  <1>1. ASSUME NEW i \in DOMAIN flight, Handle(i)
        PROVE  BadgeInv'
    <2>1. CASE Decrypt(i)
      BY <2>1, DecryptBadge
    <2>2. CASE ApplyNew(i)
      BY <2>2, ApplyNewBadge
    <2>3. CASE ApplyEdit(i) \/ ApplyMark(i) \/ IgnoreEdit(i)
      BY <2>3, MarkBadge
    <2>4. CASE OnCleared(i) \/ OnDeleted(i) \/ Answered(i)
      BY <2>4, NewsBadge
    <2>5. CASE OnChanged(i)
      BY <2>5, OnChangedBadge
    <2>6. CASE ApplyLoad(i)
      BY <2>6, ApplyLoadBadge
    <2>7. QED
      BY <1>1, <2>1, <2>2, <2>3, <2>4, <2>5, <2>6 DEF Handle
  <1>2. ASSUME Respond
        PROVE  BadgeInv'
    <2>1. CASE \E c \in Chats, served \in BOOLEAN : AnswerLoad(c, served) \/ FailLoad(c, served)
      BY <2>1, LoadBadge
    <2>2. CASE \E data \in {Listed, None} : EndList(data)
      BY <2>2, EndListBadge
    <2>3. CASE \E d \in doing : Commit(d) \/ CommitFails(d)
      BY <2>3, CommitBadge, CommitFailsBadge
    <2>4. QED
      BY <1>2, <2>1, <2>2, <2>3 DEF Respond
  <1>3. ASSUME Happen
        PROVE  BadgeInv'
    <2>1. CASE \E c \in Chats, m \in Messages : Send(c, m)
      BY <2>1, SendBadge
    <2>2. CASE \/ \E m \in Messages, mark \in Marks : Change(m, mark)
               \/ \E c \in Chats, out \in BOOLEAN : ChangeGroup(c, out)
      BY <2>2, ChangeBadge
    <2>3. CASE \E c \in Chats, kind \in {"cleared", "gone", "left"}, mine, told \in BOOLEAN :
                  Announce(c, kind, mine, told)
      BY <2>3, AnnounceBadge
    <2>4. CASE LineBreaks
      BY <2>4, LineBreaksBadge
    <2>5. CASE (\E c \in Chats : Open(c) \/ Tap(c)) \/ Back
      BY <2>5, UserBadge
    <2>6. CASE Reload
      BY <2>6, ReloadBadge
    <2>7. QED
      BY <1>3, <2>1, <2>2, <2>3, <2>4, <2>5, <2>6 DEF Happen
  <1>4. ASSUME NEW live \in rows \cup {None}, LineReturns(live)
        PROVE  BadgeInv'
    BY <1>4, LineReturnsBadge
  <1>5. ASSUME UNCHANGED viewvars
        PROVE  BadgeInv'
    <2>1. page \in Page
      BY DEF ViewInv, Typed, ClientTyped
    <2>2. /\ flight' = flight /\ home' = home /\ rows' \subseteq rows /\ twice' = twice
          /\ page' = page
      BY <1>5 DEF viewvars, server, net
    <2>3. Quieter(page, page')
      BY <2>1, <2>2, DerivedItself
    <2>4. QED
      BY <2>2, <2>3, SameFlightBadge
  <1>6. QED
    BY <1>1, <1>2, <1>3, <1>4, <1>5 DEF ViewNext

\* The invariant bounds the badges.
LEMMA BadgeInvImplies ==
    ASSUME ChatViewAssumption, ViewInv, BadgeInv
    PROVE  BadgeCountsOnce
  <1>1. page \in Page /\ twice \in SUBSET Messages
    BY DEF ViewInv, Typed, ServerTyped, ClientTyped
  <1>2. ASSUME NEW c \in DOMAIN page.chats
        PROVE  page.chats[c] <= Cardinality(Of(home, Messages \ Own, c))
                                + Cardinality(Of(home, twice, c))
    <2>1. page.chats[c] \in Nat
      BY <1>1, BadgeMembers DEF Page
    <2>2. page.chats[c] + Cardinality(Of(home, LiveIn(flight), c)) <= Ever(home, twice, c)
      BY DEF BadgeInv, BadgesFit
    <2>3. LiveIn(flight) \in SUBSET Messages /\ LiveIn(flight) \in SUBSET LiveIn(flight)
      BY DEF LiveIn
    <2>4. Cardinality(Of(home, LiveIn(flight), c)) \in Nat
      BY <2>3, OfCounts
    <2>5. Ever(home, twice, c) \in Nat
      BY <1>1, EverCounts
    <2>6. page.chats[c] <= Ever(home, twice, c)
      BY <2>1, <2>2, <2>4, <2>5
    <2>7. QED
      BY <2>6 DEF Ever
  <1>3. QED
    BY <1>2 DEF BadgeCountsOnce, Of

\* A message counts once in the badge of its chat, by its unread row or by its live frame,
\* and a second time only if it got both: whatever order answers and frames come in, however
\* often the socket breaks and the rows are replayed, and however often the page is reloaded.
THEOREM BadgesCountOnce == ViewSpec => []BadgeCountsOnce
  <1>1. ViewInit => BadgeInv
    <2>1. SUFFICES ASSUME ViewInit
                   PROVE  BadgeInv
      OBVIOUS
    <2>2. OnceIn(flight) /\ LiveIn(flight) = {} /\ rows = {}
      BY <2>1, NothingLive DEF ViewInit
    <2>3. DOMAIN page.chats = {} /\ DOMAIN page.saved = {}
      BY <2>1 DEF ViewInit, Empty
    <2>4. BadgesFit(home, twice, LiveIn(flight), page)
      BY <2>3 DEF BadgesFit
    <2>5. QED
      BY <2>2, <2>4 DEF BadgeInv
  <1>2. ViewInv /\ ViewInv' /\ BadgeInv /\ [ViewNext]_viewvars => BadgeInv'
    BY ChatViewAssumption, BadgeNext
  <1>3. ViewInv /\ BadgeInv => BadgeCountsOnce
    BY ChatViewAssumption, BadgeInvImplies
  <1>4. QED
    BY <1>1, <1>2, <1>3, ViewInvariant, PTL DEF ViewSpec

----------------------------------------------------------------------------
(* What the open chat shows.                                               *)

\* Handling x will put the mark k on m, if m is in the list that is open then.
Marking(x, m, k) == x.msg = m /\ (x.kind = k \/ (x.kind = "openingEdit" /\ k = "edited"))

\* An item after the i-th will.
MarkOn(F, m, k, i) == \E j \in DOMAIN F : j > i /\ Marking(F[j], m, k)

\* The face x of m shows what happened to m, but for what the items after the i-th bring.
Current(M, F, x, m, i) == x \subseteq M[m] /\ \A k \in M[m] \ x : MarkOn(F, m, k, i)

\* x will put m in the open list.
LiveNew(x, m) == x.msg = m /\ (x.kind = "new" \/ (x.kind = "openingNew" /\ x.live))

\* x will put doubt on the open list as well.
Spoilt(x) == x.late \/ "sealed" \in x.marks

\* Items after the i-th will put m in the list, and what they put there is current.
Coming(M, F, m, i) ==
    /\ \E j \in DOMAIN F : j > i /\ LiveNew(F[j], m)
    /\ \A j \in DOMAIN F :
          j > i /\ LiveNew(F[j], m) => Spoilt(F[j]) \/ Current(M, F, F[j].marks, m, j)

\* What the list L has is current, and what a list of chat c lacks is coming.
Known(M, F, L, i) == \A m \in DOMAIN L : Current(M, F, L[m], m, i)
Due(M, h, gone, F, L, c, i) ==
    \A m \in Messages \ DOMAIN L : h[m] = c /\ m \notin gone => Coming(M, F, m, i)

\* x empties the list of its chat.
Wipes(x) == x.kind \in {"cleared", "done"}

\* y is what has become of x: it will do what x would, unless the page is now in doubt of it.
Later(x, y) ==
    /\ y.chat = x.chat /\ (x.late => y.late)
    /\ \A m \in Messages, k \in Marks : Marking(x, m, k) <=> Marking(y, m, k)
    /\ \A m \in Messages : LiveNew(y, m) =>
          LiveNew(x, m) /\ (Spoilt(x) => Spoilt(y)) /\ (Spoilt(y) \/ y.marks = x.marks)
    /\ y.kind = "messages" => x.kind = "messages" /\ y.data = x.data
    /\ Wipes(y) => Wipes(x)
Stays(x, y) == Later(x, y) /\ \A m \in Messages : LiveNew(x, m) => LiveNew(y, m)

\* An item that ages will do the same.
LEMMA AgedStays ==
    ASSUME ChatViewAssumption, NEW x \in Items, NEW y, Aged(x, y)
    PROVE  Stays(x, y)
  <1>1. y.kind = x.kind /\ y.chat = x.chat /\ y.msg = x.msg /\ (x.late => y.late)
    BY DEF Aged
  <1>2. \A m \in Messages, k \in Marks : Marking(x, m, k) <=> Marking(y, m, k)
    BY <1>1 DEF Marking
  <1>3. \A m \in Messages : LiveNew(y, m) <=> LiveNew(x, m)
    BY DEF Aged, LiveNew
  <1>4. ASSUME NEW m \in Messages, LiveNew(y, m)
        PROVE  y.marks = x.marks
    BY <1>4 DEF Aged, LiveNew
  <1>5. y.kind = "messages" => x.kind = "messages" /\ y.data = x.data
    BY DEF Aged
  <1>6. Wipes(y) => Wipes(x)
    BY <1>1 DEF Wipes
  <1>7. \A m \in Messages : LiveNew(y, m) => (Spoilt(x) => Spoilt(y))
    BY <1>1, <1>4 DEF Spoilt
  <1>8. QED
    BY <1>1, <1>2, <1>3, <1>4, <1>5, <1>6, <1>7 DEF Stays, Later

\* G is F with items changed in place and added, and brings the marks that N has beyond M.
Grown(M, F, N, G, m) ==
    /\ DOMAIN F \subseteq DOMAIN G /\ \A j \in DOMAIN F : Later(F[j], G[j])
    /\ M[m] \subseteq N[m] /\ \A k \in N[m] \ M[m] : MarkOn(G, m, k, Len(F))

\* What was current is current, seen from the same place.
LEMMA CurrentGrown ==
    ASSUME NEW M, NEW N, NEW F \in Seq(Items), NEW G \in Seq(Items), NEW m \in Messages,
           N[m] \subseteq Marks, Grown(M, F, N, G, m),
           NEW i \in Nat, i <= Len(F), NEW x, Current(M, F, x, m, i)
    PROVE  Current(N, G, x, m, i)
  <1>0. Len(F) \in Nat /\ Len(G) \in Nat /\ DOMAIN F = 1..Len(F) /\ DOMAIN G = 1..Len(G)
    BY LenProperties
  <1>1. x \subseteq N[m]
    BY DEF Grown, Current
  <1>2. ASSUME NEW k \in N[m] \ x
        PROVE  MarkOn(G, m, k, i)
    <2>1. CASE k \in M[m]
      <3>1. PICK j \in DOMAIN F : j > i /\ Marking(F[j], m, k)
        BY <1>2, <2>1 DEF Current, MarkOn
      <3>2. j \in DOMAIN G /\ Marking(G[j], m, k)
        BY <1>2, <3>1 DEF Grown, Later
      <3>3. QED
        BY <3>1, <3>2 DEF MarkOn
    <2>2. CASE k \notin M[m]
      <3>1. PICK j \in DOMAIN G : j > Len(F) /\ Marking(G[j], m, k)
        BY <1>2, <2>2 DEF Grown, MarkOn
      <3>2. j > i
        BY <1>0, <3>1
      <3>3. QED
        BY <3>1, <3>2 DEF MarkOn
    <2>3. QED
      BY <2>1, <2>2
  <1>3. QED
    BY <1>1, <1>2 DEF Current

\* What was coming is coming.
LEMMA ComingGrown ==
    ASSUME NEW M, NEW N, NEW F \in Seq(Items), NEW G \in Seq(Items), NEW m \in Messages,
           N[m] \subseteq Marks, Grown(M, F, N, G, m),
           NEW i \in Nat, i <= Len(F), Coming(M, F, m, i),
           \A j \in DOMAIN F : j > i /\ LiveNew(F[j], m) => LiveNew(G[j], m),
           \A j \in DOMAIN G \ DOMAIN F : ~LiveNew(G[j], m)
    PROVE  Coming(N, G, m, i)
  <1>0. Len(F) \in Nat /\ DOMAIN F = 1..Len(F)
    BY LenProperties
  <1>1. \E j \in DOMAIN G : j > i /\ LiveNew(G[j], m)
    BY DEF Coming, Grown
  <1>2. ASSUME NEW j \in DOMAIN G, j > i, LiveNew(G[j], m), ~Spoilt(G[j])
        PROVE  Current(N, G, G[j].marks, m, j)
    <2>1. j \in DOMAIN F /\ j \in Nat /\ j <= Len(F)
      BY <1>0, <1>2
    <2>2. LiveNew(F[j], m) /\ ~Spoilt(F[j]) /\ G[j].marks = F[j].marks
      BY <1>2, <2>1 DEF Grown, Later
    <2>3. Current(M, F, F[j].marks, m, j)
      BY <1>2, <2>1, <2>2 DEF Coming
    <2>4. Current(N, G, F[j].marks, m, j)
      BY <2>1, <2>3, CurrentGrown
    <2>5. QED
      BY <2>2, <2>4
  <1>3. QED
    BY <1>1, <1>2 DEF Coming

\* The places of the other items when the t-th is taken.
Place(t, j) == IF j < t THEN j ELSE j - 1

\* G is F without the t-th item, which may have made those before it late.
Removed(F, G, t) ==
    /\ \A j \in DOMAIN F \ {t} :
          /\ Place(t, j) \in DOMAIN G
          /\ Stays(F[j], G[Place(t, j)])
          /\ j < t /\ Overtakes(F[t], F[j]) => G[Place(t, j)].late
    /\ \A k \in DOMAIN G : \E j \in DOMAIN F \ {t} : k = Place(t, j)

\* Seen from further back, what is current is current.
LEMMA CurrentBefore ==
    ASSUME NEW M, NEW F \in Seq(Items), NEW m, NEW x, NEW i \in Nat, NEW k \in Nat, k <= i,
           Current(M, F, x, m, i)
    PROVE  Current(M, F, x, m, k)
  <1>1. DOMAIN F = 1..Len(F)
    BY LenProperties
  <1>2. QED
    BY <1>1 DEF Current, MarkOn

\* An item that does not mark m is taken, or one that was not counted on.
LEMMA CurrentTaken ==
    ASSUME NEW M, NEW F \in Seq(Items), NEW G \in Seq(Items), NEW t \in DOMAIN F, Removed(F, G, t),
           NEW m \in Messages, M[m] \subseteq Marks, NEW x, NEW i \in Nat,
           Current(M, F, x, m, i), i >= t \/ \A k \in M[m] \ x : ~Marking(F[t], m, k)
    PROVE  /\ i < t => Current(M, G, x, m, i)
           /\ i >= t => Current(M, G, x, m, i - 1)
  <1>0. t \in Nat /\ DOMAIN F = 1..Len(F)
    BY LenProperties
  <1>1. ASSUME NEW k \in M[m] \ x
        PROVE  (i < t => MarkOn(G, m, k, i)) /\ (i >= t => MarkOn(G, m, k, i - 1))
    <2>1. PICK j \in DOMAIN F : j > i /\ Marking(F[j], m, k)
      BY <1>1 DEF Current, MarkOn
    <2>2. j # t
      BY <1>0, <1>1, <2>1
    <2>3. Place(t, j) \in DOMAIN G /\ Marking(G[Place(t, j)], m, k)
      BY <1>1, <2>1, <2>2 DEF Removed, Stays, Later
    <2>4. (i < t => Place(t, j) > i) /\ (i >= t => Place(t, j) > i - 1)
      BY <1>0, <2>1, <2>2 DEF Place
    <2>5. QED
      BY <2>3, <2>4 DEF MarkOn
  <1>2. QED
    BY <1>1 DEF Current

\* An item is taken that does not bring m, or that was not counted on.
LEMMA ComingTaken ==
    ASSUME NEW M, NEW F \in Seq(Items), NEW G \in Seq(Items), NEW t \in DOMAIN F, Removed(F, G, t),
           NEW m \in Messages, M[m] \subseteq Marks, NEW i \in Nat, Coming(M, F, m, i),
           i >= t \/ ~LiveNew(F[t], m),
           \A j \in DOMAIN F : j < t /\ LiveNew(F[j], m) =>
              Overtakes(F[t], F[j]) \/ \A k \in Marks : ~Marking(F[t], m, k)
    PROVE  /\ i < t => Coming(M, G, m, i)
           /\ i >= t => Coming(M, G, m, i - 1)
  <1>0. t \in Nat /\ DOMAIN F = 1..Len(F)
    BY LenProperties
  <1>1. \E k \in DOMAIN G : LiveNew(G[k], m) /\ (i < t => k > i) /\ (i >= t => k > i - 1)
    <2>1. PICK j \in DOMAIN F : j > i /\ LiveNew(F[j], m)
      BY DEF Coming
    <2>2. j # t
      BY <1>0, <2>1
    <2>3. Place(t, j) \in DOMAIN G /\ LiveNew(G[Place(t, j)], m)
      BY <2>1, <2>2 DEF Removed, Stays
    <2>4. (i < t => Place(t, j) > i) /\ (i >= t => Place(t, j) > i - 1)
      BY <1>0, <2>1, <2>2 DEF Place
    <2>5. QED
      BY <2>3, <2>4
  <1>2. ASSUME NEW k \in DOMAIN G, LiveNew(G[k], m), ~Spoilt(G[k]),
               (i < t /\ k > i) \/ (i >= t /\ k > i - 1)
        PROVE  Current(M, G, G[k].marks, m, k)
    <2>1. PICK j \in DOMAIN F \ {t} : k = Place(t, j)
      BY DEF Removed
    <2>2. /\ Stays(F[j], G[k]) /\ j \in Nat
          /\ j < t /\ Overtakes(F[t], F[j]) => G[k].late
      BY <1>0, <2>1 DEF Removed
    <2>3. LiveNew(F[j], m) /\ ~Spoilt(F[j]) /\ G[k].marks = F[j].marks
      BY <1>2, <2>2 DEF Stays, Later
    <2>4. j > i
      BY <1>0, <1>2, <2>1 DEF Place
    <2>5. Current(M, F, F[j].marks, m, j)
      BY <2>1, <2>3, <2>4 DEF Coming
    <2>6. j < t => \A l \in Marks : ~Marking(F[t], m, l)
      BY <1>2, <2>1, <2>2, <2>3 DEF Spoilt
    <2>7. j >= t \/ \A l \in M[m] \ F[j].marks : ~Marking(F[t], m, l)
      BY <1>0, <2>1, <2>6
    <2>8. (j < t => Current(M, G, F[j].marks, m, j))
          /\ (j >= t => Current(M, G, F[j].marks, m, j - 1))
      BY <2>1, <2>2, <2>5, <2>7, CurrentTaken
    <2>9. (j < t => k = j) /\ (j >= t => k = j - 1)
      BY <2>1 DEF Place
    <2>10. QED
      BY <1>0, <2>2, <2>3, <2>8, <2>9
  <1>3. QED
    BY <1>1, <1>2 DEF Coming

\* An item is taken that makes late what would bring m before it.
LEMMA ComingAfter ==
    ASSUME NEW M, NEW F \in Seq(Items), NEW G \in Seq(Items), NEW t \in DOMAIN F, Removed(F, G, t),
           NEW m \in Messages, M[m] \subseteq Marks, Coming(M, F, m, t),
           \A j \in DOMAIN F : j < t /\ LiveNew(F[j], m) => Overtakes(F[t], F[j])
    PROVE  Coming(M, G, m, 0)
  <1>0. t \in Nat /\ t >= 1 /\ DOMAIN F = 1..Len(F) /\ DOMAIN G = 1..Len(G)
    BY LenProperties
  <1>1. Coming(M, G, m, t - 1)
    BY <1>0, ComingTaken
  <1>2. ASSUME NEW k \in DOMAIN G, LiveNew(G[k], m), ~(k > t - 1)
        PROVE  Spoilt(G[k])
    <2>1. PICK j \in DOMAIN F \ {t} : k = Place(t, j)
      BY DEF Removed
    <2>2. j < t /\ k = j
      BY <1>0, <1>2, <2>1 DEF Place
    <2>3. LiveNew(F[j], m)
      BY <1>2, <2>1 DEF Removed, Stays, Later
    <2>4. G[k].late
      BY <2>1, <2>2, <2>3 DEF Removed
    <2>5. QED
      BY <2>4 DEF Spoilt
  <1>3. QED
    BY <1>0, <1>1, <1>2 DEF Coming

\* The items that set a mark are of the chat of their message, which has the mark.
Fits(M, h, x) ==
    \A m \in Messages, k \in Marks : Marking(x, m, k) => k \in M[m] /\ h[m] = x.chat
MarksFit == \A i \in DOMAIN flight : Fits(marks, home, flight[i])

\* The answer at i, with what comes after it, is what the server has.
Faithful(i) ==
    /\ Known(marks, flight, flight[i].data, i)
    /\ Due(marks, home, purged, flight, flight[i].data, flight[i].chat, i)
Fresh(i) == flight[i].kind = "messages" /\ ~flight[i].late
AnswersFaithful == line = "up" => \A i \in DOMAIN flight : Fresh(i) => Faithful(i)

\* A chat that is open, not in doubt, not being loaded, and not about to be emptied by others.
Loading(c) == \/ \E served \in BOOLEAN : asked[<<c, served>>] > 0
              \/ \E i \in DOMAIN flight : flight[i].kind = "messages" /\ flight[i].chat = c
ByOthers(c) == \E d \in doing : d.chat = c /\ ~d.mine
Quiet(c) == line = "up" /\ c = page.active /\ c \in alive \ page.doubted /\ ~Loading(c)
Settled(c) == Quiet(c) /\ ~ByOthers(c)

\* When the list of an open chat is emptied, what it lacks is still to come.
Emptying(i) == Wipes(flight[i]) /\ ~flight[i].late
WipesFaithful ==
    \A c \in Chats : Settled(c) =>
       \A i \in DOMAIN flight : Emptying(i) /\ flight[i].chat = c =>
          Due(marks, home, purged, flight, Empty, c, i)

\* An answer is not followed by the news that its chat was emptied, unless that is to come.
AnswersFirst ==
    line = "up" => \A i, k \in DOMAIN flight :
       i < k /\ Fresh(i) /\ Emptying(k) /\ flight[i].chat = flight[k].chat
          => ByOthers(flight[i].chat)

\* What the open chat shows is current, and what it lacks is coming.
ScreenKnown == \A c \in Chats : Quiet(c) /\ ~page.blurred => Known(marks, flight, page.shown, 0)
ScreenDue == \A c \in Chats : Settled(c) /\ ~page.blurred =>
                Due(marks, home, purged, flight, page.shown, c, 0)

\* There is a spinner only while the open chat is being loaded.
Spins == page.active # None /\ page.loading => Loading(page.active)

SyncInv == /\ MarksFit /\ AnswersFaithful /\ WipesFaithful /\ AnswersFirst
           /\ ScreenKnown /\ ScreenDue /\ Spins

\* The step keeps what is current of c, seen from i, current seen from k, and so with what is
\* coming.
CurrentOn(c, i, k) ==
    \A m \in Messages : home'[m] = c =>
       \A x \in Faces : Current(marks, flight, x, m, i) => Current(marks', flight', x, m, k)
ComingOn(c, i, k) ==
    \A m \in Messages : home'[m] = c /\ m \notin purged' =>
       \/ Coming(marks', flight', m, k)
       \/ /\ home[m] = c /\ m \notin purged
          /\ Coming(marks, flight, m, i) => Coming(marks', flight', m, k)

\* So with lists.
LEMMA KnownOn ==
    ASSUME ChatViewAssumption, NEW L \in Lists, NEW c, NEW i, NEW k, CurrentOn(c, i, k),
           Known(marks, flight, L, i), \A m \in DOMAIN L : home'[m] = c
    PROVE  Known(marks', flight', L, k)
  <1>1. \A m \in DOMAIN L : m \in Messages /\ L[m] \in Faces
    BY ListMembers
  <1>2. QED
    BY <1>1 DEF Known, CurrentOn

\* What a list lacks is still coming.
LEMMA DueOn ==
    ASSUME NEW L, NEW c, NEW i, NEW k, ComingOn(c, i, k),
           Due(marks, home, purged, flight, L, c, i)
    PROVE  Due(marks', home', purged', flight', L, c, k)
  BY DEF Due, ComingOn

\* The messages that were sent stay in their chats.
HomeStays == \A m \in Messages : home[m] # None => home'[m] = home[m]

\* The messages of an answer are of its chat.
LEMMA AnswerHome ==
    ASSUME ChatViewAssumption, ViewInv, HomeStays, NEW i \in DOMAIN flight,
           flight[i].kind = "messages"
    PROVE  /\ flight[i].data \in Lists
           /\ \A m \in DOMAIN flight[i].data : home'[m] = flight[i].chat
  <1>1. PICK x : x = flight[i]
    OBVIOUS
  <1>2. x \in Items /\ ItemTrue(x, home, purged)
    BY <1>1, ElementOfSeq, LenProperties DEF ViewInv, Typed, FlightTrue
  <1>3. x.data \in Lists /\ x.chat \in Chats /\ None \notin Chats
    BY <1>1, <1>2, ItemFields, ChatViewAssumption DEF LoadItem, ChatViewAssumption
  <1>4. ASSUME NEW m \in DOMAIN x.data
        PROVE  home'[m] = x.chat
    <2>1. m \in Messages /\ home[m] = x.chat
      BY <1>1, <1>2, <1>3, ListMembers DEF ItemTrue
    <2>2. QED
      BY <1>3, <2>1 DEF HomeStays
  <1>5. QED
    BY <1>1, <1>3, <1>4

\* Answers that stand where the step carries them stay faithful.
LEMMA AnswersStay ==
    ASSUME ChatViewAssumption, ViewInv, SyncInv, HomeStays, line' = "up" => line = "up",
           line' = "up" => \A k \in DOMAIN flight' : Fresh(k)' =>
              \/ Faithful(k)'
              \/ \E i \in DOMAIN flight :
                    /\ Later(flight[i], flight'[k])
                    /\ CurrentOn(flight[i].chat, i, k) /\ ComingOn(flight[i].chat, i, k)
    PROVE  AnswersFaithful'
  <1>1. SUFFICES ASSUME line' = "up", NEW k \in DOMAIN flight', Fresh(k)', ~Faithful(k)'
                 PROVE  FALSE
    BY DEF AnswersFaithful
  <1>2. PICK i \in DOMAIN flight :
                    /\ Later(flight[i], flight'[k])
                    /\ CurrentOn(flight[i].chat, i, k) /\ ComingOn(flight[i].chat, i, k)
    BY <1>1
  <1>3. flight[i].kind = "messages" /\ ~flight[i].late /\ flight'[k].data = flight[i].data
        /\ flight'[k].chat = flight[i].chat
    BY <1>1, <1>2 DEF Fresh, Later
  <1>4. Faithful(i)
    BY <1>1, <1>3 DEF SyncInv, AnswersFaithful, Fresh
  <1>5. Known(marks', flight', flight[i].data, k)
    BY <1>2, <1>3, <1>4, AnswerHome, KnownOn DEF Faithful
  <1>6. Due(marks', home', purged', flight', flight[i].data, flight[i].chat, k)
    BY <1>2, <1>3, <1>4, DueOn DEF Faithful
  <1>7. QED
    BY <1>1, <1>3, <1>5, <1>6 DEF Faithful

\* The messages on the screen of an open chat that is not being loaded are its own.
LEMMA ScreenHome ==
    ASSUME ChatViewAssumption, ViewInv, Spins, NEW c \in Chats, Quiet(c), ~page.blurred
    PROVE  /\ page.owner = c /\ c = page.active
           /\ \A m \in DOMAIN page.shown : m \in Messages /\ home[m] = c
  <1>1. None \notin Chats /\ c = page.active /\ ~Loading(c)
    BY ChatViewAssumption DEF ChatViewAssumption, Quiet
  <1>2. ~page.loading
    BY <1>1 DEF Spins
  <1>3. page.owner = c
    BY <1>1, <1>2 DEF ViewInv, Owned
  <1>4. page.shown \in Lists
    BY DEF ViewInv, Typed, ClientTyped, Page
  <1>5. QED
    BY <1>1, <1>3, <1>4, ListMembers DEF ViewInv, ScreenTrue

\* The chat has no messages on the server.
Bare(c) == \A m \in Messages : home[m] = c => m \in purged

\* What is on the screen stays as good, when the step leaves it there.
LEMMA ScreenStays ==
    ASSUME ChatViewAssumption, ViewInv, SyncInv, HomeStays, page'.shown = page.shown,
           NEW c \in Chats, Quiet(c), ~page.blurred, CurrentOn(c, 0, 0)
    PROVE  /\ Known(marks', flight', page'.shown, 0)
           /\ Settled(c) /\ ComingOn(c, 0, 0) =>
                 Due(marks', home', purged', flight', page'.shown, c, 0)
  <1>0. None \notin Chats
    BY ChatViewAssumption DEF ChatViewAssumption
  <1>1. page.shown \in Lists /\ \A m \in DOMAIN page.shown : m \in Messages /\ home[m] = c
    BY ScreenHome DEF SyncInv, ViewInv, Typed, ClientTyped, Page
  <1>2. \A m \in DOMAIN page.shown : home'[m] = c
    BY <1>0, <1>1 DEF HomeStays
  <1>3. Known(marks, flight, page.shown, 0)
    BY DEF SyncInv, ScreenKnown
  <1>4. Known(marks', flight', page.shown, 0)
    BY <1>1, <1>2, <1>3, KnownOn
  <1>5. ASSUME Settled(c), ComingOn(c, 0, 0)
        PROVE  Due(marks', home', purged', flight', page.shown, c, 0)
    <2>1. Due(marks, home, purged, flight, page.shown, c, 0)
      BY <1>5 DEF SyncInv, ScreenDue
    <2>2. QED
      BY <1>5, <2>1, DueOn
  <1>6. QED
    BY <1>4, <1>5

----------------------------------------------------------------------------
(* Items that are taken, and items that change in place.                   *)

\* What is left when an item is taken.
LEMMA TakenRemoved ==
    ASSUME ChatViewAssumption, flight \in Seq(Items), NEW t \in DOMAIN flight
    PROVE  Taken(t) \in Seq(Items) /\ Removed(flight, Taken(t), t)
  <1> DEFINE F == Overtaken(flight[t], t)
  <1>1. /\ F \in Seq(Items) /\ Len(F) = Len(flight) /\ DOMAIN F = DOMAIN flight
        /\ \A j \in DOMAIN flight : Aged(flight[j], F[j])
    BY OvertakenAges
  <1>2. \A j \in DOMAIN flight : j < t /\ Overtakes(flight[t], flight[j]) => F[j].late
    <2>1. SUFFICES ASSUME NEW j \in DOMAIN flight, j < t, Overtakes(flight[t], flight[j])
                   PROVE  F[j].late
      OBVIOUS
    <2>2. F[j] = [flight[j] EXCEPT !.late = TRUE]
      BY <2>1 DEF Overtaken
    <2>3. flight[j] \in Items /\ flight[j].late \in BOOLEAN
      BY ElementOfSeq, LenProperties, ItemFields
    <2>4. QED
      BY <2>2, <2>3, AgedLate
  <1> HIDE DEF F
  <1>3. /\ Without(F, t) \in Seq(Items) /\ Len(Without(F, t)) = Len(F) - 1
        /\ \A k \in DOMAIN Without(F, t) :
              Without(F, t)[k] = F[IF k < t THEN k ELSE k + 1]
    BY <1>1, WithoutItem
  <1>4. Taken(t) = Without(F, t)
    BY DEF Taken, F
  <1>5. Len(flight) \in Nat /\ DOMAIN flight = 1..Len(flight)
        /\ DOMAIN Taken(t) = 1..(Len(flight) - 1)
    BY <1>1, <1>3, <1>4, LenProperties
  <1>6. ASSUME NEW j \in DOMAIN flight \ {t}
        PROVE  /\ Place(t, j) \in DOMAIN Taken(t) /\ Taken(t)[Place(t, j)] = F[j]
               /\ Stays(flight[j], F[j])
    <2>1. /\ Place(t, j) \in DOMAIN Taken(t)
          /\ (IF Place(t, j) < t THEN Place(t, j) ELSE Place(t, j) + 1) = j
      BY <1>5 DEF Place
    <2>2. Taken(t)[Place(t, j)] = F[j]
      BY <1>3, <1>4, <2>1
    <2>3. flight[j] \in Items
      BY ElementOfSeq, LenProperties
    <2>4. QED
      BY <1>1, <2>1, <2>2, <2>3, AgedStays
  <1>7. ASSUME NEW k \in DOMAIN Taken(t)
        PROVE  \E j \in DOMAIN flight \ {t} : k = Place(t, j)
    <2>1. CASE k < t
      <3>1. k \in DOMAIN flight \ {t} /\ k = Place(t, k)
        BY <1>5, <2>1 DEF Place
      <3>2. QED
        BY <3>1
    <2>2. CASE ~(k < t)
      <3>1. k + 1 \in DOMAIN flight \ {t} /\ k = Place(t, k + 1)
        BY <1>5, <2>2 DEF Place
      <3>2. QED
        BY <3>1
    <2>3. QED
      BY <2>1, <2>2
  <1>8. QED
    BY <1>2, <1>3, <1>4, <1>6, <1>7 DEF Removed

\* What will set a mark or bring a message is of the chat of the message.
LEMMA OfItsChat ==
    ASSUME ChatViewAssumption, ViewInv, SyncInv, NEW j \in DOMAIN flight, NEW m \in Messages
    PROVE  /\ LiveNew(flight[j], m) => home[m] = flight[j].chat
           /\ \A k \in Marks : Marking(flight[j], m, k) => home[m] = flight[j].chat
  <1>1. LiveNew(flight[j], m) => home[m] = flight[j].chat
    BY DEF ViewInv, FlightTrue, ItemTrue, LiveNew, IsNew
  <1>2. QED
    BY <1>1 DEF SyncInv, MarksFit, Fits

\* When an item is taken, what is current and what is coming of a message that it is not about,
\* or that was not counting on it, still is.
LEMMA OneTaken ==
    ASSUME ChatViewAssumption, ViewInv, SyncInv, NEW t \in DOMAIN flight, flight' = Taken(t),
           marks' = marks, NEW m \in Messages, NEW i \in Nat
    PROVE  LET k == IF i < t THEN i ELSE i - 1
           IN  /\ \A x : /\ i >= t \/ \A l \in marks[m] \ x : ~Marking(flight[t], m, l)
                         /\ Current(marks, flight, x, m, i)
                         => Current(marks', flight', x, m, k)
               /\ i >= t \/ ~LiveNew(flight[t], m)
                     => (Coming(marks, flight, m, i) => Coming(marks', flight', m, k))
  <1>1. flight \in Seq(Items) /\ flight' \in Seq(Items) /\ marks[m] \subseteq Marks
    BY TakenRemoved DEF ViewInv, Typed, ServerTyped
  <1>2. Removed(flight, flight', t) /\ t \in Nat
    BY <1>1, TakenRemoved, LenProperties
  <1>3. ASSUME NEW x, Current(marks, flight, x, m, i),
               i >= t \/ \A l \in marks[m] \ x : ~Marking(flight[t], m, l)
        PROVE  Current(marks', flight', x, m, IF i < t THEN i ELSE i - 1)
    <2>1. /\ i < t => Current(marks, flight', x, m, i)
          /\ i >= t => Current(marks, flight', x, m, i - 1)
      BY <1>1, <1>2, <1>3, CurrentTaken
    <2>2. QED
      BY <1>2, <2>1
  <1>4. ASSUME Coming(marks, flight, m, i), i >= t \/ ~LiveNew(flight[t], m)
        PROVE  Coming(marks', flight', m, IF i < t THEN i ELSE i - 1)
    <2>1. ASSUME NEW j \in DOMAIN flight, j < t, LiveNew(flight[j], m),
                 NEW l \in Marks, Marking(flight[t], m, l)
          PROVE  Overtakes(flight[t], flight[j])
      <3>1. flight[j].chat = flight[t].chat
        BY <2>1, OfItsChat
      <3>2. flight[j].msg = m /\ flight[t].msg = m /\ m # None
        BY <2>1, ChatViewAssumption DEF LiveNew, Marking, ChatViewAssumption
      <3>3. QED
        BY <3>1, <3>2 DEF Overtakes
    <2>2. /\ i < t => Coming(marks, flight', m, i)
          /\ i >= t => Coming(marks, flight', m, i - 1)
      BY <1>1, <1>2, <1>4, <2>1, ComingTaken
    <2>3. QED
      BY <1>2, <2>2
  <1>5. QED
    BY <1>3, <1>4

\* x marks a message of chat c, or brings one.
Sets(x, c) == x.chat = c /\ \E m \in Messages, k \in Marks : Marking(x, m, k)
Brings(x, c) == x.chat = c /\ \E m \in Messages : LiveNew(x, m)

\* The same for all messages of a chat.
LEMMA TakenOn ==
    ASSUME ChatViewAssumption, ViewInv, SyncInv, NEW t \in DOMAIN flight, flight' = Taken(t),
           UNCHANGED server, NEW c \in Chats, NEW i \in Nat
    PROVE  LET k == IF i < t THEN i ELSE i - 1
           IN  /\ i >= t \/ ~Sets(flight[t], c) => CurrentOn(c, i, k)
               /\ i >= t \/ ~Brings(flight[t], c) => ComingOn(c, i, k)
  <1> DEFINE k == IF i < t THEN i ELSE i - 1
  <1>1. marks' = marks /\ home' = home /\ purged' = purged
    BY DEF server
  <1>2. ASSUME i >= t \/ ~Sets(flight[t], c), NEW m \in Messages, home[m] = c
        PROVE  \A x \in Faces :
                  Current(marks, flight, x, m, i) => Current(marks', flight', x, m, k)
    <2>1. i >= t \/ \A l \in Marks : ~Marking(flight[t], m, l)
      BY <1>2, OfItsChat DEF Sets
    <2>2. marks[m] \subseteq Marks
      BY DEF ViewInv, Typed, ServerTyped
    <2>3. QED
      BY <1>1, <2>1, <2>2, OneTaken
  <1>3. ASSUME i >= t \/ ~Brings(flight[t], c), NEW m \in Messages, home[m] = c
        PROVE  Coming(marks, flight, m, i) => Coming(marks', flight', m, k)
    <2>1. i >= t \/ ~LiveNew(flight[t], m)
      BY <1>3, OfItsChat DEF Brings
    <2>2. QED
      BY <1>1, <2>1, OneTaken
  <1> HIDE DEF k
  <1>4. i >= t \/ ~Sets(flight[t], c) => CurrentOn(c, i, k)
    BY <1>1, <1>2 DEF CurrentOn
  <1>5. i >= t \/ ~Brings(flight[t], c) => ComingOn(c, i, k)
    BY <1>1, <1>3 DEF ComingOn
  <1>6. QED
    BY <1>4, <1>5 DEF k

\* What is left, place by place: the items before t that matter to the same chat are late.
LEMMA LeftAt ==
    ASSUME ChatViewAssumption, ViewInv, NEW t \in DOMAIN flight, flight' = Taken(t),
           NEW k \in DOMAIN flight'
    PROVE  \E j \in DOMAIN flight \ {t} :
              /\ k = Place(t, j) /\ Stays(flight[j], flight'[k])
              /\ j < t /\ Overtakes(flight[t], flight[j]) => flight'[k].late
  <1>1. Removed(flight, flight', t)
    BY TakenRemoved DEF ViewInv, Typed
  <1>2. PICK j \in DOMAIN flight \ {t} : k = Place(t, j)
    BY <1>1 DEF Removed
  <1>3. QED
    BY <1>1, <1>2 DEF Removed

\* When an item is taken, what is under way is as good as before.
LEMMA TakenSync ==
    ASSUME ChatViewAssumption, ViewInv, SyncInv, NEW t \in DOMAIN flight, flight' = Taken(t),
           UNCHANGED server, line' = line
    PROVE  MarksFit' /\ AnswersFaithful' /\ AnswersFirst'
  <1>0. /\ marks' = marks /\ home' = home /\ purged' = purged /\ doing' = doing
        /\ DOMAIN flight = 1..Len(flight) /\ Len(flight) \in Nat
        /\ \A j \in DOMAIN flight : flight[j] \in Items
    BY ElementOfSeq, LenProperties DEF server, ViewInv, Typed
  <1>1. MarksFit'
    <2>1. ASSUME NEW k \in DOMAIN flight'
          PROVE  Fits(marks', home', flight'[k])
      <3>1. PICK j \in DOMAIN flight : Stays(flight[j], flight'[k])
        BY LeftAt
      <3>2. Fits(marks, home, flight[j])
        BY DEF SyncInv, MarksFit
      <3>3. QED
        BY <1>0, <3>1, <3>2 DEF Fits, Stays, Later
    <2>2. QED
      BY <2>1 DEF MarksFit
  <1>2. AnswersFaithful'
    <2>1. HomeStays
      BY <1>0 DEF HomeStays
    <2>2. ASSUME NEW k \in DOMAIN flight', Fresh(k)'
          PROVE  \E i \in DOMAIN flight :
                    /\ Later(flight[i], flight'[k])
                    /\ CurrentOn(flight[i].chat, i, k) /\ ComingOn(flight[i].chat, i, k)
      <3>1. PICK j \in DOMAIN flight \ {t} :
              /\ k = Place(t, j) /\ Stays(flight[j], flight'[k])
              /\ j < t /\ Overtakes(flight[t], flight[j]) => flight'[k].late
        BY LeftAt
      <3>2. flight[j].kind = "messages" /\ ~flight'[k].late /\ Later(flight[j], flight'[k])
        BY <2>2, <3>1 DEF Fresh, Stays, Later
      <3>3. j \in Nat /\ flight[j].chat \in Chats
        BY <1>0, ItemFields
      <3>4. j >= t \/ (~Sets(flight[t], flight[j].chat) /\ ~Brings(flight[t], flight[j].chat))
        <4>1. SUFFICES ASSUME j < t, flight[t].chat = flight[j].chat
                       PROVE  /\ \A m \in Messages, l \in Marks : ~Marking(flight[t], m, l)
                              /\ \A m \in Messages : ~LiveNew(flight[t], m)
          BY <1>0 DEF Sets, Brings
        <4>2. flight[t].kind = "changed"
          BY <3>1, <3>2, <4>1 DEF Overtakes
        <4>3. \A m \in Messages : ~LiveNew(flight[t], m)
          BY <4>2 DEF LiveNew
        <4>4. "changed" \notin Marks
          BY ChatViewAssumption DEF ChatViewAssumption
        <4>5. QED
          BY <4>2, <4>3, <4>4 DEF Marking
      <3>5. k = IF j < t THEN j ELSE j - 1
        BY <3>1 DEF Place
      <3>6. CurrentOn(flight[j].chat, j, k) /\ ComingOn(flight[j].chat, j, k)
        BY <3>3, <3>4, <3>5, TakenOn
      <3>7. QED
        BY <3>2, <3>6
    <2>3. QED
      BY <2>1, <2>2, AnswersStay
  <1>3. AnswersFirst'
    <2>1. SUFFICES ASSUME line = "up", NEW i \in DOMAIN flight', NEW k \in DOMAIN flight',
                          i < k, Fresh(i)', Emptying(k)', flight'[i].chat = flight'[k].chat
                   PROVE  ByOthers(flight'[i].chat)
      BY <1>0 DEF AnswersFirst, ByOthers
    <2>2. PICK j \in DOMAIN flight \ {t} : i = Place(t, j) /\ Stays(flight[j], flight'[i])
      BY LeftAt
    <2>3. PICK l \in DOMAIN flight \ {t} : k = Place(t, l) /\ Stays(flight[l], flight'[k])
      BY LeftAt
    <2>4. j < l
      BY <1>0, <2>1, <2>2, <2>3 DEF Place
    <2>5. Fresh(j) /\ flight[j].chat = flight'[i].chat
      BY <2>1, <2>2 DEF Fresh, Stays, Later
    <2>6. Emptying(l) /\ flight[l].chat = flight'[k].chat
      BY <2>1, <2>3 DEF Emptying, Stays, Later
    <2>7. QED
      BY <2>1, <2>4, <2>5, <2>6 DEF SyncInv, AnswersFirst
  <1>4. QED
    BY <1>1, <1>2, <1>3

\* And so is what empties a list, unless the chat was settled by the answer that is taken.
LEMMA TakenWipes ==
    ASSUME ChatViewAssumption, ViewInv, SyncInv, NEW t \in DOMAIN flight, flight' = Taken(t),
           UNCHANGED server, line' = line,
           \A c \in Chats : Settled(c)' => Settled(c) \/ (Fresh(t) /\ flight[t].chat = c)
    PROVE  WipesFaithful'
  <1>0. /\ marks' = marks /\ home' = home /\ purged' = purged /\ doing' = doing
        /\ DOMAIN flight = 1..Len(flight) /\ Len(flight) \in Nat
        /\ \A j \in DOMAIN flight : flight[j] \in Items
    BY ElementOfSeq, LenProperties DEF server, ViewInv, Typed
  <1>1. SUFFICES ASSUME NEW c \in Chats, Settled(c)', NEW k \in DOMAIN flight', Emptying(k)',
                        flight'[k].chat = c
                 PROVE  Due(marks', home', purged', flight', Empty, c, k)
    BY DEF WipesFaithful
  <1>2. PICK j \in DOMAIN flight \ {t} :
              /\ k = Place(t, j) /\ Stays(flight[j], flight'[k])
              /\ j < t /\ Overtakes(flight[t], flight[j]) => flight'[k].late
    BY LeftAt
  <1>3. Emptying(j) /\ flight[j].chat = c /\ ~flight'[k].late /\ j \in Nat
    BY <1>0, <1>1, <1>2 DEF Emptying, Stays, Later
  <1>4. CASE Settled(c)
    <2>1. Due(marks, home, purged, flight, Empty, c, j)
      BY <1>3, <1>4 DEF SyncInv, WipesFaithful
    <2>2. j >= t \/ ~Brings(flight[t], c)
      BY <1>0, <1>2, <1>3 DEF Brings, LiveNew, IsNew, Overtakes, Emptying, Wipes
    <2>3. k = IF j < t THEN j ELSE j - 1
      BY <1>2 DEF Place
    <2>4. ComingOn(c, j, k)
      BY <1>3, <2>2, <2>3, TakenOn
    <2>5. QED
      BY <2>1, <2>4, DueOn
  <1>5. CASE Fresh(t) /\ flight[t].chat = c
    <2>1. ~(j < t)
      BY <1>2, <1>3, <1>5 DEF Overtakes, Fresh, Emptying, Wipes
    <2>2. t < j /\ line = "up" /\ ~ByOthers(c)
      BY <1>0, <1>1, <1>2, <2>1 DEF Settled, Quiet, ByOthers
    <2>3. QED
      BY <1>3, <1>5, <2>2 DEF SyncInv, AnswersFirst
  <1>6. QED
    BY <1>1, <1>4, <1>5

\* When an item is taken that leaves the page alone, the screen stays as good.
LEMMA TakenScreen ==
    ASSUME ChatViewAssumption, ViewInv, SyncInv, NEW t \in DOMAIN flight, flight' = Taken(t),
           UNCHANGED server, page'.shown = page.shown,
           NEW c \in Chats, Quiet(c), ~page.blurred
    PROVE  /\ ~Sets(flight[t], c) => Known(marks', flight', page'.shown, 0)
           /\ ~Sets(flight[t], c) /\ ~Brings(flight[t], c) /\ Settled(c) =>
                 Due(marks', home', purged', flight', page'.shown, c, 0)
  <1>1. t \in Nat /\ t >= 1
    BY LenProperties DEF ViewInv, Typed
  <1>2. HomeStays
    BY DEF HomeStays, server
  <1>3. ~Sets(flight[t], c) => CurrentOn(c, 0, 0)
    BY <1>1, TakenOn
  <1>4. ~Brings(flight[t], c) => ComingOn(c, 0, 0)
    BY <1>1, TakenOn
  <1>5. QED
    BY <1>2, <1>3, <1>4, ScreenStays

\* Whatever is taken, what is being loaded still is, but for the answer that is taken.
LEMMA TakenLoading ==
    ASSUME ChatViewAssumption, ViewInv, NEW t \in DOMAIN flight, flight' = Taken(t),
           \A y \in Chats \X BOOLEAN : asked[y] > 0 => asked'[y] > 0,
           NEW c \in Chats, Loading(c), ~(flight[t].kind = "messages" /\ flight[t].chat = c)
    PROVE  Loading(c)'
  <1>1. CASE \E served \in BOOLEAN : asked[<<c, served>>] > 0
    <2>1. PICK served \in BOOLEAN : asked[<<c, served>>] > 0
      BY <1>1
    <2>2. asked'[<<c, served>>] > 0
      BY <2>1
    <2>3. QED
      BY <2>2 DEF Loading
  <1>2. CASE \E i \in DOMAIN flight : flight[i].kind = "messages" /\ flight[i].chat = c
    <2>1. PICK i \in DOMAIN flight \ {t} : flight[i].kind = "messages" /\ flight[i].chat = c
      BY <1>2
    <2>2. PICK k \in DOMAIN Taken(t) : Aged(flight[i], Taken(t)[k])
      BY TakenItems DEF ViewInv, Typed
    <2>3. flight'[k].kind = "messages" /\ flight'[k].chat = c /\ k \in DOMAIN flight'
      BY <2>1, <2>2 DEF Aged
    <2>4. QED
      BY <2>3 DEF Loading
  <1>3. QED
    BY <1>1, <1>2 DEF Loading

\* The page has the chat open that it had, or none, with no less doubt.
SameOpen == page'.active \in {page.active, None} /\ page.doubted \subseteq page'.doubted

\* A chat that is quiet after such a step was quiet before.
LEMMA QuietBefore ==
    ASSUME ChatViewAssumption, line' = line, SameOpen, alive' \subseteq alive,
           NEW c \in Chats, Quiet(c)', Loading(c) => Loading(c)'
    PROVE  Quiet(c) /\ page'.active = page.active
  <1>1. c # None
    BY ChatViewAssumption DEF ChatViewAssumption
  <1>2. QED
    BY <1>1 DEF Quiet, SameOpen

\* When something else than an answer is taken, all is as before, but for the screen.
LEMMA TakenPage ==
    ASSUME ChatViewAssumption, ViewInv, SyncInv, NEW t \in DOMAIN flight, flight' = Taken(t),
           UNCHANGED server, line' = line, flight[t].kind # "messages", SameOpen,
           \A y \in Chats \X BOOLEAN : asked[y] > 0 => asked'[y] > 0,
           page'.active \in Chats \cup {None},
           page'.loading => page.loading \/ Loading(page.active)'
    PROVE  /\ MarksFit' /\ AnswersFaithful' /\ WipesFaithful' /\ AnswersFirst' /\ Spins'
           /\ \A c \in Chats : /\ Quiet(c)' => Quiet(c) /\ page'.active = page.active
                               /\ Settled(c)' => Settled(c)
  <1>1. \A c \in Chats : Loading(c) => Loading(c)'
    BY TakenLoading
  <1>2. alive' = alive /\ doing' = doing
    BY DEF server
  <1>3. \A c \in Chats : Quiet(c)' => Quiet(c) /\ page'.active = page.active
    BY <1>1, <1>2, QuietBefore
  <1>4. \A c \in Chats : Settled(c)' => Settled(c)
    BY <1>2, <1>3 DEF Settled, ByOthers
  <1>5. MarksFit' /\ AnswersFaithful' /\ AnswersFirst'
    BY TakenSync
  <1>6. WipesFaithful'
    BY <1>4, TakenWipes
  <1>7. Spins'
    <2>1. SUFFICES ASSUME page'.active # None, page'.loading, ~Loading(page.active)'
                   PROVE  FALSE
      BY DEF Spins
    <2>2. page'.active = page.active /\ page.loading /\ page.active \in Chats
      BY <2>1 DEF SameOpen
    <2>3. Loading(page.active)
      BY <2>1, <2>2 DEF SyncInv, Spins
    <2>4. QED
      BY <1>1, <2>1, <2>2, <2>3
  <1>8. QED
    BY <1>3, <1>4, <1>5, <1>6, <1>7

\* What is on the screen, when the chat is still quiet.
ScreenOK(c) ==
    /\ Quiet(c)' => Known(marks', flight', page'.shown, 0)
    /\ Settled(c)' => Due(marks', home', purged', flight', page'.shown, c, 0)

\* The parts together.
LEMMA SyncTogether ==
    ASSUME MarksFit', AnswersFaithful', WipesFaithful', AnswersFirst', Spins',
           \A c \in Chats : Quiet(c)' /\ ~page'.blurred => ScreenOK(c)
    PROVE  SyncInv'
  BY DEF SyncInv, ScreenKnown, ScreenDue, ScreenOK, Settled

\* A new message on the page: what becomes of the screen.
LEMMA ApplyNewScreen ==
    ASSUME ChatViewAssumption, ViewInv, NEW i \in DOMAIN flight, ApplyNew(i)
    PROVE  LET x == flight[i]
           IN  /\ page'.active = page.active /\ page'.loading = page.loading
               /\ page.doubted \subseteq page'.doubted
               /\ ~page'.blurred => ~page.blurred
               /\ x.live /\ ~page'.blurred =>
                     ~x.late /\ ~Doing(x.chat) /\ "sealed" \notin x.marks /\ page.owner = x.chat
               /\ x.live /\ x.msg \notin DOMAIN page.shown =>
                     page'.shown = With(page.shown, x.msg, x.marks)
               /\ ~x.live \/ x.msg \in DOMAIN page.shown => page'.shown = page.shown
  <1>1. PICK x : x = flight[i]
    OBVIOUS
  <1> DEFINE known == x.chat \in DOMAIN page.chats
  <1>2. PICK p : p = IF known /\ x.bump THEN Bump(page, x.chat) ELSE page
    OBVIOUS
  <1>3. PICK q : q = IF x.live /\ x.msg \notin DOMAIN p.shown
                     THEN Write(p, x.chat, With(p.shown, x.msg, x.marks)) ELSE p
    OBVIOUS
  <1>4. PICK b : b = (x.live /\ (x.late \/ Doing(x.chat) \/ "sealed" \in x.marks
                                 \/ ~OnTheRightList(page, x.chat)))
    OBVIOUS
  <1>5. x.kind = "openingNew" /\ page' = Doubt(q, x.chat, b)
    BY <1>1, <1>2, <1>3, <1>4 DEF ApplyNew, Bump
  <1>6. x \in Items /\ page \in Page
    BY <1>1, ElementOfSeq, LenProperties DEF ViewInv, Typed, ClientTyped
  <1>7. x.chat \in Chats /\ x.msg \in Messages /\ x.marks \in Faces /\ x.live \in BOOLEAN
    BY <1>5, <1>6, ItemFields DEF OpenItem
  <1>8. /\ p \in Page /\ p.shown = page.shown /\ p.blurred = page.blurred
        /\ p.doubted = page.doubted /\ p.active = page.active /\ p.loading = page.loading
    <2>1. CASE known /\ x.bump
      BY <1>2, <1>6, <1>7, <2>1, BumpPage
    <2>2. CASE ~(known /\ x.bump)
      BY <1>2, <1>6, <2>2
    <2>3. QED
      BY <2>1, <2>2
  <1> HIDE DEF known
  <1>9. /\ q \in Page /\ q.blurred = page.blurred /\ q.doubted = page.doubted
        /\ q.active = page.active /\ q.loading = page.loading
        /\ x.live /\ x.msg \notin DOMAIN page.shown =>
              q.shown = With(page.shown, x.msg, x.marks)
        /\ ~x.live \/ x.msg \in DOMAIN page.shown => q.shown = page.shown
    <2>1. CASE x.live /\ x.msg \notin DOMAIN p.shown
      <3>1. PICK L : L = With(p.shown, x.msg, x.marks)
        OBVIOUS
      <3>2. p.shown \in Lists
        BY <1>8 DEF Page
      <3>3. L \in Lists
        BY <1>7, <3>1, <3>2, AddedMessage
      <3>4. q = Write(p, x.chat, L)
        BY <1>3, <2>1, <3>1
      <3>5. /\ q \in Page /\ q.shown = L /\ q.blurred = p.blurred /\ q.doubted = p.doubted
            /\ q.active = p.active /\ q.loading = p.loading
        BY <1>7, <1>8, <3>3, <3>4, WritePage
      <3>6. QED
        BY <1>8, <2>1, <3>1, <3>5
    <2>2. CASE ~(x.live /\ x.msg \notin DOMAIN p.shown)
      BY <1>3, <1>8, <2>2
    <2>3. QED
      BY <2>1, <2>2
  <1>10. b \in BOOLEAN
    BY <1>4, <1>7
  <1>11. PICK r : r = Doubt(q, x.chat, b)
    OBVIOUS
  <1>12. /\ r.active = q.active /\ r.loading = q.loading /\ r.shown = q.shown
         /\ q.doubted \subseteq r.doubted /\ (b => r.blurred) /\ (~b => r = q)
    BY <1>7, <1>9, <1>10, <1>11, DoubtPage DEF Derived
  <1>13. page' = r
    BY <1>5, <1>11
  <1>14. ~r.blurred => r = q
    BY <1>10, <1>12
  <1>15. x.live /\ ~r.blurred =>
            ~x.late /\ ~Doing(x.chat) /\ "sealed" \notin x.marks /\ page.owner = x.chat
    BY <1>4, <1>12 DEF OnTheRightList
  <1>16. QED
    BY <1>1, <1>9, <1>12, <1>13, <1>14, <1>15

\* A new message that is put in the open list is current, or what is in doubt is the page.
LEMMA ApplyNewSync ==
    ASSUME ChatViewAssumption, ViewInv, SyncInv, NEW t \in DOMAIN flight, ApplyNew(t)
    PROVE  SyncInv'
  <1>1. PICK x : x = flight[t]
    OBVIOUS
  <1>2. /\ x.kind = "openingNew" /\ flight' = Taken(t)
        /\ UNCHANGED server /\ line' = line /\ asked' = asked
    BY <1>1 DEF ApplyNew
  <1>3. x \in Items /\ page.active \in Chats \cup {None} /\ page.shown \in Lists
    BY <1>1, ElementOfSeq, LenProperties DEF ViewInv, Typed, ClientTyped, Page
  <1>4. /\ x.chat \in Chats /\ x.msg \in Messages /\ x.marks \in Faces /\ x.live \in BOOLEAN
        /\ home[x.msg] = x.chat /\ (~x.late => x.msg \notin purged)
        /\ \A m \in Messages, k \in Marks : ~Marking(x, m, k)
        /\ \A m \in Messages : LiveNew(x, m) <=> (x.live /\ m = x.msg)
    <2>1. "openingNew" \notin Marks
      BY ChatViewAssumption DEF ChatViewAssumption
    <2>2. x \in OpenItem /\ ItemTrue(x, home, purged)
      BY <1>1, <1>2, <1>3, ItemFields DEF ViewInv, FlightTrue
    <2>3. QED
      BY <1>2, <2>1, <2>2 DEF OpenItem, ItemTrue, IsNew, Marking, LiveNew
  <1>5. /\ page'.active = page.active /\ page'.loading = page.loading
        /\ page.doubted \subseteq page'.doubted
        /\ ~page'.blurred => ~page.blurred
        /\ x.live /\ ~page'.blurred =>
              ~x.late /\ ~Doing(x.chat) /\ "sealed" \notin x.marks /\ page.owner = x.chat
        /\ x.live /\ x.msg \notin DOMAIN page.shown =>
              page'.shown = With(page.shown, x.msg, x.marks)
        /\ ~x.live \/ x.msg \in DOMAIN page.shown => page'.shown = page.shown
    BY <1>1, ApplyNewScreen
  <1>6. /\ MarksFit' /\ AnswersFaithful' /\ WipesFaithful' /\ AnswersFirst' /\ Spins'
        /\ \A c \in Chats : /\ Quiet(c)' => Quiet(c)
                            /\ Settled(c)' => Settled(c)
    BY <1>1, <1>2, <1>3, <1>5, TakenPage DEF SameOpen
  <1>7. marks' = marks /\ home' = home /\ purged' = purged /\ doing' = doing
    BY <1>2 DEF server
  <1>8. ASSUME NEW c \in Chats, Quiet(c)', ~page'.blurred
        PROVE  ScreenOK(c)
    <2>1. Quiet(c) /\ ~page.blurred /\ (Settled(c)' => Settled(c))
      BY <1>5, <1>6, <1>8
    <2>2. /\ page.owner = c
          /\ \A m \in DOMAIN page.shown : m \in Messages /\ home[m] = c
      BY <2>1, ScreenHome DEF SyncInv
    <2>3. ~Sets(x, c)
      BY <1>4 DEF Sets
    <2>4. CASE ~x.live
      <3>1. ~Brings(x, c) /\ page'.shown = page.shown
        BY <1>4, <1>5, <2>4 DEF Brings
      <3>2. QED
        BY <1>1, <1>2, <2>1, <2>3, <3>1, TakenScreen DEF ScreenOK
    <2>5. CASE x.live
      <3>1. x.chat = c /\ ~x.late /\ ~Doing(c) /\ "sealed" \notin x.marks
        BY <1>5, <1>8, <2>2, <2>5
      <3>2. Settled(c)
        BY <2>1, <3>1 DEF Settled, ByOthers, Doing
      <3>3. Known(marks, flight, page.shown, 0)
            /\ Due(marks, home, purged, flight, page.shown, c, 0)
        BY <2>1, <3>2 DEF SyncInv, ScreenKnown, ScreenDue
      <3>4. t \in Nat /\ t >= 1
        BY LenProperties DEF ViewInv, Typed
      <3>5. ASSUME NEW m \in DOMAIN page.shown
            PROVE  Current(marks', flight', page.shown[m], m, 0)
        <4>1. Current(marks, flight, page.shown[m], m, 0) /\ m \in Messages
          BY <2>2, <3>3, <3>5 DEF Known
        <4>2. \A l \in marks[m] \ page.shown[m] : ~Marking(flight[t], m, l)
          BY <1>1, <1>4, <4>1 DEF ViewInv, Typed, ServerTyped
        <4>3. QED
          BY <1>1, <1>2, <1>7, <3>4, <4>1, <4>2, OneTaken
      <3>6. ASSUME NEW m \in Messages \ DOMAIN page.shown, home[m] = c, m \notin purged,
                   m # x.msg
            PROVE  Coming(marks', flight', m, 0)
        <4>1. Coming(marks, flight, m, 0)
          BY <3>3, <3>6 DEF Due
        <4>2. ~LiveNew(flight[t], m)
          BY <1>1, <1>4, <3>6
        <4>3. QED
          BY <1>2, <1>7, <3>4, <4>1, <4>2, OneTaken
      <3>7. CASE x.msg \in DOMAIN page.shown
        <4>1. page'.shown = page.shown
          BY <1>5, <3>7
        <4>2. Known(marks', flight', page'.shown, 0)
          BY <3>5, <4>1 DEF Known
        <4>3. Due(marks', home', purged', flight', page'.shown, c, 0)
          BY <1>7, <3>6, <3>7, <4>1 DEF Due
        <4>4. QED
          BY <4>2, <4>3 DEF ScreenOK
      <3>8. CASE x.msg \notin DOMAIN page.shown
        <4>1. page'.shown = With(page.shown, x.msg, x.marks)
          BY <1>5, <2>5, <3>8
        <4>2. PICK n : n = x.msg
          OBVIOUS
        <4>3. /\ DOMAIN page'.shown = DOMAIN page.shown \cup {n}
              /\ page'.shown[n] = x.marks
              /\ \A m \in DOMAIN page.shown : page'.shown[m] = page.shown[m]
          BY <3>8, <4>1, <4>2 DEF With
        <4>4. Coming(marks, flight, n, 0)
          BY <1>4, <3>1, <3>3, <3>8, <4>2 DEF Due
        <4>5. Current(marks, flight, x.marks, n, t)
          BY <1>1, <1>4, <2>5, <3>1, <3>4, <4>2, <4>4 DEF Coming, Spoilt
        <4>6. Current(marks', flight', x.marks, n, t - 1)
          BY <1>2, <1>4, <1>7, <3>4, <4>2, <4>5, OneTaken
        <4>7. Current(marks', flight', x.marks, n, 0)
          <5>1. flight' \in Seq(Items)
            BY <1>2, TakenRemoved DEF ViewInv, Typed
          <5>2. t - 1 \in Nat /\ 0 \in Nat /\ 0 <= t - 1
            BY <3>4
          <5>3. QED
            BY <4>6, <5>1, <5>2, CurrentBefore
        <4>8. Known(marks', flight', page'.shown, 0)
          BY <3>5, <4>3, <4>7 DEF Known
        <4>9. Due(marks', home', purged', flight', page'.shown, c, 0)
          BY <1>7, <3>6, <4>2, <4>3 DEF Due
        <4>10. QED
          BY <4>8, <4>9 DEF ScreenOK
      <3>9. QED
        BY <3>7, <3>8
    <2>6. QED
      BY <1>4, <2>4, <2>5
  <1>9. QED
    BY <1>6, <1>8, SyncTogether

\* A mark on the page: what becomes of the screen.
LEMMA MarkedScreen ==
    ASSUME ChatViewAssumption, NEW p \in Page, NEW c \in Chats, NEW m \in Messages,
           NEW mark \in Marks, NEW sealed \in Faces, NEW b \in BOOLEAN,
           NEW r, r = Doubt(MarkShown(p, c, m, mark, sealed), c, b)
    PROVE  /\ r.active = p.active /\ r.loading = p.loading /\ p.doubted \subseteq r.doubted
           /\ ~r.blurred => ~p.blurred /\ ~b
           /\ DOMAIN r.shown = DOMAIN p.shown
           /\ \A n \in DOMAIN p.shown : n # m => r.shown[n] = p.shown[n]
           /\ m \in DOMAIN p.shown =>
                 r.shown[m] = (p.shown[m] \ (IF mark = "edited" THEN {"sealed"} ELSE {}))
                              \cup {mark} \cup sealed
  <1>1. PICK f : f = ((IF m \in DOMAIN p.shown THEN p.shown[m] ELSE {})
                      \ (IF mark = "edited" THEN {"sealed"} ELSE {}))
                     \cup {mark} \cup sealed
    OBVIOUS
  <1>2. PICK L : L = Patch(p.shown, m, f)
    OBVIOUS
  <1>3. PICK q : q = Write(p, c, L)
    OBVIOUS
  <1>4. r = Doubt(q, c, b)
    BY <1>1, <1>2, <1>3, Zenon DEF MarkShown
  <1>5. p.shown \in Lists
    BY DEF Page
  <1>6. f \in Faces
    <2>1. (IF m \in DOMAIN p.shown THEN p.shown[m] ELSE {}) \in Faces
      BY <1>5, ListMembers DEF Faces
    <2>2. QED
      BY <1>1, <2>1 DEF Faces
  <1>7. /\ DOMAIN L = DOMAIN p.shown /\ (m \in DOMAIN L => L[m] = f)
        /\ \A n \in DOMAIN p.shown : n # m => L[n] = p.shown[n]
    BY <1>2 DEF Patch, With
  <1>8. L \in Lists
    BY <1>2, <1>5, <1>6, ListChanges
  <1>9. /\ q \in Page /\ q.shown = L /\ q.active = p.active /\ q.loading = p.loading
        /\ q.doubted = p.doubted /\ q.blurred = p.blurred
    BY <1>3, <1>8, WritePage
  <1>10. /\ r.active = q.active /\ r.loading = q.loading /\ r.shown = q.shown
         /\ q.doubted \subseteq r.doubted /\ (b => r.blurred) /\ (~b => r = q)
    BY <1>4, <1>9, DoubtPage DEF Derived
  <1>11. QED
    BY <1>1, <1>7, <1>9, <1>10

\* A mark that is handled is on the screen, or what is in doubt is the page.
LEMMA MarkedSync ==
    ASSUME ChatViewAssumption, ViewInv, SyncInv, NEW t \in DOMAIN flight, flight' = Taken(t),
           UNCHANGED server, line' = line, asked' = asked,
           NEW d \in Chats, d = flight[t].chat, NEW n \in Messages, NEW mark \in Marks,
           NEW sealed \in Faces, NEW b \in BOOLEAN,
           sealed # {} => b, b \/ OnTheRightList(page, d),
           \A m \in Messages, k \in Marks : Marking(flight[t], m, k) <=> m = n /\ k = mark,
           \A m \in Messages : ~LiveNew(flight[t], m), flight[t].kind # "messages",
           page' = Doubt(MarkShown(page, d, n, mark, sealed), d, b)
    PROVE  SyncInv'
  <1>1. page \in Page /\ page.active \in Chats \cup {None} /\ page.shown \in Lists
    BY DEF ViewInv, Typed, ClientTyped, Page
  <1>2. PICK r : r = Doubt(MarkShown(page, d, n, mark, sealed), d, b)
    OBVIOUS
  <1>3. /\ r.active = page.active /\ r.loading = page.loading
        /\ page.doubted \subseteq r.doubted
        /\ ~r.blurred => ~page.blurred /\ ~b
        /\ DOMAIN r.shown = DOMAIN page.shown
        /\ \A m \in DOMAIN page.shown : m # n => r.shown[m] = page.shown[m]
        /\ n \in DOMAIN page.shown =>
              r.shown[n] = (page.shown[n] \ (IF mark = "edited" THEN {"sealed"} ELSE {}))
                           \cup {mark} \cup sealed
    BY <1>1, <1>2, MarkedScreen
  <1>4. page' = r
    BY <1>2
  <1>5. /\ MarksFit' /\ AnswersFaithful' /\ WipesFaithful' /\ AnswersFirst' /\ Spins'
        /\ \A c \in Chats : /\ Quiet(c)' => Quiet(c)
                            /\ Settled(c)' => Settled(c)
    BY <1>1, <1>3, <1>4, TakenPage DEF SameOpen
  <1>6. /\ marks' = marks /\ home' = home /\ purged' = purged
        /\ \A m \in Messages : marks[m] \subseteq Marks
        /\ t \in Nat /\ t >= 1 /\ "sealed" \notin Marks
    BY LenProperties, ChatViewAssumption
    DEF server, ViewInv, Typed, ServerTyped, ChatViewAssumption
  <1>7. mark \in marks[n]
    BY DEF SyncInv, MarksFit, Fits
  <1>8. ASSUME NEW c \in Chats, Quiet(c)', ~page'.blurred
        PROVE  ScreenOK(c)
    <2>1. Quiet(c) /\ ~page.blurred /\ (Settled(c)' => Settled(c)) /\ ~b /\ sealed = {}
      BY <1>3, <1>4, <1>5, <1>8
    <2>2. \A m \in DOMAIN page.shown : m \in Messages /\ home[m] = c
      BY <2>1, ScreenHome DEF SyncInv
    <2>3. Known(marks, flight, page.shown, 0)
      BY <2>1 DEF SyncInv, ScreenKnown
    <2>4. ASSUME NEW m \in DOMAIN page.shown
          PROVE  Current(marks', flight', r.shown[m], m, 0)
      <3>1. m \in Messages /\ Current(marks, flight, page.shown[m], m, 0)
        BY <2>2, <2>3, <2>4 DEF Known
      <3>2. CASE m # n
        <4>1. \A l \in marks[m] \ page.shown[m] : ~Marking(flight[t], m, l)
          BY <1>6, <3>1, <3>2
        <4>2. Current(marks', flight', page.shown[m], m, 0)
          BY <1>6, <3>1, <4>1, OneTaken
        <4>3. QED
          BY <1>3, <2>4, <3>2, <4>2
      <3>3. CASE m = n
        <4>1. PICK f : f = r.shown[m]
          OBVIOUS
        <4>2. f = (page.shown[m] \ (IF mark = "edited" THEN {"sealed"} ELSE {})) \cup {mark}
          BY <1>3, <2>1, <2>4, <3>3, <4>1
        <4>3. f \subseteq marks[m]
          BY <1>7, <3>1, <3>3, <4>2 DEF Current
        <4>4. \A l \in marks[m] \ f : l \in marks[m] \ page.shown[m] /\ l # mark
          BY <1>6, <3>1, <4>2
        <4>5. Current(marks, flight, f, m, 0)
          BY <3>1, <4>3, <4>4 DEF Current
        <4>6. \A l \in marks[m] \ f : ~Marking(flight[t], m, l)
          BY <1>6, <3>1, <4>4
        <4>7. Current(marks', flight', f, m, 0)
          BY <1>6, <3>1, <4>5, <4>6, OneTaken
        <4>8. QED
          BY <4>1, <4>7
      <3>4. QED
        BY <3>2, <3>3
    <2>5. Known(marks', flight', page'.shown, 0)
      BY <1>3, <1>4, <2>4 DEF Known
    <2>6. ASSUME Settled(c)'
          PROVE  Due(marks', home', purged', flight', page'.shown, c, 0)
      <3>1. Due(marks, home, purged, flight, page.shown, c, 0)
        BY <2>1, <2>6 DEF SyncInv, ScreenDue
      <3>2. ASSUME NEW m \in Messages \ DOMAIN page.shown, home[m] = c, m \notin purged
            PROVE  Coming(marks', flight', m, 0)
        <4>1. Coming(marks, flight, m, 0)
          BY <3>1, <3>2 DEF Due
        <4>2. QED
          BY <1>6, <4>1, OneTaken
      <3>3. QED
        BY <1>3, <1>4, <1>6, <3>2 DEF Due
    <2>7. QED
      BY <2>5, <2>6 DEF ScreenOK
  <1>9. QED
    BY <1>5, <1>8, SyncTogether

\* The kinds of the items that set a mark.
LEMMA MarkingKinds ==
    ASSUME ChatViewAssumption, NEW x \in Items, NEW mark \in Marks,
           x.kind = mark \/ (x.kind = "openingEdit" /\ mark = "edited")
    PROVE  /\ x.chat \in Chats /\ x.msg \in Messages /\ x.kind # "messages"
           /\ \A m \in Messages, k \in Marks : Marking(x, m, k) <=> m = x.msg /\ k = mark
           /\ \A m \in Messages : ~LiveNew(x, m)
  <1>1. mark \in {"edited", "deleted", "files"} /\ "openingEdit" \notin Marks
    BY ChatViewAssumption DEF ChatViewAssumption
  <1>2. x \in MarkItem \/ x \in OpenItem
    BY <1>1, ItemFields
  <1>3. x.chat \in Chats /\ x.msg \in Messages
    BY <1>2 DEF MarkItem, OpenItem
  <1>4. x.kind # "messages" /\ \A m \in Messages : ~LiveNew(x, m)
    BY <1>1 DEF LiveNew
  <1>5. \A m \in Messages, k \in Marks : Marking(x, m, k) <=> m = x.msg /\ k = mark
    BY <1>1 DEF Marking
  <1>6. QED
    BY <1>3, <1>4, <1>5

\* An edit that was decrypted.
LEMMA ApplyEditSync ==
    ASSUME ChatViewAssumption, ViewInv, SyncInv, NEW t \in DOMAIN flight, ApplyEdit(t)
    PROVE  SyncInv'
  <1>1. PICK x : x = flight[t]
    OBVIOUS
  <1>2. PICK b : b = (x.late \/ x.marks # {} \/ ~OnTheRightList(page, x.chat))
    OBVIOUS
  <1>3. /\ x.kind = "openingEdit" /\ flight' = Taken(t)
        /\ UNCHANGED server /\ line' = line /\ asked' = asked
        /\ page' = Doubt(MarkShown(page, x.chat, x.msg, "edited", x.marks), x.chat, b)
    BY <1>1, <1>2 DEF ApplyEdit
  <1>4. x \in Items
    BY <1>1, ElementOfSeq, LenProperties DEF ViewInv, Typed
  <1>5. "edited" \in Marks /\ x.marks \in Faces /\ x.late \in BOOLEAN
    BY <1>3, <1>4, ItemFields DEF OpenItem
  <1>6. /\ x.chat \in Chats /\ x.msg \in Messages /\ x.kind # "messages"
        /\ \A m \in Messages, k \in Marks : Marking(x, m, k) <=> m = x.msg /\ k = "edited"
        /\ \A m \in Messages : ~LiveNew(x, m)
    BY <1>3, <1>4, <1>5, MarkingKinds
  <1>7. b \in BOOLEAN /\ (x.marks # {} => b) /\ (b \/ OnTheRightList(page, x.chat))
    BY <1>2, <1>5
  <1>8. QED
    BY <1>1, <1>3, <1>5, <1>6, <1>7, MarkedSync

\* When what is taken does not touch the page, nothing is lost of what an open chat needs.
LEMMA SamePageSync ==
    ASSUME ChatViewAssumption, ViewInv, SyncInv, NEW t \in DOMAIN flight, flight' = Taken(t),
           UNCHANGED server, line' = line, asked' = asked, page' = page,
           flight[t].kind # "messages",
           \/ flight[t].chat # page.active
           \/ \A m \in Messages, k \in Marks : ~Marking(flight[t], m, k),
           \A m \in Messages : ~LiveNew(flight[t], m)
    PROVE  SyncInv'
  <1>1. page.active \in Chats \cup {None}
    BY DEF ViewInv, Typed, ClientTyped, Page
  <1>2. /\ MarksFit' /\ AnswersFaithful' /\ WipesFaithful' /\ AnswersFirst' /\ Spins'
        /\ \A c \in Chats : /\ Quiet(c)' => Quiet(c)
                            /\ Settled(c)' => Settled(c)
    BY <1>1, TakenPage DEF SameOpen
  <1>3. ASSUME NEW c \in Chats, Quiet(c)', ~page'.blurred
        PROVE  ScreenOK(c)
    <2>1. Quiet(c) /\ ~page.blurred /\ c = page.active
      BY <1>2, <1>3 DEF Quiet
    <2>2. ~Sets(flight[t], c) /\ ~Brings(flight[t], c)
      BY <2>1 DEF Sets, Brings
    <2>3. QED
      BY <1>2, <2>1, <2>2, TakenScreen DEF ScreenOK
  <1>4. QED
    BY <1>2, <1>3, SyncTogether

\* Files that were added, or a deletion.
LEMMA ApplyMarkSync ==
    ASSUME ChatViewAssumption, ViewInv, SyncInv, NEW t \in DOMAIN flight, ApplyMark(t)
    PROVE  SyncInv'
  <1>1. PICK x : x = flight[t]
    OBVIOUS
  <1>2. PICK b : b = (x.late \/ ~OnTheRightList(page, x.chat))
    OBVIOUS
  <1>3. /\ x.kind \in {"files", "deleted"} /\ flight' = Taken(t)
        /\ UNCHANGED server /\ line' = line /\ asked' = asked
        /\ page' = IF x.chat # page.active THEN page
                   ELSE Doubt(MarkShown(page, x.chat, x.msg, x.kind, {}), x.chat, b)
    BY <1>1, <1>2 DEF ApplyMark
  <1>4. x \in Items
    BY <1>1, ElementOfSeq, LenProperties DEF ViewInv, Typed
  <1>5. x.kind \in Marks /\ {} \in Faces /\ x.late \in BOOLEAN
    BY <1>3, <1>4, ItemFields DEF Faces
  <1>6. /\ x.chat \in Chats /\ x.msg \in Messages /\ x.kind # "messages"
        /\ \A m \in Messages, k \in Marks : Marking(x, m, k) <=> m = x.msg /\ k = x.kind
        /\ \A m \in Messages : ~LiveNew(x, m)
    BY <1>4, <1>5, MarkingKinds
  <1>7. b \in BOOLEAN /\ (b \/ OnTheRightList(page, x.chat))
    BY <1>2, <1>5
  <1>8. CASE x.chat # page.active
    BY <1>1, <1>3, <1>6, <1>8, SamePageSync
  <1>9. CASE x.chat = page.active
    <2>1. page' = Doubt(MarkShown(page, x.chat, x.msg, x.kind, {}), x.chat, b)
      BY <1>3, <1>9
    <2>2. QED
      BY <1>1, <1>3, <1>5, <1>6, <1>7, <2>1, MarkedSync
  <1>10. QED
    BY <1>8, <1>9

\* An edit of a chat that is not open.
LEMMA IgnoreEditSync ==
    ASSUME ChatViewAssumption, ViewInv, SyncInv, NEW t \in DOMAIN flight, IgnoreEdit(t)
    PROVE  SyncInv'
  <1>1. /\ flight[t].kind = "edited" /\ flight[t].chat # page.active /\ flight' = Taken(t)
        /\ UNCHANGED server /\ line' = line /\ asked' = asked /\ page' = page
    BY DEF IgnoreEdit
  <1>2. \A m \in Messages : ~LiveNew(flight[t], m)
    BY <1>1 DEF LiveNew
  <1>3. QED
    BY <1>1, <1>2, SamePageSync

\* What loadMessages asks is asked, and what was asked still is.
LEMMA AskedStays ==
    ASSUME ChatViewAssumption, NEW bag \in Asked, NEW p, NEW c \in Chats, NEW new,
           new = AskLoad(bag, p, c)
    PROVE  /\ \A y \in Chats \X BOOLEAN : bag[y] > 0 => new[y] > 0
           /\ \E served \in BOOLEAN : new[<<c, served>>] > 0
  <1>1. PICK s : s = (Cached(p, c) # None)
    OBVIOUS
  <1>2. PICK z : z = <<c, s>>
    OBVIOUS
  <1>3. z \in Chats \X BOOLEAN /\ s \in BOOLEAN
    BY <1>1, <1>2
  <1>4. new = [bag EXCEPT ![z] = @ + 1]
    BY <1>1, <1>2 DEF AskLoad, Add
  <1>5. \A y \in Chats \X BOOLEAN : bag[y] \in Nat /\ new[y] = IF y = z THEN bag[y] + 1 ELSE bag[y]
    BY <1>3, <1>4 DEF Asked
  <1>6. \A y \in Chats \X BOOLEAN : bag[y] > 0 => new[y] > 0
    BY <1>5
  <1>7. new[z] > 0
    BY <1>3, <1>5
  <1>8. QED
    BY <1>2, <1>3, <1>6, <1>7

\* A group or pin event: the open chat is loaded again.
LEMMA OnChangedSync ==
    ASSUME ChatViewAssumption, ViewInv, SyncInv, NEW t \in DOMAIN flight, OnChanged(t)
    PROVE  SyncInv'
  <1>1. PICK x : x = flight[t]
    OBVIOUS
  <1>2. /\ x.kind = "changed" /\ flight' = Taken(t)
        /\ UNCHANGED server /\ line' = line
        /\ IF x.chat = page.active
           THEN page' = StartLoad(page, x.chat) /\ asked' = AskLoad(asked, page, x.chat)
           ELSE page' = page /\ asked' = asked
    BY <1>1 DEF OnChanged
  <1>3. x.chat \in Chats /\ page \in Page /\ asked \in Asked
    BY <1>1, ElementOfSeq, LenProperties, ItemFields DEF ViewInv, Typed, ClientTyped
  <1>4. /\ \A m \in Messages : ~LiveNew(x, m)
        /\ \A m \in Messages, k \in Marks : ~Marking(x, m, k)
    BY <1>2, ChatViewAssumption DEF LiveNew, Marking, ChatViewAssumption
  <1>5. CASE x.chat # page.active
    BY <1>1, <1>2, <1>4, <1>5, SamePageSync
  <1>6. CASE x.chat = page.active
    <2>1. PICK q : q = StartLoad(page, x.chat)
      OBVIOUS
    <2>2. q.active = page.active /\ q.doubted = page.doubted
      BY <1>3, <2>1, StartLoadPage
    <2>3. page' = q /\ asked' = AskLoad(asked, page, x.chat)
      BY <1>2, <1>6, <2>1
    <2>4. /\ \A y \in Chats \X BOOLEAN : asked[y] > 0 => asked'[y] > 0
          /\ \E served \in BOOLEAN : asked'[<<x.chat, served>>] > 0
      BY <1>3, <2>3, AskedStays
    <2>5. Loading(x.chat)' /\ page'.active = x.chat
      BY <1>6, <2>2, <2>3, <2>4 DEF Loading
    <2>6. Loading(page.active)'
      BY <2>5
    <2>7. /\ MarksFit' /\ AnswersFaithful' /\ WipesFaithful' /\ AnswersFirst' /\ Spins'
      BY <1>1, <1>2, <1>3, <1>6, <2>2, <2>3, <2>4, <2>6, TakenPage DEF SameOpen
    <2>8. \A c \in Chats : ~Quiet(c)'
      BY <2>5 DEF Quiet
    <2>9. QED
      BY <2>7, <2>8, SyncTogether
  <1>7. QED
    BY <1>5, <1>6

\* When the list of a settled chat is emptied, what the server has of the chat is coming.
LEMMA EmptiedDue ==
    ASSUME ChatViewAssumption, ViewInv, SyncInv, NEW t \in DOMAIN flight, flight' = Taken(t),
           UNCHANGED server, NEW c \in Chats, Settled(c), Emptying(t), flight[t].chat = c, NEW L
    PROVE  Due(marks', home', purged', flight', L, c, 0)
  <1>1. /\ marks' = marks /\ home' = home /\ purged' = purged
        /\ flight \in Seq(Items) /\ \A m \in Messages : marks[m] \subseteq Marks
    BY DEF server, ViewInv, Typed, ServerTyped
  <1>2. flight' \in Seq(Items) /\ Removed(flight, flight', t)
    BY <1>1, TakenRemoved
  <1>3. Due(marks, home, purged, flight, Empty, c, t)
    BY DEF SyncInv, WipesFaithful
  <1>4. ASSUME NEW m \in Messages, home[m] = c, m \notin purged
        PROVE  Coming(marks, flight', m, 0)
    <2>1. Coming(marks, flight, m, t)
      BY <1>3, <1>4, ListMembers DEF Due
    <2>2. \A j \in DOMAIN flight : j < t /\ LiveNew(flight[j], m) =>
             Overtakes(flight[t], flight[j])
      <3>1. SUFFICES ASSUME NEW j \in DOMAIN flight, LiveNew(flight[j], m)
                     PROVE  Overtakes(flight[t], flight[j])
        OBVIOUS
      <3>2. flight[j].chat = flight[t].chat /\ IsNew(flight[j])
        BY <1>4, <3>1, OfItsChat DEF LiveNew, IsNew
      <3>3. QED
        BY <3>2 DEF Overtakes, Emptying, Wipes
    <2>3. QED
      BY <1>1, <1>2, <2>1, <2>2, ComingAfter
  <1>5. QED
    BY <1>1, <1>4 DEF Due

\* The open chat, or another one, was cleared by somebody else.
LEMMA OnClearedSync ==
    ASSUME ChatViewAssumption, ViewInv, SyncInv, NEW t \in DOMAIN flight, OnCleared(t)
    PROVE  SyncInv'
  <1>1. PICK x : x = flight[t]
    OBVIOUS
  <1>2. x \in Items /\ x.chat \in Chats /\ x.late \in BOOLEAN /\ page \in Page
        /\ page.active \in Chats \cup {None}
    BY <1>1, ElementOfSeq, LenProperties, ItemFields DEF ViewInv, Typed, ClientTyped, Page
  <1>3. PICK p : p = DropCaches(page, x.chat)
    OBVIOUS
  <1>4. PICK q : q = IF x.chat = page.active THEN Blank(p) ELSE Disown(p, x.chat)
    OBVIOUS
  <1>5. PICK r : r = IF x.chat \in DOMAIN q.chats THEN Silent(q, x.chat) ELSE q
    OBVIOUS
  <1>6. PICK z : z = Doubt(r, x.chat, x.late)
    OBVIOUS
  <1>7. /\ x.kind = "cleared" /\ flight' = Taken(t)
        /\ UNCHANGED server /\ line' = line /\ asked' = asked
        /\ page' = z
    BY <1>1, <1>3, <1>4, <1>5, <1>6 DEF OnCleared, Blank, Silent
  <1>8. /\ p \in Page /\ p.shown = page.shown /\ p.blurred = page.blurred
        /\ p.doubted = page.doubted /\ p.active = page.active /\ p.loading = page.loading
    BY <1>2, <1>3, DropCachesFields
  <1>9. /\ q \in Page /\ q.doubted = p.doubted /\ q.active = p.active /\ q.loading = p.loading
        /\ q.blurred = p.blurred
        /\ x.chat = page.active => DOMAIN q.shown = {}
        /\ x.chat # page.active => q.shown = p.shown
    <2>1. CASE x.chat = page.active
      BY <1>4, <1>8, <2>1, BlankFields
    <2>2. CASE x.chat # page.active
      BY <1>2, <1>4, <1>8, <2>2, DisownFields
    <2>3. QED
      BY <2>1, <2>2
  <1>10. /\ r \in Page /\ r.doubted = q.doubted /\ r.active = q.active
         /\ r.loading = q.loading /\ r.blurred = q.blurred /\ r.shown = q.shown
    <2>1. CASE x.chat \in DOMAIN q.chats
      BY <1>2, <1>5, <1>9, <2>1, SilentFields
    <2>2. CASE x.chat \notin DOMAIN q.chats
      BY <1>5, <1>9, <2>2
    <2>3. QED
      BY <2>1, <2>2
  <1>11. /\ z.active = page.active /\ z.loading = page.loading
         /\ page.doubted \subseteq z.doubted
         /\ ~z.blurred => ~page.blurred /\ ~x.late
         /\ x.chat = page.active => DOMAIN z.shown = {}
         /\ x.chat # page.active => z.shown = page.shown
    <2>1. /\ z.active = r.active /\ z.loading = r.loading /\ z.shown = r.shown
          /\ r.doubted \subseteq z.doubted /\ (x.late => z.blurred) /\ (~x.late => z = r)
      BY <1>2, <1>6, <1>10, DoubtPage DEF Derived
    <2>2. QED
      BY <1>2, <1>8, <1>9, <1>10, <2>1
  <1>12. /\ MarksFit' /\ AnswersFaithful' /\ WipesFaithful' /\ AnswersFirst' /\ Spins'
         /\ \A c \in Chats : /\ Quiet(c)' => Quiet(c)
                             /\ Settled(c)' => Settled(c)
    BY <1>1, <1>2, <1>7, <1>11, TakenPage DEF SameOpen
  <1>13. ASSUME NEW c \in Chats, Quiet(c)', ~page'.blurred
         PROVE  ScreenOK(c)
    <2>1. Quiet(c) /\ c = page.active /\ ~page.blurred /\ ~x.late
      BY <1>7, <1>11, <1>12, <1>13 DEF Quiet
    <2>2. CASE x.chat = c
      <3>1. DOMAIN page'.shown = {}
        BY <1>7, <1>11, <2>1, <2>2
      <3>2. Settled(c)' => Due(marks', home', purged', flight', page'.shown, c, 0)
        BY <1>1, <1>7, <1>12, <2>1, <2>2, EmptiedDue DEF Emptying, Wipes
      <3>3. QED
        BY <3>1, <3>2 DEF ScreenOK, Known
    <2>3. CASE x.chat # c
      <3>1. page'.shown = page.shown /\ ~Sets(x, c) /\ ~Brings(x, c)
        BY <1>7, <1>11, <2>1, <2>3 DEF Sets, Brings
      <3>2. QED
        BY <1>1, <1>7, <1>12, <2>1, <3>1, TakenScreen DEF ScreenOK
    <2>4. QED
      BY <2>2, <2>3
  <1>14. QED
    BY <1>12, <1>13, SyncTogether

\* A chat was deleted by somebody else: it is closed.
LEMMA OnDeletedSync ==
    ASSUME ChatViewAssumption, ViewInv, SyncInv, NEW t \in DOMAIN flight, OnDeleted(t)
    PROVE  SyncInv'
  <1>1. PICK x : x = flight[t]
    OBVIOUS
  <1>2. x \in Items /\ x.chat \in Chats /\ x.late \in BOOLEAN /\ page \in Page
        /\ page.active \in Chats \cup {None}
    BY <1>1, ElementOfSeq, LenProperties, ItemFields DEF ViewInv, Typed, ClientTyped, Page
  <1>3. PICK o : o = DropCaches(page, x.chat)
    OBVIOUS
  <1>4. PICK p : p = Unlist(o, x.chat)
    OBVIOUS
  <1>5. PICK q : q = Disown(p, x.chat)
    OBVIOUS
  <1>6. PICK r : r = IF x.chat = page.active THEN [q EXCEPT !.active = None, !.shown = Empty]
                     ELSE q
    OBVIOUS
  <1>7. PICK z : z = Doubt(r, x.chat, x.late)
    OBVIOUS
  <1>8. /\ x.kind = "gone" /\ flight' = Taken(t)
        /\ UNCHANGED server /\ line' = line /\ asked' = asked
        /\ page' = z
    <2>1. CASE x.chat = page.active
      BY <1>1, <1>3, <1>4, <1>5, <1>6, <1>7, <2>1 DEF OnDeleted
    <2>2. CASE x.chat # page.active
      BY <1>1, <1>3, <1>4, <1>5, <1>6, <1>7, <2>2 DEF OnDeleted
    <2>3. QED
      BY <2>1, <2>2
  <1>9. /\ o \in Page /\ o.shown = page.shown /\ o.blurred = page.blurred
        /\ o.doubted = page.doubted /\ o.active = page.active /\ o.loading = page.loading
    BY <1>2, <1>3, DropCachesFields
  <1>10. /\ p \in Page /\ p.shown = o.shown /\ p.blurred = o.blurred
         /\ p.doubted = o.doubted /\ p.active = o.active /\ p.loading = o.loading
    BY <1>2, <1>4, <1>9, UnlistFields
  <1>11. /\ q \in Page /\ q.shown = p.shown /\ q.blurred = p.blurred
         /\ q.doubted = p.doubted /\ q.active = p.active /\ q.loading = p.loading
    BY <1>2, <1>5, <1>10, DisownFields
  <1>12. /\ r \in Page /\ r.doubted = q.doubted /\ r.loading = q.loading
         /\ r.blurred = q.blurred
         /\ x.chat = page.active => r.active = None
         /\ x.chat # page.active => r.active = q.active /\ r.shown = q.shown
    <2>1. CASE x.chat = page.active
      <3>1. r = [q EXCEPT !.active = None, !.shown = Empty]
        BY <1>6, <2>1
      <3>2. Empty \in Lists
        BY ListMembers
      <3>3. QED
        BY <1>11, <2>1, <3>1, <3>2 DEF Page
    <2>2. CASE x.chat # page.active
      BY <1>6, <1>11, <2>2
    <2>3. QED
      BY <2>1, <2>2
  <1>13. /\ z.active \in {page.active, None} /\ z.loading = page.loading
         /\ page.doubted \subseteq z.doubted
         /\ ~z.blurred => ~page.blurred
         /\ x.chat = page.active => z.active = None
         /\ x.chat # page.active => z.active = page.active /\ z.shown = page.shown
    <2>1. /\ z.active = r.active /\ z.loading = r.loading /\ z.shown = r.shown
          /\ r.doubted \subseteq z.doubted /\ (x.late => z.blurred) /\ (~x.late => z = r)
      BY <1>2, <1>7, <1>12, DoubtPage DEF Derived
    <2>2. QED
      BY <1>2, <1>9, <1>10, <1>11, <1>12, <2>1
  <1>14. /\ MarksFit' /\ AnswersFaithful' /\ WipesFaithful' /\ AnswersFirst' /\ Spins'
         /\ \A c \in Chats : /\ Quiet(c)' => Quiet(c) /\ page'.active = page.active
                             /\ Settled(c)' => Settled(c)
    BY <1>1, <1>2, <1>8, <1>13, TakenPage DEF SameOpen
  <1>15. ASSUME NEW c \in Chats, Quiet(c)', ~page'.blurred
         PROVE  ScreenOK(c)
    <2>1. Quiet(c) /\ c = page.active /\ c = page'.active /\ ~page.blurred /\ c # None
      BY <1>8, <1>13, <1>14, <1>15, ChatViewAssumption DEF Quiet, ChatViewAssumption
    <2>2. x.chat # c /\ page'.shown = page.shown
      BY <1>8, <1>13, <2>1
    <2>3. ~Sets(x, c) /\ ~Brings(x, c)
      BY <2>2 DEF Sets, Brings
    <2>4. QED
      BY <1>1, <1>8, <1>14, <2>1, <2>2, <2>3, TakenScreen DEF ScreenOK
  <1>16. QED
    BY <1>14, <1>15, SyncTogether

\* The answer to the user's own clearing, deletion or leaving.
LEMMA AnsweredSync ==
    ASSUME ChatViewAssumption, ViewInv, SyncInv, NEW t \in DOMAIN flight, Answered(t)
    PROVE  SyncInv'
  <1>1. PICK x : x = flight[t]
    OBVIOUS
  <1>2. x \in Items /\ x.chat \in Chats /\ x.late \in BOOLEAN /\ page \in Page
        /\ page.active \in Chats \cup {None}
    BY <1>1, ElementOfSeq, LenProperties, ItemFields DEF ViewInv, Typed, ClientTyped, Page
  <1>3. PICK o : o = DropCaches(page, x.chat)
    OBVIOUS
  <1>4. PICK a : a = (page.active # x.chat)
    OBVIOUS
  <1>5. PICK p : p = [o EXCEPT !.shown = Empty, !.owner = x.chat, !.blurred = a]
    OBVIOUS
  <1>6. PICK u : u = Unlist(p, x.chat)
    OBVIOUS
  <1>7. PICK r : r = IF x.msg = "cleared" THEN p ELSE [u EXCEPT !.active = None]
    OBVIOUS
  <1>8. PICK z : z = Doubt(r, x.chat, x.late)
    OBVIOUS
  <1>9. /\ x.kind = "done" /\ flight' = Taken(t)
        /\ UNCHANGED server /\ line' = line /\ asked' = asked
        /\ page' = z
    <2>1. CASE x.msg = "cleared"
      BY <1>1, <1>3, <1>4, <1>5, <1>6, <1>7, <1>8, <2>1 DEF Answered
    <2>2. CASE x.msg # "cleared"
      BY <1>1, <1>3, <1>4, <1>5, <1>6, <1>7, <1>8, <2>2 DEF Answered
    <2>3. QED
      BY <2>1, <2>2
  <1>10. /\ o \in Page /\ o.doubted = page.doubted /\ o.active = page.active
         /\ o.loading = page.loading
    BY <1>2, <1>3, DropCachesFields
  <1>11. /\ p \in Page /\ DOMAIN p.shown = {} /\ p.blurred = a /\ p.doubted = o.doubted
         /\ p.active = o.active /\ p.loading = o.loading
    <2>1. Empty \in Lists /\ DOMAIN Empty = {} /\ a \in BOOLEAN
      BY <1>4, ListMembers
    <2>2. /\ p.blurred = a /\ p.shown = Empty /\ p.doubted = o.doubted /\ p.active = o.active
          /\ p.loading = o.loading
      BY <1>5, <1>10 DEF Page
    <2>3. p \in Page
      BY <1>2, <1>5, <1>10, <2>1 DEF Page
    <2>4. QED
      BY <2>1, <2>2, <2>3
  <1>12. /\ u \in Page /\ u.shown = p.shown /\ u.blurred = p.blurred
         /\ u.doubted = p.doubted /\ u.loading = p.loading
    BY <1>2, <1>6, <1>11, UnlistFields
  <1>13. /\ r \in Page /\ r.shown = p.shown /\ r.blurred = p.blurred
         /\ r.doubted = p.doubted /\ r.loading = p.loading
         /\ r.active = None \/ r.active = p.active
    <2>1. CASE x.msg = "cleared"
      BY <1>7, <1>11, <2>1
    <2>2. CASE x.msg # "cleared"
      <3>1. r = [u EXCEPT !.active = None]
        BY <1>7, <2>2
      <3>2. QED
        BY <1>12, <3>1 DEF Page
    <2>3. QED
      BY <2>1, <2>2
  <1>14. /\ z.active \in {page.active, None} /\ z.loading = page.loading
         /\ page.doubted \subseteq z.doubted
         /\ ~z.blurred => x.chat = page.active /\ ~x.late
         /\ DOMAIN z.shown = {}
    <2>1. /\ z.active = r.active /\ z.loading = r.loading /\ z.shown = r.shown
          /\ r.doubted \subseteq z.doubted /\ (x.late => z.blurred) /\ (~x.late => z = r)
      BY <1>2, <1>8, <1>13, DoubtPage DEF Derived
    <2>2. QED
      BY <1>2, <1>4, <1>10, <1>11, <1>13, <2>1
  <1>15. /\ MarksFit' /\ AnswersFaithful' /\ WipesFaithful' /\ AnswersFirst' /\ Spins'
         /\ \A c \in Chats : /\ Quiet(c)' => Quiet(c)
                             /\ Settled(c)' => Settled(c)
    BY <1>1, <1>2, <1>9, <1>14, TakenPage DEF SameOpen
  <1>16. ASSUME NEW c \in Chats, Quiet(c)', ~page'.blurred
         PROVE  ScreenOK(c)
    <2>1. c = page.active /\ x.chat = c /\ ~x.late /\ DOMAIN page'.shown = {}
      BY <1>9, <1>14, <1>15, <1>16 DEF Quiet
    <2>2. Settled(c)' => Due(marks', home', purged', flight', page'.shown, c, 0)
      BY <1>1, <1>9, <1>15, <2>1, EmptiedDue DEF Emptying, Wipes
    <2>3. QED
      BY <2>1, <2>2 DEF ScreenOK, Known
  <1>17. QED
    BY <1>15, <1>16, SyncTogether

\* The end of loadMessages: what becomes of the screen.
LEMMA ApplyLoadScreen ==
    ASSUME ChatViewAssumption, ViewInv, NEW i \in DOMAIN flight, ApplyLoad(i)
    PROVE  LET x == flight[i]
           IN  /\ page'.active = page.active /\ page'.loading = FALSE
               /\ page.doubted \ {x.chat} \subseteq page'.doubted
               /\ x.chat \notin page'.doubted => ~x.late
               /\ ~page'.blurred => /\ x.chat = page.active /\ ~x.late /\ ~Doing(x.chat)
                                    /\ page'.shown = x.data
  <1>1. PICK x : x = flight[i]
    OBVIOUS
  <1>2. PICK sealed : sealed = (x.chat \notin DOMAIN page.chats)
    OBVIOUS
  <1>3. PICK L : L = [m \in DOMAIN x.data |->
                         IF sealed THEN x.data[m] \cup {"sealed"} ELSE x.data[m]]
    OBVIOUS
  <1>4. PICK w : w = Write(page, x.chat, L)
    OBVIOUS
  <1>5. PICK a : a = (x.chat # page.active)
    OBVIOUS
  <1>6. PICK p : p = [w EXCEPT !.loading = FALSE, !.owner = x.chat,
                               !.doubted = page.doubted \ {x.chat}, !.blurred = a]
    OBVIOUS
  <1>7. PICK b : b = (x.late \/ Doing(x.chat) \/ sealed)
    OBVIOUS
  <1>8. x.kind = "messages"
    BY <1>1 DEF ApplyLoad
  <1>9. /\ x \in Items /\ x.chat \in Chats /\ x.late \in BOOLEAN /\ page \in Page
        /\ x.data \in Lists
    BY <1>1, <1>8, ElementOfSeq, LenProperties, ItemFields
    DEF ViewInv, Typed, ClientTyped, LoadItem
  <1>10. /\ DOMAIN x.data \subseteq Messages /\ \A m \in DOMAIN x.data : x.data[m] \in Faces
         /\ x.data = [m \in DOMAIN x.data |-> x.data[m]]
    BY <1>9, ListMembers
  <1>11. L \in Lists /\ (~sealed => L = x.data)
    <2>1. \A m \in DOMAIN x.data : L[m] \in Faces
      BY <1>3, <1>10 DEF Faces
    <2>2. DOMAIN L = DOMAIN x.data /\ L = [m \in DOMAIN L |-> L[m]]
      BY <1>3
    <2>3. L \in Lists
      BY <1>10, <2>1, <2>2, ListMembers
    <2>4. ASSUME ~sealed
          PROVE  L = x.data
      <3>1. L = [m \in DOMAIN x.data |-> x.data[m]]
        BY <1>3, <2>4
      <3>2. QED
        BY <1>10, <3>1
    <2>5. QED
      BY <2>3, <2>4
  <1>12. w \in Page /\ w.shown = L /\ w.doubted = page.doubted /\ w.active = page.active
    BY <1>4, <1>9, <1>11, WritePage, SMTT(30)
  <1>13. /\ p \in Page /\ p.shown = L /\ p.blurred = a /\ p.loading = FALSE
         /\ p.doubted = page.doubted \ {x.chat} /\ p.active = page.active
    <2>1. page.doubted \ {x.chat} \in SUBSET Chats /\ a \in BOOLEAN
      BY <1>5, <1>9 DEF Page
    <2>2. /\ p.shown = w.shown /\ p.loading = FALSE /\ p.blurred = a
          /\ p.doubted = page.doubted \ {x.chat} /\ p.active = w.active
      BY <1>6, <1>12 DEF Page
    <2>3. p \in Page
      BY <1>6, <1>9, <1>12, <2>1 DEF Page
    <2>4. QED
      BY <1>12, <2>2, <2>3
  <1>14. page' = Doubt(p, x.chat, b)
    <2>1. page' = Doubt([Write(page, x.chat, [m \in DOMAIN x.data |->
                             IF x.chat \notin DOMAIN page.chats THEN x.data[m] \cup {"sealed"}
                             ELSE x.data[m]])
                         EXCEPT !.loading = FALSE, !.owner = x.chat,
                                !.doubted = @ \ {x.chat}, !.blurred = x.chat # page.active],
                        x.chat, x.late \/ Doing(x.chat) \/ x.chat \notin DOMAIN page.chats)
      BY <1>1 DEF ApplyLoad
    <2>2. L = [m \in DOMAIN x.data |->
                 IF x.chat \notin DOMAIN page.chats THEN x.data[m] \cup {"sealed"}
                 ELSE x.data[m]]
      BY <1>2, <1>3
    <2>3. page' = Doubt([Write(page, x.chat, L)
                         EXCEPT !.loading = FALSE, !.owner = x.chat,
                                !.doubted = @ \ {x.chat}, !.blurred = x.chat # page.active],
                        x.chat, x.late \/ Doing(x.chat) \/ x.chat \notin DOMAIN page.chats)
      BY <2>1, <2>2, Zenon
    <2>4. page' = Doubt([w EXCEPT !.loading = FALSE, !.owner = x.chat,
                                  !.doubted = w.doubted \ {x.chat}, !.blurred = a], x.chat, b)
      BY <1>2, <1>4, <1>5, <1>7, <2>3, Zenon
    <2>5. page' = Doubt([w EXCEPT !.loading = FALSE, !.owner = x.chat,
                                  !.doubted = page.doubted \ {x.chat}, !.blurred = a],
                        x.chat, b)
      BY <1>12, <2>4, Zenon
    <2>6. QED
      BY <1>6, <2>5, Zenon
  <1>15. b \in BOOLEAN
    BY <1>2, <1>7, <1>9 DEF Doing
  <1>16. PICK r : r = Doubt(p, x.chat, b)
    OBVIOUS
  <1>17. /\ b => r.blurred /\ x.chat \in r.doubted
         /\ ~b => r = p
         /\ r.shown = p.shown /\ r.active = p.active /\ r.loading = p.loading
         /\ p.doubted \subseteq r.doubted
    BY <1>9, <1>13, <1>15, <1>16, DoubtPage DEF Derived
  <1>18. ~r.blurred => ~b /\ ~a
    BY <1>13, <1>17
  <1>19. page' = r
    BY <1>14, <1>16
  <1>20. /\ r.active = page.active /\ r.loading = FALSE
         /\ page.doubted \ {x.chat} \subseteq r.doubted
    BY <1>13, <1>17
  <1>21. x.chat \notin r.doubted => ~x.late
    BY <1>7, <1>17
  <1>22. ~r.blurred => /\ x.chat = page.active /\ ~x.late /\ ~Doing(x.chat)
                       /\ r.shown = x.data
    BY <1>5, <1>7, <1>11, <1>13, <1>17, <1>18
  <1>23. QED
    BY <1>1, <1>19, <1>20, <1>21, <1>22

\* What the server answered is shown: it is current, and what it lacks is coming.
LEMMA ApplyLoadSync ==
    ASSUME ChatViewAssumption, ViewInv, SyncInv, NEW t \in DOMAIN flight, ApplyLoad(t)
    PROVE  SyncInv'
  <1>1. PICK x : x = flight[t]
    OBVIOUS
  <1>2. /\ x.kind = "messages" /\ flight' = Taken(t)
        /\ UNCHANGED server /\ line' = line /\ asked' = asked
    BY <1>1 DEF ApplyLoad
  <1>3. x.chat \in Chats /\ x.data \in Lists
        /\ flight \in Seq(Items) /\ \A m \in Messages : marks[m] \subseteq Marks
    BY <1>1, <1>2, ElementOfSeq, LenProperties, ItemFields
    DEF ViewInv, Typed, ServerTyped, LoadItem
  <1>4. /\ marks' = marks /\ home' = home /\ purged' = purged /\ doing' = doing
        /\ alive' = alive
    BY <1>2 DEF server
  <1>5. /\ page'.active = page.active /\ page'.loading = FALSE
        /\ page.doubted \ {x.chat} \subseteq page'.doubted
        /\ x.chat \notin page'.doubted => ~x.late
        /\ ~page'.blurred => /\ x.chat = page.active /\ ~x.late /\ ~Doing(x.chat)
                             /\ page'.shown = x.data
    BY <1>1, ApplyLoadScreen
  <1>6. MarksFit' /\ AnswersFaithful' /\ AnswersFirst'
    BY <1>2, TakenSync
  <1>7. ASSUME NEW c \in Chats, Settled(c)'
        PROVE  Settled(c) \/ (Fresh(t) /\ flight[t].chat = c)
    <2>1. CASE x.chat = c
      BY <1>1, <1>2, <1>5, <1>7, <2>1 DEF Settled, Quiet, Fresh
    <2>2. CASE x.chat # c
      <3>1. Loading(c) => Loading(c)'
        BY <1>1, <1>2, <2>2, TakenLoading
      <3>2. QED
        BY <1>2, <1>4, <1>5, <1>7, <2>2, <3>1 DEF Settled, Quiet, ByOthers
    <2>3. QED
      BY <2>1, <2>2
  <1>8. WipesFaithful'
    BY <1>2, <1>7, TakenWipes
  <1>9. Spins'
    BY <1>5 DEF Spins
  <1>10. ASSUME NEW c \in Chats, Quiet(c)', ~page'.blurred
         PROVE  ScreenOK(c)
    <2>1. x.chat = c /\ page'.shown = x.data /\ Fresh(t) /\ line = "up"
      BY <1>1, <1>2, <1>5, <1>10 DEF Quiet, Fresh
    <2>2. Known(marks, flight, x.data, t) /\ Due(marks, home, purged, flight, x.data, c, t)
      BY <1>1, <2>1 DEF SyncInv, AnswersFaithful, Faithful
    <2>3. t \in Nat /\ t >= 1
      BY <1>3, LenProperties
    <2>4. flight' \in Seq(Items) /\ Removed(flight, flight', t)
      BY <1>2, <1>3, TakenRemoved
    <2>5. ASSUME NEW m \in DOMAIN x.data
          PROVE  Current(marks', flight', x.data[m], m, 0)
      <3>1. m \in Messages /\ Current(marks, flight, x.data[m], m, t)
        BY <1>3, <2>2, <2>5, ListMembers DEF Known
      <3>2. Current(marks', flight', x.data[m], m, t - 1)
        BY <1>2, <1>4, <2>3, <3>1, OneTaken
      <3>3. t - 1 \in Nat /\ 0 \in Nat /\ 0 <= t - 1
        BY <2>3
      <3>4. QED
        BY <2>4, <3>2, <3>3, CurrentBefore
    <2>6. ASSUME NEW m \in Messages \ DOMAIN x.data, home[m] = c, m \notin purged
          PROVE  Coming(marks, flight', m, 0)
      <3>1. Coming(marks, flight, m, t)
        BY <2>2, <2>6 DEF Due
      <3>2. \A j \in DOMAIN flight : j < t /\ LiveNew(flight[j], m) =>
               Overtakes(flight[t], flight[j])
        <4>1. SUFFICES ASSUME NEW j \in DOMAIN flight, LiveNew(flight[j], m)
                       PROVE  Overtakes(flight[t], flight[j])
          OBVIOUS
        <4>2. flight[j].chat = flight[t].chat /\ IsNew(flight[j]) /\ flight[j].msg = m
          BY <1>1, <2>1, <2>6, <4>1, OfItsChat DEF LiveNew, IsNew
        <4>3. QED
          BY <1>1, <1>2, <2>6, <4>2 DEF Overtakes
      <3>3. QED
        BY <1>3, <2>4, <3>1, <3>2, ComingAfter
    <2>7. Known(marks', flight', page'.shown, 0)
      BY <2>1, <2>5 DEF Known
    <2>8. Due(marks', home', purged', flight', page'.shown, c, 0)
      BY <1>4, <2>1, <2>6 DEF Due
    <2>9. QED
      BY <2>7, <2>8 DEF ScreenOK
  <1>11. QED
    BY <1>6, <1>8, <1>9, <1>10, SyncTogether

----------------------------------------------------------------------------
(* Steps that take nothing: what is under way keeps its place.             *)

\* What was coming of chat c, seen from the i-th item, still is, and so is what is new.
Going(c, i) ==
    \A m \in Messages : home'[m] = c /\ m \notin purged' =>
       \/ Coming(marks', flight', m, i)
       \/ /\ home[m] = c /\ m \notin purged
          /\ \A j \in DOMAIN flight : j > i /\ LiveNew(flight[j], m) => LiveNew(flight'[j], m)
          /\ \A j \in DOMAIN flight' \ DOMAIN flight : ~LiveNew(flight'[j], m)

\* What is under way does what it did, or is late.
InPlace ==
    /\ DOMAIN flight \subseteq DOMAIN flight'
    /\ \A j \in DOMAIN flight : Later(flight[j], flight'[j])
    /\ \A m \in Messages : /\ marks[m] \subseteq marks'[m]
                           /\ \A k \in marks'[m] \ marks[m] : MarkOn(flight', m, k, Len(flight))

\* So what was current and what was coming is, seen from the same place.
LEMMA InPlaceOn ==
    ASSUME ViewInv, ViewInv', InPlace, NEW c, NEW i \in Nat, i <= Len(flight)
    PROVE  CurrentOn(c, i, i) /\ (Going(c, i) => ComingOn(c, i, i))
  <1>1. /\ flight \in Seq(Items) /\ flight' \in Seq(Items)
        /\ \A m \in Messages : marks'[m] \subseteq Marks
    BY DEF ViewInv, Typed, ServerTyped
  <1>2. CurrentOn(c, i, i)
    <2>1. ASSUME NEW m \in Messages, NEW x \in Faces, Current(marks, flight, x, m, i)
          PROVE  Current(marks', flight', x, m, i)
      <3>1. Grown(marks, flight, marks', flight', m)
        BY DEF InPlace, Grown
      <3>2. QED
        BY <1>1, <2>1, <3>1, CurrentGrown
    <2>2. QED
      BY <2>1 DEF CurrentOn
  <1>3. ASSUME Going(c, i)
        PROVE  ComingOn(c, i, i)
    <2>1. ASSUME NEW m \in Messages, Coming(marks, flight, m, i),
                 \A j \in DOMAIN flight : j > i /\ LiveNew(flight[j], m) => LiveNew(flight'[j], m),
                 \A j \in DOMAIN flight' \ DOMAIN flight : ~LiveNew(flight'[j], m)
          PROVE  Coming(marks', flight', m, i)
      <3>1. Grown(marks, flight, marks', flight', m)
        BY DEF InPlace, Grown
      <3>2. QED
        BY <1>1, <2>1, <3>1, ComingGrown
    <2>2. QED
      BY <1>3, <2>1 DEF ComingOn, Going
  <1>4. QED
    BY <1>2, <1>3

\* Answers that the step keeps or brings, and what it says of the news that empties a list.
AnswersKept ==
    line = "up" => \A k \in DOMAIN flight' : Fresh(k)' =>
        Faithful(k)' \/ (k \in DOMAIN flight /\ Going(flight[k].chat, k))
WipesKept ==
    \A c \in Chats : Settled(c)' =>
       \A k \in DOMAIN flight' : Emptying(k)' /\ flight'[k].chat = c =>
          Bare(c)' \/ (k \in DOMAIN flight /\ Settled(c) /\ Going(c, k))
OrderKept ==
    \A i, k \in DOMAIN flight' :
       i < k /\ Fresh(i)' /\ Emptying(k)' /\ flight'[i].chat = flight'[k].chat =>
          \/ ByOthers(flight[k].chat)'
          \/ k \in DOMAIN flight /\ ~ByOthers(flight'[k].chat)
ScreenKept ==
    \A c \in Chats : Quiet(c)' /\ ~page'.blurred =>
       /\ Quiet(c) /\ ~page.blurred /\ page'.shown = page.shown
       /\ Settled(c)' => Bare(c)' \/ (Settled(c) /\ Going(c, 0))

\* Items that set a mark fit, when they are what items were, or fit by themselves.
LEMMA MarksStay ==
    ASSUME ChatViewAssumption, ViewInv, SyncInv, HomeStays,
           \A m \in Messages : marks[m] \subseteq marks'[m],
           \A k \in DOMAIN flight' :
              \/ Fits(marks', home', flight'[k])
              \/ \E j \in DOMAIN flight : Later(flight[j], flight'[k])
    PROVE  MarksFit'
  <1>1. SUFFICES ASSUME NEW k \in DOMAIN flight', NEW j \in DOMAIN flight,
                        Later(flight[j], flight'[k]), NEW m \in Messages, NEW l \in Marks,
                        Marking(flight'[k], m, l)
                 PROVE  l \in marks'[m] /\ home'[m] = flight'[k].chat
    BY DEF MarksFit, Fits
  <1>2. flight[j].chat \in Chats /\ None \notin Chats
    BY ChatViewAssumption, ElementOfSeq, LenProperties, ItemFields
    DEF ViewInv, Typed, ChatViewAssumption
  <1>3. Marking(flight[j], m, l) /\ flight'[k].chat = flight[j].chat
    BY <1>1 DEF Later
  <1>4. l \in marks[m] /\ home[m] = flight[j].chat
    BY <1>3 DEF SyncInv, MarksFit, Fits
  <1>5. QED
    BY <1>2, <1>3, <1>4 DEF HomeStays

\* A step that keeps all these keeps the open chat as good as it was.
LEMMA InPlaceSync ==
    ASSUME ChatViewAssumption, ViewInv, ViewInv', SyncInv, HomeStays, line' = line, InPlace,
           \A k \in DOMAIN flight' \ DOMAIN flight : Fits(marks', home', flight'[k]),
           AnswersKept, WipesKept, OrderKept, ScreenKept, Spins'
    PROVE  SyncInv'
  <1>0. /\ flight \in Seq(Items) /\ flight' \in Seq(Items) /\ None \notin Chats
        /\ Len(flight) \in Nat /\ DOMAIN flight = 1..Len(flight) /\ DOMAIN flight' = 1..Len(flight')
        /\ \A j \in DOMAIN flight : flight[j] \in Items /\ flight[j].chat \in Chats
    BY ChatViewAssumption, ElementOfSeq, LenProperties, ItemFields
    DEF ViewInv, Typed, ChatViewAssumption
  <1>1. \A j \in DOMAIN flight : j \in DOMAIN flight' /\ Later(flight[j], flight'[j])
    BY DEF InPlace
  <1>2. \A m \in Messages : marks[m] \subseteq marks'[m]
    BY DEF InPlace
  <1>3. MarksFit'
    BY <1>1, <1>2, MarksStay
  <1>4. AnswersFaithful'
    <2>1. ASSUME line' = "up", NEW k \in DOMAIN flight', Fresh(k)'
          PROVE  \/ Faithful(k)'
                 \/ \E i \in DOMAIN flight :
                       /\ Later(flight[i], flight'[k])
                       /\ CurrentOn(flight[i].chat, i, k) /\ ComingOn(flight[i].chat, i, k)
      <3>1. SUFFICES ASSUME k \in DOMAIN flight, Going(flight[k].chat, k)
                     PROVE  /\ Later(flight[k], flight'[k])
                            /\ CurrentOn(flight[k].chat, k, k) /\ ComingOn(flight[k].chat, k, k)
        BY <2>1 DEF AnswersKept
      <3>2. k \in Nat /\ k <= Len(flight)
        BY <1>0, <3>1
      <3>3. QED
        BY <1>1, <3>1, <3>2, InPlaceOn
    <2>2. QED
      BY <2>1, AnswersStay
  <1>5. WipesFaithful'
    <2>1. SUFFICES ASSUME NEW c \in Chats, Settled(c)', NEW k \in DOMAIN flight', Emptying(k)',
                          flight'[k].chat = c
                   PROVE  Due(marks', home', purged', flight', Empty, c, k)
      BY DEF WipesFaithful
    <2>2. CASE Bare(c)'
      BY <2>2 DEF Bare, Due
    <2>3. CASE k \in DOMAIN flight /\ Settled(c) /\ Going(c, k)
      <3>1. k \in Nat /\ k <= Len(flight)
        BY <1>0, <2>3
      <3>2. ComingOn(c, k, k)
        BY <2>3, <3>1, InPlaceOn
      <3>3. Emptying(k) /\ flight[k].chat = c
        BY <1>1, <2>1, <2>3 DEF Emptying, Later
      <3>4. Due(marks, home, purged, flight, Empty, c, k)
        BY <2>3, <3>3 DEF SyncInv, WipesFaithful
      <3>5. QED
        BY <3>2, <3>4, DueOn
    <2>4. QED
      BY <2>1, <2>2, <2>3 DEF WipesKept
  <1>6. AnswersFirst'
    <2>1. SUFFICES ASSUME line = "up", NEW i \in DOMAIN flight', NEW k \in DOMAIN flight',
                          i < k, Fresh(i)', Emptying(k)', flight'[i].chat = flight'[k].chat,
                          k \in DOMAIN flight, ~ByOthers(flight'[k].chat)
                   PROVE  FALSE
      BY DEF AnswersFirst, OrderKept, ByOthers
    <2>2. i \in DOMAIN flight
      BY <1>0, <2>1
    <2>3. Fresh(i) /\ flight[i].chat = flight'[i].chat
      BY <1>1, <2>1, <2>2 DEF Fresh, Later
    <2>4. Emptying(k) /\ flight[k].chat = flight'[k].chat
      BY <1>1, <2>1 DEF Emptying, Later
    <2>5. QED
      BY <2>1, <2>2, <2>3, <2>4 DEF SyncInv, AnswersFirst
  <1>7. ASSUME NEW c \in Chats, Quiet(c)', ~page'.blurred
        PROVE  ScreenOK(c)
    <2>1. /\ Quiet(c) /\ ~page.blurred /\ page'.shown = page.shown
          /\ Settled(c)' => Bare(c)' \/ (Settled(c) /\ Going(c, 0))
      BY <1>7 DEF ScreenKept
    <2>2. CurrentOn(c, 0, 0) /\ (Going(c, 0) => ComingOn(c, 0, 0))
      BY <1>0, InPlaceOn
    <2>3. /\ Known(marks', flight', page'.shown, 0)
          /\ Settled(c) /\ ComingOn(c, 0, 0) =>
                Due(marks', home', purged', flight', page'.shown, c, 0)
      BY <2>1, <2>2, ScreenStays
    <2>4. Bare(c)' => Due(marks', home', purged', flight', page'.shown, c, 0)
      BY DEF Bare, Due
    <2>5. QED
      BY <2>1, <2>2, <2>3, <2>4 DEF ScreenOK
  <1>8. QED
    BY <1>3, <1>4, <1>5, <1>6, <1>7, SyncTogether

\* What is being loaded still is.
LEMMA LoadingStays ==
    ASSUME \A y \in Chats \X BOOLEAN : asked[y] > 0 => asked'[y] > 0,
           DOMAIN flight \subseteq DOMAIN flight',
           \A j \in DOMAIN flight : flight[j].kind = "messages" =>
              flight'[j].kind = "messages" /\ flight'[j].chat = flight[j].chat,
           NEW c \in Chats, Loading(c)
    PROVE  Loading(c)'
  <1>1. CASE \E served \in BOOLEAN : asked[<<c, served>>] > 0
    <2>1. PICK served \in BOOLEAN : asked[<<c, served>>] > 0
      BY <1>1
    <2>2. asked'[<<c, served>>] > 0
      BY <2>1
    <2>3. QED
      BY <2>2 DEF Loading
  <1>2. CASE \E i \in DOMAIN flight : flight[i].kind = "messages" /\ flight[i].chat = c
    BY <1>2 DEF Loading
  <1>3. QED
    BY <1>1, <1>2 DEF Loading

\* The spinner stays as it is.
LEMMA SpinsStay ==
    ASSUME ChatViewAssumption, ViewInv, SyncInv, page'.active = page.active,
           page'.loading => page.loading, \A c \in Chats : Loading(c) => Loading(c)'
    PROVE  Spins'
  <1>1. SUFFICES ASSUME page'.active # None, page'.loading, ~Loading(page.active)'
                 PROVE  FALSE
    BY DEF Spins
  <1>2. page.active \in Chats
    BY <1>1 DEF ViewInv, Typed, ClientTyped, Page
  <1>3. Loading(page.active)
    BY <1>1 DEF SyncInv, Spins
  <1>4. QED
    BY <1>1, <1>2, <1>3

\* An item is itself, and does what it would.
LEMMA LaterItself ==
    \A x : Later(x, x)
  BY DEF Later

\* Nothing more is under way, or one more item that is nothing new.
LEMMA SameOn ==
    ASSUME ViewInv, marks' = marks, home' = home, purged' = purged,
           NEW x \in Items, flight' \in {flight, Append(flight, x)}
    PROVE  /\ InPlace /\ HomeStays
           /\ \A j \in DOMAIN flight : flight'[j] = flight[j]
           /\ \A k \in DOMAIN flight' \ DOMAIN flight : k = Len(flight) + 1 /\ flight'[k] = x
           /\ (\A m \in Messages : ~LiveNew(x, m)) => \A c, i : Going(c, i)
  <1>1. flight \in Seq(Items)
    BY DEF ViewInv, Typed
  <1>2. /\ DOMAIN flight \subseteq DOMAIN flight'
        /\ \A j \in DOMAIN flight : flight'[j] = flight[j]
        /\ \A k \in DOMAIN flight' \ DOMAIN flight : k = Len(flight) + 1 /\ flight'[k] = x
    <2>1. CASE flight' = flight
      BY <2>1
    <2>2. CASE flight' = Append(flight, x)
      BY <1>1, <2>2, SentFlight
    <2>3. QED
      BY <2>1, <2>2
  <1>3. InPlace
    BY <1>2, LaterItself DEF InPlace
  <1>4. ASSUME \A m \in Messages : ~LiveNew(x, m), NEW c, NEW i
        PROVE  Going(c, i)
    BY <1>2, <1>4 DEF Going
  <1>5. QED
    BY <1>2, <1>3, <1>4 DEF HomeStays

\* While the socket is down there is nothing to say of what is shown.
LEMMA DownSync ==
    ASSUME line' # "up", MarksFit', Spins'
    PROVE  SyncInv'
  BY DEF SyncInv, AnswersFaithful, WipesFaithful, AnswersFirst, ScreenKnown, ScreenDue, Settled,
     Quiet

\* A step in which no chat settles, and that keeps what is coming of the open one.
LEMMA CalmSync ==
    ASSUME ChatViewAssumption, ViewInv, ViewInv', SyncInv, HomeStays, line' = line, InPlace,
           \A k \in DOMAIN flight' \ DOMAIN flight : Fits(marks', home', flight'[k]),
           AnswersKept, Spins',
           \A c \in Chats : Quiet(c)' => Quiet(c),
           ~page'.blurred => ~page.blurred /\ page'.shown = page.shown,
           \A c \in Chats : ByOthers(c) =>
              \/ ByOthers(c)'
              \/ ~Quiet(c)' /\ \A k \in DOMAIN flight' : flight'[k].chat = c => flight'[k].late,
           \A c \in Chats, k \in DOMAIN flight' \ DOMAIN flight :
              Wipes(flight'[k]) /\ flight'[k].chat = c => ByOthers(c)',
           \A i \in 0..Len(flight) : line = "up" => Going(page.active, i)
    PROVE  SyncInv'
  <1>0. /\ flight \in Seq(Items) /\ flight' \in Seq(Items)
        /\ Len(flight) \in Nat /\ DOMAIN flight = 1..Len(flight)
        /\ \A k \in DOMAIN flight' : flight'[k].chat \in Chats
    BY ElementOfSeq, LenProperties, ItemFields DEF ViewInv, Typed
  <1>1. \A c \in Chats : Settled(c)' => Settled(c) /\ c = page.active /\ line = "up"
    BY DEF Settled, Quiet
  <1>2. WipesKept
    <2>1. SUFFICES ASSUME NEW c \in Chats, Settled(c)', NEW k \in DOMAIN flight', Emptying(k)',
                          flight'[k].chat = c
                   PROVE  k \in DOMAIN flight /\ Settled(c) /\ Going(c, k)
      BY DEF WipesKept
    <2>2. k \in DOMAIN flight
      BY <2>1 DEF Emptying, Settled
    <2>3. Going(page.active, k)
      BY <1>0, <1>1, <2>1, <2>2
    <2>4. QED
      BY <1>1, <2>1, <2>2, <2>3
  <1>3. OrderKept
    <2>1. SUFFICES ASSUME NEW i \in DOMAIN flight', NEW k \in DOMAIN flight',
                          i < k, Fresh(i)', Emptying(k)', flight'[i].chat = flight'[k].chat,
                          NEW c \in Chats, c = flight'[k].chat,
                          ~(k \in DOMAIN flight /\ ~ByOthers(c))
                   PROVE  ByOthers(c)'
      BY <1>0 DEF OrderKept, ByOthers
    <2>2. CASE k \notin DOMAIN flight
      BY <2>1, <2>2 DEF Emptying
    <2>3. CASE ByOthers(c)
      BY <2>1, <2>3 DEF Fresh
    <2>4. QED
      BY <2>1, <2>2, <2>3
  <1>4. ScreenKept
    <2>1. SUFFICES ASSUME NEW c \in Chats, Quiet(c)', ~page'.blurred
                   PROVE  /\ Quiet(c) /\ ~page.blurred /\ page'.shown = page.shown
                          /\ Settled(c)' => Settled(c) /\ Going(c, 0)
      BY DEF ScreenKept
    <2>2. 0 \in 0..Len(flight)
      BY <1>0
    <2>3. Settled(c)' => Settled(c) /\ Going(c, 0)
      BY <1>1, <2>2
    <2>4. QED
      BY <2>1, <2>3
  <1>5. QED
    BY <1>2, <1>3, <1>4, InPlaceSync

\* No chat becomes quiet when the page has the same chat open with no less doubt.
LEMMA NotQuieter ==
    ASSUME ChatViewAssumption, line' = line, page'.active = page.active,
           page.doubted \subseteq page'.doubted, alive' \subseteq alive,
           \A c \in Chats : Loading(c) => Loading(c)'
    PROVE  \A c \in Chats : Quiet(c)' => Quiet(c)
  BY QuietBefore DEF SameOpen

\* The server answers a request for messages.
LEMMA AnswerLoadSync ==
    ASSUME ChatViewAssumption, ViewInv, ViewInv', SyncInv, NEW c \in Chats, NEW b \in BOOLEAN,
           AnswerLoad(c, b)
    PROVE  SyncInv'
  <1>1. /\ asked[<<c, b>>] > 0 /\ asked' = Sub(asked, <<c, b>>)
        /\ UNCHANGED server /\ line' = line /\ page' = page
    BY DEF AnswerLoad
  <1>2. PICK l \in BOOLEAN : l = Doing(c)
    BY DEF Doing
  <1>3. PICK x : x = [Answer(c, b) EXCEPT !.late = l]
    OBVIOUS
  <1>4. flight' = Append(flight, x)
    BY <1>2, <1>3 DEF AnswerLoad
  <1>5. ServerTyped /\ flight \in Seq(Items) /\ asked \in Asked
    BY DEF ViewInv, Typed, ClientTyped
  <1>6. x \in Items /\ x.kind = "messages" /\ x.chat = c /\ x.data = Stored(c)
    BY <1>3, <1>5, AnswerItem
  <1>7. /\ marks' = marks /\ home' = home /\ purged' = purged /\ doing' = doing /\ alive' = alive
    BY <1>1 DEF server
  <1>8. /\ \A m \in Messages : ~LiveNew(x, m)
        /\ \A m \in Messages, k \in Marks : ~Marking(x, m, k)
        /\ ~Wipes(x)
    BY <1>6, ChatViewAssumption DEF LiveNew, Marking, Wipes, ChatViewAssumption
  <1>9. /\ InPlace /\ HomeStays
        /\ \A j \in DOMAIN flight : flight'[j] = flight[j]
        /\ \A k \in DOMAIN flight' \ DOMAIN flight : flight'[k] = x
        /\ \A e, i : Going(e, i)
    BY <1>4, <1>6, <1>7, <1>8, SameOn
  <1>10. DOMAIN flight \subseteq DOMAIN flight'
    BY <1>9 DEF InPlace
  <1>11. \E k \in DOMAIN flight' : flight'[k] = x
    BY <1>4, <1>5, <1>6, SentFlight
  <1>12. \A e \in Chats : Loading(e) => Loading(e)'
    <2>1. Loading(c)'
      BY <1>6, <1>11 DEF Loading
    <2>2. ASSUME NEW e \in Chats \ {c}, Loading(e)
          PROVE  Loading(e)'
      <3>1. \A s \in BOOLEAN : asked'[<<e, s>>] = asked[<<e, s>>]
        BY <1>1, <1>5 DEF Sub, Asked
      <3>2. QED
        BY <1>9, <1>10, <2>2, <3>1 DEF Loading
    <2>3. QED
      BY <2>1, <2>2
  <1>13. Spins'
    BY <1>1, <1>12, SpinsStay
  <1>14. \A e \in Chats : Quiet(e)' => Quiet(e)
    BY <1>1, <1>7, <1>12, NotQuieter
  <1>15. \A k \in DOMAIN flight' \ DOMAIN flight : Fits(marks', home', flight'[k])
    BY <1>8, <1>9 DEF Fits
  <1>16. AnswersKept
    <2>1. SUFFICES ASSUME NEW k \in DOMAIN flight' \ DOMAIN flight
                   PROVE  Faithful(k)'
      BY <1>9 DEF AnswersKept
    <2>2. flight'[k].data = Stored(c) /\ flight'[k].chat = c
      BY <1>6, <1>9
    <2>3. DOMAIN Stored(c) = {n \in Messages : home[n] = c /\ n \notin purged}
          /\ \A n \in DOMAIN Stored(c) : Stored(c)[n] = marks[n]
      BY DEF Stored
    <2>4. Known(marks', flight', Stored(c), k)
      BY <1>7, <2>3 DEF Known, Current
    <2>5. Due(marks', home', purged', flight', Stored(c), c, k)
      BY <1>7, <2>3 DEF Due
    <2>6. QED
      BY <2>2, <2>4, <2>5 DEF Faithful
  <1>17. \A k \in DOMAIN flight' \ DOMAIN flight : ~Wipes(flight'[k])
    BY <1>8, <1>9
  <1>18. \A e \in Chats : ByOthers(e) => ByOthers(e)'
    BY <1>7 DEF ByOthers
  <1>19. QED
    BY <1>1, <1>9, <1>13, <1>14, <1>15, <1>16, <1>17, <1>18, CalmSync

\* A request for messages fails.
LEMMA FailLoadSync ==
    ASSUME ChatViewAssumption, ViewInv, ViewInv', SyncInv, NEW c \in Chats, NEW b \in BOOLEAN,
           FailLoad(c, b)
    PROVE  SyncInv'
  <1>1. /\ asked[<<c, b>>] > 0 /\ asked' = Sub(asked, <<c, b>>)
        /\ UNCHANGED server /\ line' = line /\ flight' = flight
    BY DEF FailLoad
  <1>2. PICK p : p = [page EXCEPT !.loading = FALSE,
                                  !.shown = IF b THEN @ ELSE Empty,
                                  !.owner = IF b THEN @ ELSE None]
    OBVIOUS
  <1>3. page' = Doubt(p, c, TRUE)
    BY <1>2 DEF FailLoad
  <1>4. page \in Page /\ asked \in Asked /\ flight \in Seq(Items)
    BY DEF ViewInv, Typed, ClientTyped
  <1>5. p \in Page /\ p.active = page.active /\ p.loading = FALSE /\ p.doubted = page.doubted
    BY <1>2, <1>4, ListMembers DEF Page
  <1>6. /\ page'.active = page.active /\ page'.loading = FALSE
        /\ page.doubted \subseteq page'.doubted /\ c \in page'.doubted /\ page'.blurred
    <2>1. PICK q : q = page.doubted \cup {c}
      OBVIOUS
    <2>2. page' = [p EXCEPT !.doubted = q, !.blurred = TRUE]
      BY <1>3, <1>5, <2>1 DEF Doubt
    <2>3. QED
      BY <1>5, <2>1, <2>2 DEF Page
  <1>7. /\ marks' = marks /\ home' = home /\ purged' = purged /\ doing' = doing /\ alive' = alive
    BY <1>1 DEF server
  <1>8. HomeStays /\ InPlace /\ \A e, i : Going(e, i)
    BY <1>1, <1>7, LaterItself DEF InPlace, Going, HomeStays
  <1>9. Spins'
    BY <1>6 DEF Spins
  <1>10. \A e \in Chats : Quiet(e)' => Quiet(e)
    <2>1. SUFFICES ASSUME NEW e \in Chats, Quiet(e)'
                   PROVE  Quiet(e)
      OBVIOUS
    <2>2. e # c
      BY <1>6, <2>1 DEF Quiet
    <2>3. \A s \in BOOLEAN : asked'[<<e, s>>] = asked[<<e, s>>]
      BY <1>1, <1>4, <2>2 DEF Sub, Asked
    <2>4. Loading(e) => Loading(e)'
      BY <1>1, <2>3 DEF Loading
    <2>5. QED
      BY <1>1, <1>6, <1>7, <2>1, <2>4 DEF Quiet
  <1>11. AnswersKept
    BY <1>1, <1>8 DEF AnswersKept
  <1>12. \A e \in Chats : ByOthers(e) => ByOthers(e)'
    BY <1>7 DEF ByOthers
  <1>13. QED
    BY <1>1, <1>6, <1>8, <1>9, <1>10, <1>11, <1>12, CalmSync

\* The page changes in what is neither shown nor doubted.
LEMMA AsideSync ==
    ASSUME ChatViewAssumption, ViewInv, ViewInv', SyncInv, UNCHANGED server, line' = line,
           flight' = flight, asked' = asked, page'.active = page.active,
           page'.loading = page.loading, page'.doubted = page.doubted,
           page'.blurred = page.blurred, page'.shown = page.shown
    PROVE  SyncInv'
  <1>1. /\ marks' = marks /\ home' = home /\ purged' = purged /\ doing' = doing /\ alive' = alive
    BY DEF server
  <1>2. HomeStays /\ InPlace /\ \A e, i : Going(e, i)
    BY <1>1, LaterItself DEF InPlace, Going, HomeStays
  <1>3. \A e \in Chats : Loading(e) => Loading(e)'
    BY DEF Loading
  <1>4. Spins' /\ \A e \in Chats : Quiet(e)' => Quiet(e)
    BY <1>1, <1>3, SpinsStay, NotQuieter
  <1>5. AnswersKept
    BY <1>2 DEF AnswersKept
  <1>6. \A e \in Chats : ByOthers(e) => ByOthers(e)'
    BY <1>1 DEF ByOthers
  <1>7. QED
    BY <1>2, <1>4, <1>5, <1>6, CalmSync

\* The list of chats is loaded, or is not.
LEMMA EndListSync ==
    ASSUME ChatViewAssumption, ViewInv, ViewInv', SyncInv, NEW data \in {Listed, None},
           EndList(data)
    PROVE  SyncInv'
  <1>1. /\ page' = IF data = None THEN page ELSE [page EXCEPT !.chats = data, !.saved = data]
        /\ UNCHANGED server /\ line' = line /\ asked' = asked /\ flight' = flight
    BY DEF EndList
  <1>2. page \in Page
    BY DEF ViewInv, Typed, ClientTyped
  <1>3. /\ page'.active = page.active /\ page'.loading = page.loading
        /\ page'.doubted = page.doubted /\ page'.blurred = page.blurred
        /\ page'.shown = page.shown
    BY <1>1, <1>2 DEF Page
  <1>4. QED
    BY <1>1, <1>3, AsideSync

\* A message is sent: it is coming, with the marks it has.
LEMMA SendSync ==
    ASSUME ChatViewAssumption, ViewInv, ViewInv', SyncInv, NEW c \in Chats, NEW m \in Messages,
           Send(c, m)
    PROVE  SyncInv'
  <1>1. PICK x : x = SentNew(m, c)
    OBVIOUS
  <1>2. /\ home[m] = None
        /\ home' = [home EXCEPT ![m] = c]
        /\ flight' = IF line = "up" THEN Append(flight, x) ELSE flight
        /\ marks' = marks /\ purged' = purged /\ alive' = alive /\ doing' = doing
        /\ line' = line /\ asked' = asked /\ page' = page
    BY <1>1 DEF Send, SentNew
  <1>3. ServerTyped /\ flight \in Seq(Items) /\ None \notin Chats
    BY ChatViewAssumption DEF ViewInv, Typed, ChatViewAssumption
  <1>4. x \in Items /\ x.kind = "new" /\ x.msg = m /\ x.marks = marks[m]
    <2>1. /\ SentNew(m, c) \in Items /\ SentNew(m, c).kind = "new" /\ SentNew(m, c).msg = m
      BY <1>3, SentNewItem
    <2>2. SentNew(m, c).marks = marks[m]
      BY DEF SentNew, New
    <2>3. QED
      BY <1>1, <2>1, <2>2
  <1>5. /\ home'[m] = c /\ \A n \in Messages \ {m} : home'[n] = home[n]
        /\ HomeStays
    BY <1>2, <1>3 DEF ServerTyped, HomeStays
  <1>6. /\ DOMAIN flight \subseteq DOMAIN flight'
        /\ \A j \in DOMAIN flight : flight'[j] = flight[j]
        /\ \A k \in DOMAIN flight' \ DOMAIN flight : k = Len(flight) + 1 /\ flight'[k] = x
        /\ line = "up" => Len(flight) + 1 \in DOMAIN flight' /\ flight'[Len(flight) + 1] = x
    BY <1>2, <1>3, <1>4, SentFlight
  <1>7. \A e \in Chats : Loading(e) => Loading(e)'
    BY <1>2, <1>6, LoadingStays
  <1>8. Spins' /\ \A e \in Chats : Quiet(e)' => Quiet(e)
    BY <1>2, <1>7, SpinsStay, NotQuieter
  <1>9. InPlace
    BY <1>2, <1>6, LaterItself DEF InPlace
  <1>10. \A k \in DOMAIN flight' \ DOMAIN flight :
            Fits(marks', home', flight'[k]) /\ ~Wipes(flight'[k])
    BY <1>4, <1>6, ChatViewAssumption DEF Fits, Marking, Wipes, ChatViewAssumption
  <1>11. CASE line # "up"
    <2>1. MarksFit'
      BY <1>2, <1>5, <1>11, LaterItself, MarksStay
    <2>2. QED
      BY <1>2, <1>8, <1>11, <2>1, DownSync
  <1>12. CASE line = "up"
    <2>1. \A j \in DOMAIN flight : ~LiveNew(flight[j], m)
      <3>1. \A j \in DOMAIN flight : flight[j].chat \in Chats
        BY <1>3, ElementOfSeq, LenProperties, ItemFields
      <3>2. QED
        BY <1>2, <1>3, <3>1, OfItsChat
    <2>2. Len(flight) \in Nat
      BY <1>3, LenProperties
    <2>3. ASSUME NEW i \in 0..Len(flight)
          PROVE  Coming(marks', flight', m, i)
      <3>1. Len(flight) + 1 > i /\ LiveNew(x, m)
        BY <1>4, <2>2 DEF LiveNew
      <3>2. \E j \in DOMAIN flight' : j > i /\ LiveNew(flight'[j], m)
        BY <1>6, <1>12, <3>1
      <3>3. \A j \in DOMAIN flight' : LiveNew(flight'[j], m) => flight'[j].marks = marks'[m]
        BY <1>2, <1>4, <1>6, <2>1
      <3>4. QED
        BY <3>2, <3>3 DEF Coming, Current
    <2>4. ASSUME NEW i \in 0..Len(flight), NEW e
          PROVE  Going(e, i)
      <3>1. ASSUME NEW n \in Messages \ {m}, home'[n] = e, n \notin purged'
            PROVE  /\ home[n] = e /\ n \notin purged
                   /\ \A j \in DOMAIN flight : LiveNew(flight[j], n) => LiveNew(flight'[j], n)
                   /\ \A j \in DOMAIN flight' \ DOMAIN flight : ~LiveNew(flight'[j], n)
        BY <1>2, <1>4, <1>5, <1>6, <3>1 DEF LiveNew
      <3>2. QED
        BY <2>3, <3>1 DEF Going
    <2>5. AnswersKept
      <3>1. SUFFICES ASSUME NEW k \in DOMAIN flight', Fresh(k)'
                     PROVE  k \in DOMAIN flight /\ Going(flight[k].chat, k)
        BY DEF AnswersKept
      <3>2. k \in DOMAIN flight
        BY <1>4, <1>6, <3>1 DEF Fresh
      <3>3. k \in 0..Len(flight)
        BY <1>3, <3>2, LenProperties
      <3>4. QED
        BY <2>4, <3>2, <3>3
    <2>6. \A e \in Chats : ByOthers(e) => ByOthers(e)'
      BY <1>2 DEF ByOthers
    <2>7. QED
      BY <1>2, <1>5, <1>8, <1>9, <1>10, <2>4, <2>5, <2>6, CalmSync
  <1>13. QED
    BY <1>11, <1>12

\* A message is edited, deleted or gets files: the mark is coming.
LEMMA ChangeSync ==
    ASSUME ChatViewAssumption, ViewInv, ViewInv', SyncInv, NEW m \in Messages, NEW mark \in Marks,
           Change(m, mark)
    PROVE  SyncInv'
  <1>1. PICK x : x = Mark(m, mark)
    OBVIOUS
  <1>2. /\ home[m] \in alive
        /\ marks' = [marks EXCEPT ![m] = @ \cup {mark}]
        /\ flight' = IF line = "up" THEN Append(flight, x) ELSE flight
        /\ home' = home /\ purged' = purged /\ alive' = alive /\ doing' = doing
        /\ line' = line /\ asked' = asked /\ page' = page
    BY <1>1 DEF Change, Sent
  <1>3. ServerTyped /\ flight \in Seq(Items) /\ None \notin Chats
    BY ChatViewAssumption DEF ViewInv, Typed, ChatViewAssumption
  <1>4. x \in Items /\ x.kind = mark /\ x.msg = m /\ x.chat = home[m]
    <2>1. home[m] # None
      BY <1>2, <1>3 DEF ServerTyped
    <2>2. Mark(m, mark) \in Items /\ Mark(m, mark).kind = mark
      BY <1>3, <2>1, MarkItemOf
    <2>3. QED
      BY <1>1, <2>2 DEF Mark
  <1>5. /\ \A n \in Messages, k \in Marks : Marking(x, n, k) <=> n = m /\ k = mark
        /\ \A n \in Messages : ~LiveNew(x, n)
        /\ x.kind # "messages" /\ ~Wipes(x)
    BY <1>4, ChatViewAssumption, MarkingKinds DEF Wipes, ChatViewAssumption
  <1>6. /\ marks'[m] = marks[m] \cup {mark}
        /\ \A n \in Messages \ {m} : marks'[n] = marks[n]
        /\ \A n \in Messages : marks[n] \subseteq marks'[n]
        /\ HomeStays
    BY <1>2, <1>3 DEF ServerTyped, HomeStays
  <1>7. /\ DOMAIN flight \subseteq DOMAIN flight'
        /\ \A j \in DOMAIN flight : flight'[j] = flight[j]
        /\ \A k \in DOMAIN flight' \ DOMAIN flight : k = Len(flight) + 1 /\ flight'[k] = x
        /\ line = "up" => Len(flight) + 1 \in DOMAIN flight' /\ flight'[Len(flight) + 1] = x
    BY <1>2, <1>3, <1>4, SentFlight
  <1>8. \A e \in Chats : Loading(e) => Loading(e)'
    BY <1>2, <1>7, LoadingStays
  <1>9. Spins' /\ \A e \in Chats : Quiet(e)' => Quiet(e)
    BY <1>2, <1>8, SpinsStay, NotQuieter
  <1>10. CASE line # "up"
    <2>1. MarksFit'
      BY <1>2, <1>6, <1>10, LaterItself, MarksStay
    <2>2. QED
      BY <1>2, <1>9, <1>10, <2>1, DownSync
  <1>11. CASE line = "up"
    <2>1. InPlace
      <3>1. MarkOn(flight', m, mark, Len(flight))
        <4>1. Len(flight) + 1 > Len(flight)
          BY <1>3, LenProperties
        <4>2. QED
          BY <1>5, <1>7, <1>11, <4>1 DEF MarkOn
      <3>2. ASSUME NEW n \in Messages, NEW k \in marks'[n] \ marks[n]
            PROVE  MarkOn(flight', n, k, Len(flight))
        BY <1>6, <3>1, <3>2
      <3>3. QED
        BY <1>6, <1>7, <3>2, LaterItself DEF InPlace
    <2>2. ASSUME NEW k \in DOMAIN flight' \ DOMAIN flight
          PROVE  Fits(marks', home', flight'[k]) /\ ~Wipes(flight'[k])
      BY <1>2, <1>4, <1>5, <1>6, <1>7, <2>2 DEF Fits
    <2>3. \A e, i : Going(e, i)
      BY <1>2, <1>5, <1>7 DEF Going
    <2>4. AnswersKept
      BY <1>5, <1>7, <2>3 DEF AnswersKept, Fresh
    <2>5. \A e \in Chats : ByOthers(e) => ByOthers(e)'
      BY <1>2 DEF ByOthers
    <2>6. QED
      BY <1>2, <1>6, <1>9, <2>1, <2>2, <2>3, <2>4, <2>5, CalmSync
  <1>12. QED
    BY <1>10, <1>11

\* A group changes, or its pins.
LEMMA ChangeGroupSync ==
    ASSUME ChatViewAssumption, ViewInv, ViewInv', SyncInv, NEW c \in Chats, NEW out \in BOOLEAN,
           ChangeGroup(c, out)
    PROVE  SyncInv'
  <1>1. PICK x : x = Word("changed", c)
    OBVIOUS
  <1>2. /\ alive' \subseteq alive
        /\ flight' \in {flight, Append(flight, x)}
        /\ home' = home /\ purged' = purged /\ marks' = marks /\ doing' = doing
        /\ line' = line /\ asked' = asked /\ page' = page
    BY <1>1 DEF ChangeGroup, Sent
  <1>3. x \in Items /\ x.kind = "changed"
    BY <1>1, WordItemOf
  <1>4. /\ \A m \in Messages : ~LiveNew(x, m)
        /\ \A m \in Messages, k \in Marks : ~Marking(x, m, k)
        /\ ~Wipes(x) /\ x.kind # "messages"
    BY <1>3, ChatViewAssumption DEF LiveNew, Marking, Wipes, ChatViewAssumption
  <1>5. /\ InPlace /\ HomeStays
        /\ \A j \in DOMAIN flight : flight'[j] = flight[j]
        /\ \A k \in DOMAIN flight' \ DOMAIN flight : flight'[k] = x
        /\ \A e, i : Going(e, i)
    BY <1>2, <1>3, <1>4, SameOn
  <1>6. DOMAIN flight \subseteq DOMAIN flight'
    BY <1>5 DEF InPlace
  <1>7. \A e \in Chats : Loading(e) => Loading(e)'
    BY <1>2, <1>5, <1>6, LoadingStays
  <1>8. Spins' /\ \A e \in Chats : Quiet(e)' => Quiet(e)
    BY <1>2, <1>7, SpinsStay, NotQuieter
  <1>9. \A k \in DOMAIN flight' \ DOMAIN flight :
           Fits(marks', home', flight'[k]) /\ ~Wipes(flight'[k])
    BY <1>4, <1>5 DEF Fits
  <1>10. AnswersKept
    BY <1>4, <1>5 DEF AnswersKept, Fresh
  <1>11. \A e \in Chats : ByOthers(e) => ByOthers(e)'
    BY <1>2 DEF ByOthers
  <1>12. QED
    BY <1>2, <1>5, <1>8, <1>9, <1>10, <1>11, CalmSync

\* Somebody announces that a chat is cleared, deleted or left.
LEMMA AnnounceSync ==
    ASSUME ChatViewAssumption, ViewInv, ViewInv', SyncInv, NEW c \in Chats,
           NEW kind \in {"cleared", "gone", "left"}, NEW mine \in BOOLEAN, NEW told \in BOOLEAN,
           Announce(c, kind, mine, told)
    PROVE  SyncInv'
  <1>1. PICK e : e = [chat |-> c, kind |-> kind, mine |-> mine]
    OBVIOUS
  <1>2. PICK b \in BOOLEAN : b = (line = "down" /\ ~mine)
    OBVIOUS
  <1>3. PICK x : x = IF told /\ line = "up" THEN Word(kind, c) ELSE Word("changed", c)
    OBVIOUS
  <1>4. /\ kind = "left" => mine
        /\ told \in (IF ~mine THEN {TRUE} ELSE IF kind = "gone" THEN BOOLEAN ELSE {FALSE})
        /\ doing' = doing \cup {e}
        /\ flight' = IF told /\ line = "up" THEN Append(flight, x) ELSE flight
        /\ page' = Doubt(page, c, b)
        /\ home' = home /\ purged' = purged /\ marks' = marks /\ alive' = alive
        /\ line' = line /\ asked' = asked
    BY <1>1, <1>2, <1>3 DEF Announce, Sent
  <1>5. x \in Items /\ x.chat = c /\ x.kind \in {"cleared", "gone", "changed"}
        /\ (x.kind = "cleared" => ~mine)
    <2>1. CASE told /\ line = "up"
      <3>1. kind \in {"cleared", "gone"} /\ (kind = "cleared" => ~mine)
        BY <1>4, <2>1
      <3>2. Word(kind, c) \in Items /\ Word(kind, c).kind = kind /\ Word(kind, c).chat = c
        BY <3>1, WordItemOf
      <3>3. QED
        BY <1>3, <2>1, <3>1, <3>2
    <2>2. CASE ~(told /\ line = "up")
      <3>1. x = Word("changed", c)
        BY <1>3, <2>2
      <3>2. QED
        BY <3>1, WordItemOf
    <2>3. QED
      BY <2>1, <2>2
  <1>6. /\ \A m \in Messages : ~LiveNew(x, m)
        /\ \A m \in Messages, k \in Marks : ~Marking(x, m, k)
        /\ x.kind # "messages" /\ (Wipes(x) => ~mine)
    BY <1>5, ChatViewAssumption DEF LiveNew, Marking, Wipes, ChatViewAssumption
  <1>7. /\ InPlace /\ HomeStays
        /\ \A j \in DOMAIN flight : flight'[j] = flight[j]
        /\ \A k \in DOMAIN flight' \ DOMAIN flight : flight'[k] = x
        /\ \A d, i : Going(d, i)
    BY <1>4, <1>5, <1>6, SameOn
  <1>8. DOMAIN flight \subseteq DOMAIN flight'
    BY <1>7 DEF InPlace
  <1>9. \A d \in Chats : Loading(d) => Loading(d)'
    BY <1>4, <1>7, <1>8, LoadingStays
  <1>10. PICK q : q = Doubt(page, c, b)
    OBVIOUS
  <1>11. /\ q.active = page.active /\ q.loading = page.loading /\ q.shown = page.shown
         /\ page.doubted \subseteq q.doubted /\ (~q.blurred => ~page.blurred)
    <2>1. page \in Page
      BY DEF ViewInv, Typed, ClientTyped
    <2>2. /\ q.active = page.active /\ q.loading = page.loading /\ q.shown = page.shown
          /\ page.doubted \subseteq q.doubted /\ (b => q.blurred) /\ (~b => q = page)
      BY <1>10, <2>1, DoubtPage DEF Derived
    <2>3. QED
      BY <2>2
  <1>12. /\ page'.active = page.active /\ page'.loading = page.loading
         /\ page'.shown = page.shown
         /\ page.doubted \subseteq page'.doubted /\ (~page'.blurred => ~page.blurred)
    BY <1>4, <1>10, <1>11
  <1>13. Spins' /\ \A d \in Chats : Quiet(d)' => Quiet(d)
    <2>1. line' = line /\ alive' \subseteq alive /\ (page'.loading => page.loading)
      BY <1>4, <1>12
    <2>2. Spins'
      BY <1>9, <1>12, <2>1, SpinsStay
    <2>3. \A d \in Chats : Quiet(d)' => Quiet(d)
      BY <1>9, <1>12, <2>1, NotQuieter
    <2>4. QED
      BY <2>2, <2>3
  <1>14. \A k \in DOMAIN flight' \ DOMAIN flight : Fits(marks', home', flight'[k])
    <2>1. \A k \in DOMAIN flight' \ DOMAIN flight : flight'[k] = x
      BY <1>7
    <2>2. Fits(marks', home', x)
      BY <1>6 DEF Fits
    <2>3. QED
      BY <2>1, <2>2
  <1>15. AnswersKept
    BY <1>6, <1>7 DEF AnswersKept, Fresh
  <1>16. \A d \in Chats : ByOthers(d) => ByOthers(d)'
    BY <1>4 DEF ByOthers
  <1>17. ASSUME NEW d \in Chats, NEW k \in DOMAIN flight' \ DOMAIN flight, Wipes(flight'[k]),
                flight'[k].chat = d
         PROVE  ByOthers(d)'
    <2>1. d = c /\ ~mine
      BY <1>5, <1>6, <1>7, <1>17
    <2>2. e \in doing' /\ e.chat = d /\ ~e.mine
      BY <1>1, <1>4, <2>1
    <2>3. QED
      BY <2>2 DEF ByOthers
  <1>18. QED
    BY <1>4, <1>7, <1>12, <1>13, <1>14, <1>15, <1>16, <1>17, CalmSync

\* A message or an edit starts to be decrypted: whether its chat is open is decided.
LEMMA DecryptSync ==
    ASSUME ChatViewAssumption, ViewInv, ViewInv', SyncInv, NEW t \in DOMAIN flight, Decrypt(t)
    PROVE  SyncInv'
  <1>0. /\ flight \in Seq(Items) /\ flight[t].kind \in {"new", "edited"}
        /\ UNCHANGED server /\ line' = line /\ asked' = asked /\ page' = page
    BY DEF ViewInv, Typed, Decrypt
  <1>1. PICK x : x = flight[t]
    OBVIOUS
  <1>2. PICK s : s = (IF x.chat \in DOMAIN page.chats THEN {} ELSE {"sealed"})
    OBVIOUS
  <1>3. PICK y : /\ y = [kind |-> IF x.kind = "new" THEN "openingNew" ELSE "openingEdit",
                         chat |-> x.chat, msg |-> x.msg, live |-> x.chat = page.active,
                         marks |-> (IF x.kind = "new" THEN x.marks ELSE {}) \cup s,
                         bump |-> /\ x.kind = "new" /\ ~(x.chat = page.active)
                                  /\ x.msg \notin Own /\ ~x.replayed,
                         late |-> x.late]
                 /\ flight' = [Overtaken(x, t) EXCEPT ![t] = y]
    BY <1>1, <1>2 DEF Decrypt
  <1>4. PICK F : F = Overtaken(x, t)
    OBVIOUS
  <1>5. /\ DOMAIN F = DOMAIN flight /\ F \in Seq(Items)
        /\ \A j \in DOMAIN flight : Aged(flight[j], F[j])
    BY <1>0, <1>1, <1>4, OvertakenAges
  <1>6. \A j \in DOMAIN flight : j < t /\ Overtakes(x, flight[j]) => F[j].late
    <2>1. SUFFICES ASSUME NEW j \in DOMAIN flight, j < t, Overtakes(x, flight[j])
                   PROVE  F[j].late
      OBVIOUS
    <2>2. F[j] = [flight[j] EXCEPT !.late = TRUE]
      BY <1>4, <2>1 DEF Overtaken
    <2>3. flight[j] \in Items /\ flight[j].late \in BOOLEAN
      BY <1>0, ElementOfSeq, LenProperties, ItemFields
    <2>4. QED
      BY <2>2, <2>3, AgedLate
  <1>7. /\ DOMAIN flight' = DOMAIN flight /\ flight'[t] = y
        /\ \A j \in DOMAIN flight \ {t} : flight'[j] = F[j]
    BY <1>3, <1>4, <1>5
  <1>8. \A j \in DOMAIN flight \ {t} : Stays(flight[j], flight'[j])
    <2>1. \A j \in DOMAIN flight : flight[j] \in Items
      BY <1>0, ElementOfSeq, LenProperties
    <2>2. QED
      BY <1>5, <1>7, <2>1, AgedStays
  <1>9. /\ y.chat = x.chat /\ y.msg = x.msg /\ y.late = x.late
        /\ x.kind = "new" => y.kind = "openingNew" /\ y.marks = x.marks \cup s
        /\ x.kind # "new" => y.kind = "openingEdit"
        /\ y.live = (x.chat = page.active)
    BY <1>3
  <1>10. Later(x, y)
    <2>1. ASSUME NEW m \in Messages, NEW k \in Marks
          PROVE  Marking(x, m, k) <=> Marking(y, m, k)
      BY <1>0, <1>1, <1>9, ChatViewAssumption DEF Marking, ChatViewAssumption
    <2>2. ASSUME NEW m \in Messages, LiveNew(y, m)
          PROVE  LiveNew(x, m) /\ (Spoilt(x) => Spoilt(y)) /\ (Spoilt(y) \/ y.marks = x.marks)
      <3>1. x.kind = "new" /\ y.marks = x.marks \cup s /\ y.msg = m
        BY <1>9, <2>2 DEF LiveNew
      <3>2. s = {} \/ s = {"sealed"}
        BY <1>2
      <3>3. QED
        BY <1>9, <3>1, <3>2 DEF LiveNew, Spoilt
    <2>3. y.kind # "messages" /\ ~Wipes(y)
      BY <1>9 DEF Wipes
    <2>4. QED
      BY <1>9, <2>1, <2>2, <2>3 DEF Later
  <1>11. ASSUME NEW m \in Messages, LiveNew(x, m), x.chat = page.active
         PROVE  LiveNew(y, m)
    BY <1>0, <1>1, <1>9, <1>11 DEF LiveNew
  <1>12. /\ marks' = marks /\ home' = home /\ purged' = purged /\ doing' = doing /\ alive' = alive
         /\ HomeStays
    BY <1>0 DEF server, HomeStays
  <1>13. InPlace
    BY <1>1, <1>7, <1>8, <1>10, <1>12 DEF InPlace, Stays
  <1>14. ASSUME NEW c, NEW i,
                ~(i < t) \/ c = page.active \/ x.chat # c \/ \A m \in Messages : ~LiveNew(x, m)
         PROVE  Going(c, i)
    <2>1. ASSUME NEW m \in Messages, home[m] = c, NEW j \in DOMAIN flight, j > i,
                 LiveNew(flight[j], m)
          PROVE  LiveNew(flight'[j], m)
      <3>1. CASE j # t
        BY <1>8, <2>1, <3>1 DEF Stays
      <3>2. CASE j = t
        <4>1. x.chat = c /\ LiveNew(x, m) /\ i < t
          BY <1>1, <2>1, <3>2, OfItsChat
        <4>2. QED
          BY <1>7, <1>11, <1>14, <3>2, <4>1
      <3>3. QED
        BY <3>1, <3>2
    <2>2. QED
      BY <1>7, <1>12, <2>1 DEF Going
  <1>15. \A i \in 0..Len(flight) : Going(page.active, i)
    BY <1>14
  <1>16. AnswersKept
    <2>1. SUFFICES ASSUME NEW k \in DOMAIN flight', Fresh(k)'
                   PROVE  Going(flight[k].chat, k)
      BY <1>7 DEF AnswersKept
    <2>2. k # t /\ k \in DOMAIN flight
      BY <1>7, <1>9, <2>1 DEF Fresh
    <2>3. flight[k].kind = "messages" /\ ~F[k].late
      BY <1>7, <1>8, <2>1, <2>2 DEF Fresh, Stays, Later
    <2>4. CASE x.kind = "new"
      <3>1. ~(k < t) \/ x.chat # flight[k].chat
        BY <1>6, <2>2, <2>3, <2>4 DEF Overtakes
      <3>2. QED
        BY <1>14, <3>1
    <2>5. CASE x.kind # "new"
      <3>1. \A m \in Messages : ~LiveNew(x, m)
        BY <1>0, <1>1, <2>5 DEF LiveNew
      <3>2. QED
        BY <1>14, <3>1
    <2>6. QED
      BY <2>4, <2>5
  <1>17. \A c \in Chats : Loading(c) => Loading(c)'
    <2>1. \A j \in DOMAIN flight : flight[j].kind = "messages" =>
             flight'[j].kind = "messages" /\ flight'[j].chat = flight[j].chat
      BY <1>0, <1>5, <1>7 DEF Aged
    <2>2. QED
      BY <1>0, <1>7, <2>1, LoadingStays
  <1>18. Spins' /\ \A c \in Chats : Quiet(c)' => Quiet(c)
    BY <1>0, <1>12, <1>17, SpinsStay, NotQuieter
  <1>19. \A c \in Chats : ByOthers(c) => ByOthers(c)'
    BY <1>12 DEF ByOthers
  <1>20. QED
    BY <1>0, <1>7, <1>12, <1>13, <1>15, <1>16, <1>18, <1>19, CalmSync

\* The statement that clears, deletes or leaves a chat runs: its chat has no messages any more,
\* and the answers with its messages are late.
LEMMA CommitSync ==
    ASSUME ChatViewAssumption, ViewInv, ViewInv', SyncInv, NEW d \in doing, Commit(d)
    PROVE  SyncInv'
  <1> DEFINE hit(j) == /\ flight[j].chat = d.chat
                       /\ IsNew(flight[j]) \/ flight[j].kind = "messages"
  <1>1. PICK F : F = [j \in DOMAIN flight |->
                         IF hit(j) THEN [flight[j] EXCEPT !.late = TRUE] ELSE flight[j]]
    OBVIOUS
  <1>2. PICK x : x = DoneWord(d.kind, d.chat)
    OBVIOUS
  <1>3. /\ doing' = doing \ {d}
        /\ purged' = IF d.kind = "left" THEN purged
                     ELSE purged \cup {m \in Messages : home[m] = d.chat}
        /\ alive' = IF d.kind = "cleared" THEN alive ELSE alive \ {d.chat}
        /\ flight' = IF d.mine THEN Append(F, x) ELSE F
        /\ home' = home /\ marks' = marks /\ line' = line /\ asked' = asked
        /\ page' = page
    BY <1>1, <1>2 DEF Commit, DoneWord
  <1>4. /\ flight \in Seq(Items) /\ d.chat \in Chats /\ d.kind \in {"cleared", "gone", "left"}
        /\ \A j \in DOMAIN flight : flight[j] \in Items /\ flight[j].late \in BOOLEAN
    BY ElementOfSeq, LenProperties, ItemFields DEF ViewInv, Typed, ServerTyped, Doings
  <1>5. x \in Items /\ x.kind = "done" /\ x.chat = d.chat
    BY <1>2, <1>4, DoneWordItem
  <1>6. F \in Seq(Items) /\ DOMAIN F = DOMAIN flight
        /\ \A j \in DOMAIN flight : Aged(flight[j], F[j])
    <2>1. ASSUME NEW j \in DOMAIN flight
          PROVE  \E b \in BOOLEAN : /\ flight[j].late => b
                                    /\ F[j] = [flight[j] EXCEPT !.late = b]
      <3>1. flight[j] \in Items /\ flight[j].late \in BOOLEAN
        BY <1>4
      <3>2. CASE hit(j)
        BY <1>1, <3>2
      <3>3. CASE ~hit(j)
        <4>1. F[j] = flight[j]
          BY <1>1, <3>3
        <4>2. flight[j] = [flight[j] EXCEPT !.late = flight[j].late]
          BY <3>1 DEF Items, NewItem, MarkItem, WordItem, DoneItem, LoadItem, OpenItem
        <4>3. QED
          BY <3>1, <4>1, <4>2
      <3>4. QED
        BY <3>2, <3>3
    <2>2. DOMAIN F = DOMAIN flight /\ F = [j \in DOMAIN F |-> F[j]]
      BY <1>1
    <2>3. QED
      BY <1>4, <2>1, <2>2, FlightAges
  <1>7. \A j \in DOMAIN flight : flight[j].chat = d.chat /\ flight[j].kind = "messages" => F[j].late
    <2>1. SUFFICES ASSUME NEW j \in DOMAIN flight, flight[j].chat = d.chat,
                          flight[j].kind = "messages"
                   PROVE  F[j].late
      OBVIOUS
    <2>2. F[j] = [flight[j] EXCEPT !.late = TRUE]
      BY <1>1, <2>1
    <2>3. QED
      BY <1>4, <2>2, AgedLate
  <1>8. /\ DOMAIN flight \subseteq DOMAIN flight'
        /\ \A j \in DOMAIN flight : flight'[j] = F[j]
        /\ \A k \in DOMAIN flight' \ DOMAIN flight : flight'[k] = x
    <2>1. CASE d.mine
      <3>1. PICK G : G = Append(F, x)
        OBVIOUS
      <3>2. /\ G \in Seq(Items) /\ Len(G) = Len(F) + 1 /\ G[Len(F) + 1] = x
            /\ \A j \in 1..Len(F) : G[j] = F[j]
        BY <1>5, <1>6, <3>1, AppendProperties
      <3>3. DOMAIN F = 1..Len(F) /\ Len(F) \in Nat /\ DOMAIN G = 1..(Len(F) + 1)
        BY <1>6, <3>2, LenProperties
      <3>4. flight' = G
        BY <1>3, <2>1, <3>1
      <3>5. DOMAIN flight \subseteq DOMAIN G /\ \A j \in DOMAIN flight : G[j] = F[j]
        BY <1>6, <3>2, <3>3
      <3>6. \A k \in DOMAIN G \ DOMAIN flight : G[k] = x
        BY <1>6, <3>2, <3>3
      <3>7. QED
        BY <3>4, <3>5, <3>6
    <2>2. CASE ~d.mine
      BY <1>3, <1>6, <2>2
    <2>3. QED
      BY <2>1, <2>2
  <1>9. \A j \in DOMAIN flight : Stays(flight[j], flight'[j])
    BY <1>4, <1>6, <1>8, AgedStays
  <1>10. /\ \A m \in Messages : ~LiveNew(x, m)
         /\ \A m \in Messages, k \in Marks : ~Marking(x, m, k)
    BY <1>5, ChatViewAssumption DEF LiveNew, Marking, ChatViewAssumption
  <1>11. InPlace /\ HomeStays
    BY <1>3, <1>8, <1>9 DEF InPlace, HomeStays, Stays
  <1>12. ASSUME NEW c, NEW i
         PROVE  Going(c, i)
    <2>1. purged \subseteq purged'
      BY <1>3
    <2>2. \A m \in Messages, j \in DOMAIN flight : LiveNew(flight[j], m) => LiveNew(flight'[j], m)
      BY <1>9 DEF Stays
    <2>3. \A m \in Messages, j \in DOMAIN flight' \ DOMAIN flight : ~LiveNew(flight'[j], m)
      BY <1>8, <1>10
    <2>4. QED
      BY <1>3, <2>1, <2>2, <2>3 DEF Going
  <1>13. \A c \in Chats : Loading(c) => Loading(c)'
    <2>1. \A j \in DOMAIN flight : flight[j].kind = "messages" =>
             flight'[j].kind = "messages" /\ flight'[j].chat = flight[j].chat
      BY <1>6, <1>8 DEF Aged
    <2>2. QED
      BY <1>3, <1>8, <2>1, LoadingStays
  <1>14. Spins' /\ \A c \in Chats : Quiet(c)' => Quiet(c)
    <2>1. /\ line' = line /\ alive' \subseteq alive /\ page'.active = page.active
          /\ page'.loading = page.loading /\ page.doubted \subseteq page'.doubted
      BY <1>3
    <2>2. Spins'
      BY <1>13, <2>1, SpinsStay
    <2>3. \A c \in Chats : Quiet(c)' => Quiet(c)
      BY <1>13, <2>1, NotQuieter
    <2>4. QED
      BY <2>2, <2>3
  <1>15. \A c \in Chats : c # d.chat /\ ByOthers(c) => ByOthers(c)'
    BY <1>3 DEF ByOthers
  <1>16. ASSUME NEW c \in Chats, Settled(c)'
         PROVE  Bare(c)' \/ (c # d.chat /\ Settled(c))
    <2>1. CASE c = d.chat
      <3>1. d.kind = "cleared"
        BY <1>3, <1>16, <2>1 DEF Settled, Quiet
      <3>2. QED
        BY <1>3, <2>1, <3>1 DEF Bare
    <2>2. CASE c # d.chat
      BY <1>14, <1>15, <1>16, <2>2 DEF Settled
    <2>3. QED
      BY <2>1, <2>2
  <1>17. \A k \in DOMAIN flight' \ DOMAIN flight : Fits(marks', home', flight'[k])
    BY <1>8, <1>10 DEF Fits
  <1>18. AnswersKept
    <2>1. \A k \in DOMAIN flight' : Fresh(k)' => k \in DOMAIN flight
      BY <1>5, <1>8 DEF Fresh
    <2>2. QED
      BY <1>12, <2>1 DEF AnswersKept
  <1>19. WipesKept
    <2>1. SUFFICES ASSUME NEW c \in Chats, Settled(c)', NEW k \in DOMAIN flight',
                          flight'[k].chat = c, ~Bare(c)'
                   PROVE  k \in DOMAIN flight /\ Settled(c) /\ Going(c, k)
      BY DEF WipesKept
    <2>2. c # d.chat /\ Settled(c)
      BY <1>16, <2>1
    <2>3. k \in DOMAIN flight
      BY <1>5, <1>8, <2>1, <2>2
    <2>4. QED
      BY <1>12, <2>2, <2>3
  <1>20. OrderKept
    <2>1. SUFFICES ASSUME NEW i \in DOMAIN flight', NEW k \in DOMAIN flight', Fresh(i)',
                          flight'[i].chat = flight'[k].chat
                   PROVE  \/ ByOthers(flight[k].chat)'
                          \/ k \in DOMAIN flight /\ ~ByOthers(flight'[k].chat)
      BY DEF OrderKept
    <2>2. i \in DOMAIN flight /\ flight'[i] = F[i]
      BY <1>5, <1>8, <2>1 DEF Fresh
    <2>3. flight[i].kind = "messages" /\ flight'[i].chat = flight[i].chat /\ ~F[i].late
      BY <1>6, <2>1, <2>2 DEF Fresh, Aged
    <2>4. PICK c \in Chats : c = flight'[k].chat /\ c # d.chat
      BY <1>4, <1>7, <2>1, <2>2, <2>3, ItemFields
    <2>5. k \in DOMAIN flight
      BY <1>5, <1>8, <2>4
    <2>6. ByOthers(c) => ByOthers(c)'
      BY <1>15, <2>4
    <2>7. ByOthers(c)' => ByOthers(flight[k].chat)'
      BY <2>4 DEF ByOthers
    <2>8. QED
      BY <2>4, <2>5, <2>6, <2>7
  <1>21. ScreenKept
    <2>1. SUFFICES ASSUME NEW c \in Chats, Quiet(c)', ~page'.blurred
                   PROVE  /\ Quiet(c) /\ ~page.blurred /\ page'.shown = page.shown
                          /\ Settled(c)' => Bare(c)' \/ (Settled(c) /\ Going(c, 0))
      BY DEF ScreenKept
    <2>2. Settled(c)' => Bare(c)' \/ (Settled(c) /\ Going(c, 0))
      BY <1>12, <1>16
    <2>3. QED
      BY <1>3, <1>14, <2>1, <2>2
  <1>22. QED
    BY <1>3, <1>11, <1>14, <1>17, <1>18, <1>19, <1>20, <1>21, InPlaceSync

\* The statement fails: the chat that others wanted emptied is in doubt.
LEMMA CommitFailsSync ==
    ASSUME ChatViewAssumption, ViewInv, ViewInv', SyncInv, NEW d \in doing, CommitFails(d)
    PROVE  SyncInv'
  <1>1. PICK F : F = [j \in DOMAIN flight |->
                         [flight[j] EXCEPT !.late = @ \/ flight[j].chat = d.chat]]
    OBVIOUS
  <1>2. PICK b : b = ~d.mine
    OBVIOUS
  <1>3. /\ doing' = doing \ {d} /\ page' = Doubt(page, d.chat, b) /\ flight' = F
        /\ home' = home /\ marks' = marks /\ purged' = purged /\ alive' = alive
        /\ line' = line /\ asked' = asked
    BY <1>1, <1>2 DEF CommitFails
  <1>4. /\ flight \in Seq(Items) /\ page \in Page /\ d.chat \in Chats /\ b \in BOOLEAN
        /\ \A j \in DOMAIN flight : flight[j] \in Items /\ flight[j].late \in BOOLEAN
    BY <1>2, ElementOfSeq, LenProperties, ItemFields
    DEF ViewInv, Typed, ServerTyped, ClientTyped, Doings
  <1>5. ASSUME NEW j \in DOMAIN flight
        PROVE  Aged(flight[j], F[j]) /\ (flight[j].chat = d.chat => F[j].late)
    <2>1. PICK t \in BOOLEAN : t = (flight[j].late \/ flight[j].chat = d.chat)
      BY <1>4
    <2>2. F[j] = [flight[j] EXCEPT !.late = t]
      BY <1>1, <2>1
    <2>3. QED
      BY <1>4, <2>1, <2>2, AgedLate
  <1>6. DOMAIN flight' = DOMAIN flight /\ \A j \in DOMAIN flight : flight'[j] = F[j]
    BY <1>1, <1>3
  <1>7. \A j \in DOMAIN flight : Stays(flight[j], flight'[j])
    BY <1>4, <1>5, <1>6, AgedStays
  <1>8. PICK q : q = Doubt(page, d.chat, b)
    OBVIOUS
  <1>9. /\ q.active = page.active /\ q.loading = page.loading /\ q.shown = page.shown
        /\ page.doubted \subseteq q.doubted /\ (b => d.chat \in q.doubted /\ q.blurred)
        /\ (~b => q = page)
    BY <1>4, <1>8, DoubtPage DEF Derived
  <1>10. /\ page'.active = page.active /\ page'.loading = page.loading
         /\ page'.shown = page.shown /\ page.doubted \subseteq page'.doubted
         /\ (~page'.blurred => ~page.blurred) /\ (b => d.chat \in page'.doubted)
    BY <1>3, <1>8, <1>9
  <1>11. InPlace /\ HomeStays
    BY <1>3, <1>6, <1>7 DEF InPlace, HomeStays, Stays
  <1>12. \A c, i : Going(c, i)
    <2>1. \A m \in Messages, j \in DOMAIN flight : LiveNew(flight[j], m) => LiveNew(flight'[j], m)
      BY <1>7 DEF Stays
    <2>2. QED
      BY <1>3, <1>6, <2>1 DEF Going
  <1>13. \A c \in Chats : Loading(c) => Loading(c)'
    <2>1. \A j \in DOMAIN flight : flight[j].kind = "messages" =>
             flight'[j].kind = "messages" /\ flight'[j].chat = flight[j].chat
      BY <1>5, <1>6 DEF Aged
    <2>2. QED
      BY <1>3, <1>6, <2>1, LoadingStays
  <1>14. Spins' /\ \A c \in Chats : Quiet(c)' => Quiet(c)
    <2>1. line' = line /\ alive' \subseteq alive
      BY <1>3
    <2>2. Spins'
      BY <1>10, <1>13, SpinsStay
    <2>3. \A c \in Chats : Quiet(c)' => Quiet(c)
      BY <1>10, <1>13, <2>1, NotQuieter
    <2>4. QED
      BY <2>2, <2>3
  <1>15. AnswersKept
    BY <1>6, <1>12 DEF AnswersKept
  <1>16. ASSUME NEW c \in Chats, ByOthers(c), ~ByOthers(c)'
         PROVE  ~Quiet(c)' /\ \A k \in DOMAIN flight' : flight'[k].chat = c => flight'[k].late
    <2>1. d.chat = c /\ ~d.mine
      BY <1>3, <1>16 DEF ByOthers
    <2>2. c \in page'.doubted
      BY <1>2, <1>10, <2>1
    <2>3. \A k \in DOMAIN flight' : flight'[k].chat = c => flight'[k].late
      BY <1>5, <1>6, <2>1 DEF Aged
    <2>4. QED
      BY <2>2, <2>3 DEF Quiet
  <1>17. QED
    BY <1>3, <1>6, <1>10, <1>11, <1>12, <1>14, <1>15, <1>16, CalmSync

\* No chat is quiet after the step.
LEMMA NobodyQuiet ==
    ASSUME ChatViewAssumption, ViewInv, ViewInv', SyncInv, UNCHANGED server, line' = line,
           flight' = flight, Spins', \A c \in Chats : ~Quiet(c)'
    PROVE  SyncInv'
  <1>1. /\ marks' = marks /\ home' = home /\ purged' = purged /\ doing' = doing /\ alive' = alive
    BY DEF server
  <1>2. HomeStays /\ InPlace /\ \A c, i : Going(c, i)
    BY <1>1, LaterItself DEF InPlace, Going, HomeStays
  <1>3. AnswersKept
    BY <1>2 DEF AnswersKept
  <1>4. WipesKept /\ ScreenKept
    BY DEF WipesKept, ScreenKept, Settled
  <1>5. OrderKept
    <2>1. SUFFICES ASSUME NEW k \in DOMAIN flight, NEW c, c = flight'[k].chat
                   PROVE  ByOthers(flight[k].chat)' \/ ~ByOthers(c)
      BY DEF OrderKept
    <2>2. ByOthers(c) => ByOthers(flight[k].chat)'
      BY <1>1, <2>1 DEF ByOthers
    <2>3. QED
      BY <2>2
  <1>6. QED
    BY <1>2, <1>3, <1>4, <1>5, InPlaceSync

\* The chat that is opened is the open one, and its messages are asked for.
LEMMA Activated ==
    ASSUME ChatViewAssumption, NEW p \in Page, asked \in Asked, NEW c \in Chats \cup {None}
    PROVE  /\ Activate(p, c).active = c
           /\ c # None => \E served \in BOOLEAN : AskActivate(asked, p, c)[<<c, served>>] > 0
  <1>1. PICK a : a = [p EXCEPT !.active = c]
    OBVIOUS
  <1>2. a \in Page /\ a.active = c
    BY <1>1, ActivePage
  <1>3. CASE c = None
    <2>1. Activate(p, c) = a
      BY <1>1, <1>3 DEF Activate
    <2>2. QED
      BY <1>2, <1>3, <2>1
  <1>4. CASE c # None
    <2>1. c \in Chats
      BY <1>4
    <2>2. PICK b : b = OnReconnect(a, c)
      OBVIOUS
    <2>3. b \in Page /\ b.active = c
      <3>1. CASE Rerun
        <4>1. PICK d : d = DropMem(a, c)
          OBVIOUS
        <4>2. d \in Page /\ d.active = c
          BY <1>2, <2>1, <4>1, DropPage
        <4>3. StartLoad(d, c) \in Page /\ StartLoad(d, c).active = c
          BY <2>1, <4>2, StartLoadPage
        <4>4. b = StartLoad(d, c)
          BY <2>2, <3>1, <4>1 DEF OnReconnect
        <4>5. QED
          BY <4>3, <4>4
      <3>2. CASE ~Rerun
        BY <1>2, <2>2, <3>2 DEF OnReconnect
      <3>3. QED
        BY <3>1, <3>2
    <2>4. PICK q : q = StartLoad(b, c)
      OBVIOUS
    <2>5. q \in Page /\ q.active = c
      BY <2>1, <2>3, <2>4, StartLoadPage
    <2>6. Activate(p, c) = IF c \in DOMAIN q.chats THEN [q EXCEPT !.chats[c] = 0] ELSE q
      BY <1>1, <1>4, <2>2, <2>4 DEF Activate
    <2>7. Activate(p, c).active = c
      <3>1. PICK r : r = [q EXCEPT !.chats[c] = 0]
        OBVIOUS
      <3>2. r.active = c
        BY <2>5, <3>1 DEF Page
      <3>3. QED
        BY <2>5, <2>6, <3>1, <3>2
    <2>8. PICK B : B = IF Rerun THEN AskLoad(asked, DropMem(p, c), c) ELSE asked
      OBVIOUS
    <2>9. B \in Asked
      BY <2>1, <2>8, AskLoadBag
    <2>10. PICK o : o = OnReconnect(p, c)
      OBVIOUS
    <2>11. PICK new : new = AskLoad(B, o, c)
      OBVIOUS
    <2>12. \E served \in BOOLEAN : new[<<c, served>>] > 0
      BY <2>1, <2>9, <2>11, AskedStays
    <2>13. AskActivate(asked, p, c) = new
      BY <1>4, <2>8, <2>10, <2>11 DEF AskActivate
    <2>14. QED
      BY <2>7, <2>12, <2>13
  <1>5. QED
    BY <1>3, <1>4

\* Another chat is opened, or none.
LEMMA OpenSync ==
    ASSUME ChatViewAssumption, ViewInv, ViewInv', SyncInv, NEW p \in Page,
           NEW c \in Chats \cup {None}, c # p.active, SetActive(p, c),
           UNCHANGED <<server, line, flight>>
    PROVE  SyncInv'
  <1>1. UNCHANGED server /\ line' = line /\ flight' = flight /\ None \notin Chats
        /\ asked \in Asked
    BY ChatViewAssumption DEF ChatViewAssumption, ViewInv, Typed, ClientTyped
  <1>2. PICK q : q = Activate(p, c)
    OBVIOUS
  <1>3. PICK new : new = AskActivate(asked, p, c)
    OBVIOUS
  <1>4. page' = q /\ asked' = new
    BY <1>2, <1>3 DEF SetActive
  <1>5. q.active = c /\ (c # None => \E served \in BOOLEAN : new[<<c, served>>] > 0)
    BY <1>1, <1>2, <1>3, Activated
  <1>6. page'.active = c /\ (c # None => \E served \in BOOLEAN : asked'[<<c, served>>] > 0)
    BY <1>4, <1>5
  <1>7. c # None => Loading(c)'
    BY <1>6 DEF Loading
  <1>8. \A e \in Chats : ~Quiet(e)'
    BY <1>1, <1>6, <1>7 DEF Quiet
  <1>9. c # None => Loading(page.active)'
    BY <1>6, <1>7
  <1>10. Spins'
    BY <1>6, <1>9 DEF Spins
  <1>11. QED
    BY <1>1, <1>8, <1>10, NobodyQuiet

\* The three ways to do so, one of which may find its chat open.
LEMMA UserSync ==
    ASSUME ChatViewAssumption, ViewInv, ViewInv', SyncInv,
           (\E c \in Chats : Open(c) \/ Tap(c)) \/ Back
    PROVE  SyncInv'
  <1>1. page \in Page /\ None \notin Chats
    BY ChatViewAssumption DEF ChatViewAssumption, ViewInv, Typed, ClientTyped
  <1>2. ASSUME NEW c \in Chats, Open(c)
        PROVE  SyncInv'
    <2>1. c # page.active /\ SetActive(page, c) /\ UNCHANGED <<server, line, flight>>
      BY <1>2 DEF Open
    <2>2. QED
      BY <1>1, <2>1, OpenSync
  <1>3. ASSUME NEW c \in Chats, Tap(c)
        PROVE  SyncInv'
    <2>1. PICK p : p = DropMem(page, c)
      OBVIOUS
    <2>2. SetActive(p, c) /\ UNCHANGED <<server, line, flight>>
      BY <1>3, <2>1 DEF Tap
    <2>3. /\ p \in Page /\ p.active = page.active /\ p.loading = page.loading
          /\ p.doubted = page.doubted /\ p.blurred = page.blurred /\ p.shown = page.shown
      BY <1>1, <2>1, DropPage
    <2>4. CASE c # p.active
      BY <2>2, <2>3, <2>4, OpenSync
    <2>5. CASE c = p.active
      <3>1. page' = p /\ asked' = asked
        BY <2>2, <2>5 DEF SetActive
      <3>2. UNCHANGED server /\ line' = line /\ flight' = flight
        BY <2>2
      <3>3. /\ page'.active = page.active /\ page'.loading = page.loading
            /\ page'.doubted = page.doubted /\ page'.blurred = page.blurred
            /\ page'.shown = page.shown
        BY <2>3, <3>1
      <3>4. QED
        BY <3>1, <3>2, <3>3, AsideSync
    <2>6. QED
      BY <2>4, <2>5
  <1>4. ASSUME Back
        PROVE  SyncInv'
    <2>1. None # page.active /\ SetActive(page, None) /\ UNCHANGED <<server, line, flight>>
      BY <1>4 DEF Back
    <2>2. QED
      BY <1>1, <2>1, OpenSync
  <1>5. QED
    BY <1>2, <1>3, <1>4

\* The socket breaks.
LEMMA LineBreaksSync ==
    ASSUME ChatViewAssumption, ViewInv, ViewInv', SyncInv, LineBreaks
    PROVE  SyncInv'
  <1>1. PICK S : S = {flight[i].chat : i \in {j \in DOMAIN flight : IsFrame(flight[j])}}
    OBVIOUS
  <1>2. PICK q : q = Wary(page, S)
    OBVIOUS
  <1>3. /\ line' = "down" /\ flight' = Lasting /\ page' = q
        /\ marks' = marks /\ home' = home /\ asked' = asked
    BY <1>1, <1>2 DEF LineBreaks, Wary, server
  <1>4. page \in Page /\ flight \in Seq(Items)
    BY DEF ViewInv, Typed, ClientTyped
  <1>5. q.active = page.active /\ q.loading = page.loading
    BY <1>2, <1>4 DEF Wary, Page
  <1>6. PICK G : G = Lasting
    OBVIOUS
  <1>7. /\ \A k \in DOMAIN G : \E i \in DOMAIN flight : G[k] = flight[i]
        /\ \A i \in Kept : \E k \in DOMAIN G : G[k] = flight[i]
    <2>1. /\ \A k \in DOMAIN G : Nth(Kept, k) \in Kept /\ G[k] = flight[Nth(Kept, k)]
          /\ \A i \in Kept : \E k \in DOMAIN G : G[k] = flight[i]
      BY <1>4, <1>6, LastingItems
    <2>2. QED
      BY <2>1 DEF Kept
  <1>8. MarksFit'
    <2>1. HomeStays /\ \A m \in Messages : marks[m] \subseteq marks'[m]
      BY <1>3 DEF HomeStays
    <2>2. \A k \in DOMAIN flight' : \E j \in DOMAIN flight : Later(flight[j], flight'[k])
      BY <1>3, <1>6, <1>7, LaterItself
    <2>3. QED
      BY <2>1, <2>2, MarksStay
  <1>9. ASSUME NEW c \in Chats, Loading(c)
        PROVE  Loading(c)'
    <2>1. \A i \in DOMAIN flight : flight[i].kind = "messages" => i \in Kept
      BY ChatViewAssumption DEF Kept, IsFrame, FrameKinds, ChatViewAssumption
    <2>2. QED
      BY <1>3, <1>6, <1>7, <1>9, <2>1 DEF Loading
  <1>10. Spins'
    BY <1>3, <1>5, <1>9, SpinsStay
  <1>11. QED
    BY <1>3, <1>8, <1>10, DownSync

\* The page is loaded anew.
LEMMA ReloadSync ==
    ASSUME ChatViewAssumption, ViewInv, ViewInv', SyncInv, Reload
    PROVE  SyncInv'
  <1>1. PICK S : S = page.doubted \cup {flight[i].chat : i \in
                        {j \in DOMAIN flight : IsFrame(flight[j]) \/ flight[j].kind = "done"}}
                        \cup {d.chat : d \in doing}
    OBVIOUS
  <1>2. PICK M : M = [c \in Chats |-> None]
    OBVIOUS
  <1>3. PICK q : q = [page EXCEPT !.active = None, !.shown = Empty, !.loading = FALSE,
                         !.mem = M, !.chats = page.saved, !.greeted = FALSE, !.owner = None,
                         !.blurred = FALSE, !.doubted = S]
    OBVIOUS
  <1>4. page' = q /\ line' = "down" /\ flight' = <<>>
    BY <1>1, <1>2, <1>3 DEF Reload
  <1>5. page \in Page
    BY DEF ViewInv, Typed, ClientTyped
  <1>6. q.active = None
    BY <1>3, <1>5 DEF Page
  <1>7. MarksFit'
    BY <1>4 DEF MarksFit
  <1>8. Spins'
    BY <1>4, <1>6 DEF Spins
  <1>9. QED
    BY <1>4, <1>7, <1>8, DownSync

\* The socket opens: the open chat is asked for, or in doubt, and the answers given before are
\* late.
LEMMA LineReturnsSync ==
    ASSUME ChatViewAssumption, ViewInv, ViewInv', SyncInv, NEW live \in rows \cup {None},
           LineReturns(live)
    PROVE  SyncInv'
  <1>1. PICK c : c = page.active
    OBVIOUS
  <1>2. PICK d : d = DropMem(page, c)
    OBVIOUS
  <1>3. PICK g : g = [page EXCEPT !.greeted = TRUE]
    OBVIOUS
  <1>4. PICK b \in BOOLEAN : b = (c # None)
    OBVIOUS
  <1>5. marks' = marks /\ home' = home
    BY DEF LineReturns
  <1>6. IF page.greeted
        THEN /\ page' = IF c = None THEN page ELSE StartLoad(d, c)
             /\ asked' = IF c = None THEN asked ELSE AskLoad(asked, d, c)
        ELSE page' = Doubt(g, c, b) /\ asked' = asked
    BY <1>1, <1>2, <1>3, <1>4 DEF LineReturns
  <1>7. /\ page \in Page /\ asked \in Asked /\ c \in Chats \cup {None} /\ None \notin Chats
        /\ flight \in Seq(Items) /\ \A j \in DOMAIN flight : flight[j] \in Items
    BY <1>1, ChatViewAssumption, ElementOfSeq, LenProperties
    DEF ViewInv, Typed, ClientTyped, Page, ChatViewAssumption
  <1>8. /\ \A j \in DOMAIN flight : j \in DOMAIN flight' /\ Aged(flight[j], flight'[j])
        /\ \A j \in DOMAIN flight : flight[j].kind = "messages" => flight'[j].late
        /\ \A k \in DOMAIN flight' : k \in DOMAIN flight \/ flight'[k].kind = "new"
    <2>1. \A m, t : New(m, t).kind = "new"
      BY DEF New
    <2>2. /\ \A j \in DOMAIN flight : j \in DOMAIN flight' /\ Aged(flight[j], flight'[j])
          /\ \A j \in DOMAIN flight : flight[j].kind = "messages" => flight'[j].late
          /\ \A k \in DOMAIN flight' :
                \/ k \in DOMAIN flight
                \/ \E m \in rows : flight'[k] = New(m, TRUE)
                \/ live # None /\ k = Len(flight') /\ flight'[k] = New(live, FALSE)
      BY ReturnedFlight
    <2>3. ASSUME NEW k \in DOMAIN flight'
          PROVE  k \in DOMAIN flight \/ flight'[k].kind = "new"
      <3>1. CASE \E m \in rows : flight'[k] = New(m, TRUE)
        BY <2>1, <3>1
      <3>2. CASE flight'[k] = New(live, FALSE)
        BY <2>1, <3>2
      <3>3. QED
        BY <2>2, <3>1, <3>2
    <2>4. QED
      BY <2>2, <2>3
  <1>9. \A k \in DOMAIN flight' : ~Fresh(k)'
    BY <1>8 DEF Fresh, Aged
  <1>10. MarksFit'
    <2>1. HomeStays /\ \A m \in Messages : marks[m] \subseteq marks'[m]
      BY <1>5 DEF HomeStays
    <2>2. ASSUME NEW k \in DOMAIN flight'
          PROVE  \/ Fits(marks', home', flight'[k])
                 \/ \E j \in DOMAIN flight : Later(flight[j], flight'[k])
      <3>1. CASE k \in DOMAIN flight
        BY <1>7, <1>8, <3>1, AgedStays DEF Stays
      <3>2. CASE flight'[k].kind = "new"
        BY <3>2, ChatViewAssumption DEF Fits, Marking, ChatViewAssumption
      <3>3. QED
        BY <1>8, <3>1, <3>2
    <2>3. QED
      BY <2>1, <2>2, MarksStay
  <1>11. CASE page.greeted /\ c # None
    <2>1. PICK q : q = StartLoad(d, c)
      OBVIOUS
    <2>2. PICK new : new = AskLoad(asked, d, c)
      OBVIOUS
    <2>3. page' = q /\ asked' = new /\ c \in Chats
      BY <1>6, <1>7, <1>11, <2>1, <2>2
    <2>4. d \in Page /\ d.active = c
      BY <1>1, <1>2, <1>7, <2>3, DropPage
    <2>5. q.active = c
      BY <2>1, <2>3, <2>4, StartLoadPage
    <2>6. \E served \in BOOLEAN : new[<<c, served>>] > 0
      BY <1>7, <2>2, <2>3, AskedStays
    <2>7. page'.active = c /\ \E served \in BOOLEAN : asked'[<<c, served>>] > 0
      BY <2>3, <2>5, <2>6
    <2>8. Loading(c)'
      BY <2>7 DEF Loading
    <2>9. Loading(page.active)'
      BY <2>7, <2>8
    <2>10. Spins'
      BY <2>9 DEF Spins
    <2>11. \A e \in Chats : ~Quiet(e)'
      BY <2>7, <2>8 DEF Quiet
    <2>12. QED
      BY <1>9, <1>10, <2>10, <2>11, SyncTogether
      DEF AnswersFaithful, WipesFaithful, AnswersFirst, Settled
  <1>12. CASE page.greeted /\ c = None
    <2>1. page'.active = None
      BY <1>1, <1>6, <1>12
    <2>2. Spins' /\ \A e \in Chats : ~Quiet(e)'
      BY <1>7, <2>1 DEF Spins, Quiet
    <2>3. QED
      BY <1>9, <1>10, <2>2, SyncTogether
      DEF AnswersFaithful, WipesFaithful, AnswersFirst, Settled
  <1>13. CASE ~page.greeted
    <2>1. PICK q : q = Doubt(g, c, b)
      OBVIOUS
    <2>2. page' = q /\ asked' = asked
      BY <1>6, <1>13, <2>1
    <2>3. g \in Page /\ g.active = c /\ g.loading = page.loading
      BY <1>1, <1>3, <1>7 DEF Page
    <2>4. q.active = c /\ q.loading = page.loading /\ (c # None => c \in q.doubted)
      <3>1. b => c \in Chats
        BY <1>4, <1>7
      <3>2. q.active = g.active /\ q.loading = g.loading /\ (b => c \in q.doubted)
        BY <2>1, <2>3, <3>1, DoubtPage
      <3>3. QED
        BY <1>4, <2>3, <3>2
    <2>5. /\ page'.active = page.active /\ page'.loading = page.loading
          /\ (page'.active # None => page'.active \in page'.doubted)
      BY <1>1, <2>2, <2>4
    <2>6. \A e \in Chats : Loading(e) => Loading(e)'
      <3>1. \A j \in DOMAIN flight : flight[j].kind = "messages" =>
               flight'[j].kind = "messages" /\ flight'[j].chat = flight[j].chat
        BY <1>8 DEF Aged
      <3>2. QED
        BY <1>8, <2>2, <3>1, LoadingStays
    <2>7. Spins'
      BY <2>5, <2>6, SpinsStay
    <2>8. \A e \in Chats : ~Quiet(e)'
      BY <1>7, <2>5 DEF Quiet
    <2>9. QED
      BY <1>9, <1>10, <2>7, <2>8, SyncTogether
      DEF AnswersFaithful, WipesFaithful, AnswersFirst, Settled
  <1>14. QED
    BY <1>11, <1>12, <1>13

\* Every step keeps what the open chat shows as good as the invariant says.
LEMMA SyncNext ==
    ASSUME ChatViewAssumption, ViewInv, ViewInv', SyncInv, [ViewNext]_viewvars
    PROVE  SyncInv'
  <1>1. ASSUME NEW i \in DOMAIN flight, Handle(i)
        PROVE  SyncInv'
    <2>1. CASE Decrypt(i)
      BY <2>1, DecryptSync
    <2>2. CASE ApplyNew(i)
      BY <2>2, ApplyNewSync
    <2>3. CASE ApplyEdit(i)
      BY <2>3, ApplyEditSync
    <2>4. CASE ApplyMark(i)
      BY <2>4, ApplyMarkSync
    <2>5. CASE IgnoreEdit(i)
      BY <2>5, IgnoreEditSync
    <2>6. CASE OnCleared(i)
      BY <2>6, OnClearedSync
    <2>7. CASE OnDeleted(i)
      BY <2>7, OnDeletedSync
    <2>8. CASE OnChanged(i)
      BY <2>8, OnChangedSync
    <2>9. CASE ApplyLoad(i)
      BY <2>9, ApplyLoadSync
    <2>10. CASE Answered(i)
      BY <2>10, AnsweredSync
    <2>11. QED
      BY <1>1, <2>1, <2>2, <2>3, <2>4, <2>5, <2>6, <2>7, <2>8, <2>9, <2>10 DEF Handle
  <1>2. ASSUME Respond
        PROVE  SyncInv'
    <2>1. CASE \E c \in Chats, served \in BOOLEAN : AnswerLoad(c, served) \/ FailLoad(c, served)
      BY <2>1, AnswerLoadSync, FailLoadSync
    <2>2. CASE \E data \in {Listed, None} : EndList(data)
      BY <2>2, EndListSync
    <2>3. CASE \E d \in doing : Commit(d) \/ CommitFails(d)
      BY <2>3, CommitSync, CommitFailsSync
    <2>4. QED
      BY <1>2, <2>1, <2>2, <2>3 DEF Respond
  <1>3. ASSUME Happen
        PROVE  SyncInv'
    <2>1. CASE \E c \in Chats, m \in Messages : Send(c, m)
      BY <2>1, SendSync
    <2>2. CASE \E m \in Messages, mark \in Marks : Change(m, mark)
      BY <2>2, ChangeSync
    <2>3. CASE \E c \in Chats, out \in BOOLEAN : ChangeGroup(c, out)
      BY <2>3, ChangeGroupSync
    <2>4. CASE \E c \in Chats, kind \in {"cleared", "gone", "left"}, mine, told \in BOOLEAN :
                  Announce(c, kind, mine, told)
      BY <2>4, AnnounceSync
    <2>5. CASE LineBreaks
      BY <2>5, LineBreaksSync
    <2>6. CASE (\E c \in Chats : Open(c) \/ Tap(c)) \/ Back
      BY <2>6, UserSync
    <2>7. CASE Reload
      BY <2>7, ReloadSync
    <2>8. QED
      BY <1>3, <2>1, <2>2, <2>3, <2>4, <2>5, <2>6, <2>7 DEF Happen
  <1>4. ASSUME NEW live \in rows \cup {None}, LineReturns(live)
        PROVE  SyncInv'
    BY <1>4, LineReturnsSync
  <1>5. ASSUME UNCHANGED viewvars
        PROVE  SyncInv'
    <2>1. UNCHANGED server /\ line' = line /\ flight' = flight /\ asked' = asked /\ page' = page
      BY <1>5 DEF viewvars, net
    <2>2. QED
      BY <2>1, AsideSync
  <1>6. QED
    BY <1>1, <1>2, <1>3, <1>4, <1>5 DEF ViewNext

\* When nothing is under way about the open chat, what is shown is what is stored.
LEMMA SyncInvImplies ==
    ASSUME ChatViewAssumption, ViewInv, SyncInv
    PROVE  ViewConverges
  <1>1. PICK c : c = page.active
    OBVIOUS
  <1>2. SUFFICES ASSUME line = "up", c \in alive \ page.doubted, ~About(c), ~page.blurred
                 PROVE  page.shown = Stored(c)
    BY <1>1 DEF ViewConverges
  <1>3. /\ c \in Chats /\ page.shown \in Lists /\ marks \in [Messages -> SUBSET Marks]
    BY <1>2 DEF ViewInv, Typed, ServerTyped, ClientTyped, Page
  <1>4. \A j \in DOMAIN flight : flight[j].chat # c
    BY <1>2 DEF About
  <1>5. Quiet(c) /\ Settled(c)
    <2>1. ~Loading(c)
      BY <1>2, <1>4 DEF About, Loading
    <2>2. ~ByOthers(c)
      BY <1>2 DEF About, Doing, ByOthers
    <2>3. QED
      BY <1>1, <1>2, <2>1, <2>2 DEF Quiet, Settled
  <1>6. /\ page.owner = c /\ \A m \in DOMAIN page.shown : m \in Messages /\ home[m] = c
        /\ Known(marks, flight, page.shown, 0)
        /\ Due(marks, home, purged, flight, page.shown, c, 0)
    BY <1>2, <1>3, <1>5, ScreenHome DEF SyncInv, ScreenKnown, ScreenDue
  <1>7. ASSUME NEW m \in Messages, home[m] = c
        PROVE  /\ \A j \in DOMAIN flight : ~LiveNew(flight[j], m)
               /\ \A k \in Marks : ~MarkOn(flight, m, k, 0)
    <2>1. \A j \in DOMAIN flight :
             ~LiveNew(flight[j], m) /\ \A k \in Marks : ~Marking(flight[j], m, k)
      BY <1>4, <1>7, OfItsChat
    <2>2. QED
      BY <2>1 DEF MarkOn
  <1>8. ASSUME NEW m \in DOMAIN page.shown
        PROVE  page.shown[m] = marks[m]
    <2>1. m \in Messages /\ home[m] = c /\ Current(marks, flight, page.shown[m], m, 0)
      BY <1>6 DEF Known
    <2>2. marks[m] \subseteq Marks
      BY <1>3, <2>1
    <2>3. QED
      BY <1>7, <2>1, <2>2 DEF Current
  <1>9. ASSUME NEW m \in Messages \ DOMAIN page.shown, home[m] = c
        PROVE  m \in purged
    BY <1>6, <1>7, <1>9 DEF Due, Coming
  <1>10. ASSUME NEW m \in DOMAIN page.shown
         PROVE  m \notin purged
    <2>1. m \in Messages /\ Holds(page, c, m)
      BY <1>2, <1>6, <1>10 DEF Holds
    <2>2. Fine(m, c)
      BY <1>2, <1>3, <2>1 DEF ViewInv, ListsFine
    <2>3. ~NewsOf(c)
      BY <1>4 DEF NewsOf
    <2>4. QED
      BY <2>2, <2>3 DEF Fine
  <1>11. DOMAIN page.shown = {n \in Messages : home[n] = c /\ n \notin purged}
    BY <1>6, <1>9, <1>10
  <1>12. PICK L : L = page.shown
    OBVIOUS
  <1>13. L = [m \in DOMAIN L |-> L[m]]
    BY <1>3, <1>12, ListMembers
  <1>14. L = [m \in {n \in Messages : home[n] = c /\ n \notin purged} |-> marks[m]]
    BY <1>8, <1>11, <1>12, <1>13
  <1>15. QED
    BY <1>12, <1>14 DEF Stored

\* When nothing is under way about the open chat, it shows what the server has of it, edits,
\* deletions and files included, unless it is in doubt: whatever order answers, frames and
\* decryptions end in, and however often the socket breaks and the page is reloaded.
THEOREM ViewAlwaysConverges == ViewSpec => []ViewConverges
  <1>1. ViewInit => SyncInv
    <2>1. SUFFICES ASSUME ViewInit
                   PROVE  SyncInv
      OBVIOUS
    <2>2. line # "up" /\ flight = <<>> /\ page.active = None
      BY <2>1 DEF ViewInit
    <2>3. MarksFit
      BY <2>2 DEF MarksFit
    <2>4. QED
      BY <2>2, <2>3
      DEF SyncInv, AnswersFaithful, WipesFaithful, AnswersFirst, ScreenKnown, ScreenDue, Settled,
          Quiet, Spins
  <1>2. ViewInv /\ ViewInv' /\ SyncInv /\ [ViewNext]_viewvars => SyncInv'
    BY ChatViewAssumption, SyncNext
  <1>3. ViewInv /\ SyncInv => ViewConverges
    BY ChatViewAssumption, SyncInvImplies
  <1>4. QED
    BY <1>1, <1>2, <1>3, ViewInvariant, PTL DEF ViewSpec

=============================================================================
