--------------------------- MODULE MessagesProofs ---------------------------
(***************************************************************************)
(* Proofs about Messages: how deletions of one chat share its tables and   *)
(* the object store with edits, pins, uploads and forwards.                *)
(*                                                                         *)
(* A request carries what its check read - a message, a file, storage keys *)
(* - into later steps.  The inductive invariant says what is still true of *)
(* those values when they are used: a key is given out once, so the blob a *)
(* sweep deletes is no other message's, and a message on which nothing met *)
(* a deletion has been changed by nobody since the deletion read its rows. *)
(***************************************************************************)
EXTENDS Messages, FiniteSetTheorems, TLAPS

----------------------------------------------------------------------------
(* The inductive invariant.                                                *)

\* Requests in the course of giving a message a new file.
Brings(r) == job[r].step \in {"uploading", "forwarding", "copying", "saved", "undoing"}

\* Requests in the course of removing one attachment.
Drops(r) == job[r].step \in {"dropping", "dropped"}

\* Deletions that hold storage keys.
Plucked(r) == job[r].step \in {"plucked", "wiping", "sweeping"}

\* Requests at work on m.
Touches(r, m) == InFlight(r) /\ (job[r].all \/ job[r].msg = m)

\* Requests not done yet; each of them posts at most one notice.
Busy == {r \in Reqs : ~ At(r, "new")}

NoticesAreCounted == IsFiniteSet(Busy) /\ notices + Cardinality(Busy) <= begun

\* A file belongs to the message it was made for or to none, and that message was sent.
FilesAreMeant ==
    \A f \in Files : /\ home[f] # None => home[f] = meant[f]
                     /\ meant[f] # None => row[meant[f]] # "none"
                     /\ f \in blobs => meant[f] # None

BodiesAreSent == \A m \in body : row[m] # "none"

\* What a request holds fits the step it is at.
TasksAreSound ==
    \A r \in Reqs :
        /\ job[r].all => Deletes(r) \/ At(r, "sweeping")
        /\ ~ Brings(r) /\ ~ Drops(r) => job[r].file = None
        /\ (At(r, "editing") \/ At(r, "pinning") \/ Deletes(r)) /\ ~ job[r].all =>
               job[r].msg \in Messages /\ row[job[r].msg] # "none"

\* A file on its way has no row yet, and its blob exactly when it is saved.
BroughtFiles ==
    \A r \in Reqs : Brings(r) =>
        /\ job[r].file \in Files /\ job[r].msg \in Messages
        /\ meant[job[r].file] = job[r].msg
        /\ home[job[r].file] = None
        /\ At(r, "saved") => job[r].file \in blobs
        /\ ~ At(r, "saved") /\ ~ At(r, "undoing") => job[r].file \notin blobs

\* Nobody else holds a file that is on its way.
BroughtOnce ==
    \A r, q \in Reqs : Brings(r) /\ q # r =>
        /\ Brings(q) \/ Drops(q) => job[q].file # job[r].file
        /\ Plucked(q) => job[r].file \notin job[q].keys

DroppedFiles ==
    \A r \in Reqs : Drops(r) =>
        /\ job[r].file \in Files
        /\ meant[job[r].file] # None
        /\ At(r, "dropped") => job[r].file \notin blobs \ faulted

\* The files a deletion holds were all made for messages it deletes.
PluckedFiles ==
    \A r \in Reqs : \A f \in Files :
        /\ Plucked(r) /\ f \in job[r].keys =>
            /\ meant[f] # None
            /\ ~ job[r].all => meant[f] = job[r].msg
            /\ At(r, "sweeping") => row[meant[f]] \in {"deleted", "purged"}
        /\ At(r, "wiping") /\ f \in job[r].doomed.files =>
            /\ meant[f] # None
            /\ ~ job[r].all => meant[f] = job[r].msg

\* Where a deletion meets something else, the message is noted as contested.
MeetingsAreNoted ==
    \A m \in Messages \ contested : \A r, q \in Reqs :
        Touches(r, m) /\ Touches(q, m) /\ Deletes(r) => Deletes(q)

\* What is about to be written for a message that nothing contests comes in time.
WritesAreInTime ==
    \A r \in Reqs : job[r].msg \in Messages \ contested =>
        /\ At(r, "editing") \/ At(r, "pinning") => row[job[r].msg] = "live"
        /\ Brings(r) => row[job[r].msg] # "purged"

\* A deletion has seen every row there is of a message that nothing contests.
DeletionsCover ==
    \A r \in Reqs, m \in Messages \ contested : Touches(r, m) =>
        /\ At(r, "plucked") \/ At(r, "wiping") => FilesOf({m}) \subseteq job[r].keys
        /\ At(r, "wiping") => /\ m \in body => m \in job[r].doomed.bodies
                              /\ m \in pins => m \in job[r].doomed.pins
                              /\ m \in unread => m \in job[r].doomed.unread
                              /\ FilesOf({m}) \subseteq job[r].doomed.files

MessagesInv ==
    /\ MessagesTypeOK
    /\ NoticesAreCounted
    /\ FilesAreMeant
    /\ BodiesAreSent
    /\ TasksAreSound
    /\ BroughtFiles
    /\ BroughtOnce
    /\ DroppedFiles
    /\ PluckedFiles
    /\ MeetingsAreNoted
    /\ WritesAreInTime
    /\ DeletionsCover
    /\ ShownFilesExist
    /\ WipedUnlessContested
    /\ NoLeakedBlobs

----------------------------------------------------------------------------
(* What beginning, going on and finishing do to the requests.              *)

OthersStay(r) == \A q \in Reqs \ {r} : job'[q] = job[q]

\* The same request, further on.
SameTask(r) == /\ job'[r].all = job[r].all
               /\ job'[r].msg = job[r].msg
               /\ job'[r].file = job[r].file

\* An empty slot is a request's state.
LEMMA NewIsJob == /\ New \in Job /\ NoRows \in Rows
                  /\ New.step = "new" /\ New.all = FALSE /\ New.msg = None
                  /\ New.file = None /\ New.keys = {}
  BY DEF New, Job, NoRows, Rows

Tasks == {"editing", "deleting", "pinning", "unpinning", "uploading", "forwarding", "dropping"}

\* So is what a check on one message leaves a request with...
LEMMA TaskIsJob ==
    ASSUME NEW m \in Messages, NEW step \in Tasks
    PROVE  /\ On(step, m) \in Job /\ On(step, m).step = step /\ On(step, m).all = FALSE
           /\ On(step, m).msg = m /\ On(step, m).file = None
  <1> DEFINE a == [New EXCEPT !.step = step]
  <1>1. a \in Job /\ a.step = step /\ a.all = FALSE /\ a.file = None
    BY NewIsJob DEF Job, Tasks
  <1>2. On(step, m) = [a EXCEPT !.msg = m]
    BY DEF On
  <1> HIDE DEF a
  <1> DEFINE b == [a EXCEPT !.msg = m]
  <1>3. b \in Job /\ b.step = step /\ b.all = FALSE /\ b.msg = m /\ b.file = None
    BY <1>1 DEF Job
  <1>4. QED
    BY <1>2, <1>3

\* ...and what it leaves it with when a file is involved.
FileTask(task, step, m, f) == /\ task \in Job /\ task.step = step /\ task.all = FALSE
                              /\ task.msg = m /\ task.file = f

LEMMA FileTaskIsJob ==
    ASSUME NEW m \in Messages, NEW step \in Tasks, NEW f \in Files, NEW ks \in SUBSET Files
    PROVE  /\ FileTask([On(step, m) EXCEPT !.file = f], step, m, f)
           /\ FileTask([On(step, m) EXCEPT !.file = f, !.keys = ks], step, m, f)
  <1> DEFINE o == On(step, m)
             a == [o EXCEPT !.file = f]
             b == [a EXCEPT !.keys = ks]
  <1>0. o \in Job /\ o.step = step /\ o.all = FALSE /\ o.msg = m
    BY TaskIsJob
  <1> HIDE DEF o
  <1>1. FileTask(a, step, m, f)
    BY <1>0 DEF Job, FileTask
  <1>2. b = [On(step, m) EXCEPT !.file = f, !.keys = ks]
    BY DEF o
  <1> HIDE DEF a
  <1>3. FileTask(b, step, m, f)
    BY <1>1 DEF Job, FileTask
  <1> HIDE DEF b
  <1>4. QED
    BY <1>1, <1>2, <1>3 DEF a, o

\* Finishing empties one slot and leaves the others.
LEMMA Finishes ==
    ASSUME MessagesTypeOK, NEW r \in Reqs, Finish(r)
    PROVE  job' \in [Reqs -> Job] /\ job'[r] = New /\ OthersStay(r)
  BY NewIsJob DEF Finish, MessagesTypeOK, OthersStay

\* Going on changes the step of one request and nothing else.
LEMMA GoesOn ==
    ASSUME MessagesTypeOK, NEW r \in Reqs,
           NEW step \in {"saved", "copying", "undoing", "dropped"}, Goto(r, step)
    PROVE  /\ job' \in [Reqs -> Job] /\ OthersStay(r) /\ SameTask(r)
           /\ job'[r].step = step /\ job'[r].keys = job[r].keys
           /\ job'[r].doomed = job[r].doomed
  <1>1. job[r] \in Job
    BY DEF MessagesTypeOK
  <1>2. [job[r] EXCEPT !.step = step] \in Job
    BY <1>1 DEF Job
  <1>3. job' = [job EXCEPT ![r] = [job[r] EXCEPT !.step = step]]
    BY DEF Goto
  <1> DEFINE next == [job[r] EXCEPT !.step = step]
  <1>4. /\ next.step = step /\ next.all = job[r].all /\ next.msg = job[r].msg
        /\ next.file = job[r].file /\ next.keys = job[r].keys /\ next.doomed = job[r].doomed
    BY <1>1 DEF Job
  <1>5. next \in Job /\ job' = [job EXCEPT ![r] = next]
    BY <1>2, <1>3
  <1> HIDE DEF next
  <1>6. QED
    BY <1>4, <1>5 DEF MessagesTypeOK, OthersStay, SameTask

\* What a beginning does: one free slot is taken, and the messages on which the new
\* request meets a deletion, or a new deletion meets another request, are contested.
Began(r, task) ==
    /\ At(r, "new") /\ job' \in [Reqs -> Job] /\ job'[r] = task /\ OthersStay(r)
    /\ begun' = begun + 1 /\ begun' \in 0..MaxBegun
    /\ contested \subseteq contested' /\ contested' \in SUBSET Messages
    /\ \A m \in Messages \ contested', q \in Reqs :
          (task.all \/ task.msg = m) /\ Touches(q, m) => (Deletes(q) <=> task.step = "deleting")

\* Contest notes every meeting on the messages it is given.
LEMMA ContestNotes ==
    ASSUME MessagesTypeOK, NEW ms \in SUBSET (Messages \cup {None}), NEW d \in BOOLEAN,
           Contest(ms, d)
    PROVE  /\ contested \subseteq contested'
           /\ contested' \in SUBSET (Messages \cup {None})
           /\ \A m \in ms \ contested', q \in Reqs : Touches(q, m) => (Deletes(q) <=> d)
  BY DEF Contest, MessagesTypeOK, Touches, Deletes

\* The check of a request begins it.
LEMMA Begins ==
    ASSUME MessagesTypeOK, NEW r \in Reqs, NEW task \in Job,
           task.all \/ task.msg \in Messages, Begin(r, task)
    PROVE  Began(r, task)
  <1> DEFINE ms == IF task.all THEN Messages ELSE {task.msg}
  <1>1. ms \in SUBSET Messages
    OBVIOUS
  <1>2. Contest(ms, task.step = "deleting")
    BY DEF Begin
  <1>3. contested' \in SUBSET Messages
    BY <1>1, <1>2 DEF Contest, MessagesTypeOK
  <1>4. \A m \in ms \ contested', q \in Reqs :
            Touches(q, m) => (Deletes(q) <=> task.step = "deleting")
    BY <1>1, <1>2, ContestNotes
  <1>5. begun' = begun + 1 /\ begun' \in 0..MaxBegun
    BY MessagesAssumption DEF Begin, MessagesTypeOK
  <1>6. QED
    BY <1>1, <1>2, <1>3, <1>4, <1>5 DEF Begin, Began, OthersStay, MessagesTypeOK, Contest

----------------------------------------------------------------------------
(* What a request's check leaves behind, told by the kind of the request.  *)

\* The tables and files a check leaves alone, all but a forward's.
Looks == UNCHANGED <<row, body, unread, meant>>

\* The whole chat is to be cleared.
Clears(task) == Looks /\ task.all /\ task.step = "deleting" /\ task.file = None

\* One message is to be edited, deleted or pinned, or its pin taken off.
Aims(task) == /\ Looks /\ ~ task.all /\ task.msg \in Messages /\ task.file = None
              /\ \/ task.step \in {"editing", "deleting", "pinning"} /\ row[task.msg] = "live"
                 \/ task.step = "unpinning"

\* One attachment is to be removed.
Removes(task) == /\ Looks /\ ~ task.all /\ task.file \in Files /\ task.step = "dropping"
                 /\ home[task.file] = task.msg /\ task.msg \in Messages

\* A message is to have a new file.
Gives(task) == /\ ~ task.all /\ task.msg \in Messages /\ task.file \in Files
               /\ meant[task.file] = None
               /\ meant' = [meant EXCEPT ![task.file] = task.msg]
               /\ \/ /\ task.step = "uploading" /\ row[task.msg] \in {"live", "deleted"}
                     /\ UNCHANGED <<row, body, unread>>
                  \/ task.step = "forwarding" /\ Create(task.msg)

Checked(r, task) == /\ task \in Job /\ Began(r, task)
                    /\ Clears(task) \/ Aims(task) \/ Removes(task) \/ Gives(task)
                    /\ UNCHANGED <<pins, notices, home, blobs, faulted>>

\* Every check is of one of these kinds.
LEMMA ChecksAreOfKinds ==
    ASSUME MessagesTypeOK, NEW r \in Reqs, Check(r)
    PROVE  \E task : Checked(r, task)
  <1>1. CASE CheckClear(r)
    <2> DEFINE a == [New EXCEPT !.step = "deleting"]
               task == [New EXCEPT !.step = "deleting", !.all = TRUE]
    <2>1. a \in Job /\ a.step = "deleting" /\ a.file = None
      BY NewIsJob DEF Job
    <2>2. task = [a EXCEPT !.all = TRUE]
      OBVIOUS
    <2> HIDE DEF a
    <2>3. task \in Job /\ task.step = "deleting" /\ task.all /\ task.file = None
      BY <2>1, <2>2 DEF Job
    <2>4. Begin(r, task) /\ UNCHANGED <<tables, blobs, meant, faulted>>
      BY <1>1 DEF CheckClear
    <2> HIDE DEF task
    <2>5. Began(r, task)
      BY <2>3, <2>4, Begins
    <2>6. QED
      BY <2>3, <2>4, <2>5 DEF Checked, Clears, Looks, tables
  <1>2. ASSUME NEW m \in Messages, CheckEdit(r, m) \/ CheckDelete(r, m) \/ CheckPin(r, m)
        PROVE  \E task : Checked(r, task)
    <2>1. PICK step \in {"editing", "deleting", "pinning"} : Begin(r, On(step, m))
      BY <1>2 DEF CheckEdit, CheckDelete, CheckPin
    <2>2. row[m] = "live" /\ UNCHANGED <<tables, blobs, meant, faulted>>
      BY <1>2 DEF CheckEdit, CheckDelete, CheckPin
    <2>3. step \in Tasks
      BY <2>1 DEF Tasks
    <2>4. Began(r, On(step, m))
      BY <2>1, <2>3, TaskIsJob, Begins
    <2>5. QED
      BY <2>1, <2>2, <2>3, <2>4, TaskIsJob DEF Checked, Aims, Looks, tables
  <1>3. ASSUME NEW m \in Messages, CheckUnpin(r, m) PROVE \E task : Checked(r, task)
    <2>1. Begin(r, On("unpinning", m)) /\ UNCHANGED <<tables, blobs, meant, faulted>>
      BY <1>3 DEF CheckUnpin
    <2>2. "unpinning" \in Tasks
      BY DEF Tasks
    <2>3. Began(r, On("unpinning", m))
      BY <2>1, <2>2, TaskIsJob, Begins
    <2>4. QED
      BY <2>1, <2>2, <2>3, TaskIsJob DEF Checked, Aims, Looks, tables
  <1>4. ASSUME NEW f \in Files, CheckDrop(r, f) PROVE \E task : Checked(r, task)
    <2> DEFINE task == [On("dropping", home[f]) EXCEPT !.file = f]
    <2>1. home[f] \in Messages
      BY <1>4 DEF CheckDrop, Present
    <2>2. Begin(r, task) /\ UNCHANGED <<tables, blobs, meant, faulted>>
      BY <1>4 DEF CheckDrop
    <2>3.FileTask(task, "dropping", home[f], f)
      BY <2>1, FileTaskIsJob DEF Tasks
    <2> HIDE DEF task
    <2>4. Began(r, task)
      BY <2>1, <2>2, <2>3, Begins DEF FileTask
    <2>5. QED
      BY <2>1, <2>2, <2>3, <2>4 DEF Checked, Removes, Looks, tables, FileTask
  <1>5. ASSUME NEW f \in Files, NEW m \in Messages, CheckUpload(r, m, f)
        PROVE  \E task : Checked(r, task)
    <2> DEFINE task == [On("uploading", m) EXCEPT !.file = f, !.keys = {}]
    <2>1. /\ Begin(r, task) /\ meant[f] = None /\ meant' = [meant EXCEPT ![f] = m]
          /\ UNCHANGED <<tables, blobs, faulted>> /\ row[m] \in {"live", "deleted"}
      BY <1>5 DEF CheckUpload, NewFile, Present
    <2>2.FileTask(task, "uploading", m, f)
      BY FileTaskIsJob DEF Tasks
    <2> HIDE DEF task
    <2>3. Began(r, task)
      BY <2>1, <2>2, Begins DEF FileTask
    <2>4. QED
      BY <2>1, <2>2, <2>3 DEF Checked, Gives, tables, FileTask
  <1>6. ASSUME NEW f \in Files, NEW m \in Messages, NEW source \in Files, Forward(r, m, source, f)
        PROVE  \E task : Checked(r, task)
    <2> DEFINE task == [On("forwarding", m) EXCEPT !.file = f, !.keys = {source}]
    <2>1. /\ Begin(r, task) /\ meant[f] = None /\ meant' = [meant EXCEPT ![f] = m]
          /\ UNCHANGED <<blobs, faulted>> /\ Create(m)
      BY <1>6 DEF Forward, NewFile
    <2>2.FileTask(task, "forwarding", m, f)
      BY FileTaskIsJob DEF Tasks
    <2> HIDE DEF task
    <2>3. Began(r, task)
      BY <2>1, <2>2, Begins DEF FileTask
    <2>4. UNCHANGED <<pins, notices, home>>
      BY <2>1 DEF Create
    <2>5. QED
      BY <2>1, <2>2, <2>3, <2>4 DEF Checked, Gives, FileTask
  <1>7. QED
    BY <1>1, <1>2, <1>3, <1>4, <1>5, <1>6 DEF Check

----------------------------------------------------------------------------
(* What going on does to a request.                                        *)

Went(r) == job' \in [Reqs -> Job] /\ OthersStay(r)

\* The keys a deletion plucks are those of the files it finds.
LEMMA Plucking ==
    ASSUME MessagesTypeOK, NEW r \in Reqs, PluckKeys(r)
    PROVE  /\ Went(r) /\ At(r, "deleting")
           /\ \/ job'[r] = New
              \/ /\ SameTask(r) /\ job'[r].step = "plucked"
                 /\ job'[r].keys = FilesOf(Scope(r))
  <1>1. job[r] \in Job
    BY DEF MessagesTypeOK
  <1>2. FilesOf(Scope(r)) \in SUBSET Files
    BY DEF FilesOf
  <1> DEFINE a == [job[r] EXCEPT !.step = "plucked"]
             b == [a EXCEPT !.keys = FilesOf(Scope(r))]
  <1>3. a \in Job /\ a.step = "plucked" /\ a.all = job[r].all /\ a.msg = job[r].msg
        /\ a.file = job[r].file
    BY <1>1 DEF Job
  <1>4. Finish(r) \/ job' = [job EXCEPT ![r] = b]
    BY DEF PluckKeys
  <1> HIDE DEF a
  <1>5. b \in Job /\ b.step = "plucked" /\ b.all = job[r].all /\ b.msg = job[r].msg
        /\ b.file = job[r].file /\ b.keys = FilesOf(Scope(r))
    BY <1>2, <1>3 DEF Job
  <1> HIDE DEF b
  <1>6. CASE Finish(r)
    BY <1>6, Finishes DEF PluckKeys, Went
  <1>7. CASE job' = [job EXCEPT ![r] = b]
    BY <1>5, <1>7 DEF PluckKeys, Went, OthersStay, SameTask, MessagesTypeOK
  <1>8. QED
    BY <1>4, <1>6, <1>7

Mine(r) == IF job[r].all THEN Messages ELSE Scope(r)

\* The rows a deletion dooms are those it finds when its statements run.
LEMMA ReadingRows ==
    ASSUME MessagesTypeOK, NEW r \in Reqs, DeleteRows(r)
    PROVE  /\ Went(r) /\ SameTask(r)
           /\ At(r, "plucked") /\ job'[r].step = "wiping" /\ job'[r].keys = job[r].keys
           /\ job'[r].doomed.bodies = body \cap Scope(r)
           /\ job'[r].doomed.pins = pins \cap Mine(r)
           /\ job'[r].doomed.unread = unread \cap Mine(r)
           /\ job'[r].doomed.files = FilesOf(Scope(r))
  <1>1. job[r] \in Job
    BY DEF MessagesTypeOK
  <1> DEFINE d == [bodies |-> body \cap Scope(r), pins |-> pins \cap Mine(r),
                   unread |-> unread \cap Mine(r), files |-> FilesOf(Scope(r))]
             a == [job[r] EXCEPT !.step = "wiping"]
             b == [a EXCEPT !.doomed = d]
  <1>2. /\ d \in Rows /\ d.bodies = body \cap Scope(r) /\ d.pins = pins \cap Mine(r)
        /\ d.unread = unread \cap Mine(r) /\ d.files = FilesOf(Scope(r))
    BY DEF Rows, FilesOf, MessagesTypeOK
  <1>3. job' = [job EXCEPT ![r] = b]
    BY DEF DeleteRows, Mine
  <1> HIDE DEF d
  <1>4. a \in Job /\ a.step = "wiping" /\ a.all = job[r].all /\ a.msg = job[r].msg
        /\ a.file = job[r].file /\ a.keys = job[r].keys
    BY <1>1 DEF Job
  <1> HIDE DEF a
  <1>5. b \in Job /\ b.step = "wiping" /\ b.all = job[r].all /\ b.msg = job[r].msg
        /\ b.file = job[r].file /\ b.keys = job[r].keys /\ b.doomed = d
    BY <1>2, <1>4 DEF Job
  <1> HIDE DEF b
  <1>6. QED
    BY <1>2, <1>3, <1>5 DEF DeleteRows, Went, OthersStay, SameTask, MessagesTypeOK

\* The commit of a deletion leaves it with the keys to sweep.
LEMMA Committing ==
    ASSUME MessagesTypeOK, NEW r \in Reqs, CommitDeletion(r)
    PROVE  /\ Went(r) /\ SameTask(r)
           /\ At(r, "wiping") /\ job'[r].step = "sweeping" /\ job'[r].keys = job[r].keys
  <1>1. job[r] \in Job
    BY DEF MessagesTypeOK
  <1> DEFINE a == [job[r] EXCEPT !.step = "sweeping"]
             b == [a EXCEPT !.doomed = NoRows]
  <1>2. job' = [job EXCEPT ![r] = b]
    BY DEF CommitDeletion
  <1>3. a \in Job /\ a.step = "sweeping" /\ a.all = job[r].all /\ a.msg = job[r].msg
        /\ a.file = job[r].file /\ a.keys = job[r].keys
    BY <1>1 DEF Job
  <1> HIDE DEF a
  <1>4. b \in Job /\ b.step = "sweeping" /\ b.all = job[r].all /\ b.msg = job[r].msg
        /\ b.file = job[r].file /\ b.keys = job[r].keys
    BY <1>3, NewIsJob DEF Job
  <1> HIDE DEF b
  <1>5. QED
    BY <1>2, <1>4 DEF CommitDeletion, Went, OthersStay, SameTask, MessagesTypeOK

\* Of all these: a request ends, or goes on with the same task, and the storage keys
\* it comes to hold belong to files it found.
Moved(r) ==
    /\ Went(r) /\ UNCHANGED <<begun, meant, contested>>
    /\ \/ job'[r] = New
       \/ /\ SameTask(r)
          /\ \/ Brings(r) /\ job'[r].step \in {"saved", "copying", "undoing"}
             \/ At(r, "dropping") /\ job'[r].step = "dropped"
             \/ /\ Deletes(r) /\ job'[r].step \in {"plucked", "wiping", "sweeping"}
                /\ \A f \in job'[r].keys : \/ Plucked(r) /\ f \in job[r].keys
                                           \/ At(r, "deleting") /\ home[f] \in Scope(r)

\* Every step of a request but the first moves it so.
LEMMA ProceedMoves ==
    ASSUME MessagesTypeOK, NEW r \in Reqs, Proceed(r)
    PROVE  ~ At(r, "new") /\ Moved(r)
  <1> USE DEF At, Moved, Went
  <1>1. CASE \/ WriteEdit(r) \/ DeletionFails(r) \/ SweepBlobs(r) \/ InsertPin(r)
             \/ DeletePin(r) \/ RollBack(r) \/ DropFile(r)
    BY <1>1, Finishes DEF WriteEdit, DeletionFails, SweepBlobs, InsertPin, DeletePin, RollBack,
                          DropFile
  <1>2. CASE PluckKeys(r)
    BY <1>2, Plucking DEF PluckKeys, Deletes, FilesOf
  <1>3. CASE DeleteRows(r)
    BY <1>3, ReadingRows DEF DeleteRows, Deletes, Plucked
  <1>4. CASE CommitDeletion(r)
    BY <1>4, Committing DEF CommitDeletion, Deletes, Plucked
  <1>5. CASE SaveBlob(r)
    BY <1>5, Finishes, GoesOn DEF SaveBlob, Brings
  <1>6. CASE FindSource(r)
    BY <1>6, Finishes, GoesOn DEF FindSource, Brings
  <1>7. CASE CopyBlob(r)
    BY <1>7, Finishes, GoesOn DEF CopyBlob, Brings
  <1>8. CASE InsertFile(r)
    BY <1>8, Finishes, GoesOn DEF InsertFile, Brings
  <1>9. CASE DropBlob(r)
    BY <1>9, GoesOn DEF DropBlob
  <1>10. QED
    BY <1>1, <1>2, <1>3, <1>4, <1>5, <1>6, <1>7, <1>8, <1>9 DEF Proceed

----------------------------------------------------------------------------
(* Types, and the count of notices they need.                              *)

\* A request posts at most one notice, and ends when it does.
LEMMA NoticesPosted ==
    ASSUME MessagesTypeOK, NEW r \in Reqs, Proceed(r)
    PROVE  notices' \in Nat /\ (notices' <= notices \/ (notices' = notices + 1 /\ job'[r] = New))
  <1>1. notices \in Nat
    BY DEF MessagesTypeOK
  <1>2. CASE InsertPin(r) \/ DeletePin(r)
    BY <1>1, <1>2, Finishes DEF InsertPin, DeletePin
  <1>3. CASE CommitDeletion(r)
    BY <1>1, <1>3 DEF CommitDeletion
  <1>4. CASE ~ (InsertPin(r) \/ DeletePin(r) \/ CommitDeletion(r))
    <2>1. UNCHANGED notices
      BY <1>4 DEF Proceed, WriteEdit, PluckKeys, DeleteRows, DeletionFails, SweepBlobs, SaveBlob,
                  FindSource, CopyBlob, InsertFile, RollBack, DropBlob, DropFile, tables
    <2>2. QED
      BY <1>1, <2>1
  <1>5. QED
    BY <1>2, <1>3, <1>4

\* No more notices are posted than requests are begun: those under way may yet post one.
LEMMA NoticesStayCounted ==
    ASSUME MessagesTypeOK, NoticesAreCounted, [MessagesNext]_mvars
    PROVE  NoticesAreCounted' /\ notices' \in Nat
  <1> USE DEF NoticesAreCounted
  <1>1. notices \in Nat /\ begun \in Nat /\ Cardinality(Busy) \in Nat
    BY MessagesAssumption, FS_CardinalityType DEF MessagesTypeOK
  <1>2. CASE UNCHANGED mvars \/ \E m \in Messages : Send(m)
    BY <1>1, <1>2 DEF mvars, Send, Create, Busy, At
  <1>3. ASSUME NEW r \in Reqs, Check(r) PROVE NoticesAreCounted' /\ notices' \in Nat
    <2>1. PICK task : Checked(r, task)
      BY <1>3, ChecksAreOfKinds
    <2>2. task.step # "new"
      BY <2>1 DEF Checked, Clears, Aims, Removes, Gives
    <2>3. r \notin Busy /\ Busy' = Busy \cup {r}
      BY <2>1, <2>2 DEF Checked, Began, OthersStay, Busy, At
    <2>4. IsFiniteSet(Busy') /\ Cardinality(Busy') = Cardinality(Busy) + 1
      BY <2>3, FS_AddElement
    <2>5. QED
      BY <1>1, <2>1, <2>4 DEF Checked, Began
  <1>4. ASSUME NEW r \in Reqs, Proceed(r) PROVE NoticesAreCounted' /\ notices' \in Nat
    <2>1. ~ At(r, "new") /\ Moved(r)
      BY <1>4, ProceedMoves
    <2>2. CASE job'[r] = New
      <3>1. r \in Busy /\ Busy' = Busy \ {r}
        BY <2>1, <2>2, NewIsJob DEF Moved, Went, OthersStay, Busy, At
      <3>2. IsFiniteSet(Busy') /\ Cardinality(Busy') = Cardinality(Busy) - 1
        BY <3>1, FS_RemoveElement
      <3>3. QED
        BY <1>1, <1>4, <2>1, <3>2, NoticesPosted DEF Moved
    <2>3. CASE job'[r] # New
      <3>1. Busy' = Busy
        BY <2>1, <2>3 DEF Moved, Went, OthersStay, Busy, At
      <3>2. QED
        BY <1>1, <1>4, <2>1, <2>3, <3>1, NoticesPosted DEF Moved
    <2>4. QED
      BY <2>2, <2>3
  <1>5. QED
    BY <1>2, <1>3, <1>4 DEF MessagesNext

\* What a request under way writes keeps the types.
LEMMA ProceedTypes ==
    ASSUME MessagesTypeOK, TasksAreSound, BroughtFiles, DroppedFiles, NEW r \in Reqs, Proceed(r)
    PROVE  /\ row' \in [Messages -> {"none", "live", "deleted", "purged"}]
           /\ body' \in SUBSET Messages /\ pins' \in SUBSET Messages
           /\ unread' \in SUBSET Messages /\ home' \in [Files -> Messages \cup {None}]
           /\ blobs' \in SUBSET Files /\ faulted' \in SUBSET Files
  <1>1. /\ row \in [Messages -> {"none", "live", "deleted", "purged"}]
        /\ body \in SUBSET Messages /\ pins \in SUBSET Messages
        /\ unread \in SUBSET Messages /\ home \in [Files -> Messages \cup {None}]
        /\ blobs \in SUBSET Files /\ faulted \in SUBSET Files
        /\ job[r].msg \in Messages \cup {None} /\ job[r].keys \in SUBSET Files
    BY DEF MessagesTypeOK, Job
  <1> USE DEF tables, At
  <1>2. CASE WriteEdit(r)
    <2>1. job[r].msg \in Messages
      BY <1>2 DEF WriteEdit, TasksAreSound, Brings, Deletes
    <2>2. QED
      BY <1>1, <1>2, <2>1 DEF WriteEdit
  <1>3. CASE PluckKeys(r) \/ DeleteRows(r) \/ DeletionFails(r) \/ FindSource(r)
    BY <1>1, <1>3 DEF PluckKeys, DeleteRows, DeletionFails, FindSource
  <1>4. CASE CommitDeletion(r)
    BY <1>1, <1>4 DEF CommitDeletion
  <1>5. CASE SweepBlobs(r)
    BY <1>1, <1>5 DEF SweepBlobs
  <1>6. CASE InsertPin(r) \/ DeletePin(r)
    <2>1. InsertPin(r) => job[r].msg \in Messages
      BY DEF InsertPin, TasksAreSound, Brings, Deletes
    <2>2. QED
      BY <1>1, <1>6, <2>1 DEF InsertPin, DeletePin
  <1>7. CASE SaveBlob(r) \/ CopyBlob(r) \/ InsertFile(r) \/ RollBack(r)
    <2>1. job[r].file \in Files
      BY <1>7 DEF SaveBlob, CopyBlob, InsertFile, RollBack, BroughtFiles, Brings
    <2>2. QED
      BY <1>1, <1>7, <2>1 DEF SaveBlob, CopyBlob, InsertFile, RollBack, DeleteBlob
  <1>8. CASE DropBlob(r) \/ DropFile(r)
    <2>1. job[r].file \in Files
      BY <1>8 DEF DropBlob, DropFile, DroppedFiles, Drops
    <2>2. QED
      BY <1>1, <1>8, <2>1 DEF DropBlob, DropFile, DeleteBlob
  <1>9. QED
    BY <1>2, <1>3, <1>4, <1>5, <1>6, <1>7, <1>8 DEF Proceed

\* Every value stays within its type.
LEMMA TypeInductiveMessages ==
    ASSUME MessagesTypeOK, NoticesAreCounted, TasksAreSound, BroughtFiles, DroppedFiles,
           [MessagesNext]_mvars
    PROVE  MessagesTypeOK'
  <1>1. notices' \in Nat /\ NoticesAreCounted'
    BY NoticesStayCounted
  <1>2. notices' \in 0..MaxBegun
    <2>1. begun' \in 0..MaxBegun
      <3>1. CASE \E r \in Reqs : Check(r)
        BY <3>1, ChecksAreOfKinds DEF Checked, Began
      <3>2. CASE \E r \in Reqs : Proceed(r)
        BY <3>2, ProceedMoves DEF Moved, MessagesTypeOK
      <3>3. QED
        BY <3>1, <3>2 DEF MessagesNext, mvars, Send, MessagesTypeOK
    <2>2. Cardinality(Busy') \in Nat /\ notices' + Cardinality(Busy') <= begun'
      BY <1>1, FS_CardinalityType DEF NoticesAreCounted
    <2>3. QED
      BY <1>1, <2>1, <2>2, MessagesAssumption
  <1>3. CASE UNCHANGED mvars
    BY <1>3 DEF mvars, MessagesTypeOK
  <1>4. ASSUME NEW m \in Messages, Send(m) PROVE MessagesTypeOK'
    <2>1. contested' \in SUBSET Messages
      BY <1>4 DEF Send, Contest, MessagesTypeOK
    <2>2. QED
      BY <1>2, <1>4, <2>1 DEF Send, Create, MessagesTypeOK
  <1>5. ASSUME NEW r \in Reqs, Check(r) PROVE MessagesTypeOK'
    <2>1. PICK task : Checked(r, task)
      BY <1>5, ChecksAreOfKinds
    <2>2. /\ begun' \in 0..MaxBegun /\ job' \in [Reqs -> Job] /\ contested' \in SUBSET Messages
          /\ UNCHANGED <<pins, home, blobs, faulted>>
      BY <2>1 DEF Checked, Began
    <2>3. /\ row' \in [Messages -> {"none", "live", "deleted", "purged"}]
          /\ body' \in SUBSET Messages /\ unread' \in SUBSET Messages
          /\ meant' \in [Files -> Messages \cup {None}]
      BY <2>1 DEF Checked, Clears, Aims, Removes, Gives, Looks, Create, MessagesTypeOK
    <2>4. QED
      BY <1>2, <2>2, <2>3 DEF MessagesTypeOK
  <1>6. ASSUME NEW r \in Reqs, Proceed(r) PROVE MessagesTypeOK'
    <2>1. job' \in [Reqs -> Job] /\ UNCHANGED <<begun, meant, contested>>
      BY <1>6, ProceedMoves DEF Moved, Went
    <2>2. QED
      BY <1>2, <1>6, <2>1, ProceedTypes DEF MessagesTypeOK
  <1>7. QED
    BY <1>3, <1>4, <1>5, <1>6 DEF MessagesNext

----------------------------------------------------------------------------
(* What holds of the requests themselves.                                  *)

\* A message that was sent is never unsent.
LEMMA SentStaysSent ==
    ASSUME MessagesTypeOK, [MessagesNext]_mvars
    PROVE  \A m \in Messages : /\ row[m] # "none" => row'[m] # "none"
                               /\ row[m] \in {"deleted", "purged"} =>
                                  row'[m] \in {"deleted", "purged"}
                               /\ row[m] = "purged" => row'[m] = "purged"
  <1>1. CASE UNCHANGED row
    BY <1>1
  <1>2. ASSUME NEW n \in Messages, Create(n)
        PROVE  \A m \in Messages : row[m] # "none" => row'[m] = row[m]
    BY <1>2 DEF Create, MessagesTypeOK
  <1>3. ASSUME NEW r \in Reqs, CommitDeletion(r)
        PROVE  \A m \in Messages :
                  row'[m] = row[m] \/ (m \in Present /\ row'[m] \in {"deleted", "purged"})
    BY <1>3 DEF CommitDeletion
  <1>4. \/ UNCHANGED row
        \/ \E n \in Messages : Create(n)
        \/ \E r \in Reqs : CommitDeletion(r)
    <2>1. ASSUME NEW r \in Reqs, Check(r) PROVE UNCHANGED row \/ \E n \in Messages : Create(n)
      BY <2>1, ChecksAreOfKinds DEF Checked, Clears, Aims, Removes, Gives, Looks
    <2>2. ASSUME NEW r \in Reqs, Proceed(r) PROVE UNCHANGED row \/ CommitDeletion(r)
      BY <2>2 DEF Proceed, WriteEdit, PluckKeys, DeleteRows, DeletionFails, SweepBlobs, InsertPin,
                  DeletePin, SaveBlob, FindSource, CopyBlob, InsertFile, RollBack, DropBlob,
                  DropFile, tables
    <2>3. QED
      BY <2>1, <2>2 DEF MessagesNext, mvars, Send
  <1>5. QED
    BY <1>1, <1>2, <1>3, <1>4 DEF Present

\* What a request holds goes on fitting the step it is at.
LEMMA TasksStaySound ==
    ASSUME MessagesInv, [MessagesNext]_mvars
    PROVE  TasksAreSound'
  <1> USE DEF MessagesInv
  <1> SUFFICES ASSUME NEW q \in Reqs
               PROVE  /\ job'[q].all => Deletes(q)' \/ At(q, "sweeping")'
                      /\ ~ Brings(q)' /\ ~ Drops(q)' => job'[q].file = None
                      /\ (At(q, "editing") \/ At(q, "pinning") \/ Deletes(q))' /\ ~ job'[q].all =>
                             job'[q].msg \in Messages /\ row'[job'[q].msg] # "none"
    BY DEF TasksAreSound
  <1> USE DEF At, Deletes, Brings, Drops
  <1>1. CASE job'[q] = job[q]
    BY <1>1, SentStaysSent DEF TasksAreSound
  <1>2. CASE Check(q)
    <2>1. PICK task : Checked(q, task)
      BY <1>2, ChecksAreOfKinds
    <2>2. job'[q] = task
      BY <2>1 DEF Checked, Began
    <2>3. QED
      BY <2>1, <2>2, SentStaysSent DEF Checked, Clears, Aims, Removes, Gives
  <1>3. CASE Proceed(q)
    <2>1. Moved(q)
      BY <1>3, ProceedMoves
    <2>2. CASE job'[q] = New
      BY <2>2, NewIsJob
    <2>3. CASE job'[q] # New
      BY <2>1, <2>3, SentStaysSent DEF Moved, SameTask, TasksAreSound
    <2>4. QED
      BY <2>2, <2>3
  <1>4. QED
    <2>1. ASSUME NEW r \in Reqs, r # q, Check(r) \/ Proceed(r) PROVE job'[q] = job[q]
      BY <2>1, ChecksAreOfKinds, ProceedMoves DEF Checked, Began, Moved, Went, OthersStay
    <2>2. QED
      BY <1>1, <1>2, <1>3, <2>1 DEF MessagesNext, mvars, Send

\* Nobody comes to hold a file that is on its way.
LEMMA BroughtStaysOnce ==
    ASSUME MessagesInv, [MessagesNext]_mvars
    PROVE  BroughtOnce'
  <1> USE DEF MessagesInv
  <1> DEFINE Apart(r, q) == /\ Brings(q) \/ Drops(q) => job[q].file # job[r].file
                            /\ Plucked(q) => job[r].file \notin job[q].keys
  <1>0. BroughtOnce = \A r, q \in Reqs : Brings(r) /\ q # r => Apart(r, q)
    BY DEF BroughtOnce
  <1>1. CASE UNCHANGED job
    BY <1>1 DEF BroughtOnce, Brings, Drops, Plucked
  <1>2. ASSUME NEW r \in Reqs, Check(r) PROVE BroughtOnce'
    <2>1. PICK task : Checked(r, task)
      BY <1>2, ChecksAreOfKinds
    <2>2. job'[r] = task /\ OthersStay(r)
      BY <2>1 DEF Checked, Began
    <2>3. ASSUME NEW q \in Reqs, q # r, Brings(q) PROVE Apart(q, r)'
      <3>1. job'[q] = job[q] /\ ~ Plucked(r)'
        BY <2>1, <2>2, <2>3 DEF OthersStay, Plucked, Checked, Clears, Aims, Removes, Gives
      <3>2. job[q].file \in Files /\ home[job[q].file] = None /\ meant[job[q].file] \in Messages
        BY <2>3 DEF BroughtFiles
      <3>3. (Brings(r) \/ Drops(r))' => task.file # job[q].file
        BY <2>1, <2>2, <3>2, MessagesAssumption
           DEF Brings, Drops, Checked, Clears, Aims, Removes, Gives
      <3>4. QED
        BY <2>2, <3>1, <3>3
    <2>4. ASSUME NEW q \in Reqs, q # r, Brings(r)' PROVE Apart(r, q)'
      <3>1. task.file \in Files /\ meant[task.file] = None
        BY <2>1, <2>2, <2>4 DEF Brings, Checked, Clears, Aims, Removes, Gives
      <3>2. Brings(q) \/ Drops(q) => meant[job[q].file] # None
        BY MessagesAssumption DEF BroughtFiles, DroppedFiles
      <3>3. Plucked(q) => task.file \notin job[q].keys
        BY <3>1 DEF PluckedFiles
      <3>4. job'[q] = job[q]
        BY <2>2, <2>4 DEF OthersStay
      <3>5. QED
        BY <2>2, <3>1, <3>2, <3>3, <3>4 DEF Brings, Drops, Plucked
    <2>5. ASSUME NEW p \in Reqs, NEW q \in Reqs, p # r, q # r, Brings(p)', q # p
          PROVE  Apart(p, q)'
      <3>1. job'[p] = job[p] /\ job'[q] = job[q]
        BY <2>2, <2>5 DEF OthersStay
      <3>2. Brings(p)
        BY <2>5, <3>1 DEF Brings
      <3>3. QED
        BY <2>5, <3>1, <3>2 DEF BroughtOnce, Brings, Drops, Plucked
    <2>6. ASSUME NEW q \in Reqs, q # r, Brings(q)' PROVE Brings(q)
      BY <2>2, <2>6 DEF OthersStay, Brings
    <2>7. QED
      BY <2>3, <2>4, <2>5, <2>6 DEF BroughtOnce
  <1>3. ASSUME NEW r \in Reqs, Proceed(r) PROVE BroughtOnce'
    <2>1. Moved(r)
      BY <1>3, ProceedMoves
    <2>2. \A q \in Reqs : /\ Brings(q)' => Brings(q) /\ job'[q].file = job[q].file
                          /\ Drops(q)' => Drops(q) /\ job'[q].file = job[q].file
      BY <2>1, NewIsJob DEF Moved, Went, OthersStay, SameTask, Brings, Drops, Deletes, At
    <2>3. \A q \in Reqs : Plucked(q)' => \A f \in job'[q].keys :
              (Plucked(q) /\ f \in job[q].keys) \/ (Deletes(q) /\ home[f] \in Scope(q))
      BY <2>1, NewIsJob DEF Moved, Went, OthersStay, Plucked, Deletes, At
    <2>4. \A p, q \in Reqs : Brings(p) /\ Deletes(q) => home[job[p].file] \notin Scope(q)
      <3>1. \A q \in Reqs : Deletes(q) => None \notin Scope(q)
        BY MessagesAssumption DEF Scope, Present, TasksAreSound
      <3>2. QED
        BY <3>1 DEF BroughtFiles
    <2>5. QED
      BY <2>2, <2>3, <2>4 DEF BroughtOnce
  <1>4. QED
    BY <1>1, <1>2, <1>3 DEF MessagesNext, mvars, Send

\* Where a deletion comes to meet something else, the message is noted as contested.
LEMMA MeetingsStayNoted ==
    ASSUME MessagesInv, [MessagesNext]_mvars
    PROVE  MeetingsAreNoted'
  <1> USE DEF MessagesInv
  <1>1. CASE UNCHANGED job /\ contested \subseteq contested'
    BY <1>1 DEF MeetingsAreNoted, Touches, InFlight, Deletes
  <1>2. ASSUME NEW r \in Reqs, Check(r) PROVE MeetingsAreNoted'
    <2>1. PICK task : Checked(r, task)
      BY <1>2, ChecksAreOfKinds
    <2>2. Began(r, task)
      BY <2>1 DEF Checked
    <2>3. job'[r] = task /\ OthersStay(r) /\ contested \subseteq contested'
      BY <2>2 DEF Began
    <2>4. Deletes(r)' <=> task.step = "deleting"
      BY <2>1, <2>3 DEF Deletes, Checked, Clears, Aims, Removes, Gives
    <2>5. \A q \in Reqs \ {r} : Deletes(q)' = Deletes(q)
      BY <2>3 DEF OthersStay, Deletes
    <2>6. \A q \in Reqs \ {r}, m \in Messages : Touches(q, m)' <=> Touches(q, m)
      BY <2>3 DEF OthersStay, Touches, InFlight
    <2>7. \A m \in Messages : Touches(r, m)' => task.all \/ task.msg = m
      BY <2>3 DEF Touches
    <2>8. \A m \in Messages \ contested', q \in Reqs \ {r} :
              Touches(r, m)' /\ Touches(q, m)' => (Deletes(q)' <=> Deletes(r)')
      BY <2>2, <2>4, <2>5, <2>6, <2>7 DEF Began
    <2>9. QED
      BY <2>3, <2>5, <2>6, <2>8 DEF MeetingsAreNoted
  <1>3. ASSUME NEW r \in Reqs, Proceed(r) PROVE MeetingsAreNoted'
    <2>1. Moved(r)
      BY <1>3, ProceedMoves
    <2>2. \A q \in Reqs, m \in Messages :
              Touches(q, m)' => Touches(q, m) /\ (Deletes(q)' <=> Deletes(q))
      BY <2>1, NewIsJob
         DEF Moved, Went, OthersStay, SameTask, Touches, InFlight, Deletes, Brings, At
    <2>3. QED
      BY <2>1, <2>2 DEF Moved, MeetingsAreNoted
  <1>4. ASSUME NEW m \in Messages, Send(m) PROVE UNCHANGED job /\ contested \subseteq contested'
    BY <1>4 DEF Send, Contest
  <1>5. QED
    BY <1>1, <1>2, <1>3, <1>4 DEF MessagesNext, mvars

----------------------------------------------------------------------------
(* Files and their blobs.                                                  *)

\* What a step of a request under way does to the attachment rows: at most the file it
\* brought gets one.
LEMMA RowsOfFiles ==
    ASSUME MessagesTypeOK, BroughtFiles, DroppedFiles, NEW r \in Reqs, Proceed(r)
    PROVE  \A f \in Files : \/ home'[f] = home[f]
                            \/ home'[f] = None
                            \/ /\ At(r, "saved") /\ f = job[r].file /\ job'[r] = New
                               /\ home'[f] = job[r].msg /\ job[r].msg \in Messages
  <1>1. CASE InsertFile(r)
    <2>1. At(r, "saved") /\ Brings(r)
      BY <1>1 DEF InsertFile, Brings, At
    <2>2. job[r].file \in Files /\ job[r].msg \in Messages
      BY <2>1 DEF BroughtFiles
    <2>3. UNCHANGED home \/ (home' = [home EXCEPT ![job[r].file] = job[r].msg] /\ Finish(r))
      BY <1>1 DEF InsertFile
    <2>4. QED
      BY <2>1, <2>2, <2>3, Finishes DEF MessagesTypeOK
  <1>2. CASE CommitDeletion(r)
    BY <1>2 DEF CommitDeletion
  <1>3. CASE DropFile(r)
    BY <1>3 DEF DropFile, MessagesTypeOK
  <1>4. CASE ~ (InsertFile(r) \/ CommitDeletion(r) \/ DropFile(r))
    BY <1>4 DEF Proceed, WriteEdit, PluckKeys, DeleteRows, DeletionFails, SweepBlobs, InsertPin,
                DeletePin, SaveBlob, FindSource, CopyBlob, RollBack, DropBlob, tables
  <1>5. QED
    BY <1>1, <1>2, <1>3, <1>4

\* What it does to the blobs: it saves the file it brings, or removes one it holds, or
\* notes that it could not.
LEMMA StepsOnBlobs ==
    ASSUME MessagesTypeOK, NEW r \in Reqs, Proceed(r)
    PROVE  /\ \A f \in blobs' \ blobs : /\ f = job[r].file /\ job'[r].step = "saved"
                                        /\ At(r, "uploading") \/ At(r, "copying")
           /\ job'[r].step = "saved" => job[r].file \in blobs'
           /\ \A f \in blobs \ blobs' :
                 \/ At(r, "sweeping") /\ f \in job[r].keys
                 \/ At(r, "undoing") /\ f = job[r].file
                 \/ At(r, "dropping") /\ f = job[r].file /\ job'[r].step = "dropped"
           /\ faulted \subseteq faulted'
           /\ At(r, "sweeping") => blobs' \cap job[r].keys \subseteq faulted'
           /\ At(r, "undoing") /\ job'[r] = New => job[r].file \notin blobs' \ faulted'
           /\ At(r, "dropping") => job'[r].step = "dropped"
           /\ job'[r].step = "dropped" => job[r].file \notin blobs' \ faulted'
           /\ At(r, "dropped") =>
                  home' = [home EXCEPT ![job[r].file] = None] \/ job[r].file \in faulted'
  <1> USE DEF At
  <1>0. ASSUME job'[r] = New PROVE job'[r].step = "new"
    BY <1>0, NewIsJob
  <1>1. CASE WriteEdit(r) \/ DeletionFails(r) \/ InsertPin(r) \/ DeletePin(r)
    BY <1>0, <1>1, Finishes DEF WriteEdit, DeletionFails, InsertPin, DeletePin, tables
  <1>2. CASE PluckKeys(r)
    BY <1>0, <1>2, Plucking DEF PluckKeys, tables
  <1>3. CASE DeleteRows(r)
    BY <1>3, ReadingRows DEF DeleteRows, tables
  <1>4. CASE CommitDeletion(r)
    BY <1>4, Committing DEF CommitDeletion
  <1>5. CASE SweepBlobs(r)
    BY <1>0, <1>5, Finishes DEF SweepBlobs, tables
  <1>6. CASE SaveBlob(r) \/ CopyBlob(r)
    BY <1>0, <1>6, Finishes, GoesOn DEF SaveBlob, CopyBlob, tables
  <1>7. CASE FindSource(r) \/ InsertFile(r)
    BY <1>0, <1>7, Finishes, GoesOn DEF FindSource, InsertFile, tables
  <1>8. CASE RollBack(r)
    BY <1>0, <1>8, Finishes DEF RollBack, DeleteBlob, tables
  <1>9. CASE DropBlob(r)
    BY <1>9, GoesOn DEF DropBlob, DeleteBlob, tables
  <1>10. CASE DropFile(r)
    BY <1>0, <1>10, Finishes DEF DropFile, tables
  <1>11. QED
    BY <1>1, <1>2, <1>3, <1>4, <1>5, <1>6, <1>7, <1>8, <1>9, <1>10 DEF Proceed

\* A file keeps the message it was made for.
LEMMA MeantStays ==
    ASSUME MessagesTypeOK, [MessagesNext]_mvars
    PROVE  \A f \in Files : meant[f] # None => meant'[f] = meant[f]
  <1>1. ASSUME NEW r \in Reqs, Check(r)
        PROVE  \A f \in Files : meant[f] # None => meant'[f] = meant[f]
    BY <1>1, ChecksAreOfKinds
       DEF Checked, Clears, Aims, Removes, Gives, Looks, MessagesTypeOK
  <1>2. ASSUME NEW r \in Reqs, Proceed(r) PROVE UNCHANGED meant
    BY <1>2, ProceedMoves DEF Moved
  <1>3. QED
    BY <1>1, <1>2 DEF MessagesNext, mvars, Send

\* A file goes on belonging to the message it was made for or to none.
LEMMA FilesStayMeant ==
    ASSUME MessagesInv, [MessagesNext]_mvars
    PROVE  FilesAreMeant' /\ BodiesAreSent'
  <1> USE DEF MessagesInv
  <1>1. CASE UNCHANGED mvars
    BY <1>1 DEF mvars, FilesAreMeant, BodiesAreSent
  <1>2. ASSUME NEW m \in Messages, Send(m) PROVE FilesAreMeant' /\ BodiesAreSent'
    BY <1>2, SentStaysSent DEF Send, Create, FilesAreMeant, BodiesAreSent, MessagesTypeOK
  <1>3. ASSUME NEW r \in Reqs, Check(r) PROVE FilesAreMeant' /\ BodiesAreSent'
    <2>1. PICK task : Checked(r, task)
      BY <1>3, ChecksAreOfKinds
    <2>2. CASE Looks
      BY <2>1, <2>2 DEF Checked, Looks, FilesAreMeant, BodiesAreSent
    <2>3. CASE Gives(task)
      <3>1. \A f \in Files : \/ meant'[f] = meant[f]
                             \/ meant[f] = None /\ meant'[f] = task.msg
        BY <2>3 DEF Gives, MessagesTypeOK
      <3>2. row'[task.msg] # "none" /\ body' \in SUBSET (body \cup {task.msg})
        BY <2>3 DEF Gives, Create, MessagesTypeOK
      <3>3. UNCHANGED <<home, blobs>>
        BY <2>1 DEF Checked
      <3>4. \A f \in Files : meant[f] \in Messages \cup {None}
        BY DEF MessagesTypeOK
      <3>5. FilesAreMeant'
        BY <3>1, <3>2, <3>3, <3>4, SentStaysSent DEF FilesAreMeant
      <3>6. body \in SUBSET Messages
        BY DEF MessagesTypeOK
      <3>7. QED
        BY <3>2, <3>5, <3>6, SentStaysSent DEF BodiesAreSent
    <2>4. QED
      BY <2>1, <2>2, <2>3 DEF Checked, Clears, Aims, Removes
  <1>4. ASSUME NEW r \in Reqs, Proceed(r) PROVE FilesAreMeant' /\ BodiesAreSent'
    <2>1. UNCHANGED meant /\ \A f \in Files : meant[f] \in Messages \cup {None}
      BY <1>4, ProceedMoves DEF Moved, MessagesTypeOK
    <2>2. Brings(r) => job[r].file \in Files /\ meant[job[r].file] = job[r].msg
      BY DEF BroughtFiles
    <2>3. At(r, "saved") \/ At(r, "uploading") \/ At(r, "copying") => Brings(r)
      BY DEF Brings, At
    <2>4. \A f \in Files : home'[f] # None => home'[f] = meant[f]
      BY <1>4, <2>2, <2>3, RowsOfFiles DEF FilesAreMeant
    <2>5. \A f \in Files : f \in blobs' => meant[f] # None
      BY <1>4, <2>2, <2>3, StepsOnBlobs, MessagesAssumption DEF FilesAreMeant, BroughtFiles
    <2>6. FilesAreMeant'
      BY <2>1, <2>4, <2>5, SentStaysSent DEF FilesAreMeant
    <2>7. \A m \in body' : m \in Messages /\ row[m] # "none"
      <3>1. CASE WriteEdit(r)
        <4>1. job[r].msg \in Messages /\ row[job[r].msg] # "none"
          BY <3>1 DEF WriteEdit, TasksAreSound, Brings, Deletes, At
        <4>2. QED
          BY <3>1, <4>1 DEF WriteEdit, BodiesAreSent, MessagesTypeOK
      <3>2. CASE ~ WriteEdit(r)
        <4>1. body' \subseteq body
          BY <1>4, <3>2 DEF Proceed, PluckKeys, DeleteRows, CommitDeletion, DeletionFails,
                            SweepBlobs, InsertPin, DeletePin, SaveBlob, FindSource, CopyBlob,
                            InsertFile, RollBack, DropBlob, DropFile, tables
        <4>2. QED
          BY <4>1 DEF BodiesAreSent, MessagesTypeOK
      <3>3. QED
        BY <3>1, <3>2
    <2>8. QED
      BY <2>6, <2>7, SentStaysSent DEF BodiesAreSent
  <1>5. QED
    BY <1>1, <1>2, <1>3, <1>4 DEF MessagesNext

\* Who moves when: every step leaves all requests alone but one, if any.
LEMMA OneMoves ==
    ASSUME MessagesTypeOK, [MessagesNext]_mvars, NEW q \in Reqs
    PROVE  \/ job'[q] = job[q] /\ ~ Check(q) /\ ~ Proceed(q)
           \/ Check(q)
           \/ Proceed(q)
  <1>1. ASSUME NEW r \in Reqs, r # q, Check(r) \/ Proceed(r) PROVE job'[q] = job[q]
    BY <1>1, ChecksAreOfKinds, ProceedMoves DEF Checked, Began, Moved, Went, OthersStay
  <1>2. QED
    BY <1>1 DEF MessagesNext, mvars, Send

\* What a step of others leaves of a file that is on its way.
LEMMA OthersSpareBrought ==
    ASSUME MessagesInv, [MessagesNext]_mvars, NEW q \in Reqs, Brings(q), ~ Proceed(q)
    PROVE  /\ job[q].file \in blobs <=> job[q].file \in blobs'
           /\ home'[job[q].file] = None
  <1> USE DEF MessagesInv
  <1>1. job[q].file \in Files /\ home[job[q].file] = None
    BY DEF BroughtFiles
  <1>2. ASSUME NEW r \in Reqs, Proceed(r)
        PROVE  /\ job[q].file \in blobs <=> job[q].file \in blobs'
               /\ home'[job[q].file] = None
    <2>1. /\ Brings(r) \/ Drops(r) => job[r].file # job[q].file
          /\ Plucked(r) => job[q].file \notin job[r].keys
      BY <1>2 DEF BroughtOnce
    <2>2. /\ \/ At(r, "saved") \/ At(r, "uploading") \/ At(r, "copying") \/ At(r, "undoing")
             => Brings(r)
          /\ At(r, "sweeping") => Plucked(r)
          /\ At(r, "dropping") => Drops(r)
      BY DEF At, Brings, Plucked, Drops
    <2>3. home'[job[q].file] = None
      BY <1>1, <1>2, <2>1, <2>2, RowsOfFiles
    <2>4. QED
      BY <1>2, <2>1, <2>2, <2>3, StepsOnBlobs
  <1>3. ASSUME NEW r \in Reqs, Check(r) PROVE UNCHANGED <<home, blobs>>
    BY <1>3, ChecksAreOfKinds DEF Checked
  <1>4. QED
    BY <1>1, <1>2, <1>3 DEF MessagesNext, mvars, Send, Create

\* A file on its way has no row, and its blob exactly when it is saved.
LEMMA BroughtStaysBrought ==
    ASSUME MessagesInv, [MessagesNext]_mvars
    PROVE  BroughtFiles'
  <1> USE DEF MessagesInv
  <1> SUFFICES ASSUME NEW q \in Reqs, Brings(q)'
               PROVE  /\ job'[q].file \in Files /\ job'[q].msg \in Messages
                      /\ meant'[job'[q].file] = job'[q].msg
                      /\ home'[job'[q].file] = None
                      /\ At(q, "saved")' => job'[q].file \in blobs'
                      /\ ~ At(q, "saved")' /\ ~ At(q, "undoing")' => job'[q].file \notin blobs'
    BY DEF BroughtFiles
  <1>1. CASE job'[q] = job[q] /\ ~ Proceed(q)
    <2>1. /\ Brings(q)
          /\ (At(q, "saved")' <=> At(q, "saved")) /\ (At(q, "undoing")' <=> At(q, "undoing"))
      BY <1>1 DEF Brings, At
    <2>2. /\ job[q].file \in Files /\ job[q].msg \in Messages
          /\ meant[job[q].file] = job[q].msg /\ job[q].msg # None
      BY <2>1, MessagesAssumption DEF BroughtFiles
    <2>3. QED
      BY <1>1, <2>1, <2>2, OthersSpareBrought, MeantStays DEF BroughtFiles
  <1>2. CASE Check(q)
    <2>1. PICK task : Checked(q, task)
      BY <1>2, ChecksAreOfKinds
    <2>2. job'[q] = task
      BY <2>1 DEF Checked, Began
    <2>3. Gives(task) /\ task.step \in {"uploading", "forwarding"} /\ UNCHANGED <<home, blobs>>
      BY <2>1, <2>2 DEF Brings, Checked, Clears, Aims, Removes, Gives
    <2>4. task.file \in Files /\ task.msg \in Messages /\ meant'[task.file] = task.msg
      BY <2>3 DEF Gives, MessagesTypeOK
    <2>5. home[task.file] = None /\ task.file \notin blobs
      BY <2>3, <2>4 DEF FilesAreMeant, Gives
    <2>6. QED
      BY <2>2, <2>3, <2>4, <2>5 DEF At
  <1>3. CASE Proceed(q)
    <2>1. /\ SameTask(q) /\ Brings(q) /\ job'[q].step \in {"saved", "copying", "undoing"}
          /\ job'[q] # New /\ UNCHANGED meant
      BY <1>3, ProceedMoves, NewIsJob DEF Moved, Brings, Deletes, At
    <2>2. /\ job[q].file \in Files /\ job[q].msg \in Messages
          /\ meant[job[q].file] = job[q].msg /\ home[job[q].file] = None
      BY <2>1 DEF BroughtFiles
    <2>3. home'[job[q].file] = None
      BY <1>3, <2>1, <2>2, RowsOfFiles
    <2>4. At(q, "saved")' => job[q].file \in blobs'
      BY <1>3, StepsOnBlobs DEF At
    <2>5. ASSUME job'[q].step = "copying" PROVE job[q].file \notin blobs'
      <3>1. FindSource(q)
        BY <1>3, <2>1, <2>5, NewIsJob, Finishes, GoesOn, Plucking, ReadingRows, Committing
           DEF Proceed, WriteEdit, DeletionFails, SweepBlobs, InsertPin, DeletePin, SaveBlob,
               CopyBlob, InsertFile, RollBack, DropBlob, DropFile
      <3>2. QED
        BY <2>1, <3>1 DEF FindSource, BroughtFiles, At
    <2>6. QED
      BY <2>1, <2>2, <2>3, <2>4, <2>5 DEF SameTask, At
  <1>4. QED
    BY <1>1, <1>2, <1>3, OneMoves

\* A file being removed had a row once, and past its first step no blob is left of it
\* unless that step failed.
LEMMA DroppedStaysDropped ==
    ASSUME MessagesInv, [MessagesNext]_mvars
    PROVE  DroppedFiles'
  <1> USE DEF MessagesInv
  <1> SUFFICES ASSUME NEW q \in Reqs, Drops(q)'
               PROVE  /\ job'[q].file \in Files /\ meant'[job'[q].file] # None
                      /\ At(q, "dropped")' => job'[q].file \notin blobs' \ faulted'
    BY DEF DroppedFiles
  <1>1. CASE job'[q] = job[q] /\ ~ Proceed(q)
    <2>1. Drops(q) /\ (At(q, "dropped")' <=> At(q, "dropped"))
      BY <1>1 DEF Drops, At
    <2>2. job[q].file \in Files /\ meant[job[q].file] # None
      BY <2>1 DEF DroppedFiles
    <2>3. ASSUME NEW r \in Reqs, Proceed(r), job[q].file \in blobs' \ blobs PROVE FALSE
      <3>1. r # q /\ job[q].file = job[r].file /\ (At(r, "uploading") \/ At(r, "copying"))
        BY <1>1, <2>3, StepsOnBlobs
      <3>2. QED
        BY <2>1, <2>3, <3>1 DEF BroughtOnce, Brings, At
    <2>4. ASSUME NEW r \in Reqs, Check(r) PROVE UNCHANGED <<blobs, faulted>>
      BY <2>4, ChecksAreOfKinds DEF Checked
    <2>5. ASSUME NEW r \in Reqs, Proceed(r) PROVE faulted \subseteq faulted'
      BY <2>5, StepsOnBlobs
    <2>6. faulted \subseteq faulted' /\ (job[q].file \in blobs' => job[q].file \in blobs)
      BY <2>3, <2>4, <2>5 DEF MessagesNext, mvars, Send
    <2>7. QED
      BY <1>1, <2>1, <2>2, <2>6, MeantStays DEF DroppedFiles
  <1>2. CASE Check(q)
    <2>1. PICK task : Checked(q, task)
      BY <1>2, ChecksAreOfKinds
    <2>2. job'[q] = task
      BY <2>1 DEF Checked, Began
    <2>3. Removes(task)
      BY <2>1, <2>2 DEF Drops, Checked, Clears, Aims, Gives
    <2>4. task.file \in Files /\ meant[task.file] # None
      BY <2>3, MessagesAssumption DEF Removes, FilesAreMeant
    <2>5. QED
      BY <2>2, <2>3, <2>4 DEF Removes, Looks, At
  <1>3. CASE Proceed(q)
    <2>1. SameTask(q) /\ Drops(q) /\ job'[q].step = "dropped" /\ UNCHANGED meant
      BY <1>3, ProceedMoves, NewIsJob DEF Moved, Drops, Deletes, Brings, At
    <2>2. QED
      BY <1>3, <2>1, StepsOnBlobs DEF SameTask, DroppedFiles
  <1>4. QED
    BY <1>1, <1>2, <1>3, OneMoves

\* What a deletion finds is made for messages it deletes.
LEMMA FindsItsOwn ==
    ASSUME MessagesInv, NEW r \in Reqs, Deletes(r), NEW f \in Files, home[f] \in Scope(r)
    PROVE  meant[f] # None /\ home[f] = meant[f] /\ (~ job[r].all => meant[f] = job[r].msg)
  BY MessagesAssumption DEF MessagesInv, FilesAreMeant, TasksAreSound, Scope, Present

\* The commit of a deletion leaves none of its messages live.
LEMMA CommitKillsAll ==
    ASSUME MessagesInv, NEW r \in Reqs, CommitDeletion(r), NEW f \in Files, f \in job[r].keys
    PROVE  row'[meant[f]] \in {"deleted", "purged"}
  <1>1. Plucked(r)
    BY DEF CommitDeletion, Plucked, At
  <1>2. meant[f] # None /\ (~ job[r].all => meant[f] = job[r].msg)
    BY <1>1 DEF MessagesInv, PluckedFiles
  <1>3. meant[f] \in Messages /\ row[meant[f]] \in {"live", "deleted", "purged"}
    BY <1>2 DEF MessagesInv, MessagesTypeOK, FilesAreMeant
  <1>4. QED
    BY <1>2, <1>3 DEF CommitDeletion, Scope, Present

\* The files a deletion holds stay those of messages it deletes.
LEMMA PluckedStaysPlucked ==
    ASSUME MessagesInv, [MessagesNext]_mvars
    PROVE  PluckedFiles'
  <1> USE DEF MessagesInv
  <1> SUFFICES ASSUME NEW q \in Reqs, NEW f \in Files
               PROVE  /\ Plucked(q)' /\ f \in job'[q].keys =>
                           /\ meant'[f] # None
                           /\ ~ job'[q].all => meant'[f] = job'[q].msg
                           /\ At(q, "sweeping")' => row'[meant'[f]] \in {"deleted", "purged"}
                      /\ At(q, "wiping")' /\ f \in job'[q].doomed.files =>
                           /\ meant'[f] # None
                           /\ ~ job'[q].all => meant'[f] = job'[q].msg
    BY DEF PluckedFiles
  <1>0. meant[f] # None => meant[f] \in Messages /\ meant'[f] = meant[f]
    BY MeantStays DEF MessagesTypeOK
  <1>1. CASE job'[q] = job[q] /\ ~ Proceed(q)
    BY <1>0, <1>1, SentStaysSent DEF PluckedFiles, Plucked, At
  <1>2. CASE Check(q)
    <2>1. PICK task : Checked(q, task)
      BY <1>2, ChecksAreOfKinds
    <2>2. QED
      BY <2>1 DEF Plucked, At, Checked, Began, Clears, Aims, Removes, Gives
  <1>3. CASE PluckKeys(q)
    <2>1. ASSUME f \in FilesOf(Scope(q)), Deletes(q)
          PROVE  meant[f] # None /\ (~ job[q].all => meant[f] = job[q].msg)
      BY <2>1, FindsItsOwn DEF FilesOf
    <2>2. QED
      BY <1>0, <1>3, <2>1, Plucking, NewIsJob DEF SameTask, Deletes, Plucked, At
  <1>4. CASE DeleteRows(q)
    <2>1. ASSUME f \in FilesOf(Scope(q)), Deletes(q)
          PROVE  meant[f] # None /\ (~ job[q].all => meant[f] = job[q].msg)
      BY <2>1, FindsItsOwn DEF FilesOf
    <2>2. /\ SameTask(q) /\ At(q, "plucked") /\ job'[q].step = "wiping"
          /\ job'[q].keys = job[q].keys /\ job'[q].doomed.files = FilesOf(Scope(q))
      BY <1>4, ReadingRows
    <2>3. Deletes(q) /\ Plucked(q) /\ ~ At(q, "sweeping")'
      BY <2>2 DEF Deletes, Plucked, At
    <2>4. f \in job[q].keys => meant[f] # None /\ (~ job[q].all => meant[f] = job[q].msg)
      BY <2>3 DEF PluckedFiles
    <2>5. QED
      BY <1>0, <2>1, <2>2, <2>3, <2>4 DEF SameTask
  <1>5. CASE CommitDeletion(q)
    BY <1>0, <1>5, CommitKillsAll, Committing DEF SameTask, PluckedFiles, Plucked, At
  <1>6. CASE Proceed(q) /\ ~ PluckKeys(q) /\ ~ DeleteRows(q) /\ ~ CommitDeletion(q)
    <2>1. ~ Plucked(q)'
      BY <1>6, NewIsJob, Finishes, GoesOn
         DEF Proceed, WriteEdit, DeletionFails, SweepBlobs, InsertPin, DeletePin, SaveBlob,
             FindSource, CopyBlob, InsertFile, RollBack, DropBlob, DropFile, Plucked
    <2>2. QED
      BY <2>1 DEF Plucked, At
  <1>7. QED
    BY <1>1, <1>2, <1>3, <1>4, <1>5, <1>6, OneMoves

----------------------------------------------------------------------------
(* Deletions and everybody else.                                           *)

\* What a step of a request under way writes into the tables: only its own message
\* gains a row, and only a deletion changes what a message is.
LEMMA WritesOfSteps ==
    ASSUME MessagesTypeOK, NEW r \in Reqs, Proceed(r)
    PROVE  /\ UNCHANGED row \/ CommitDeletion(r)
           /\ \A m \in body' \ body : At(r, "editing") /\ m = job[r].msg
           /\ \A m \in pins' \ pins : At(r, "pinning") /\ m = job[r].msg
           /\ unread' \subseteq unread
  <1> USE DEF At, tables
  <1>1. CASE WriteEdit(r)
    BY <1>1 DEF WriteEdit
  <1>2. CASE InsertPin(r) \/ DeletePin(r)
    BY <1>2 DEF InsertPin, DeletePin
  <1>3. CASE CommitDeletion(r)
    BY <1>3 DEF CommitDeletion
  <1>4. CASE ~ (WriteEdit(r) \/ InsertPin(r) \/ DeletePin(r) \/ CommitDeletion(r))
    BY <1>4 DEF Proceed, PluckKeys, DeleteRows, DeletionFails, SweepBlobs, SaveBlob, FindSource,
                CopyBlob, InsertFile, RollBack, DropBlob, DropFile
  <1>5. QED
    BY <1>1, <1>2, <1>3, <1>4

\* How a file loses its row, and how the request that brought it ends.
LEMMA RowsGone ==
    ASSUME MessagesTypeOK, BroughtFiles, NEW r \in Reqs, Proceed(r), NEW f \in Files
    PROVE  /\ home'[f] = None => \/ home[f] = None
                                 \/ CommitDeletion(r) /\ f \in job[r].doomed.files
                                 \/ At(r, "dropped") /\ f = job[r].file
           /\ At(r, "saved") /\ f = job[r].file /\ job'[r] = New => home'[f] = job[r].msg
  <1> USE DEF At, tables
  <1>1. CASE InsertFile(r)
    <2>1. job[r].file \in Files /\ job[r].msg # None
      BY <1>1, MessagesAssumption DEF InsertFile, BroughtFiles, Brings
    <2>2. job'[r] = New => ~ Goto(r, "undoing")
      BY GoesOn, NewIsJob
    <2>3. QED
      BY <1>1, <2>1, <2>2 DEF InsertFile, MessagesTypeOK
  <1>2. CASE CommitDeletion(r)
    BY <1>2 DEF CommitDeletion
  <1>3. CASE DropFile(r)
    BY <1>3 DEF DropFile, MessagesTypeOK
  <1>4. CASE ~ (InsertFile(r) \/ CommitDeletion(r) \/ DropFile(r))
    BY <1>4 DEF Proceed, WriteEdit, PluckKeys, DeleteRows, DeletionFails, SweepBlobs, InsertPin,
                DeletePin, SaveBlob, FindSource, CopyBlob, RollBack, DropBlob
  <1>5. QED
    BY <1>1, <1>2, <1>3, <1>4

\* A check writes no row but a forwarded message's, and contests that message if a
\* deletion is at work on it.
LEMMA ChecksCreate ==
    ASSUME MessagesInv, NEW r \in Reqs, Check(r), NEW q \in Reqs, NEW m \in Messages \ contested'
    PROVE  /\ m \in Messages \ contested /\ UNCHANGED <<pins, home, blobs, faulted>>
           /\ At(r, "new")
           /\ q # r => job'[q] = job[q]
           /\ \/ /\ row'[m] = row[m] /\ (m \in body' => m \in body)
                 /\ (m \in unread' => m \in unread)
              \/ /\ row[m] = "none" /\ row'[m] = "live"
                 /\ Touches(q, m) => ~ Deletes(q)
  <1>1. PICK task : Checked(r, task)
    BY ChecksAreOfKinds DEF MessagesInv
  <1>2. /\ At(r, "new") /\ contested \subseteq contested' /\ OthersStay(r)
        /\ UNCHANGED <<pins, home, blobs, faulted>>
    BY <1>1 DEF Checked, Began
  <1>3. UNCHANGED <<row, body, unread>> \/ (task.step = "forwarding" /\ Create(task.msg))
    BY <1>1 DEF Checked, Clears, Aims, Removes, Gives, Looks
  <1>4. CASE UNCHANGED <<row, body, unread>>
    BY <1>2, <1>4 DEF OthersStay
  <1>5. CASE task.step = "forwarding" /\ Create(task.msg)
    <2>1. task.msg = m => (Touches(q, m) => ~ Deletes(q))
      BY <1>1, <1>5 DEF Checked, Began
    <2>2. \/ m = task.msg /\ row[m] = "none" /\ row'[m] = "live"
          \/ row'[m] = row[m] /\ (m \in body' => m \in body) /\ (m \in unread' => m \in unread)
      BY <1>5 DEF Create, MessagesInv, MessagesTypeOK
    <2>3. QED
      BY <1>2, <2>1, <2>2 DEF OthersStay
  <1>6. QED
    BY <1>3, <1>4, <1>5

\* So does sending.
LEMMA SendsCreate ==
    ASSUME MessagesInv, NEW n \in Messages, Send(n), NEW q \in Reqs, NEW m \in Messages \ contested'
    PROVE  /\ m \in Messages \ contested /\ UNCHANGED <<pins, home, blobs, faulted, job, meant>>
           /\ \/ /\ row'[m] = row[m] /\ (m \in body' => m \in body)
                 /\ (m \in unread' => m \in unread)
              \/ /\ row[m] = "none" /\ row'[m] = "live"
                 /\ Touches(q, m) => ~ Deletes(q)
  <1>1. /\ contested \subseteq contested'
        /\ \A x \in {n} \ contested' : Touches(q, x) => ~ Deletes(q)
    BY ContestNotes DEF Send, MessagesInv
  <1>2. \/ m = n /\ row[m] = "none" /\ row'[m] = "live"
        \/ row'[m] = row[m] /\ (m \in body' => m \in body) /\ (m \in unread' => m \in unread)
    BY DEF Send, Create, MessagesInv, MessagesTypeOK
  <1>3. QED
    BY <1>1, <1>2 DEF Send, Create

\* What a deletion on m finds in the way of m's own rows is all there is.
LEMMA InScope ==
    ASSUME MessagesInv, NEW r \in Reqs, Deletes(r), NEW m \in Messages \ contested,
           job[r].all \/ job[r].msg = m, m \in body \/ \E f \in Files : home[f] = m
    PROVE  m \in Scope(r)
  <1>1. row[m] # "none"
    BY MessagesAssumption DEF MessagesInv, BodiesAreSent, FilesAreMeant
  <1>2. row[m] # "purged"
    BY DEF MessagesInv, WipedUnlessContested, FilesOf
  <1>3. QED
    BY <1>1, <1>2 DEF Scope, Present, MessagesInv, MessagesTypeOK

\* What is to be written for an uncontested message stays in time: a deletion that
\* commits meanwhile has met the request and contested it.
LEMMA WritesStayInTime ==
    ASSUME MessagesInv, [MessagesNext]_mvars
    PROVE  WritesAreInTime'
  <1> USE DEF MessagesInv
  <1> SUFFICES ASSUME NEW q \in Reqs, job'[q].msg \in Messages \ contested'
               PROVE  /\ At(q, "editing")' \/ At(q, "pinning")' => row'[job'[q].msg] = "live"
                      /\ Brings(q)' => row'[job'[q].msg] # "purged"
    BY DEF WritesAreInTime
  <1> DEFINE m == job'[q].msg
  <1>1. CASE job'[q] = job[q] /\ ~ Proceed(q) /\ ~ Check(q)
    <2> SUFFICES ASSUME At(q, "editing") \/ At(q, "pinning") \/ Brings(q)
                 PROVE  /\ row[m] = "live" => row'[m] = "live"
                        /\ row[m] # "purged" => row'[m] # "purged"
                        /\ m \notin contested
      <3>1. /\ At(q, "editing")' = At(q, "editing") /\ At(q, "pinning")' = At(q, "pinning")
            /\ Brings(q)' = Brings(q)
        BY <1>1 DEF At, Brings
      <3>2. QED
        BY <1>1, <3>1 DEF WritesAreInTime
    <2>1. CASE \E r \in Reqs : Check(r)
      BY <2>1, ChecksCreate
    <2>2. CASE \E n \in Messages : Send(n)
      BY <2>2, SendsCreate
    <2>3. ASSUME NEW r \in Reqs, Proceed(r)
          PROVE  UNCHANGED contested /\ row'[m] = row[m]
      <3>1. UNCHANGED contested
        BY <2>3, ProceedMoves DEF Moved
      <3>2. ~ Deletes(q) /\ Touches(q, m)
        BY <1>1 DEF Deletes, Touches, InFlight, Brings, At
      <3>3. CASE CommitDeletion(r)
        <4>1. Deletes(r) /\ (m \in Scope(r) => Touches(r, m))
          BY <3>3 DEF CommitDeletion, Deletes, Touches, InFlight, Scope, At
        <4>2. m \notin Scope(r)
          BY <3>1, <3>2, <4>1 DEF MeetingsAreNoted
        <4>3. QED
          BY <3>1, <3>3, <4>2 DEF CommitDeletion
      <3>4. QED
        BY <2>3, <3>1, <3>3, WritesOfSteps
    <2>4. CASE UNCHANGED mvars
      BY <2>4 DEF mvars
    <2>5. QED
      BY <2>1, <2>2, <2>3, <2>4 DEF MessagesNext
  <1>2. CASE Check(q)
    <2>1. PICK task : Checked(q, task)
      BY <1>2, ChecksAreOfKinds
    <2>2. job'[q] = task
      BY <2>1 DEF Checked, Began
    <2>3. QED
      BY <2>1, <2>2 DEF At, Brings, Checked, Clears, Aims, Removes, Gives, Looks, Create,
                        MessagesTypeOK
  <1>3. CASE Proceed(q)
    <2>1. /\ ~ At(q, "editing")' /\ ~ At(q, "pinning")' /\ UNCHANGED contested
          /\ Brings(q)' => Brings(q) /\ SameTask(q)
      BY <1>3, ProceedMoves, NewIsJob DEF Moved, Brings, Deletes, At
    <2>2. Brings(q) => UNCHANGED row
      BY <1>3, WritesOfSteps DEF CommitDeletion, Brings, At
    <2>3. QED
      BY <2>1, <2>2 DEF WritesAreInTime, SameTask
  <1>4. QED
    BY <1>1, <1>2, <1>3, OneMoves

\* A deletion goes on covering the rows of an uncontested message: whoever could add
\* one since has met the deletion and contested it.
LEMMA DeletionsStayCovering ==
    ASSUME MessagesInv, [MessagesNext]_mvars
    PROVE  DeletionsCover'
  <1> USE DEF MessagesInv
  <1> SUFFICES ASSUME NEW q \in Reqs, NEW m \in Messages \ contested', Touches(q, m)',
                      (At(q, "plucked") \/ At(q, "wiping"))'
               PROVE  /\ \A f \in Files : home'[f] = m => f \in job'[q].keys
                      /\ At(q, "wiping")' =>
                            /\ m \in body' => m \in job'[q].doomed.bodies
                            /\ m \in pins' => m \in job'[q].doomed.pins
                            /\ m \in unread' => m \in job'[q].doomed.unread
                            /\ \A f \in Files : home'[f] = m => f \in job'[q].doomed.files
    BY DEF DeletionsCover, FilesOf
  <1>1. m \in Messages \ contested
    <2>1. CASE \E r \in Reqs : Check(r)
      BY <2>1, ChecksCreate
    <2>2. CASE \E n \in Messages : Send(n)
      BY <2>2, SendsCreate
    <2>3. CASE \E r \in Reqs : Proceed(r)
      BY <2>3, ProceedMoves DEF Moved
    <2>4. QED
      BY <2>1, <2>2, <2>3 DEF MessagesNext, mvars
  <1>2. CASE job'[q] = job[q] /\ ~ Proceed(q) /\ ~ Check(q)
    <2>1. /\ Touches(q, m) /\ Deletes(q) /\ (At(q, "plucked") \/ At(q, "wiping"))
          /\ (At(q, "wiping")' <=> At(q, "wiping"))
      BY <1>2 DEF Touches, InFlight, Deletes, At
    <2>2. row[m] # "none" \/ job[q].all
      BY <2>1 DEF TasksAreSound, Touches
    <2>3. /\ m \in body' => m \in body
          /\ m \in pins' => m \in pins
          /\ m \in unread' => m \in unread
          /\ \A f \in Files : home'[f] = m => home[f] = m
      <3>1. CASE \E r \in Reqs : Check(r)
        BY <2>1, <3>1, ChecksCreate
      <3>2. CASE \E n \in Messages : Send(n)
        BY <2>1, <3>2, SendsCreate
      <3>3. ASSUME NEW r \in Reqs, Proceed(r)
            PROVE  /\ m \in body' => m \in body
                   /\ m \in pins' => m \in pins
                   /\ m \in unread' => m \in unread
                   /\ \A f \in Files : home'[f] = m => home[f] = m
        <4>1. ~ (Touches(r, m) /\ ~ Deletes(r))
          BY <1>1, <2>1 DEF MeetingsAreNoted
        <4>2. At(r, "editing") \/ At(r, "pinning") \/ At(r, "saved") => job[r].msg # m
          BY <4>1 DEF Touches, InFlight, Deletes, At
        <4>3. \A f \in Files : home'[f] = m => home[f] = m
          BY <3>3, <4>2, RowsOfFiles, MessagesAssumption
        <4>4. QED
          BY <3>3, <4>2, <4>3, WritesOfSteps
      <3>4. CASE UNCHANGED mvars
        BY <3>4 DEF mvars
      <3>5. QED
        BY <3>1, <3>2, <3>3, <3>4 DEF MessagesNext
    <2>4. QED
      BY <1>1, <1>2, <2>1, <2>3 DEF DeletionsCover, FilesOf
  <1>3. CASE Check(q)
    <2>1. PICK task : Checked(q, task)
      BY <1>3, ChecksAreOfKinds
    <2>2. QED
      BY <2>1 DEF At, Checked, Began, Clears, Aims, Removes, Gives
  <1>4. CASE PluckKeys(q)
    <2>1. /\ SameTask(q) /\ Deletes(q) /\ job'[q].step = "plucked"
          /\ job'[q].keys = FilesOf(Scope(q)) /\ UNCHANGED home
      BY <1>4, Plucking, NewIsJob DEF PluckKeys, tables, Deletes, At
    <2>2. job[q].all \/ job[q].msg = m
      BY <2>1 DEF Touches, SameTask
    <2>3. QED
      BY <1>1, <2>1, <2>2, InScope DEF FilesOf, At
  <1>5. CASE DeleteRows(q)
    <2>1. /\ SameTask(q) /\ At(q, "plucked") /\ job'[q].step = "wiping"
          /\ job'[q].keys = job[q].keys
          /\ job'[q].doomed.bodies = body \cap Scope(q)
          /\ job'[q].doomed.pins = pins \cap Mine(q)
          /\ job'[q].doomed.unread = unread \cap Mine(q)
          /\ job'[q].doomed.files = FilesOf(Scope(q))
      BY <1>5, ReadingRows
    <2>2. UNCHANGED <<body, pins, unread, home>>
      BY <1>5 DEF DeleteRows, tables
    <2>3. /\ job[q].all \/ job[q].msg = m
          /\ Deletes(q) /\ Touches(q, m)
      BY <2>1 DEF Touches, InFlight, SameTask, Deletes, At
    <2>4. m \in Mine(q)
      BY <2>3 DEF Mine, Scope
    <2>5. \A f \in Files : home[f] = m => f \in job[q].keys
      BY <1>1, <2>1, <2>3 DEF DeletionsCover, FilesOf
    <2>6. \A f \in Files : home[f] = m => m \in Scope(q)
      BY <1>1, <2>3, InScope
    <2>7. m \in body => m \in Scope(q)
      BY <1>1, <2>3, InScope
    <2>8. QED
      BY <2>1, <2>2, <2>4, <2>5, <2>6, <2>7 DEF FilesOf
  <1>6. CASE Proceed(q) /\ ~ PluckKeys(q) /\ ~ DeleteRows(q)
    <2>1. job'[q].step \notin {"plucked", "wiping"}
      BY <1>6, NewIsJob, Finishes, GoesOn, Committing
         DEF Proceed, WriteEdit, DeletionFails, SweepBlobs, InsertPin, DeletePin, SaveBlob,
             FindSource, CopyBlob, InsertFile, RollBack, DropBlob, DropFile
    <2>2. QED
      BY <2>1 DEF At
  <1>7. QED
    BY <1>2, <1>3, <1>4, <1>5, <1>6, OneMoves

----------------------------------------------------------------------------
(* What the runs check.                                                    *)

\* A file that is shown goes on existing.
LEMMA ShownStaysShown ==
    ASSUME MessagesInv, [MessagesNext]_mvars
    PROVE  ShownFilesExist'
  <1> USE DEF MessagesInv
  <1> SUFFICES ASSUME NEW f \in Files, f \notin blobs' \cup faulted',
                      home'[f] # None, row'[home'[f]] = "live"
               PROVE  \E r \in Reqs : At(r, "dropped")' /\ job'[r].file = f
    BY DEF ShownFilesExist
  <1> DEFINE Witness == \E r \in Reqs : At(r, "dropped") /\ job[r].file = f
  <1>1. CASE UNCHANGED mvars
    BY <1>1 DEF mvars, ShownFilesExist, At
  <1>2. ASSUME home'[f] = home[f] PROVE row[home[f]] = "live"
    <2>1. home[f] \in Messages /\ row[home[f]] # "none"
      BY <1>2 DEF FilesAreMeant, MessagesTypeOK
    <2>2. row[home[f]] \in {"none", "live", "deleted", "purged"}
      BY <2>1 DEF MessagesTypeOK
    <2>3. QED
      BY <1>2, <2>1, <2>2, SentStaysSent
  <1>3. ASSUME NEW m \in Messages, Send(m) PROVE Witness'
    <2>1. UNCHANGED <<blobs, faulted, home, job>>
      BY <1>3 DEF Send, Create
    <2>2. QED
      BY <1>2, <2>1 DEF ShownFilesExist, At
  <1>4. ASSUME NEW r \in Reqs, Check(r) PROVE Witness'
    <2>1. UNCHANGED <<blobs, faulted, home>> /\ At(r, "new") /\ OthersStay(r)
      BY <1>4, ChecksAreOfKinds DEF Checked, Began
    <2>2. Witness
      BY <1>2, <2>1 DEF ShownFilesExist
    <2>3. QED
      BY <2>1, <2>2 DEF At, OthersStay
  <1>5. ASSUME NEW r \in Reqs, Proceed(r) PROVE Witness'
    <2>1. f \notin faulted /\ OthersStay(r)
      BY <1>5, StepsOnBlobs, ProceedMoves DEF Moved, Went
    <2>2. CASE home'[f] # home[f]
      <3>1. At(r, "saved") /\ f = job[r].file
        BY <1>5, <2>2, RowsOfFiles
      <3>2. f \in blobs
        BY <3>1 DEF BroughtFiles, Brings, At
      <3>3. QED
        BY <1>5, <3>1, <3>2, StepsOnBlobs DEF At
    <2>3. CASE home'[f] = home[f] /\ f \in blobs
      <3>1. ~ (At(r, "sweeping") /\ f \in job[r].keys)
        BY <1>2, <2>3 DEF PluckedFiles, Plucked, At, FilesAreMeant
      <3>2. ~ (At(r, "undoing") /\ f = job[r].file)
        BY <2>3 DEF BroughtFiles, Brings, At
      <3>3. f = job[r].file /\ At(r, "dropping") /\ job'[r].step = "dropped"
        BY <1>5, <2>3, <3>1, <3>2, StepsOnBlobs
      <3>4. job'[r].file = f
        BY <1>5, <3>3, ProceedMoves, NewIsJob DEF Moved, SameTask
      <3>5. QED
        BY <3>3, <3>4 DEF At
    <2>4. CASE home'[f] = home[f] /\ f \notin blobs
      <3>1. PICK q \in Reqs : At(q, "dropped") /\ job[q].file = f
        BY <1>2, <2>1, <2>4 DEF ShownFilesExist
      <3>2. q # r
        BY <1>5, <2>4, <3>1, StepsOnBlobs DEF MessagesTypeOK
      <3>3. QED
        BY <2>1, <3>1, <3>2 DEF OthersStay, At
    <2>5. QED
      BY <2>2, <2>3, <2>4
  <1>6. QED
    BY <1>1, <1>3, <1>4, <1>5 DEF MessagesNext

\* A wiped message stays wiped.
LEMMA WipedStaysWiped ==
    ASSUME MessagesInv, [MessagesNext]_mvars
    PROVE  WipedUnlessContested'
  <1> USE DEF MessagesInv
  <1> SUFFICES ASSUME NEW m \in Messages \ contested', row'[m] \in {"deleted", "purged"}
               PROVE  /\ m \notin body' \cup pins' \cup unread'
                      /\ row'[m] = "purged" => \A f \in Files : home'[f] # m
    BY DEF WipedUnlessContested, FilesOf
  <1> DEFINE Wiped == /\ m \notin body \cup pins \cup unread
                      /\ row[m] = "purged" => \A f \in Files : home[f] # m
  <1>1. m \notin contested /\ row[m] \in {"deleted", "purged"} => Wiped
    BY DEF WipedUnlessContested, FilesOf
  <1>2. CASE UNCHANGED mvars
    BY <1>1, <1>2 DEF mvars
  <1>3. ASSUME NEW r \in Reqs, Check(r) PROVE Wiped'
    BY <1>1, <1>3, ChecksCreate
  <1>4. ASSUME NEW r \in Reqs, Proceed(r) PROVE Wiped'
    <2>1. m \notin contested
      BY <1>4, ProceedMoves DEF Moved
    <2>2. CASE CommitDeletion(r) /\ m \in Scope(r) \cap Present
      <3>1. Touches(r, m) /\ At(r, "wiping")
        BY <2>2 DEF CommitDeletion, Touches, InFlight, Scope, At
      <3>2. /\ m \in body => m \in job[r].doomed.bodies
            /\ m \in pins => m \in job[r].doomed.pins
            /\ m \in unread => m \in job[r].doomed.unread
            /\ \A f \in Files : home[f] = m => f \in job[r].doomed.files
        BY <2>1, <3>1 DEF DeletionsCover, FilesOf
      <3>3. QED
        BY <2>2, <3>2, MessagesAssumption DEF CommitDeletion
    <2>3. CASE CommitDeletion(r) /\ m \notin Scope(r) \cap Present
      <3>1. Wiped /\ row'[m] = row[m]
        BY <1>1, <2>1, <2>3 DEF CommitDeletion
      <3>2. QED
        BY <2>3, <3>1, MessagesAssumption DEF CommitDeletion
    <2>4. CASE UNCHANGED row
      <3>1. At(r, "editing") \/ At(r, "pinning") => job[r].msg # m
        BY <2>1, <2>4 DEF WritesAreInTime
      <3>2. At(r, "saved") /\ row[m] = "purged" => job[r].msg # m
        BY <2>1 DEF WritesAreInTime, Brings, At
      <3>3. Wiped
        BY <1>1, <2>1, <2>4
      <3>4. QED
        BY <1>4, <2>4, <3>1, <3>2, <3>3, WritesOfSteps, RowsOfFiles, MessagesAssumption
    <2>5. QED
      BY <1>4, <2>2, <2>3, <2>4, WritesOfSteps
  <1>5. ASSUME NEW n \in Messages, Send(n) PROVE Wiped'
    BY <1>1, <1>5 DEF Send, Create, Contest, MessagesTypeOK
  <1>6. QED
    BY <1>2, <1>3, <1>4, <1>5 DEF MessagesNext

\* A blob goes on being reachable or in somebody's hands.
LEMMA NoBlobLeaks ==
    ASSUME MessagesInv, [MessagesNext]_mvars
    PROVE  NoLeakedBlobs'
  <1> USE DEF MessagesInv
  <1> SUFFICES ASSUME NEW f \in Files, f \in blobs' \ faulted', home'[f] = None
               PROVE  \/ \E q \in Reqs : \/ job'[q].file = f
                                         \/ At(q, "sweeping")' /\ f \in job'[q].keys
                      \/ meant'[f] \in contested'
    BY TypeInductiveMessages DEF NoLeakedBlobs, MessagesTypeOK
  <1> DEFINE Holds(q) == job[q].file = f \/ (At(q, "sweeping") /\ f \in job[q].keys)
             Kept == (\E q \in Reqs : Holds(q)) \/ meant[f] \in contested
  <1>0. f \in blobs /\ f \notin faulted /\ home[f] = None => Kept
    BY DEF NoLeakedBlobs
  <1>1. CASE UNCHANGED mvars
    BY <1>0, <1>1 DEF mvars, At
  <1>2. ASSUME NEW m \in Messages, Send(m) PROVE Kept'
    BY <1>0, <1>2 DEF Send, Create, Contest, At
  <1>3. ASSUME NEW r \in Reqs, Check(r) PROVE Kept'
    <2>1. /\ UNCHANGED <<blobs, faulted, home>> /\ At(r, "new") /\ OthersStay(r)
          /\ contested \subseteq contested'
      BY <1>3, ChecksAreOfKinds DEF Checked, Began
    <2>2. ~ Holds(r)
      BY <2>1, MessagesAssumption DEF TasksAreSound, Brings, Drops, At
    <2>3. meant'[f] = meant[f]
      BY <2>1, MeantStays DEF FilesAreMeant
    <2>4. QED
      BY <1>0, <2>1, <2>2, <2>3 DEF OthersStay, At
  <1>4. ASSUME NEW r \in Reqs, Proceed(r) PROVE Kept'
    <2>1. f \notin faulted /\ Moved(r)
      BY <1>4, StepsOnBlobs, ProceedMoves
    <2>2. ASSUME job'[r].file = f PROVE Kept'
      BY <2>2
    <2>3. CASE f \notin blobs
      <3>1. f = job[r].file /\ job'[r].step = "saved"
        BY <1>4, <2>3, StepsOnBlobs
      <3>2. QED
        BY <2>1, <2>2, <3>1, NewIsJob DEF Moved, SameTask
    <2>4. CASE f \in blobs /\ home[f] # None
      <3>1. ~ (At(r, "dropped") /\ f = job[r].file)
        BY <2>1, <2>4 DEF DroppedFiles, Drops, At
      <3>2. CommitDeletion(r) /\ f \in job[r].doomed.files
        BY <1>4, <2>4, <3>1, RowsGone
      <3>3. /\ At(r, "wiping") /\ job'[r].step = "sweeping" /\ job'[r].keys = job[r].keys
            /\ home[f] = meant[f] /\ meant[f] \in Messages
        BY <2>4, <3>2, Committing DEF FilesAreMeant, MessagesTypeOK
      <3>4. Touches(r, meant[f])
        BY <3>2, <3>3 DEF PluckedFiles, Touches, InFlight, At
      <3>5. meant[f] \notin contested => f \in job[r].keys
        BY <3>3, <3>4 DEF DeletionsCover, FilesOf
      <3>6. QED
        BY <2>1, <3>3, <3>5 DEF Moved, At
    <2>5. CASE f \in blobs /\ home[f] = None
      <3>1. CASE meant[f] \in contested
        BY <2>1, <3>1 DEF Moved
      <3>2. ASSUME NEW q \in Reqs, q # r, Holds(q) PROVE Kept'
        BY <2>1, <3>2 DEF Moved, Went, OthersStay, At
      <3>3. CASE At(r, "sweeping") /\ f \in job[r].keys
        BY <1>4, <3>3, StepsOnBlobs
      <3>4. CASE job[r].file = f /\ job'[r] # New
        BY <2>1, <2>2, <3>4 DEF Moved, SameTask
      <3>5. CASE job[r].file = f /\ job'[r] = New
        <4>1. Brings(r) \/ Drops(r)
          BY <3>5, MessagesAssumption DEF TasksAreSound
        <4>2. CASE Drops(r)
          <5>1. At(r, "dropped")
            BY <1>4, <3>5, <4>2, NewIsJob, StepsOnBlobs DEF Drops, At
          <5>2. QED
            BY <2>1, <2>5, <3>5, <4>2, <5>1 DEF DroppedFiles
        <4>3. CASE Brings(r) /\ ~ At(r, "saved") /\ ~ At(r, "undoing")
          BY <2>5, <3>5, <4>3 DEF BroughtFiles
        <4>4. CASE At(r, "saved")
          <5>1. home'[f] = job[r].msg /\ job[r].msg \in Messages
            BY <1>4, <3>5, <4>4, RowsGone DEF BroughtFiles, Brings, At
          <5>2. QED
            BY <5>1, MessagesAssumption
        <4>5. CASE At(r, "undoing")
          BY <1>4, <3>5, <4>5, StepsOnBlobs
        <4>6. QED
          BY <4>1, <4>2, <4>3, <4>4, <4>5
      <3>6. QED
        BY <1>0, <2>1, <2>5, <3>1, <3>2, <3>3, <3>4, <3>5
    <2>6. QED
      BY <2>3, <2>4, <2>5
  <1>5. QED
    BY <1>1, <1>2, <1>3, <1>4 DEF MessagesNext

----------------------------------------------------------------------------
(* The theorems.                                                           *)

\* Before the first message everything is empty.
LEMMA MessagesInitially == MessagesInit => MessagesInv
  <1> SUFFICES ASSUME MessagesInit PROVE MessagesInv
    OBVIOUS
  <1>1. \A r \in Reqs : job[r] = New
    BY DEF MessagesInit
  <1>2. \A r \in Reqs : /\ At(r, "new") /\ ~ job[r].all /\ job[r].msg = None /\ job[r].file = None
                        /\ ~ Brings(r) /\ ~ Drops(r) /\ ~ Plucked(r)
                        /\ ~ Deletes(r) /\ ~ InFlight(r)
                        /\ ~ At(r, "editing") /\ ~ At(r, "pinning") /\ ~ At(r, "wiping")
                        /\ ~ At(r, "plucked")
    BY <1>1, NewIsJob DEF At, Brings, Drops, Plucked, Deletes, InFlight
  <1>3. MessagesTypeOK
    BY NewIsJob, MessagesAssumption DEF MessagesInit, MessagesTypeOK
  <1>4. NoticesAreCounted
    <2>1. Busy = {}
      BY <1>2 DEF Busy
    <2>2. QED
      BY <2>1, FS_EmptySet DEF MessagesInit, NoticesAreCounted
  <1>5. FilesAreMeant /\ BodiesAreSent /\ ShownFilesExist /\ WipedUnlessContested /\ NoLeakedBlobs
    BY DEF MessagesInit, FilesAreMeant, BodiesAreSent, ShownFilesExist, WipedUnlessContested,
           NoLeakedBlobs
  <1>6. TasksAreSound /\ BroughtFiles /\ BroughtOnce /\ DroppedFiles /\ PluckedFiles
    BY <1>2 DEF TasksAreSound, BroughtFiles, BroughtOnce, DroppedFiles, PluckedFiles
  <1>7. MeetingsAreNoted /\ WritesAreInTime /\ DeletionsCover
    BY <1>2, MessagesAssumption DEF MeetingsAreNoted, WritesAreInTime, DeletionsCover, Touches
  <1>8. QED
    BY <1>3, <1>4, <1>5, <1>6, <1>7 DEF MessagesInv

\* Every step keeps the inductive invariant.
LEMMA MessagesInductive == MessagesInv /\ [MessagesNext]_mvars => MessagesInv'
  <1> SUFFICES ASSUME MessagesInv, [MessagesNext]_mvars PROVE MessagesInv'
    OBVIOUS
  <1>1. MessagesTypeOK' /\ NoticesAreCounted'
    BY TypeInductiveMessages, NoticesStayCounted DEF MessagesInv
  <1>2. TasksAreSound' /\ BroughtOnce' /\ MeetingsAreNoted'
    BY TasksStaySound, BroughtStaysOnce, MeetingsStayNoted
  <1>3. FilesAreMeant' /\ BodiesAreSent' /\ BroughtFiles' /\ DroppedFiles' /\ PluckedFiles'
    BY FilesStayMeant, BroughtStaysBrought, DroppedStaysDropped, PluckedStaysPlucked
  <1>4. WritesAreInTime' /\ DeletionsCover'
    BY WritesStayInTime, DeletionsStayCovering
  <1>5. ShownFilesExist' /\ WipedUnlessContested' /\ NoLeakedBlobs'
    BY ShownStaysShown, WipedStaysWiped, NoBlobLeaks
  <1>6. QED
    BY <1>1, <1>2, <1>3, <1>4, <1>5 DEF MessagesInv

\* The inductive invariant holds of every reachable state, with any number of requests
\* at the same time.
THEOREM MessagesInvariant == MessagesSpec => []MessagesInv
  BY MessagesInitially, MessagesInductive, PTL DEF MessagesSpec

\* Types always hold, no more notices being posted than requests were begun.
THEOREM MessagesTypeCorrect == MessagesSpec => []MessagesTypeOK
  <1>1. MessagesInv => MessagesTypeOK
    BY DEF MessagesInv
  <1>2. QED
    BY <1>1, MessagesInvariant, PTL

\* A file shown with a live message can always be opened, however deletions, clearings,
\* forwards and rollbacks overlap, unless DeleteAttachment is halfway or failed there.
THEOREM ShownFilesAlwaysExist == MessagesSpec => []ShownFilesExist
  <1>1. MessagesInv => ShownFilesExist
    BY DEF MessagesInv
  <1>2. QED
    BY <1>1, MessagesInvariant, PTL

\* Nothing is left of a deleted or purged message on which no request met a deletion.
THEOREM DeletedAlwaysWiped == MessagesSpec => []WipedUnlessContested
  <1>1. MessagesInv => WipedUnlessContested
    BY DEF MessagesInv
  <1>2. QED
    BY <1>1, MessagesInvariant, PTL

\* Every blob is reachable or in somebody's hands, but for failed removals and uploads
\* that met a deletion.
THEOREM BlobsNeverLeak == MessagesSpec => []NoLeakedBlobs
  <1>1. MessagesInv => NoLeakedBlobs
    BY DEF MessagesInv
  <1>2. QED
    BY <1>1, MessagesInvariant, PTL

=============================================================================
