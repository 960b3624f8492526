------------------------------ MODULE Messages ------------------------------
(***************************************************************************)
(* The messages of one chat with everything that hangs on them: encrypted  *)
(* bodies, pins, unread rows, attachment rows and the blobs in the object  *)
(* store (services/chat_service.go, pin_service.go, attachment_service.go, *)
(* handlers/forward.go).                                                   *)
(*                                                                         *)
(* A request checks, then writes.  Its transactions run at READ COMMITTED: *)
(* a statement deletes the rows that are committed when it runs, so a      *)
(* deletion is modelled by the rows its first statements saw (doomed) and  *)
(* the commit that removes them together with what its last statement      *)
(* sees, the messages.  No table has a foreign key (app/app.go), so a row  *)
(* may be written for a message that is gone.  Blobs are in no transaction.*)
(*                                                                         *)
(* Left out: who may do what (roles are Groups), the broadcasts, the reply *)
(* references.  An attachment's envelopes go with its row, and a request   *)
(* uploads or forwards one file.  The reads of one check are one step.     *)
(***************************************************************************)
EXTENDS Naturals, FiniteSets

CONSTANTS
    Messages,   \* messages that may be sent
    Files,      \* storage keys that may be given out
    Reqs,       \* slots for requests at the same time, free again after each
    None,       \* no message, no file
    Group,      \* whether bodies are envelope rows (a group) or the message's own text
    MaxPins,    \* maxPinnedPerChat
    MaxBegun    \* bound: requests begun

ASSUME MessagesAssumption ==
    /\ None \notin Messages \cup Files \cup Reqs
    /\ Group \in BOOLEAN
    /\ MaxPins \in Nat
    /\ MaxBegun \in Nat

VARIABLES
    row,        \* messages: none yet, live, deleted (is_deleted, row kept), purged
    body,       \* messages with text or, in a group, with envelopes
    pins,       \* pinned_messages
    notices,    \* how many system messages announce pins
    unread,     \* messages with an unread row
    home,       \* attachments: the message each file's row belongs to
    blobs,      \* the object store
    begun,      \* how many requests were begun
    job,        \* [Reqs -> Job]: where each request stands and what it has read
    meant,      \* history: the message each file was uploaded or forwarded for
    faulted,    \* history: files whose removal failed in one of its steps
    contested   \* history: messages on which a deletion overlapped another request

tables == <<row, body, pins, notices, unread, home>>
mvars == <<row, body, pins, notices, unread, home, blobs, begun, job, meant, faulted, contested>>

Rows == [bodies : SUBSET Messages, pins : SUBSET Messages,
         unread : SUBSET Messages, files : SUBSET Files]
Job == [step : {"new", "editing", "deleting", "plucked", "wiping", "sweeping", "pinning",
                "unpinning", "uploading", "forwarding", "copying", "saved", "undoing",
                "dropping", "dropped"},
        all : BOOLEAN, msg : Messages \cup {None}, file : Files \cup {None},
        keys : SUBSET Files, doomed : Rows]

NoRows == [bodies |-> {}, pins |-> {}, unread |-> {}, files |-> {}]
New == [step |-> "new", all |-> FALSE, msg |-> None, file |-> None, keys |-> {},
        doomed |-> NoRows]

Present == {m \in Messages : row[m] \in {"live", "deleted"}}
FilesOf(ms) == {f \in Files : home[f] \in ms}

\* The messages a request is about, in the WHERE clauses of its statements.
Scope(r) == IF job[r].all THEN Present ELSE {job[r].msg}

MessagesInit ==
    /\ row = [m \in Messages |-> "none"]
    /\ body = {}
    /\ pins = {}
    /\ notices = 0
    /\ unread = {}
    /\ home = [f \in Files |-> None]
    /\ blobs = {}
    /\ begun = 0
    /\ job = [r \in Reqs |-> New]
    /\ meant = [f \in Files |-> None]
    /\ faulted = {}
    /\ contested = {}

----------------------------------------------------------------------------
(* What requests are made of.                                              *)

At(r, step) == job[r].step = step
Goto(r, step) == job' = [job EXCEPT ![r].step = step]
Finish(r) == job' = [job EXCEPT ![r] = New]

Deletes(r) == job[r].step \in {"deleting", "plucked", "wiping"}
InFlight(r) == job[r].step \notin {"new", "sweeping"}

\* Note where something new on ms meets a deletion, or a deletion meets something.
Contest(ms, isDeletion) ==
    contested' = contested \cup
        {m \in ms : \E q \in Reqs : /\ InFlight(q) /\ Deletes(q) # isDeletion
                                    /\ job[q].all \/ job[q].msg = m}

\* A request comes in; task is what its check leaves it with.
Begin(r, task) ==
    /\ At(r, "new")
    /\ begun < MaxBegun
    /\ begun' = begun + 1
    /\ job' = [job EXCEPT ![r] = task]
    /\ Contest(IF task.all THEN Messages ELSE {task.msg}, task.step = "deleting")

On(step, m) == [New EXCEPT !.step = step, !.msg = m]

\* The blob is deleted, or the error is logged and it stays.
DeleteBlob(f) ==
    \/ blobs' = blobs \ {f} /\ UNCHANGED faulted
    \/ faulted' = faulted \cup {f} /\ UNCHANGED blobs

----------------------------------------------------------------------------
(* Sending and editing.                                                    *)

\* The message, its body and, for a recipient who is away, the unread row.
Create(m) ==
    /\ row[m] = "none"
    /\ row' = [row EXCEPT ![m] = "live"]
    /\ body' = body \cup {m}
    /\ \/ unread' = unread \cup {m}
       \/ UNCHANGED unread
    /\ UNCHANGED <<pins, notices, home>>

Send(m) ==
    /\ Create(m)
    /\ Contest({m}, FALSE)
    /\ UNCHANGED <<blobs, begun, job, meant, faulted>>

CheckEdit(r, m) ==
    /\ row[m] = "live"
    /\ Begin(r, On("editing", m))
    /\ UNCHANGED <<tables, blobs, meant, faulted>>

\* UpdateMessage finds the row by its id, deleted or not.  replaceEnvelopes inserts
\* whether the message is there or not, but waits for a deletion that holds the old
\* envelopes.  Either may fail and change nothing.
WriteEdit(r) ==
    LET m == job[r].msg IN
    /\ At(r, "editing")
    /\ Group => ~ \E q \in Reqs : At(q, "wiping") /\ m \in job[q].doomed.bodies
    /\ \/ body' = IF Group \/ row[m] # "purged" THEN body \cup {m} ELSE body
       \/ UNCHANGED body
    /\ Finish(r)
    /\ UNCHANGED <<row, pins, notices, unread, home, blobs, begun, meant, faulted, contested>>

----------------------------------------------------------------------------
(* Deleting one message, or clearing the chat.                             *)

CheckDelete(r, m) ==
    /\ row[m] = "live"
    /\ Begin(r, On("deleting", m))
    /\ UNCHANGED <<tables, blobs, meant, faulted>>

CheckClear(r) ==
    /\ Begin(r, [New EXCEPT !.step = "deleting", !.all = TRUE])
    /\ UNCHANGED <<tables, blobs, meant, faulted>>

\* The storage keys are read before the transaction; a query that fails ends the request.
PluckKeys(r) ==
    /\ At(r, "deleting")
    /\ \/ job' = [job EXCEPT ![r].step = "plucked", ![r].keys = FilesOf(Scope(r))]
       \/ Finish(r)
    /\ UNCHANGED <<tables, blobs, begun, meant, faulted, contested>>

\* Mutant: the pins are forgotten.
DeleteRowsNotPins(r) ==
    /\ At(r, "plucked")
    /\ job' = [job EXCEPT ![r].step = "wiping",
                          ![r].doomed = [bodies |-> body \cap Scope(r),
                                         pins   |-> {},
                                         unread |-> unread \cap Scope(r),
                                         files  |-> FilesOf(Scope(r))]]
    /\ UNCHANGED <<tables, blobs, begun, meant, faulted, contested>>

\* The statements of the transaction on all tables but messages.  Pins and unread rows
\* are found by chat when it is cleared, the others by message.
DeleteRows(r) ==
    LET mine == IF job[r].all THEN Messages ELSE Scope(r) IN
    /\ At(r, "plucked")
    /\ job' = [job EXCEPT ![r].step = "wiping",
                          ![r].doomed = [bodies |-> body \cap Scope(r),
                                         pins   |-> pins \cap mine,
                                         unread |-> unread \cap mine,
                                         files  |-> FilesOf(Scope(r))]]
    /\ UNCHANGED <<tables, blobs, begun, meant, faulted, contested>>

\* The last statement, on messages, and the commit.
CommitDeletion(r) ==
    LET doomed == job[r].doomed
        hit    == Scope(r) \cap Present
    IN
    /\ At(r, "wiping")
    /\ row' = [m \in Messages |->
                 IF m \in hit THEN IF job[r].all THEN "purged" ELSE "deleted" ELSE row[m]]
    /\ body' = body \ (IF Group THEN doomed.bodies ELSE hit)
    /\ pins' = pins \ doomed.pins
    /\ unread' = unread \ doomed.unread
    /\ home' = [f \in Files |-> IF f \in doomed.files THEN None ELSE home[f]]
    /\ notices' = IF job[r].all THEN 0 ELSE notices
    /\ job' = [job EXCEPT ![r].step = "sweeping", ![r].doomed = NoRows]
    /\ UNCHANGED <<blobs, begun, meant, faulted, contested>>

\* Mutant: the error is dropped and the blobs go all the same.
DeletionFailsUnnoticed(r) ==
    /\ At(r, "wiping")
    /\ job' = [job EXCEPT ![r].step = "sweeping", ![r].doomed = NoRows]
    /\ UNCHANGED <<tables, blobs, begun, meant, faulted, contested>>

DeletionFails(r) ==
    /\ At(r, "wiping")
    /\ Finish(r)
    /\ UNCHANGED <<tables, blobs, begun, meant, faulted, contested>>

\* deleteStorageFiles: best effort, each key on its own.
SweepBlobs(r) ==
    /\ At(r, "sweeping")
    /\ \E lost \in SUBSET job[r].keys :
        /\ blobs' = blobs \ (job[r].keys \ lost)
        /\ faulted' = faulted \cup lost
    /\ Finish(r)
    /\ UNCHANGED <<tables, begun, meant, contested>>

----------------------------------------------------------------------------
(* Pins.                                                                   *)

CheckPin(r, m) ==
    /\ row[m] = "live"
    /\ m \notin pins
    /\ Cardinality(pins) < MaxPins
    /\ Begin(r, On("pinning", m))
    /\ UNCHANGED <<tables, blobs, meant, faulted>>

\* The pin and its notice, unless the unique index or another error stops both.
InsertPin(r) ==
    LET m == job[r].msg IN
    /\ At(r, "pinning")
    /\ \/ m \notin pins /\ pins' = pins \cup {m} /\ notices' = notices + 1
       \/ UNCHANGED <<pins, notices>>
    /\ Finish(r)
    /\ UNCHANGED <<row, body, unread, home, blobs, begun, meant, faulted, contested>>

CheckUnpin(r, m) ==
    /\ m \in pins
    /\ Begin(r, On("unpinning", m))
    /\ UNCHANGED <<tables, blobs, meant, faulted>>

\* Mutant: the notice of the pin is taken back instead of a new one posted.
DeletePinAndNotice(r) ==
    /\ At(r, "unpinning")
    /\ pins' = pins \ {job[r].msg} /\ notices' = notices - 1
    /\ Finish(r)
    /\ UNCHANGED <<row, body, unread, home, blobs, begun, meant, faulted, contested>>

DeletePin(r) ==
    /\ At(r, "unpinning")
    /\ \/ pins' = pins \ {job[r].msg} /\ notices' = notices + 1
       \/ UNCHANGED <<pins, notices>>
    /\ Finish(r)
    /\ UNCHANGED <<row, body, unread, home, blobs, begun, meant, faulted, contested>>

----------------------------------------------------------------------------
(* Attachments.                                                            *)

\* A new file for m, under a key of its own.
NewFile(r, step, m, f, keys) ==
    /\ meant[f] = None
    /\ meant' = [meant EXCEPT ![f] = m]
    /\ Begin(r, [On(step, m) EXCEPT !.file = f, !.keys = keys])

\* The message must exist; whether it is deleted is not asked.
CheckUpload(r, m, f) ==
    /\ m \in Present
    /\ NewFile(r, "uploading", m, f, {})
    /\ UNCHANGED <<tables, blobs, faulted>>

SaveBlob(r) ==
    /\ At(r, "uploading")
    /\ \/ blobs' = blobs \cup {job[r].file} /\ Goto(r, "saved")
       \/ Finish(r) /\ UNCHANGED blobs
    /\ UNCHANGED <<tables, begun, meant, faulted, contested>>

\* A forward sends its message first, then copies the file of another one.
Forward(r, m, source, f) ==
    /\ meant[source] # None /\ source # f
    /\ Create(m)
    /\ NewFile(r, "forwarding", m, f, {source})
    /\ UNCHANGED <<blobs, faulted>>

\* The source's row and its message must be there.
FindSource(r) ==
    /\ At(r, "forwarding")
    /\ IF job[r].keys \subseteq FilesOf(Present) THEN Goto(r, "copying") ELSE Finish(r)
    /\ UNCHANGED <<tables, blobs, begun, meant, faulted, contested>>

\* The copy fails if the source's blob is gone, and may fail otherwise.
CopyBlob(r) ==
    /\ At(r, "copying")
    /\ \/ job[r].keys \subseteq blobs /\ blobs' = blobs \cup {job[r].file} /\ Goto(r, "saved")
       \/ Finish(r) /\ UNCHANGED blobs
    /\ UNCHANGED <<tables, begun, meant, faulted, contested>>

\* Mutant: the blob is not rolled back when the rows cannot be written.
InsertFileNoRollback(r) ==
    /\ At(r, "saved")
    /\ \/ home' = [home EXCEPT ![job[r].file] = job[r].msg]
       \/ UNCHANGED home
    /\ Finish(r)
    /\ UNCHANGED <<row, body, pins, notices, unread, blobs, begun, meant, faulted, contested>>

\* The row, in a transaction; nothing asks whether the message is still there.
InsertFile(r) ==
    /\ At(r, "saved")
    /\ \/ home' = [home EXCEPT ![job[r].file] = job[r].msg] /\ Finish(r)
       \/ Goto(r, "undoing") /\ UNCHANGED home
    /\ UNCHANGED <<row, body, pins, notices, unread, blobs, begun, meant, faulted, contested>>

\* rollbackUploads.
RollBack(r) ==
    /\ At(r, "undoing")
    /\ DeleteBlob(job[r].file)
    /\ Finish(r)
    /\ UNCHANGED <<tables, begun, meant, contested>>

CheckDrop(r, f) ==
    /\ home[f] \in Present
    /\ Begin(r, [On("dropping", home[f]) EXCEPT !.file = f])
    /\ UNCHANGED <<tables, blobs, meant, faulted>>

\* DeleteAttachment: the blob first, and a failure does not stop it...
DropBlob(r) ==
    /\ At(r, "dropping")
    /\ DeleteBlob(job[r].file)
    /\ Goto(r, "dropped")
    /\ UNCHANGED <<tables, begun, meant, contested>>

\* ...then the rows, which may fail when the blob is gone already.
DropFile(r) ==
    LET f == job[r].file IN
    /\ At(r, "dropped")
    /\ \/ home' = [home EXCEPT ![f] = None] /\ UNCHANGED faulted
       \/ faulted' = faulted \cup {f} /\ UNCHANGED home
    /\ Finish(r)
    /\ UNCHANGED <<row, body, pins, notices, unread, blobs, begun, meant, contested>>

----------------------------------------------------------------------------
Check(r) ==
    \/ CheckClear(r)
    \/ \E m \in Messages : CheckEdit(r, m) \/ CheckDelete(r, m) \/ CheckPin(r, m) \/ CheckUnpin(r, m)
    \/ \E f \in Files :
        \/ CheckDrop(r, f)
        \/ \E m \in Messages :
            CheckUpload(r, m, f) \/ \E source \in Files : Forward(r, m, source, f)

Proceed(r) ==
    \/ WriteEdit(r)
    \/ PluckKeys(r) \/ DeleteRows(r) \/ CommitDeletion(r) \/ DeletionFails(r) \/ SweepBlobs(r)
    \/ InsertPin(r) \/ DeletePin(r)
    \/ SaveBlob(r) \/ FindSource(r) \/ CopyBlob(r) \/ InsertFile(r) \/ RollBack(r)
    \/ DropBlob(r) \/ DropFile(r)

MessagesNext ==
    \/ \E m \in Messages : Send(m)
    \/ \E r \in Reqs : Check(r) \/ Proceed(r)

MessagesSpec == MessagesInit /\ [][MessagesNext]_mvars

----------------------------------------------------------------------------
(* What holds.                                                             *)

MessagesTypeOK ==
    /\ row \in [Messages -> {"none", "live", "deleted", "purged"}]
    /\ body \in SUBSET Messages
    /\ pins \in SUBSET Messages
    /\ notices \in 0..MaxBegun
    /\ unread \in SUBSET Messages
    /\ home \in [Files -> Messages \cup {None}]
    /\ blobs \in SUBSET Files
    /\ begun \in 0..MaxBegun
    /\ job \in [Reqs -> Job]
    /\ meant \in [Files -> Messages \cup {None}]
    /\ faulted \in SUBSET Files
    /\ contested \in SUBSET Messages

\* A file shown with a live message can be opened, unless DeleteAttachment is between
\* its two stores or failed there: no deletion, clearing, forward or rollback takes the
\* blob of a row it leaves behind, in whatever order they run.
ShownFilesExist ==
    \A f \in Files \ (blobs \cup faulted) :
        home[f] # None /\ row[home[f]] = "live" =>
            \E r \in Reqs : At(r, "dropped") /\ job[r].file = f

\* A deleted or purged message whose deletions met no other request on it has no body,
\* no pin and no unread row, and a purged one no attachments: the deletions of one
\* chat cover every table, whatever runs on other messages meanwhile.
WipedUnlessContested ==
    \A m \in Messages \ contested :
        /\ row[m] \in {"deleted", "purged"} => m \notin body \cup pins \cup unread
        /\ row[m] = "purged" => FilesOf({m}) = {}

\* Storage does not fill with blobs nobody can reach: one without a row is still in
\* some request's hands, or its removal failed, or its message's deletion met an upload.
NoLeakedBlobs ==
    \A f \in blobs \ faulted :
        home[f] = None =>
            \/ \E r \in Reqs : job[r].file = f \/ (At(r, "sweeping") /\ f \in job[r].keys)
            \/ meant[f] \in contested

\* The comment on DeleteMessage (services/chat_service.go:670), "marks a message as
\* deleted, wipes its content from the DB".
DeletedIsWiped == \A m \in Messages : row[m] = "deleted" => m \notin body

\* The message of PinMessage (services/pin_service.go:89), "cannot pin more than %d
\* messages per chat".
PinLimit == Cardinality(pins) <= MaxPins

=============================================================================
