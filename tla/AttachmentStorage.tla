-------------------------- MODULE AttachmentStorage --------------------------
(***************************************************************************)
(* The attachments of one task: rows in the database, bytes in the storage *)
(* driver (a directory or an S3 bucket), and the operations that touch     *)
(* both without a transaction over the two.  An action is one answered     *)
(* await and the code up to the next one.                                  *)
(*                                                                         *)
(* An attachment stands for its storage key: a row's id and its key are    *)
(* generated together and never again.  Content, names and types of files  *)
(* are left out.  Lists of attachments change nothing and are left out.    *)
(* stray and unanswered are histories of what faults did.                  *)
(***************************************************************************)
EXTENDS Naturals, FiniteSets

CONSTANTS
    Keys,      \* storage keys, each generated at most once
    Reqs,      \* requests in flight at a time
    None,      \* null
    MaxFiles,  \* files a request may upload
    Faults     \* what may fail: see the actions that mention it

ASSUME NullAssumption == None \notin Keys
ASSUME MaxFilesAssumption == MaxFiles \in Nat

VARIABLES
    life,    \* the task's row: absent, live or deleted
    rows,    \* keys with a row in task_attachments
    stored,  \* keys with bytes in the storage
    used,    \* keys generated so far
    stray,   \* keys whose bytes a fault or deleteTask may have left to nobody
    unanswered,  \* keys whose insert was committed and answered by an error
    req      \* requests of the server processes

vars == <<life, rows, stored, used, stray, unanswered, req>>
tables == <<life, rows, stored, used>>
faults == <<stray, unanswered>>
data == <<tables, faults>>

-----------------------------------------------------------------------------
Ops == {"create", "upload", "delete", "download", "rename"}

Phases == {"idle", "task", "find-task", "save", "insert", "undo",
           "find", "row", "object", "read", "update"}

Request == [pc : Phases, op : Ops \cup {None}, key : Keys \cup {None},
            left : 0 .. MaxFiles]  \* files not yet stored, this one included

Idle == [pc |-> "idle", op |-> None, key |-> None, left |-> 0]

Finish(r) == req' = [req EXCEPT ![r] = Idle]

GoTo(r, pc) == req' = [req EXCEPT ![r].pc = pc]

(* Bound: an upload starts only while keys are left for all its files.     *)
FilesInFlight ==
    {f \in Reqs \X (1 .. MaxFiles) :
       LET q == req[f[1]] IN f[2] <= q.left /\ (f[2] = q.left => q.key = None)}

KeysRemain(n) == Cardinality(used) + Cardinality(FilesInFlight) + n <= Cardinality(Keys)

-----------------------------------------------------------------------------
(* Uploads: to an existing task, or with the task in one request           *)
BeginCreate(r) ==
    /\ req[r].pc = "idle"
    /\ life = "absent"
    /\ \A p \in Reqs : req[p].op # "create"
    /\ \E n \in 0 .. MaxFiles :
         /\ KeysRemain(n)
         /\ req' = [req EXCEPT ![r] = [Idle EXCEPT !.pc = "task", !.op = "create",
                                                   !.left = n]]
    /\ UNCHANGED data

BeginUpload(r) ==
    /\ req[r].pc = "idle"
    /\ \E n \in 0 .. MaxFiles :
         /\ KeysRemain(n)
         /\ req' = [req EXCEPT ![r] = [Idle EXCEPT !.pc = "find-task", !.op = "upload",
                                                   !.left = n]]
    /\ UNCHANGED data

InsertTask(r) ==
    /\ req[r].pc = "task"
    /\ life' = "live"
    /\ IF req[r].left = 0 THEN Finish(r) ELSE GoTo(r, "find-task")
    /\ UNCHANGED <<rows, stored, used, faults>>

(* Mutant: an upload without files goes on.                                *)
TaskExists(q) == life = "live"

MayStore(q) == life = "live" /\ q.left > 0

(* assertTaskExists, then "No files were provided."                        *)
FindTask(r) ==
    /\ req[r].pc = "find-task"
    /\ IF MayStore(req[r]) THEN GoTo(r, "save") ELSE Finish(r)
    /\ UNCHANGED data

SaveFile(r) ==
    /\ req[r].pc = "save"
    /\ \E k \in Keys \ used :
         /\ used' = used \cup {k}
         /\ stored' = stored \cup {k}
         /\ req' = [req EXCEPT ![r].pc = "insert", ![r].key = k]
    /\ UNCHANGED <<life, rows, faults>>

(* A save that rejects may have left some bytes; it is outside the try.    *)
SaveFails(r) ==
    /\ "storage" \in Faults
    /\ req[r].pc = "save"
    /\ \E k \in Keys \ used :
         /\ used' = used \cup {k}
         /\ stored' \in {stored, stored \cup {k}}
         /\ stray' = stray \cup {k}
    /\ Finish(r)
    /\ UNCHANGED <<life, rows, unanswered>>

Insert(r) ==
    /\ req[r].pc = "insert"
    /\ life = "live"
    /\ rows' = rows \cup {req[r].key}
    /\ IF req[r].left = 1
         THEN Finish(r)
         ELSE req' = [req EXCEPT ![r].pc = "save", ![r].key = None, ![r].left = @ - 1]
    /\ UNCHANGED <<life, stored, used, faults>>

(* Mutant: a failed insert is not compensated.                             *)
GiveUp(r) == Finish(r)

(* The catch of a failed insert; a task that is gone refuses the row.      *)
Compensate(r) == GoTo(r, "undo")

InsertFails(r) ==
    /\ req[r].pc = "insert"
    /\ life # "live" \/ "database" \in Faults
    /\ Compensate(r)
    /\ UNCHANGED data

(* The row is committed and the answer is lost: to the code, a failure.    *)
InsertUnanswered(r) ==
    /\ "answer" \in Faults
    /\ req[r].pc = "insert"
    /\ life = "live"
    /\ rows' = rows \cup {req[r].key}
    /\ unanswered' = unanswered \cup {req[r].key}
    /\ Compensate(r)
    /\ UNCHANGED <<life, stored, used, stray>>

Undo(r) ==
    /\ req[r].pc = "undo"
    /\ stored' = stored \ {req[r].key}
    /\ Finish(r)
    /\ UNCHANGED <<life, rows, used, faults>>

-----------------------------------------------------------------------------
(* Operations on one attachment, which any request may name                *)
Begin(r) ==
    /\ req[r].pc = "idle"
    /\ \E op \in {"delete", "download", "rename"}, k \in used :
         req' = [req EXCEPT ![r] = [Idle EXCEPT !.pc = "find", !.op = op, !.key = k]]
    /\ UNCHANGED data

(* Mutant: the object is deleted before its row.                           *)
ObjectFirst(op) == IF op = "delete" THEN "object" ELSE "read"

AfterFind(op) == CASE op = "delete"   -> "row"
                   [] op = "download" -> "read"
                   [] op = "rename"   -> "update"

(* getAttachment                                                           *)
Find(r) ==
    /\ req[r].pc = "find"
    /\ IF req[r].key \in rows THEN GoTo(r, AfterFind(req[r].op)) ELSE Finish(r)
    /\ UNCHANGED data

(* Of two deletes of one row the second rejects and leaves the storage be. *)
DeleteRow(r) ==
    /\ req[r].pc = "row"
    /\ rows' = rows \ {req[r].key}
    /\ IF req[r].key \in rows THEN GoTo(r, "object") ELSE Finish(r)
    /\ UNCHANGED <<life, stored, used, faults>>

(* Mutant: the object is left behind.                                      *)
KeepObject(r) ==
    /\ req[r].pc = "object"
    /\ Finish(r)
    /\ UNCHANGED data

DeleteObject(r) ==
    /\ req[r].pc = "object"
    /\ stored' = stored \ {req[r].key}
    /\ Finish(r)
    /\ UNCHANGED <<life, rows, used, faults>>

(* Both deletes from the storage swallow its error.                        *)
StorageDeleteFails(r) ==
    /\ "storage" \in Faults
    /\ req[r].pc \in {"object", "undo"}
    /\ stray' = stray \cup {req[r].key}
    /\ Finish(r)
    /\ UNCHANGED <<tables, unanswered>>

(* The download is answered, with the bytes or 500; a rename touches none. *)
ReadOrRename(r) ==
    /\ req[r].pc \in {"read", "update"}
    /\ Finish(r)
    /\ UNCHANGED data

(* deleteTask, which no route reaches: the foreign key cascades to rows.   *)
DeleteTask ==
    /\ "task" \in Faults
    /\ life = "live"
    /\ life' = "deleted"
    /\ rows' = {}
    /\ stray' = stray \cup rows
    /\ UNCHANGED <<stored, used, unanswered, req>>

(* A request between its two writes has bytes in its hands without a row.  *)
Holds(q, k) == q.key = k /\ q.pc \in {"insert", "undo", "object"}

(* The process stops, or a query other than the insert fails.              *)
Lost(r) ==
    /\ "crash" \in Faults
    /\ req[r].pc # "idle"
    /\ stray' = stray \cup {k \in Keys : Holds(req[r], k)}
    /\ Finish(r)
    /\ UNCHANGED <<tables, unanswered>>

-----------------------------------------------------------------------------
Init ==
    /\ life = "absent"
    /\ rows = {}
    /\ stored = {}
    /\ used = {}
    /\ stray = {}
    /\ unanswered = {}
    /\ req = [r \in Reqs |-> Idle]

Step(r) ==
    \/ InsertTask(r) \/ FindTask(r) \/ SaveFile(r) \/ SaveFails(r)
    \/ Insert(r) \/ InsertFails(r) \/ InsertUnanswered(r) \/ Undo(r)
    \/ Find(r) \/ DeleteRow(r) \/ DeleteObject(r) \/ StorageDeleteFails(r)
    \/ ReadOrRename(r)

Next ==
    \/ \E r \in Reqs :
         BeginCreate(r) \/ BeginUpload(r) \/ Begin(r) \/ Step(r) \/ Lost(r)
    \/ DeleteTask

Spec == Init /\ [][Next]_vars

(* The event loop resumes a handler whose await was answered.              *)
FairSpec == Spec /\ \A r \in Reqs : WF_vars(Step(r))

-----------------------------------------------------------------------------
(* Types of the data and of the requests; only generated keys are found    *)
(* in the database or in the storage.                                      *)
TypeOK ==
    /\ life \in {"absent", "live", "deleted"}
    /\ rows \subseteq used /\ stored \subseteq used /\ used \subseteq Keys
    /\ stray \subseteq Keys /\ unanswered \subseteq Keys
    /\ req \in [Reqs -> Request]

(* "Returns { attachment, body }": a row has its bytes, through overlapping *)
(* uploads and deletes, crashes and failures; only the compensation of an  *)
(* insert that was committed all the same takes them from it.              *)
RowHasBytes == rows \ unanswered \subseteq stored

(* "no orphan bytes accumulate": bytes without a row are in the hands of a *)
(* request that will give them a row or remove them, unless a fault at     *)
(* that very key, or deleteTask, left them.                                *)
NoOrphanBytes ==
    \A k \in stored \ (rows \cup stray) : \E r \in Reqs : Holds(req[r], k)

(* "Deleting an attachment removes both the DB row and the stored object": *)
(* once the row is gone the bytes follow, unless a fault keeps them.       *)
DeletedBytesGo ==
    \A k \in Keys :
      (\E r \in Reqs : req[r].pc = "object" /\ req[r].key = k) ~>
        k \notin stored \ stray
=============================================================================
