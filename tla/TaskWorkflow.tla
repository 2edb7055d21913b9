---------------------------- MODULE TaskWorkflow ----------------------------
(***************************************************************************)
(* One task and the operations of taskService on it: create, assign and    *)
(* unassign, change the status, delete.  Tasks do not refer to each other, *)
(* so one stands for all.  An action is one answered await and the code up *)
(* to the next one; the row that was read stays in the request, and what   *)
(* is written is computed from it.                                         *)
(*                                                                         *)
(* emitted, unsent and held are histories: the assignees a task.assigned   *)
(* event was handed to the queue for, those a fault kept it from, and the  *)
(* assignees the row has held.                                             *)
(***************************************************************************)
CONSTANTS
    Reqs,        \* requests in flight at a time
    Users,       \* user ids a request may name
    Registered,  \* those that have a row in users; users are never deleted
    None,        \* null
    Faults       \* "crash": a request may be lost; "publish": emit may fail

ASSUME UserAssumption == Registered \subseteq Users /\ None \notin Users

VARIABLES task, life, req, emitted, unsent, held

vars == <<task, life, req, emitted, unsent, held>>
table == <<task, life, held>>
news == <<emitted, unsent>>

Statuses == {"PENDING", "PROCESSING", "PROCESSED", "DONE"}

TaskRow == [status : Statuses, assignee : Registered \cup {None}]

Blank == [status |-> "PENDING", assignee |-> None]

-----------------------------------------------------------------------------
(* The rules of the workflow, on the row a request has read                *)

IsDone(row) == row.status = "DONE"

(* assignTask moves a pending task that gets an assignee to PROCESSING.    *)
StatusOnAssign(row, a) ==
    IF row.status = "PENDING" /\ a # None THEN "PROCESSING" ELSE row.status

AssignedRow(row, a) == [status |-> StatusOnAssign(row, a), assignee |-> a]

(* Mutant: only the first assignment is news.                              *)
IsFirstAssignment(row, a) == a # None /\ row.assignee = None

(* "Notify only on a real (re-)assignment, not on unassignment"            *)
IsNewAssignment(row, a) == a # None /\ a # row.assignee

(* Mutant: a done task may be moved back.                                  *)
StatusAllowedIfAssigned(row, s) ==
    row.assignee = None => s \notin {"PROCESSING", "PROCESSED"}

(* Mutant: nobody needs to be assigned.                                    *)
StatusAllowedUnheld(row, s) == IsDone(row) => s = "DONE"

StatusAllowed(row, s) ==
    /\ IsDone(row) => s = "DONE"
    /\ row.assignee = None => s \notin {"PROCESSING", "PROCESSED"}

-----------------------------------------------------------------------------
Ops == {"create", "assign", "status", "delete"}

ASSUME NullAssumption == None \notin Ops \cup Statuses

Phases == {"idle", "assignee", "insert", "load", "update", "write", "erase", "emit"}

Request == [pc : Phases, op : Ops \cup {None},
            user : Users \cup {None},       \* assignedToId of the body
            status : Statuses \cup {None},  \* status of the body
            row : TaskRow]                  \* the task, as read

Idle == [pc |-> "idle", op |-> None, user |-> None, status |-> None, row |-> Blank]

Finish(r) == req' = [req EXCEPT ![r] = Idle]

GoTo(r, pc) == req' = [req EXCEPT ![r].pc = pc]

-----------------------------------------------------------------------------
(* createTask                                                              *)
BeginCreate(r) ==
    /\ req[r].pc = "idle"
    /\ life = "absent"
    /\ \A p \in Reqs : req[p].op # "create"
    /\ \E a \in Users \cup {None} :
         req' = [req EXCEPT ![r] =
           [Idle EXCEPT !.pc = IF a = None THEN "insert" ELSE "assignee",
                        !.op = "create", !.user = a]]
    /\ UNCHANGED <<table, news>>

Insert(r) ==
    LET a == req[r].user IN
    /\ req[r].pc = "insert"
    /\ life' = "live"
    /\ task' = [status |-> "PENDING", assignee |-> a]
    /\ held' = held \cup ({a} \ {None})
    /\ IF a = None THEN Finish(r) ELSE GoTo(r, "emit")
    /\ UNCHANGED news

(* assignTask, updateTaskStatus and deleteTask start by reading the task.  *)
Begin(r) ==
    /\ req[r].pc = "idle"
    /\ life # "absent"
    /\ \/ \E a \in Users \cup {None} :
            req' = [req EXCEPT ![r] = [Idle EXCEPT !.pc = "load", !.op = "assign",
                                                   !.user = a]]
       \/ \E s \in Statuses :
            req' = [req EXCEPT ![r] = [Idle EXCEPT !.pc = "load", !.op = "status",
                                                   !.status = s]]
       \/ req' = [req EXCEPT ![r] = [Idle EXCEPT !.pc = "load", !.op = "delete"]]
    /\ UNCHANGED <<table, news>>

LoadMissing(r) ==
    /\ req[r].pc = "load"
    /\ life # "live"
    /\ Finish(r)
    /\ UNCHANGED <<table, news>>

LoadForAssign(r) ==
    /\ req[r].pc = "load" /\ req[r].op = "assign" /\ life = "live"
    /\ IF IsNewAssignment(task, req[r].user)
         THEN req' = [req EXCEPT ![r].row = task, ![r].pc = "assignee"]
         ELSE IF IsDone(task)
                THEN Finish(r)
                ELSE req' = [req EXCEPT ![r].row = task, ![r].pc = "update"]
    /\ UNCHANGED <<table, news>>

(* Mutant: no lookup of the assignee.                                      *)
AnyAssignee(u) == TRUE

AssigneeExists(u) == u \in Registered

(* assertAssigneeExists, then the rule that a completed task stays         *)
(* assigned; both speak of the row that was read before.                   *)
CheckAssignee(r) ==
    /\ req[r].pc = "assignee"
    /\ IF AssigneeExists(req[r].user) /\ (req[r].op = "assign" => ~IsDone(req[r].row))
         THEN GoTo(r, IF req[r].op = "create" THEN "insert" ELSE "update")
         ELSE Finish(r)
    /\ UNCHANGED <<table, news>>

LoadForStatus(r) ==
    /\ req[r].pc = "load" /\ req[r].op = "status" /\ life = "live"
    /\ IF StatusAllowed(task, req[r].status)
         THEN req' = [req EXCEPT ![r].row = task, ![r].pc = "write"]
         ELSE Finish(r)
    /\ UNCHANGED <<table, news>>

LoadForDelete(r) ==
    /\ req[r].pc = "load" /\ req[r].op = "delete" /\ life = "live"
    /\ GoTo(r, "erase")
    /\ UNCHANGED <<table, news>>

(* Mutant: the error of the update is swallowed, the event sent.           *)
UpdateMissingButEmit(r) ==
    /\ req[r].pc \in {"update", "write", "erase"}
    /\ life # "live"
    /\ IF req[r].pc = "update" THEN GoTo(r, "emit") ELSE Finish(r)
    /\ UNCHANGED <<table, news>>

(* An update of a row that is gone rejects and answers 500.                *)
UpdateMissing(r) ==
    /\ req[r].pc \in {"update", "write", "erase"}
    /\ life # "live"
    /\ Finish(r)
    /\ UNCHANGED <<table, news>>

(* Assignee and status are both written, the status from the stale row.    *)
Update(r) ==
    LET q == req[r] IN
    /\ q.pc = "update"
    /\ life = "live"
    /\ task' = AssignedRow(q.row, q.user)
    /\ held' = held \cup ({q.user} \ {None})
    /\ IF IsNewAssignment(q.row, q.user) THEN GoTo(r, "emit") ELSE Finish(r)
    /\ UNCHANGED <<life, news>>

Write(r) ==
    /\ req[r].pc = "write"
    /\ life = "live"
    /\ task' = [task EXCEPT !.status = req[r].status]
    /\ Finish(r)
    /\ UNCHANGED <<life, held, news>>

Erase(r) ==
    /\ req[r].pc = "erase"
    /\ life = "live"
    /\ life' = "deleted"
    /\ task' = Blank
    /\ Finish(r)
    /\ UNCHANGED <<held, news>>

(* emitTaskAssigned hands the event to the channel, or swallows the error. *)
Emit(r) ==
    /\ req[r].pc = "emit"
    /\ emitted' = emitted \cup {req[r].user}
    /\ Finish(r)
    /\ UNCHANGED <<table, unsent>>

EmitFailed(r) ==
    /\ "publish" \in Faults
    /\ req[r].pc = "emit"
    /\ unsent' = unsent \cup {req[r].user}
    /\ Finish(r)
    /\ UNCHANGED <<table, emitted>>

(* The process stops, or a query fails: the request goes no further.       *)
Lost(r) ==
    /\ "crash" \in Faults
    /\ req[r].pc # "idle"
    /\ unsent' = IF req[r].pc = "emit" THEN unsent \cup {req[r].user} ELSE unsent
    /\ Finish(r)
    /\ UNCHANGED <<table, emitted>>

-----------------------------------------------------------------------------
Init ==
    /\ task = Blank
    /\ life = "absent"
    /\ req = [r \in Reqs |-> Idle]
    /\ emitted = {}
    /\ unsent = {}
    /\ held = {}

Work(r) ==
    \/ BeginCreate(r) \/ Insert(r) \/ Begin(r) \/ LoadMissing(r)
    \/ LoadForAssign(r) \/ CheckAssignee(r) \/ LoadForStatus(r) \/ LoadForDelete(r)
    \/ UpdateMissing(r) \/ Update(r) \/ Write(r) \/ Erase(r)
    \/ EmitFailed(r) \/ Lost(r)

Next == \E r \in Reqs : Work(r) \/ Emit(r)

Spec == Init /\ [][Next]_vars

-----------------------------------------------------------------------------
(* Types of the row, the requests and the histories; a stored assignee is  *)
(* a registered user.                                                      *)
TypeOK ==
    /\ task \in TaskRow
    /\ life \in {"absent", "live", "deleted"}
    /\ req \in [Reqs -> Request]
    /\ emitted \subseteq Users /\ unsent \subseteq Users
    /\ held \subseteq Users

(* "Publishes AFTER the DB write has succeeded": nobody is told of an      *)
(* assignment that the row never held, whatever fails or overlaps.         *)
NotifiedWasCommitted == emitted \subseteq held

(* Whoever the task is assigned to has been told or is about to be, unless *)
(* a fault kept that very user's event back: even when an overlapping      *)
(* request put back an assignee it read earlier and so tells nobody.       *)
HolderIsTold ==
    task.assignee # None =>
      \/ task.assignee \in emitted \cup unsent
      \/ \E r \in Reqs : req[r].pc = "emit" /\ req[r].user = task.assignee

(* "Completed tasks cannot be reopened or moved back": whoever changes a   *)
(* done task deletes it or had read it before it was done.                 *)
OnlyStaleReadersReopen ==
    [][life = "live" /\ IsDone(task) /\ task' # task =>
         \/ life' = "deleted"
         \/ \E r \in Reqs : /\ req[r].pc \in {"update", "write"}
                            /\ ~IsDone(req[r].row) /\ req'[r] # req[r]]_vars

(* Work that nobody holds                                                  *)
Unheld(row) == row.status \in {"PROCESSING", "PROCESSED"} /\ row.assignee = None

(* "PROCESSING/PROCESSED require an assignee": work comes to be held by    *)
(* nobody only by an unassignment, or by a status change that read the     *)
(* task when it was assigned and lands after one.                          *)
OnlyUnassignmentStrandsWork ==
    [][~Unheld(task) /\ Unheld(task') =>
         \E r \in Reqs :
           /\ req'[r] # req[r]
           /\ \/ req[r].pc = "update" /\ req[r].user = None
              \/ req[r].pc = "write" /\ req[r].row.assignee # None]_vars

Rules == INSTANCE TaskRules

(* A request writes what it made of a row that has changed since.          *)
Stale(r) == req[r].pc \in {"update", "write"} /\ req[r].row # task

(* Every change of the task is one the rules allow of the task as it then  *)
(* is, status and assignee together, though they were judged on the row    *)
(* read awaits before: only a request whose row has changed since breaks   *)
(* them.                                                                   *)
OnlyStaleWritesBreakRules ==
    [][\/ UNCHANGED Rules!vars \/ Rules!Next
       \/ \E r \in Reqs : Stale(r) /\ req'[r] # req[r]]_vars

(* "DONE is immutable": a done task changes only by being deleted.         *)
DoneIsFrozen == [][life = "live" /\ IsDone(task) => task' = task \/ life' = "deleted"]_vars
=============================================================================
