------------------------------ MODULE TaskRules ------------------------------
(***************************************************************************)
(* The workflow of a task as the rules of the module state it, each rule   *)
(* judged by the task as it is when it changes.                            *)
(***************************************************************************)
CONSTANTS Registered, None

VARIABLES
    life,  \* absent, live or deleted
    task   \* status and assignee

vars == <<life, task>>

Statuses == {"PENDING", "PROCESSING", "PROCESSED", "DONE"}

Blank == [status |-> "PENDING", assignee |-> None]

Init == life = "absent" /\ task = Blank

Create(a) ==
    /\ life = "absent"
    /\ life' = "live"
    /\ task' = [Blank EXCEPT !.assignee = a]

(* "Cannot transfer ownership of a completed task"; a pending task that    *)
(* gets an assignee is in work.                                            *)
Assign(a) ==
    /\ life = "live"
    /\ task.status # "DONE"
    /\ task' = [assignee |-> a,
                status |-> IF task.status = "PENDING" /\ a # None THEN "PROCESSING"
                                                                 ELSE task.status]
    /\ UNCHANGED life

(* "Completed tasks cannot be reopened or moved back", and "tasks cannot   *)
(* enter production pipelines without an assigned owner".                  *)
Move(s) ==
    /\ life = "live"
    /\ task.status = "DONE" => s = "DONE"
    /\ s \in {"PROCESSING", "PROCESSED"} => task.assignee # None
    /\ task' = [task EXCEPT !.status = s]
    /\ UNCHANGED life

Delete ==
    /\ life = "live"
    /\ life' = "deleted"
    /\ task' = Blank

Next ==
    \/ \E a \in Registered \cup {None} : Create(a) \/ Assign(a)
    \/ \E s \in Statuses : Move(s)
    \/ Delete

Spec == Init /\ [][Next]_vars
=============================================================================
