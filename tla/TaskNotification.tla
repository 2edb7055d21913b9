-------------------------- MODULE TaskNotification --------------------------
(***************************************************************************)
(* The task requests and the notification service together: the event that *)
(* emitTaskAssigned publishes is the one the service accepts, and the      *)
(* worker mails while the requests go on.  The service is the abstract one *)
(* that NotificationQueue implements; the events about one user count as   *)
(* one.                                                                    *)
(***************************************************************************)
EXTENDS TaskWorkflow

VARIABLES waiting, told, dropped

Service == INSTANCE NotificationService WITH Events <- Users

mail == <<waiting, told, dropped>>

-----------------------------------------------------------------------------
(* The channel takes the event in the step that ends the request.          *)
Announce(r) == Emit(r) /\ Service!Accept(req[r].user)

(* Everything else a request does, a failed publication included           *)
Serve(r) == Work(r) /\ UNCHANGED mail

(* The worker knows of the task only what the event says.                  *)
Notify(u) == Service!Serve(u) /\ UNCHANGED vars

-----------------------------------------------------------------------------
SystemInit == Init /\ Service!Init

SystemNext ==
    \/ \E r \in Reqs : Announce(r) \/ Serve(r)
    \/ \E u \in Users : Notify(u)

SystemSpec == SystemInit /\ [][SystemNext]_<<vars, mail>>

-----------------------------------------------------------------------------
(* Nobody is mailed about a task that was never theirs, however requests   *)
(* and worker overlap and whatever is lost: a mail goes back through the   *)
(* queue to an assignment that was stored.                                 *)
MailedWasAssigned == told \subseteq held

(* The assignee of the task has been mailed, or there is a trace of why    *)
(* not: the event is with the service, it was given up with a line in the  *)
(* log, a fault kept it from being published, or a request is about to.    *)
AssigneeIsServed ==
    task.assignee # None =>
      \/ task.assignee \in told \cup dropped \cup waiting \cup unsent
      \/ \E r \in Reqs : req[r].pc = "emit" /\ req[r].user = task.assignee
=============================================================================
