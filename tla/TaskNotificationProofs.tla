----------------------- MODULE TaskNotificationProofs -----------------------
(***************************************************************************)
(* Proofs about TaskNotification, for any users, requests and faults.  The *)
(* composed system implements TaskWorkflow, whose theorems it so inherits; *)
(* what the service knows of are exactly the announced assignments, which  *)
(* links its state to the task's.                                          *)
(***************************************************************************)
EXTENDS TaskNotification, TaskWorkflowProofs

(* The service knows of the announced assignments and of no other.         *)
Linked == emitted = waiting \cup told \cup dropped

-----------------------------------------------------------------------------
LEMMA WorkKeepsEmitted ==
    ASSUME NEW r \in Reqs, Work(r)
    PROVE  emitted' = emitted
BY DEF Work, BeginCreate, Insert, Begin, LoadMissing, LoadForAssign, CheckAssignee,
       LoadForStatus, LoadForDelete, UpdateMissing, Update, Write, Erase, EmitFailed,
       Lost, news

LEMMA ServiceInit == Service!Init <=> waiting = {} /\ told = {} /\ dropped = {}
BY DEF Service!Init

(* What the service remembers, mailed or gave up only changes place.       *)
LEMMA ServeKeeps ==
    ASSUME NEW u, Service!Serve(u)
    PROVE  waiting' \cup told' \cup dropped' = waiting \cup told \cup dropped
<1>1. CASE Service!Conclude(u)
  BY <1>1 DEF Service!Conclude
<1>2. CASE Service!Forget(u)
  BY <1>2 DEF Service!Forget
<1> QED BY <1>1, <1>2 DEF Service!Serve

LEMMA LinkedStep ==
    ASSUME Linked, [SystemNext]_<<vars, mail>>
    PROVE  Linked'
<1>1. ASSUME NEW r \in Reqs, Announce(r) PROVE Linked'
  BY <1>1 DEF Announce, Emit, Service!Accept, Linked
<1>2. ASSUME NEW r \in Reqs, Serve(r) PROVE Linked'
  BY <1>2, WorkKeepsEmitted DEF Serve, mail, Linked
<1>3. ASSUME NEW u \in Users, Notify(u) PROVE Linked'
  BY <1>3, ServeKeeps DEF Notify, vars, Linked
<1>4. CASE UNCHANGED <<vars, mail>>
  BY <1>4 DEF vars, mail, Linked
<1> QED BY <1>1, <1>2, <1>3, <1>4 DEF SystemNext

LEMMA StepProjects == [SystemNext]_<<vars, mail>> => [Next]_vars
<1> SUFFICES ASSUME [SystemNext]_<<vars, mail>> PROVE [Next]_vars
  OBVIOUS
<1>1. ASSUME NEW r \in Reqs, Announce(r) PROVE Next
  BY <1>1 DEF Announce, Next
<1>2. ASSUME NEW r \in Reqs, Serve(r) PROVE Next
  BY <1>2 DEF Serve, Next
<1>3. ASSUME NEW u \in Users, Notify(u) PROVE UNCHANGED vars
  BY <1>3 DEF Notify
<1> QED BY <1>1, <1>2, <1>3 DEF SystemNext

(* Mailing takes no part in the requests: the composed system behaves as   *)
(* TaskWorkflow does, and all that is proved of it holds here.             *)
THEOREM RequestsUndisturbed == SystemSpec => Spec
<1>1. SystemInit => Init
  BY DEF SystemInit
<1> QED BY <1>1, StepProjects, PTL DEF SystemSpec, Spec

LEMMA AlwaysLinked == SystemSpec => []Linked
<1>1. SystemInit => Linked
  BY ServiceInit DEF SystemInit, Init, Linked
<1> QED BY <1>1, LinkedStep, PTL DEF SystemSpec

-----------------------------------------------------------------------------
(* Whoever was mailed had been stored as the assignee, whatever requests   *)
(* overlap, fail or are lost and however the worker proceeds.              *)
THEOREM OnlyAssigneesMailed == SystemSpec => []MailedWasAssigned
<1>1. Linked /\ NotifiedWasCommitted => MailedWasAssigned
  BY DEF Linked, NotifiedWasCommitted, MailedWasAssigned
<1> QED BY <1>1, AlwaysLinked, RequestsUndisturbed, AnnouncedAfterCommit, PTL

(* An assignee who was not mailed left a trace: with the service, in the   *)
(* log, in a request that is about to publish, or in a fault.              *)
THEOREM AssigneesServed == SystemSpec => []AssigneeIsServed
<1>1. Linked /\ HolderIsTold => AssigneeIsServed
  BY DEF Linked, HolderIsTold, AssigneeIsServed
<1> QED BY <1>1, AlwaysLinked, RequestsUndisturbed, AssigneeIsTold, PTL
=============================================================================
