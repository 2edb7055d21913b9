------------------------- MODULE TaskWorkflowProofs -------------------------
(***************************************************************************)
(* Proofs about TaskWorkflow, for any users, requests and faults: types,   *)
(* NotifiedWasCommitted, HolderIsTold, and what stale writers alone may    *)
(* break; with one request at a time TaskRules is implemented.             *)
(***************************************************************************)
EXTENDS TaskWorkflow, TLAPS

(* What a request knows at its phase.  Who is written to the row has been  *)
(* found registered, who is announced has been written, and the row that   *)
(* was read carries an assignee that was written.                          *)
Sound(q, h) ==
    /\ q.pc \in {"insert", "update"} => q.user \in Registered \cup {None}
    /\ q.op = "status" => q.status \in Statuses
    /\ q.pc = "write" => q.op = "status"
    /\ q.pc = "assignee" => q.user \in Users
    /\ q.pc = "emit" => q.user \in h
    /\ q.row.assignee \in h \cup {None}

IInv == /\ TypeOK
        /\ NotifiedWasCommitted
        /\ task.assignee \in held \cup {None}
        /\ \A r \in Reqs : Sound(req[r], held)

-----------------------------------------------------------------------------
LEMMA BlankOK == Blank \in TaskRow
BY DEF Blank, TaskRow, Statuses

LEMMA IdleOK == Idle \in Request /\ \A h : Sound(Idle, h)
<1>1. Idle \in Request
  BY BlankOK DEF Idle, Request, Phases
<1>2. ASSUME NEW h PROVE Sound(Idle, h)
  <2>1. None # "status"
    BY NullAssumption DEF Ops
  <2> QED BY <2>1 DEF Idle, Blank, Sound
<1> QED BY <1>1, <1>2

(* A step gives one request a sound state, and held only grows.            *)
LEMMA Preserved ==
    ASSUME IInv, NEW r \in Reqs, NEW q \in Request,
           req' = [req EXCEPT ![r] = q],
           task' \in TaskRow, life' \in {"absent", "live", "deleted"},
           held \subseteq held', held' \subseteq Users,
           emitted' \subseteq held', unsent' \subseteq Users,
           task'.assignee \in held' \cup {None},
           Sound(q, held')
    PROVE  IInv'
<1>1. req' \in [Reqs -> Request]
  BY DEF IInv, TypeOK
<1>2. \A p \in Reqs : Sound(req'[p], held')
  <2> SUFFICES ASSUME NEW p \in Reqs PROVE Sound(req'[p], held')
    OBVIOUS
  <2>1. CASE p = r
    BY <2>1 DEF IInv, TypeOK
  <2>2. CASE p # r
    <3>1. req'[p] = req[p] /\ Sound(req[p], held)
      BY <2>2 DEF IInv, TypeOK
    <3> QED BY <3>1 DEF Sound
  <2> QED BY <2>1, <2>2
<1> QED BY <1>1, <1>2 DEF IInv, TypeOK, NotifiedWasCommitted

(* A step that leaves the table and the announcements alone                *)
LEMMA Quiet ==
    ASSUME IInv, NEW r \in Reqs, NEW q \in Request,
           req' = [req EXCEPT ![r] = q], Sound(q, held),
           UNCHANGED <<table, emitted>>, unsent' \subseteq Users
    PROVE  IInv'
<1>1. task' = task /\ life' = life /\ held' = held /\ emitted' = emitted
  BY DEF table
<1> QED BY <1>1, Preserved DEF IInv, TypeOK, NotifiedWasCommitted

LEMMA Ended ==
    ASSUME IInv, NEW r \in Reqs, Finish(r), UNCHANGED <<table, emitted>>,
           unsent' \subseteq Users
    PROVE  IInv'
BY IdleOK, Quiet DEF Finish

-----------------------------------------------------------------------------
LEMMA BeginStep ==
    ASSUME IInv, NEW r \in Reqs, BeginCreate(r) \/ Begin(r)
    PROVE  IInv'
<1>1. ASSUME NEW q, q \in Request, Sound(q, held),
             req' = [req EXCEPT ![r] = q], UNCHANGED <<table, news>>
      PROVE  IInv'
  <2>1. UNCHANGED <<table, emitted>> /\ unsent' \subseteq Users
    BY <1>1 DEF news, IInv, TypeOK
  <2> QED BY <1>1, <2>1, Quiet
<1>2. CASE BeginCreate(r)
  <2>1. PICK a \in Users \cup {None} :
          req' = [req EXCEPT ![r] =
            [Idle EXCEPT !.pc = IF a = None THEN "insert" ELSE "assignee",
                         !.op = "create", !.user = a]]
    BY <1>2 DEF BeginCreate
  <2> DEFINE q == [Idle EXCEPT !.pc = IF a = None THEN "insert" ELSE "assignee",
                               !.op = "create", !.user = a]
  <2>2. q \in Request /\ Sound(q, held)
    BY BlankOK DEF Idle, Request, Phases, Ops, Blank, Sound
  <2> QED BY <1>2, <2>1, <2>2, <1>1 DEF BeginCreate
<1>3. CASE Begin(r)
  <2>1. UNCHANGED <<table, news>>
    BY <1>3 DEF Begin
  <2>2. ASSUME NEW a \in Users \cup {None},
               req' = [req EXCEPT ![r] = [Idle EXCEPT !.pc = "load", !.op = "assign",
                                                      !.user = a]]
        PROVE  IInv'
    <3> DEFINE q == [Idle EXCEPT !.pc = "load", !.op = "assign", !.user = a]
    <3>1. q \in Request /\ Sound(q, held)
      BY BlankOK DEF Idle, Request, Phases, Ops, Blank, Sound
    <3> QED BY <2>1, <2>2, <3>1, <1>1
  <2>3. ASSUME NEW s \in Statuses,
               req' = [req EXCEPT ![r] = [Idle EXCEPT !.pc = "load", !.op = "status",
                                                      !.status = s]]
        PROVE  IInv'
    <3> DEFINE q == [Idle EXCEPT !.pc = "load", !.op = "status", !.status = s]
    <3>1. q \in Request /\ Sound(q, held)
      BY BlankOK DEF Idle, Request, Phases, Ops, Blank, Sound
    <3> QED BY <2>1, <2>3, <3>1, <1>1
  <2>4. ASSUME req' = [req EXCEPT ![r] = [Idle EXCEPT !.pc = "load", !.op = "delete"]]
        PROVE  IInv'
    <3> DEFINE q == [Idle EXCEPT !.pc = "load", !.op = "delete"]
    <3>1. q \in Request /\ Sound(q, held)
      BY BlankOK DEF Idle, Request, Phases, Ops, Blank, Sound
    <3> QED BY <2>1, <2>4, <3>1, <1>1
  <2> QED BY <1>3, <2>2, <2>3, <2>4 DEF Begin
<1> QED BY <1>2, <1>3

(* Reads, and writes of a row that is gone                                 *)
LEMMA ReadStep ==
    ASSUME IInv, NEW r \in Reqs,
           \/ LoadMissing(r) \/ LoadForAssign(r) \/ CheckAssignee(r)
           \/ LoadForStatus(r) \/ LoadForDelete(r) \/ UpdateMissing(r)
           \/ EmitFailed(r) \/ Lost(r)
    PROVE  IInv'
<1>1. /\ req[r] \in Request /\ Sound(req[r], held) /\ req \in [Reqs -> Request]
      /\ task \in TaskRow /\ task.assignee \in held \cup {None}
  BY DEF IInv, TypeOK
<1>2. UNCHANGED <<table, emitted>> /\ unsent' \subseteq Users
  <2>1. req[r].pc = "emit" => req[r].user \in Users
    BY <1>1 DEF Sound, IInv, TypeOK
  <2> QED BY <2>1 DEF LoadMissing, LoadForAssign, CheckAssignee, LoadForStatus,
       LoadForDelete, UpdateMissing, EmitFailed, Lost, news, IInv, TypeOK
<1>3. CASE Finish(r)
  BY <1>2, <1>3, Ended
<1>4. CASE LoadForAssign(r) /\ ~Finish(r)
  <2>1. PICK pc \in {"assignee", "update"} :
          /\ req' = [req EXCEPT ![r].row = task, ![r].pc = pc]
          /\ pc = "assignee" => IsNewAssignment(task, req[r].user)
          /\ pc = "update" => ~IsNewAssignment(task, req[r].user)
    BY <1>4 DEF LoadForAssign
  <2> DEFINE q == [req[r] EXCEPT !.row = task, !.pc = pc]
  <2>2. q \in Request
    BY <1>1 DEF Request, Phases
  <2>3. Sound(q, held)
    BY <1>1, <2>1 DEF Request, Sound, IsNewAssignment, TaskRow
  <2>4. req' = [req EXCEPT ![r] = q]
    BY <1>1, <2>1
  <2> QED BY <1>2, <2>2, <2>3, <2>4, Quiet
<1>5. CASE CheckAssignee(r) /\ ~Finish(r)
  <2>1. PICK pc \in {"insert", "update"} : GoTo(r, pc) /\ req[r].user \in Registered
    BY <1>5 DEF CheckAssignee, AssigneeExists
  <2> DEFINE q == [req[r] EXCEPT !.pc = pc]
  <2>2. q \in Request /\ Sound(q, held)
    BY <1>1, <2>1 DEF Request, Phases, Sound
  <2>3. req' = [req EXCEPT ![r] = q]
    BY <1>1, <2>1 DEF GoTo
  <2> QED BY <1>2, <2>2, <2>3, Quiet
<1>6. CASE LoadForStatus(r) /\ ~Finish(r)
  <2>1. req' = [req EXCEPT ![r].row = task, ![r].pc = "write"] /\ req[r].op = "status"
        /\ StatusAllowed(task, req[r].status)
    BY <1>6 DEF LoadForStatus
  <2> DEFINE q == [req[r] EXCEPT !.row = task, !.pc = "write"]
  <2>2. q \in Request
    BY <1>1 DEF Request, Phases
  <2>3. Sound(q, held)
    BY <1>1, <2>1 DEF Request, Sound
  <2>4. req' = [req EXCEPT ![r] = q]
    BY <1>1, <2>1
  <2> QED BY <1>2, <2>2, <2>3, <2>4, Quiet
<1>7. CASE LoadForDelete(r)
  <2> DEFINE q == [req[r] EXCEPT !.pc = "erase"]
  <2>1. q \in Request /\ Sound(q, held)
    BY <1>1 DEF Request, Phases, Sound
  <2>2. req' = [req EXCEPT ![r] = q]
    BY <1>1, <1>7 DEF LoadForDelete, GoTo
  <2> QED BY <1>2, <2>1, <2>2, Quiet
<1> QED BY <1>3, <1>4, <1>5, <1>6, <1>7
     DEF LoadMissing, UpdateMissing, EmitFailed, Lost

(* The steps that write, and the announcement                              *)
LEMMA WriteStep ==
    ASSUME IInv, NEW r \in Reqs,
           Insert(r) \/ Update(r) \/ Write(r) \/ Erase(r) \/ Emit(r)
    PROVE  IInv'
<1>1. /\ req[r] \in Request /\ Sound(req[r], held) /\ req \in [Reqs -> Request]
      /\ task \in TaskRow /\ task.assignee \in held \cup {None}
      /\ life \in {"absent", "live", "deleted"}
      /\ held \subseteq Users /\ emitted \subseteq held /\ unsent' \subseteq Users
  BY DEF IInv, TypeOK, NotifiedWasCommitted, Insert, Update, Write, Erase, Emit, news
<1>2. ASSUME NEW h \in SUBSET Users, held \subseteq h
      PROVE  Sound(Idle, h)
  BY IdleOK
<1>3. CASE Insert(r)
  <2> DEFINE a == req[r].user
             q == IF a = None THEN Idle ELSE [req[r] EXCEPT !.pc = "emit"]
  <2>1. a \in Registered \cup {None}
    BY <1>1, <1>3 DEF Insert, Sound
  <2>2. held' = held \cup ({a} \ {None}) /\ emitted' = emitted
    BY <1>3 DEF Insert, news
  <2>3. held' \subseteq Users
    BY <1>1, <2>1, <2>2, UserAssumption
  <2>4. task' \in TaskRow /\ task'.assignee \in held' \cup {None} /\ life' = "live"
    BY <1>3, <2>1, <2>2 DEF Insert, TaskRow, Statuses
  <2>5. q \in Request
    BY <1>1, IdleOK DEF Request, Phases
  <2>6. Sound(q, held')
    <3>1. CASE a = None
      BY <3>1, IdleOK
    <3>2. CASE a # None
      BY <1>1, <2>2, <3>2 DEF Request, Sound
    <3> QED BY <3>1, <3>2
  <2>7. req' = [req EXCEPT ![r] = q]
    BY <1>1, <1>3 DEF Insert, Finish, GoTo
  <2> QED BY <1>1, <2>2, <2>3, <2>4, <2>5, <2>6, <2>7, Preserved
<1>4. CASE Update(r)
  <2> DEFINE a == req[r].user
             q == IF IsNewAssignment(req[r].row, a)
                    THEN [req[r] EXCEPT !.pc = "emit"] ELSE Idle
  <2>1. a \in Registered \cup {None}
    BY <1>1, <1>4 DEF Update, Sound
  <2>2. held' = held \cup ({a} \ {None}) /\ emitted' = emitted
    BY <1>4 DEF Update, news
  <2>3. held' \subseteq Users
    BY <1>1, <2>1, <2>2, UserAssumption
  <2>4. task' \in TaskRow /\ task'.assignee \in held' \cup {None} /\ life' = life
    <3>1. req[r].row.status \in Statuses
      BY <1>1 DEF Request, TaskRow
    <3> QED BY <1>4, <2>1, <2>2, <3>1
         DEF Update, TaskRow, Statuses, AssignedRow, StatusOnAssign
  <2>5. q \in Request
    BY <1>1, IdleOK DEF Request, Phases
  <2>6. Sound(q, held')
    <3>1. CASE ~IsNewAssignment(req[r].row, a)
      BY <3>1, IdleOK
    <3>2. CASE IsNewAssignment(req[r].row, a)
      BY <1>1, <2>2, <3>2 DEF Request, Sound, IsNewAssignment
    <3> QED BY <3>1, <3>2
  <2>7. req' = [req EXCEPT ![r] = q]
    BY <1>1, <1>4 DEF Update, Finish, GoTo
  <2> QED BY <1>1, <2>2, <2>3, <2>4, <2>5, <2>6, <2>7, Preserved
<1>5. CASE Write(r)
  <2>1. req[r].status \in Statuses
    BY <1>1, <1>5 DEF Write, Sound
  <2>2. task' \in TaskRow /\ task'.assignee = task.assignee
    BY <1>1, <1>5, <2>1 DEF Write, TaskRow
  <2> QED BY <1>1, <1>5, <2>2, IdleOK, Preserved DEF Write, Finish, news
<1>6. CASE Erase(r)
  <2>1. task' \in TaskRow /\ task'.assignee = None
    BY <1>6, BlankOK DEF Erase, Blank
  <2> QED BY <1>1, <1>6, <2>1, IdleOK, Preserved DEF Erase, Finish, news
<1>7. CASE Emit(r)
  <2>1. req[r].user \in held
    BY <1>1, <1>7 DEF Emit, Sound
  <2>2. task' = task /\ life' = life /\ held' = held
    BY <1>7 DEF Emit, table
  <2> QED BY <1>1, <1>7, <2>1, <2>2, IdleOK, Preserved DEF Emit, Finish
<1> QED BY <1>3, <1>4, <1>5, <1>6, <1>7

-----------------------------------------------------------------------------
LEMMA StepInductive == IInv /\ [Next]_vars => IInv'
<1> SUFFICES ASSUME IInv, [Next]_vars PROVE IInv'
  OBVIOUS
<1>1. ASSUME NEW r \in Reqs, BeginCreate(r) \/ Begin(r) PROVE IInv'
  BY <1>1, BeginStep
<1>2. ASSUME NEW r \in Reqs,
             \/ LoadMissing(r) \/ LoadForAssign(r) \/ CheckAssignee(r)
             \/ LoadForStatus(r) \/ LoadForDelete(r) \/ UpdateMissing(r)
             \/ EmitFailed(r) \/ Lost(r)
      PROVE  IInv'
  BY <1>2, ReadStep
<1>3. ASSUME NEW r \in Reqs,
             Insert(r) \/ Update(r) \/ Write(r) \/ Erase(r) \/ Emit(r)
      PROVE  IInv'
  BY <1>3, WriteStep
<1>4. CASE UNCHANGED vars
  BY <1>4 DEF vars, IInv, TypeOK, NotifiedWasCommitted
<1> QED BY <1>1, <1>2, <1>3, <1>4 DEF Next, Work

LEMMA InitIInv == Init => IInv
BY IdleOK, BlankOK DEF Init, IInv, TypeOK, NotifiedWasCommitted, Blank

LEMMA Inductive == Spec => []IInv
BY InitIInv, StepInductive, PTL DEF Spec

(* Every reachable state is typed; in particular a stored assignee is a    *)
(* registered user, whichever stale row its write was computed from.       *)
THEOREM TypeCorrect == Spec => []TypeOK
<1>1. IInv => TypeOK
  BY DEF IInv
<1> QED BY <1>1, Inductive, PTL

(* Whatever fails and whatever overlaps, no assignment is announced that   *)
(* the row never held.                                                     *)
THEOREM AnnouncedAfterCommit == Spec => []NotifiedWasCommitted
<1>1. IInv => NotifiedWasCommitted
  BY DEF IInv
<1> QED BY <1>1, Inductive, PTL

-----------------------------------------------------------------------------
(***************************************************************************)
(* Every user that the row ever held has been told, is about to be, or has *)
(* had an event kept back: an overlapping request that silently puts back  *)
(* an assignee read it from the row, so that user's turn came before.      *)
(***************************************************************************)
Told(u) == \/ u \in emitted \cup unsent
           \/ \E r \in Reqs : req[r].pc = "emit" /\ req[r].user = u

AllTold == \A u \in held : Told(u)

LEMMA ToldStep ==
    ASSUME IInv, AllTold, [Next]_vars
    PROVE  AllTold'
<1> SUFFICES ASSUME NEW u \in held' PROVE Told(u)'
  BY DEF AllTold
<1>1. req \in [Reqs -> Request]
  BY DEF IInv, TypeOK
<1>2. CASE UNCHANGED vars
  BY <1>2 DEF vars, AllTold, Told
<1>3. ASSUME NEW r \in Reqs, u \in held, req[r].pc # "emit",
             emitted' = emitted, unsent' = unsent, \E q : req' = [req EXCEPT ![r] = q]
      PROVE  Told(u)'
  BY <1>1, <1>3 DEF AllTold, Told
<1>4. ASSUME NEW r \in Reqs, Insert(r) \/ Update(r)
      PROVE  Told(u)'
  <2>1. /\ req[r].pc # "emit" /\ emitted' = emitted /\ unsent' = unsent
        /\ held' = held \cup ({req[r].user} \ {None})
        /\ GoTo(r, "emit") \/ Finish(r)
    BY <1>4 DEF Insert, Update, news
  <2>2. CASE u \in held
    BY <1>1, <1>3, <2>1, <2>2 DEF GoTo, Finish
  <2>3. CASE u \notin held
    <3>1. u = req[r].user /\ u # None
      BY <2>1, <2>3
    <3>2. GoTo(r, "emit")
      <4>1. CASE Insert(r)
        BY <3>1, <4>1 DEF Insert
      <4>2. CASE Update(r)
        <5>1. u # req[r].row.assignee
          BY <2>3, <3>1 DEF IInv, Sound
        <5> QED BY <3>1, <4>2, <5>1 DEF Update, IsNewAssignment
      <4> QED BY <1>4, <4>1, <4>2
    <3>3. req'[r].pc = "emit" /\ req'[r].user = u
      BY <1>1, <3>1, <3>2 DEF GoTo, Request
    <3> QED BY <3>3 DEF Told
  <2> QED BY <2>2, <2>3
<1>5. ASSUME NEW r \in Reqs, Emit(r) \/ EmitFailed(r) \/ Lost(r)
      PROVE  Told(u)'
  <2>1. /\ u \in held /\ req' = [req EXCEPT ![r] = Idle]
        /\ emitted \subseteq emitted' /\ unsent \subseteq unsent'
        /\ req[r].pc = "emit" => req[r].user \in emitted' \cup unsent'
    BY <1>5 DEF Emit, EmitFailed, Lost, Finish, table
  <2> QED BY <1>1, <2>1 DEF AllTold, Told
<1>6. ASSUME NEW r \in Reqs,
             \/ BeginCreate(r) \/ Begin(r) \/ LoadMissing(r) \/ LoadForAssign(r)
             \/ CheckAssignee(r) \/ LoadForStatus(r) \/ LoadForDelete(r)
             \/ UpdateMissing(r) \/ Write(r) \/ Erase(r)
      PROVE  Told(u)'
  <2>1. req[r].pc # "emit" /\ emitted' = emitted /\ unsent' = unsent /\ held' = held
    BY <1>6 DEF BeginCreate, Begin, LoadMissing, LoadForAssign, CheckAssignee,
       LoadForStatus, LoadForDelete, UpdateMissing, Write, Erase, table, news
  <2>2. \E q : req' = [req EXCEPT ![r] = q]
    BY <1>1, <1>6 DEF BeginCreate, Begin, LoadMissing, LoadForAssign, CheckAssignee,
       LoadForStatus, LoadForDelete, UpdateMissing, Write, Erase, Finish, GoTo
  <2> QED BY <1>3, <2>1, <2>2
<1> QED BY <1>2, <1>4, <1>5, <1>6 DEF Next, Work

(* Whoever holds the task has been told or is about to be, or a fault kept *)
(* that user's event back, however the requests overlap.                   *)
THEOREM AssigneeIsTold == Spec => []HolderIsTold
<1>1. Init => AllTold
  BY DEF Init, AllTold
<1>2. IInv /\ AllTold /\ [Next]_vars => AllTold'
  BY ToldStep
<1>3. IInv /\ AllTold => HolderIsTold
  BY DEF IInv, AllTold, Told, HolderIsTold
<1> QED BY <1>1, <1>2, <1>3, Inductive, PTL DEF Spec

-----------------------------------------------------------------------------
(***************************************************************************)
(* The rules on status changes, as the requests remember them; and the row *)
(* is inserted once, as no other task is created under its id.            *)
(***************************************************************************)
Careful(q) ==
    /\ q.pc = "assignee" => q.op \in {"create", "assign"}
    /\ q.pc = "insert" => q.op = "create"
    /\ q.pc = "update" => ~IsDone(q.row)
    /\ q.pc = "write" /\ IsDone(q.row) => q.status = "DONE"
    /\ q.pc = "write" /\ q.row.assignee = None => q.status \notin {"PROCESSING", "PROCESSED"}

Creates(q) == q.op = "create" /\ q.pc \in {"assignee", "insert"}

CarefulInv ==
    /\ \A r \in Reqs : Careful(req[r]) /\ (Creates(req[r]) => life = "absent")
    /\ \A p, r \in Reqs : req[p].op = "create" /\ req[r].op = "create" => p = r

LEMMA IdleCareful == Careful(Idle) /\ ~Creates(Idle) /\ Idle.op # "create"
<1>1. None # "create"
  BY NullAssumption DEF Ops
<1> QED BY <1>1 DEF Idle, Careful, Creates

(* A step of r that does not start a creation and leaves the row in place  *)
LEMMA CarefulKept ==
    ASSUME IInv, CarefulInv, NEW r \in Reqs, NEW q,
           req' = [req EXCEPT ![r] = q], Careful(q),
           q.op = "create" => req[r].op = "create",
           Creates(q) => Creates(req[r]),
           life' = life \/ life # "absent" \/ (Creates(req[r]) /\ ~Creates(q))
    PROVE  CarefulInv'
<1>1. req \in [Reqs -> Request]
  BY DEF IInv, TypeOK
<1>2. req'[r] = q /\ \A p \in Reqs \ {r} : req'[p] = req[p]
  BY <1>1
<1>3. \A p \in Reqs : Careful(req'[p])
  BY <1>2 DEF CarefulInv
<1>4. ASSUME NEW p \in Reqs, Creates(req'[p]) PROVE life' = "absent"
  <2>1. Creates(req[p]) /\ life = "absent"
    BY <1>2, <1>4 DEF CarefulInv
  <2>2. CASE p = r
    BY <1>2, <1>4, <2>1, <2>2
  <2>3. CASE p # r
    <3>1. ~Creates(req[r])
      BY <2>1, <2>3 DEF CarefulInv, Creates
    <3> QED BY <2>1, <3>1
  <2> QED BY <2>2, <2>3
<1>5. \A p, s \in Reqs : req'[p].op = "create" /\ req'[s].op = "create" => p = s
  BY <1>2 DEF CarefulInv
<1> QED BY <1>3, <1>4, <1>5 DEF CarefulInv

LEMMA CarefulStep ==
    ASSUME IInv, CarefulInv, [Next]_vars
    PROVE  CarefulInv'
<1>1. req \in [Reqs -> Request]
  BY DEF IInv, TypeOK
<1>2. CASE UNCHANGED vars
  BY <1>2 DEF vars, CarefulInv
<1>3. ASSUME NEW r \in Reqs, Finish(r), life' = life \/ life # "absent"
      PROVE  CarefulInv'
  BY <1>3, IdleCareful, CarefulKept DEF Finish
<1>4. ASSUME NEW r \in Reqs, BeginCreate(r)
      PROVE  CarefulInv'
  <2>1. /\ life = "absent" /\ life' = life
        /\ \A p \in Reqs : req[p].op # "create"
    BY <1>4 DEF BeginCreate, table
  <2>2. PICK a \in Users \cup {None} :
          req' = [req EXCEPT ![r] =
            [Idle EXCEPT !.pc = IF a = None THEN "insert" ELSE "assignee",
                         !.op = "create", !.user = a]]
    BY <1>4 DEF BeginCreate
  <2>3. req'[r].op = "create" /\ req'[r].pc \in {"insert", "assignee"}
    BY <1>1, <2>2 DEF Idle
  <2>4. \A p \in Reqs \ {r} : req'[p] = req[p]
    BY <1>1, <2>2
  <2>5. \A p \in Reqs : Careful(req'[p])
    BY <2>3, <2>4 DEF CarefulInv, Careful
  <2>6. \A p, s \in Reqs : req'[p].op = "create" /\ req'[s].op = "create" => p = s
    BY <2>1, <2>4
  <2> QED BY <2>1, <2>5, <2>6 DEF CarefulInv
<1>5. ASSUME NEW r \in Reqs, Begin(r)
      PROVE  CarefulInv'
  <2>1. ASSUME NEW q, req' = [req EXCEPT ![r] = q], q.pc = "load",
               q.op \in {"assign", "status", "delete"}
        PROVE  CarefulInv'
    <3>1. Careful(q) /\ ~Creates(q) /\ q.op # "create" /\ life' = life
      BY <1>5, <2>1 DEF Careful, Creates, Begin, table
    <3> QED BY <2>1, <3>1, CarefulKept
  <2>2. ASSUME NEW a \in Users \cup {None},
               req' = [req EXCEPT ![r] = [Idle EXCEPT !.pc = "load", !.op = "assign",
                                                      !.user = a]]
        PROVE  CarefulInv'
    <3> DEFINE q == [Idle EXCEPT !.pc = "load", !.op = "assign", !.user = a]
    <3>1. q.pc = "load" /\ q.op = "assign"
      BY DEF Idle
    <3> QED BY <2>1, <2>2, <3>1
  <2>3. ASSUME NEW s \in Statuses,
               req' = [req EXCEPT ![r] = [Idle EXCEPT !.pc = "load", !.op = "status",
                                                      !.status = s]]
        PROVE  CarefulInv'
    <3> DEFINE q == [Idle EXCEPT !.pc = "load", !.op = "status", !.status = s]
    <3>1. q.pc = "load" /\ q.op = "status"
      BY DEF Idle
    <3> QED BY <2>1, <2>3, <3>1
  <2>4. ASSUME req' = [req EXCEPT ![r] = [Idle EXCEPT !.pc = "load", !.op = "delete"]]
        PROVE  CarefulInv'
    <3> DEFINE q == [Idle EXCEPT !.pc = "load", !.op = "delete"]
    <3>1. q.pc = "load" /\ q.op = "delete"
      BY DEF Idle
    <3> QED BY <2>1, <2>4, <3>1
  <2> QED BY <1>5, <2>2, <2>3, <2>4 DEF Begin
<1>6. ASSUME NEW r \in Reqs, LoadForAssign(r)
      PROVE  CarefulInv'
  <2>1. life' = life /\ req[r].op = "assign" /\ task \in TaskRow
    BY <1>6 DEF LoadForAssign, table, IInv, TypeOK
  <2>2. CASE Finish(r)
    BY <1>3, <2>1, <2>2
  <2>3. CASE ~Finish(r)
    <3>1. PICK pc \in {"assignee", "update"} :
            /\ req' = [req EXCEPT ![r].row = task, ![r].pc = pc]
            /\ pc = "update" => ~IsDone(task)
      BY <1>6, <2>3 DEF LoadForAssign
    <3> DEFINE q == [req[r] EXCEPT !.row = task, !.pc = pc]
    <3>2. req' = [req EXCEPT ![r] = q]
      BY <1>1, <3>1
    <3>3. q.op = "assign" /\ q.row = task /\ q.pc = pc
      BY <1>1, <2>1 DEF Request
    <3>4. Careful(q) /\ ~Creates(q)
      BY <3>1, <3>3 DEF Careful, Creates
    <3> HIDE DEF q
    <3> QED BY <2>1, <3>2, <3>3, <3>4, CarefulKept
  <2> QED BY <2>2, <2>3
<1>7. ASSUME NEW r \in Reqs, LoadForStatus(r)
      PROVE  CarefulInv'
  <2>1. life' = life /\ req[r].op = "status" /\ task \in TaskRow
    BY <1>7 DEF LoadForStatus, table, IInv, TypeOK
  <2>2. CASE Finish(r)
    BY <1>3, <2>1, <2>2
  <2>3. CASE ~Finish(r)
    <3>1. /\ req' = [req EXCEPT ![r].row = task, ![r].pc = "write"]
          /\ IsDone(task) => req[r].status = "DONE"
          /\ task.assignee = None => req[r].status \notin {"PROCESSING", "PROCESSED"}
      BY <1>7, <2>3 DEF LoadForStatus, StatusAllowed
    <3> DEFINE q == [req[r] EXCEPT !.row = task, !.pc = "write"]
    <3>2. req' = [req EXCEPT ![r] = q]
      BY <1>1, <3>1
    <3>3. q.op = "status" /\ q.row = task /\ q.pc = "write" /\ q.status = req[r].status
      BY <1>1, <2>1 DEF Request
    <3>4. Careful(q) /\ ~Creates(q)
      BY <3>1, <3>3 DEF Careful, Creates
    <3> HIDE DEF q
    <3> QED BY <2>1, <3>2, <3>3, <3>4, CarefulKept
  <2> QED BY <2>2, <2>3
<1>8. ASSUME NEW r \in Reqs, NEW pc, GoTo(r, pc),
             \/ CheckAssignee(r) \/ LoadForDelete(r) \/ Insert(r) \/ Update(r)
      PROVE  CarefulInv'
  <2> DEFINE q == [req[r] EXCEPT !.pc = pc]
  <2>1. req' = [req EXCEPT ![r] = q]
    BY <1>1, <1>8 DEF GoTo
  <2>2. q.op = req[r].op /\ q.row = req[r].row /\ q.pc = pc
    BY <1>1 DEF Request
  <2>3. req'[r] = q
    BY <1>1, <2>1
  <2>4. Careful(req[r]) /\ Idle.pc = "idle" /\ (Creates(req[r]) => life = "absent")
    BY DEF CarefulInv, Idle
  <2>5. CASE CheckAssignee(r)
    <3>1. /\ req[r].pc = "assignee" /\ life' = life
          /\ Finish(r) \/ (GoTo(r, IF req[r].op = "create" THEN "insert" ELSE "update")
                           /\ (req[r].op = "assign" => ~IsDone(req[r].row)))
      BY <2>5 DEF CheckAssignee, table
    <3>2. CASE Finish(r)
      BY <1>3, <3>1, <3>2
    <3>3. CASE ~Finish(r)
      <4>1. req'[r].pc = IF req[r].op = "create" THEN "insert" ELSE "update"
        BY <1>1, <3>1, <3>3 DEF GoTo, Request
      <4>2. pc = IF req[r].op = "create" THEN "insert" ELSE "update"
        BY <4>1, <2>2, <2>3
      <4>3. /\ Careful(q) /\ (Creates(q) => Creates(req[r]))
            /\ q.op = "create" => req[r].op = "create"
        BY <2>2, <2>4, <3>1, <3>3, <4>2 DEF Careful, Creates
      <4> HIDE DEF q
      <4> QED BY <2>1, <3>1, <4>3, CarefulKept
    <3> QED BY <3>2, <3>3
  <2>6. CASE LoadForDelete(r)
    <3>1. life' = life /\ req'[r].pc = "erase"
      BY <1>1, <2>6 DEF LoadForDelete, table, GoTo, Request
    <3>2. Careful(q) /\ ~Creates(q) /\ (q.op = "create" => req[r].op = "create")
      BY <2>2, <2>3, <3>1 DEF Careful, Creates
    <3> HIDE DEF q
    <3> QED BY <2>1, <3>1, <3>2, CarefulKept
  <2>7. CASE Insert(r) \/ Update(r)
    <3>1. CASE Finish(r)
      <4>1. CASE Insert(r)
        <5>1. Creates(req[r]) /\ ~Creates(Idle)
          BY <4>1, <2>4, IdleCareful DEF Insert, Careful, Creates
        <5> QED BY <3>1, <5>1, IdleCareful, CarefulKept DEF Finish
      <4>2. CASE Update(r)
        BY <1>3, <3>1, <4>2 DEF Update
      <4> QED BY <2>7, <4>1, <4>2
    <3>2. CASE ~Finish(r)
      <4>1. req'[r].pc = "emit"
        BY <1>1, <2>7, <3>2 DEF Insert, Update, GoTo, Request
      <4>2. Careful(q) /\ ~Creates(q) /\ (q.op = "create" => req[r].op = "create")
        BY <2>2, <2>3, <4>1 DEF Careful, Creates
      <4>3. Update(r) => life' = life
        BY DEF Update
      <4>4. Insert(r) => Creates(req[r])
        BY <2>4 DEF Insert, Careful, Creates
      <4> HIDE DEF q
      <4> QED BY <2>1, <2>7, <4>2, <4>3, <4>4, CarefulKept
    <3> QED BY <3>1, <3>2
  <2> QED BY <1>8, <2>5, <2>6, <2>7
<1>9. ASSUME NEW r \in Reqs, Insert(r), Finish(r)
      PROVE  CarefulInv'
  <2>1. Creates(req[r])
    BY <1>9 DEF Insert, CarefulInv, Careful, Creates
  <2> QED BY <1>9, <2>1, IdleCareful, CarefulKept DEF Finish
<1>10. ASSUME NEW r \in Reqs,
              \/ LoadMissing(r) \/ UpdateMissing(r) \/ Write(r) \/ Erase(r)
              \/ Emit(r) \/ EmitFailed(r) \/ Lost(r)
       PROVE  CarefulInv'
  <2>1. Finish(r) /\ (life' = life \/ life # "absent")
    BY <1>10 DEF LoadMissing, UpdateMissing, Write, Erase, Emit, EmitFailed, Lost, table
  <2> QED BY <1>3, <2>1
<1>11. ASSUME NEW r \in Reqs, CheckAssignee(r) \/ LoadForDelete(r) \/ Insert(r) \/ Update(r)
       PROVE  CarefulInv'
  <2>1. Finish(r) \/ \E pc : GoTo(r, pc)
    BY <1>11 DEF CheckAssignee, LoadForDelete, Insert, Update
  <2>2. CASE Finish(r)
    <3>1. CASE Insert(r)
      BY <1>9, <2>2, <3>1
    <3>2. CASE ~Insert(r)
      BY <1>3, <1>11, <2>2, <3>2 DEF CheckAssignee, LoadForDelete, Update, table
    <3> QED BY <3>1, <3>2
  <2> QED BY <1>8, <1>11, <2>1, <2>2
<1> QED BY <1>2, <1>4, <1>5, <1>6, <1>7, <1>10, <1>11 DEF Next, Work

(* Work is never left to nobody by a status change that saw nobody: the    *)
(* rule is broken only by unassigning, before or after the read.           *)
THEOREM WorkIsHeld == Spec => OnlyUnassignmentStrandsWork
<1> DEFINE A == ~Unheld(task) /\ Unheld(task') =>
                  \E r \in Reqs :
                    /\ req'[r] # req[r]
                    /\ \/ req[r].pc = "update" /\ req[r].user = None
                       \/ req[r].pc = "write" /\ req[r].row.assignee # None
<1>1. Init => CarefulInv
  BY IdleCareful DEF Init, CarefulInv
<1>2. IInv /\ CarefulInv /\ [Next]_vars => CarefulInv'
  BY CarefulStep
<1>3. IInv /\ CarefulInv /\ [Next]_vars => [A]_vars
  <2> SUFFICES ASSUME IInv, CarefulInv, [Next]_vars, ~Unheld(task), Unheld(task')
               PROVE  \E r \in Reqs :
                        /\ req'[r] # req[r]
                        /\ \/ req[r].pc = "update" /\ req[r].user = None
                           \/ req[r].pc = "write" /\ req[r].row.assignee # None
    OBVIOUS
  <2>1. req \in [Reqs -> Request] /\ task \in TaskRow
    BY DEF IInv, TypeOK
  <2>2. PICK r \in Reqs : Update(r) \/ Write(r)
    <3>1. task' # task
      BY DEF Unheld
    <3>2. task'.status # "PENDING"
      BY DEF Unheld
    <3>3. ASSUME NEW r \in Reqs, Insert(r) \/ Erase(r) PROVE FALSE
      <4>1. task'.status = "PENDING"
        BY <3>3 DEF Insert, Erase, Blank
      <4> QED BY <3>2, <4>1
    <3> QED BY <3>1, <3>3 DEF Next, Work, vars, table, BeginCreate, Begin, LoadMissing,
         LoadForAssign, CheckAssignee, LoadForStatus, LoadForDelete, UpdateMissing,
         Emit, EmitFailed, Lost
  <2>3. req[r].pc \in {"update", "write"} /\ req'[r].pc \in {"emit", "idle"}
    BY <2>1, <2>2 DEF Update, Write, GoTo, Finish, Idle, Request
  <2>4. CASE Update(r)
    <3>1. req[r].user = None
      BY <2>4 DEF Update, AssignedRow, Unheld
    <3> QED BY <2>3, <2>4, <3>1 DEF Update
  <2>5. CASE Write(r)
    <3>1. task'.status = req[r].status
      BY <2>1, <2>5 DEF Write, TaskRow
    <3>2. req[r].status \in {"PROCESSING", "PROCESSED"}
      BY <3>1 DEF Unheld
    <3>3. req[r].row.assignee # None
      BY <2>5, <3>2 DEF Write, CarefulInv, Careful
    <3> QED BY <2>3, <2>5, <3>3 DEF Write
  <2> QED BY <2>2, <2>4, <2>5
<1> QED BY <1>1, <1>2, <1>3, Inductive, PTL DEF Spec, OnlyUnassignmentStrandsWork

(* A done task is deleted, or changed by a request that read it earlier:   *)
(* no request that has seen it done moves it back or takes its assignee.   *)
THEOREM DoneRespected == Spec => OnlyStaleReadersReopen
<1> DEFINE A == life = "live" /\ IsDone(task) /\ task' # task =>
                  \/ life' = "deleted"
                  \/ \E r \in Reqs : /\ req[r].pc \in {"update", "write"}
                                     /\ ~IsDone(req[r].row) /\ req'[r] # req[r]
<1>1. Init => CarefulInv
  BY IdleCareful DEF Init, CarefulInv
<1>2. IInv /\ CarefulInv /\ [Next]_vars => CarefulInv'
  BY CarefulStep
<1>3. IInv /\ CarefulInv /\ [Next]_vars => [A]_vars
  <2> SUFFICES ASSUME IInv, CarefulInv, [Next]_vars,
                      life = "live", IsDone(task), task' # task, life' # "deleted"
               PROVE  \E r \in Reqs : /\ req[r].pc \in {"update", "write"}
                                      /\ ~IsDone(req[r].row) /\ req'[r] # req[r]
    OBVIOUS
  <2>1. req \in [Reqs -> Request] /\ task \in TaskRow
    BY DEF IInv, TypeOK
  <2>2. PICK r \in Reqs : Insert(r) \/ Update(r) \/ Write(r)
    BY DEF Next, Work, vars, table, BeginCreate, Begin, LoadMissing, LoadForAssign,
       CheckAssignee, LoadForStatus, LoadForDelete, UpdateMissing, Erase, Emit,
       EmitFailed, Lost
  <2>3. ~Insert(r)
    BY DEF Insert, CarefulInv, Careful, Creates
  <2>4. req[r].pc \in {"update", "write"} /\ req'[r].pc \in {"emit", "idle"}
    BY <2>1, <2>2, <2>3 DEF Update, Write, GoTo, Finish, Idle, Request
  <2>5. ~IsDone(req[r].row)
    <3>1. CASE Update(r)
      BY <3>1 DEF Update, CarefulInv, Careful
    <3>2. CASE Write(r)
      <4>1. req[r].status # "DONE"
        BY <2>1, <3>2 DEF Write, IsDone, TaskRow
      <4> QED BY <3>2, <4>1 DEF Write, CarefulInv, Careful
    <3> QED BY <2>2, <2>3, <3>1, <3>2
  <2> QED BY <2>4, <2>5
<1> QED BY <1>1, <1>2, <1>3, Inductive, PTL DEF Spec, OnlyStaleReadersReopen
-----------------------------------------------------------------------------
(***************************************************************************)
(* The rules of TaskRules.  A request judged the row it read; when that is *)
(* still the row at its write, the rules hold of the task itself.          *)
(***************************************************************************)
LEMMA AlwaysCareful == Spec => []CarefulInv
<1>1. Init => CarefulInv
  BY IdleCareful DEF Init, CarefulInv
<1>2. IInv /\ CarefulInv /\ [Next]_vars => CarefulInv'
  BY CarefulStep
<1> QED BY <1>1, <1>2, Inductive, PTL DEF Spec

LEMMA RuleIsNext ==
    /\ \A a \in Registered \cup {None} : Rules!Create(a) \/ Rules!Assign(a) => Rules!Next
    /\ \A s \in Statuses : Rules!Move(s) => Rules!Next
    /\ Rules!Delete => Rules!Next
BY DEF Rules!Next, Rules!Statuses, Statuses

LEMMA RulesStep ==
    ASSUME IInv, CarefulInv, [Next]_vars
    PROVE  \/ UNCHANGED Rules!vars \/ Rules!Next
           \/ \E r \in Reqs : Stale(r) /\ req'[r] # req[r]
<1>1. req \in [Reqs -> Request] /\ task \in TaskRow
  BY DEF IInv, TypeOK
<1>2. CASE life' = life /\ task' = task
  BY <1>2 DEF Rules!vars
<1>3. CASE life' # life \/ task' # task
  <2>1. PICK r \in Reqs : Insert(r) \/ Update(r) \/ Write(r) \/ Erase(r)
    BY <1>3 DEF Next, Work, vars, table, BeginCreate, Begin, LoadMissing, LoadForAssign,
       CheckAssignee, LoadForStatus, LoadForDelete, UpdateMissing, Emit, EmitFailed, Lost
  <2>2. Careful(req[r]) /\ (Creates(req[r]) => life = "absent") /\ Sound(req[r], held)
    BY DEF CarefulInv, IInv
  <2>3. CASE Insert(r)
    <3>1. PICK a \in Registered \cup {None} : a = req[r].user
      BY <2>2, <2>3 DEF Insert, Sound
    <3>2. Rules!Create(a)
      BY <2>2, <2>3, <3>1 DEF Insert, Careful, Creates, Rules!Create, Rules!Blank
    <3> QED BY <3>2, RuleIsNext
  <2>4. CASE Update(r) \/ Write(r)
    <3>1. req'[r] # req[r] /\ req[r].pc \in {"update", "write"}
      <4>1. req'[r].pc \in {"emit", "idle"} /\ req[r].pc \in {"update", "write"}
        BY <1>1, <2>4 DEF Update, Write, GoTo, Finish, Idle, Request
      <4> QED BY <4>1
    <3>2. CASE req[r].row # task
      BY <3>1, <3>2 DEF Stale
    <3>3. CASE req[r].row = task /\ Update(r)
      <4>1. PICK a \in Registered \cup {None} : a = req[r].user
        BY <2>2, <3>3 DEF Update, Sound
      <4>2. task.status # "DONE"
        BY <2>2, <3>3 DEF Update, Careful, IsDone
      <4>3. Rules!Assign(a)
        BY <3>3, <4>1, <4>2 DEF Update, AssignedRow, StatusOnAssign, Rules!Assign
      <4> QED BY <4>3, RuleIsNext
    <3>4. CASE req[r].row = task /\ Write(r)
      <4>1. PICK s \in Statuses : s = req[r].status
        BY <2>2, <3>4 DEF Write, Sound
      <4>2. Rules!Move(s)
        BY <2>2, <3>4, <4>1 DEF Write, Careful, IsDone, Rules!Move
      <4> QED BY <4>2, RuleIsNext
    <3> QED BY <2>4, <3>2, <3>3, <3>4
  <2>5. CASE Erase(r)
    BY <2>5, RuleIsNext DEF Erase, Rules!Delete, Blank, Rules!Blank
  <2> QED BY <2>1, <2>3, <2>4, <2>5
<1> QED BY <1>2, <1>3

(* For any users and requests, a step that the rules do not allow of the   *)
(* task as it stands is the write of a request whose row has changed.      *)
THEOREM RulesObeyed == Spec => OnlyStaleWritesBreakRules
<1> DEFINE A == \/ UNCHANGED Rules!vars \/ Rules!Next
                \/ \E r \in Reqs : Stale(r) /\ req'[r] # req[r]
<1>1. IInv /\ CarefulInv /\ [Next]_vars => [A]_vars
  BY RulesStep
<1>2. []IInv /\ []CarefulInv /\ [][Next]_vars => [][A]_vars
  BY <1>1, PTL
<1> QED BY <1>2, Inductive, AlwaysCareful, PTL DEF Spec, OnlyStaleWritesBreakRules

(* Nobody waits to write what it made of a row that has changed.           *)
NothingStale == \A r \in Reqs : ~Stale(r)

(* As long as no row changes under a request that waits to write, the task *)
(* goes by its rules.                                                      *)
THEOREM RulesImplemented == Spec /\ []NothingStale => Rules!Spec
<1>1. Init => Rules!Init
  BY DEF Init, Rules!Init, Blank, Rules!Blank
<1>2. IInv /\ CarefulInv /\ NothingStale /\ [Next]_vars => [Rules!Next]_(Rules!vars)
  BY RulesStep DEF NothingStale
<1> QED BY <1>1, <1>2, Inductive, AlwaysCareful, PTL DEF Spec, Rules!Spec

(* "DONE is immutable" under the same condition, for any number of users   *)
(* and requests; the run task_done shows a row that did change.            *)
THEOREM DoneStays == Spec /\ []NothingStale => DoneIsFrozen
<1> DEFINE B == life = "live" /\ IsDone(task) => task' = task \/ life' = "deleted"
<1>1. IInv /\ CarefulInv /\ NothingStale /\ [Next]_vars => [B]_vars
  <2> SUFFICES ASSUME IInv, CarefulInv, NothingStale, [Next]_vars,
                      life = "live", IsDone(task)
               PROVE  task' = task \/ life' = "deleted"
    OBVIOUS
  <2>1. task \in TaskRow
    BY DEF IInv, TypeOK
  <2>2. UNCHANGED Rules!vars \/ Rules!Next
    BY RulesStep DEF NothingStale
  <2>3. ~ \E a \in Registered \cup {None} : Rules!Create(a) \/ Rules!Assign(a)
    BY DEF Rules!Create, Rules!Assign, IsDone
  <2>4. ASSUME NEW s \in Statuses, Rules!Move(s) PROVE task' = task
    BY <2>1, <2>4 DEF Rules!Move, IsDone, TaskRow
  <2> QED BY <2>2, <2>3, <2>4 DEF Rules!Next, Rules!vars, Rules!Delete, Rules!Statuses,
       Statuses
<1>2. []IInv /\ []CarefulInv /\ []NothingStale /\ [][Next]_vars => [][B]_vars
  BY <1>1, PTL
<1> QED BY <1>2, Inductive, AlwaysCareful, PTL DEF Spec, DoneIsFrozen

(* The row a request goes on with is the task as it is.                    *)
UpToDate(q) ==
    q.pc \in {"update", "write"} \/ (q.pc = "assignee" /\ q.op = "assign") => q.row = task

UpToDateInv == \A r \in Reqs : UpToDate(req[r])

LEMMA UpToDateStep ==
    ASSUME NEW r, Reqs = {r}, IInv, CarefulInv, UpToDateInv, [Next]_vars
    PROVE  UpToDateInv'
<1>1. req \in [{r} -> Request] /\ Careful(req[r]) /\ UpToDate(req[r])
  BY DEF IInv, TypeOK, CarefulInv, UpToDateInv
<1>2. req'[r].pc \in Phases /\ req' \in [Reqs -> Request]
  BY <1>1, StepInductive DEF IInv, TypeOK, Request
<1> SUFFICES UpToDate(req[r])'
  BY DEF UpToDateInv
<1>3. CASE req'[r].pc \notin {"update", "write", "assignee"}
  BY <1>3 DEF UpToDate
<1>4. CASE UNCHANGED vars
  BY <1>1, <1>4 DEF vars, UpToDate
<1>5. CASE BeginCreate(r)
  <2>1. req'[r].op = "create"
    BY <1>1, <1>5 DEF BeginCreate, Idle
  <2>2. req'[r].pc \in {"assignee", "insert"}
    BY <1>1, <1>5 DEF BeginCreate, Idle
  <2> QED BY <2>1, <2>2 DEF UpToDate
<1>6. CASE LoadForAssign(r) \/ LoadForStatus(r)
  <2>1. CASE Finish(r)
    BY <1>1, <1>3, <2>1 DEF Finish, Idle
  <2>2. CASE ~Finish(r)
    <3>1. task' = task /\ \E pc : req' = [req EXCEPT ![r].row = task, ![r].pc = pc]
      BY <1>6, <2>2 DEF LoadForAssign, LoadForStatus, table
    <3>2. req'[r].row = task'
      BY <1>1, <3>1 DEF Request
    <3> QED BY <3>2 DEF UpToDate
  <2> QED BY <2>1, <2>2
<1>7. CASE CheckAssignee(r)
  <2>1. CASE Finish(r)
    BY <1>1, <1>3, <2>1 DEF Finish, Idle
  <2>2. CASE ~Finish(r)
    <3>1. GoTo(r, IF req[r].op = "create" THEN "insert" ELSE "update")
      BY <1>7, <2>2 DEF CheckAssignee
    <3>2. req'[r].row = req[r].row /\ task' = task
      BY <1>1, <1>7, <3>1 DEF CheckAssignee, GoTo, Request, table
    <3>3. req[r].op = "create" => req'[r].pc = "insert"
      BY <1>1, <3>1 DEF GoTo, Request
    <3> QED BY <1>1, <1>3, <1>7, <3>2, <3>3 DEF CheckAssignee, Careful, UpToDate
  <2> QED BY <2>1, <2>2
<1>8. CASE \/ Insert(r) \/ Begin(r) \/ LoadMissing(r) \/ LoadForDelete(r) \/ UpdateMissing(r)
           \/ Update(r) \/ Write(r) \/ Erase(r) \/ Emit(r) \/ EmitFailed(r) \/ Lost(r)
  <2>1. CASE Finish(r) \/ GoTo(r, "emit") \/ GoTo(r, "erase")
    BY <1>1, <1>3, <2>1 DEF Finish, GoTo, Idle, Request
  <2>2. CASE Begin(r)
    <3>1. req'[r].pc = "load"
      BY <1>1, <2>2 DEF Begin, Idle
    <3> QED BY <1>3, <3>1
  <2> QED BY <1>8, <2>1, <2>2 DEF Insert, LoadMissing, LoadForDelete, UpdateMissing,
       Update, Write, Erase, Emit, EmitFailed, Lost
<1> QED BY <1>4, <1>5, <1>6, <1>7, <1>8 DEF Next, Work

(* A server that handles one request at a time works by the rules, however *)
(* often it is killed between two steps: a request resumes nothing.        *)
THEOREM SerialImplements ==
    ASSUME NEW r, Reqs = {r}
    PROVE  Spec => Rules!Spec /\ DoneIsFrozen
<1>1. Init => UpToDateInv
  BY DEF Init, UpToDateInv, UpToDate, Idle
<1>2. IInv /\ CarefulInv /\ UpToDateInv /\ [Next]_vars => UpToDateInv'
  BY UpToDateStep
<1>3. UpToDateInv => NothingStale
  BY DEF UpToDateInv, UpToDate, NothingStale, Stale
<1>4. Spec => []NothingStale
  BY <1>1, <1>2, <1>3, Inductive, AlwaysCareful, PTL DEF Spec
<1> QED BY <1>4, RulesImplemented, DoneStays
=============================================================================
