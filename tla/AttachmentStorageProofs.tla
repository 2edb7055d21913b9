----------------------- MODULE AttachmentStorageProofs -----------------------
(***************************************************************************)
(* Proofs about AttachmentStorage, for any keys, requests, files and       *)
(* faults: types, RowHasBytes, NoOrphanBytes, and what DeletedBytesGo owes *)
(* to the steps themselves.                                                *)
(***************************************************************************)
EXTENDS AttachmentStorage, TLAPS

(* What a request may rely on about the key it holds: until it is given a  *)
(* row the key has none; and the bytes a request is about to remove are    *)
(* those of a key without a row, or of an unanswered insert.               *)
KeyOK(q, rs, st, us, un) ==
    /\ q.pc \in {"insert", "undo", "find", "row", "object", "read", "update"} =>
         q.key \in us
    /\ q.pc \in {"save", "insert"} => q.left # 0
    /\ q.pc = "find" => q.op \in {"delete", "download", "rename"}
    /\ q.pc = "insert" => q.key \in st /\ q.key \notin rs
    /\ q.pc \in {"undo", "object"} => q.key \notin rs \ un

(* Nobody else holds the key of an upload that waits for its row.          *)
Distinct(p, q) ==
    p.pc = "insert" /\ q.pc \in {"insert", "undo", "object"} =>
      p.key # q.key

Apart == \A p, q \in Reqs : p # q => Distinct(req[p], req[q])

IInv == /\ TypeOK
        /\ RowHasBytes
        /\ \A r \in Reqs : KeyOK(req[r], rows, stored, used, unanswered)
        /\ Apart

-----------------------------------------------------------------------------
LEMMA IdleOK == Idle \in Request /\ \A rs, st, us, un : KeyOK(Idle, rs, st, us, un)
BY MaxFilesAssumption DEF Idle, Request, Phases, KeyOK

(* One request changes, holding nothing that another one holds, and what   *)
(* the others rely on is left to them.                                     *)
LEMMA Preserved ==
    ASSUME IInv, NEW r \in Reqs, NEW q \in Request,
           req' = [req EXCEPT ![r] = q],
           life' \in {"absent", "live", "deleted"},
           rows' \subseteq used', rows' \ unanswered' \subseteq stored',
           stored' \subseteq used', used' \subseteq Keys,
           stray' \subseteq Keys, unanswered' \subseteq Keys,
           KeyOK(q, rows', stored', used', unanswered'),
           \A p \in Reqs \ {r} :
             /\ KeyOK(req[p], rows', stored', used', unanswered')
             /\ Distinct(req[p], q) /\ Distinct(q, req[p])
    PROVE  IInv'
<1>1. req \in [Reqs -> Request] /\ Apart
  BY DEF IInv, TypeOK
<1>2. req' \in [Reqs -> Request] /\ req'[r] = q
  BY <1>1
<1>3. \A p \in Reqs \ {r} : req'[p] = req[p]
  BY <1>1
<1>4. \A p \in Reqs : KeyOK(req'[p], rows', stored', used', unanswered')
  BY <1>2, <1>3
<1>5. Apart'
  BY <1>1, <1>2, <1>3 DEF Apart
<1> QED BY <1>2, <1>4, <1>5 DEF IInv, TypeOK, RowHasBytes

(* A request that holds nothing an upload could collide with               *)
LEMMA Quiet ==
    ASSUME IInv, NEW r \in Reqs, NEW q \in Request,
           req' = [req EXCEPT ![r] = q],
           life' \in {"absent", "live", "deleted"},
           UNCHANGED <<rows, stored, used, unanswered>>, stray' \subseteq Keys,
           KeyOK(q, rows, stored, used, unanswered),
           q.pc \notin {"insert", "undo", "object"}
    PROVE  IInv'
<1>1. \A p \in Reqs : Distinct(req[p], q) /\ Distinct(q, req[p])
  BY DEF Distinct
<1>2. rows' = rows /\ stored' = stored /\ used' = used /\ unanswered' = unanswered
  OBVIOUS
<1>3. /\ KeyOK(q, rows', stored', used', unanswered')
      /\ \A p \in Reqs : KeyOK(req[p], rows', stored', used', unanswered')
  BY <1>2 DEF IInv
<1>4. /\ rows' \subseteq used' /\ rows' \ unanswered' \subseteq stored'
      /\ stored' \subseteq used' /\ used' \subseteq Keys /\ unanswered' \subseteq Keys
  BY <1>2 DEF IInv, TypeOK, RowHasBytes
<1> QED BY <1>1, <1>3, <1>4, Preserved

-----------------------------------------------------------------------------
LEMMA BeginStep ==
    ASSUME IInv, NEW r \in Reqs, BeginCreate(r) \/ BeginUpload(r) \/ Begin(r)
    PROVE  IInv'
<1>1. /\ life' \in {"absent", "live", "deleted"} /\ stray' \subseteq Keys
      /\ UNCHANGED <<rows, stored, used, unanswered>>
  BY DEF BeginCreate, BeginUpload, Begin, data, tables, faults, IInv, TypeOK
<1>2. CASE BeginCreate(r)
  <2>1. PICK n \in 0 .. MaxFiles :
          req' = [req EXCEPT ![r] = [Idle EXCEPT !.pc = "task", !.op = "create",
                                                 !.left = n]]
    BY <1>2 DEF BeginCreate
  <2> DEFINE q == [Idle EXCEPT !.pc = "task", !.op = "create", !.left = n]
  <2>2. q \in Request /\ KeyOK(q, rows, stored, used, unanswered) /\ q.pc = "task"
    BY DEF Idle, Request, Phases, Ops, KeyOK
  <2> QED BY <1>1, <2>1, <2>2, Quiet
<1>3. CASE BeginUpload(r)
  <2>1. PICK n \in 0 .. MaxFiles :
          req' = [req EXCEPT ![r] = [Idle EXCEPT !.pc = "find-task", !.op = "upload",
                                                 !.left = n]]
    BY <1>3 DEF BeginUpload
  <2> DEFINE q == [Idle EXCEPT !.pc = "find-task", !.op = "upload", !.left = n]
  <2>2. q \in Request /\ KeyOK(q, rows, stored, used, unanswered) /\ q.pc = "find-task"
    BY DEF Idle, Request, Phases, Ops, KeyOK
  <2> QED BY <1>1, <2>1, <2>2, Quiet
<1>4. CASE Begin(r)
  <2>1. PICK op \in {"delete", "download", "rename"}, k \in used :
          req' = [req EXCEPT ![r] = [Idle EXCEPT !.pc = "find", !.op = op, !.key = k]]
    BY <1>4 DEF Begin
  <2> DEFINE q == [Idle EXCEPT !.pc = "find", !.op = op, !.key = k]
  <2>2. k \in Keys
    BY DEF IInv, TypeOK
  <2>3. q.pc = "find" /\ q.op = op /\ q.key = k
    BY DEF Idle
  <2>4. q \in Request
    <3>1. op \in Ops /\ 0 \in 0 .. MaxFiles
      BY MaxFilesAssumption DEF Ops
    <3> QED BY <2>2, <3>1 DEF Idle, Request, Phases
  <2>5. KeyOK(q, rows, stored, used, unanswered)
    BY <2>3 DEF KeyOK
  <2> QED BY <1>1, <2>1, <2>3, <2>4, <2>5, Quiet
<1> QED BY <1>2, <1>3, <1>4

(* Steps that leave the rows and the bytes alone                           *)
LEMMA ReadStep ==
    ASSUME IInv, NEW r \in Reqs,
           \/ InsertTask(r) \/ FindTask(r) \/ InsertFails(r) \/ Find(r)
           \/ StorageDeleteFails(r) \/ ReadOrRename(r) \/ Lost(r)
    PROVE  IInv'
<1>1. /\ req[r] \in Request /\ req \in [Reqs -> Request]
      /\ KeyOK(req[r], rows, stored, used, unanswered)
  BY DEF IInv, TypeOK
<1>2. /\ life' \in {"absent", "live", "deleted"} /\ stray' \subseteq Keys
      /\ UNCHANGED <<rows, stored, used, unanswered>>
  BY <1>1 DEF InsertTask, FindTask, InsertFails, Find, StorageDeleteFails,
     ReadOrRename, Lost, data, tables, faults, IInv, TypeOK, KeyOK
<1>3. CASE Finish(r)
  <2>1. Idle.pc = "idle"
    BY DEF Idle
  <2> QED BY <1>2, <1>3, <2>1, IdleOK, Quiet DEF Finish
<1>4. ASSUME NEW pc \in {"find-task", "save"}, GoTo(r, pc),
             pc = "save" => req[r].left # 0
      PROVE  IInv'
  <2> DEFINE q == [req[r] EXCEPT !.pc = pc]
  <2>1. q \in Request /\ KeyOK(q, rows, stored, used, unanswered) /\ q.pc = pc
    BY <1>1, <1>4 DEF Request, Phases, KeyOK
  <2>2. req' = [req EXCEPT ![r] = q]
    BY <1>1, <1>4 DEF GoTo
  <2> QED BY <1>2, <2>1, <2>2, Quiet
<1>5. CASE Find(r) /\ ~Finish(r)
  <2>1. PICK pc \in {"row", "read", "update"} : GoTo(r, pc)
    BY <1>1, <1>5 DEF Find, AfterFind, KeyOK
  <2> DEFINE q == [req[r] EXCEPT !.pc = pc]
  <2>2. q \in Request /\ KeyOK(q, rows, stored, used, unanswered) /\ q.pc = pc
    BY <1>1, <1>5 DEF Find, Request, Phases, KeyOK
  <2>3. req' = [req EXCEPT ![r] = q]
    BY <1>1, <2>1 DEF GoTo
  <2> QED BY <1>2, <2>2, <2>3, Quiet
<1>6. CASE InsertFails(r)
  <2> DEFINE q == [req[r] EXCEPT !.pc = "undo"]
  <2>1. q \in Request /\ KeyOK(q, rows, stored, used, unanswered)
    BY <1>1, <1>6 DEF InsertFails, Request, Phases, KeyOK
  <2>2. req' = [req EXCEPT ![r] = q]
    BY <1>1, <1>6 DEF InsertFails, Compensate, GoTo
  <2>3. \A p \in Reqs \ {r} : Distinct(req[p], q) /\ Distinct(q, req[p])
    <3>1. q.key = req[r].key /\ req[r].pc = "insert"
      BY <1>1, <1>6 DEF InsertFails, Request
    <3> QED BY <3>1 DEF IInv, Apart, Distinct
  <2> QED BY <1>2, <2>1, <2>2, <2>3, Preserved DEF IInv, TypeOK, RowHasBytes
<1> QED BY <1>3, <1>4, <1>5, <1>6
     DEF InsertTask, FindTask, MayStore, StorageDeleteFails, ReadOrRename, Lost

(* Steps that write rows or bytes, each about the key r holds              *)
LEMMA SaveStep ==
    ASSUME IInv, NEW r \in Reqs, SaveFile(r) \/ SaveFails(r)
    PROVE  IInv'
<1>1. /\ req[r] \in Request /\ req \in [Reqs -> Request]
      /\ rows \subseteq used /\ rows \ unanswered \subseteq stored
      /\ stored \subseteq used /\ used \subseteq Keys
      /\ stray \subseteq Keys /\ unanswered \subseteq Keys
  BY DEF IInv, TypeOK, RowHasBytes
<1>2. /\ life' = life /\ rows' = rows /\ life' \in {"absent", "live", "deleted"}
      /\ unanswered' = unanswered /\ stray' \subseteq Keys
  BY DEF SaveFile, SaveFails, IInv, TypeOK, faults
<1>3. ASSUME NEW k \in Keys \ used, used' = used \cup {k},
             stored' = stored \cup {k} \/ stored' = stored
      PROVE  /\ rows' \ unanswered' \subseteq stored' /\ stored \subseteq stored'
             /\ unanswered' \subseteq Keys
             /\ stored' \subseteq used' /\ rows' \subseteq used'
             /\ used \subseteq used' /\ used' \subseteq Keys
             /\ \A p \in Reqs : KeyOK(req[p], rows', stored', used', unanswered')
  <2>1. /\ rows' \ unanswered' \subseteq stored' /\ stored \subseteq stored'
        /\ unanswered' \subseteq Keys
        /\ stored' \subseteq used' /\ rows' \subseteq used'
        /\ used \subseteq used' /\ used' \subseteq Keys
    BY <1>1, <1>2, <1>3
  <2> QED BY <1>2, <2>1 DEF IInv, KeyOK
<1>4. CASE SaveFile(r)
  <2>1. PICK k \in Keys \ used :
          /\ used' = used \cup {k} /\ stored' = stored \cup {k}
          /\ req' = [req EXCEPT ![r].pc = "insert", ![r].key = k]
    BY <1>4 DEF SaveFile
  <2> DEFINE q == [req[r] EXCEPT !.pc = "insert", !.key = k]
  <2>2. q \in Request /\ q.pc = "insert" /\ q.key = k
    BY <1>1 DEF Request, Phases
  <2>3. KeyOK(q, rows', stored', used', unanswered')
    <3>1. q.left = req[r].left /\ req[r].left # 0
      BY <1>1, <1>4 DEF SaveFile, IInv, KeyOK, Request
    <3> HIDE DEF q
    <3> QED BY <1>1, <1>2, <2>1, <2>2, <3>1 DEF KeyOK
  <2>4. \A p \in Reqs \ {r} : Distinct(req[p], q) /\ Distinct(q, req[p])
    BY <2>2 DEF IInv, KeyOK, Distinct
  <2>5. req' = [req EXCEPT ![r] = q]
    BY <1>1, <2>1
  <2> HIDE DEF q
  <2> QED BY <1>2, <1>3, <2>1, <2>2, <2>3, <2>4, <2>5, Preserved
<1>5. CASE SaveFails(r)
  <2>1. PICK k \in Keys \ used :
          used' = used \cup {k} /\ (stored' = stored \cup {k} \/ stored' = stored)
    BY <1>5 DEF SaveFails
  <2>2. Idle.pc = "idle"
    BY DEF Idle
  <2>3. \A p \in Reqs \ {r} : Distinct(req[p], Idle) /\ Distinct(Idle, req[p])
    BY <2>2 DEF Distinct
  <2>4. req' = [req EXCEPT ![r] = Idle]
    BY <1>5 DEF SaveFails, Finish
  <2> QED BY <1>2, <1>3, <2>1, <2>3, <2>4, IdleOK, Preserved
<1> QED BY <1>4, <1>5

(* The row comes after its bytes, and only its own request waits for it.   *)
LEMMA InsertStep ==
    ASSUME IInv, NEW r \in Reqs, Insert(r) \/ InsertUnanswered(r)
    PROVE  IInv'
<1> DEFINE k == req[r].key
           q == IF InsertUnanswered(r)
                  THEN [req[r] EXCEPT !.pc = "undo"]
                  ELSE IF req[r].left = 1
                  THEN Idle
                  ELSE [req[r] EXCEPT !.pc = "save", !.key = None, !.left = @ - 1]
<1>1. /\ req[r] \in Request /\ req \in [Reqs -> Request]
      /\ rows \subseteq used /\ rows \ unanswered \subseteq stored
      /\ stored \subseteq used /\ used \subseteq Keys
      /\ stray \subseteq Keys /\ unanswered \subseteq Keys
  BY DEF IInv, TypeOK, RowHasBytes
<1>2. k \in stored /\ req[r].pc = "insert"
  BY DEF Insert, InsertUnanswered, IInv, KeyOK
<1>3. /\ rows' = rows \cup {k} /\ stored' = stored /\ used' = used
      /\ life' \in {"absent", "live", "deleted"} /\ stray' = stray
      /\ unanswered' = IF InsertUnanswered(r) THEN unanswered \cup {k} ELSE unanswered
  BY DEF Insert, InsertUnanswered, IInv, TypeOK, faults
<1>4. \A p \in Reqs \ {r} : KeyOK(req[p], rows', stored', used', unanswered')
  BY <1>2, <1>3 DEF IInv, KeyOK, Apart, Distinct
<1>5. q.pc \in {"idle", "save", "undo"} /\ (q.pc = "undo" <=> InsertUnanswered(r))
  BY <1>1 DEF Idle, Request
<1>6. q \in Request /\ KeyOK(q, rows', stored', used', unanswered')
  <2>0. CASE InsertUnanswered(r)
    BY <1>1, <1>2, <1>3, <2>0 DEF Request, Phases, KeyOK
  <2>1. CASE ~InsertUnanswered(r) /\ req[r].left = 1
    BY <2>1, IdleOK
  <2>2. CASE ~InsertUnanswered(r) /\ req[r].left # 1
    <3> DEFINE n == req[r].left - 1
    <3>1. n \in 0 .. MaxFiles /\ n # 0
      <4>1. req[r].left \in 0 .. MaxFiles /\ req[r].left # 0
        BY <1>1, <1>2 DEF IInv, KeyOK, Request
      <4> QED BY <2>2, <4>1, MaxFilesAssumption
    <3>2. q = [req[r] EXCEPT !.pc = "save", !.key = None, !.left = n]
      BY <2>2
    <3> HIDE DEF n, q
    <3>3. q \in Request /\ q.pc = "save" /\ q.left = n
      BY <1>1, <3>1, <3>2 DEF Request, Phases
    <3> QED BY <3>1, <3>3 DEF KeyOK
  <2> QED BY <2>0, <2>1, <2>2
<1>7. \A p \in Reqs \ {r} : Distinct(req[p], q) /\ Distinct(q, req[p])
  <2>1. q.pc = "undo" => q.key = k
    BY <1>1, <1>5 DEF Request
  <2> QED BY <1>2, <1>5, <2>1 DEF IInv, Apart, Distinct
<1>8. req' = [req EXCEPT ![r] = q]
  BY <1>1 DEF Insert, InsertUnanswered, Compensate, GoTo, Finish
<1> QED BY <1>1, <1>2, <1>3, <1>4, <1>6, <1>7, <1>8, Preserved

LEMMA DeleteRowStep ==
    ASSUME IInv, NEW r \in Reqs, DeleteRow(r)
    PROVE  IInv'
<1> DEFINE k == req[r].key
           q == IF k \in rows THEN [req[r] EXCEPT !.pc = "object"] ELSE Idle
<1>1. /\ req[r] \in Request /\ req \in [Reqs -> Request] /\ k \in used
      /\ rows \subseteq used /\ rows \ unanswered \subseteq stored
      /\ stored \subseteq used /\ used \subseteq Keys
      /\ stray \subseteq Keys /\ unanswered \subseteq Keys
  BY DEF IInv, TypeOK, RowHasBytes, KeyOK, DeleteRow
<1>2. /\ rows' = rows \ {k} /\ stored' = stored /\ used' = used
      /\ life' \in {"absent", "live", "deleted"}
      /\ unanswered' = unanswered /\ stray' = stray
  BY DEF DeleteRow, IInv, TypeOK, faults
<1>3. \A p \in Reqs : KeyOK(req[p], rows', stored', used', unanswered')
  BY <1>2 DEF IInv, KeyOK
<1>4. q \in Request
  BY <1>1, IdleOK DEF Request, Phases
<1>5. KeyOK(q, rows', stored', used', unanswered')
  <2>1. CASE k \in rows
    BY <1>1, <1>2, <2>1 DEF Request, KeyOK
  <2>2. CASE k \notin rows
    BY <2>2, IdleOK
  <2> QED BY <2>1, <2>2
<1>6. \A p \in Reqs \ {r} : Distinct(req[p], q) /\ Distinct(q, req[p])
  <2>1. CASE k \in rows
    <3>1. q.pc = "object" /\ q.key = k
      BY <1>1, <2>1 DEF Request
    <3> QED BY <2>1, <3>1 DEF IInv, KeyOK, Distinct
  <2>2. CASE k \notin rows
    <3>1. q.pc = "idle"
      BY <2>2 DEF Idle
    <3> QED BY <3>1 DEF Distinct
  <2> QED BY <2>1, <2>2
<1>7. req' = [req EXCEPT ![r] = q]
  BY <1>1 DEF DeleteRow, Finish, GoTo
<1> QED BY <1>1, <1>2, <1>3, <1>4, <1>5, <1>6, <1>7, Preserved

(* The key that loses its bytes has no row and none waits to be inserted,  *)
(* or its insert was unanswered.                                           *)
LEMMA DropBytesStep ==
    ASSUME IInv, NEW r \in Reqs, Undo(r) \/ DeleteObject(r)
    PROVE  IInv'
<1> DEFINE k == req[r].key
<1>1. /\ req[r].pc \in {"undo", "object"} /\ k \notin rows \ unanswered
      /\ rows \subseteq used /\ rows \ unanswered \subseteq stored
      /\ stored \subseteq used /\ used \subseteq Keys
      /\ stray \subseteq Keys /\ unanswered \subseteq Keys
  BY DEF IInv, TypeOK, RowHasBytes, KeyOK, Undo, DeleteObject
<1>2. /\ rows' = rows /\ stored' = stored \ {k} /\ used' = used
      /\ life' \in {"absent", "live", "deleted"} /\ Finish(r)
      /\ unanswered' = unanswered /\ stray' = stray
  BY DEF Undo, DeleteObject, IInv, TypeOK, faults
<1>3. \A p \in Reqs \ {r} : KeyOK(req[p], rows', stored', used', unanswered')
  BY <1>1, <1>2 DEF IInv, KeyOK, Apart, Distinct
<1>4. \A p \in Reqs \ {r} : Distinct(req[p], Idle) /\ Distinct(Idle, req[p])
  <2>1. Idle.pc = "idle"
    BY DEF Idle
  <2> QED BY <2>1 DEF Distinct
<1> QED BY <1>1, <1>2, <1>3, <1>4, IdleOK, Preserved DEF Finish

-----------------------------------------------------------------------------
LEMMA StepInductive == IInv /\ [Next]_vars => IInv'
<1> SUFFICES ASSUME IInv, [Next]_vars PROVE IInv'
  OBVIOUS
<1>1. ASSUME NEW r \in Reqs, BeginCreate(r) \/ BeginUpload(r) \/ Begin(r)
      PROVE  IInv'
  BY <1>1, BeginStep
<1>2. ASSUME NEW r \in Reqs,
             \/ InsertTask(r) \/ FindTask(r) \/ InsertFails(r) \/ Find(r)
             \/ StorageDeleteFails(r) \/ ReadOrRename(r) \/ Lost(r)
      PROVE  IInv'
  BY <1>2, ReadStep
<1>3. ASSUME NEW r \in Reqs,
             \/ SaveFile(r) \/ SaveFails(r) \/ Insert(r) \/ InsertUnanswered(r)
             \/ DeleteRow(r) \/ Undo(r) \/ DeleteObject(r)
      PROVE  IInv'
  BY <1>3, SaveStep, InsertStep, DeleteRowStep, DropBytesStep
<1>4. CASE DeleteTask
  <2>1. /\ rows' = {} /\ life' = "deleted" /\ stray' = stray \cup rows
        /\ UNCHANGED <<stored, used, unanswered, req>>
    BY <1>4 DEF DeleteTask
  <2> QED BY <2>1 DEF IInv, TypeOK, RowHasBytes, KeyOK, Apart, Distinct
<1>5. CASE UNCHANGED vars
  BY <1>5 DEF vars, IInv, TypeOK, RowHasBytes, KeyOK, Apart, Distinct
<1> QED BY <1>1, <1>2, <1>3, <1>4, <1>5 DEF Next, Step

LEMMA InitIInv == Init => IInv
<1> SUFFICES ASSUME Init PROVE IInv
  OBVIOUS
<1>1. Idle.pc = "idle"
  BY DEF Idle
<1>2. Apart
  BY <1>1 DEF Init, Apart, Distinct
<1> QED BY <1>2, IdleOK DEF Init, IInv, TypeOK, RowHasBytes

LEMMA Inductive == Spec => []IInv
BY InitIInv, StepInductive, PTL DEF Spec

(* Every reachable state is typed; rows and bytes have generated keys.     *)
THEOREM TypeCorrect == Spec => []TypeOK
<1>1. IInv => TypeOK
  BY DEF IInv
<1> QED BY <1>1, Inductive, PTL

(* Through every overlap of uploads and deletes, every crash, every failed *)
(* save, insert and storage delete, a row in the database has its bytes,   *)
(* unless its own insert was committed and answered by an error.           *)
THEOREM RowsHaveBytes == Spec => []RowHasBytes
<1>1. IInv => RowHasBytes
  BY DEF IInv
<1> QED BY <1>1, Inductive, PTL

-----------------------------------------------------------------------------
(***************************************************************************)
(* Bytes without a row have a holder, or a fault took it from them; a step *)
(* of one request takes no bytes from the hands of the others.             *)
(***************************************************************************)
LEMMA OthersHold ==
    ASSUME NEW r \in Reqs, req \in [Reqs -> Request], NEW q,
           req' = [req EXCEPT ![r] = q],
           NEW k, NoOrphanBytes, k \in stored \ (rows \cup stray), ~Holds(req[r], k)
    PROVE  \E p \in Reqs : Holds(req'[p], k)
<1>1. PICK p \in Reqs : Holds(req[p], k) /\ p # r
  BY DEF NoOrphanBytes
<1>2. req'[p] = req[p]
  BY <1>1
<1> QED BY <1>1, <1>2

LEMMA OrphanStep ==
    ASSUME IInv, NoOrphanBytes, [Next]_vars
    PROVE  NoOrphanBytes'
<1> SUFFICES ASSUME NEW k \in stored' \ (rows' \cup stray')
             PROVE  \E p \in Reqs : Holds(req'[p], k)
  BY DEF NoOrphanBytes
<1>1. /\ req \in [Reqs -> Request] /\ stored \subseteq Keys
      /\ \A r \in Reqs : \A pc : GoTo(r, pc) => \E q : req' = [req EXCEPT ![r] = q]
  <2>1. ASSUME NEW r \in Reqs, NEW pc, GoTo(r, pc)
        PROVE  \E q : req' = [req EXCEPT ![r] = q]
    <3>1. req' = [req EXCEPT ![r] = [req[r] EXCEPT !.pc = pc]]
      BY <2>1 DEF GoTo, IInv, TypeOK
    <3> QED BY <3>1
  <2> QED BY <2>1 DEF IInv, TypeOK
<1>2. CASE UNCHANGED vars
  BY <1>2 DEF vars, NoOrphanBytes
<1>3. ASSUME NEW r \in Reqs, ~Holds(req[r], k), \E q : req' = [req EXCEPT ![r] = q],
             k \in stored \ (rows \cup stray)
      PROVE  \E p \in Reqs : Holds(req'[p], k)
  BY <1>1, <1>3, OthersHold
<1>4. ASSUME NEW r \in Reqs,
             \/ BeginCreate(r) \/ BeginUpload(r) \/ Begin(r) \/ InsertTask(r)
             \/ FindTask(r) \/ Find(r) \/ ReadOrRename(r)
      PROVE  \E p \in Reqs : Holds(req'[p], k)
  <2>1. /\ req[r].pc \notin {"insert", "undo", "object"}
        /\ rows' = rows /\ stored' = stored /\ stray' = stray
    BY <1>4 DEF BeginCreate, BeginUpload, Begin, InsertTask, FindTask, Find,
       ReadOrRename, data, tables, faults
  <2>2. \E q : req' = [req EXCEPT ![r] = q]
    BY <1>1, <1>4 DEF BeginCreate, BeginUpload, Begin, InsertTask, FindTask, Find,
       ReadOrRename, Finish, GoTo
  <2> QED BY <1>3, <2>1, <2>2 DEF Holds
<1>5. ASSUME NEW r \in Reqs, SaveFile(r)
      PROVE  \E p \in Reqs : Holds(req'[p], k)
  <2>1. PICK n \in Keys \ used :
          /\ stored' = stored \cup {n} /\ rows' = rows /\ stray' = stray
          /\ req' = [req EXCEPT ![r].pc = "insert", ![r].key = n]
    BY <1>5 DEF SaveFile, faults
  <2>2. req'[r].pc = "insert" /\ req'[r].key = n
    BY <1>1, <2>1 DEF Request
  <2>3. CASE k = n
    BY <2>2, <2>3 DEF Holds
  <2>4. CASE k # n
    <3>1. ~Holds(req[r], k)
      BY <1>5 DEF SaveFile, Holds
    <3>2. \E q : req' = [req EXCEPT ![r] = q]
      BY <1>1, <2>1
    <3> QED BY <1>3, <2>1, <2>4, <3>1, <3>2
  <2> QED BY <2>3, <2>4
<1>6. ASSUME NEW r \in Reqs, Insert(r) \/ InsertUnanswered(r)
      PROVE  \E p \in Reqs : Holds(req'[p], k)
  <2>1. rows' = rows \cup {req[r].key} /\ stored' = stored /\ stray' = stray
    BY <1>6 DEF Insert, InsertUnanswered, faults
  <2>2. \E q : req' = [req EXCEPT ![r] = q]
    <3> DEFINE q == [req[r] EXCEPT !.pc = "save", !.key = None, !.left = @ - 1]
    <3>1. Finish(r) \/ req' = [req EXCEPT ![r] = q] \/ GoTo(r, "undo")
      BY <1>1, <1>6 DEF Insert, InsertUnanswered, Compensate
    <3> QED BY <1>1, <3>1 DEF Finish
  <2> QED BY <1>3, <2>1, <2>2 DEF Holds
<1>7. ASSUME NEW r \in Reqs, Undo(r) \/ DeleteObject(r)
      PROVE  \E p \in Reqs : Holds(req'[p], k)
  <2>1. /\ rows' = rows /\ stored' = stored \ {req[r].key} /\ stray' = stray
        /\ req' = [req EXCEPT ![r] = Idle]
    BY <1>7 DEF Undo, DeleteObject, Finish, faults
  <2> QED BY <1>3, <2>1 DEF Holds
<1>8. ASSUME NEW r \in Reqs, InsertFails(r)
      PROVE  \E p \in Reqs : Holds(req'[p], k)
  <2>1. /\ rows' = rows /\ stored' = stored /\ stray' = stray
        /\ req' = [req EXCEPT ![r].pc = "undo"]
    BY <1>8 DEF InsertFails, Compensate, GoTo, data, tables, faults
  <2>2. CASE Holds(req[r], k)
    BY <1>1, <2>1, <2>2 DEF Holds, Request
  <2>3. CASE ~Holds(req[r], k)
    <3>1. \E q : req' = [req EXCEPT ![r] = q]
      BY <1>1, <2>1
    <3> QED BY <1>3, <2>1, <2>3, <3>1
  <2> QED BY <2>2, <2>3
<1>9. ASSUME NEW r \in Reqs, DeleteRow(r)
      PROVE  \E p \in Reqs : Holds(req'[p], k)
  <2>1. /\ rows' = rows \ {req[r].key} /\ stored' = stored /\ stray' = stray
        /\ req[r].key \in rows => GoTo(r, "object")
    BY <1>9 DEF DeleteRow, faults
  <2>2. CASE k = req[r].key /\ k \in rows
    <3>1. req'[r].pc = "object" /\ req'[r].key = k
      BY <1>1, <2>1, <2>2 DEF GoTo, Request
    <3> QED BY <3>1 DEF Holds
  <2>3. CASE k # req[r].key \/ k \notin rows
    <3>1. ~Holds(req[r], k)
      BY <1>9 DEF DeleteRow, Holds
    <3>2. \E q : req' = [req EXCEPT ![r] = q]
      BY <1>1, <1>9 DEF DeleteRow, Finish, GoTo
    <3> QED BY <1>3, <2>1, <2>3, <3>1, <3>2
  <2> QED BY <2>2, <2>3
<1>10. ASSUME NEW r \in Reqs, SaveFails(r) \/ StorageDeleteFails(r) \/ Lost(r)
       PROVE  \E p \in Reqs : Holds(req'[p], k)
  <2>1. rows' = rows /\ stray \subseteq stray' /\ req' = [req EXCEPT ![r] = Idle]
    BY <1>10 DEF SaveFails, StorageDeleteFails, Lost, tables, Finish
  <2>2. k \in stored /\ ~Holds(req[r], k)
    <3>1. CASE SaveFails(r)
      BY <3>1 DEF SaveFails, Holds
    <3>2. CASE StorageDeleteFails(r)
      BY <3>2 DEF StorageDeleteFails, Holds, tables
    <3>3. CASE Lost(r)
      BY <1>1, <3>3 DEF Lost, tables
    <3> QED BY <1>10, <3>1, <3>2, <3>3
  <2> QED BY <1>3, <2>1, <2>2
<1>11. CASE DeleteTask
  <2>1. k \in stored \ (rows \cup stray) /\ req' = req
    BY <1>11 DEF DeleteTask
  <2> QED BY <2>1 DEF NoOrphanBytes
<1> QED BY <1>2, <1>4, <1>5, <1>6, <1>7, <1>8, <1>9, <1>10, <1>11 DEF Next, Step

(* The compensation is complete: whatever overlaps, bytes without a row    *)
(* have a request that still owns them, unless a fault at that very key or *)
(* deleteTask left them.                                                   *)
THEOREM NoOrphans == Spec => []NoOrphanBytes
<1>1. Init => NoOrphanBytes
  BY DEF Init, NoOrphanBytes
<1>2. IInv /\ NoOrphanBytes /\ [Next]_vars => NoOrphanBytes'
  BY OrphanStep
<1> QED BY <1>1, <1>2, Inductive, PTL DEF Spec

-----------------------------------------------------------------------------
(***************************************************************************)
(* What DeletedBytesGo owes to the steps themselves; that they are taken   *)
(* is the fairness of FairSpec.                                            *)
(***************************************************************************)

(* A request that has deleted a row ends only with its bytes removed, or   *)
(* left behind by a fault at that very key; and bytes that are gone never  *)
(* come back, for no key is generated twice.                               *)
DeletedBytesStayAway ==
    [][/\ \A r \in Reqs : req[r].pc = "object" /\ req'[r] # req[r] =>
            req[r].key \notin stored' \ stray'
       /\ \A k \in used : k \notin stored \ stray => k \notin stored' \ stray']_vars

LEMMA BeginsOnly ==
    ASSUME IInv, NEW r \in Reqs, BeginCreate(r) \/ BeginUpload(r) \/ Begin(r)
    PROVE  /\ req[r].pc = "idle" /\ UNCHANGED data
           /\ \A s \in Reqs \ {r} : req'[s] = req[s]
<1>0. req \in [Reqs -> Request]
  BY DEF IInv, TypeOK
<1>1. CASE BeginCreate(r)
  BY <1>0, <1>1 DEF BeginCreate
<1>2. CASE BeginUpload(r)
  BY <1>0, <1>2 DEF BeginUpload
<1>3. CASE Begin(r)
  BY <1>0, <1>3 DEF Begin
<1> QED BY <1>1, <1>2, <1>3

LEMMA OneRequest ==
    ASSUME IInv, NEW p \in Reqs, NEW r \in Reqs \ {p},
           BeginCreate(p) \/ BeginUpload(p) \/ Begin(p) \/ Step(p) \/ Lost(p)
    PROVE  req'[r] = req[r]
<1>0. req \in [Reqs -> Request]
  BY DEF IInv, TypeOK
<1>1. CASE BeginCreate(p) \/ BeginUpload(p) \/ Begin(p)
  BY <1>1, BeginsOnly
<1>4. CASE Lost(p)
  BY <1>0, <1>4 DEF Lost, Finish
<1>2. CASE \/ InsertTask(p) \/ FindTask(p) \/ SaveFile(p) \/ SaveFails(p)
           \/ Insert(p) \/ InsertFails(p) \/ InsertUnanswered(p)
  BY <1>0, <1>2
     DEF InsertTask, FindTask, SaveFile, SaveFails, Insert, InsertFails,
         InsertUnanswered, Compensate, Finish, GoTo
<1>3. CASE \/ Undo(p) \/ Find(p) \/ DeleteRow(p) \/ DeleteObject(p)
           \/ StorageDeleteFails(p) \/ ReadOrRename(p)
  BY <1>0, <1>3
     DEF Undo, Find, DeleteRow, DeleteObject, StorageDeleteFails, ReadOrRename,
         Finish, GoTo
<1> QED BY <1>1, <1>2, <1>3, <1>4 DEF Step

LEMMA BytesStep ==
    ASSUME IInv, [Next]_vars
    PROVE  /\ \A r \in Reqs : req[r].pc = "object" /\ req'[r] # req[r] =>
                req[r].key \notin stored' \ stray'
           /\ \A k \in used : k \notin stored \ stray => k \notin stored' \ stray'
<1> DEFINE Ends(r) == req[r].pc = "object" /\ req'[r] # req[r]
           Gone == \A k \in used : k \notin stored \ stray => k \notin stored' \ stray'
<1>0. /\ req \in [Reqs -> Request]
      /\ \A r \in Reqs : req[r].key \in Keys \cup {None}
  BY DEF IInv, TypeOK, Request
<1>1. CASE DeleteTask \/ UNCHANGED vars
  BY <1>1 DEF DeleteTask, vars
<1>2. ASSUME NEW p \in Reqs,
             BeginCreate(p) \/ BeginUpload(p) \/ Begin(p) \/ Step(p) \/ Lost(p)
      PROVE  Gone /\ \A r \in Reqs : Ends(r) => req[r].key \notin stored' \ stray'
  <2>1. Gone
    <3>1. CASE BeginCreate(p) \/ BeginUpload(p) \/ Begin(p)
      BY <3>1, BeginsOnly DEF data, tables, faults
    <3>5. CASE \/ InsertTask(p) \/ FindTask(p) \/ InsertFails(p) \/ Find(p)
               \/ ReadOrRename(p)
      BY <3>5 DEF InsertTask, FindTask, InsertFails, Find, ReadOrRename, data, tables,
                  faults
    <3>2. CASE SaveFile(p) \/ SaveFails(p)
      BY <3>2 DEF SaveFile, SaveFails, faults
    <3>3. CASE Insert(p) \/ InsertUnanswered(p) \/ DeleteRow(p) \/ Lost(p)
      BY <3>3 DEF Insert, InsertUnanswered, DeleteRow, Lost, tables, faults
    <3>4. CASE Undo(p) \/ DeleteObject(p) \/ StorageDeleteFails(p)
      BY <3>4 DEF Undo, DeleteObject, StorageDeleteFails, tables, faults
    <3> QED BY <1>2, <3>1, <3>2, <3>3, <3>4, <3>5 DEF Step
  <2>2. ASSUME NEW r \in Reqs, Ends(r) PROVE r = p
    BY <1>2, <2>2, OneRequest
  <2>3. ASSUME Ends(p) PROVE req[p].key \notin stored' \ stray'
    <3>1. DeleteObject(p) \/ StorageDeleteFails(p) \/ Lost(p)
      BY <1>2, <2>3
         DEF BeginCreate, BeginUpload, Begin, Step, InsertTask, FindTask, SaveFile,
             SaveFails, Insert, InsertFails, InsertUnanswered, Undo, Find, DeleteRow,
             ReadOrRename
    <3>2. req[p].key \in Keys
      BY <2>3 DEF IInv, KeyOK, TypeOK
    <3> QED BY <2>3, <3>1, <3>2 DEF DeleteObject, StorageDeleteFails, Lost, Holds
  <2> QED BY <2>1, <2>2, <2>3
<1> QED BY <1>1, <1>2 DEF Next

(* For any keys, requests and faults: the safety half of DeletedBytesGo.   *)
THEOREM DeletedBytesLeave == Spec => DeletedBytesStayAway
<1> DEFINE A ==
      /\ \A r \in Reqs : req[r].pc = "object" /\ req'[r] # req[r] =>
           req[r].key \notin stored' \ stray'
      /\ \A k \in used : k \notin stored \ stray => k \notin stored' \ stray'
<1>1. IInv /\ [Next]_vars => [A]_vars
  BY BytesStep
<1>2. []IInv /\ [][Next]_vars => [][A]_vars
  BY <1>1, PTL
<1> QED BY <1>2, Inductive, PTL DEF Spec, DeletedBytesStayAway

-----------------------------------------------------------------------------
(* How far a request is from its answer: the awaits it may still go        *)
(* through, two for each file and those before and after them.             *)
Distance(q) ==
    CASE q.pc = "idle"                                 -> 0
      [] q.pc \in {"undo", "object", "read", "update"} -> 1
      [] q.pc = "row"                                  -> 2
      [] q.pc = "find"                                 -> 3
      [] q.pc = "insert"                               -> 2 * q.left
      [] q.pc = "save"                                 -> 2 * q.left + 1
      [] q.pc = "find-task"                            -> 2 * q.left + 2
      [] q.pc = "task"                                 -> 2 * q.left + 3

LEMMA Distances ==
    ASSUME NEW q \in Request
    PROVE  /\ q.pc = "idle" => Distance(q) = 0
           /\ q.pc \in {"undo", "object", "read", "update"} => Distance(q) = 1
           /\ q.pc = "row" => Distance(q) = 2
           /\ q.pc = "find" => Distance(q) = 3
           /\ q.pc = "insert" => Distance(q) = 2 * q.left
           /\ q.pc = "save" => Distance(q) = 2 * q.left + 1
           /\ q.pc = "find-task" => Distance(q) = 2 * q.left + 2
           /\ q.pc = "task" => Distance(q) = 2 * q.left + 3
           /\ q.left \in 0 .. MaxFiles /\ q.pc \in Phases
BY DEF Distance, Request, Phases

LEMMA InFlight ==
    ASSUME IInv, NEW r \in Reqs, req[r].pc # "idle"
    PROVE  Distance(req[r]) \in 1 .. 2 * MaxFiles + 3
<1>1. req[r] \in Request /\ (req[r].pc = "insert" => req[r].left # 0)
  BY DEF IInv, TypeOK, KeyOK
<1>2. req[r].left \in 0 .. MaxFiles /\ req[r].pc \in Phases
  BY <1>1, Distances
<1> QED BY <1>1, <1>2, Distances, MaxFilesAssumption DEF Phases

Nearer(r) == req'[r] = req[r] \/ Distance(req'[r]) < Distance(req[r])

LEMMA FinishNears ==
    ASSUME IInv, NEW r \in Reqs, req[r].pc # "idle", req'[r] = Idle
    PROVE  Nearer(r)
<1>1. Idle \in Request /\ Idle.pc = "idle"
  BY IdleOK DEF Idle
<1>2. Distance(Idle) = 0
  BY <1>1, Distances
<1>3. Distance(req[r]) \in 1 .. 2 * MaxFiles + 3
  BY InFlight
<1> QED BY <1>2, <1>3, MaxFilesAssumption DEF Nearer

LEMMA StepNears ==
    ASSUME IInv, IInv', NEW r \in Reqs, Step(r)
    PROVE  Nearer(r)
<1> DEFINE p == req[r]
           q == req'[r]
<1>1. p \in Request /\ q \in Request /\ req \in [Reqs -> Request]
  BY DEF IInv, TypeOK
<1>2. /\ p.left \in Nat /\ q.left \in Nat
      /\ p.pc \in {"save", "insert"} => p.left # 0
      /\ p.pc = "find" => p.op \in {"delete", "download", "rename"}
  BY <1>1, MaxFilesAssumption DEF Request, IInv, KeyOK
<1>3. CASE Finish(r)
  <2>1. req'[r] = Idle
    BY <1>1, <1>3 DEF Finish
  <2>2. req[r].pc # "idle"
    BY DEF Step, InsertTask, FindTask, SaveFile, SaveFails, Insert, InsertFails,
           InsertUnanswered, Undo, Find, DeleteRow, DeleteObject,
           StorageDeleteFails, ReadOrRename
  <2> QED BY <2>1, <2>2, FinishNears
<1>4. CASE InsertTask(r) /\ ~Finish(r)
  <2>1. p.pc = "task" /\ q.pc = "find-task" /\ q.left = p.left
    BY <1>1, <1>4 DEF InsertTask, GoTo, Request
  <2> QED BY <1>1, <1>2, <2>1, Distances DEF Nearer
<1>5. CASE FindTask(r) /\ ~Finish(r)
  <2>1. p.pc = "find-task" /\ q.pc = "save" /\ q.left = p.left
    BY <1>1, <1>5 DEF FindTask, GoTo, Request
  <2> QED BY <1>1, <1>2, <2>1, Distances DEF Nearer
<1>6. CASE SaveFile(r)
  <2>1. p.pc = "save" /\ q.pc = "insert" /\ q.left = p.left
    BY <1>1, <1>6 DEF SaveFile, Request
  <2> QED BY <1>1, <1>2, <2>1, Distances DEF Nearer
<1>7. CASE Insert(r) /\ ~Finish(r)
  <2>1. p.pc = "insert" /\ q.pc = "save" /\ q.left = p.left - 1
    BY <1>1, <1>7 DEF Insert, Request
  <2> QED BY <1>1, <1>2, <2>1, Distances DEF Nearer
<1>8. CASE InsertFails(r) \/ InsertUnanswered(r)
  <2>1. p.pc = "insert" /\ q.pc = "undo"
    BY <1>1, <1>8 DEF InsertFails, InsertUnanswered, Compensate, GoTo, Request
  <2> QED BY <1>1, <1>2, <2>1, Distances DEF Nearer
<1>9. CASE Find(r) /\ ~Finish(r)
  <2>1. p.pc = "find" /\ q.pc \in {"row", "read", "update"}
    BY <1>1, <1>2, <1>9 DEF Find, GoTo, AfterFind, Request
  <2> QED BY <1>1, <2>1, Distances DEF Nearer
<1>10. CASE DeleteRow(r) /\ ~Finish(r)
  <2>1. p.pc = "row" /\ q.pc = "object"
    BY <1>1, <1>10 DEF DeleteRow, GoTo, Request
  <2> QED BY <1>1, <2>1, Distances DEF Nearer
<1> QED BY <1>3, <1>4, <1>5, <1>6, <1>7, <1>8, <1>9, <1>10
        DEF Step, SaveFails, Undo, DeleteObject, StorageDeleteFails, ReadOrRename

LEMMA OthersNear ==
    ASSUME IInv, [Next]_vars, NEW r \in Reqs, req[r].pc # "idle", ~Step(r)
    PROVE  Nearer(r)
<1>1. CASE DeleteTask \/ UNCHANGED vars
  BY <1>1 DEF DeleteTask, vars, Nearer
<1>2. ASSUME NEW p \in Reqs,
             BeginCreate(p) \/ BeginUpload(p) \/ Begin(p) \/ Step(p) \/ Lost(p)
      PROVE  Nearer(r)
  <2>1. CASE p # r
    <3>1. req'[r] = req[r]
      BY <1>2, <2>1, OneRequest
    <3> QED BY <3>1 DEF Nearer
  <2>2. CASE p = r
    <3>2. Lost(r)
      BY <1>2, <2>2, BeginsOnly
    <3>3. req'[r] = Idle
      BY <3>2 DEF Lost, Finish, IInv, TypeOK
    <3> QED BY <3>3, FinishNears
  <2> QED BY <2>1, <2>2
<1> QED BY <1>1, <1>2 DEF Next

(* Whatever fails or overlaps, each await brings a request nearer to its   *)
(* answer, which is at most three and twice the number of its files away:  *)
(* no failure makes an upload or its compensation start again.             *)
EveryAwaitCounts ==
    [][\A r \in Reqs : req[r].pc # "idle" =>
         /\ Distance(req[r]) \in 1 .. 2 * MaxFiles + 3
         /\ req'[r] = req[r] \/ Distance(req'[r]) < Distance(req[r])]_vars

THEOREM RequestsGetAnswered == Spec => EveryAwaitCounts
<1> DEFINE A == \A r \in Reqs : req[r].pc # "idle" =>
                  /\ Distance(req[r]) \in 1 .. 2 * MaxFiles + 3
                  /\ req'[r] = req[r] \/ Distance(req'[r]) < Distance(req[r])
<1>1. ASSUME IInv, IInv', [Next]_vars, NEW r \in Reqs, req[r].pc # "idle"
      PROVE  /\ Distance(req[r]) \in 1 .. 2 * MaxFiles + 3
             /\ req'[r] = req[r] \/ Distance(req'[r]) < Distance(req[r])
  BY <1>1, InFlight, StepNears, OthersNear DEF Nearer
<1>2. IInv /\ IInv' /\ [Next]_vars => [A]_vars
  BY <1>1
<1>3. []IInv /\ [][Next]_vars => [][A]_vars
  BY <1>2, PTL
<1> QED BY <1>3, Inductive, PTL DEF Spec, EveryAwaitCounts
=============================================================================
