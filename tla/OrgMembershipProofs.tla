------------------------- MODULE OrgMembershipProofs -------------------------
(***************************************************************************)
(* Proofs about OrgMembership, for any number of users and requests: types,*)
(* NoMembersWithoutOrg, OnlyTheRowThatWasRead and AuthorityIsInherited,    *)
(* whatever overlaps; and, of requests that overlapped no other one, the   *)
(* two rules on OWNERs and all the rules of MembershipRules.               *)
(***************************************************************************)
EXTENDS OrgMembership, TLAPS

Lives == {"absent", "live", "deleted"}

(* A request past its first await knows whom it is about.                  *)
Aimed(q) == /\ q.pc # "idle" => q.actor \in Users /\ q.target \in Users
            /\ TargetRead(q)

IInv == /\ TypeOK
        /\ NoMembersWithoutOrg
        /\ \A r \in Reqs : Aimed(req[r])

-----------------------------------------------------------------------------
LEMMA IdleOK == Idle \in Request /\ Aimed(Idle)
BY DEF Idle, Request, Phases, NoRow, MemberRow, Aimed, TargetRead

(* A request replaced by a well-formed one leaves the others as they are.  *)
LEMMA Replace ==
    ASSUME IInv, NEW r \in Reqs, NEW q \in Request, Aimed(q),
           req' = [req EXCEPT ![r] = q]
    PROVE  /\ req' \in [Reqs -> Request]
           /\ \A p \in Reqs : Aimed(req'[p])
BY DEF IInv, TypeOK

LEMMA Quiet ==
    ASSUME IInv, overlapped' \subseteq Reqs,
           NEW r \in Reqs, NEW q \in Request, Aimed(q),
           req' = [req EXCEPT ![r] = q], UNCHANGED table
    PROVE  IInv'
<1>1. life' = life /\ member' = member /\ lastId' = lastId
  BY DEF table
<1>2. /\ req' \in [Reqs -> Request]
      /\ \A p \in Reqs : Aimed(req'[p])
  BY Replace
<1>3. TypeOK'
  BY <1>1, <1>2 DEF IInv, TypeOK, Aimed
<1>4. NoMembersWithoutOrg'
  BY <1>1 DEF IInv, NoMembersWithoutOrg, IsMember
<1> QED BY <1>2, <1>3, <1>4 DEF IInv

LEMMA Ended ==
    ASSUME IInv, overlapped' \subseteq Reqs,
           NEW r \in Reqs, Finish(r), UNCHANGED table
    PROVE  IInv'
BY IdleOK, Quiet DEF Finish

LEMMA Moved ==
    ASSUME IInv, overlapped' \subseteq Reqs, NEW r \in Reqs, NEW pc \in Phases,
           req[r].pc # "idle", pc \in {"save", "drop"} => req[r].row.role # None,
           pc # "owners", GoTo(r, pc), UNCHANGED table
    PROVE  IInv'
<1> DEFINE q == [req[r] EXCEPT !.pc = pc]
<1>1. req[r] \in Request /\ Aimed(req[r])
  BY DEF IInv, TypeOK
<1>2. q \in Request
  BY <1>1 DEF Request
<1>3. Aimed(q)
  BY <1>1 DEF Aimed, TargetRead, Request
<1>4. req' = [req EXCEPT ![r] = q]
  BY DEF GoTo, IInv, TypeOK
<1> QED BY <1>2, <1>3, <1>4, Quiet

-----------------------------------------------------------------------------
(* The steps that leave the table alone                                    *)

LEMMA BeginStep ==
    ASSUME IInv, overlapped' \subseteq Reqs, NEW r \in Reqs, BeginCreate(r) \/ Begin(r)
    PROVE  IInv'
<1>1. CASE BeginCreate(r)
  <2>1. PICK u \in Users :
          req' = [req EXCEPT ![r] = [Idle EXCEPT !.pc = "organization",
                                                 !.op = "create", !.actor = u,
                                                 !.target = u, !.role = "OWNER"]]
    BY <1>1 DEF BeginCreate
  <2> DEFINE q == [Idle EXCEPT !.pc = "organization", !.op = "create", !.actor = u,
                               !.target = u, !.role = "OWNER"]
  <2>2. q \in Request /\ Aimed(q)
    BY IdleOK DEF Idle, Request, Phases, Ops, Roles, Aimed, TargetRead
  <2> QED BY <1>1, <2>1, <2>2, Quiet DEF BeginCreate
<1>2. CASE Begin(r)
  <2>1. PICK op \in Ops \ {"create"}, a \in Users, t \in Users, role \in GivenRoles :
          req' = [req EXCEPT ![r] =
            [Idle EXCEPT !.pc = "authorize", !.op = op, !.actor = a,
               !.target = IF op = "delete" THEN a ELSE t,
               !.role = IF op \in {"add", "role"} THEN role ELSE None]]
    BY <1>2 DEF Begin
  <2> DEFINE target == IF op = "delete" THEN a ELSE t
             given == IF op \in {"add", "role"} THEN role ELSE None
             q == [Idle EXCEPT !.pc = "authorize", !.op = op, !.actor = a,
                               !.target = target, !.role = given]
  <2>2. target \in Users /\ given \in Roles \cup {None}
    BY RoleAssumption
  <2> HIDE DEF target, given
  <2>3. q \in Request /\ Aimed(q)
    BY <2>2, IdleOK DEF Idle, Request, Phases, Ops, Aimed, TargetRead
  <2>4. req' = [req EXCEPT ![r] = q]
    BY <2>1 DEF target, given
  <2> QED BY <1>2, <2>3, <2>4, Quiet DEF Begin
<1> QED BY <1>1, <1>2

LEMMA ReadStep ==
    ASSUME IInv, overlapped' \subseteq Reqs, NEW r \in Reqs,
           \/ Authorize(r) \/ FindOrganization(r) \/ ReadActor(r)
           \/ ReadExisting(r) \/ InsertRefused(r) \/ ListOwners(r)
           \/ ReadTargetForRole(r) \/ ReadTargetForRemoval(r) \/ Lost(r)
    PROVE  IInv'
<1>1. req[r] \in Request /\ Aimed(req[r]) /\ req[r].pc # "idle"
  BY DEF IInv, TypeOK, Authorize, FindOrganization, ReadActor, ReadExisting,
         InsertRefused, ListOwners, ReadTargetForRole, ReadTargetForRemoval, Lost
<1>2. UNCHANGED table
  BY DEF Authorize, FindOrganization, ReadActor, ReadExisting,
         InsertRefused, ListOwners, ReadTargetForRole, ReadTargetForRemoval, Lost
<1>3. CASE Finish(r)
  BY <1>2, <1>3, Ended
<1>4. CASE \E pc \in {"find", "actor", "insert", "save", "drop"} :
             GoTo(r, pc) /\ (pc \in {"save", "drop"} => req[r].pc = "owners")
  <2>1. PICK pc \in {"find", "actor", "insert", "save", "drop"} :
          GoTo(r, pc) /\ (pc \in {"save", "drop"} => req[r].pc = "owners")
    BY <1>4
  <2>2. pc \in Phases /\ (pc \in {"save", "drop"} => req[r].row.role # None)
    BY <1>1, <2>1 DEF Phases, Aimed, TargetRead
  <2> QED BY <1>1, <1>2, <2>1, <2>2, Moved
<1>5. CASE /\ ActorAllowed(req[r])
           /\ req' = [req EXCEPT ![r].pc = AfterActor(req[r].op),
                                 ![r].actorRole = member[req[r].actor].role]
  <2> DEFINE q == [req[r] EXCEPT !.pc = AfterActor(req[r].op),
                                 !.actorRole = member[req[r].actor].role]
  <2>1. AfterActor(req[r].op) \in {"existing", "target", "cascade"}
    BY DEF AfterActor
  <2>2. member[req[r].actor].role \in Roles \cup {None}
    BY <1>1 DEF Aimed, IInv, TypeOK, MemberRow
  <2>3. q \in Request /\ Aimed(q)
    BY <1>1, <2>1, <2>2 DEF Request, Phases, Aimed, TargetRead
  <2>4. req' = [req EXCEPT ![r] = q]
    BY <1>5 DEF IInv, TypeOK
  <2> QED BY <1>2, <2>3, <2>4, Quiet
<1>6. CASE /\ ~TargetMissing(member[req[r].target])
           /\ \E pc \in {"owners", "save", "drop"} :
                req' = [req EXCEPT ![r].row = member[req[r].target], ![r].pc = pc]
  <2>1. PICK pc \in {"owners", "save", "drop"} :
          req' = [req EXCEPT ![r].row = member[req[r].target], ![r].pc = pc]
    BY <1>6
  <2> DEFINE q == [req[r] EXCEPT !.row = member[req[r].target], !.pc = pc]
  <2>2. member[req[r].target] \in MemberRow
    BY <1>1 DEF Aimed, IInv, TypeOK
  <2>3. q \in Request /\ Aimed(q)
    BY <1>1, <1>6, <2>2 DEF Request, Phases, Aimed, TargetRead, TargetMissing
  <2>4. req' = [req EXCEPT ![r] = q]
    BY <2>1 DEF IInv, TypeOK
  <2> QED BY <1>2, <2>3, <2>4, Quiet
<1>7. CASE Authorize(r) \/ FindOrganization(r) \/ ReadExisting(r)
  BY <1>3, <1>4, <1>7 DEF Authorize, FindOrganization, ReadExisting
<1>8. CASE ReadActor(r)
  BY <1>3, <1>5, <1>8 DEF ReadActor
<1>9. CASE InsertRefused(r) \/ Lost(r)
  BY <1>3, <1>9 DEF InsertRefused, Lost
<1>10. CASE ListOwners(r)
  BY <1>3, <1>4, <1>10 DEF ListOwners
<1>11. CASE ReadTargetForRole(r)
  BY <1>3, <1>6, <1>11 DEF ReadTargetForRole
<1>12. CASE ReadTargetForRemoval(r)
  BY <1>3, <1>6, <1>12 DEF ReadTargetForRemoval
<1> QED BY <1>7, <1>8, <1>9, <1>10, <1>11, <1>12

(* The steps that write                                                    *)

LEMMA WriteStep ==
    ASSUME IInv, overlapped' \subseteq Reqs, NEW r \in Reqs,
           \/ InsertOrganization(r) \/ InsertMember(r) \/ SaveRole(r)
           \/ DropMember(r) \/ DeleteOrganization(r)
    PROVE  IInv'
<1>1. req[r] \in Request /\ Aimed(req[r]) /\ req[r].pc # "idle"
  BY DEF IInv, TypeOK, InsertOrganization, InsertMember, SaveRole, DropMember,
         DeleteOrganization
<1>2. req[r].target \in Users /\ req[r].role \in Roles \cup {None}
  BY <1>1 DEF Aimed, Request
<1>3. PICK q \in Request : Aimed(q) /\ req' = [req EXCEPT ![r] = q]
  <2>1. CASE InsertOrganization(r)
    <3> DEFINE q == [req[r] EXCEPT !.pc = "owner"]
    <3>1. q \in Request /\ Aimed(q)
      BY <1>1 DEF Request, Phases, Aimed, TargetRead
    <3>2. req' = [req EXCEPT ![r] = q]
      BY <2>1 DEF InsertOrganization, GoTo, IInv, TypeOK
    <3> QED BY <3>1, <3>2
  <2>2. CASE Finish(r)
    BY <2>2, IdleOK DEF Finish
  <2> QED BY <2>1, <2>2 DEF InsertMember, SaveRole, DropMember, DeleteOrganization
<1>4. /\ req' \in [Reqs -> Request]
      /\ \A p \in Reqs : Aimed(req'[p])
  BY <1>3, Replace
<1>5. life' \in Lives /\ member' \in [Users -> MemberRow] /\ lastId' \in Nat
  <2>1. CASE InsertOrganization(r)
    BY <2>1 DEF InsertOrganization, IInv, TypeOK, Lives
  <2>2. CASE InsertMember(r)
    BY <2>2, <1>2 DEF InsertMember, IInv, TypeOK, Lives, MemberRow
  <2>3. CASE SaveRole(r)
    BY <2>3, <1>2 DEF SaveRole, IInv, TypeOK, Lives, MemberRow
  <2>4. CASE DropMember(r)
    BY <2>4, <1>2 DEF DropMember, IInv, TypeOK, Lives, MemberRow, NoRow
  <2>5. CASE DeleteOrganization(r)
    BY <2>5 DEF DeleteOrganization, IInv, TypeOK, Lives, MemberRow, NoRow
  <2> QED BY <2>1, <2>2, <2>3, <2>4, <2>5
<1>6. NoMembersWithoutOrg'
  <2>1. CASE InsertOrganization(r)
    BY <2>1 DEF InsertOrganization, NoMembersWithoutOrg
  <2>2. CASE InsertMember(r)
    BY <2>2 DEF InsertMember, CanInsert, NoMembersWithoutOrg
  <2>3. CASE SaveRole(r)
    <3>1. IsMember(req[r].target) => life = "live"
      BY <1>2 DEF IInv, NoMembersWithoutOrg
    <3> QED BY <2>3, <3>1 DEF SaveRole, StillThere, IInv, NoMembersWithoutOrg, IsMember
  <2>4. CASE DropMember(r)
    BY <2>4, <1>2 DEF DropMember, NoRow, IInv, TypeOK, NoMembersWithoutOrg, IsMember
  <2>5. CASE DeleteOrganization(r)
    BY <2>5 DEF DeleteOrganization, NoRow, NoMembersWithoutOrg, IsMember
  <2> QED BY <2>1, <2>2, <2>3, <2>4, <2>5
<1> QED BY <1>4, <1>5, <1>6 DEF IInv, TypeOK, Lives, Aimed

-----------------------------------------------------------------------------
LEMMA StepInductive == IInv /\ [Next]_vars => IInv'
<1> SUFFICES ASSUME IInv, [Next]_vars PROVE IInv'
  OBVIOUS
<1>1. ASSUME NEW r \in Reqs, BeginCreate(r) \/ Begin(r), Joins(r) PROVE IInv'
  <2>1. overlapped' \subseteq Reqs
    BY <1>1 DEF Joins, InFlight, IInv, TypeOK
  <2> QED BY <1>1, <2>1, BeginStep
<1>2. ASSUME NEW r \in Reqs, Step(r) \/ Lost(r), UNCHANGED overlapped PROVE IInv'
  <2>1. overlapped' \subseteq Reqs
    BY <1>2 DEF IInv, TypeOK
  <2> QED BY <1>2, <2>1, ReadStep, WriteStep DEF Step
<1>3. CASE UNCHANGED vars
  BY <1>3 DEF vars, IInv, TypeOK, NoMembersWithoutOrg, IsMember
<1> QED BY <1>1, <1>2, <1>3 DEF Next

LEMMA Inductive == Spec => []IInv
<1>1. Init => IInv
  <2> SUFFICES ASSUME Init PROVE IInv
    OBVIOUS
  <2>1. TypeOK
    BY IdleOK DEF Init, TypeOK, NoRow, MemberRow, Aimed
  <2>2. NoMembersWithoutOrg
    BY DEF Init, NoRow, NoMembersWithoutOrg, IsMember
  <2> QED BY <2>1, <2>2, IdleOK DEF Init, IInv
<1> QED BY <1>1, StepInductive, PTL DEF Spec

(* Every reachable state is typed, for every value of the constants.       *)
THEOREM TypeCorrect == Spec => []TypeOK
<1>1. IInv => TypeOK
  BY DEF IInv
<1> QED BY <1>1, Inductive, PTL

(* However requests overlap, no membership survives its organization.      *)
THEOREM MembersHaveOrg == Spec => []NoMembersWithoutOrg
<1>1. IInv => NoMembersWithoutOrg
  BY DEF IInv
<1> QED BY <1>1, Inductive, PTL

(* However long a request waited, what it saves or removes is the row it   *)
(* read, never the same user's later membership.                           *)
THEOREM WritesWhatWasRead == Spec => OnlyTheRowThatWasRead
<1> DEFINE A == \A r \in Reqs : Writes(r) =>
                 \A u \in Users : member'[u] # member[u] =>
                            u = req[r].target /\ member[u].id = req[r].row.id
<1>1. IInv /\ [Next]_vars => [A]_vars
  <2> SUFFICES ASSUME IInv, [Next]_vars, NEW r \in Reqs,
                      req[r].pc \in {"save", "drop"}, req'[r] = Idle,
                      NEW u \in Users, member'[u] # member[u]
               PROVE  u = req[r].target /\ member[u].id = req[r].row.id
    BY DEF Writes
  <2>1. req'[r] # req[r]
    BY DEF Idle
  <2>2. PICK p \in Reqs : BeginCreate(p) \/ Begin(p) \/ Step(p) \/ Lost(p)
    BY <2>1 DEF Next, vars
  <2>3. p = r
    <3>1. PICK q : req' = [req EXCEPT ![p] = q]
      <4>1. req \in [Reqs -> Request]
        BY DEF IInv, TypeOK
      <4>2. CASE Finish(p)
        BY <4>2 DEF Finish
      <4>3. ASSUME NEW pc, GoTo(p, pc)
            PROVE  \E x : req' = [req EXCEPT ![p] = x]
        BY <4>1, <4>3 DEF GoTo
      <4> QED BY <2>2, <4>1, <4>2, <4>3
           DEF BeginCreate, Begin, Step, InsertOrganization, Authorize,
               FindOrganization, ReadActor, ReadExisting, InsertRefused,
               InsertMember, ReadTargetForRole, ReadTargetForRemoval, ListOwners,
               SaveRole, DropMember, DeleteOrganization, Lost
    <3> QED BY <2>1, <3>1 DEF IInv, TypeOK
  <2>4. member' # member
    OBVIOUS
  <2>5. SaveRole(r) \/ DropMember(r)
    BY <2>2, <2>3, <2>4
       DEF BeginCreate, Begin, Step, InsertOrganization, Authorize,
           FindOrganization, ReadActor, ReadExisting, InsertRefused,
           InsertMember, ReadTargetForRole, ReadTargetForRemoval, ListOwners,
           DeleteOrganization, Lost, table
  <2> QED BY <2>5 DEF SaveRole, DropMember, StillThere, IInv, TypeOK
<1>2. [][Next]_vars /\ []IInv => [][A]_vars
  BY <1>1, PTL
<1> QED BY <1>2, Inductive, PTL DEF Spec, OnlyTheRowThatWasRead

-----------------------------------------------------------------------------
(***************************************************************************)
(* A request that no other one overlapped.  What it read of its target is  *)
(* then still what the table holds, past the count of the owners another   *)
(* OWNER than the target is still there, and it demotes an OWNER with the  *)
(* role of another one.                                                    *)
(***************************************************************************)
Fresh(q) ==
    /\ q.pc \in {"owners", "save", "drop"} => member[q.target] = q.row
    /\ q.pc \in {"save", "drop"} /\ q.row.role = "OWNER" =>
         \E u \in Owners : u # q.target
    /\ (q.pc = "save" \/ (q.pc = "owners" /\ q.op = "role")) /\ Demotes(q, q.row) =>
         q.actorRole = "OWNER" /\ ~IsSelf(q)

AloneInv ==
    \A r \in Reqs \ overlapped :
      /\ Fresh(req[r])
      /\ req[r].pc # "idle" => \A p \in Reqs \ {r} : req[p].pc = "idle"

(* A request that is answered, or that begins, holds nothing to be stale.  *)
LEMMA FreshAgain ==
    ASSUME NEW r \in Reqs, req' \in [Reqs -> Request],
           req'[r].pc \notin {"owners", "save", "drop"}
    PROVE  Fresh(req[r])'
BY DEF Fresh

LEMMA FreshStep ==
    ASSUME IInv, IInv', NEW r \in Reqs, Fresh(req[r]), Step(r) \/ Lost(r)
    PROVE  Fresh(req[r])'
<1>1. /\ req \in [Reqs -> Request] /\ req' \in [Reqs -> Request]
      /\ member \in [Users -> MemberRow] /\ Aimed(req[r])
  BY DEF IInv, TypeOK
<1>2. CASE \/ InsertOrganization(r) \/ Authorize(r) \/ FindOrganization(r)
           \/ ReadExisting(r)
  <2>1. req'[r].pc \in {"owner", "find", "actor", "insert", "idle"}
    BY <1>1, <1>2 DEF InsertOrganization, Authorize, FindOrganization,
       ReadExisting, GoTo, Finish, Idle, Request
  <2> QED BY <1>1, <2>1, FreshAgain
<1>3. CASE ReadActor(r)
  <2>1. req'[r].pc \in {"existing", "cascade", "target", "idle"}
    BY <1>1, <1>3 DEF ReadActor, AfterActor, Finish, Idle, Request
  <2> QED BY <1>1, <2>1, FreshAgain
<1>4. CASE Finish(r)
  <2>1. req'[r].pc = "idle"
    BY <1>1, <1>4 DEF Finish, Idle
  <2> QED BY <1>1, <2>1, FreshAgain
<1>5. CASE ReadTargetForRole(r)
  <2>1. CASE Finish(r)
    BY <1>4, <2>1
  <2>2. CASE ~Finish(r)
    <3>1. /\ ~(Demotes(req[r], member[req[r].target])
                 /\ (req[r].actorRole # "OWNER" \/ IsSelf(req[r])))
          /\ req[r].role # member[req[r].target].role
          /\ req' = [req EXCEPT ![r].row = member[req[r].target],
               ![r].pc = IF Demotes(req[r], member[req[r].target])
                           THEN "owners" ELSE "save"]
      BY <1>5, <2>2 DEF ReadTargetForRole
    <3>2. /\ req'[r].target = req[r].target /\ req'[r].role = req[r].role
          /\ req'[r].actor = req[r].actor /\ req'[r].actorRole = req[r].actorRole
          /\ req'[r].row = member[req[r].target]
          /\ req'[r].pc = "save" => req'[r].row.role # "OWNER"
          /\ req'[r].pc \in {"save", "owners"}
      BY <1>1, <3>1 DEF Demotes, Request
    <3>3. member' = member
      BY <1>5 DEF ReadTargetForRole, table
    <3> QED BY <3>1, <3>2, <3>3 DEF Fresh, Demotes, IsSelf
  <2> QED BY <2>1, <2>2
<1>6. CASE ReadTargetForRemoval(r)
  <2>1. CASE Finish(r)
    BY <1>4, <2>1
  <2>2. CASE req' = [req EXCEPT ![r].row = member[req[r].target],
                  ![r].pc = IF member[req[r].target].role = "OWNER"
                              THEN "owners" ELSE "drop"]
    <3>1. /\ req'[r].target = req[r].target /\ req'[r].op = "remove"
          /\ req'[r].row = member[req[r].target]
          /\ req'[r].pc = "drop" => req'[r].row.role # "OWNER"
          /\ req'[r].pc \in {"drop", "owners"}
      BY <1>1, <1>6, <2>2 DEF ReadTargetForRemoval, Request
    <3>2. member' = member
      BY <1>6 DEF ReadTargetForRemoval, table
    <3> QED BY <3>1, <3>2 DEF Fresh
  <2> QED BY <1>6, <2>1, <2>2 DEF ReadTargetForRemoval
<1>7. CASE ListOwners(r)
  <2>1. CASE Finish(r)
    BY <1>4, <2>1
  <2>2. CASE /\ ~AtMostOne(Owners)
             /\ GoTo(r, IF req[r].op = "role" THEN "save" ELSE "drop")
    <3>1. \E u \in Owners : u # req[r].target
      BY <2>2 DEF AtMostOne
    <3>2. /\ req'[r].target = req[r].target /\ req'[r].row = req[r].row
          /\ req'[r].role = req[r].role /\ req'[r].actor = req[r].actor
          /\ req'[r].actorRole = req[r].actorRole
          /\ req'[r].pc \in {"save", "drop"} /\ (req'[r].pc = "save" => req[r].op = "role")
      BY <1>1, <2>2 DEF GoTo, Request
    <3>3. member' = member /\ req[r].pc = "owners"
      BY <1>7 DEF ListOwners, table
    <3>4. Owners' = Owners
      BY <3>3 DEF Owners
    <3> QED BY <3>1, <3>2, <3>3, <3>4 DEF Fresh, Demotes, IsSelf
  <2> QED BY <1>7, <2>1, <2>2 DEF ListOwners
<1> QED BY <1>2, <1>3, <1>4, <1>5, <1>6, <1>7
     DEF Step, InsertRefused, InsertMember, SaveRole, DropMember,
         DeleteOrganization, Lost

(* Only the request that acts changes, and it is idle only to begin.       *)
LEMMA OneActs ==
    ASSUME IInv, NEW r \in Reqs, BeginCreate(r) \/ Begin(r) \/ Step(r) \/ Lost(r)
    PROVE  /\ \A p \in Reqs \ {r} : req'[p] = req[p]
           /\ Step(r) \/ Lost(r) => req[r].pc # "idle"
<1>1. req \in [Reqs -> Request]
  BY DEF IInv, TypeOK
<1>2. PICK q : req' = [req EXCEPT ![r] = q]
  <2>1. CASE Finish(r)
    BY <2>1 DEF Finish
  <2>2. ASSUME NEW pc, GoTo(r, pc)
        PROVE  \E x : req' = [req EXCEPT ![r] = x]
    BY <1>1, <2>2 DEF GoTo
  <2> QED BY <1>1, <2>1, <2>2
       DEF BeginCreate, Begin, Step, InsertOrganization, Authorize,
           FindOrganization, ReadActor, ReadExisting, InsertRefused,
           InsertMember, ReadTargetForRole, ReadTargetForRemoval, ListOwners,
           SaveRole, DropMember, DeleteOrganization, Lost
<1>3. Step(r) \/ Lost(r) => req[r].pc # "idle"
  BY DEF Step, InsertOrganization, Authorize, FindOrganization, ReadActor,
     ReadExisting, InsertRefused, InsertMember, ReadTargetForRole,
     ReadTargetForRemoval, ListOwners, SaveRole, DropMember, DeleteOrganization, Lost
<1> QED BY <1>1, <1>2, <1>3

LEMMA AloneStep ==
    ASSUME IInv, AloneInv, [Next]_vars
    PROVE  AloneInv'
<1>1. IInv'
  BY StepInductive
<1>2. req \in [Reqs -> Request] /\ req' \in [Reqs -> Request]
  BY <1>1 DEF IInv, TypeOK
<1>3. CASE UNCHANGED vars
  BY <1>3 DEF vars, AloneInv, Fresh, Owners
<1>4. ASSUME NEW r \in Reqs, BeginCreate(r) \/ Begin(r), Joins(r)
      PROVE  AloneInv'
  <2>1. req[r].pc = "idle" /\ req'[r].pc \in {"organization", "authorize"}
    BY <1>2, <1>4 DEF BeginCreate, Begin, Idle
  <2>2. \A p \in Reqs \ {r} : req'[p] = req[p]
    BY <1>4, OneActs
  <2> SUFFICES ASSUME NEW p \in Reqs \ overlapped'
               PROVE  /\ Fresh(req[p])'
                      /\ req'[p].pc # "idle" => \A s \in Reqs \ {p} : req'[s].pc = "idle"
    BY DEF AloneInv
  <2>3. CASE p = r
    <3>1. InFlight \ {r} = {}
      BY <1>4, <2>3 DEF Joins
    <3>2. \A s \in Reqs \ {r} : req'[s].pc = "idle"
      BY <2>2, <3>1 DEF InFlight
    <3> QED BY <1>2, <2>1, <2>3, <3>2, FreshAgain
  <2>4. CASE p # r
    <3>1. req'[p].pc = "idle"
      BY <1>4, <2>2, <2>4 DEF Joins, InFlight
    <3> QED BY <1>2, <3>1, FreshAgain
  <2> QED BY <2>3, <2>4
<1>5. ASSUME NEW r \in Reqs, Step(r) \/ Lost(r), UNCHANGED overlapped
      PROVE  AloneInv'
  <2>1. req[r].pc # "idle" /\ \A p \in Reqs \ {r} : req'[p] = req[p]
    BY <1>5, OneActs
  <2> SUFFICES ASSUME NEW p \in Reqs \ overlapped
               PROVE  /\ Fresh(req[p])'
                      /\ req'[p].pc # "idle" => \A s \in Reqs \ {p} : req'[s].pc = "idle"
    BY <1>5 DEF AloneInv
  <2>2. CASE p = r
    BY <1>1, <1>5, <2>1, <2>2, FreshStep DEF AloneInv
  <2>3. CASE p # r
    <3>1. req'[p].pc = "idle"
      BY <2>1, <2>3 DEF AloneInv
    <3> QED BY <1>2, <3>1, FreshAgain
  <2> QED BY <2>2, <2>3
<1> QED BY <1>3, <1>4, <1>5 DEF Next

LEMMA Alone == Spec => []AloneInv
<1>1. Init => AloneInv
  BY DEF Init, AloneInv, Fresh, Idle
<1>2. IInv /\ AloneInv /\ [Next]_vars => AloneInv'
  BY AloneStep
<1> QED BY <1>1, <1>2, Inductive, PTL DEF Spec

(* The role of a member falls, or the row goes, by one of three steps.     *)
LEMMA RoleLost ==
    ASSUME IInv, [Next]_vars, NEW u \in Users, member'[u] # member[u], IsMember(u)
    PROVE  \/ \E r \in Reqs : DeleteOrganization(r)
           \/ \E r \in Reqs : /\ SaveRole(r) \/ DropMember(r)
                              /\ Writes(r) /\ req[r].target = u
<1>1. member \in [Users -> MemberRow] /\ req \in [Reqs -> Request]
  BY DEF IInv, TypeOK
<1>2. PICK r \in Reqs : \/ InsertMember(r) \/ SaveRole(r) \/ DropMember(r)
                        \/ DeleteOrganization(r)
  BY DEF Next, vars, BeginCreate, Begin, Step, InsertOrganization, Authorize,
     FindOrganization, ReadActor, ReadExisting, InsertRefused,
     ReadTargetForRole, ReadTargetForRemoval, ListOwners, Lost, table
<1>3. CASE InsertMember(r)
  BY <1>1, <1>3 DEF InsertMember, CanInsert
<1>4. CASE SaveRole(r) \/ DropMember(r)
  <2>1. Writes(r)
    BY <1>1, <1>4 DEF SaveRole, DropMember, Writes, Finish
  <2>2. req[r].target = u
    BY <1>1, <1>4 DEF SaveRole, DropMember
  <2> QED BY <1>4, <2>1, <2>2
<1> QED BY <1>2, <1>3, <1>4

(* "An organization must keep at least one OWNER", for any number of users *)
(* and requests: only a removal or demotion that another request overlapped*)
(* takes the last OWNER away.  The run members_last_owner shows one.       *)
THEOREM OwnerRemains == Spec => OnlyOverlapsEndOwnership
<1> DEFINE A == Owners # {} /\ Owners' = {} =>
                  life' = "deleted" \/ \E r \in overlapped : Writes(r)
<1>1. IInv /\ AloneInv /\ [Next]_vars => [A]_vars
  <2> SUFFICES ASSUME IInv, AloneInv, [Next]_vars, Owners # {}, Owners' = {},
                      life' # "deleted"
               PROVE  \E r \in overlapped : Writes(r)
    OBVIOUS
  <2>1. PICK u \in Owners : TRUE
    OBVIOUS
  <2>2. ASSUME NEW v \in Owners
        PROVE  \E r \in Reqs : /\ SaveRole(r) \/ DropMember(r)
                               /\ Writes(r) /\ req[r].target = v
    <3>1. v \in Users /\ IsMember(v) /\ member'[v] # member[v]
      BY RoleAssumption DEF Owners, IsMember, Roles
    <3>2. ~ \E r \in Reqs : DeleteOrganization(r)
      BY DEF DeleteOrganization
    <3> QED BY <3>1, <3>2, RoleLost
  <2>3. PICK r \in Reqs : /\ SaveRole(r) \/ DropMember(r)
                          /\ Writes(r) /\ req[r].target = u
    BY <2>2
  <2>4. ASSUME r \notin overlapped PROVE FALSE
    <3>1. Fresh(req[r]) /\ req[r].pc \in {"save", "drop"}
      BY <2>3, <2>4 DEF AloneInv, Writes
    <3>2. req[r].row.role = "OWNER"
      BY <2>3, <3>1 DEF Fresh, Owners
    <3>3. PICK v \in Owners : v # u
      BY <2>3, <3>1, <3>2 DEF Fresh
    <3>4. member'[v] = member[v]
      BY <2>3, <3>3 DEF SaveRole, DropMember, IInv, TypeOK, Owners
    <3> QED BY <3>4 DEF Owners
  <2> QED BY <2>3, <2>4
<1> QED BY <1>1, Inductive, Alone, PTL DEF Spec, OnlyOverlapsEndOwnership

(* "Only an OWNER can demote another OWNER", whatever has happened, as far *)
(* as the request that does it overlapped no other one.                    *)
THEOREM OwnersDemoteOwners == Spec => OnlyOwnersDemoteOwners
<1> DEFINE A == \A u \in Users :
                  member[u].role = "OWNER" /\ member'[u].role \in Roles \ {"OWNER"} =>
                    \E r \in Reqs :
                      /\ Writes(r)
                      /\ r \in overlapped \/ (req[r].actorRole = "OWNER" /\ req[r].actor # u)
<1>1. IInv /\ AloneInv /\ [Next]_vars => [A]_vars
  <2> SUFFICES ASSUME IInv, AloneInv, [Next]_vars, NEW u \in Users,
                      member[u].role = "OWNER", member'[u].role \in Roles \ {"OWNER"}
               PROVE  \E r \in Reqs :
                        /\ Writes(r)
                        /\ r \in overlapped \/ (req[r].actorRole = "OWNER" /\ req[r].actor # u)
    OBVIOUS
  <2>1. ~ \E r \in Reqs : DeleteOrganization(r)
    BY RoleAssumption DEF DeleteOrganization, NoRow
  <2>2. PICK r \in Reqs : /\ SaveRole(r) \/ DropMember(r)
                          /\ Writes(r) /\ req[r].target = u
    BY <2>1, RoleLost, RoleAssumption DEF IsMember, Roles
  <2>3. SaveRole(r) /\ req[r].role # "OWNER"
    BY <2>2, RoleAssumption DEF SaveRole, DropMember, NoRow, IInv, TypeOK, MemberRow
  <2>4. CASE r \notin overlapped
    <3>1. Fresh(req[r]) /\ req[r].pc = "save"
      BY <2>3, <2>4 DEF AloneInv, SaveRole
    <3>2. Demotes(req[r], req[r].row)
      BY <2>2, <2>3, <3>1 DEF Fresh, Demotes
    <3> QED BY <2>2, <3>1, <3>2 DEF Fresh, IsSelf
  <2> QED BY <2>2, <2>4
<1> QED BY <1>1, Inductive, Alone, PTL DEF Spec, OnlyOwnersDemoteOwners
-----------------------------------------------------------------------------
Powers == {"ADMIN", "OWNER"}

(* Past its read of the actor.                                             *)
Past == {"existing", "insert", "target", "owners", "save", "drop", "cascade"}

(* What a request was granted, by the roles it has read.                   *)
Granted(q) ==
    /\ q.pc # "idle" => q.op \in Ops
    /\ q.pc # "idle" => (q.pc \in {"organization", "owner"} <=> q.op = "create")
    /\ q.pc # "idle" /\ q.op = "create" => q.role = "OWNER" /\ q.target = q.actor
    /\ q.pc # "idle" /\ q.op \in {"add", "role"} => q.role \in GivenRoles
    /\ q.pc \in {"existing", "insert"} => q.op = "add"
    /\ q.pc \in {"target", "owners"} => q.op \in {"role", "remove"}
    /\ q.pc = "save" => q.op = "role"
    /\ q.pc = "drop" => q.op = "remove"
    /\ q.pc = "cascade" => q.op = "delete"
    /\ q.pc \in Past => /\ q.actorRole \in Roles
                        /\ HasMinimumRole(q.actorRole, MinRole(q.op))
    /\ q.pc \in {"owners", "save"} /\ q.op = "role" => q.row.role \notin {None, q.role}
    /\ q.pc \in {"owners", "drop"} /\ q.op = "remove" =>
         q.row.role # None /\ MayRemove(q)

GrantedInv == \A r \in Reqs : Granted(req[r])

LEMMA IdleGranted == Granted(Idle)
BY DEF Idle, Granted, Past

LEMMA OnlyPc ==
    ASSUME NEW q \in Request, NEW pc
    PROVE  /\ [q EXCEPT !.pc = pc].pc = pc
           /\ [q EXCEPT !.pc = pc].op = q.op
           /\ [q EXCEPT !.pc = pc].actor = q.actor
           /\ [q EXCEPT !.pc = pc].target = q.target
           /\ [q EXCEPT !.pc = pc].role = q.role
           /\ [q EXCEPT !.pc = pc].actorRole = q.actorRole
           /\ [q EXCEPT !.pc = pc].row = q.row
BY DEF Request

(* From one await to the next.                                             *)
GoesOn(q, pc) ==
    \/ pc \in {"find", "actor"} /\ q.pc \in {"authorize", "find"} /\ (pc = "find" => q.op = "add")
    \/ pc = "owner" /\ q.pc = "organization"
    \/ pc = "insert" /\ q.pc = "existing"
    \/ pc = "save" /\ q.pc = "owners" /\ q.op = "role"
    \/ pc = "drop" /\ q.pc = "owners" /\ q.op # "role"

(* The next await asks for nothing that was not granted before.            *)
LEMMA GrantedOn ==
    ASSUME NEW q \in Request, Granted(q), NEW pc,
           GoesOn(q, pc)
    PROVE  Granted([q EXCEPT !.pc = pc])
<1> DEFINE next == [q EXCEPT !.pc = pc]
<1>1. /\ next.pc = pc /\ next.op = q.op /\ next.role = q.role /\ next.row = q.row
      /\ next.actorRole = q.actorRole /\ next.actor = q.actor /\ next.target = q.target
  BY OnlyPc
<1> HIDE DEF next
<1>2. Granted(next)
  BY <1>1 DEF GoesOn, Granted, Past, IsSelf, MayRemove
<1> QED BY <1>2 DEF next

LEMMA GrantedBegin ==
    ASSUME IInv, NEW p \in Reqs, BeginCreate(p) \/ Begin(p)
    PROVE  Granted(req'[p])
<1>1. req \in [Reqs -> Request]
  BY DEF IInv, TypeOK
<1>2. CASE BeginCreate(p)
  <2> DEFINE Created(u) == [Idle EXCEPT !.pc = "organization", !.op = "create",
                              !.actor = u, !.target = u, !.role = "OWNER"]
  <2>0. PICK u \in Users : req'[p] = Created(u)
    BY <1>1, <1>2 DEF BeginCreate
  <2>1. /\ req'[p].pc = "organization" /\ req'[p].op = "create"
        /\ req'[p].role = "OWNER" /\ req'[p].target = req'[p].actor
    BY <2>0 DEF Idle
  <2> QED BY <2>1 DEF Granted, Past, Ops
<1>3. CASE Begin(p)
  <2>1. PICK op \in Ops \ {"create"}, a \in Users, t \in Users, role \in GivenRoles :
          req' = [req EXCEPT ![p] =
            [Idle EXCEPT !.pc = "authorize", !.op = op, !.actor = a,
               !.target = IF op = "delete" THEN a ELSE t,
               !.role = IF op \in {"add", "role"} THEN role ELSE None]]
    BY <1>3 DEF Begin
  <2>2. /\ req'[p].pc = "authorize" /\ req'[p].op = op
        /\ op \in {"add", "role"} => req'[p].role = role
    BY <1>1, <2>1 DEF Idle
  <2> QED BY <2>2 DEF Granted, Past
<1> QED BY <1>2, <1>3

(* The use case has read its actor again.                                  *)
LEMMA GrantedActor ==
    ASSUME IInv, NEW p \in Reqs, Granted(req[p]), ReadActor(p), ActorAllowed(req[p])
    PROVE  /\ Granted(req'[p])
           /\ req'[p].pc \in Past
           /\ req'[p].actor = req[p].actor
           /\ req'[p].actorRole = member[req[p].actor].role
<1>1. req[p] \in Request /\ req[p].pc = "actor" /\ req[p].op \in Ops \ {"create"}
  BY DEF IInv, TypeOK, ReadActor, Granted
<1> DEFINE pc == AfterActor(req[p].op)
           role == member[req[p].actor].role
<1>2. req' = [req EXCEPT ![p].pc = pc, ![p].actorRole = role]
  BY DEF ReadActor
<1>3. role \in Roles
  <2>1. req[p].actor \in Users
    BY DEF ReadActor, IInv, Aimed
  <2>2. role \in Roles \cup {None}
    BY <2>1 DEF IInv, TypeOK, MemberRow
  <2> QED BY <2>2 DEF ActorAllowed, IsMember
<1>4. HasMinimumRole(role, MinRole(req[p].op))
  BY DEF ActorAllowed
<1>5. /\ pc \in {"existing", "target", "cascade"}
      /\ pc = "existing" => req[p].op = "add"
      /\ pc = "cascade" => req[p].op = "delete"
      /\ pc = "target" => req[p].op \in {"role", "remove"}
  BY <1>1 DEF AfterActor, Ops
<1> HIDE DEF pc, role
<1>6. /\ req'[p].pc = pc /\ req'[p].op = req[p].op /\ req'[p].role = req[p].role
      /\ req'[p].actorRole = role /\ req'[p].actor = req[p].actor
  BY <1>1, <1>2 DEF Request, IInv, TypeOK
<1>7. Granted(req'[p])
  BY <1>1, <1>3, <1>4, <1>5, <1>6 DEF Granted, Past
<1> QED BY <1>5, <1>6, <1>7 DEF Past, role

(* The target's row has been read.                                         *)
LEMMA GrantedTarget ==
    ASSUME IInv, NEW p \in Reqs, Granted(req[p]),
           ReadTargetForRole(p) \/ ReadTargetForRemoval(p), ~Finish(p)
    PROVE  /\ Granted(req'[p])
           /\ req'[p].actor = req[p].actor
           /\ req'[p].actorRole = req[p].actorRole
<1>1. req[p] \in Request /\ req[p].pc = "target"
  BY DEF IInv, TypeOK, ReadTargetForRole, ReadTargetForRemoval
<1> DEFINE row == member[req[p].target]
<1>2. PICK pc : /\ req' = [req EXCEPT ![p].row = row, ![p].pc = pc]
                /\ \/ pc \in {"owners", "save"} /\ req[p].op = "role"
                      /\ row.role \notin {None, req[p].role}
                   \/ pc \in {"owners", "drop"} /\ req[p].op = "remove"
                      /\ row.role # None
                      /\ MayRemove(req[p])
  BY DEF ReadTargetForRole, ReadTargetForRemoval, TargetMissing
<1> HIDE DEF row
<1>3. /\ req'[p].pc = pc /\ req'[p].op = req[p].op /\ req'[p].role = req[p].role
      /\ req'[p].row = row /\ req'[p].actorRole = req[p].actorRole
      /\ req'[p].actor = req[p].actor /\ req'[p].target = req[p].target
  BY <1>1, <1>2 DEF Request, IInv, TypeOK
<1> QED BY <1>1, <1>2, <1>3 DEF Granted, Past, IsSelf, MayRemove

(* What a step of p leaves of the request.                                 *)
LEMMA StepShape ==
    ASSUME IInv, NEW p \in Reqs, Granted(req[p]), Step(p) \/ Lost(p)
    PROVE  \/ req'[p] = Idle
           \/ ReadActor(p) /\ ActorAllowed(req[p])
           \/ (ReadTargetForRole(p) \/ ReadTargetForRemoval(p)) /\ ~Finish(p)
           \/ \E pc : /\ req'[p] = [req[p] EXCEPT !.pc = pc]
                      /\ GoesOn(req[p], pc) /\ member' = member
<1>1. req \in [Reqs -> Request]
  BY DEF IInv, TypeOK
<1>2. CASE Finish(p)
  BY <1>1, <1>2 DEF Finish
<1>3. CASE InsertOrganization(p)
  BY <1>1, <1>3 DEF InsertOrganization, GoTo, GoesOn
<1>4. CASE (Authorize(p) \/ FindOrganization(p)) /\ ~Finish(p)
  BY <1>1, <1>4 DEF Authorize, FindOrganization, GoTo, GoesOn, Granted, table
<1>5. CASE ReadExisting(p) /\ ~Finish(p)
  BY <1>1, <1>5 DEF ReadExisting, GoTo, GoesOn, table
<1>6. CASE ListOwners(p) /\ ~Finish(p)
  BY <1>1, <1>6 DEF ListOwners, GoTo, GoesOn, table
<1>7. CASE ReadActor(p) /\ ~Finish(p)
  BY <1>7 DEF ReadActor
<1> QED BY <1>2, <1>3, <1>4, <1>5, <1>6, <1>7 DEF Step, Lost,
     InsertRefused, InsertMember, SaveRole, DropMember, DeleteOrganization

LEMMA GrantedStep == IInv /\ GrantedInv /\ [Next]_vars => GrantedInv'
<1> SUFFICES ASSUME IInv, GrantedInv, [Next]_vars, NEW p \in Reqs
             PROVE  Granted(req'[p])
  BY DEF GrantedInv
<1>1. req[p] \in Request /\ Granted(req[p])
  BY DEF IInv, TypeOK, GrantedInv
<1>2. CASE req'[p] = req[p]
  BY <1>1, <1>2
<1>3. CASE BeginCreate(p) \/ Begin(p)
  BY <1>3, GrantedBegin
<1>4. CASE Step(p) \/ Lost(p)
  <2>1. CASE req'[p] = Idle
    BY <2>1, IdleGranted
  <2>2. CASE ReadActor(p) /\ ActorAllowed(req[p])
    BY <1>1, <2>2, GrantedActor
  <2>3. CASE (ReadTargetForRole(p) \/ ReadTargetForRemoval(p)) /\ ~Finish(p)
    BY <1>1, <2>3, GrantedTarget
  <2>4. CASE \E pc : /\ req'[p] = [req[p] EXCEPT !.pc = pc]
                     /\ GoesOn(req[p], pc)
    BY <1>1, <2>4, GrantedOn
  <2> QED BY <1>1, <1>4, <2>1, <2>2, <2>3, <2>4, StepShape
<1>5. CASE Next
  <2>1. PICK r \in Reqs : BeginCreate(r) \/ Begin(r) \/ Step(r) \/ Lost(r)
    BY <1>5 DEF Next
  <2> QED BY <1>2, <1>3, <1>4, <2>1, OneActs
<1> QED BY <1>2, <1>5 DEF vars

LEMMA AlwaysGranted == Spec => []GrantedInv
<1>1. Init => GrantedInv
  BY IdleGranted DEF Init, GrantedInv
<1> QED BY <1>1, GrantedStep, Inductive, PTL DEF Spec

LEMMA PowersAllow ==
    ASSUME NEW role \in Roles, HasMinimumRole(role, "ADMIN")
    PROVE  role \in Powers
BY DEF Roles, HasMinimumRole, Rank, Powers

LEMMA OwnerAllows ==
    ASSUME NEW role \in Roles, HasMinimumRole(role, "OWNER")
    PROVE  role = "OWNER"
BY DEF Roles, HasMinimumRole, Rank

(* A request that may still write a role has seen its actor's authority.   *)
LEMMA GrantedPowers ==
    ASSUME NEW q, Granted(q), q.pc \in {"insert", "save"}
    PROVE  q.actorRole \in Powers
<1>1. MinRole(q.op) = "ADMIN"
  BY DEF Granted, MinRole
<1> QED BY <1>1, PowersAllow DEF Granted, Past

(* Only authority makes authority: once nobody is ADMIN or OWNER and no    *)
(* request that saw one is left, nobody becomes one, however many requests *)
(* act on roles read before.                                               *)
THEOREM AuthorityInherited == Spec => AuthorityIsInherited
<1> DEFINE A == (\A u \in Users : member[u].role \notin {"ADMIN", "OWNER"}) /\
                (\A r \in Reqs : ~Authorised(r)) =>
                  \A u \in Users : member'[u].role \notin {"ADMIN", "OWNER"}
<1>1. IInv /\ GrantedInv /\ [Next]_vars => [A]_vars
  <2> SUFFICES ASSUME IInv, GrantedInv, [Next]_vars,
                      \A u \in Users : member[u].role \notin {"ADMIN", "OWNER"},
                      \A r \in Reqs : ~Authorised(r), NEW u \in Users
               PROVE  member'[u].role \notin {"ADMIN", "OWNER"}
    OBVIOUS
  <2>1. \A r \in Reqs : req[r].pc \notin {"owner", "insert", "save"}
    BY GrantedPowers DEF GrantedInv, Granted, Authorised, Powers
  <2>2. \/ member' = member
        \/ \E r \in Reqs : DropMember(r) \/ DeleteOrganization(r)
    BY <2>1 DEF Next, Step, Lost, vars, table, BeginCreate, Begin, InsertOrganization,
       Authorize, FindOrganization, ReadActor, ReadExisting, InsertRefused, InsertMember,
       ReadTargetForRole, ReadTargetForRemoval, ListOwners, SaveRole
  <2>3. member'[u] = member[u] \/ member'[u] = NoRow
    BY <2>2 DEF DropMember, DeleteOrganization, IInv, TypeOK
  <2>4. NoRow.role = None
    BY DEF NoRow
  <2> QED BY <2>3, <2>4, RoleAssumption DEF Roles
<1> QED BY <1>1, Inductive, AlwaysGranted, PTL DEF Spec, AuthorityIsInherited
-----------------------------------------------------------------------------
(***************************************************************************)
(* The rules of MembershipRules hold of every step but those of requests   *)
(* that overlapped.  What a request read of its actor is then still what   *)
(* the table holds; and while the organization is being created nobody     *)
(* else gets past the first check, overlapped or not, since nobody is a    *)
(* member.                                                                 *)
(***************************************************************************)
Current(q) == q.pc \in Past => member[q.actor].role = q.actorRole

CurrentInv == \A r \in Reqs \ overlapped : Current(req[r])

Creating(r) == req[r].pc \in {"organization", "owner"}

FoundingInv ==
    /\ \A r \in Reqs : life = "absent" => req[r].pc \in {"idle", "organization"}
    /\ \A r \in Reqs : req[r].pc = "organization" => life = "absent"
    /\ \A r \in Reqs : Creating(r) =>
         /\ \A u \in Users : ~IsMember(u)
         /\ \A p \in Reqs \ {r} : req[p].pc \in {"idle", "authorize"}

LEMMA CurrentStep ==
    ASSUME IInv, GrantedInv, AloneInv, CurrentInv, [Next]_vars
    PROVE  CurrentInv'
<1>1. req \in [Reqs -> Request] /\ req' \in [Reqs -> Request]
  BY StepInductive DEF IInv, TypeOK
<1>2. CASE UNCHANGED vars
  BY <1>2 DEF vars, CurrentInv, Current
<1>3. ASSUME NEW r \in Reqs, BeginCreate(r) \/ Begin(r), Joins(r)
      PROVE  CurrentInv'
  <2> SUFFICES ASSUME NEW p \in Reqs \ overlapped' PROVE Current(req[p])'
    BY DEF CurrentInv
  <2>1. CASE p = r
    <3>1. req'[r].pc \in {"organization", "authorize"}
      BY <1>1, <1>3 DEF BeginCreate, Begin, Idle
    <3> QED BY <2>1, <3>1 DEF Current, Past
  <2>2. CASE p # r
    <3>1. req'[p].pc = "idle"
      BY <1>3, <2>2, OneActs DEF Joins, InFlight
    <3> QED BY <3>1 DEF Current, Past
  <2> QED BY <2>1, <2>2
<1>4. ASSUME NEW r \in Reqs, Step(r) \/ Lost(r), UNCHANGED overlapped
      PROVE  CurrentInv'
  <2> SUFFICES ASSUME NEW p \in Reqs \ overlapped PROVE Current(req[p])'
    BY <1>4 DEF CurrentInv
  <2>1. CASE p # r
    <3>1. req'[p].pc = "idle"
      BY <1>4, <2>1, OneActs DEF AloneInv
    <3> QED BY <3>1 DEF Current, Past
  <2>2. CASE p = r
    <3>1. Current(req[r]) /\ Granted(req[r]) /\ req[r] \in Request
      BY <1>1, <2>2 DEF CurrentInv, GrantedInv
    <3>2. CASE req'[r] = Idle
      BY <2>2, <3>2 DEF Idle, Current, Past
    <3>3. CASE ReadActor(r) /\ ActorAllowed(req[r])
      <4>1. member' = member
        BY <3>3 DEF ReadActor, table
      <4> QED BY <2>2, <3>1, <3>3, <4>1, GrantedActor DEF Current
    <3>4. CASE (ReadTargetForRole(r) \/ ReadTargetForRemoval(r)) /\ ~Finish(r)
      <4>1. member' = member /\ req[r].pc \in Past
        BY <3>4 DEF ReadTargetForRole, ReadTargetForRemoval, table, Past
      <4> QED BY <2>2, <3>1, <3>4, <4>1, GrantedTarget DEF Current
    <3>5. CASE \E pc : /\ req'[r] = [req[r] EXCEPT !.pc = pc]
                       /\ GoesOn(req[r], pc) /\ member' = member
      <4>1. PICK pc : /\ req'[r] = [req[r] EXCEPT !.pc = pc]
                      /\ GoesOn(req[r], pc) /\ member' = member
        BY <3>5
      <4>2. /\ req'[r].pc = pc /\ req'[r].actor = req[r].actor
            /\ req'[r].actorRole = req[r].actorRole
        BY <3>1, <4>1, OnlyPc
      <4>3. pc \in Past => req[r].pc \in Past
        BY <4>1 DEF GoesOn, Past
      <4> QED BY <2>2, <3>1, <4>1, <4>2, <4>3 DEF Current
    <3> QED BY <1>4, <3>1, <3>2, <3>3, <3>4, <3>5, StepShape
  <2> QED BY <2>1, <2>2
<1> QED BY <1>2, <1>3, <1>4 DEF Next

LEMMA FoundingStep ==
    ASSUME IInv, GrantedInv, FoundingInv, [Next]_vars
    PROVE  FoundingInv'
<1>1. req \in [Reqs -> Request] /\ req' \in [Reqs -> Request]
  BY StepInductive DEF IInv, TypeOK
<1>2. CASE UNCHANGED vars
  BY <1>2 DEF vars, FoundingInv, Creating, IsMember
<1>3. ASSUME NEW r \in Reqs, BeginCreate(r)
      PROVE  FoundingInv'
  <2>1. /\ req'[r].pc = "organization" /\ life = "absent" /\ UNCHANGED table
        /\ \A p \in Reqs \ {r} : req'[p] = req[p]
    BY <1>1, <1>3, OneActs DEF BeginCreate, Idle
  <2>2. \A u \in Users : ~IsMember(u)
    BY <2>1 DEF IInv, NoMembersWithoutOrg
  <2>3. \A p \in Reqs : req[p].pc = "idle"
    BY <1>3, <2>1 DEF FoundingInv, BeginCreate, GrantedInv, Granted
  <2> QED BY <2>1, <2>2, <2>3 DEF FoundingInv, Creating, table, IsMember
<1>4. ASSUME NEW r \in Reqs, Begin(r)
      PROVE  FoundingInv'
  <2>1. /\ req'[r].pc = "authorize" /\ life # "absent" /\ UNCHANGED table
        /\ \A p \in Reqs \ {r} : req'[p] = req[p]
    BY <1>1, <1>4, OneActs DEF Begin, Idle
  <2> QED BY <2>1 DEF FoundingInv, Creating, table, IsMember
<1>5. ASSUME NEW r \in Reqs, Step(r) \/ Lost(r)
      PROVE  FoundingInv'
  <2>1. req[r].pc # "idle" /\ \A p \in Reqs \ {r} : req'[p] = req[p]
    BY <1>5, OneActs
  <2>2. CASE InsertOrganization(r)
    <3>1. req'[r].pc = "owner" /\ life' = "live" /\ member' = member /\ Creating(r)
      BY <1>1, <2>2 DEF InsertOrganization, GoTo, Creating, Request
    <3> QED BY <2>1, <3>1 DEF FoundingInv, Creating, IsMember
  <2>3. CASE req'[r] = Idle /\ Creating(r)
    <3>1. req'[r].pc = "idle"
      BY <2>3 DEF Idle
    <3>2. life' = life
      BY <1>1, <1>5, <2>3 DEF Request, Creating, Step, Authorize, FindOrganization, ReadActor, ReadExisting,
         InsertRefused, InsertMember, ReadTargetForRole, ReadTargetForRemoval, ListOwners,
         SaveRole, DropMember, DeleteOrganization, Lost, table, InsertOrganization, GoTo, Idle
    <3> QED BY <2>1, <2>3, <3>1, <3>2 DEF FoundingInv, Creating
  <2>4. CASE \E p \in Reqs \ {r} : Creating(p)
    <3>1. req[r].pc = "authorize" /\ \A u \in Users : ~IsMember(u)
      BY <2>1, <2>4 DEF FoundingInv
    <3>2. ~ActorAllowed(req[r])
      BY <2>1, <3>1 DEF ActorAllowed, IInv, Aimed
    <3>3. Finish(r) /\ UNCHANGED table
      BY <1>5, <3>1, <3>2 DEF Step, Authorize, FindOrganization, ReadActor, ReadExisting,
         InsertRefused, InsertMember, ReadTargetForRole, ReadTargetForRemoval, ListOwners,
         SaveRole, DropMember, DeleteOrganization, Lost, InsertOrganization
    <3>4. req'[r].pc = "idle"
      BY <1>1, <3>3 DEF Finish, Idle
    <3> QED BY <2>1, <3>3, <3>4 DEF FoundingInv, Creating, table, IsMember
  <2>5. CASE ~InsertOrganization(r) /\ \A p \in Reqs : ~Creating(p)
    <3>1. ~Creating(r)'
      <4>1. Granted(req[r])
        BY DEF GrantedInv
      <4>2. CASE req'[r] = Idle
        BY <4>2 DEF Idle, Creating
      <4>3. CASE ReadActor(r) /\ ActorAllowed(req[r])
        BY <4>1, <4>3, GrantedActor DEF Creating, Past
      <4>4. CASE ReadTargetForRole(r) \/ ReadTargetForRemoval(r)
        BY <1>1, <4>4 DEF ReadTargetForRole, ReadTargetForRemoval, Finish, Idle,
           Creating, Request
      <4>5. CASE \E pc : req'[r] = [req[r] EXCEPT !.pc = pc] /\ GoesOn(req[r], pc)
        BY <1>1, <2>5, <4>5, OnlyPc DEF GoesOn, Creating
      <4> QED BY <1>5, <4>1, <4>2, <4>3, <4>4, <4>5, StepShape
    <3>2. life # "absent"
      BY <2>1, <2>5 DEF FoundingInv, Creating
    <3>3. life' # "absent"
      BY <1>5, <2>5, <3>2 DEF Step, Authorize, FindOrganization, ReadActor, ReadExisting,
         InsertRefused, InsertMember, ReadTargetForRole, ReadTargetForRemoval, ListOwners,
         SaveRole, DropMember, DeleteOrganization, Lost, table
    <3> QED BY <2>1, <2>5, <3>1, <3>3 DEF FoundingInv, Creating
  <2>6. Creating(r) => InsertOrganization(r) \/ req'[r] = Idle
    BY <1>1, <1>5 DEF Creating, Step, Authorize, FindOrganization, ReadActor, ReadExisting,
       InsertRefused, InsertMember, ReadTargetForRole, ReadTargetForRemoval, ListOwners,
       SaveRole, DropMember, DeleteOrganization, Lost, Finish
  <2> QED BY <2>2, <2>3, <2>4, <2>5, <2>6
<1> QED BY <1>2, <1>3, <1>4, <1>5 DEF Next

LEMMA AlwaysCurrent == Spec => [](CurrentInv /\ FoundingInv)
<1>1. Init => CurrentInv /\ FoundingInv
  BY DEF Init, CurrentInv, Current, FoundingInv, Creating, Past, Idle
<1>2. IInv /\ GrantedInv /\ AloneInv /\ CurrentInv /\ FoundingInv /\ [Next]_vars
        => CurrentInv' /\ FoundingInv'
  BY CurrentStep, FoundingStep
<1> QED BY <1>1, <1>2, Inductive, AlwaysGranted, Alone, PTL DEF Spec

(* What the abstract specification sees of the table.                      *)
RoleOf == [u \in Users |-> member[u].role]

LEMMA RoleOfNow ==
    ASSUME IInv
    PROVE  RoleOf \in [Users -> Roles \cup {None}] /\ \A u \in Users : RoleOf[u] = member[u].role
BY DEF IInv, TypeOK, RoleOf, MemberRow

(* The deed of a well-formed request is a step of the rules.               *)
LEMMA DeedIsNext ==
    ASSUME IInv, GrantedInv, NEW r \in Reqs, req[r].pc # "idle", Deed(req[r])
    PROVE  Rules!Next
<1> DEFINE q == req[r]
<1>1. /\ q.actor \in Users /\ q.target \in Users
      /\ q.op \in {"add", "role"} => q.role \in GivenRoles
  BY DEF IInv, Aimed, GrantedInv, Granted
<1>2. PICK a \in Users, u \in Users : a = q.actor /\ u = q.target
  BY <1>1
<1>3. CASE q.op \in {"add", "role"}
  <2>1. PICK given \in GivenRoles : given = q.role
    BY <1>1, <1>3
  <2>2. \/ Rules!Add(q.actor, q.target, q.role)
        \/ Rules!Change(q.actor, q.target, q.role)
    BY <1>3 DEF Deed
  <2>3. Rules!Add(a, u, given) \/ Rules!Change(a, u, given)
    BY <1>2, <2>1, <2>2 DEF Rules!Add, Rules!Change
  <2> QED BY <2>3 DEF Rules!Next
<1>4. CASE q.op \notin {"add", "role"}
  <2>1. \/ Rules!Open \/ Rules!Found(q.actor)
        \/ Rules!Remove(q.actor, q.target) \/ Rules!Close(q.actor)
    BY <1>4 DEF Deed
  <2>2. Rules!Open \/ Rules!Found(a) \/ Rules!Remove(a, u) \/ Rules!Close(a)
    BY <1>2, <2>1 DEF Rules!Found, Rules!Remove, Rules!Close
  <2> QED BY <2>2 DEF Rules!Next
<1> QED BY <1>3, <1>4

(* An insert is the founding of the organization or the deed of a member   *)
(* with the authority to add.                                              *)
LEMMA InsertObeys ==
    ASSUME IInv, GrantedInv, CurrentInv, FoundingInv, NEW r \in Reqs, InsertMember(r),
           req[r].pc = "owner" \/ r \notin overlapped
    PROVE  Deed(req[r])
<1> DEFINE q == req[r]
<1>1. /\ q.target \in Users /\ q.actor \in Users /\ ~IsMember(q.target)
      /\ life = "live" /\ life' = life /\ member \in [Users -> MemberRow] /\ Granted(q)
  BY DEF InsertMember, CanInsert, IInv, Aimed, TypeOK, GrantedInv
<1>2. RoleOf' = [RoleOf EXCEPT ![q.target] = q.role]
  BY <1>1 DEF InsertMember, RoleOf
<1>3. RoleOf[q.target] = None
  BY <1>1 DEF RoleOf, IsMember
<1>4. CASE q.pc = "owner"
  <2>1. RoleOf = [u \in Users |-> None]
    BY <1>4 DEF FoundingInv, Creating, IsMember, RoleOf
  <2>2. q.role = "OWNER"
    BY <1>1, <1>4 DEF Granted
  <2>3. q.op = "create" /\ q.target = q.actor
    BY <1>1, <1>4 DEF Granted
  <2>4. Rules!Found(q.actor)
    BY <1>1, <1>2, <2>1, <2>2, <2>3 DEF Rules!Found, Rules!Nobody, RoleOf
  <2> QED BY <2>3, <2>4 DEF Deed
<1>5. CASE q.pc = "insert"
  <2>1. q.role \in GivenRoles /\ q.actorRole \in Powers
    BY <1>1, <1>5, GrantedPowers DEF Granted
  <2>2. RoleOf[q.actor] = q.actorRole
    BY <1>1, <1>5 DEF CurrentInv, Current, Past, RoleOf
  <2>3. Rules!Add(q.actor, q.target, q.role)
    BY <1>1, <1>2, <1>3, <2>1, <2>2 DEF Rules!Add, Powers, RoleOf
  <2> QED BY <1>1, <1>5, <2>3 DEF Deed, Granted
<1> QED BY <1>4, <1>5 DEF InsertMember

LEMMA SaveObeys ==
    ASSUME IInv, GrantedInv, AloneInv, CurrentInv, NEW r \in Reqs, SaveRole(r),
           r \notin overlapped, StillThere(req[r].target, req[r].row)
    PROVE  Deed(req[r])
<1> DEFINE q == req[r]
<1>1. /\ q.target \in Users /\ q.actor \in Users /\ q.pc = "save"
      /\ life' = life /\ member \in [Users -> MemberRow]
      /\ Granted(q) /\ Fresh(q) /\ Current(q)
  BY DEF SaveRole, IInv, Aimed, TypeOK, GrantedInv, AloneInv, CurrentInv
<1>2. RoleOf' = [RoleOf EXCEPT ![q.target] = q.role]
  BY <1>1 DEF SaveRole, RoleOf, MemberRow
<1>3. q.role \in GivenRoles /\ q.actorRole \in Powers /\ q.row.role \notin {None, q.role}
  BY <1>1, GrantedPowers DEF Granted
<1>4. RoleOf[q.actor] = q.actorRole /\ RoleOf[q.target] = q.row.role
  BY <1>1 DEF Current, Past, Fresh, RoleOf
<1>5. q.row.role = "OWNER" => q.actorRole = "OWNER" /\ q.actor # q.target
  BY <1>1, <1>3 DEF Fresh, Demotes, IsSelf
<1>6. Rules!Change(q.actor, q.target, q.role)
  BY <1>1, <1>2, <1>3, <1>4, <1>5 DEF Rules!Change, Powers, RoleOf
<1> QED BY <1>1, <1>6 DEF Deed, Granted

LEMMA DropObeys ==
    ASSUME IInv, GrantedInv, AloneInv, CurrentInv, NEW r \in Reqs, DropMember(r),
           r \notin overlapped, StillThere(req[r].target, req[r].row)
    PROVE  Deed(req[r])
<1> DEFINE q == req[r]
<1>1. /\ q.target \in Users /\ q.actor \in Users /\ q.pc = "drop"
      /\ life' = life /\ member \in [Users -> MemberRow]
      /\ Granted(q) /\ Fresh(q) /\ Current(q)
  BY DEF DropMember, IInv, Aimed, TypeOK, GrantedInv, AloneInv, CurrentInv
<1>2. RoleOf' = [RoleOf EXCEPT ![q.target] = None]
  BY <1>1 DEF DropMember, RoleOf, NoRow
<1>3. q.row.role # None /\ (q.actor = q.target \/ q.actorRole = "OWNER")
  BY <1>1, OwnerAllows DEF Granted, MayRemove, IsSelf, Past
<1>4. RoleOf[q.actor] = q.actorRole /\ RoleOf[q.target] = q.row.role
  BY <1>1 DEF Current, Past, Fresh, RoleOf
<1>5. q.row.role = "OWNER" => \E v \in Users \ {q.target} : RoleOf[v] = "OWNER"
  BY <1>1 DEF Fresh, Owners, RoleOf
<1>6. Rules!Remove(q.actor, q.target)
  BY <1>1, <1>2, <1>3, <1>4, <1>5 DEF Rules!Remove, Rules!Others, RoleOf
<1> QED BY <1>1, <1>6 DEF Deed, Granted

LEMMA DeleteObeys ==
    ASSUME IInv, GrantedInv, CurrentInv, NEW r \in Reqs, DeleteOrganization(r),
           r \notin overlapped
    PROVE  Deed(req[r])
<1> DEFINE q == req[r]
<1>1. q.actor \in Users /\ q.pc = "cascade" /\ Granted(q) /\ Current(q)
  BY DEF DeleteOrganization, IInv, Aimed, GrantedInv, CurrentInv
<1>2. q.actorRole = "OWNER"
  BY <1>1, OwnerAllows DEF Granted, Past, MinRole
<1>3. RoleOf[q.actor] = "OWNER"
  BY <1>1, <1>2 DEF Current, Past, RoleOf
<1>4. RoleOf' = [u \in Users |-> None]
  BY DEF DeleteOrganization, RoleOf, NoRow
<1>5. Rules!Close(q.actor)
  BY <1>3, <1>4 DEF DeleteOrganization, Rules!Close, Rules!Nobody, RoleOf
<1> QED BY <1>1, <1>5 DEF Deed, Granted

(* Whatever changes the members, or the organization, is a request's deed, *)
(* or the act of a request that was overlapped.                            *)
ObeysOrOverlapped(r) ==
    /\ req'[r] # req[r]
    /\ \/ Deed(req[r])
       \/ r \in overlapped /\ req[r].op # "create"

LEMMA RulesStep ==
    ASSUME IInv, GrantedInv, AloneInv, CurrentInv, FoundingInv, [Next]_vars,
           life' # life \/ member' # member
    PROVE  \E r \in Reqs : req[r].pc # "idle" /\ ObeysOrOverlapped(r)
<1>1. PICK r \in Reqs : \/ InsertOrganization(r) \/ InsertMember(r)
                        \/ SaveRole(r) \/ DropMember(r) \/ DeleteOrganization(r)
  BY DEF Next, vars, table, Step, Lost, BeginCreate, Begin, Authorize,
     FindOrganization, ReadActor, ReadExisting, InsertRefused, ReadTargetForRole,
     ReadTargetForRemoval, ListOwners
<1>2. req \in [Reqs -> Request] /\ req[r] \in Request /\ Granted(req[r])
  BY DEF IInv, TypeOK, GrantedInv
<1>3. req[r].pc # "idle" /\ req'[r] # req[r]
  <2>1. CASE InsertOrganization(r)
    BY <1>2, <2>1, OnlyPc DEF InsertOrganization, GoTo
  <2>2. CASE Finish(r) /\ req[r].pc # "idle"
    BY <1>2, <2>2 DEF Finish, Idle
  <2> QED BY <1>1, <2>1, <2>2 DEF InsertMember, SaveRole, DropMember, DeleteOrganization
<1>4. CASE InsertOrganization(r)
  <2>1. life = "absent" /\ req[r].op = "create"
    BY <1>2, <1>4 DEF InsertOrganization, FoundingInv, Granted
  <2>2. Rules!Open
    BY <1>4, <2>1 DEF InsertOrganization, Rules!Open
  <2> QED BY <1>3, <2>1, <2>2 DEF Deed, ObeysOrOverlapped
<1>5. CASE r \in overlapped /\ ~InsertOrganization(r) /\ req[r].pc # "owner"
  <2>1. req[r].op # "create"
    BY <1>1, <1>2, <1>5 DEF Granted, InsertMember, SaveRole, DropMember,
       DeleteOrganization
  <2> QED BY <1>3, <1>5, <2>1 DEF ObeysOrOverlapped
<1>6. CASE r \notin overlapped \/ req[r].pc = "owner"
  <2>1. CASE InsertMember(r)
    BY <1>3, <1>6, <2>1, InsertObeys DEF ObeysOrOverlapped
  <2>2. CASE SaveRole(r)
    <3>1. req[r].pc = "save" /\ StillThere(req[r].target, req[r].row)
      BY <2>2 DEF SaveRole
    <3> QED BY <1>3, <1>6, <2>2, <3>1, SaveObeys DEF ObeysOrOverlapped
  <2>3. CASE DropMember(r)
    <3>1. req[r].pc = "drop" /\ StillThere(req[r].target, req[r].row)
      BY <2>3 DEF DropMember
    <3> QED BY <1>3, <1>6, <2>3, <3>1, DropObeys DEF ObeysOrOverlapped
  <2>4. CASE DeleteOrganization(r)
    BY <1>3, <1>6, <2>4, DeleteObeys DEF DeleteOrganization, ObeysOrOverlapped
  <2> QED BY <1>1, <1>4, <2>1, <2>2, <2>3, <2>4
<1> QED BY <1>4, <1>5, <1>6

(* However many users and requests there are, every change of a membership *)
(* is the deed of a request whose own actor has the authority for it at    *)
(* that moment, except for requests that another one overlapped.           *)
THEOREM RulesObeyed == Spec => OnlyOverlapsBreakRules
<1> DEFINE A == UNCHANGED Rules!vars \/
                \E r \in Reqs : /\ req'[r] # req[r]
                                /\ \/ Deed(req[r])
                                   \/ r \in overlapped /\ req[r].op # "create"
<1>1. /\ IInv /\ GrantedInv /\ AloneInv /\ CurrentInv /\ FoundingInv
      /\ [Next]_vars
      => [A]_vars
  BY RulesStep DEF Rules!vars, ObeysOrOverlapped
<1>2. []IInv /\ []GrantedInv /\ []AloneInv /\ [](CurrentInv /\ FoundingInv) /\ [][Next]_vars
        => [][A]_vars
  BY <1>1, PTL
<1> QED BY <1>2, Inductive, AlwaysGranted, Alone, AlwaysCurrent
        DEF Spec, OnlyOverlapsBreakRules

(* No request of the behaviour overlaps another one.                       *)
NoOverlap == overlapped = {}

(* Handled one at a time, the requests implement the rules of              *)
(* MembershipRules, each step of them a step of the rules or none.         *)
THEOREM RulesImplemented == Spec /\ []NoOverlap => Rules!Spec
<1>1. Init => Rules!Init
  BY DEF Init, Rules!Init, Rules!Nobody, NoRow
<1>2. /\ IInv /\ GrantedInv /\ AloneInv /\ CurrentInv /\ FoundingInv
      /\ NoOverlap /\ [Next]_vars
      => [Rules!Next]_(Rules!vars)
  BY RulesStep, DeedIsNext DEF NoOverlap, ObeysOrOverlapped, Rules!vars
<1> QED BY <1>1, <1>2, Inductive, AlwaysGranted, Alone, AlwaysCurrent, PTL
        DEF Spec, Rules!Spec

(* "An organization must keep at least one OWNER" is what the code keeps   *)
(* when it handles one request at a time, for any number of users; the run *)
(* members_last_owner shows that two at a time are too many.               *)
THEOREM AnOwnerIsKept == Spec /\ []NoOverlap => KeepsAnOwner
<1> DEFINE A == Owners # {} /\ Owners' = {} =>
                  life' = "deleted" \/ \E r \in overlapped : Writes(r)
           B == Owners # {} => Owners' # {} \/ life' = "deleted"
<1>1. NoOverlap /\ [A]_vars => [B]_vars
  BY DEF NoOverlap, vars
<1>2. []NoOverlap /\ [][A]_vars => [][B]_vars
  BY <1>1, PTL
<1> QED BY <1>2, OwnerRemains DEF OnlyOverlapsEndOwnership, KeepsAnOwner

(* A server that handles one request at a time keeps the rules, and an     *)
(* OWNER, with no assumption about what overlaps.                          *)
COROLLARY SerialImplements ==
    ASSUME NEW r, Reqs = {r}
    PROVE  Spec => Rules!Spec /\ KeepsAnOwner
<1>1. Init => NoOverlap
  BY DEF Init, NoOverlap
<1>2. NoOverlap /\ [Next]_vars => NoOverlap'
  BY DEF NoOverlap, Next, Joins, InFlight, vars
<1>3. Spec => []NoOverlap
  BY <1>1, <1>2, PTL DEF Spec
<1> QED BY <1>3, RulesImplemented, AnOwnerIsKept
=============================================================================
