---------------------------- MODULE OrgMembership ----------------------------
(***************************************************************************)
(* The members of one organization and their roles, and the use cases that *)
(* change them: create-organization (its two inserts), add-member,         *)
(* update-member-role, remove-member, delete-organization.  Rows of        *)
(* different organizations never meet in this code, so one organization    *)
(* stands for all.                                                         *)
(*                                                                         *)
(* As in TenantDomain an action is one answered await and the code up to   *)
(* the next one; what was read stays in the request.  No use case opens a  *)
(* transaction, and a membership is saved and deleted by the id of the row *)
(* that was read.  overlapped is a history variable.                       *)
(***************************************************************************)
EXTENDS Naturals

CONSTANTS
    Users,       \* users of the platform, members or not
    Reqs,        \* requests in flight at a time
    None,        \* null
    GivenRoles,  \* the roles add-member and update-member-role are sent
    MaxRows      \* bound: membership rows inserted in a behaviour

Roles == {"VIEWER", "MEMBER", "ADMIN", "OWNER"}

ASSUME RoleAssumption == GivenRoles \subseteq Roles /\ None \notin Roles
ASSUME MaxRowsAssumption == MaxRows \in Nat

VARIABLES
    life,    \* the organization's row: absent, live or deleted
    member,  \* user -> membership row
    lastId,  \* row ids handed out so far (randomUUID: never twice)
    req,     \* requests of the server processes
    overlapped  \* those that were in flight together with another one

vars == <<life, member, lastId, req, overlapped>>
table == <<life, member, lastId>>

-----------------------------------------------------------------------------
MemberRow == [id : Nat, role : Roles \cup {None}]

NoRow == [id |-> 0, role |-> None]

IsMember(u) == member[u].role # None

Owners == {u \in Users : member[u].role = "OWNER"}

Rank(role) == CASE role = "VIEWER" -> 0
                [] role = "MEMBER" -> 1
                [] role = "ADMIN"  -> 2
                [] role = "OWNER"  -> 3

(* Mutant: any member may act.                                             *)
HasAnyRole(role, minimum) == TRUE

HasMinimumRole(role, minimum) == Rank(role) >= Rank(minimum)

(* Mutant: "owners.length < 1".                                            *)
NoneAtAll(S) == S = {}

(* "owners.length <= 1" on the list that was read.                         *)
AtMostOne(S) == \A u, v \in S : u = v

(* Mutant: no foreign key to the organization.                             *)
CanInsertOrphan(u) == ~IsMember(u)

(* The unique index on (organization, user) and the foreign key to the     *)
(* organization admit a new row for u.                                     *)
CanInsert(u) == life = "live" /\ ~IsMember(u)

(* Mutant: "where organization and user" instead of "where id".            *)
SomeRowThere(u, row) == IsMember(u)

(* The row that was read still exists: update and delete are "where id".   *)
StillThere(u, row) == IsMember(u) /\ member[u].id = row.id

-----------------------------------------------------------------------------
Ops == {"create", "add", "role", "remove", "delete"}

Phases == {"idle", "organization", "owner", "authorize", "find", "actor",
           "existing", "insert", "target", "owners", "save", "drop", "cascade"}

Request == [pc : Phases, op : Ops \cup {None},
            actor : Users \cup {None}, target : Users \cup {None},
            role : Roles \cup {None},       \* the role in the body
            actorRole : Roles \cup {None},  \* the actor's role, as read
            row : MemberRow]                \* the target's row, as read

Idle == [pc |-> "idle", op |-> None, actor |-> None, target |-> None,
         role |-> None, actorRole |-> None, row |-> NoRow]

Finish(r) == req' = [req EXCEPT ![r] = Idle]

GoTo(r, pc) == req' = [req EXCEPT ![r].pc = pc]

IsSelf(q) == q.actor = q.target

(* The least role the route and the use case ask of the actor.             *)
MinRole(op) == CASE op \in {"add", "role"} -> "ADMIN"
                 [] op = "delete"          -> "OWNER"
                 [] OTHER                  -> "VIEWER"

ActorAllowed(q) == /\ IsMember(q.actor)
                   /\ HasMinimumRole(member[q.actor].role, MinRole(q.op))

-----------------------------------------------------------------------------
(* create-organization: two inserts, the second of them the OWNER          *)
BeginCreate(r) ==
    /\ req[r].pc = "idle"
    /\ life = "absent"
    /\ \A p \in Reqs : req[p].op # "create"
    /\ \E u \in Users :
         req' = [req EXCEPT ![r] = [Idle EXCEPT !.pc = "organization",
                                                !.op = "create", !.actor = u,
                                                !.target = u, !.role = "OWNER"]]
    /\ UNCHANGED table

InsertOrganization(r) ==
    /\ req[r].pc = "organization"
    /\ life' = "live"
    /\ GoTo(r, "owner")
    /\ UNCHANGED <<member, lastId>>

(* A validated request reaches its route.                                  *)
Begin(r) ==
    /\ req[r].pc = "idle"
    /\ life # "absent"
    /\ \E op \in Ops \ {"create"}, a, t \in Users, role \in GivenRoles :
         /\ op = "add" => lastId < MaxRows
         /\ req' = [req EXCEPT ![r] =
              [Idle EXCEPT !.pc = "authorize", !.op = op, !.actor = a,
                 !.target = IF op = "delete" THEN a ELSE t,
                 !.role = IF op \in {"add", "role"} THEN role ELSE None]]
    /\ UNCHANGED table

(* authorizeMembership                                                     *)
Authorize(r) ==
    /\ req[r].pc = "authorize"
    /\ IF ActorAllowed(req[r])
         THEN GoTo(r, IF req[r].op = "add" THEN "find" ELSE "actor")
         ELSE Finish(r)
    /\ UNCHANGED table

(* add-member looks for the organization first.                            *)
FindOrganization(r) ==
    /\ req[r].pc = "find"
    /\ IF life = "live" THEN GoTo(r, "actor") ELSE Finish(r)
    /\ UNCHANGED table

AfterActor(op) == CASE op = "add"    -> "existing"
                    [] op = "delete" -> "cascade"
                    [] OTHER         -> "target"

(* The use case reads the actor's membership again.                        *)
ReadActor(r) ==
    /\ req[r].pc = "actor"
    /\ IF ActorAllowed(req[r])
         THEN req' = [req EXCEPT ![r].pc = AfterActor(req[r].op),
                                 ![r].actorRole = member[req[r].actor].role]
         ELSE Finish(r)
    /\ UNCHANGED table

ReadExisting(r) ==
    /\ req[r].pc = "existing"
    /\ IF IsMember(req[r].target) THEN Finish(r) ELSE GoTo(r, "insert")
    /\ UNCHANGED table

InsertRefused(r) ==
    /\ req[r].pc \in {"owner", "insert"}
    /\ ~CanInsert(req[r].target)
    /\ Finish(r)
    /\ UNCHANGED table

InsertMember(r) ==
    /\ req[r].pc \in {"owner", "insert"}
    /\ CanInsert(req[r].target)
    /\ lastId' = lastId + 1
    /\ member' = [member EXCEPT ![req[r].target] =
                    [id |-> lastId + 1, role |-> req[r].role]]
    /\ Finish(r)
    /\ UNCHANGED life

(* Mutant: whatever the lookup of the target returned is used.             *)
NeverMissing(row) == FALSE

TargetMissing(row) == row.role = None

(* Mutant: only a fall to VIEWER counts as a demotion.                     *)
DemotesToViewer(q, row) == row.role = "OWNER" /\ q.role = "VIEWER"

(* update-member-role with the target's row just read.                     *)
Demotes(q, row) == row.role = "OWNER" /\ q.role # "OWNER"

ReadTargetForRole(r) ==
    LET q == req[r]  row == member[q.target] IN
    /\ q.pc = "target" /\ q.op = "role"
    /\ IF \/ TargetMissing(row)
          \/ Demotes(q, row) /\ (q.actorRole # "OWNER" \/ IsSelf(q))
          \/ row.role = q.role
         THEN Finish(r)
         ELSE req' = [req EXCEPT ![r].row = row,
                        ![r].pc = IF Demotes(q, row) THEN "owners" ELSE "save"]
    /\ UNCHANGED table

(* Mutant: any member removes any other one.                               *)
AnyoneRemoves(q) == TRUE

(* Members leave, and OWNERs remove them.                                  *)
MayRemove(q) == IsSelf(q) \/ HasMinimumRole(q.actorRole, "OWNER")

(* remove-member with the target's row just read.                          *)
ReadTargetForRemoval(r) ==
    LET q == req[r]  row == member[q.target] IN
    /\ q.pc = "target" /\ q.op = "remove"
    /\ IF TargetMissing(row) \/ ~MayRemove(q)
         THEN Finish(r)
         ELSE req' = [req EXCEPT ![r].row = row,
                        ![r].pc = IF row.role = "OWNER" THEN "owners" ELSE "drop"]
    /\ UNCHANGED table

(* listByOrganization, counted                                             *)
ListOwners(r) ==
    /\ req[r].pc = "owners"
    /\ IF AtMostOne(Owners)
         THEN Finish(r)
         ELSE GoTo(r, IF req[r].op = "role" THEN "save" ELSE "drop")
    /\ UNCHANGED table

SaveRole(r) ==
    LET u == req[r].target IN
    /\ req[r].pc = "save"
    /\ member' = IF StillThere(u, req[r].row)
                   THEN [member EXCEPT ![u].role = req[r].role]
                   ELSE member
    /\ Finish(r)
    /\ UNCHANGED <<life, lastId>>

DropMember(r) ==
    LET u == req[r].target IN
    /\ req[r].pc = "drop"
    /\ member' = IF StillThere(u, req[r].row)
                   THEN [member EXCEPT ![u] = NoRow]
                   ELSE member
    /\ Finish(r)
    /\ UNCHANGED <<life, lastId>>

(* delete-organization: the foreign key cascades to the memberships.       *)
DeleteOrganization(r) ==
    /\ req[r].pc = "cascade"
    /\ life' = "deleted"
    /\ member' = [u \in Users |-> NoRow]
    /\ Finish(r)
    /\ UNCHANGED lastId

(* The process stops, or a query fails: the request goes no further.       *)
Lost(r) ==
    /\ req[r].pc # "idle"
    /\ Finish(r)
    /\ UNCHANGED table

-----------------------------------------------------------------------------
Init ==
    /\ life = "absent"
    /\ member = [u \in Users |-> NoRow]
    /\ lastId = 0
    /\ req = [r \in Reqs |-> Idle]
    /\ overlapped = {}

Step(r) ==
    \/ InsertOrganization(r) \/ Authorize(r) \/ FindOrganization(r)
    \/ ReadActor(r) \/ ReadExisting(r) \/ InsertRefused(r) \/ InsertMember(r)
    \/ ReadTargetForRole(r) \/ ReadTargetForRemoval(r) \/ ListOwners(r)
    \/ SaveRole(r) \/ DropMember(r) \/ DeleteOrganization(r)

InFlight == {r \in Reqs : req[r].pc # "idle"}

(* r joins the requests in flight, or is the only one.                     *)
Joins(r) == overlapped' = IF InFlight \ {r} = {} THEN overlapped \ {r}
                          ELSE overlapped \cup InFlight \cup {r}

Next == \E r \in Reqs : \/ (BeginCreate(r) \/ Begin(r)) /\ Joins(r)
                        \/ (Step(r) \/ Lost(r)) /\ UNCHANGED overlapped

Spec == Init /\ [][Next]_vars

-----------------------------------------------------------------------------
(* Past its reads a request holds the membership it is about to change.    *)
TargetRead(q) == q.pc \in {"owners", "save", "drop"} => q.row.role # None

(* Types of the tables and of the requests; no request goes on to a write  *)
(* without a row ("Member not found").                                     *)
TypeOK ==
    /\ life \in {"absent", "live", "deleted"}
    /\ member \in [Users -> MemberRow]
    /\ lastId \in Nat
    /\ req \in [Reqs -> Request]
    /\ overlapped \subseteq Reqs
    /\ \A r \in Reqs : TargetRead(req[r])

(* No member outlives the organization: an insert that was checked before  *)
(* a concurrent delete and lands after it is refused.                      *)
NoMembersWithoutOrg == life # "live" => \A u \in Users : ~IsMember(u)

(* A request saves or removes the membership it read, or is lost.          *)
Writes(r) == req[r].pc \in {"save", "drop"} /\ req'[r] = Idle

(* A request that waited never touches a membership created after its read *)
(* of the member (remove-member and update-member-role against a removal   *)
(* and a new invitation of the same user).                                 *)
OnlyTheRowThatWasRead ==
    [][\A r \in Reqs : Writes(r) =>
         \A u \in Users : member'[u] # member[u] =>
                            u = req[r].target /\ member[u].id = req[r].row.id]_vars

(* Past its read of the actor a request acts on authority it has seen.     *)
Authorised(r) == req[r].actorRole \in {"ADMIN", "OWNER"} \/ req[r].op = "create"

(* Nobody becomes ADMIN or OWNER unless somebody is, or a request that saw *)
(* somebody be is still running: authority lost by all is lost for good.   *)
AuthorityIsInherited ==
    [][(\A u \in Users : member[u].role \notin {"ADMIN", "OWNER"}) /\
       (\A r \in Reqs : ~Authorised(r)) =>
         \A u \in Users : member'[u].role \notin {"ADMIN", "OWNER"}]_vars

(* "An organization must keep at least one OWNER": the last OWNER goes     *)
(* with the organization, or to a removal or demotion that some other      *)
(* request overlapped.                                                     *)
OnlyOverlapsEndOwnership ==
    [][Owners # {} /\ Owners' = {} =>
         life' = "deleted" \/ \E r \in overlapped : Writes(r)]_vars

(* "Only an OWNER can demote another OWNER": but for overlaps, whoever     *)
(* demotes one was OWNER when its request read the role, and is another    *)
(* user.                                                                   *)
OnlyOwnersDemoteOwners ==
    [][\A u \in Users :
         member[u].role = "OWNER" /\ member'[u].role \in Roles \ {"OWNER"} =>
           \E r \in Reqs :
             /\ Writes(r)
             /\ r \in overlapped \/ (req[r].actorRole = "OWNER" /\ req[r].actor # u)]_vars

Rules == INSTANCE MembershipRules WITH role <- [u \in Users |-> member[u].role]

(* What the rules say of the very deed that q was sent for: by its actor,  *)
(* on its target, with the role in its body.                               *)
Deed(q) ==
    \/ q.op = "create" /\ (Rules!Open \/ Rules!Found(q.actor))
    \/ q.op = "add"    /\ Rules!Add(q.actor, q.target, q.role)
    \/ q.op = "role"   /\ Rules!Change(q.actor, q.target, q.role)
    \/ q.op = "remove" /\ Rules!Remove(q.actor, q.target)
    \/ q.op = "delete" /\ Rules!Close(q.actor)

(* Every change of the members is the deed of a request, and at that very  *)
(* moment its own actor has the authority, and its target the role, that   *)
(* the rules ask for, though they were read awaits before (the checks of   *)
(* the five use cases, remove-member's "assertMinimumRole(OWNER)" among    *)
(* them).  Only a request that another one overlapped may act outside the  *)
(* rules, and no creation does.                                            *)
OnlyOverlapsBreakRules ==
    [][UNCHANGED Rules!vars \/
       \E r \in Reqs : /\ req'[r] # req[r]
                       /\ \/ Deed(req[r])
                          \/ r \in overlapped /\ req[r].op # "create"]_vars

(* "An organization must keep at least one OWNER": the only step that      *)
(* takes the last OWNER away deletes the organization.                     *)
KeepsAnOwner == [][Owners # {} => Owners' # {} \/ life' = "deleted"]_vars
=============================================================================
