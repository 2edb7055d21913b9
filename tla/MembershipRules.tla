--------------------------- MODULE MembershipRules ---------------------------
(***************************************************************************)
(* What an organization promises its members, each rule in force at the    *)
(* moment of the change: who may change whose role, and that an OWNER is   *)
(* left for as long as the organization is.                                *)
(***************************************************************************)
CONSTANTS Users, None, GivenRoles

VARIABLES
    life,  \* absent, live or deleted
    role   \* user -> role, None of a user who is no member

vars == <<life, role>>

Nobody == [u \in Users |-> None]

Others(u) == Users \ {u}

Init == life = "absent" /\ role = Nobody

Open ==
    /\ life = "absent"
    /\ life' = "live"
    /\ UNCHANGED role

(* The creator of the organization is its first member.                    *)
Found(u) ==
    /\ life = "live"
    /\ role = Nobody
    /\ role' = [role EXCEPT ![u] = "OWNER"]
    /\ UNCHANGED life

(* a makes u a member.                                                     *)
Add(a, u, given) ==
    /\ role[a] \in {"ADMIN", "OWNER"}
    /\ role[u] = None
    /\ role' = [role EXCEPT ![u] = given]
    /\ UNCHANGED life

(* Only another OWNER demotes an OWNER.                                    *)
Change(a, u, given) ==
    /\ role[a] \in {"ADMIN", "OWNER"}
    /\ role[u] \notin {None, given}
    /\ role[u] = "OWNER" => role[a] = "OWNER" /\ a # u
    /\ role' = [role EXCEPT ![u] = given]
    /\ UNCHANGED life

(* Members leave, and OWNERs remove them; the last OWNER stays.            *)
Remove(a, u) ==
    /\ role[u] # None
    /\ a = u \/ role[a] = "OWNER"
    /\ role[u] = "OWNER" => \E v \in Others(u) : role[v] = "OWNER"
    /\ role' = [role EXCEPT ![u] = None]
    /\ UNCHANGED life

Close(a) ==
    /\ role[a] = "OWNER"
    /\ life' = "deleted"
    /\ role' = Nobody

Next ==
    \/ Open
    \/ \E u \in Users : Found(u) \/ Close(u)
    \/ \E a, u \in Users : Remove(a, u)
    \/ \E a, u \in Users, given \in GivenRoles : Add(a, u, given) \/ Change(a, u, given)

Spec == Init /\ [][Next]_vars
=============================================================================
