--------------------------- MODULE DomainLifecycle ---------------------------
(***************************************************************************)
(* What the custom domain of an organization promises its users: one       *)
(* domain at a time, held by one organization at a time, that goes from    *)
(* none to pending to active and back to none.  Only an inactive domain    *)
(* may be replaced.                                                        *)
(***************************************************************************)
CONSTANTS Orgs, Domains, None

VARIABLES domain, active

vars == <<domain, active>>

Init ==
    /\ domain = [o \in Orgs |-> None]
    /\ active = [o \in Orgs |-> FALSE]

Request(o, d) ==
    /\ ~active[o]
    /\ \A p \in Orgs \ {o} : domain[p] # d
    /\ domain' = [domain EXCEPT ![o] = d]
    /\ UNCHANGED active

Verify(o) ==
    /\ domain[o] # None
    /\ ~active[o]
    /\ active' = [active EXCEPT ![o] = TRUE]
    /\ UNCHANGED domain

(* Also the end of the organization.                                       *)
Release(o) ==
    /\ domain[o] # None
    /\ domain' = [domain EXCEPT ![o] = None]
    /\ active' = [active EXCEPT ![o] = FALSE]

Next == \E o \in Orgs : Verify(o) \/ Release(o) \/ \E d \in Domains : Request(o, d)

Spec == Init /\ [][Next]_vars
=============================================================================
