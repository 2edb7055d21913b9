--------------------------- MODULE MCTenantDomain ---------------------------
(***************************************************************************)
(* Instances of TenantDomain for TLC.  "api" is reserved, so that it wants *)
(* the subdomain that the slug "api-x" wants too; "long" is a slug of 60   *)
(* characters, and its suffix makes the label too long.                    *)
(***************************************************************************)
EXTENDS TenantDomain, SubdomainNames, TLC

Named(n) ==
    CASE n = "api"      -> [length |-> 3, reserved |-> TRUE]
      [] n = "api-x"    -> [length |-> 5, reserved |-> FALSE]
      [] n = "api-x-7"  -> [length |-> 7, reserved |-> FALSE]
      [] n = "long"     -> [length |-> 60, reserved |-> FALSE]
      [] n = "long-123" -> [length |-> 64, reserved |-> FALSE]

MCValidSubdomains == {n \in Subdomains : Create(Named(n)) = "created"}
MCBase == [s \in Slugs |-> IF s = "api" THEN "api-x" ELSE s]
MCSuffixed == [s \in Slugs |-> Subdomains \cap IF s = "long" THEN {"long-123"}
                                                   ELSE {"api-x-7"}]

(* The names stand for what the code makes of the slugs.                   *)
ASSUME NamesAreDerived ==
    \A s \in Slugs :
      /\ IsSlug(Named(s))
      /\ Named(Base[s]) = BaseOf(Named(s))
      /\ \A n \in Suffixed[s] : \E i \in {7, 123} : Named(n) = WithSuffix(Named(Base[s]), i)

Symmetry == Permutations(Orgs) \cup Permutations(Reqs)
            \cup Permutations(Domains) \cup Permutations(Tokens)
=============================================================================
