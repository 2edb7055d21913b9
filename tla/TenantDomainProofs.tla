------------------------- MODULE TenantDomainProofs -------------------------
(***************************************************************************)
(* Proofs about TenantDomain, for any number of organizations, requests,   *)
(* domains and tokens: types, DomainColumnsAgree, VerifiedWasProved,       *)
(* OnlyOverlapsDeactivate and OnlyOverlapsLeaveLifecycle; and, while no    *)
(* two requests for one organization overlap, OnlyRemovalDeactivates and   *)
(* LifecycleSpec.                                                          *)
(*                                                                         *)
(* The first two properties speak of the table, but a save copies a        *)
(* request's snapshot into it, so they are not inductive: IInv adds that   *)
(* every snapshot a request holds is itself settled and proved, and that a *)
(* check in progress holds a row with a token to check.                    *)
(*                                                                         *)
(* What ends an active domain needs more: AloneInv says what a request     *)
(* that no other one for its organization overlapped knows of the table.   *)
(***************************************************************************)
EXTENDS TenantDomain, TLAPS

Good(o, row, iss, sn) == Proved(o, row, iss, sn) /\ Settled(o, row, iss)

(* What a request holds at each of its awaits.                             *)
RequestOK(q, iss, sn) ==
    /\ q.pc \in {"authorize", "load", "unique", "lookup", "save", "delete"} =>
         /\ q.org \in Orgs
         /\ q.op \in Ops \ {"create"}
         /\ q.arg \in Inputs(q.op)
    /\ q.pc \in {"unique", "lookup", "save"} => Good(q.org, q.row, iss, sn)
    /\ q.pc = "lookup" => HasPendingCustomDomain(q.row)
    /\ q.pc \in {"slug", "provision", "insert"} => q.arg \in Slugs
    /\ q.pc = "insert" => q.row.domain = None /\ q.row.token = None /\ ~q.row.verified

IInv ==
    /\ TypeOK
    /\ \A o \in Orgs : Good(o, org[o], issued, seen)
    /\ \A r \in Reqs : RequestOK(req[r], issued, seen)

-----------------------------------------------------------------------------
(* Histories only grow, and growing keeps what was true of a row.          *)
LEMMA GoodGrows ==
    ASSUME NEW o, NEW row, NEW i1, NEW s1, NEW i2, NEW s2,
           i1 \subseteq i2, s1 \subseteq s2, Good(o, row, i1, s1)
    PROVE  Good(o, row, i2, s2)
BY DEF Good, Proved, Settled

(* A row without a custom domain is good for any organization.             *)
LEMMA NoDomainGood ==
    ASSUME NEW o, NEW row, NEW i, NEW s,
           row.domain = None, row.token = None, ~row.verified
    PROVE  Good(o, row, i, s)
BY DEF Good, Proved, Settled

LEMMA NoRowType == NoRow \in OrgRow
BY DEF NoRow, NewRow, OrgRow

LEMMA IdleOK ==
    ASSUME NEW i, NEW s
    PROVE  Idle \in Request /\ RequestOK(Idle, i, s)
<1>1. 0 \in 0 .. MaxAttempts
  BY ProvisionAssumption
<1>2. Idle \in Request
  BY <1>1, NoRowType DEF Idle, Request, Phases
<1>3. RequestOK(Idle, i, s)
  BY DEF RequestOK, Idle
<1> QED BY <1>2, <1>3

(***************************************************************************)
(* The frame of every action of a request r: it leaves r with q, leaves    *)
(* the other requests alone, lets the histories grow, and leaves a good    *)
(* table.                                                                  *)
(***************************************************************************)
LEMMA Frame ==
    ASSUME IInv, overlapped' \subseteq Reqs, NEW r \in Reqs, NEW q \in Request,
           req' = [req EXCEPT ![r] = q],
           RequestOK(q, issued', seen'),
           org' \in [Orgs -> OrgRow],
           \A o \in Orgs : Good(o, org'[o], issued', seen'),
           life' \in [Orgs -> {"absent", "live", "deleted"}],
           dns' \subseteq Domains \X Tokens,
           issued' \subseteq Orgs \X Domains \X Tokens, issued \subseteq issued',
           seen' \subseteq Domains \X Tokens, seen \subseteq seen'
    PROVE  IInv'
<1>1. req' \in [Reqs -> Request]
  BY DEF IInv, TypeOK
<1>2. ASSUME NEW p \in Reqs PROVE RequestOK(req'[p], issued', seen')
  <2>1. CASE p = r
    BY <2>1 DEF IInv, TypeOK
  <2>2. CASE p # r
    <3>1. req'[p] = req[p] /\ RequestOK(req[p], issued, seen)
      BY <2>2 DEF IInv, TypeOK
    <3>2. Good(req[p].org, req[p].row, issued, seen) =>
            Good(req[p].org, req[p].row, issued', seen')
      BY GoodGrows
    <3> QED BY <3>1, <3>2 DEF RequestOK
  <2> QED BY <2>1, <2>2
<1> QED BY <1>1, <1>2 DEF IInv, TypeOK

(* The common case: only the request changes.                              *)
LEMMA Quiet ==
    ASSUME IInv, overlapped' \subseteq Reqs, NEW r \in Reqs, NEW q \in Request,
           req' = [req EXCEPT ![r] = q], RequestOK(q, issued, seen),
           UNCHANGED <<tables, history>>
    PROVE  IInv'
<1>1. /\ org' = org /\ life' = life /\ dns' = dns
      /\ issued' = issued /\ seen' = seen
  BY DEF tables, history
<1> QED BY <1>1, Frame DEF IInv, TypeOK

LEMMA Ended ==
    ASSUME IInv, overlapped' \subseteq Reqs, NEW r \in Reqs,
           Finish(r), UNCHANGED <<tables, history>>
    PROVE  IInv'
BY IdleOK, Quiet DEF Finish

-----------------------------------------------------------------------------
(* One lemma per action                                                    *)

LEMMA BeginStep ==
    ASSUME IInv, overlapped' \subseteq Reqs, NEW r \in Reqs, BeginCreate(r) \/ Begin(r)
    PROVE  IInv'
<1>1. CASE BeginCreate(r)
  <2>1. PICK s \in Slugs :
          req' = [req EXCEPT ![r] = [Idle EXCEPT !.pc = "slug", !.op = "create",
                                                 !.arg = s]]
    BY <1>1 DEF BeginCreate, Inputs
  <2> DEFINE q == [Idle EXCEPT !.pc = "slug", !.op = "create", !.arg = s]
  <2>2. q \in Request
    BY IdleOK DEF Request, Phases, Ops
  <2>3. RequestOK(q, issued, seen)
    BY DEF RequestOK, Idle
  <2> QED BY <1>1, <2>1, <2>2, <2>3, Quiet DEF BeginCreate
<1>2. CASE Begin(r)
  <2>1. PICK o \in Orgs, op \in Ops \ {"create"} : \E a \in Inputs(op) :
          req' = [req EXCEPT ![r] = [Idle EXCEPT !.pc = "authorize", !.op = op,
                                                 !.org = o, !.arg = a]]
    BY <1>2 DEF Begin
  <2>2. PICK a \in Inputs(op) :
          req' = [req EXCEPT ![r] = [Idle EXCEPT !.pc = "authorize", !.op = op,
                                                 !.org = o, !.arg = a]]
    BY <2>1
  <2> DEFINE q == [Idle EXCEPT !.pc = "authorize", !.op = op, !.org = o, !.arg = a]
  <2>3. a \in Slugs \cup Subdomains \cup Domains \cup {None}
    BY InputsAssumption DEF Inputs, Ops
  <2>4. q \in Request
    BY IdleOK, <2>3 DEF Request, Phases
  <2>5. RequestOK(q, issued, seen)
    BY DEF RequestOK, Idle
  <2> QED BY <1>2, <2>2, <2>4, <2>5, Quiet DEF Begin
<1> QED BY <1>1, <1>2

LEMMA AuthorizeStep ==
    ASSUME IInv, overlapped' \subseteq Reqs, NEW r \in Reqs, Authorize(r)
    PROVE  IInv'
<1> DEFINE q == [req[r] EXCEPT !.pc = IF req[r].op = "delete" THEN "delete" ELSE "load"]
<1>1. req[r] \in Request /\ RequestOK(req[r], issued, seen)
  BY DEF IInv, TypeOK
<1>2. q \in Request
  BY <1>1 DEF Request, Phases
<1>3. RequestOK(q, issued, seen)
  BY <1>1 DEF RequestOK, Authorize, Request
<1>4. req' = [req EXCEPT ![r] = q]
  BY DEF Authorize, GoTo, IInv, TypeOK
<1> QED BY <1>2, <1>3, <1>4, Quiet DEF Authorize

(* A step that takes a good row for a write keeps the invariant.           *)
LEMMA HoldStep ==
    ASSUME IInv, overlapped' \subseteq Reqs, NEW r \in Reqs,
           NEW pc \in {"unique", "lookup", "save"},
           NEW row \in OrgRow, Hold(r, pc, row),
           req[r].pc \in {"load", "unique", "lookup"},
           issued \subseteq issued', issued' \subseteq Orgs \X Domains \X Tokens,
           seen \subseteq seen', seen' \subseteq Domains \X Tokens,
           Good(req[r].org, row, issued', seen'),
           pc = "lookup" => HasPendingCustomDomain(row),
           UNCHANGED <<tables, dns>>
    PROVE  IInv'
<1> DEFINE q == [req[r] EXCEPT !.pc = pc, !.row = row]
<1>1. req[r] \in Request /\ RequestOK(req[r], issued, seen)
  BY DEF IInv, TypeOK
<1>2. q \in Request
  BY <1>1 DEF Request, Phases
<1>3. RequestOK(q, issued', seen')
  BY <1>1 DEF RequestOK, Request
<1>4. req' = [req EXCEPT ![r] = q]
  BY DEF Hold, IInv, TypeOK
<1>5. org' = org /\ life' = life /\ dns' = dns
  BY DEF tables
<1>6. \A o \in Orgs : Good(o, org'[o], issued', seen')
  BY <1>5, GoodGrows DEF IInv
<1> QED BY <1>2, <1>3, <1>4, <1>5, <1>6, Frame DEF IInv, TypeOK

(* A row just read is good, and so is what a removal makes of it.          *)
LEMMA LoadStep ==
    ASSUME IInv, overlapped' \subseteq Reqs, NEW r \in Reqs,
           \/ LoadForUpdate(r) \/ LoadForName(r)
           \/ LoadForVerify(r) \/ LoadForRemove(r)
    PROVE  IInv'
<1> DEFINE o == req[r].org
<1>1. o \in Orgs /\ req[r].pc = "load"
  BY DEF IInv, RequestOK, LoadForUpdate, LoadForName, LoadForVerify, LoadForRemove,
         At, Live
<1>2. org[o] \in OrgRow /\ Good(o, org[o], issued, seen)
  BY <1>1 DEF IInv, TypeOK
<1>3. RemovedRow(org[o]) \in OrgRow /\ Good(o, RemovedRow(org[o]), issued, seen)
  <2>1. RemovedRow(org[o]) \in OrgRow
    BY <1>2 DEF RemovedRow, OrgRow
  <2> QED BY <1>2, <2>1, NoDomainGood DEF RemovedRow, OrgRow
<1>4. UNCHANGED <<tables, history>>
  BY DEF LoadForUpdate, LoadForName, LoadForVerify, LoadForRemove
<1>5. /\ UNCHANGED <<tables, dns>> /\ issued' = issued /\ seen' = seen
      /\ issued \subseteq Orgs \X Domains \X Tokens
      /\ seen \subseteq Domains \X Tokens
  BY <1>4 DEF history, IInv, TypeOK
<1>6. CASE LoadForUpdate(r)
  <2>1. PICK pc \in {"save", "unique"} : Hold(r, pc, org[o])
    BY <1>6 DEF LoadForUpdate
  <2> QED BY <1>1, <1>2, <1>5, <2>1, HoldStep
<1>7. CASE LoadForName(r)
  <2>1. Hold(r, "unique", org[o])
    BY <1>7 DEF LoadForName
  <2> QED BY <1>1, <1>2, <1>5, <2>1, HoldStep
<1>8. CASE LoadForVerify(r)
  <2>1. CASE HasPendingCustomDomain(org[o])
    <3>1. Hold(r, "lookup", org[o])
      BY <1>8, <2>1 DEF LoadForVerify
    <3> QED BY <1>1, <1>2, <1>5, <2>1, <3>1, HoldStep
  <2>2. CASE ~HasPendingCustomDomain(org[o])
    BY <1>8, <1>4, <2>2, Ended DEF LoadForVerify
  <2> QED BY <2>1, <2>2
<1>9. CASE LoadForRemove(r)
  <2>1. CASE org[o].domain # None
    <3>1. Hold(r, "save", RemovedRow(org[o]))
      BY <1>9, <2>1 DEF LoadForRemove
    <3> QED BY <1>1, <1>3, <1>5, <3>1, HoldStep
  <2>2. CASE org[o].domain = None
    BY <1>9, <1>4, <2>2, Ended DEF LoadForRemove
  <2> QED BY <2>1, <2>2
<1> QED BY <1>6, <1>7, <1>8, <1>9

(* The checks for uniqueness, and the request that stages a domain under a *)
(* token just issued.                                                      *)
LEMMA UniqueStep ==
    ASSUME IInv, overlapped' \subseteq Reqs, NEW r \in Reqs,
           \/ UniqueSlug(r) \/ UniqueSubdomain(r)
           \/ UniqueDomainRefused(r) \/ UniqueDomain(r)
    PROVE  IInv'
<1> DEFINE o == req[r].org
           row == req[r].row
           a == req[r].arg
<1>1. req[r] \in Request /\ RequestOK(req[r], issued, seen) /\ req[r].pc = "unique"
  BY DEF IInv, TypeOK, UniqueSlug, UniqueSubdomain, UniqueDomainRefused,
         UniqueDomain, At
<1>2. o \in Orgs /\ row \in OrgRow /\ Good(o, row, issued, seen)
  BY <1>1 DEF RequestOK, Request
<1>3. /\ issued \subseteq Orgs \X Domains \X Tokens
      /\ seen \subseteq Domains \X Tokens
  BY DEF IInv, TypeOK
<1>4. CASE UniqueSlug(r)
  <2> DEFINE new == [row EXCEPT !.slug = a]
  <2>1. UNCHANGED <<tables, history>>
    BY <1>4 DEF UniqueSlug
  <2>2. CASE Finish(r)
    BY <2>1, <2>2, Ended
  <2>3. CASE Hold(r, "save", new)
    <3>1. a \in Slugs \cup {None}
      BY <1>4, <1>1, InputsAssumption DEF UniqueSlug, At, RequestOK, Inputs
    <3>2. new \in OrgRow /\ Good(o, new, issued, seen)
      BY <1>2, <3>1 DEF OrgRow, Good, Proved, Settled
    <3>3. UNCHANGED <<tables, dns>> /\ issued' = issued /\ seen' = seen
      BY <2>1 DEF history
    <3> QED BY <1>1, <1>3, <2>3, <3>2, <3>3, HoldStep
  <2> QED BY <1>4, <2>2, <2>3 DEF UniqueSlug
<1>5. CASE UniqueSubdomain(r)
  <2> DEFINE new == [row EXCEPT !.subdomain = a]
  <2>1. UNCHANGED <<tables, history>>
    BY <1>5 DEF UniqueSubdomain
  <2>2. CASE Finish(r)
    BY <2>1, <2>2, Ended
  <2>3. CASE Hold(r, "save", new)
    <3>1. a \in Subdomains
      BY <1>5, <1>1, InputsAssumption DEF UniqueSubdomain, At, RequestOK, Inputs
    <3>2. new \in OrgRow /\ Good(o, new, issued, seen)
      BY <1>2, <3>1 DEF OrgRow, Good, Proved, Settled
    <3>3. UNCHANGED <<tables, dns>> /\ issued' = issued /\ seen' = seen
      BY <2>1 DEF history
    <3> QED BY <1>1, <1>3, <2>3, <3>2, <3>3, HoldStep
  <2> QED BY <1>5, <2>2, <2>3 DEF UniqueSubdomain
<1>6. CASE UniqueDomainRefused(r)
  BY <1>6, Ended DEF UniqueDomainRefused
<1>7. CASE UniqueDomain(r)
  <2>1. PICK t \in Tokens :
          /\ issued' = issued \cup {<<o, a, t>>}
          /\ Hold(r, "save", RequestedRow(row, a, t))
    BY <1>7 DEF UniqueDomain
  <2> DEFINE new == RequestedRow(row, a, t)
  <2>2. a \in Domains
    BY <1>7, <1>1 DEF UniqueDomain, At, RequestOK, Inputs
  <2>3. new \in OrgRow
    BY <1>2, <2>2 DEF OrgRow, RequestedRow
  <2>4. /\ new.domain = a /\ new.token = t /\ ~new.verified /\ a # None
    BY <1>2, <2>2, NullAssumption DEF OrgRow, RequestedRow
  <2>5. Good(o, new, issued', seen)
    BY <2>1, <2>4 DEF Good, Proved, Settled
  <2>6. UNCHANGED <<tables, dns>> /\ seen' = seen
    BY <1>7 DEF UniqueDomain
  <2>7. issued' \subseteq Orgs \X Domains \X Tokens
    BY <1>2, <1>3, <2>1, <2>2
  <2> QED BY <1>1, <1>3, <2>1, <2>3, <2>5, <2>6, <2>7, HoldStep
<1> QED BY <1>4, <1>5, <1>6, <1>7

(* A lookup that finds the token proves the row it holds.                  *)
LEMMA LookupStep ==
    ASSUME IInv, overlapped' \subseteq Reqs, NEW r \in Reqs,
           LookupFound(r) \/ LookupNotFound(r)
    PROVE  IInv'
<1>1. CASE LookupFound(r)
  <2> DEFINE o == req[r].org
             row == req[r].row
             new == VerifiedRow(row)
  <2>1. req[r] \in Request /\ RequestOK(req[r], issued, seen) /\ req[r].pc = "lookup"
    BY <1>1 DEF IInv, TypeOK, LookupFound, At
  <2>2. /\ o \in Orgs /\ row \in OrgRow
        /\ Good(o, row, issued, seen) /\ HasPendingCustomDomain(row)
    BY <2>1 DEF RequestOK, Request
  <2>3. /\ row.domain \in Domains /\ row.token \in Tokens
        /\ <<o, row.domain, row.token>> \in issued
    BY <2>2 DEF HasPendingCustomDomain, Good, Settled, OrgRow
  <2>4. /\ new \in OrgRow /\ new.domain = row.domain
        /\ new.token = None /\ new.verified
    BY <2>2 DEF VerifiedRow, OrgRow
  <2>5. /\ seen' = seen \cup {<<row.domain, row.token>>}
        /\ UNCHANGED <<tables, dns>> /\ issued' = issued
        /\ Hold(r, "save", new)
    BY <1>1 DEF LookupFound
  <2>6. Good(o, new, issued', seen')
    BY <2>2, <2>3, <2>4, <2>5 DEF Good, Proved, Settled, HasPendingCustomDomain
  <2>7. seen' \subseteq Domains \X Tokens
    BY <2>3, <2>5 DEF IInv, TypeOK
  <2>8. issued \subseteq Orgs \X Domains \X Tokens
    BY DEF IInv, TypeOK
  <2> QED BY <2>1, <2>4, <2>5, <2>6, <2>7, <2>8, HoldStep
<1>2. CASE LookupNotFound(r)
  BY <1>2, Ended DEF LookupNotFound
<1> QED BY <1>1, <1>2

(* A write of a good row, or of no row, leaves a good table.               *)
LEMMA WriteStep ==
    ASSUME IInv, overlapped' \subseteq Reqs,
           NEW r \in Reqs, NEW o \in Orgs, NEW row \in OrgRow,
           Good(o, row, issued, seen), org' = [org EXCEPT ![o] = row],
           NEW l \in {"absent", "live", "deleted"},
           life' = life \/ life' = [life EXCEPT ![o] = l],
           Finish(r), UNCHANGED history
    PROVE  IInv'
<1>1. dns' = dns /\ issued' = issued /\ seen' = seen
  BY DEF history
<1>2. org' \in [Orgs -> OrgRow] /\ life' \in [Orgs -> {"absent", "live", "deleted"}]
  BY DEF IInv, TypeOK
<1>3. \A p \in Orgs : Good(p, org'[p], issued', seen')
  BY <1>1 DEF IInv, TypeOK
<1>4. Idle \in Request /\ RequestOK(Idle, issued', seen')
  BY IdleOK
<1>5. req' = [req EXCEPT ![r] = Idle]
  BY DEF Finish
<1> QED BY <1>1, <1>2, <1>3, <1>4, <1>5, Frame DEF IInv, TypeOK

LEMMA SaveStep ==
    ASSUME IInv, overlapped' \subseteq Reqs, NEW r \in Reqs,
           SaveRefused(r) \/ Save(r) \/ Delete(r)
    PROVE  IInv'
<1>1. req[r] \in Request /\ RequestOK(req[r], issued, seen)
  BY DEF IInv, TypeOK
<1>2. CASE SaveRefused(r)
  BY <1>2, Ended DEF SaveRefused
<1>3. CASE Save(r)
  <2>1. /\ req[r].org \in Orgs /\ req[r].row \in OrgRow
        /\ Good(req[r].org, req[r].row, issued, seen)
    BY <1>1, <1>3 DEF Save, RequestOK, Request
  <2>2. /\ org' = [org EXCEPT ![req[r].org] = req[r].row]
        /\ life' = life /\ Finish(r) /\ UNCHANGED history
    BY <1>3 DEF Save, SavedRow
  <2> QED BY <2>1, <2>2, WriteStep
<1>4. CASE Delete(r)
  <2>1. req[r].org \in Orgs
    BY <1>1, <1>4 DEF Delete, RequestOK
  <2>2. Good(req[r].org, NoRow, issued, seen)
    BY NoDomainGood DEF NoRow, NewRow
  <2>3. /\ org' = [org EXCEPT ![req[r].org] = NoRow]
        /\ life' = [life EXCEPT ![req[r].org] = "deleted"]
        /\ Finish(r) /\ UNCHANGED history
    BY <1>4 DEF Delete
  <2> QED BY <2>1, <2>2, <2>3, NoRowType, WriteStep
<1> QED BY <1>2, <1>3, <1>4

LEMMA CreateStep ==
    ASSUME IInv, overlapped' \subseteq Reqs, NEW r \in Reqs,
           FindSlug(r) \/ Provision(r) \/ InsertRefused(r) \/ Insert(r)
    PROVE  IInv'
<1>1. req[r] \in Request /\ RequestOK(req[r], issued, seen)
  BY DEF IInv, TypeOK
<1>2. CASE FindSlug(r)
  <2> DEFINE q == [req[r] EXCEPT !.pc = "provision"]
  <2>1. CASE Finish(r)
    BY <1>2, <2>1, Ended DEF FindSlug
  <2>2. CASE GoTo(r, "provision")
    <3>1. q \in Request
      BY <1>1 DEF Request, Phases
    <3>2. RequestOK(q, issued, seen)
      BY <1>1, <1>2 DEF RequestOK, Request, FindSlug
    <3>3. req' = [req EXCEPT ![r] = q]
      BY <2>2 DEF GoTo, IInv, TypeOK
    <3> QED BY <1>2, <3>1, <3>2, <3>3, Quiet DEF FindSlug
  <2> QED BY <1>2, <2>1, <2>2 DEF FindSlug
<1>3. CASE Provision(r)
  <2> DEFINE s == req[r].arg
  <2>1. s \in Slugs
    BY <1>1, <1>3 DEF Provision, RequestOK
  <2>2. PICK sub \in Candidates(s, req[r].tries) :
          \/ Hold(r, "insert", NewRow(s, sub))
          \/ Finish(r)
          \/ /\ AttemptsLeft(req[r].tries)
             /\ req' = [req EXCEPT ![r].tries = @ + 1]
    BY <1>3 DEF Provision, NextTry
  <2>3. UNCHANGED <<tables, history>>
    BY <1>3 DEF Provision
  <2>4. sub \in Subdomains
    BY <2>1, ProvisionAssumption DEF Candidates
  <2>5. CASE Hold(r, "insert", NewRow(s, sub))
    <3> DEFINE q == [req[r] EXCEPT !.pc = "insert", !.row = NewRow(s, sub)]
    <3>1. NewRow(s, sub) \in OrgRow
      BY <2>1, <2>4 DEF NewRow, OrgRow
    <3>2. q \in Request
      BY <1>1, <3>1 DEF Request, Phases
    <3>3. RequestOK(q, issued, seen)
      BY <1>1, <2>1 DEF RequestOK, Request, NewRow
    <3>4. req' = [req EXCEPT ![r] = q]
      BY <2>5 DEF Hold, IInv, TypeOK
    <3> QED BY <2>3, <3>2, <3>3, <3>4, Quiet
  <2>6. CASE Finish(r)
    BY <2>3, <2>6, Ended
  <2>7. CASE /\ AttemptsLeft(req[r].tries)
             /\ req' = [req EXCEPT ![r].tries = @ + 1]
    <3> DEFINE q == [req[r] EXCEPT !.tries = @ + 1]
    <3>1. req[r].tries + 1 \in 0 .. MaxAttempts
      BY <1>1, <2>7, ProvisionAssumption DEF AttemptsLeft, Request
    <3>2. q \in Request
      BY <1>1, <3>1 DEF Request
    <3>3. RequestOK(q, issued, seen)
      BY <1>1 DEF RequestOK, Request
    <3>4. req' = [req EXCEPT ![r] = q]
      BY <2>7 DEF IInv, TypeOK
    <3> QED BY <2>3, <3>2, <3>3, <3>4, Quiet
  <2> QED BY <2>2, <2>5, <2>6, <2>7
<1>4. CASE InsertRefused(r)
  BY <1>4, Ended DEF InsertRefused
<1>5. CASE Insert(r)
  <2>1. PICK o \in Orgs : /\ life' = [life EXCEPT ![o] = "live"]
                          /\ org' = [org EXCEPT ![o] = req[r].row]
    BY <1>5 DEF Insert
  <2>2. req[r].row \in OrgRow /\ Good(o, req[r].row, issued, seen)
    BY <1>1, <1>5, NoDomainGood DEF Insert, RequestOK, Request
  <2>3. Finish(r) /\ UNCHANGED history
    BY <1>5 DEF Insert
  <2> QED BY <2>1, <2>2, <2>3, WriteStep
<1> QED BY <1>2, <1>3, <1>4, <1>5

LEMMA EnvironmentStep ==
    ASSUME IInv, overlapped' \subseteq Reqs, PublishTxt \/ WithdrawTxt \/ Crash
    PROVE  IInv'
<1>1. CASE PublishTxt \/ WithdrawTxt
  <2>1. dns' \subseteq Domains \X Tokens
    BY <1>1 DEF PublishTxt, WithdrawTxt, IInv, TypeOK
  <2>2. /\ org' = org /\ life' = life /\ req' = req
        /\ issued' = issued /\ seen' = seen
    BY <1>1 DEF PublishTxt, WithdrawTxt, tables
  <2> QED BY <2>1, <2>2 DEF IInv, TypeOK
<1>2. CASE Crash
  <2>1. /\ org' = org /\ life' = life /\ dns' = dns
        /\ issued' = issued /\ seen' = seen
    BY <1>2 DEF Crash, tables, history
  <2>2. \A r \in Reqs : req'[r] = Idle \/ req'[r] = req[r]
    BY <1>2 DEF Crash
  <2>3. \A r \in Reqs : req'[r] \in Request /\ RequestOK(req'[r], issued, seen)
    BY <2>2, IdleOK DEF IInv, TypeOK
  <2>4. req' \in [Reqs -> Request]
    BY <1>2, <2>3 DEF Crash
  <2> QED BY <2>1, <2>3, <2>4 DEF IInv, TypeOK
<1> QED BY <1>1, <1>2

-----------------------------------------------------------------------------
(* IInv is inductive.                                                      *)
LEMMA StepInductive == IInv /\ [Next]_vars => IInv'
<1> SUFFICES ASSUME IInv, [Next]_vars PROVE IInv'
  OBVIOUS
<1> overlapped' \subseteq Reqs
  BY DEF Next, Watch, vars, IInv, TypeOK
<1>1. ASSUME NEW r \in Reqs, BeginCreate(r) \/ Begin(r) PROVE IInv'
  BY <1>1, BeginStep
<1>2. ASSUME NEW r \in Reqs, Step(r) PROVE IInv'
  <2>1. CASE Refuse(r)
    BY <2>1, Ended DEF Refuse
  <2>2. CASE LoadMissing(r)
    BY <2>2, Ended DEF LoadMissing
  <2> QED BY <1>2, <2>1, <2>2, AuthorizeStep, LoadStep, UniqueStep, LookupStep,
             SaveStep, CreateStep DEF Step
<1>3. CASE PublishTxt \/ WithdrawTxt \/ Crash
  BY <1>3, EnvironmentStep
<1>4. CASE UNCHANGED vars
  BY <1>4 DEF vars, IInv, TypeOK
<1> QED BY <1>1, <1>2, <1>3, <1>4 DEF Next

LEMMA Inductive == Spec => []IInv
<1>1. Init => IInv
  <2> SUFFICES ASSUME Init PROVE IInv
    OBVIOUS
  <2>1. TypeOK
    BY IdleOK, NoRowType DEF Init, TypeOK
  <2>2. \A o \in Orgs : Good(o, org[o], issued, seen)
    BY NoDomainGood DEF Init, NoRow, NewRow
  <2>3. \A r \in Reqs : RequestOK(req[r], issued, seen)
    BY IdleOK DEF Init
  <2> QED BY <2>1, <2>2, <2>3 DEF IInv
<1> QED BY <1>1, StepInductive, PTL DEF Spec

(* Every reachable state is typed, for every value of the constants.       *)
THEOREM TypeCorrect == Spec => []TypeOK
<1>1. IInv => TypeOK
  BY DEF IInv
<1> QED BY <1>1, Inductive, PTL

(* The custom domain columns of a stored row agree, whatever requests      *)
(* overlap: a save writes the three columns of one snapshot.               *)
THEOREM ColumnsAgree == Spec => []DomainColumnsAgree
<1>1. IInv => DomainColumnsAgree
  BY DEF IInv, DomainColumnsAgree, Good
<1> QED BY <1>1, Inductive, PTL

(* A stored verified domain was proved by its organization, whatever       *)
(* requests overlap, tokens are regenerated, records are withdrawn and     *)
(* processes crash.                                                        *)
THEOREM VerificationSound == Spec => []VerifiedWasProved
<1>1. IInv => VerifiedWasProved
  BY DEF IInv, VerifiedWasProved, Good
<1> QED BY <1>1, Inductive, PTL

-----------------------------------------------------------------------------
(***************************************************************************)
(* What a request that no other one for its organization overlapped holds  *)
(* is the stored row or what its own use case made of it.  A row that is   *)
(* not live is empty, and no request is for an organization yet to come.   *)
(***************************************************************************)
SameDomain(row, s) ==
    row.domain = s.domain /\ row.token = s.token /\ row.verified = s.verified

Fresh(q) ==
    LET s == org[q.org] IN
    /\ q.pc \in {"load", "unique", "lookup", "save"} => q.op \notin {"create", "delete"}
    /\ q.pc = "delete" => q.op = "delete"
    /\ q.pc \in {"unique", "lookup"} => q.row = s
    /\ q.pc = "save" =>
         /\ q.op \in {"update", "subdomain"} => SameDomain(q.row, s)
         /\ q.op = "request" => ~IsActive(s) /\ q.row.domain # None /\ ~q.row.verified
         /\ q.op = "verify" => /\ ~IsActive(s) /\ s.domain # None
                              /\ q.row.domain = s.domain /\ q.row.verified
         /\ q.op = "remove" => q.row.domain = None

AloneInv ==
    /\ \A r \in Reqs \ overlapped : Fresh(req[r])
    /\ \A r \in Reqs \ overlapped, p \in Reqs :
         p # r /\ req[r].org # None => req[p].org # req[r].org
    /\ \A o \in Orgs \ Live : org[o] = NoRow
    /\ \A r \in Reqs : req[r].org \in Orgs => life[req[r].org] # "absent"

LEMMA IdleFresh == Fresh(Idle)
BY DEF Fresh, Idle

(* A step of a request that leaves the table alone                         *)
LEMMA FreshHeld ==
    ASSUME IInv, NEW r \in Reqs, NEW q,
           req' = [req EXCEPT ![r] = q], Fresh(q), UNCHANGED tables
    PROVE  Fresh(req[r])'
<1>1. org' = org /\ req'[r] = q
  BY DEF tables, IInv, TypeOK
<1>2. Fresh(q)'
  BY <1>1 DEF Fresh, IsActive, SameDomain
<1> QED BY <1>1, <1>2 DEF Fresh, IsActive, SameDomain

LEMMA FreshEnded ==
    ASSUME IInv, NEW r \in Reqs, Finish(r)
    PROVE  Fresh(req[r])'
<1>1. req'[r] = Idle
  BY DEF Finish, IInv, TypeOK
<1> QED BY <1>1 DEF Fresh, Idle

(* A fresh request stays fresh by its own steps.                           *)
LEMMA FreshStep ==
    ASSUME IInv, NEW r \in Reqs, Fresh(req[r]),
           BeginCreate(r) \/ Begin(r) \/ Step(r)
    PROVE  Fresh(req[r])'
<1> DEFINE q == req[r]
           s == org[q.org]
<1>1. /\ req \in [Reqs -> Request] /\ q \in Request /\ RequestOK(q, issued, seen)
      /\ Fresh(q) /\ r \in Reqs
  BY DEF IInv, TypeOK
<1>2. ASSUME NEW pc, NEW row, Hold(r, pc, row), UNCHANGED tables,
             Fresh([q EXCEPT !.pc = pc, !.row = row])
      PROVE  Fresh(req[r])'
  <2>1. req' = [req EXCEPT ![r] = [q EXCEPT !.pc = pc, !.row = row]]
    BY <1>1, <1>2 DEF Hold
  <2> QED BY <1>2, <2>1, FreshHeld
<1>3. CASE BeginCreate(r) \/ Begin(r)
  <2>1. ASSUME NEW p, req' = [req EXCEPT ![r] = p], p.pc \in {"slug", "authorize"}
        PROVE  Fresh(req[r])'
    <3>1. Fresh(p) /\ UNCHANGED tables
      BY <1>3, <2>1 DEF Fresh, BeginCreate, Begin
    <3> QED BY <2>1, <3>1, FreshHeld
  <2>2. CASE BeginCreate(r)
    <3>1. PICK a : req' = [req EXCEPT ![r] = [Idle EXCEPT !.pc = "slug", !.op = "create",
                                                          !.arg = a]]
      BY <2>2 DEF BeginCreate
    <3> DEFINE p == [Idle EXCEPT !.pc = "slug", !.op = "create", !.arg = a]
    <3>2. p.pc = "slug"
      BY DEF Idle
    <3> QED BY <2>1, <3>1, <3>2
  <2>3. CASE Begin(r)
    <3>1. PICK o, op, a :
            req' = [req EXCEPT ![r] = [Idle EXCEPT !.pc = "authorize", !.op = op,
                                                   !.org = o, !.arg = a]]
      BY <2>3 DEF Begin
    <3> DEFINE p == [Idle EXCEPT !.pc = "authorize", !.op = op, !.org = o, !.arg = a]
    <3>2. p.pc = "authorize"
      BY DEF Idle
    <3> QED BY <2>1, <3>1, <3>2
  <2> QED BY <1>3, <2>2, <2>3
<1>4. CASE Refuse(r) \/ LoadMissing(r) \/ UniqueDomainRefused(r) \/ LookupNotFound(r)
           \/ SaveRefused(r) \/ InsertRefused(r)
  BY <1>4, FreshEnded DEF Refuse, LoadMissing, UniqueDomainRefused, LookupNotFound,
     SaveRefused, InsertRefused
<1>5. CASE Authorize(r)
  <2> DEFINE p == [q EXCEPT !.pc = IF q.op = "delete" THEN "delete" ELSE "load"]
  <2>1. Fresh(p)
    BY <1>1, <1>5 DEF Authorize, Fresh, RequestOK, Request
  <2>2. req' = [req EXCEPT ![r] = p] /\ UNCHANGED tables
    BY <1>1, <1>5 DEF Authorize, GoTo
  <2> QED BY <2>1, <2>2, FreshHeld
<1>6. CASE LoadForUpdate(r) \/ LoadForName(r) \/ LoadForVerify(r) \/ LoadForRemove(r)
  <2>1. UNCHANGED tables /\ q.pc = "load"
    BY <1>6 DEF LoadForUpdate, LoadForName, LoadForVerify, LoadForRemove, At
  <2>2. CASE Finish(r)
    BY <2>1, <2>2, FreshEnded
  <2>3. CASE LoadForUpdate(r)
    <3>1. PICK pc \in {"save", "unique"} : Hold(r, pc, s)
      BY <2>3 DEF LoadForUpdate
    <3>2. Fresh([q EXCEPT !.pc = pc, !.row = s])
      BY <1>1, <2>1, <2>3 DEF LoadForUpdate, At, Fresh, SameDomain, Request
    <3> QED BY <1>2, <2>1, <3>1, <3>2
  <2>4. CASE LoadForName(r)
    <3>1. Hold(r, "unique", s)
      BY <2>4 DEF LoadForName
    <3>2. Fresh([q EXCEPT !.pc = "unique", !.row = s])
      BY <1>1, <2>1 DEF Fresh, Request
    <3> QED BY <1>2, <2>1, <3>1, <3>2
  <2>5. CASE LoadForVerify(r) /\ ~Finish(r)
    <3>1. Hold(r, "lookup", s)
      BY <2>5 DEF LoadForVerify
    <3>2. Fresh([q EXCEPT !.pc = "lookup", !.row = s])
      BY <1>1, <2>1 DEF Fresh, Request
    <3> QED BY <1>2, <2>1, <3>1, <3>2
  <2>6. CASE LoadForRemove(r) /\ ~Finish(r)
    <3>1. Hold(r, "save", RemovedRow(s)) /\ q.op = "remove" /\ s \in OrgRow
      BY <1>1, <2>6 DEF LoadForRemove, At, IInv, TypeOK, Live
    <3>2. RemovedRow(s).domain = None
      BY <3>1 DEF RemovedRow, OrgRow
    <3>3. Fresh([q EXCEPT !.pc = "save", !.row = RemovedRow(s)])
      BY <1>1, <3>1, <3>2 DEF Fresh, Request
    <3> QED BY <1>2, <2>1, <3>1, <3>3
  <2> QED BY <1>6, <2>2, <2>3, <2>4, <2>5, <2>6
<1>7. CASE UniqueSlug(r) \/ UniqueSubdomain(r)
  <2>1. UNCHANGED tables /\ q.pc = "unique" /\ q.op \in {"update", "subdomain"}
        /\ q.row = s /\ q.row \in OrgRow
    BY <1>1, <1>7 DEF UniqueSlug, UniqueSubdomain, At, Fresh, Request
  <2>2. CASE Finish(r)
    BY <2>1, <2>2, FreshEnded
  <2>3. ASSUME NEW row, Hold(r, "save", row), SameDomain(row, s)
        PROVE  Fresh(req[r])'
    <3>1. Fresh([q EXCEPT !.pc = "save", !.row = row])
      BY <1>1, <2>1, <2>3 DEF Fresh, Request
    <3> QED BY <1>2, <2>1, <2>3, <3>1
  <2>4. \A v : /\ SameDomain([q.row EXCEPT !.slug = v], s)
               /\ SameDomain([q.row EXCEPT !.subdomain = v], s)
    BY <2>1 DEF SameDomain, OrgRow
  <2> QED BY <1>7, <2>2, <2>3, <2>4 DEF UniqueSlug, UniqueSubdomain
<1>8. CASE UniqueDomain(r)
  <2>1. /\ UNCHANGED tables /\ q.op = "request" /\ q.row = s /\ q.row \in OrgRow
        /\ ~IsActive(s) /\ q.arg \in Domains
    BY <1>1, <1>8 DEF UniqueDomain, At, Fresh, Request, CanRequestCustomDomain,
       RequestOK, Inputs
  <2>2. PICK t \in Tokens : Hold(r, "save", RequestedRow(q.row, q.arg, t))
    BY <1>8 DEF UniqueDomain
  <2> DEFINE row == RequestedRow(q.row, q.arg, t)
  <2>3. row.domain # None /\ ~row.verified
    BY <2>1, NullAssumption DEF RequestedRow, OrgRow
  <2>4. Fresh([q EXCEPT !.pc = "save", !.row = row])
    BY <1>1, <2>1, <2>3 DEF Fresh, Request
  <2> QED BY <1>2, <2>1, <2>2, <2>4
<1>9. CASE LookupFound(r)
  <2>1. /\ UNCHANGED tables /\ q.op = "verify" /\ q.row = s /\ q.row \in OrgRow
        /\ Hold(r, "save", VerifiedRow(q.row))
        /\ HasPendingCustomDomain(s) /\ Settled(q.org, s, issued)
    BY <1>1, <1>9 DEF LookupFound, At, Fresh, Request, RequestOK, Good
  <2>2. ~IsActive(s) /\ s.domain # None
    BY <2>1 DEF HasPendingCustomDomain, Settled, IsActive
  <2>3. VerifiedRow(q.row).domain = s.domain /\ VerifiedRow(q.row).verified
    BY <2>1 DEF VerifiedRow, OrgRow
  <2>4. Fresh([q EXCEPT !.pc = "save", !.row = VerifiedRow(q.row)])
    BY <1>1, <2>1, <2>2, <2>3 DEF Fresh, Request
  <2> QED BY <1>2, <2>1, <2>4
<1>10. CASE FindSlug(r) \/ Provision(r)
  <2>1. PICK p : req' = [req EXCEPT ![r] = p] /\ p.pc \in {"idle", "provision", "insert"}
    BY <1>1, <1>10 DEF FindSlug, Provision, GoTo, Hold, Finish, Idle, Request
  <2>2. Fresh(p) /\ UNCHANGED tables
    BY <1>10, <2>1 DEF Fresh, FindSlug, Provision
  <2> QED BY <2>1, <2>2, FreshHeld
<1>11. CASE Save(r) \/ Delete(r) \/ Insert(r)
  BY <1>11, FreshEnded DEF Save, Delete, Insert
<1> QED BY <1>3, <1>4, <1>5, <1>6, <1>7, <1>8, <1>9, <1>10, <1>11 DEF Step

(* Which rows a step of a request touches: its own organization's by a     *)
(* save or a delete, that of an id not used yet by an insert.              *)
LEMMA RowsTouched ==
    ASSUME IInv, NEW r \in Reqs, BeginCreate(r) \/ Begin(r) \/ Step(r)
    PROVE  \/ org' = org /\ life' = life
           \/ /\ Save(r) /\ req[r].org \in Live /\ life' = life
              /\ org' = [org EXCEPT ![req[r].org] = req[r].row]
           \/ /\ Delete(r) /\ req[r].org \in Orgs
              /\ org' = [org EXCEPT ![req[r].org] = NoRow]
              /\ life' = [life EXCEPT ![req[r].org] = "deleted"]
           \/ /\ Insert(r)
              /\ \E o \in Orgs : /\ life[o] = "absent"
                                /\ org' = [org EXCEPT ![o] = req[r].row]
                                /\ life' = [life EXCEPT ![o] = "live"]
<1>1. CASE Save(r)
  BY <1>1 DEF Save, SavedRow
<1>2. CASE Delete(r)
  BY <1>2 DEF Delete, IInv, RequestOK
<1>3. CASE Insert(r)
  BY <1>3 DEF Insert
<1>4. CASE ~(Save(r) \/ Delete(r) \/ Insert(r))
  BY <1>4 DEF Step, tables, BeginCreate, Begin, Refuse, Authorize, LoadMissing,
     LoadForUpdate, LoadForName, LoadForVerify, LoadForRemove, UniqueSlug,
     UniqueSubdomain, UniqueDomainRefused, UniqueDomain, LookupFound, LookupNotFound,
     SaveRefused, FindSlug, Provision, InsertRefused
<1> QED BY <1>1, <1>2, <1>3, <1>4

(* Which request a step changes, and which organization it is for then     *)
LEMMA OrgKept ==
    ASSUME IInv, NEW r \in Reqs, BeginCreate(r) \/ Begin(r) \/ Step(r)
    PROVE  /\ \A p \in Reqs \ {r} : req'[p] = req[p]
           /\ \/ req'[r].org = None \/ req'[r].org = req[r].org
              \/ life' = life /\ life[req'[r].org] # "absent"
<1>1. req \in [Reqs -> Request] /\ req[r] \in Request
  BY DEF IInv, TypeOK
<1>2. ASSUME NEW q, req' = [req EXCEPT ![r] = q], q.org = None \/ q.org = req[r].org
      PROVE  /\ \A p \in Reqs \ {r} : req'[p] = req[p]
             /\ req'[r].org = None \/ req'[r].org = req[r].org
  BY <1>1, <1>2
<1>3. Idle.org = None
  BY DEF Idle
<1>4. CASE Finish(r)
  BY <1>2, <1>3, <1>4 DEF Finish
<1>5. ASSUME NEW pc, GoTo(r, pc)
      PROVE  req'[r].org = req[r].org /\ \A p \in Reqs \ {r} : req'[p] = req[p]
  BY <1>1, <1>5 DEF GoTo, Request
<1>6. ASSUME NEW pc, NEW row, Hold(r, pc, row)
      PROVE  req'[r].org = req[r].org /\ \A p \in Reqs \ {r} : req'[p] = req[p]
  BY <1>1, <1>6 DEF Hold, Request
<1>7. CASE BeginCreate(r)
  <2>1. PICK a : req' = [req EXCEPT ![r] = [Idle EXCEPT !.pc = "slug", !.op = "create",
                                                        !.arg = a]]
    BY <1>7 DEF BeginCreate
  <2>2. [Idle EXCEPT !.pc = "slug", !.op = "create", !.arg = a].org = None
    BY DEF Idle
  <2> QED BY <1>2, <2>1, <2>2
<1>8. CASE Begin(r)
  <2>1. PICK o, op, a :
          /\ life[o] # "absent"
          /\ req' = [req EXCEPT ![r] = [Idle EXCEPT !.pc = "authorize", !.op = op,
                                                    !.org = o, !.arg = a]]
    BY <1>8 DEF Begin
  <2>2. req'[r].org = o /\ \A p \in Reqs \ {r} : req'[p] = req[p]
    BY <1>1, <2>1 DEF Idle
  <2>3. life' = life
    BY <1>8 DEF Begin, tables
  <2> QED BY <2>1, <2>2, <2>3
<1>9. CASE Provision(r)
  <2>1. CASE req' = [req EXCEPT ![r].tries = NextTry(@)]
    BY <1>1, <2>1 DEF Request
  <2> QED BY <1>4, <1>6, <1>9, <2>1 DEF Provision
<1>10. CASE FindSlug(r) \/ Authorize(r)
  BY <1>4, <1>5, <1>10 DEF FindSlug, Authorize
<1>11. CASE \/ LoadForUpdate(r) \/ LoadForName(r) \/ LoadForVerify(r) \/ LoadForRemove(r)
            \/ UniqueSlug(r) \/ UniqueSubdomain(r) \/ UniqueDomain(r) \/ LookupFound(r)
  BY <1>4, <1>6, <1>11 DEF LoadForUpdate, LoadForName, LoadForVerify, LoadForRemove,
     UniqueSlug, UniqueSubdomain, UniqueDomain, LookupFound
<1>12. CASE \/ Refuse(r) \/ LoadMissing(r) \/ UniqueDomainRefused(r) \/ LookupNotFound(r)
            \/ SaveRefused(r) \/ Save(r) \/ Delete(r) \/ InsertRefused(r) \/ Insert(r)
  BY <1>4, <1>12 DEF Refuse, LoadMissing, UniqueDomainRefused, LookupNotFound,
     SaveRefused, Save, Delete, InsertRefused, Insert
<1> QED BY <1>7, <1>8, <1>9, <1>10, <1>11, <1>12 DEF Step

LEMMA AloneStep == IInv /\ AloneInv /\ [Next]_vars => AloneInv'
<1> SUFFICES ASSUME IInv, AloneInv, [Next]_vars PROVE AloneInv'
  OBVIOUS
<1>1. IInv'
  BY StepInductive
<1>2. CASE UNCHANGED vars
  BY <1>2 DEF vars, AloneInv, Fresh, IsActive, SameDomain, Live
<1>3. CASE Next
  <2>1. ASSUME NEW r \in Reqs \ overlapped', req'[r].org # None
        PROVE  r \notin overlapped /\ \A p \in Reqs \ {r} : req'[p].org # req'[r].org
    BY <1>3, <2>1 DEF Next, Watch
  <2>2. ASSUME NEW r \in Reqs \ overlapped' PROVE Fresh(req[r])'
    <3>1. CASE req'[r].org = None
      <4>1. RequestOK(req'[r], issued', seen')
        BY <1>1 DEF IInv
      <4>2. req'[r].pc \notin {"load", "unique", "lookup", "save", "delete"}
        BY <3>1, <4>1, NullAssumption DEF RequestOK
      <4> QED BY <4>2 DEF Fresh
    <3>2. CASE req'[r].org # None
      <4>1. r \notin overlapped /\ Fresh(req[r])
        BY <2>1, <2>2, <3>2 DEF AloneInv
      <4>2. CASE BeginCreate(r) \/ Begin(r) \/ Step(r)
        BY <4>1, <4>2, FreshStep
      <4>3. ASSUME NEW p \in Reqs \ {r}, BeginCreate(p) \/ Begin(p) \/ Step(p)
            PROVE  Fresh(req[r])'
        <5>1. req'[r] = req[r]
          BY <4>3, OrgKept
        <5>2. CASE req[r].org \in Orgs
          <6>1. req[p].org # req[r].org /\ life[req[r].org] # "absent"
            BY <3>2, <4>1, <5>1, <5>2 DEF AloneInv
          <6>2. org'[req[r].org] = org[req[r].org]
            BY <4>3, <5>2, <6>1, RowsTouched DEF IInv, TypeOK
          <6> QED BY <4>1, <5>1, <6>2 DEF Fresh, IsActive, SameDomain
        <5>3. CASE req[r].org \notin Orgs
          BY <3>2, <5>1, <5>3 DEF IInv, TypeOK, Request
        <5> QED BY <5>2, <5>3
      <4>4. CASE PublishTxt \/ WithdrawTxt
        BY <4>1, <4>4 DEF PublishTxt, WithdrawTxt, tables, Fresh, IsActive, SameDomain
      <4>5. CASE Crash
        <5>1. org' = org /\ (req'[r] = Idle \/ req'[r] = req[r])
          BY <4>5 DEF Crash, tables
        <5>2. req'[r] = req[r]
          BY <3>2, <5>1 DEF Idle
        <5> QED BY <4>1, <5>1, <5>2 DEF Fresh, IsActive, SameDomain
      <4> QED BY <1>3, <4>2, <4>3, <4>4, <4>5 DEF Next
    <3> QED BY <3>1, <3>2
  <2>3. ASSUME NEW o \in Orgs \ Live' PROVE org'[o] = NoRow
    <3>1. CASE PublishTxt \/ WithdrawTxt \/ Crash
      BY <2>3, <3>1 DEF PublishTxt, WithdrawTxt, Crash, tables, AloneInv, Live
    <3>2. ASSUME NEW r \in Reqs, BeginCreate(r) \/ Begin(r) \/ Step(r)
          PROVE  org'[o] = NoRow
      BY <2>3, <3>2, RowsTouched DEF AloneInv, Live, IInv, TypeOK
    <3> QED BY <1>3, <3>1, <3>2 DEF Next
  <2>4. ASSUME NEW p \in Reqs, req'[p].org \in Orgs
        PROVE  life'[req'[p].org] # "absent"
    <3>1. CASE PublishTxt \/ WithdrawTxt \/ Crash
      <4>1. life' = life /\ (req'[p] = req[p] \/ req'[p] = Idle)
        BY <3>1 DEF PublishTxt, WithdrawTxt, Crash, tables
      <4>2. Idle.org = None
        BY DEF Idle
      <4> QED BY <2>4, <4>1, <4>2, NullAssumption DEF AloneInv
    <3>2. ASSUME NEW r \in Reqs, BeginCreate(r) \/ Begin(r) \/ Step(r)
          PROVE  life'[req'[p].org] # "absent"
      <4>1. \/ req'[p].org = req[p].org
            \/ life' = life /\ life[req'[p].org] # "absent"
        BY <2>4, <3>2, OrgKept, NullAssumption
      <4>2. \A o \in Orgs : life[o] # "absent" => life'[o] # "absent"
        BY <3>2, RowsTouched DEF IInv, TypeOK
      <4> QED BY <2>4, <4>1, <4>2 DEF AloneInv
    <3> QED BY <1>3, <3>1, <3>2 DEF Next
  <2> QED BY <2>1, <2>2, <2>3, <2>4 DEF AloneInv
<1> QED BY <1>2, <1>3

LEMMA Alone == Spec => []AloneInv
<1>1. Init => AloneInv
  <2>1. Idle.org = None
    BY DEF Idle
  <2> QED BY <2>1, IdleFresh, NullAssumption DEF Init, AloneInv
<1> QED BY <1>1, AloneStep, Inductive, PTL DEF Spec

(* Whatever requests overlap, a verified domain ends only by its removal,  *)
(* with its organization, or by a request that another one for the same    *)
(* organization overlapped.                                                *)
THEOREM OverlapsDeactivate == Spec => OnlyOverlapsDeactivate
<1> DEFINE A == \A o \in Orgs : IsActive(org[o]) /\ ~IsActive(org'[o]) =>
                  \E r \in Reqs : /\ Deactivates(r, o)
                                  /\ req[r].op \in {"remove", "delete"} \/ r \in overlapped
<1>1. IInv /\ AloneInv /\ [Next]_vars => [A]_vars
  <2> SUFFICES ASSUME IInv, AloneInv, [Next]_vars, NEW o \in Orgs,
                      IsActive(org[o]), ~IsActive(org'[o])
               PROVE  \E r \in Reqs :
                        /\ Deactivates(r, o)
                        /\ req[r].op \in {"remove", "delete"} \/ r \in overlapped
    OBVIOUS
  <2>1. PICK r \in Reqs : Save(r) \/ Delete(r) \/ Insert(r)
    <3>1. org' # org
      OBVIOUS
    <3>2. PICK r \in Reqs : BeginCreate(r) \/ Begin(r) \/ Step(r)
      BY <3>1 DEF Next, vars, tables, PublishTxt, WithdrawTxt, Crash
    <3> QED BY <3>1, <3>2, RowsTouched
  <2>2. /\ req[r] \in Request /\ RequestOK(req[r], issued, seen)
        /\ org \in [Orgs -> OrgRow] /\ req \in [Reqs -> Request]
    BY DEF IInv, TypeOK
  <2>3. req'[r] = Idle
    BY <2>1, <2>2 DEF Save, Delete, Insert, Finish
  <2>4. CASE Save(r)
    <3>1. o = req[r].org /\ org'[o] = req[r].row
      BY <2>2, <2>4 DEF Save, SavedRow
    <3>2. CASE r \in overlapped
      BY <2>3, <3>1, <3>2 DEF Deactivates
    <3>3. CASE r \notin overlapped
      <4>1. Fresh(req[r])
        BY <3>3 DEF AloneInv
      <4>2. req[r].op \in {"update", "subdomain", "request", "verify", "remove"}
        BY <2>2, <2>4, <4>1 DEF Save, Fresh, RequestOK, Ops
      <4>3. req[r].op \notin {"update", "subdomain", "request", "verify"}
        BY <2>2, <2>4, <3>1, <4>1 DEF Save, Fresh, SameDomain, IsActive
      <4> QED BY <2>3, <3>1, <4>2, <4>3 DEF Deactivates
    <3> QED BY <3>2, <3>3
  <2>5. CASE Delete(r)
    <3>1. o = req[r].org
      BY <2>2, <2>5 DEF Delete
    <3>2. r \notin overlapped => req[r].op = "delete"
      BY <2>5 DEF Delete, AloneInv, Fresh
    <3> QED BY <2>3, <3>1, <3>2 DEF Deactivates
  <2>6. CASE Insert(r)
    <3>1. life[o] = "absent"
      BY <2>2, <2>6 DEF Insert
    <3> QED BY <3>1 DEF AloneInv, Live, NoRow, NewRow, IsActive
  <2> QED BY <2>1, <2>4, <2>5, <2>6
<1>2. [][Next]_vars /\ []IInv /\ []AloneInv => [][A]_vars
  BY <1>1, PTL
<1> QED BY <1>2, Inductive, Alone, PTL DEF Spec, OnlyOverlapsDeactivate

-----------------------------------------------------------------------------
(* The steps of the lifecycle, as changes of one row                       *)
LEMMA RowSteps ==
    ASSUME org \in [Orgs -> OrgRow], NEW o \in Orgs, NEW row \in OrgRow,
           org' = [org EXCEPT ![o] = row],
           \/ row.domain = org[o].domain /\ IsActive(row) = IsActive(org[o])
           \/ /\ ~IsActive(org[o]) /\ ~IsActive(row) /\ row.domain \in Domains
              /\ \A p \in Orgs \ {o} : org[p].domain # row.domain
           \/ /\ ~IsActive(org[o]) /\ IsActive(row) /\ org[o].domain # None
              /\ row.domain = org[o].domain
           \/ ~IsActive(row) /\ row.domain = None /\ org[o].domain # None
    PROVE  Lifecycle!Next \/ UNCHANGED Lifecycle!vars
<1> DEFINE domain == [p \in Orgs |-> org[p].domain]
           active == [p \in Orgs |-> IsActive(org[p])]
<1>1. domain' = [domain EXCEPT ![o] = row.domain]
  OBVIOUS
<1>2. active' = [active EXCEPT ![o] = IsActive(row)]
  BY DEF IsActive
<1>3. domain[o] = org[o].domain /\ active[o] = IsActive(org[o])
  OBVIOUS
<1>4. \A x : IsActive(x) \in BOOLEAN
  BY DEF IsActive
<1>5. CASE row.domain = org[o].domain /\ IsActive(row) = IsActive(org[o])
  <2>1. domain' = domain /\ active' = active
    BY <1>1, <1>2, <1>3, <1>5
  <2> QED BY <2>1 DEF Lifecycle!vars
<1>6. CASE /\ ~IsActive(org[o]) /\ ~IsActive(row) /\ row.domain \in Domains
           /\ \A p \in Orgs \ {o} : org[p].domain # row.domain
  <2>1. IsActive(row) = IsActive(org[o])
    BY <1>4, <1>6
  <2>2. active' = active
    BY <1>2, <1>3, <2>1
  <2>3. ~active[o] /\ \A p \in Orgs \ {o} : domain[p] # row.domain
    BY <1>3, <1>6
  <2>4. Lifecycle!Request(o, row.domain)
    BY <1>1, <2>2, <2>3 DEF Lifecycle!Request
  <2> HIDE DEF domain, active
  <2> QED BY <1>6, <2>4 DEF Lifecycle!Next
<1>7. CASE /\ ~IsActive(org[o]) /\ IsActive(row) /\ org[o].domain # None
           /\ row.domain = org[o].domain
  <2>1. IsActive(row) = TRUE
    BY <1>4, <1>7
  <2>2. active' = [active EXCEPT ![o] = TRUE]
    BY <1>2, <2>1
  <2>3. domain' = domain
    BY <1>1, <1>3, <1>7
  <2>4. domain[o] # None /\ ~active[o]
    BY <1>3, <1>7
  <2>5. Lifecycle!Verify(o)
    BY <2>2, <2>3, <2>4 DEF Lifecycle!Verify
  <2> HIDE DEF domain, active
  <2> QED BY <2>5 DEF Lifecycle!Next
<1>8. CASE ~IsActive(row) /\ row.domain = None /\ org[o].domain # None
  <2>1. IsActive(row) = FALSE
    BY <1>4, <1>8
  <2>2. active' = [active EXCEPT ![o] = FALSE]
    BY <1>2, <2>1
  <2>3. domain' = [domain EXCEPT ![o] = None] /\ domain[o] # None
    BY <1>1, <1>3, <1>8
  <2>4. Lifecycle!Release(o)
    BY <2>2, <2>3 DEF Lifecycle!Release
  <2> HIDE DEF domain, active
  <2> QED BY <2>4 DEF Lifecycle!Next
<1> QED BY <1>5, <1>6, <1>7, <1>8

(* What a save does to the domains, of a request that none for the same    *)
(* organization overlapped                                                 *)
LEMMA SaveFollows ==
    ASSUME IInv, AloneInv, NEW r \in Reqs \ overlapped, Save(r)
    PROVE  Lifecycle!Next \/ UNCHANGED Lifecycle!vars
<1> DEFINE q == req[r]
           s == org[q.org]
<1>1. /\ q \in Request /\ RequestOK(q, issued, seen) /\ Fresh(q)
      /\ org \in [Orgs -> OrgRow]
  BY DEF IInv, TypeOK, AloneInv
<1>2. \A x : IsActive(x) \in BOOLEAN
  BY DEF IsActive
<1>3. PICK o \in Orgs : o = q.org
  BY DEF Save, Live
<1>4. /\ o \in Live /\ q.row \in OrgRow
      /\ org' = [org EXCEPT ![o] = q.row] /\ q.pc = "save"
      /\ q.op \in {"update", "subdomain", "request", "verify", "remove"}
      /\ ~Collides(o, q.row)
  BY <1>1, <1>3 DEF Save, SavedRow, Live, Request, Fresh, RequestOK, Ops
<1>5. PICK row \in OrgRow : row = q.row
  BY <1>4
<1>6. CASE q.op \in {"update", "subdomain"}
  <2>1. row.domain = s.domain /\ IsActive(row) = IsActive(s)
    BY <1>1, <1>4, <1>5, <1>6 DEF Fresh, SameDomain, IsActive
  <2> QED BY <1>1, <1>3, <1>4, <1>5, <2>1, RowSteps
<1>7. CASE q.op = "request"
  <2>1. ~IsActive(s) /\ ~IsActive(row) /\ row.domain \in Domains
    BY <1>1, <1>4, <1>5, <1>7 DEF Fresh, IsActive, OrgRow
  <2>2. \A p \in Orgs \ {o} : org[p].domain # row.domain
    <3> SUFFICES ASSUME NEW p \in Orgs \ {o} PROVE org[p].domain # row.domain
      OBVIOUS
    <3>1. CASE p \in Live
      BY <1>4, <1>5, <2>1, <3>1, NullAssumption DEF Collides, DomainTaken
    <3>2. CASE p \notin Live
      BY <2>1, <3>2, NullAssumption DEF AloneInv, NoRow, NewRow
    <3> QED BY <3>1, <3>2
  <2> QED BY <1>1, <1>3, <1>4, <1>5, <2>1, <2>2, RowSteps
<1>8. CASE q.op = "verify"
  <2>1. ~IsActive(s) /\ IsActive(row) /\ s.domain # None /\ row.domain = s.domain
    BY <1>1, <1>4, <1>5, <1>8 DEF Fresh, IsActive
  <2> QED BY <1>1, <1>3, <1>4, <1>5, <2>1, RowSteps
<1>9. CASE q.op = "remove"
  <2>1. ~IsActive(row) /\ row.domain = None
    BY <1>1, <1>4, <1>5, <1>9 DEF Fresh, IsActive
  <2>2. s.domain = None => IsActive(row) = IsActive(s)
    BY <1>2, <2>1 DEF IsActive
  <2> QED BY <1>1, <1>3, <1>4, <1>5, <2>1, <2>2, RowSteps
<1> QED BY <1>4, <1>6, <1>7, <1>8, <1>9

(* What a step does to the domains of the table                            *)
LEMMA LifecycleStep ==
    ASSUME IInv, AloneInv, [Next]_vars
    PROVE  UNCHANGED Lifecycle!vars \/ Lifecycle!Next \/ \E r \in overlapped : Saves(r)
<1>1. org \in [Orgs -> OrgRow]
  BY DEF IInv, TypeOK
<1>2. CASE org' = org
  BY <1>2 DEF Lifecycle!vars, IsActive
<1>3. \A x : IsActive(x) \in BOOLEAN
  BY DEF IsActive
<1>4. ASSUME NEW r \in Reqs, Save(r)
      PROVE  \/ UNCHANGED Lifecycle!vars \/ Lifecycle!Next
             \/ \E p \in overlapped : Saves(p)
  <2>1. CASE r \in overlapped
    BY <1>4, <2>1 DEF Save, Saves, Finish, IInv, TypeOK
  <2>2. CASE r \notin overlapped
    BY <1>4, <2>2, SaveFollows
  <2> QED BY <2>1, <2>2
<1>5. ASSUME NEW r \in Reqs, Delete(r)
      PROVE  UNCHANGED Lifecycle!vars \/ Lifecycle!Next
  <2>1. PICK o \in Orgs : org' = [org EXCEPT ![o] = NoRow]
    BY <1>5 DEF Delete, IInv, RequestOK
  <2>2. NoRow \in OrgRow /\ NoRow.domain = None /\ ~IsActive(NoRow)
    BY NoRowType DEF NoRow, NewRow, IsActive
  <2>3. org[o].domain = None => IsActive(NoRow) = IsActive(org[o])
    BY <1>3, <2>2 DEF IsActive
  <2> QED BY <1>1, <2>1, <2>2, <2>3, RowSteps
<1>6. ASSUME NEW r \in Reqs, Insert(r)
      PROVE  UNCHANGED Lifecycle!vars \/ Lifecycle!Next
  <2>1. PICK o \in Orgs : life[o] = "absent" /\ org' = [org EXCEPT ![o] = req[r].row]
    BY <1>6 DEF Insert
  <2>2. org[o].domain = None
    BY <2>1 DEF AloneInv, Live, NoRow, NewRow
  <2>3. PICK row \in OrgRow : row = req[r].row /\ row.domain = None
    BY <1>6 DEF Insert, IInv, TypeOK, RequestOK, Request
  <2>4. IsActive(row) = IsActive(org[o])
    BY <2>2, <2>3 DEF IsActive
  <2> QED BY <1>1, <2>1, <2>2, <2>3, <2>4, RowSteps
<1>7. org' = org \/ \E r \in Reqs : Save(r) \/ Delete(r) \/ Insert(r)
  <2>1. ASSUME NEW r \in Reqs, BeginCreate(r) \/ Begin(r) \/ Step(r)
        PROVE  org' = org \/ Save(r) \/ Delete(r) \/ Insert(r)
    BY <2>1, RowsTouched
  <2>2. CASE PublishTxt \/ WithdrawTxt \/ Crash \/ UNCHANGED vars
    BY <2>2 DEF PublishTxt, WithdrawTxt, Crash, tables, vars
  <2> QED BY <2>1, <2>2 DEF Next
<1> QED BY <1>2, <1>4, <1>5, <1>6, <1>7

(* For any number of organizations, and whatever requests for different    *)
(* ones interleave, what is saved follows the lifecycle, unless by a       *)
(* request that another one for the same organization overlapped.          *)
THEOREM LifecycleFollowed == Spec => OnlyOverlapsLeaveLifecycle
<1> DEFINE A == \/ UNCHANGED Lifecycle!vars \/ Lifecycle!Next
                \/ \E r \in overlapped : Saves(r)
<1>1. IInv /\ AloneInv /\ [Next]_vars => [A]_vars
  BY LifecycleStep
<1>2. []IInv /\ []AloneInv /\ [][Next]_vars => [][A]_vars
  BY <1>1, PTL
<1> QED BY <1>2, Inductive, Alone, PTL DEF Spec, OnlyOverlapsLeaveLifecycle

(* No two requests of the behaviour overlap for the same organization;     *)
(* those for different ones may.                                           *)
NoOverlap == overlapped = {}

(* As long as no two requests for one organization overlap, the use cases  *)
(* implement the lifecycle: one organization per domain, verified before   *)
(* it is active, active until it is released.                              *)
THEOREM LifecycleImplemented == Spec /\ []NoOverlap => LifecycleSpec
<1>1. NoRow.domain = None /\ IsActive(NoRow) = FALSE
  BY DEF NoRow, NewRow, IsActive
<1>2. Init => Lifecycle!Init
  BY <1>1 DEF Init, Lifecycle!Init
<1>3. IInv /\ AloneInv /\ NoOverlap /\ [Next]_vars => [Lifecycle!Next]_(Lifecycle!vars)
  BY LifecycleStep DEF NoOverlap
<1> QED BY <1>2, <1>3, Inductive, Alone, PTL DEF Spec, LifecycleSpec, Lifecycle!Spec

(* "customDomain overrides the subdomain in resolveTenant from now on"     *)
(* holds for as long as no two requests for one organization overlap; the  *)
(* run domain_lost_update shows what two of them do.                       *)
THEOREM RemovalDeactivates == Spec /\ []NoOverlap => OnlyRemovalDeactivates
<1> DEFINE A == \A o \in Orgs : IsActive(org[o]) /\ ~IsActive(org'[o]) =>
                  \E r \in Reqs : /\ Deactivates(r, o)
                                  /\ req[r].op \in {"remove", "delete"} \/ r \in overlapped
           B == \A o \in Orgs : IsActive(org[o]) /\ ~IsActive(org'[o]) =>
                  \E r \in Reqs : Deactivates(r, o) /\ req[r].op \in {"remove", "delete"}
<1>1. NoOverlap /\ [A]_vars => [B]_vars
  BY DEF NoOverlap, vars
<1>2. []NoOverlap /\ [][A]_vars => [][B]_vars
  BY <1>1, PTL
<1> QED BY <1>2, OverlapsDeactivate DEF OnlyOverlapsDeactivate, OnlyRemovalDeactivates

(* A single request overlaps nothing.                                      *)
LEMMA Serial ==
    ASSUME NEW r, Reqs = {r}
    PROVE  Spec => []NoOverlap
<1>1. NoOverlap /\ [Next]_vars => NoOverlap'
  BY DEF NoOverlap, Next, Watch, vars
<1>2. Init => NoOverlap
  BY DEF NoOverlap, Init
<1> QED BY <1>1, <1>2, PTL DEF Spec

(* A server that handles one request at a time implements the lifecycle,   *)
(* with no assumption about what overlaps.                                 *)
COROLLARY SerialImplements ==
    ASSUME NEW r, Reqs = {r}
    PROVE  Spec => LifecycleSpec
BY Serial, LifecycleImplemented

-----------------------------------------------------------------------------
(***************************************************************************)
(* How far a request is from its answer: the awaits it may still go        *)
(* through.  This is the part of EveryRequestEnds that needs no fairness.  *)
(***************************************************************************)
Distance(q) ==
    CASE q.pc = "idle"                         -> 0
      [] q.pc \in {"save", "delete", "insert"} -> 1
      [] q.pc \in {"unique", "lookup"}         -> 2
      [] q.pc = "load"                         -> 3
      [] q.pc = "authorize"                    -> 4
      [] q.pc = "provision"                    -> (MaxAttempts - q.tries) + 2
      [] q.pc = "slug"                         -> MaxAttempts + 3

LEMMA Distances ==
    ASSUME NEW q \in Request
    PROVE  /\ Distance(q) \in Nat
           /\ Distance(q) <= MaxAttempts + 4
           /\ q.pc = "idle" => Distance(q) = 0
           /\ q.pc \in {"save", "delete", "insert"} => Distance(q) = 1
           /\ q.pc \in {"unique", "lookup"} => Distance(q) = 2
           /\ q.pc = "load" => Distance(q) = 3
           /\ q.pc = "authorize" => Distance(q) = 4
           /\ q.pc = "provision" => Distance(q) = (MaxAttempts - q.tries) + 2
           /\ q.pc = "slug" => Distance(q) = MaxAttempts + 3
           /\ q.tries \in 0 .. MaxAttempts /\ q.pc \in Phases
BY ProvisionAssumption DEF Distance, Request, Phases

Nearer(r) == req'[r] = req[r] \/ Distance(req'[r]) < Distance(req[r])

LEMMA FinishNears ==
    ASSUME IInv, NEW r \in Reqs, req[r].pc # "idle", req'[r] = Idle
    PROVE  Nearer(r)
<1>1. req[r] \in Request /\ Idle \in Request /\ Idle.pc = "idle"
  BY IdleOK DEF IInv, TypeOK, Idle
<1>2. Distance(Idle) = 0
  BY <1>1, Distances
<1>3. Distance(req[r]) > 0
  BY <1>1, Distances, ProvisionAssumption DEF Phases
<1> QED BY <1>2, <1>3 DEF Nearer

LEMMA StepNears ==
    ASSUME IInv, IInv', NEW r \in Reqs, Step(r)
    PROVE  Nearer(r)
<1> DEFINE p == req[r]
           q == req'[r]
<1>1. p \in Request /\ q \in Request /\ req \in [Reqs -> Request]
  BY DEF IInv, TypeOK
<1>2. CASE Finish(r)
  <2>1. req'[r] = Idle
    BY <1>1, <1>2 DEF Finish
  <2>2. req[r].pc # "idle"
    BY DEF Step, Refuse, Authorize, LoadMissing, LoadForUpdate, LoadForName,
           LoadForVerify, LoadForRemove, UniqueSlug, UniqueSubdomain,
           UniqueDomainRefused, UniqueDomain, LookupFound, LookupNotFound,
           SaveRefused, Save, Delete, FindSlug, Provision, InsertRefused, Insert, At
  <2> QED BY <2>1, <2>2, FinishNears
<1>3. CASE Authorize(r)
  <2>1. p.pc = "authorize" /\ q.pc \in {"delete", "load"}
    BY <1>1, <1>3 DEF Authorize, GoTo
  <2> QED BY <1>1, <2>1, Distances DEF Nearer
<1>4. CASE /\ ~Finish(r)
           /\ \/ LoadForUpdate(r) \/ LoadForName(r)
              \/ LoadForVerify(r) \/ LoadForRemove(r)
  <2>1. p.pc = "load" /\ q.pc \in {"save", "unique", "lookup"}
    BY <1>1, <1>4 DEF LoadForUpdate, LoadForName, LoadForVerify, LoadForRemove, At, Hold, Request
  <2> QED BY <1>1, <2>1, Distances DEF Nearer
<1>5. CASE /\ ~Finish(r)
           /\ \/ UniqueSlug(r) \/ UniqueSubdomain(r)
              \/ UniqueDomain(r) \/ LookupFound(r)
  <2>1. p.pc \in {"unique", "lookup"} /\ q.pc = "save"
    BY <1>1, <1>5 DEF UniqueSlug, UniqueSubdomain, UniqueDomain, LookupFound, At, Hold, Request
  <2> QED BY <1>1, <2>1, Distances DEF Nearer
<1>6. CASE FindSlug(r) /\ ~Finish(r)
  <2>1. p.pc = "slug" /\ q.pc = "provision"
    BY <1>1, <1>6 DEF FindSlug, GoTo, Request
  <2> QED BY <1>1, <2>1, Distances, ProvisionAssumption DEF Nearer
<1>7. CASE Provision(r) /\ ~Finish(r)
  <2>1. /\ p.pc = "provision"
        /\ \/ q.pc = "insert"
           \/ q.pc = "provision" /\ q.tries = p.tries + 1
    BY <1>1, <1>7 DEF Request, Provision, Hold, AttemptsLeft, NextTry
  <2> QED BY <1>1, <2>1, Distances, ProvisionAssumption DEF Nearer
<1> QED BY <1>2, <1>3, <1>4, <1>5, <1>6, <1>7
        DEF Step, Refuse, LoadMissing, UniqueDomainRefused, LookupNotFound,
            SaveRefused, Save, Delete, InsertRefused, Insert

LEMMA OthersNear ==
    ASSUME IInv, [Next]_vars, NEW r \in Reqs, req[r].pc # "idle", ~Step(r)
    PROVE  Nearer(r)
<1>0. req \in [Reqs -> Request]
  BY DEF IInv, TypeOK
<1>1. ASSUME NEW p \in Reqs \ {r}, BeginCreate(p) \/ Begin(p) \/ Step(p)
      PROVE  Nearer(r)
  <2>1. req'[r] = req[r]
    BY <1>0, <1>1
       DEF BeginCreate, Begin, Step, Refuse, Authorize, LoadMissing, LoadForUpdate,
           LoadForName, LoadForVerify, LoadForRemove, UniqueSlug, UniqueSubdomain,
           UniqueDomainRefused, UniqueDomain, LookupFound, LookupNotFound,
           SaveRefused, Save, Delete, FindSlug, Provision, InsertRefused, Insert,
           Finish, GoTo, Hold
  <2> QED BY <2>1 DEF Nearer
<1>2. ~BeginCreate(r) /\ ~Begin(r)
  <2>1. BeginCreate(r) => req[r].pc = "idle"
    BY DEF BeginCreate
  <2>2. Begin(r) => req[r].pc = "idle"
    BY DEF Begin
  <2> QED BY <2>1, <2>2
<1>3. CASE PublishTxt \/ WithdrawTxt \/ UNCHANGED vars
  BY <1>3 DEF PublishTxt, WithdrawTxt, vars, Nearer
<1>4. CASE Crash
  <2>1. req'[r] = req[r] \/ req'[r] = Idle
    BY <1>4 DEF Crash
  <2> QED BY <2>1, FinishNears DEF Nearer
<1> QED BY <1>1, <1>2, <1>3, <1>4 DEF Next

(* Whatever the others do, each await brings a request nearer to its       *)
(* answer, which is at most MAX_SUBDOMAIN_ATTEMPTS and four awaits away:   *)
(* no sequence of collisions keeps a creation searching.                   *)
EveryAwaitCounts ==
    [][\A r \in Reqs : req[r].pc # "idle" =>
         /\ Distance(req[r]) \in 1 .. MaxAttempts + 4
         /\ req'[r] = req[r] \/ Distance(req'[r]) < Distance(req[r])]_vars

THEOREM RequestsGetAnswered == Spec => EveryAwaitCounts
<1> DEFINE A == \A r \in Reqs : req[r].pc # "idle" =>
                  /\ Distance(req[r]) \in 1 .. MaxAttempts + 4
                  /\ req'[r] = req[r] \/ Distance(req'[r]) < Distance(req[r])
<1>1. ASSUME IInv, IInv', [Next]_vars, NEW r \in Reqs, req[r].pc # "idle"
      PROVE  /\ Distance(req[r]) \in 1 .. MaxAttempts + 4
             /\ req'[r] = req[r] \/ Distance(req'[r]) < Distance(req[r])
  <2>1. req[r] \in Request
    BY <1>1 DEF IInv, TypeOK
  <2>2. Distance(req[r]) \in 1 .. MaxAttempts + 4
    BY <1>1, <2>1, Distances, ProvisionAssumption DEF Phases
  <2>3. Nearer(r)
    BY <1>1, StepNears, OthersNear
  <2> QED BY <2>2, <2>3 DEF Nearer
<1>2. IInv /\ IInv' /\ [Next]_vars => [A]_vars
  BY <1>1
<1>3. []IInv /\ [][Next]_vars => [][A]_vars
  BY <1>2, PTL
<1> QED BY <1>3, Inductive, PTL DEF Spec, EveryAwaitCounts
=============================================================================
