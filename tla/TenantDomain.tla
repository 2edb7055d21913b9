---------------------------- MODULE TenantDomain ----------------------------
(***************************************************************************)
(* The Organization aggregate of organization-management: its slug, its    *)
(* subdomain and its custom domain, and the use cases that read the row,   *)
(* wait, and write the whole row back.                                     *)
(*                                                                         *)
(* A request of the HTTP server is a record of req.  A use case runs from  *)
(* one await to the next without interruption, so each action below is one *)
(* answered await together with the code that runs until the next one:     *)
(* that is where requests of the same or of several server processes       *)
(* interleave.  What a request read stays in its snapshot req[r].row.      *)
(*                                                                         *)
(* Names and payloads are members of small sets, already normalised.  The  *)
(* name of an organization guards nothing and is left out: a rename is an  *)
(* update without a slug, and it still writes the whole row.               *)
(***************************************************************************)
EXTENDS Naturals, FiniteSets

CONSTANTS
    Orgs,            \* organization ids, each generated at most once
    Reqs,            \* requests in flight at a time
    Slugs, Subdomains, Domains,
    NewSlugs,        \* the slugs updates are sent
    NewSubdomains,   \* the subdomains subdomain requests are sent
    Tokens,          \* verification tokens, each generated at most once
    None,            \* null
    ValidSubdomains, \* the subdomains Subdomain.create accepts
    Base,            \* Base[slug]: the subdomain provisioned first for a slug
    Suffixed,        \* Suffixed[slug]: that subdomain with a random suffix
    MaxAttempts      \* MAX_SUBDOMAIN_ATTEMPTS

ASSUME NullAssumption == None \notin Orgs \cup Slugs \cup Subdomains \cup Domains \cup Tokens
ASSUME InputsAssumption == NewSlugs \subseteq Slugs /\ NewSubdomains \subseteq Subdomains
ASSUME ProvisionAssumption ==
    /\ ValidSubdomains \subseteq Subdomains
    /\ Base \in [Slugs -> Subdomains]
    /\ Suffixed \in [Slugs -> SUBSET Subdomains]
    /\ MaxAttempts \in Nat

VARIABLES
    org,     \* the table organizations: id -> row
    life,    \* id -> never inserted, live, or deleted
    req,     \* requests of the server processes
    dns,     \* TXT records that resolve now: <<domain, token>>
    issued,  \* history: <<org, domain, token>> generated for a request
    seen,    \* history: <<domain, token>> a lookup of a verification found
    overlapped  \* history: requests that shared some time with another one
                \* for the same organization

vars == <<org, life, req, dns, issued, seen, overlapped>>

-----------------------------------------------------------------------------
(* Rows and the operations of the aggregate on them                        *)

OrgRow == [slug : Slugs \cup {None}, subdomain : Subdomains \cup {None},
           domain : Domains \cup {None}, token : Tokens \cup {None},
           verified : BOOLEAN]

NewRow(s, sub) == [slug |-> s, subdomain |-> sub, domain |-> None,
                   token |-> None, verified |-> FALSE]

NoRow == NewRow(None, None)

IsActive(row) == row.domain # None /\ row.verified

HasPendingCustomDomain(row) == row.domain # None /\ row.token # None

(* Mutant: an active domain may be replaced.                               *)
AlwaysRequestable(row) == TRUE

CanRequestCustomDomain(row) == ~IsActive(row)

RequestedRow(row, d, t) ==
    [row EXCEPT !.domain = d, !.token = t, !.verified = FALSE]

(* Mutant: the token outlives the verification.                            *)
VerifiedKeepingToken(row) == [row EXCEPT !.verified = TRUE]

VerifiedRow(row) == [row EXCEPT !.token = None, !.verified = TRUE]

RemovedRow(row) ==
    [row EXCEPT !.domain = None, !.token = None, !.verified = FALSE]

CanChangeSubdomain(row, sub) == sub \in ValidSubdomains /\ sub # row.subdomain

(***************************************************************************)
(* The database: lookups see live rows, and the unique indexes on slug,    *)
(* subdomain and custom domain refuse a row that collides with another.    *)
(***************************************************************************)
Live == {o \in Orgs : life[o] = "live"}

SlugTaken(o, s) == \E p \in Live \ {o} : org[p].slug = s

SubdomainTaken(o, s) == \E p \in Live \ {o} : org[p].subdomain = s

(* Mutant: neither a lookup nor a unique index guards the domain.          *)
DomainNeverTaken(o, d) == FALSE

DomainTaken(o, d) == \E p \in Live \ {o} : org[p].domain = d

Collides(o, row) == \/ SlugTaken(o, row.slug)
                    \/ SubdomainTaken(o, row.subdomain)
                    \/ row.domain # None /\ DomainTaken(o, row.domain)

(* Mutant: a verification writes its own columns only.                     *)
SavedByColumn(stored, row) ==
    [row EXCEPT !.domain = IF row.verified THEN stored.domain ELSE row.domain]

(* What save leaves in the table: every column comes from the request.     *)
SavedRow(stored, row) == row

(* A resolver that answers; a lookup that fails counts as not found.       *)
TxtRecordFound(d, t) == <<d, t>> \in dns

-----------------------------------------------------------------------------
(* Requests                                                                *)

Ops == {"create", "update", "subdomain", "request", "verify", "remove", "delete"}

Phases == {"idle", "authorize", "load", "unique", "lookup", "save", "delete",
           "slug", "provision", "insert"}

(* What an operation is sent.  Bound: a change of name is sent one of      *)
(* NewSlugs or NewSubdomains, which a run may take smaller.                *)
Inputs(op) == CASE op = "create"    -> Slugs
                [] op = "update"    -> NewSlugs \cup {None}
                [] op = "subdomain" -> NewSubdomains
                [] op = "request"   -> Domains
                [] OTHER            -> {None}

Request == [pc : Phases, op : Ops \cup {None}, org : Orgs \cup {None},
            arg : Slugs \cup Subdomains \cup Domains \cup {None},
            row : OrgRow, tries : 0 .. MaxAttempts]

Idle == [pc |-> "idle", op |-> None, org |-> None, arg |-> None,
         row |-> NoRow, tries |-> 0]

At(r, pc, ops) == req[r].pc = pc /\ req[r].op \in ops

(* The response is sent: the request and its snapshot are gone.            *)
Finish(r) == req' = [req EXCEPT ![r] = Idle]

GoTo(r, pc) == req' = [req EXCEPT ![r].pc = pc]

Hold(r, pc, row) == req' = [req EXCEPT ![r].pc = pc, ![r].row = row]

tables == <<org, life>>
history == <<dns, issued, seen>>

-----------------------------------------------------------------------------
(* Bounds: an organization is created only while an id is left for it, and *)
(* a domain is requested only while a token is left for it.                *)
IdsRemain ==
    Cardinality({r \in Reqs : req[r].op = "create"})
      < Cardinality({o \in Orgs : life[o] = "absent"})

TokensRemain ==
    Cardinality(issued)
      + Cardinality({r \in Reqs : req[r].op = "request" /\ req[r].pc # "save"})
      < Cardinality(Tokens)

(* A validated request reaches its handler.                                *)
BeginCreate(r) ==
    /\ req[r].pc = "idle"
    /\ IdsRemain
    /\ \E s \in Inputs("create") :
         req' = [req EXCEPT ![r] = [Idle EXCEPT !.pc = "slug", !.op = "create",
                                                !.arg = s]]
    /\ UNCHANGED <<tables, history>>

Begin(r) ==
    /\ req[r].pc = "idle"
    /\ \E o \in {o \in Orgs : life[o] # "absent"}, op \in Ops \ {"create"} :
       \E a \in Inputs(op) :
         /\ op = "request" => TokensRemain
         /\ req' = [req EXCEPT ![r] = [Idle EXCEPT !.pc = "authorize", !.op = op,
                                                   !.org = o, !.arg = a]]
    /\ UNCHANGED <<tables, history>>

(***************************************************************************)
(* The membership table belongs to OrgMembership; here its answer to       *)
(* authorizeMembership and to the use case is either refusal or a role     *)
(* high enough.                                                            *)
(***************************************************************************)
Refuse(r) ==
    /\ req[r].pc = "authorize"
    /\ Finish(r)
    /\ UNCHANGED <<tables, history>>

Authorize(r) ==
    /\ req[r].pc = "authorize"
    /\ GoTo(r, IF req[r].op = "delete" THEN "delete" ELSE "load")
    /\ UNCHANGED <<tables, history>>

(* findById, and what each use case does with the row before its next await *)
LoadMissing(r) ==
    /\ req[r].pc = "load"
    /\ req[r].org \notin Live
    /\ Finish(r)
    /\ UNCHANGED <<tables, history>>

LoadForUpdate(r) ==
    LET row == org[req[r].org] IN
    /\ At(r, "load", {"update"})
    /\ req[r].org \in Live
    /\ Hold(r, IF req[r].arg \in {None, row.slug} THEN "save" ELSE "unique", row)
    /\ UNCHANGED <<tables, history>>

LoadForName(r) ==
    /\ At(r, "load", {"subdomain", "request"})
    /\ req[r].org \in Live
    /\ Hold(r, "unique", org[req[r].org])
    /\ UNCHANGED <<tables, history>>

LoadForVerify(r) ==
    LET row == org[req[r].org] IN
    /\ At(r, "load", {"verify"})
    /\ req[r].org \in Live
    /\ IF HasPendingCustomDomain(row) THEN Hold(r, "lookup", row) ELSE Finish(r)
    /\ UNCHANGED <<tables, history>>

LoadForRemove(r) ==
    LET row == org[req[r].org] IN
    /\ At(r, "load", {"remove"})
    /\ req[r].org \in Live
    /\ IF row.domain # None THEN Hold(r, "save", RemovedRow(row)) ELSE Finish(r)
    /\ UNCHANGED <<tables, history>>

(* findBySlug, findBySubdomain, findByCustomDomain before a change of name  *)
UniqueSlug(r) ==
    LET row == req[r].row IN
    /\ At(r, "unique", {"update"})
    /\ IF SlugTaken(req[r].org, req[r].arg)
         THEN Finish(r)
         ELSE Hold(r, "save", [row EXCEPT !.slug = req[r].arg])
    /\ UNCHANGED <<tables, history>>

UniqueSubdomain(r) ==
    LET row == req[r].row IN
    /\ At(r, "unique", {"subdomain"})
    /\ IF SubdomainTaken(req[r].org, req[r].arg) \/ ~CanChangeSubdomain(row, req[r].arg)
         THEN Finish(r)
         ELSE Hold(r, "save", [row EXCEPT !.subdomain = req[r].arg])
    /\ UNCHANGED <<tables, history>>

UniqueDomainRefused(r) ==
    /\ At(r, "unique", {"request"})
    /\ \/ DomainTaken(req[r].org, req[r].arg)
       \/ ~CanRequestCustomDomain(req[r].row)
    /\ Finish(r)
    /\ UNCHANGED <<tables, history>>

UniqueDomain(r) ==
    /\ At(r, "unique", {"request"})
    /\ ~DomainTaken(req[r].org, req[r].arg)
    /\ CanRequestCustomDomain(req[r].row)
    /\ \E t \in Tokens :
         /\ \A i \in issued : i[3] # t
         /\ issued' = issued \cup {<<req[r].org, req[r].arg, t>>}
         /\ Hold(r, "save", RequestedRow(req[r].row, req[r].arg, t))
    /\ UNCHANGED <<tables, dns, seen>>

(* checkTxtRecord                                                          *)
LookupFound(r) ==
    LET row == req[r].row IN
    /\ At(r, "lookup", {"verify"})
    /\ TxtRecordFound(row.domain, row.token)
    /\ seen' = seen \cup {<<row.domain, row.token>>}
    /\ Hold(r, "save", VerifiedRow(row))
    /\ UNCHANGED <<tables, dns, issued>>

LookupNotFound(r) ==
    /\ At(r, "lookup", {"verify"})
    /\ Finish(r)
    /\ UNCHANGED <<tables, history>>

(* save: a missing row answers 404, a collision 409, both without a write  *)
SaveRefused(r) ==
    /\ req[r].pc = "save"
    /\ req[r].org \notin Live \/ Collides(req[r].org, req[r].row)
    /\ Finish(r)
    /\ UNCHANGED <<tables, history>>

Save(r) ==
    LET o == req[r].org IN
    /\ req[r].pc = "save"
    /\ o \in Live
    /\ ~Collides(o, req[r].row)
    /\ org' = [org EXCEPT ![o] = SavedRow(org[o], req[r].row)]
    /\ Finish(r)
    /\ UNCHANGED <<life, history>>

Delete(r) ==
    LET o == req[r].org IN
    /\ req[r].pc = "delete"
    /\ life' = [life EXCEPT ![o] = "deleted"]
    /\ org' = [org EXCEPT ![o] = NoRow]
    /\ Finish(r)
    /\ UNCHANGED history

-----------------------------------------------------------------------------
(* create-organization                                                     *)
FindSlug(r) ==
    /\ req[r].pc = "slug"
    /\ IF SlugTaken(None, req[r].arg) THEN Finish(r) ELSE GoTo(r, "provision")
    /\ UNCHANGED <<tables, history>>

(* The subdomains the next attempt may try.                                *)
Candidates(s, tries) == IF tries = 0 THEN {Base[s]} ELSE Suffixed[s]

(* Mutant: one attempt too many.                                           *)
AttemptsLeftOffByOne(tries) == tries <= MaxAttempts

AttemptsLeft(tries) == tries < MaxAttempts

(* Mutant: a collision is not counted.                                     *)
SameTry(tries) == tries

NextTry(tries) == tries + 1

Provision(r) ==
    /\ req[r].pc = "provision"
    /\ \E sub \in Candidates(req[r].arg, req[r].tries) :
         IF ~SubdomainTaken(None, sub)
           THEN IF sub \in ValidSubdomains
                  THEN Hold(r, "insert", NewRow(req[r].arg, sub))
                  ELSE Finish(r)
           ELSE IF AttemptsLeft(req[r].tries)
                  THEN req' = [req EXCEPT ![r].tries = NextTry(@)]
                  ELSE Finish(r)
    /\ UNCHANGED <<tables, history>>

InsertRefused(r) ==
    /\ req[r].pc = "insert"
    /\ Collides(None, req[r].row)
    /\ Finish(r)
    /\ UNCHANGED <<tables, history>>

Insert(r) ==
    /\ req[r].pc = "insert"
    /\ ~Collides(None, req[r].row)
    /\ \E o \in Orgs :
         /\ life[o] = "absent"
         /\ life' = [life EXCEPT ![o] = "live"]
         /\ org' = [org EXCEPT ![o] = req[r].row]
    /\ Finish(r)
    /\ UNCHANGED history

-----------------------------------------------------------------------------
(* The environment: whoever runs a DNS zone, and the end of a process      *)
PublishTxt ==
    /\ \E d \in Domains, i \in issued : dns' = dns \cup {<<d, i[3]>>}
    /\ UNCHANGED <<tables, req, issued, seen>>

WithdrawTxt ==
    /\ \E rec \in dns : dns' = dns \ {rec}
    /\ UNCHANGED <<tables, req, issued, seen>>

(* A server process stops: its requests are never resumed.                 *)
Crash ==
    /\ \E R \in SUBSET {r \in Reqs : req[r].pc # "idle"} :
         /\ R # {}
         /\ req' = [r \in Reqs |-> IF r \in R THEN Idle ELSE req[r]]
    /\ UNCHANGED <<tables, history>>

-----------------------------------------------------------------------------
Init ==
    /\ org = [o \in Orgs |-> NoRow]
    /\ life = [o \in Orgs |-> "absent"]
    /\ req = [r \in Reqs |-> Idle]
    /\ dns = {}
    /\ issued = {}
    /\ seen = {}
    /\ overlapped = {}

(* The awaits of a request that is being served.                           *)
Step(r) ==
    \/ Refuse(r) \/ Authorize(r)
    \/ LoadMissing(r) \/ LoadForUpdate(r) \/ LoadForName(r)
    \/ LoadForVerify(r) \/ LoadForRemove(r)
    \/ UniqueSlug(r) \/ UniqueSubdomain(r)
    \/ UniqueDomainRefused(r) \/ UniqueDomain(r)
    \/ LookupFound(r) \/ LookupNotFound(r)
    \/ SaveRefused(r) \/ Save(r) \/ Delete(r)
    \/ FindSlug(r) \/ Provision(r) \/ InsertRefused(r) \/ Insert(r)

(* Requests for one organization overlap as soon as both are in flight.    *)
Watch ==
    overlapped' = {r \in Reqs : /\ req'[r].org # None
                                /\ \/ r \in overlapped
                                   \/ \E p \in Reqs \ {r} : req'[p].org = req'[r].org}

Next ==
    /\ \/ \E r \in Reqs : BeginCreate(r) \/ Begin(r) \/ Step(r)
       \/ PublishTxt \/ WithdrawTxt \/ Crash
    /\ Watch

Spec == Init /\ [][Next]_vars

(* The event loop resumes a handler whose await was answered, and the      *)
(* database driver and the resolver answer or reject every call.           *)
FairSpec == Spec /\ \A r \in Reqs : WF_vars(Step(r) /\ Watch)

-----------------------------------------------------------------------------
(* Types of the tables, of the requests and of the histories.              *)
TypeOK ==
    /\ org \in [Orgs -> OrgRow]
    /\ life \in [Orgs -> {"absent", "live", "deleted"}]
    /\ req \in [Reqs -> Request]
    /\ dns \subseteq Domains \X Tokens
    /\ issued \subseteq Orgs \X Domains \X Tokens
    /\ seen \subseteq Domains \X Tokens
    /\ overlapped \subseteq Reqs

(* A domain is verified only by a token that this organization was issued  *)
(* for this very domain and that a lookup found under the domain.          *)
Proved(o, row, iss, sn) ==
    row.verified => \E t \in Tokens : /\ <<o, row.domain, t>> \in iss
                                      /\ <<row.domain, t>> \in sn

(* A row is in one of three states: no domain, a domain with a token       *)
(* issued for it, or a verified domain without a token.                    *)
Settled(o, row, iss) ==
    \/ row.domain = None /\ row.token = None /\ ~row.verified
    \/ row.domain # None /\ ~row.verified /\ <<o, row.domain, row.token>> \in iss
    \/ row.domain # None /\ row.verified /\ row.token = None

(* Whatever requests overlap, a stored domain marked verified was proved   *)
(* by its own organization: no mix of two requests' columns is ever saved  *)
(* (organization.entity.ts verifyCustomDomain, repository save).           *)
VerifiedWasProved == \A o \in Orgs : Proved(o, org[o], issued, seen)

(* Whatever requests overlap, the three custom domain columns agree: the   *)
(* token of a pending domain was generated for that organization and that  *)
(* domain, and an active domain has no token left to verify again.         *)
DomainColumnsAgree == \A o \in Orgs : Settled(o, org[o], issued)

(* The request whose answer takes the active domain of o away              *)
Deactivates(r, o) == req[r].org = o /\ req'[r] = Idle

(* Whatever requests overlap, a verified domain stops being active only by *)
(* the save of a removal, with its organization, or by the save of a       *)
(* request that another one for this very organization overlapped.         *)
OnlyOverlapsDeactivate ==
    [][\A o \in Orgs : IsActive(org[o]) /\ ~IsActive(org'[o]) =>
         \E r \in Reqs : /\ Deactivates(r, o)
                         /\ req[r].op \in {"remove", "delete"} \/ r \in overlapped]_vars

(* "customDomain overrides the subdomain in resolveTenant from now on": no *)
(* rename, subdomain change, request or check takes a verified domain      *)
(* away.                                                                   *)
OnlyRemovalDeactivates ==
    [][\A o \in Orgs : IsActive(org[o]) /\ ~IsActive(org'[o]) =>
         \E r \in Reqs : Deactivates(r, o) /\ req[r].op \in {"remove", "delete"}]_vars

(* Every request is answered: in particular the search for a free          *)
(* subdomain gives up after a bounded number of collisions.                *)
EveryRequestEnds == \A r \in Reqs : req[r].pc # "idle" ~> req[r].pc = "idle"

-----------------------------------------------------------------------------
(* The abstract lifecycle, read off the table.                             *)
Lifecycle == INSTANCE DomainLifecycle WITH
    domain <- [o \in Orgs |-> org[o].domain],
    active <- [o \in Orgs |-> IsActive(org[o])]

(* A request saves the row it read, or is lost.                            *)
Saves(r) == req[r].pc = "save" /\ req'[r] = Idle

(* However requests for different organizations interleave, whatever is    *)
(* saved is a step of the lifecycle from the row stored at that moment,    *)
(* with the uniqueness of the domain: only the save of a request that      *)
(* another one for this very organization overlapped may be none.          *)
OnlyOverlapsLeaveLifecycle ==
    [][UNCHANGED Lifecycle!vars \/ Lifecycle!Next \/ \E r \in overlapped : Saves(r)]_vars

(* Served one at a time, requests, checks and removals implement the       *)
(* lifecycle: every save or delete is one of its steps or a stutter.       *)
LifecycleSpec == Lifecycle!Spec
=============================================================================
