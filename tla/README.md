# A verification project for the task and organization server

TLA+ models of the parts of this repository whose correctness depends on order,
overlap and failure, the TLC configurations that check them on small instances,
and TLAPS proofs of the most important invariants for every instance. All paths
below are relative to the repository.

## The system

An Express server (any number of processes) and one notification worker share a
PostgreSQL database, a RabbitMQ queue, a file storage (a directory or an S3
bucket), DNS and a mail server. A server process keeps one thing that matters, its
connection to the queue; for the rest a request reads rows, awaits, decides and
writes. No operation opens a database
transaction or takes a lock. A handler runs from one `await` to the next without
interruption and interleaves there with every other request, of its own and of
other processes. Everything hard about this code comes from that.

| component | state | operations | talks to |
|---|---|---|---|
| organization: names and custom domain (`src/modules/organization-management`) | table Organization: slug, subdomain, custom domain, token, verifiedAt | create, update, change subdomain, request / verify / remove custom domain, delete | DNS (TXT lookup), unique indexes |
| organization: members and roles (same module) | table OrganizationMembership | create (first OWNER), add, change role, remove, cascade on delete | authorizeMembership reads it for every route |
| tasks (`src/modules/tasks`) | table Task: status, assignee | create, assign / unassign, change status, delete (no route) | users (does the assignee exist), the queue |
| attachments (`src/modules/tasks/task-attachment.*`, `src/common/storage`) | table TaskAttachment, stored objects | upload, create task with files, list, download, rename, delete | storage driver |
| notification queue and worker (`src/common/events`, `src/common/queue`, `src/workers`) | durable queue, unacknowledged messages | publish, consume, mail, copy for retry, acknowledge | database, mail server |
| server process and shutdown (`src/server.ts`, `src/common/queue/rabbitmq.ts`) | `connection`, `channel`, requests in flight, the shutdown's callbacks | connect lazily, publish, close listeners, signals, drain, disconnect, exit | broker, HTTP clients |
| value objects: slug, subdomain | none | validate, derive a subdomain and its suffixes | create-organization |
| tenant host resolution (`resolveTenant.ts`, `findByHost`) | none, reads Organization | one lookup per request | all routes |
| users, authentication, rate limiter, validation, presentation, configuration | see "Not modelled" | | |

What makes each of them correct, and what could go wrong:

* **Custom domains.** A domain becomes active only for the organization that was
  given the token, after a lookup found that token under that domain; active
  domains stay active until removed; names are unique. Hazards: a save writes
  *every* column of a row read several awaits earlier; a DNS lookup sits between
  read and save.
* **Members.** An organization has an OWNER; only those with the authority
  change roles; members do not outlive their organization. Hazards: count then
  delete, read then write by id, check then insert, two inserts for one creation.
* **Tasks.** DONE is final, work has an assignee, an assignee is told, and only
  after the commit. Hazards: status and assignee written back from a stale row,
  a crash between commit and publication.
* **Attachments.** A row has its bytes, bytes without a row do not accumulate.
  Hazards: two stores without a transaction, compensation that may fail too.
* **Notifications.** Nothing published is lost, retries end, no needless second
  mail. Hazards: copy and acknowledgement are two frames, connections close
  under running handlers, worker restarts.
* **Server process.** A shutdown drains before it closes; a cached channel can be
  sent on; no connection is forgotten. Hazards: `connectQueue` caches what it has
  not finished setting up and reads shared variables after each await; a drain that
  watches clients, not handlers; two signals.

## The modules

| module | models |
|---|---|
| `TenantDomain` | the Organization row and the seven use cases that write it |
| `DomainLifecycle` | what a custom domain promises: none, pending, active, none; one holder at a time |
| `OrgMembership` | the memberships of one organization and the five operations on them |
| `MembershipRules` | who may give, change and take roles, each rule in force at the moment of the change |
| `TaskWorkflow` | one task, `taskService`, and the hand-over of `task.assigned` |
| `TaskRules` | the workflow of a task: what status and assignee may become from what they are |
| `AttachmentStorage` | rows and bytes of one task's attachments |
| `NotificationQueue` | publication, the broker, the worker's handlers, outages |
| `NotificationService` | what queue and worker promise the publisher: remembered until mailed or given up in the log |
| `TaskNotification` | `TaskWorkflow` and `NotificationService` composed: from the request to the mail |
| `ServerProcess` | one server process: its requests, the lazy queue connection, signals, drain and exit |
| `SubdomainNames` | the subdomains derived from a slug, by length and reservation |
| `MC...` | the instances for TLC: symmetry and, for `MCTenantDomain`, the names |
| `...Proofs` | theorems and proofs about the module they extend |

**How an action corresponds to code.** In the first four, `req` holds one record
per request in flight: `pc` names the await whose answer it waits for, the other
fields are what the handler keeps in local variables (`row` is the row as read).
An action is one answered await *and* the code up to the next one, early returns
and thrown errors included; they end the request (`Finish`). A request that
answers is forgotten; its slot takes the next one. The tables are functions from
ids to rows, the unique indexes and foreign keys guards of the writing actions.

**TenantDomain.** `Begin` picks a validated request; `Refuse` and `Authorize` are
`authorizeMembership` and the use case's own membership check, answered by a free
choice because the roles belong to `OrgMembership`. `Load...` is `findById` with
what each use case does before its next await; `Unique...` are the lookups before
a change of name; `LookupFound`/`LookupNotFound` the TXT check, where a found
record must be in `dns` and a lookup may fail at any time. `Save` writes the whole
snapshot (`SavedRow`), as `toUpdateData` does; `SaveRefused` is a missing row or an
index. `Provision` tries the base subdomain and then up to `MaxAttempts` suffixes.
`PublishTxt` lets anybody publish any issued token under any domain. `Crash` ends
any set of requests, which is what a killed process does. Three histories,
`issued`, `seen` and `overlapped`, say what tokens were generated for, what lookups
found, and which requests another one for the same organization overlapped
(`Watch`, a part of every step).
The name of an organization guards nothing and is left out: a rename is an update
without a slug, and saves the row like any other. Which subdomain a slug asks for,
its suffixed forms and which names are valid are constants (`Base`, `Suffixed`,
`ValidSubdomains`); `MCTenantDomain` names some labels, takes their validity from
`SubdomainNames`, and TLC checks that they are what the code derives
(`NamesAreDerived`).

**SubdomainNames.** A label is its length and whether it is reserved: both patterns
ask for the same characters, so nothing else decides. `Create` is
`Subdomain.create`, `BaseOf` the choice between the slug and `-x`, `WithSuffix` a
hyphen and the digits of `randomInt(0, 1_000_000)`.

**OrgMembership.** Users, not roles, are the actors: `Authorize` reads the
actor's role in the middleware, `ReadActor` again in the use case and keeps it in
`actorRole`. Row ids are numbers handed out once, so that a membership removed and
added again is another row: `save` and `deleteById` go by id (`StillThere`).
`Lost` ends a request that a crash or a failed query stopped.

**DomainLifecycle, MembershipRules and TaskRules** say what the tables promise, with
no requests, no reads and no time between deciding and writing: an action is one
change, its guard the rule judged on the table as it is. They are read off the
tables (`INSTANCE ... WITH` the domain and whether it is active, the role of each
user, the task itself). The code implements each of them up to its races, and the
races are named: `OnlyOverlapsLeaveLifecycle`, `OnlyOverlapsBreakRules` and
`OnlyStaleWritesBreakRules` say that every step of the code is a step of the abstract
module or leaves its variables alone, unless it is the write (`Saves`) of
a request that another one overlapped, or the write of a row that has changed
since it was read (`Stale`). In `MembershipRules` each change names who makes it, and
`Deed` takes the name from the request: it is the actor of the request that must have
the authority at the moment of the change, over the target and with the role that the
request was sent, so that a removal without its check for OWNER is outside the rules
although others might have removed the member.

**TaskWorkflow.** `Update` writes assignee and status from the row the request
read (`AssignedRow`), `Write` the status alone. `Emit` is `publishToQueue`
accepting the message; it follows the write in the same request. `emitted` and
`held` are histories of who was told and whom the row has held.

**AttachmentStorage.** A key stands for an attachment: id and key are generated
together. Files of one upload are stored one after the other (`left`). `Undo` is
the compensating delete. `Faults` selects what may fail: `"storage"` (saves and
deletes), `"database"` (the insert is refused), `"answer"` (the insert is committed
and its answer lost), `"task"` (the task is deleted, which only code without a
route does), `"crash"`.

**NotificationQueue.** A slot holds a message of the broker and the handler that
works on it. The worker sets no prefetch, so handlers overlap freely. A copy for
retry and the acknowledgement of the original are frames under way (`pc` =
`"requeue"`, `"ack"`) that a lost connection drops in order. On a closed channel
`ack` throws, the catch runs, `sendToQueue` and finally `nack` throw, and the
unhandled rejection ends the process (`Conclude`, `Die`). After a lost connection
a handler in the middle of its lookup or mail goes on while the broker has its
message back. The worker keeps its first channel for ever (`channelPromise`), so
it consumes again only after its process ended; docker-compose restarts it
(`Start`). Broker and mail server are modelled from how this code uses them. The
body of a copy is unchanged and the header counts the attempt (`Copy`).

**NotificationService and TaskNotification.** The service is three sets: events
remembered, told, given up with a line in the log. `NotificationQueue` implements
it (`ServiceSpec`) with "some message is about it", "the mail server accepted a
mail" and `closed`. `TaskNotification` joins it to the requests: the step in which
`emitTaskAssigned` returns is the step in which the service accepts (`Announce`),
a failed publication touches the requests only, and the worker mails while the
requests go on, knowing only what the event says (`Notify`). A message that
`sendToQueue` took and the connection lost is `PublishLost` in
`NotificationQueue`, `EmitFailed` in `TaskWorkflow`, and in `ServerProcess` an event
`sent` that never `arrived`.

**ServerProcess.** Several requests of one process commit an assignment and publish
it; `pc` names the answer `connectQueue` waits for. `connection` and `channel` are
the two module variables, read and written where the code does: `CommitAndDial`
finds no channel and dials, `Dialled` stores the connection, `ChannelOpened` caches
the channel, `AssertAnswered` attaches both listeners to whatever `connection` is by
then and sends on whatever `channel` is by then. `BrokerCloses` emits `close` only,
`SocketFails` an `error` first, which without a listener ends the process.
`Signal` runs `shutdown`; `Release` is the callback of `server.close`, which fires
when no client is connected (`Drained`), whatever the handlers do; `Disconnect` is
`disconnectQueue` up to its await, `CloseAnswered` what follows; `Exit` and
`ForceExit` are the two `process.exit`. `SignalAgain` is a second signal: both
callbacks wait for the same drain and the later one finds the connection closing.
Prisma and Redis are closed by the same `allSettled`; their answers come in any
order and are part of the time before `Exit`. `Accept` takes requests only while the
server listens; one that a keep-alive connection sends during the drain is left out. A closing that rejects counts as an
answer, as for `allSettled`.

**Histories instead of excluded faults.** A property that some fault breaks is
not checked without that fault; it says which state the fault has spoilt, and is
checked with all of them. `overlapped` (members) is the set of requests in flight
that shared some time with another one; `unsent` (tasks) the users whose event a
fault kept back; `stray` (files) the keys whose bytes a fault or `deleteTask` may
have left to nobody; `unanswered` (files, mails) what was done and answered by an
error; `overlapped`, `hurt` and `deaf` (server) the connections that had another
beside them, failed, or failed before they had listeners. No guard reads them.

## What the runs check

All bounds are in the `.cfg` files, and so are the `Faults`: every fault the module
knows unless the table says otherwise. Properties are stated in the modules with
the behaviour of the code they are about.

| run | instance | shows |
|---|---|---|
| domain_concurrent | 2 organizations, a slug of 60 characters and `api` (reserved), no `NewSlugs` or `NewSubdomains`, 2 requests, 2 domains, 2 tokens | `VerifiedWasProved`, `DomainColumnsAgree`: no overlap of whole-row saves stores a verified domain nobody proved, or a token that belongs elsewhere; `OnlyOverlapsDeactivate`: an active domain ends only by removal or by an overlapped request; `OnlyOverlapsLeaveLifecycle`: nor does anything else leave `DomainLifecycle`, two organizations that want one domain at a time included |
| domain_serial | 2 organizations, 2 slugs that want one subdomain, 1 request, 2 domains, 2 tokens | the table implements `DomainLifecycle` |
| domain_answered | 3 organizations, the slugs `api` (reserved), `api-x` and one of 60 characters, 1 request; fair | `TypeOK`; every request ends, provisioning included |
| members_concurrent | 2 users, 2 requests, 3 row ids | `TypeOK`, which holds every awaiting write to a target that was there; `NoMembersWithoutOrg`, `OnlyTheRowThatWasRead`, `AuthorityIsInherited`; `OnlyOverlapsEndOwnership`, `OnlyOwnersDemoteOwners`: the two rules about OWNERs hold but for overlapped requests; `OnlyOverlapsBreakRules`: and so does everything in `MembershipRules`, judged by the request's own actor and target |
| task_overlap | `TaskNotification` with 2 requests, 2 users and an unknown one | `TypeOK`, `NotifiedWasCommitted`; `HolderIsTold`: even an assignee put back by a stale write has been told; `MailedWasAssigned`, `AssigneeIsServed`: the same up to the mail; `OnlyStaleReadersReopen`, `OnlyUnassignmentStrandsWork`: the two rules on status hold but for what was read before; `OnlyStaleWritesBreakRules`: only a row that changed since lets a write break `TaskRules` |
| files_failures | 3 keys, 2 requests, uploads of up to 2 files; fair | `TypeOK`, `RowHasBytes`, `NoOrphanBytes`, `DeletedBytesGo` |
| queue_outages | 1 event, 4 slots, 2 outages; fair | `TypeOK`, `NothingLost`, `MailsLimited`, `EventuallyAcked`; the queue and the worker implement `NotificationService` |
| server_shutdown | 3 requests, 3 connections | `TypeOK`, `OrderlyExitDelivers`, `CachedChannelLives`, `LeaksOnlyByOverlap`, `CrashesOnlyWhileConnecting` |

**Why these bounds are enough to be interesting.** Two requests are the least
that interleave, and every race found needs only two; `domain_serial` uses more
organizations because there the question is sequences of calls. In
`domain_concurrent` two creations may compete for one slug, so that one insert is
refused by the index, or leave two organizations live that want the same domain:
the lookup of one finds it taken by the other, or both pass the lookup and one save is
refused by the index. `NewSlugs` and `NewSubdomains` are the names that changes of a
name are sent, and empty there: an update saves its snapshot as a rename does, and what a
change of slug or subdomain meets is left to `domain_serial` and
`domain_lost_update`. Two domains and two tokens let a pending domain be
replaced while its predecessor is being verified; three row ids let a member be removed and added again. Three keys let a
two-file upload overlap another upload and a delete. Nothing in `NotificationQueue`
relates two events, so one event has all its behaviours: with `MaxRetries` 3 there
are at most three attempts, but an outage between copy and acknowledgement doubles a
message, and four slots hold the handlers of both and their copies. In `ServerProcess`
two requests dial at once, or one during the disconnect of another's connection; the
third meets what they leave behind, and each has a connection to dial. `MaxRetries` is 3 as in the code; `MaxAttempts` is 2 instead of 5,
which keeps "first", "another" and "none left". Ids, tokens, row ids and keys are
generated at most once because `randomUUID` and the token generator are taken not
to repeat; `IdsRemain`, `TokensRemain`, `MaxRows`, `KeysRemain`, `Slots` and
`MaxOutages`, `Reqs` and `Conns` are the bounds on what grows.

**Symmetry** is used only in runs without liveness properties. Deadlock is
checked everywhere but in `NotificationQueue`, whose system really stops when all
events have been handled, and in `ServerProcess`, whose process ends.

**Fairness.** `TenantDomain` and `AttachmentStorage`: weak fairness of a request's
next step, because the event loop resumes a handler whose await was answered and
the drivers answer or reject every call. `NotificationQueue`: the same for
handlers, and for the broker (it delivers what is ready and takes what it is
sent) and the restart of the worker. The environment (new requests, DNS records,
crashes, lost connections, events) has none, and ending the worker's process after a
lost connection (`Exit`) has none either: the worker stays without a channel until its
process ends, and nothing in this repository makes it end. `EventuallyAcked` says so:
every published event leaves the broker unless the worker comes to be cut off.
`ServerProcess` and `TaskNotification` are checked for safety only.

**Where the code and its texts disagree.** Four runs each check one sentence of
the repository that the code does not keep; TLC gives the interleaving.

| run | sentence | what happens | what still holds |
|---|---|---|---|
| domain_lost_update | "customDomain overrides the subdomain in resolveTenant from now on" | a rename that overlaps the verification saves the pending row back | `OnlyOverlapsDeactivate`, `OnlyOverlapsLeaveLifecycle`; without overlap the sentence itself (`RemovalDeactivates`) |
| members_last_owner | "An organization must keep at least one OWNER" | two OWNERs leave at once | `OnlyOverlapsEndOwnership`, `OnlyOverlapsBreakRules`; without overlap the sentence itself (`AnOwnerIsKept`) |
| task_done | "DONE is immutable" | a stale status is written over DONE | `OnlyStaleReadersReopen`, `OnlyStaleWritesBreakRules`; without stale rows the sentence itself (`DoneStays`) |
| server_deploy | "a notification is never lost to a deploy" | a client goes away while its handler connects to the queue; nobody is connected, so `server.close` calls back and the process exits before the event is sent | `OrderlyExitDelivers`, `AssigneeIsServed`; without clients that leave and failing connections the sentence itself (`NothingLostUndisturbed`) |

The last column says that the rules are right and their atomicity is missing; the
theorems it names are proved, and say exactly what each counterexample needs.
Other sentences that the code does not keep are visible in the modules and need
no run: `findByHost` resolves a host to an organization whose domain is still
pending ("only becomes active after DNS verification"); unassigning keeps
PROCESSING ("PROCESSING/PROCESSED require an assignee"), which is the only way to
break that rule (`OnlyUnassignmentStrandsWork`); a
creation that stops between its inserts leaves an organization without OWNER
(`Lost` after `InsertOrganization`); an ADMIN's role change that lands after the
target became OWNER demotes an OWNER (an `overlapped` request); whether an
assignment is new is decided on a stale row (`IsNewAssignment`), which
`HolderIsTold` shows to be harmless for who has been told at all; a compensating
delete that fails is swallowed and nothing sweeps (`stray`); a creation whose
subdomain is taken and whose slug is long is refused for a suffix it did not choose
(`SuffixMustFit`).

## What is proved

TLAPS checks these for every value of the constants that satisfies the named
assumptions of the modules, with every fault and any number of requests. Each
goes through an inductive invariant, called `IInv` in most of the proof modules,
that TLC was asked about first.

| theorem | property | why the invariant is stronger |
|---|---|---|
| `TenantDomainProofs!TypeCorrect`, `ColumnsAgree`, `VerificationSound` | `TypeOK`, `DomainColumnsAgree`, `VerifiedWasProved` | what holds of stored rows must hold of the snapshot of every request that will save one: the snapshot is settled and proved for the organization of the request, and an organization being looked up has a pending row |
| `OrgMembershipProofs!TypeCorrect`, `MembersHaveOrg` | `TypeOK`, `NoMembersWithoutOrg` | rows exist only while the organization is live; the phases of a request fit its operation |
| `OrgMembershipProofs!WritesWhatWasRead` | `OnlyTheRowThatWasRead` | a request past its read holds the id it will write by |
| `OrgMembershipProofs!OwnerRemains`, `OwnersDemoteOwners` | `OnlyOverlapsEndOwnership`, `OnlyOwnersDemoteOwners` | for a request that nothing overlapped, the row and the count it acts on are still those of the table |
| `TaskWorkflowProofs!TypeCorrect`, `AnnouncedAfterCommit` | `TypeOK`, `NotifiedWasCommitted` | a request about to emit has written its user to the row |
| `TaskWorkflowProofs!AssigneeIsTold` | `HolderIsTold` | the assignee of every snapshot was told, is being told or lost the event, since a stale write may put it back |
| `TaskWorkflowProofs!DoneRespected`, `WorkIsHeld` | `OnlyStaleReadersReopen`, `OnlyUnassignmentStrandsWork` | what a request is about to write is allowed on the row it has read |
| `AttachmentStorageProofs!TypeCorrect`, `RowsHaveBytes` | `TypeOK`, `RowHasBytes` | between save and insert, and in the compensation, a key belongs to one request and has no row unless it is `unanswered` |
| `AttachmentStorageProofs!NoOrphans` | `NoOrphanBytes` | the holder of bytes without a row is never another request's business |
| `NotificationQueueProofs!TypeCorrect`, `NotificationsSurvive` | `TypeOK`, `NothingLost` | an acknowledgement is under way only for a concluded event or beside its copy |
| `NotificationQueueProofs!MailsStayLimited` | `MailsLimited` | until the first outage, the one message of an event in work excludes another (`Once`), and it has counted every attempt that may have sent a mail, answered or not (`Counted`) |
| `NotificationQueueProofs!ServiceImplemented` | `ServiceSpec` | only published events have messages, and one whose acknowledgement is under way is concluded or has a copy; then every step is a step of the service or none |
| `TaskNotificationProofs!RequestsUndisturbed` | `Spec` of `TaskWorkflow` | the composition adds no step to the requests, so every theorem of `TaskWorkflowProofs` holds of it |
| `TaskNotificationProofs!OnlyAssigneesMailed`, `AssigneesServed` | `MailedWasAssigned`, `AssigneeIsServed` | what was emitted is with the service or concluded, and the service holds nothing else |
| `TenantDomainProofs!OverlapsDeactivate` | `OnlyOverlapsDeactivate` | the snapshot of a request that nothing for its organization overlapped is still the row but for what its operation changed, and no other step touches that row |
| `TenantDomainProofs!LifecycleFollowed` | `OnlyOverlapsLeaveLifecycle` | the same snapshot invariant: a save that nothing overlapped changes the stored row by its own operation only, and `Collides` guards it at that moment (`SaveFollows`) |
| `TenantDomainProofs!LifecycleImplemented`, `RemovalDeactivates`, `SerialImplements` | `LifecycleSpec`, `OnlyRemovalDeactivates` | while `NoOverlap`, of which one request at a time is a case |
| `OrgMembershipProofs!RulesObeyed` | `OnlyOverlapsBreakRules` | every change is the `Deed` of one request by its own actor: the role a request has read of that actor gives it the authority to do what it is about to do (`GrantedInv`); of one that nothing overlapped that role, like its target's, is still the table's (`CurrentInv`); and while the organization is being created nobody else gets past the first check (`FoundingInv`) |
| `OrgMembershipProofs!RulesImplemented`, `AnOwnerIsKept`, `SerialImplements` | `MembershipRules!Spec`, `KeepsAnOwner` | while `NoOverlap`, of which one request at a time is a case |
| `TaskWorkflowProofs!RulesObeyed` | `OnlyStaleWritesBreakRules` | what a request waits to write is allowed on the row it has read (`CarefulInv`), so it is allowed unless that row is no longer the task |
| `TaskWorkflowProofs!RulesImplemented`, `DoneStays`, `SerialImplements` | `TaskRules!Spec`, `DoneIsFrozen` | while `NothingStale`, which the snapshot of the only request always is (`UpToDateInv`) |
| `OrgMembershipProofs!AuthorityInherited` | `AuthorityIsInherited` | a request past its read of the actor that may still write a role has seen an ADMIN or OWNER, or is the creation |
| `ServerProcessProofs!TypeCorrect` | `TypeOK` | includes that a connection in setup is one request's and that nothing is closed before the release |
| `ServerProcessProofs!OrderlyExit` | `OrderlyExitDelivers` | an event of a waiting client is sent on the connection that the shutdown closes, and the broker answers a close after every frame before it |
| `ServerProcessProofs!ChannelLives`, `NoOtherLeaks`, `NoOtherCrash` | `CachedChannelLives`, `LeaksOnlyByOverlap`, `CrashesOnlyWhileConnecting` | a connection that never had another beside it is the present one from the answer of the dial to its end, and has its listeners unless it is in setup |
| `ServerProcessProofs!WaitingClientsAreSent`, `NothingLostUndisturbed` | `NotificationNeverLost` | until a connection fails, a request whose client waits has a connection and a channel when it needs them, and is done only after its event was written (`Sending`); the drain keeps the release behind it |
| `AttachmentStorageProofs!DeletedBytesLeave` | none: the safety half of `DeletedBytesGo` | the key of a request between row and object is a generated one, and `SaveFile` takes new ones only |
| `TenantDomainProofs!RequestsGetAnswered`, `AttachmentStorageProofs!RequestsGetAnswered` | none: the variant behind `EveryRequestEnds` and `DeletedBytesGo` | `Distance` counts the awaits a request may still go through; every step of its own lowers it and no other one touches it |
| `SubdomainNamesProofs!FirstChoiceIsAccepted`, `SuffixMustFit`, `ShortSlugsAlwaysFit`, `LongestSlugsSeldomFit` | none: statements about the operators | the first choice always passes; a suffix passes exactly within 63 characters: always for bases up to 56, one time in ten thousand for 60 |

**Hypotheses.** The theorems about what the code does without its races are
implications from a condition on the behaviour: `[]NoOverlap` (no two requests, in
`TenantDomain` no two for one organization, are in flight together) and
`[]NothingStale` (no request waits to write a row that has changed). The theorems
named `SerialImplements` discharge it for one request at a time, crashes included, so
neither is empty; `domain_lost_update`, `members_last_owner` and `task_done` show
that neither can be dropped. `NothingLostUndisturbed` assumes `Faults \subseteq
{"twice"}`; `server_deploy` has one request and the fault `"abort"`. Its general form
`WaitingClientsAreSent` assumes nothing: it speaks of the clients that stayed and of
the processes whose connections held. The theorems of `SubdomainNamesProofs` are about
a slug that passed `Slug.create`. No other theorem has assumptions of its own.

**Only model-checked:** liveness (`EveryRequestEnds`, `EventuallyAcked`,
`DeletedBytesGo`), since liveness under fairness and `ENABLED` are out of the
prover's reach. What is proved of the first and the third is all but the fairness: a
bound on the steps of a request for every value of the constants, and that bytes once
gone stay away. `EventuallyAcked` needs a measure over all messages of an event, a
sum over the slots, which is an induction over data. There are no recursive
operators.

## Not modelled

* Tenant host resolution (`resolveTenant`, `findByHost`): a read without state.
  Nothing in the repository reads the `res.locals.organizationId` it sets.
* Users: inserted and read, never changed or deleted. Two registrations of one
  e-mail are kept apart by the unique index alone; a model would restate it.
* Authentication: a password comparison and a signed token, without state.
* The login rate limiter: its counting is inside a library and Redis.
* Closing Prisma and Redis: no state here depends on them. Requests that never
  publish: they end in `NothingToPublish`.
* Malformed queue messages: no publisher in this repository writes one.
* Domain events of the organization module: the publisher only logs them.
* The pattern of custom domains, hosts and record values as strings, presentation,
  OpenAPI, configuration, logging, seeds. Read-only use cases change no state.

## Plan

Done, in this order: `TenantDomain`, `OrgMembership`, `TaskWorkflow`,
`AttachmentStorage`, `NotificationQueue`, `ServerProcess`, `NotificationService`,
`TaskNotification`, `SubdomainNames`; theorems for every safety property that
the passing runs check; `MembershipRules` and `TaskRules` with the refinements up to
races; the variants of the requests. What is left:

1. `ServerProcess` under fairness: that every shutdown ends by itself or by the
   timer says little, as the timer alone makes it true.
2. A variant for one message of `NotificationQueue` (its phase and its attempts left),
   which bounds what happens to it between two outages.
3. Several organizations in `OrgMembership` and several tasks in `TaskWorkflow`:
   their rows never meet in this code, so nothing new is expected of them.
