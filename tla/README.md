# RealityNG backend: a formal model

RealityNG is a property marketplace for Nigeria: a Django REST backend over
PostgreSQL, with Celery workers and a Redis channel layer for websockets. It
never holds money; it keeps the books of escrows that an external provider
holds. This directory models the parts of it whose correctness depends on the
order in which requests, workers and providers act, checks them with TLC on
small instances, and proves the most important results with TLAPS for every
instance.

Paths below are relative to the repository root (`apps/` stands for
`src/apps/`).

## 1. The system

All components run in the same Django processes and share one PostgreSQL
database. There is no in-process concurrency to speak of; what interleaves are

* HTTP requests, each in its own process or thread, in PostgreSQL's default
  isolation level (read committed). `ATOMIC_REQUESTS` is off: a request is
  atomic only where the code says `transaction.atomic`, and excludes others
  only where it says `select_for_update`;
* Celery workers, which run one task at a time and acknowledge it when it
  starts, so a task dies with its worker; the beat scheduler, which starts the
  due-outbox task every 30 seconds (`notifications/migrations/0008`);
* the payment provider, whose webhooks come late, twice or in another order.

| Component | State it keeps | Operations | What is hard, and what must hold |
|---|---|---|---|
| **Escrow orchestration** (`payments/services.py`, from `create_escrow_transaction` to `reconcile_escrow`) | one `EscrowTransaction` per transaction, with its status and five summary columns; rows for funding events, conditions, releases, refunds, settlements | create, record reference, record funding event, create and satisfy condition, request/approve/confirm release and refund, settle, reconcile | the row lock orders the calls on one escrow but not the disputes and evidence they read; checks made at request time are used at approval and confirmation; events come in any order. Money is never asked for in both directions or twice; summaries agree with the rows; releases honour conditions and disputes |
| **Property transactions** (`payments/services.py`, up to `resolve_dispute`) | `Transaction`, milestones, proofs, disputes | activate, complete, cancel; review, accept, reject milestones; upload proofs; open, resolve disputes | every transition is decided and saved from an instance loaded without a lock. A status has its evidence; what is closed stays closed |
| **Provider webhooks** (`record_provider_webhook`) | one row per provider event id | receive, verify, record, mark a duplicate | deduplication looks first and inserts later; providers repeat themselves. An event is accepted only with a valid signature, and never both accepted and refused |
| **Property financing** (`payments/services.py`, from 1041) | one application with consents, documents, partner submissions and an offer | create, edit, consent, upload, submit, decide, hand off, offer, accept, decline, withdraw | accepting locks two tables in the opposite order of another service; several ways lead to the partner. Nothing goes to a partner without consent and documents; the status tells the fate of the offer; no deadlock |
| **Realtime outbox** (`notifications/services.py`, 191-545; `tasks.py`) | `RealtimeOutboxEvent`: status, attempts, next attempt | enqueue, queue task, claim, broadcast, record result, retry | several workers, a periodic batch, crashes between claim and result, lost answers from Redis. One publisher per row; bounded attempts; every row settles |
| **Messages of a thread** (`create_message`, `ConversationThreadViewSet.messages`, `mark_thread_read`) | `Message` with a per-thread sequence number and a client id; a read timestamp per participant | send, fetch after a number, mark read | numbers are given inside transactions that commit later; retries overlap the original. Followers miss nothing; no duplicate |
| **Conversation threads** (`notifications/views.py`) | threads and participants | find or create | looking and creating are not in a transaction, participants are inserted one by one. Who was given a thread takes part in it |
| **Notifications and preferences** | notifications, read flags, preferences | create if enabled, mark read | none beyond the outbox row it inserts |
| **Websocket consumers** | group membership | join, forward, send | sends enter `create_message` |
| **Listings** (`properties`) | a `Property` with a moderation status; its images | create, edit, submit, approve, reject; add, edit, reorder, delete images | an edit saves all columns of an unlocked instance. What is shown was reviewed; one cover |
| **Walkthroughs** (`inspections/views.py`, 485-666) | videos of a property with a moderation status and a featured mark | upload, edit, submit, moderate, feature, archive | moderation looks at no status; the mark is cleared and set in two steps |
| **Trust** (`trust`) | verification requests of users and properties, with a snapshot of the listing at approval | submit, decide, suspend, expire, resubmit; revert when the listing is edited | decisions and edits overlap; the snapshot must be of the listing that is shown |
| **Leads** (`properties/leads.py`, inquiry, viewing and application views) | inquiries with a status, a stage and a counter; viewings; applications; assignments of agents | assign, move, log, confirm, complete, apply, decide | counters incremented in Python; two views move one inquiry; an assignment is checked once. One active application; ended inquiries stay ended |
| **Inspections** | requests, assignments, reports | assign, accept, decline, reopen, submit and approve a report | request, assignment and report change together without locks or transactions, and some saves write whole rows. One inspector at a time; closed stays closed; completed means reported and approved |
| **Construction** | projects, milestones, progress updates, links to inspections | update, approve, complete, recompute progress | derived progress is a copy; a gate asks for an inspection that ends elsewhere |
| **Services: providers** | profile, warnings, suspensions, appeals; trades, areas, portfolio; complaints | edit, submit, approve, warn, suspend, reactivate, appeal, decide | columns saved from an unlocked instance. Sanctions stand until they are lifted |
| **Services: bookings and reviews** | quotes, bookings, reviews, flags, a rating copied to the profile | quote, book, complete, review, flag, publish, hide, answer | the rating copy is recomputed by racing requests; flags are counted after they are stored |
| **Accounts** | users, roles, audit log | request and decide a role, suspend, reset a password, edit a profile | an edit of a profile saves the whole user that authentication loaded |
| **Assistant** (`assistant`) | a conversation with its messages, a session in the cache, token totals | create, send | a send reads the session, waits for a provider and writes it back. The session agrees with the rows; no tokens are lost |
| **E-mail**, **storage**, **documents**, **common**, **admin** | little or none | | see section 8 |

How they interact: a *transaction* owns at most one *escrow* and its
*disputes*; an escrow condition may point to an *inspection* or a construction
*milestone* whose state is read when the condition is satisfied; *webhooks* are
recorded and answered and change no escrow: a manager who follows the provider
enters its events through the `record-funding` endpoint (`payments/views.py:602`),
which calls `record_funding_event`; a *message* or *notification* commits an *outbox*
row in its own transaction and queues a task in the `on_commit` callback; a
*listing* edit calls `handle_property_edit` in *trust*; *viewings* and
*applications* move the *inquiry*'s stage.

## 2. The modules

| Module | Models | Uses |
|---|---|---|
| `Escrow` | one escrow with all its child tables, every service function on it, and the disputes and evidence those functions read | |
| `EscrowMoney` | the sums that relate ledger, balance and payouts | `Escrow` |
| `Payouts` | abstract: what the payments component promises about payment instructions | |
| `EscrowRefinement` | the refinement mapping from `Escrow` to `Payouts` | `Escrow`, `Payouts` |
| `MCEscrow`, `EscrowProofs` | symmetry for the runs; 12 theorems | the above, `Sums` |
| `Outbox`, `MCOutbox`, `OutboxProofs` | outbox rows, callbacks, broker queue, workers, crashes; 8 theorems | |
| `Messaging` | one thread: concurrent `create_message` transactions, followers, read marks | `ThreadLog` |
| `ThreadLog` | abstract: a log that grows at its end and readers that move through it | |
| `Conversations` | the threads about one inquiry, viewing or application | |
| `Assistant` | one conversation with the AI assistant | |
| `MCMessaging`, `MessagingProofs` | the run of the three; 10 theorems about all of them | `Sums` |
| `ListingVerification` | one listing and its verification requests: edits, moderation, decisions, all cut at each read and write | |
| `Leads` | one user's inquiry about a listing with viewings, applications and the agent's assignment | |
| `Images`, `Walkthroughs` | the pictures and the videos of one listing | |
| `MCListing`, `ListingProofs` | the run of the four; 9 theorems about all of them | |
| `Inspection` | one inspection request with its assignments and its report, every call cut at each read and write | |
| `Construction` | one project with its milestones, progress updates and inspection links | |
| `MCInspection`, `InspectionProofs` | the run of the two; 8 theorems about both | `Sums` |
| `Providers` | one provider's profile, moderation and appeals | |
| `Showcase` | a list of trades, areas or portfolio images with one flagged item | |
| `Reviews` | bookings, reviews, flags and the rating summary | |
| `ServiceDesk` | one quote request and one complaint | |
| `MCServices`, `ServicesProofs` | the run of the four; 7 theorems about all of them | |
| `Financing` | one financing application and its offer | |
| `Deals` | one property transaction with a milestone, proofs and disputes | |
| `Webhooks` | the rows and answers of provider events | |
| `Identity` | one user's account, role requests and verifications | |
| `MCFinance`, `FinanceProofs` | the run of the four; 13 theorems about all of them | |
| `Sums` | lemmas about sums over finite sets, for the proofs | |

An MC module with several parts starts each behaviour in one of them
(`PartsInit`) and moves that part's variables alone; no part writes a column
that another one models, so the runs lose no interleaving, and the properties
say which part they are about. (An edit of a provider's profile saves every
column of its row. `Providers` has the columns of its status and sanctions,
`Reviews` those of the rating summary, and each has the edit as far as it
concerns its columns.)

Almost all modules outside the payments core follow one pattern, because the
code does: an endpoint loads a row, decides by what it loaded, and saves some
columns or all of them, with no lock. `Begin...` is the load and the check,
`calls[c]` (called `work` in the MC modules) what the call holds, and each later
action one access to the database. `disturbed` (`overlapped`) remembers that
two calls overlapped or one died: a property guarded by `~disturbed` holds
through every sequence of calls that do not overlap, and one without the guard
holds whatever overlaps. Which of the two a property can be is the answer that
the runs give.

For declared transitions the runs give a finer answer. `Inspection`, `Leads`,
`Deals` and `ServiceDesk` mark a call under way as *older* when another call
changes what it decided by: the status or the row that its check read, and that
it will write without reading it again. `StatusMovesAsDeclared`,
`LeadsMoveAsDeclared`, `ClosedDealsStay` and `QuoteMovesForward` say that rows
move as the code's tables declare in every step but a save of such a call,
however many calls overlap or die. So a stale save can undo a move (section 5),
and nothing else can.

In every module a definition marked `fault` is a variant of the definition
after it with a plausible mistake (a dropped guard, a stale read, a lock left
out). Nothing uses it in the specification: it is there to be put in place of
the real one, and the property it belongs to is then violated.

### Escrow

`status`, `fundingStatus`, `confirmed`, `releaseStatus`, `refundStatus`,
`reconciliation` and `feeStatus` are the columns of one `EscrowTransaction`;
`events`, `conditions`, `releases`, `refunds` and `settlements` its child
tables (a row that does not exist yet is a null record); `disputeOpen` is
whether a `PaymentDispute` of the transaction is open or under review;
`evidence` whether the inspection or milestone a condition points to is
completed; `rowLock` the call of `request_release` that holds
`select_for_update` on the escrow.

Almost every service locks the escrow's row first and does all its work on
values read under that lock, so it is one action. `request_release` is the
exception that matters: it reads the disputes, which nobody locks for it. It is
cut there into `BeginRelease` (lock, dispute check) and `FinishRelease` or
`RefuseRelease` (all that is read from the locked row, then commit or
rollback). Between them `DisputeChanges` and `EvidenceChanges` can act and no
other service on the escrow can (`RowAvailable`). The functions that record
something about conditions, settlements and reconciliation are actions of their
own. Amounts are whole numbers (the columns are fixed-point decimals, which
the code only compares, adds and subtracts); the fee's rate and the split of a
settlement are left out, since no property depends on them.

Two history variables say which story a behaviour tells: `lateFunding` (funding
was confirmed after the first instruction) and `clamped` (a reversal was cut
off at zero). The properties that are conditional on them hold exactly up to
that point; the violation runs show what lies behind it. A third one, `opened`,
keeps what a dispute found when it was opened: the release rows that existed
and the `request_release` call that had already read the disputes, if there was
one. `DisputeAdmitsOneCall` compares every later state of the dispute with it.

### Outbox

`status`, `attempts` and `waiting` are the columns of each row; `hooks` the
`on_commit` callbacks not yet run; `queue` the broker; `work[w]` what a worker
has in hand: the ids left of its batch, the claimed row, the attempt number it
read, and where it stands (`ready`, `claimed`, `sent`, `failed`). A worker is
cut at each transaction and at the broadcast: `Claim` is the
`select_for_update` transaction of `_claim_outbox_event`, `Publish` and
`PublishFails` the call to the channel layer outside any transaction (which may
have reached Redis even if it reports an error), `RecordDelivery` and
`RecordFailure` the save of the instance the claim loaded. `Crash` loses
whatever the worker holds. The clock is reduced to `waiting`: `next_attempt_at`
lies ahead or has passed. Two early returns are left out with which a row counts
as delivered although nothing was sent: that for a row whose message or
notification was deleted (nothing in the program deletes messages), and that for
a process without a channel layer (`notifications/services.py:253`, `:420`; the settings
always configure Redis, `config/settings/base.py:523`). For them `sent` means
that the broadcast was called and came back.

### Messaging

`calls[c]` is one `create_message` request with the user and client id it was
sent with; `messages[c]` the row it inserted; `rowLock` the holder of the
thread's row lock; `log` the committed messages in commit order; `clock` a
logical clock for `created_at` and the read marks; `cursor[u]` the largest
number the client of `u` has fetched, `seen[u]` what it has been given. A call
is cut into `BeginCall` (look for the client id, before the lock), `Insert`
(lock, number, insert, in one transaction still open) or `Refuse` (unique
constraint), and `Commit` or `Rollback`. `FetchAfter` is
`GET .../messages?after=<n>`: the oldest page after the cursor. `MarkRead` is
`mark_thread_read`. `is_closed` is only set in the admin site, so its error is
left out.

### ListingVerification

`listing` is the status and content of one `Property`; `status` and `snapshot`
the columns of its `PropertyVerification` rows; `calls[c]` what a request has
loaded and is about to save. The content has two parts: `address` stands for
the material fields (address, price, listing type), `text` for all others. An
edit is cut into `BeginEdit` (the instance `get_object` loaded, with the
requested fields set), `SaveEdit` (`save()` without `update_fields`: every
column), `FindApproved` and `RevertApproval` (`handle_property_edit`); a
decision into `BeginDecision` (load and compare the status), `CopyListing` (the
lazy load of the listing for the snapshot) and `SaveDecision`. Moderation reads
nothing that it writes and is one action. `TakeIntoReview` is the admin site,
the only way from pending to under review. `reviewed` remembers the content at
the last approval of the listing; `disturbed` that two calls overlapped or one
died.

### Inspection

`request` is the status and the `assigned_inspector` of one
`InspectionRequest`; `assignments` its `InspectionAssignment` rows in the order
they were inserted; `report` the status of its one `InspectionReport` and
whether it is deleted (the row stays, and the one-to-one column keeps a second
one out). `calls[c]` is what a call has loaded and has still to save, as one of
a few steps. Most endpoints check the loaded status and save the status column
(`BeginTransition`, `BeginApprove`, `SaveStatus`, which is `transition_to`).
`assign` is five steps (`BeginAssign`, `FindPrevious`, `InsertAssignment`,
`MarkPrevious`, then the saves of `transition_to` and `SaveAssigned`, a
`save()` of every column); `accept` saves the assignment and then the request
(`Accept`, `TakeRequest`); `submit` and `approve` save the report and then the
request. Endpoints with one save that looks at nothing (`CreateReport`,
`DeleteReport`, `SendBack`) are one action. What an administrator may do in an
inspector's place is left open by leaving out who calls; only who accepts and
declines matters, because `get_queryset` shows an administrator assignments
that are no longer active (`Finds`). Edits of the requester's text and
evidence files save columns that no check reads and are left out. `filed` and
`signed` remember that a report was ever submitted and approved; `disturbed`
is as above.

### Conversations and Assistant

`Conversations` follows requests for a thread about one context: `Look`
(`_existing_thread_for_context`), `Create`, `AddParticipant` for each member of
a set in any order, `Answer`. `Assistant` cuts a send into the stored question
(`Ask`), the session from the cache (`LookUp`) or from the last rows (`Load`,
`Fill`), the provider with up to `MaxRounds` rounds of tools (`Respond`,
`Unavailable`), `Save`, `Count` and `Remember`. Turns are identified by the
send they belong to. A history that is loaded from the rows already holds the
question of the send that loads it, so the question reaches the provider and
the session twice; `SessionIsOfRows` says that it never grows beyond that.
`created_at` is taken to follow the order of the inserts.

### Leads, Images and Walkthroughs

`Leads` is one user's inquiry with its viewings and applications: `status` and
`stage` move by tables of their own, a confirmed viewing moves the status on
(`MarkInquiry`), an application may link a confirmed or completed viewing.
`grant` is the assignment of the one agent, `verified` his verification;
`entitled` remembers that he was ever capable. `Images` keeps the set of
pictures and of covers; a save that marks a cover clears the others in one
transaction. `Walkthroughs` keeps status and mark of each video, and the
constraint that lets one be featured; rejected and hidden are explored as
`pending_review`, which has the same ways out. Its update needs `property_id`
in the request (a `KeyError` otherwise), which the model takes as given.

### Construction

`project`, `milestones`, `updates` are the status columns, `progress` the
derived percentages, `gate` is `requires_inspection`, `inspected` the furthest
status of a linked inspection. Weights are 3 for `Heavy` milestones and 1 for
others; "skipped" stands for skipped and cancelled. An approval saves the
update (`BeginApprove`, `ApproveUpdate`) and then applies it in one transaction
(`ApplyUpdate`, `CommitUpdate`). Editing a draft update always fails (its
serializer looks for keys a partial request does not have), so there is no such
action. `waived` remembers milestones that a manager completed by hand or gated
later, `outdated` that a milestone changed after the last approved update.

### Services

`Providers` keeps the columns of the profile that endpoints decide by, the
appeals in order, and the copy of the last appeal's status; `issued` counts the
warnings that administrators gave, `touched` the appeal handled last. `warn`,
`suspend`, `reactivate`, `approve` and the others are one save each of the
columns they name; an edit (`SavePatch`) saves all. `Showcase` is instantiated
twice, as portfolio with a limit and as trades. `Reviews` represents averages
and counts by the set of reviews they were computed from; `Recount` cuts
`recalculate_provider_rating` into its two queries and its save.
`BeginProfile` and `SaveProfile` are an edit of the profile, which saves the
summary again as it was loaded.
`ServiceDesk` keeps statuses with the time stamps that are set.

### Financing, Deals, Webhooks, Identity

`Financing` keeps the status, the consent, the reference and whether the amount
is `within` the product's limits. Answers to an offer are cut at their locks:
`LockOffer`, `LockApplication`, then the update of the other offers, for which
accepting waits (`OtherActive`); everything else on an application runs under
its lock and is one action. `Deals` cuts each service at the load and the save
(`cancel_milestone` is left out: no endpoint calls it);
the escrow's view of disputes is `disputeOpen` of `Escrow`. `Webhooks` cuts
`record_provider_webhook` at the look-up and the insert and remembers what each
event was answered. `Identity` holds one user's columns and rows: `decreed` is
what the account was last meant to be, `links` the passwords for which reset
links were issued (a link is valid as long as the password it was made from),
`automatic` whether the role is approved without a decision. Suspending a user
is a model method that the admin site alone calls; it is an action, because an
edit of the profile can undo it.

## 3. What is checked

| Run | Instance | Question and answer |
|---|---|---|
| `escrow_flow` | 2 releases, 2 refunds, 2 funding events, 1 condition, 1 key | In every order of calls, late funding included: do the instruction tables stay apart, keep one row per request and agree with the status (`InstructionsAgree`)? Do releases keep the conditions they were requested under (`ReleaseHonoursConditions`)? Do the copied columns agree with the rows (`ColumnsAgree`), the balance with the ledger and the payouts with the balance (`MoneyAgrees`, but for reversals that were cut off at zero)? How many releases can appear while a dispute is open (`DisputeAdmitsOneCall`: one, of the call that had read the disputes before it opened)? Do the tables implement `Payouts` (`PayoutsSpec`)? Yes |
| `escrow_steps` | 1 release, 1 refund, 2 events, 1 linked condition, 1 settlement, mismatching reports | With every operation enabled, do the services follow the declared transitions although none reads them (`WorkflowFollowsDeclaration`)? Yes, as long as no funding came late |
| `outbox` | 2 rows, 2 workers, 3 attempts, batches of 1, 1 crash | Does one worker at a time publish a row, from its current state (`OneHolder`)? Does a row say truly what was tried (`AttemptsAgree`)? Does a settled row stay settled (`SettledIsFinal`), and does every row settle, even when its task is never queued and older rows fill the batch (`EveryRowSettles`, unless a worker crashed on it)? |
| `messages` | 3 sends, 2 users, 1 client id, pages of 2, 1 read mark; 2 requests for 3 possible threads; 3 sends to the assistant | Do numbers follow commits, do followers get everything, do the two orders of the history agree (`MessagesAgree`), and is a thread a log (`ThreadIsALog`)? Does everybody take part in the thread they were given, and is the assistant's session that of its stored turns (`ConversationsAgree`)? |
| `listing` | 2 requests, 2 verifications, 2 addresses; 1 viewing, 2 applications, 2 follow-ups; 3 pictures; 3 videos | Can an approved listing show something nobody approved, whatever overlaps (`PublishedIsReviewed`: no), and is the approved snapshot of the listing as it stands (`DriftNeedsOverlap`: yes, without overlap)? Do a lead's copies and counters agree (`LeadsAgree`), and do inquiries, viewings and applications move as declared, whatever overlaps (`LeadsMoveAsDeclared`: yes, but for saves of calls older than what they decided by)? Is there one cover, and one featured video that somebody chose and that was reviewed (`MediaAgrees`)? |
| `inspection` | 2 calls that can die, 3 inspectors of whom one is an administrator, 2 assignments; 2 milestones, 1 update | Has a request one inspector (`OneInspector`: without overlap, unless an administrator was assigned or a call died between the saves of `assign`)? Can stale saves show work that nobody did (`CompletionIsEarned`: no, whatever overlaps)? Does the status move as declared (`StatusMovesAsDeclared`: yes, but for saves of older calls)? Is a gated milestone completed by an approval only after an inspection, and is the project's progress that of its milestones (`SiteAgrees`)? |
| `services` | 2 calls; 1 warning, 2 appeals; 3 items; 2 bookings, 3 users; 1 quote and 1 complaint | Do a provider's sanctions stand until somebody lifts them (`ProfileAgrees`, `SuspensionStands`)? Have lists one flagged item (`ListsAreKept`)? Are reviews earned, flags heeded and stamps true, and is the rating that of the published reviews (`RecordsAreTrue`)? Does a quote never go back (`QuoteMovesForward`: by older calls alone)? |
| `finance` | 2 offers, 2 partner references; 2 disputes; 2 events, 3 deliveries; 2 role requests or verifications, 2 reset links | Does nothing reach a partner without consent and documents, is there one offer with the fate that the status tells, does no call wait in a circle (`ApplicationAgrees`, `FollowsDeclaration`)? Has a deal's status its evidence and an event one answer (`RecordsAgree`), and what undoes its moves (`ClosedDealsStay`: older calls alone)? Is an account as it was last meant to be, and are its requests decided once and by others (`IdentityAgrees`)? |
| `escrow_dispute` | 1 release | violation, finding 1 |
| `escrow_double` | 2 releases, 1 refund, 2 events | violation, finding 2 |
| `outbox_crash` | 1 row, 1 worker, 1 crash | violation, finding 3 |
| `milestone_gate` | 1 call, 1 gated milestone | violation, finding 4 |

Most properties are conjunctions of named parts, each with its own comment in
the module that it is about; a part was tried against a mistake of its own
where it can go wrong by itself, so that no part holds for lack of behaviours.

### The bounds, and why they are enough

*Escrow*: two rows per table are the least with which copies can disagree, keys
collide and a second payout happen; two events give confirmation and reversal
in both orders and a late one; amounts up to 2 with 2 expected give none, part
and all, and a partial reversal of a full confirmation. *Outbox*: with two
workers and two rows a batch can be stale, a task can race a batch and an older
row can occupy the only place in a batch; three attempts give a first, a middle
and a last one (the code's limit is five, and the safety theorems hold for every
limit); one crash per behaviour is enough to lose a row, since crashes do not
depend on each other. *Messaging*: three sends allow two to contend behind a
third and a page of two to be full with one message left; one client id is
enough because the constraint is per id. *Assistant*: a session of three turns
is overrun by the second send (the code keeps more, of the same kind), so that
trimming is explored.

In the parts where calls overlap, two calls are enough for what a stale save
can do: it overwrites one state with an older one, and a third call could only
be the one whose state is overwritten, which the first can be as well. Two rows
of a table, three of a list with a limit of two (`Images`, `Walkthroughs`,
`Showcase`), or two events are the least with which a copy can name the wrong
one or a limit can be passed.

`MaxAssignments`, `MaxAppeals`, `MaxWarnings`, `MaxDeliveries`, `MaxResets`,
`MaxFollowUps`, `MaxMarks`, `MaxCrashes` bound how often something begins; calls
that have begun go on. `MaxImages`, `PageSize`, `BatchLimit`, `MaxAttempts`,
`SessionSize` and `MaxRounds` are limits of the code with smaller values.

Four MC modules restrict the states that are explored further (`CONSTRAINT`),
always to keep a product of things that do not meet from being multiplied out:

* `MCListing`: the agent's assignment changes before there are viewings or
  applications, applications while the inquiry is new or has a viewing and, with
  overlap, as long as one more can be made, and three videos, or two that
  overlap, apart from videos that left the archive;
* `MCInspection`: overlap with one assignment and no report, everything else
  without overlap; a project moves before it has milestones; two milestones
  without overlap and gates, overlap with one milestone. `CompletionIsEarned`,
  which is also about overlap with reports, rests on its theorem there;
* `MCServices`: appeals without overlap, two bookings without overlap or flags;
* `MCFinance`: of a user's account, roles and verifications one moves at a time,
  apart from a suspension that stops the others.

`TwoAtATime` in `MCMessaging` lets two of three sends to the assistant overlap,
and explores deaths together with overlap among two of them.
What lies outside is said here because no run checks it; the theorems of
section 4 know no constraint and cover it. The liveness property and the
violation runs, which no theorem covers, have none.

`CHECK_DEADLOCK FALSE` stands where the instance is finite by design: once all
rows have settled, all sends have returned or all bounds are reached, there is
nothing left to do. A completed inspection whose report was deleted, a closed
deal and an ended lead are such ends of the program itself. That calls do not
block each other is therefore a property of its own where locks are taken in
more than one order (`NobodyWaitsInACircle` of `Financing`). `escrow_flow` and
`escrow_steps` are checked for deadlock.

### Fairness

Only `outbox` and `outbox_crash` need it (`FairSpec`). A worker that has
something in hand goes on (`WorkerStep`, it is running code); the beat
scheduler keeps starting the due task (`StartBatch`), which is the 30 second
schedule that the migration installs; the clock reaches `next_attempt_at`.
Nothing is assumed of the callbacks and the queued tasks, which the code allows
to be lost, nor of commits. Batches are weakly fair in sum over the workers,
not each one: beat does not choose a worker. The batch of `outbox` is
smaller than the number of rows, so that the answer does not depend on the
batch being large enough for everything. The other parts react to people and
providers, of whom nothing can be assumed, so that no statement about them says
that something must happen.

## 4. What is proved

Every invariant and every action property of the passing runs is a theorem,
and so are the two refinements (`PayoutsSpec`, `ThreadIsALog`); of what those
runs check only `EveryRowSettles`, which is liveness, is not proved. The
theorems hold for any number of calls, rows, users, events and amounts, and
without the constraints that the MC modules put on what TLC explores, so that
they cover what section 3 says is left out there.

**Assumptions.** The named ones of the modules, which TLC evaluates on every
run: `ConstantsAssumption` and `DisjointIds` (escrow), `OutboxAssumption`,
`MessagingAssumption`, `MessagingPartsAssumption`, `ListingAssumption`,
`ListingPartsAssumption`, `InspectionAssumption`, `SitePartsAssumption`,
`ProvidersAssumption`, `ServicesAssumption`, `FinanceAssumption`. They say that
bounds and limits are natural numbers, that null values are not values, that
the row ids of two tables differ, that administrators are some of the
inspectors, that what a request can ask for is among the declared values, and,
in the services, that calls are finitely many and not none.

**Parts.** A run with several parts has one specification, `PartsSpec`, in
which one part moves and the others stand. `PartsInvariant` (in the services
`ServicesInvariant`) proves the inductive invariant of each part from it.
`PartsAreThreads`, `PartsAreListings`, `PartsAreRequests` and
`PartsAreApplications` show that every behaviour of it is one of `Messaging`,
`ListingVerification`, `Inspection` and `Financing`, so that the theorems that
are stated with the `Spec` of those modules hold in the run.

**The form of the invariants.** Most modules cut a call at each access to the
database, so most of the invariants have three layers: the types; what holds
whatever overlaps, for which each call must be known to *carry* the reason for
what it will save (a proof it found, a review it loaded, a report that was
filed), since the rows may have changed meanwhile; and what holds only as long
as nothing overlapped, where at most one call is under way and what it loaded
is what is stored. The last layer is stated under `~disturbed` or
`~overlapped`, so that it is an invariant of all behaviours.

* **`Sums`**. What `SumFunctionOnSet` is: 0 over nothing, and one element's value
  more over one element more (`SumUnfolds`); from that, that a sum of naturals is
  one (`SumType`), what changes when one value changes (`SumAdds`, `SumTakes`,
  `SumSame`) and when all are bounded (`SumAtMost`). The induction theorem of
  the library takes a predicate as a parameter, which the provers cannot
  instantiate; these lemmas use instead that among the subsets of a finite set
  for which something fails there is a smallest one, if there is any
  (`SmallestSubset`), which is a statement about a set.
* **`EscrowProofs`**. `TypeCorrect` first. `DirectionsExcludeEachOther`,
  `RetriesFindTheirRow` and `ConditionsHonoured` are each inductive with the
  types and, for the second and third, the fact that a call holding the lock
  has read what it uses. `OnePayout` and `StatusTracks` need the invariant
  `PayoutInv`: as long as no funding came late, an escrow that has an
  instruction is pending, released or refunded, statuses from which no request
  starts; that makes `SingleInstruction` inductive. `InstructionsStayInStep`
  puts the four together as the run checks them. `ImplementsPayouts` maps each
  step of the escrow to a step of `Payouts` or to a stutter and uses
  `NoReleaseWithRefund`. `FollowsDeclaration` uses `PayoutInv`, because the
  confirmations set a final status without reading the current one.
  `ColumnsStayTrue`: the columns are copies, each inductive with the types.
  `OneReleaseEscapes` has the invariant `DisputeInv`: while a dispute is open, the
  only call of `request_release` that can hold the lock is the one that held it
  when the dispute was opened, and until it ends no release has been added to
  those of that moment. `MoneyStaysTrue` rests on `MoneyInv`: the
  recorded events are finitely many whatever the set of possible ones, the
  balance is the sum of the ledger (a step adds one event, which is `SumAdds`),
  and until funding comes late no instruction exceeds what came in; since there
  is one instruction at most, the sum of the payouts does not either.
* **`OutboxProofs`**. One inductive invariant `IInv` with the parts `Ownership`
  (a row in hand is `processing`, has one holder and the attempt number the
  holder loaded), `Budget` (attempts against the limit) and `Delivery` (sent
  rows have been broadcast). `OneWorkerPerRow`, `ClaimsStayCurrent`,
  `AttemptsBounded`, `DeliveredMeansSent` and `HoldersAreAlone` follow from it.
  `AttemptsStayInStep` adds `CrashInv`: the rows left behind are finitely many
  and no more than the crashes, since a crash abandons the one row that its
  worker holds, which needs a lemma about the cardinality of a set that gains
  one element at most. `SettledRowsStay` is the action property, from the fact
  that a holder's row is `processing`.
* **`MessagingProofs`**. *Threads*: `IInv` has `LockInv` (an inserted, uncommitted
  message belongs to the lock holder), `NextInv` (its number is one more than
  the length of the log) and `LogInv` (position and number agree). That the
  largest number equals the length of the log is a lemma about finite sets of
  naturals. `FollowersMissNothing` needs the cursor to stand at the end of what
  was seen, and `ImplementsThreadLog` follows with the same invariant.
  `MessagesStayInStep` adds `StampInv`: stamps never lie ahead of the clock, and
  those of the log are in its order, so that the history's two orders agree and
  a read mark hides only messages that existed. *Opening a thread*
  (`OpeningInv`): while no request died, a thread lacks a participant only as
  long as the request that created it is still inserting; without overlap a
  request creates only when there is none. *The assistant* (`AskingInv`): a
  session in the cache or in the memory of a send is one of stored turns
  (`SessionInv`), the turns are in the order of their inserts (`OrderInv`), and
  the total is the sum of the tokens of the sends that were counted
  (`TokenInv`). Both give `ConversationsStayTrue`.
* **`ListingProofs`**. `PublishedListingsAreReviewed` needs only the types and
  that an edit in progress holds a status other than approved: the one step
  that writes content also unpublishes. `DriftComesFromOverlap` adds that at
  most one request is active (`UniqueActive`, which the database's constraint
  keeps) and what a call that is alone knows of the listing
  (`KnowsTheListing`): an edit knows whether it changes the address, a revert
  holds the approved row, an approval about to be saved has the current
  address. `LeadsStayTrue` has `LeadInv`: what holds of the rows whatever
  overlaps (the follow-ups, the one open application, the agent who was
  entitled), what each call carries, and for a call that is alone that the
  inquiry is where it found it. `LeadsMove` adds `FreshInv`: a call that is not
  marked as older still finds what it decided by, whatever overlaps, so that its
  saves are among the declared moves; a call that is marked moves with its save,
  by which the property knows it. `MediaStayTrue` has
  `AlbumInv` and `FilmsInv`: the sets of covers and of featured videos have one
  element at most because each write that adds one empties the set, while the
  limits, the cover that is left and what was deleted need a call to be alone.
* **`InspectionProofs`**. *Requests*: `CompletionEarned` is inductive with what
  each call knows (`KnowsEarned`): a call that is about to save
  `report_submitted` or `completed`, or that loaded one of them and will write it
  back, does so after a report was filed, or signed. It needs no assumption
  about overlap. `StatusMoves` rests on `SInv`: for every call that is not marked
  as older the status it loaded is the current one and its saves are a chain of
  declared transitions, whatever overlaps; and as long as nothing overlapped at
  most one call is under way. `OneInspectorAtATime` adds `OInv`,
  what that one call knows of the assignments (`KnowsInspector`): between its
  saves `assign` leaves at most the row it will mark and the row it inserted
  active, and `accept` holds the active row. *Projects* (`SiteStaysTrue`): `SiteInv`
  is `SiteTypes`, among them that the progress of a project is a percentage,
  being a weighted mean of percentages (`Sums`); `GateInv`, that of a milestone
  whose gate nobody overruled and whose inspection has not ended neither the
  row nor what any call will write is completed; and `AloneInv`, that without
  overlap a commit writes the progress of the very rows that it writes.
* **`ServicesProofs`**. `ProfileInv` remembers which calls of the owner are older
  than the suspension that is in force: only those can undo it
  (`SuspensionsStand`), and there is one warning on record at most for each that
  was given (`ProfilesAgree`). `ListInv`, stated once for the portfolio and the
  trades, counts the images that calls may still bring in besides those that are
  there: they stay below the limit plus the number of calls, which bounds the
  excess that racing uploads can produce (`ListsStayKept`). `ReviewsInv` says
  that a review's booking was completed, that flags are heeded once counted,
  and that without overlap the summary is that of the published reviews;
  `DeskInv` that a stamp, once there, is found by the call that saves, and that a
  call finds the quote as it loaded it unless it is marked as older
  (`RecordsStayTrue`, `QuotesMoveForward`).
* **`FinanceProofs`**. *Financing*: `FInv` is inductive: whoever has submitted has
  consented and uploaded every required document (`SubmittedIsEntitled`, needed
  because the hand-off looks at the status and not at the documents), there is
  one offer, and the status tells its fate (`OfferFollowsStatus`); it gives
  `PartnersAreEntitled`, `OffersAgree` and `NoCircle` (an acceptance waits for
  the lock of another offer that is still active, of which there is none: a
  corollary of the single offer), and
  `ApplicationsAgree` the three as the run checks them.
  `StatusFollowsDeclaration` goes through the actions one by one. *Deals*
  (`DealInv`): proofs, reviews and disputes are never taken back, so what a call
  found is still true when it saves; and unless the call is marked as older, the
  transaction and the milestone are still in the status it loaded, from which
  its transitions were allowed (`StillLoaded`, `DealsStayClosed`).
  *Webhooks* (`WebhookInv`): a row never loses its signature, which ties all
  answers about an event together. The two give `RecordsAreBacked`. *Identity*
  (`PersonInv`): one request of a kind is open and another person decides it,
  whatever overlaps; without overlap the account is as decreed and a reset link
  works once (`IdentitiesAgree`).

Only model-checked: `EveryRowSettles`, because the prover does not reason about
`ENABLED`, and the four statements that the violation runs refute.

## 5. Findings

Each is shown by a run with the statement of a document, a comment or a test as
its property.

1. `approve_release` and `confirm_release` do not look at disputes
   (`apps/payments/services.py:674`): a dispute opened after the request blocks
   nothing, while `docs/RealityNG-Escrow-State-Machine.md:53` says it blocks
   release (`escrow_dispute`).
2. After a late funding event the whole balance can be released again: the
   event sets the status back to funded from released, and earlier payments are
   not subtracted from `confirmed_funded_amount`
   (`apps/payments/services.py:651`) (`escrow_double`).
3. A worker that dies between claim and result leaves its row `processing`,
   which no query takes again (`apps/notifications/services.py:522`)
   (`outbox_crash`).
4. The progress endpoint of construction saves the status it is given: with a
   progress below 100 a milestone whose gate asks for an inspection is completed
   without one (`apps/construction/views.py:385`), against the test
   `apps/construction/tests/test_api.py:446` and
   `docs/RealityNG-Sprint-11-Construction-Tracking-Report.md:109`
   (`milestone_gate`).

The models contain further behaviours of this kind that have no run of their
own.

*Payments.* `record_funding_event` leaves the final statuses that
`EscrowTransaction.VALID_TRANSITIONS` does not leave (a step of the trace of
finding 2). A release requested before a reversal is sent to the provider after
it, since `approve_release` does not compare the amount again. A financing
application's limits are compared when it is created and not when it is
updated, unlike the plan of
`docs/RealityNG-Sprint-14.2-Property-Financing-Plan.md:271`; the
withdrawal of the other offers by `accept` finds none, because an application
never has two; a hand-off with a reference that was used before returns the
old submission and leaves the application where it was. A redelivered webhook is answered as a duplicate of its
first delivery, whatever that was, so that one refused for its signature stays
refused.

*Messages.* A retry that overlaps the original send ends in an
`IntegrityError` instead of the original message
(`apps/notifications/services.py:326`;
`docs/RealityNG-Messaging-Reliability-Architecture.md:44`). Two overlapping
requests for a thread create two. A disabled assistant
(`docs/environment-variables.md:9`) still answers conversations begun before,
because the provider is taken from the conversation; the later of two sends
that overlap forgets the other's turns; tokens of rounds that failed are not
counted.

*Listings.* A material edit between the snapshot and the save of an approval,
or whose process dies before `handle_property_edit`, leaves an approval whose
snapshot is not the listing's (`apps/trust/services.py:94`); the later of two
overlapping decisions on one verification wins, so that a rejection can turn
into an approval without a resubmission (`:73`). Every change of an image's
caption writes its cover mark as it was loaded, and a request that dies after
deleting the cover leaves the others without one
(`apps/properties/views.py:206`); overlapping uploads pass the limit.

*Leads.* Confirming a viewing moves the inquiry on from the status that was
loaded with the viewing, so that an inquiry closed since is open again
(`apps/properties/views.py:824`). Two overlapping applications are both filed
(`apps/properties/serializers.py:988`); of two overlapping follow-ups one is
not counted (`apps/properties/leads.py:101`).

*Deals and accounts.* Every transition of a transaction is decided and saved
from an unlocked row, so that the later of two overlapping ones wins
(`apps/payments/services.py:79`). An edit of a user's profile that overlaps a
suspension or a password reset takes it back
(`apps/accounts/serializers.py:135`).

*Inspections and construction.* A call that overlaps `assign` or `accept` can
lose its transition, so a cancelled request can come back
(`apps/inspections/views.py:393`, `:453`). An `assign` that dies after its
insert leaves two active assignments, of which the next one marks one
(`:373`). An administrator who is an inspector can accept an assignment that
was declined or taken from him (`:444`). `submit` of a scheduled inspection
saves the report and then fails, since the table has no step from scheduled to
report_submitted (`:759`). A deleted report can never be replaced. A report can
be approved as a draft, or submitted again after approval, neither of which
is in the lifecycle of `docs/RealityNG-Inspection-Architecture.md:53-55`;
nothing ever sets `under_review` on a report or `report_under_review` on a
request, which that document has on every path. An edit of a draft progress
update always fails with a `KeyError`, and so does an update of a walkthrough
that does not repeat `property_id`.

*Services.* The `cancel` action for quotes in the admin API is attached to the
review view set (`apps/services/views.py:1929`) and would fail on a review. An
appeal can be decided again, so that an old one lifts a later suspension; the
copied status of an approved appeal is cleared by the reactivation that it
causes; a temporary suspension does not expire by itself; `approve` leaves
`suspension_type` as it was. `completed_jobs_count` is brought up to date only
when a review is decided. An edit of the profile that overlaps a suspension
undoes it, and one that overlaps a recount puts the old rating summary back. The
later of two overlapping recounts is the one that stays
(`apps/services/services.py:34`). Viewing a quote request that was closed
meanwhile opens it again (`apps/services/models.py:535`).

## 6. Hazards

`PROJECT.json` lists, at their lines, the situations that a test would
hardly reach and that weigh most. They are of five kinds in this code: a row
saved from an instance that was loaded without a lock, often with all of its
columns; a check made in one request and used in a later one; a lookup before
an insert; several saves without a transaction; and the boundary between a
database transaction and what lies outside it (Redis, the broker, a provider).

A hazard that the code does not withstand is not absent from the models: they
do what the code does. Its property then says how far the damage goes, in one of
three forms. It names the calls that alone can do it (older than what they
decided by, or the `request_release` that had read the disputes): the moves
of requests, leads, deals and quotes, and the suspension of a provider. Or it
bounds it: the portfolio's excess. Or it holds only without overlap, or only
until a call dies, and says nothing about what comes then. The last is the case
for threads opened twice, turns that the assistant's session loses, the approved
snapshot of a listing, limits of images and videos and the cover that is left,
the follow-ups that are not counted, the assignment that `assign` leaves active,
the progress of a project, the agreement of appeals and warnings, the rating
summary, and the account that a stale edit of its profile restores; section 5 describes
what the code does there.

Others of the same kinds are known and not listed, because they weigh less:
the throttle's three calls to the cache (`notifications/throttling.py:13`); a
reconciliation's verdict that later events outdate (`payments/services.py:920`);
the first retry delay that is never used (`notifications/services.py:539`);
a condition that stays satisfied when its inspection is reopened
(`payments/services.py:576`); the details of a user verification that can be
edited after its approval; an inquiry's status and its pipeline stage, which
move independently.

## 7. Limits of the proofs

TLAPS does not reason about `ENABLED`, so liveness stays with TLC. The
installed provers cannot instantiate a theorem that takes an operator as a
parameter, so there is no induction theorem for data; sums over finite sets are
proved from the smallest subset for which they would fail, and what a recursive
function over a sequence computes is not needed. No module uses a `RECURSIVE`
operator. What the theorems show is about the models: that a model's action is
what the code does is a matter of reading, for which `PROJECT.json` names the
lines.

## 8. Not modelled, and why

Components without a module:

* **E-mail**: one send without state under Celery's own retry.
* **Documents, validators and storage**: checks of file content and calls to
  object storage; the rows they write are never changed afterwards.
* **Notifications**: a preference filter on one row, then the outbox insert
  that `Outbox` models; the read flag is a column nothing else depends on.
* **Websocket consumers and throttle**: they join a group and forward; a send
  over a socket enters `create_message`, which `Messaging` models. The throttle
  is a counter that starts again when the cache forgets it.
* **Common, core, configuration, admin, migrations, seed command**: no
  behaviour of their own in the request path, except what only the admin site
  can do and another component depends on: taking a verification into review
  and suspending a user, which are actions of `ListingVerification` and
  `Identity`.

Parts of components that have one:

* **Escrow**: the fee's rate, the split of a settlement and the number of
  decimals; no property depends on them. `TransactionCenterView` only reads.
* **Listings**: the deletion of a listing, and favourites, which are one row
  looked up and inserted under a unique constraint.
* **Inspections**: evidence files (checks and storage), inspector profiles
  (whether a user is an inspector is a constant), the timeline and the audit
  log (written, never read by a decision), the constraint that a requester has
  one active request per property, and the admin site, which alone can expire
  a request.
* **Construction**: stakeholders, evidence and dashboards, which decide about
  who may look and not about the state of a project.
* **Accounts**: sessions and tokens (library code), the expiry of reset links
  by time, the audit log.
* **Assistant**: the search endpoint and the canned answers of the demo
  provider, which have no state.
* **Trust**: the texts and documents of a verification.

## 9. Plan

The components are modelled as far as their state goes, and their safety is
proved. What is worth adding:

1. abstract specifications of two parts and the proofs that they are
   implemented: an intake that answers each provider event by the one row it
   has (`Webhooks`), and a published rating that is a function of the published
   reviews (`Reviews`, without overlap);
2. the outbox against an abstract courier, which hands each row over at least
   once or gives it up after a bounded number of attempts;
3. the loss of the safety margin made explicit: theorems that bound what
   overlap can do where a property still holds only without it (section 6), as
   `ListsStayKept` does for the portfolio's limit and `StatusMoves` for the
   transitions of a request.
