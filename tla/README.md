# Formal model of the SHBS peer-tutoring website

The repository is a Next.js/tRPC application over PostgreSQL. Nearly all of its
state is in the database, and nearly every operation is one transaction, so the difficulty is not inside an
operation but between them: background dispatchers that read, call SMTP and write in three different
transactions; proposals decided long after they were made; flags and notices
versioned against each other; administrators, account owners and timers acting
on the same rows. The modules here model those protocols. An action is one
transaction, one statement outside a transaction, or one external call.
Transactions run READ COMMITTED under advisory locks (`transactions.ts`:
`inTransaction`, `lockEntity`) unless they ask for more; where the isolation
level decides what a transaction can see (approvals), the transaction is cut
into its snapshot, its lock waits, its checks and its commit.

Paths below are relative to `src/src/server/` unless they start with `prisma/`
or `docs/`, which are relative to `src/`.

## Inventory

| component | state | operations | hard part | correct means |
|---|---|---|---|---|
| Account-mail outbox: `email/notification-delivery.ts`, `email/resend-stuck.ts`, `email/identity-notice-admission.ts`, `email/unsubscribe.ts` | `EmailDelivery` rows: status, attempts, lease, attempt identity, due time | sweep, lease, check, admit, send, finish; opt-out, switch-off, resend | overlapping dispatchers, expired leases, crash between admission and outcome, lost SMTP replies | optional mail is sent at most once and only while welcome; SENT is never a guess; nothing waits for ever |
| Delivery effects: `recovery/delivery-effects.ts` | journal of which rows an action caused, `RecoveryDeliveryCancellation` | admit, finish, cancel; database trigger `recovery_delivery_retry_guard` | cancellation racing a send in transport | a stopped row is never admitted; a late acceptance is not erased |
| Request notices: `email/request-notice.ts`, `request-invalidity.ts` | `requestInvalid`, `invalidityVersion` on surveys, signups, applications; one receipt per version | flag, clear, queue, admit, finish, retry | a flag and a clear race the mail about the earlier one | no mail is admitted for a superseded version |
| Appeals: `email/request-appeal.ts`, `student-signup-appeals.ts`, `request-review.ts` | `RequestInvalidityAppeal`, `StudentSignupAppeal`, notice capabilities | submit, decline, approve, clear | the public link, the reviewer and staff act on the same flag | an open appeal is about the flag that is in force |
| Approvals: `approvals.ts`, `api/routers/approval.ts`, `api/trpc.ts` | `ApprovalRequest`: operation, payload, evidence (`targets`, `fingerprint`), state | submit, approve and replay, reject, cancel; direct edits | the world changes between proposal and decision; two reviewers | what is executed is what was proposed, on the targets reviewed, once |
| School-hours reports: `school-hours*.ts` | report, link, revision, delivery state | create, send, rotate, resubmit, review | same outbox, own admission | one current link per report |
| Monthly-hours reports: `monthly-hours*.ts` | report rows | generate, deliver | retired workflow | delivery always ends as SKIPPED |
| Event reminders, calendar notices: `email/event-reminders.ts`, `school-calendar-notifications.ts` | optional outbox rows with a source fingerprint | enqueue, refresh, withdraw | source moves while the row waits | the reminder is for the event as it now is |
| Student signup: `student-workflow.ts`, `student-request-*.ts`, `student-survey.ts`, `student-signup-*.ts`, `participant-execution.ts`, `person-participation.ts`, `student-deadline-worker.ts` | survey and its link, profile, pairings and their rosters, the record of which request a membership serves, blocks | submit, resend, confirm, assign, report a conflict, withdraw, recall, transfer, expire | overlapping resends; assignments that are recorded for some requests and derived for others; two requests served by one membership; triggers that refuse a write the workflow wants | closing a request clears its own roster rows and no others; an expiry is never refused; one seat per account |
| Student continuation: `student-continuation*.ts`, `program/continuation-opening.ts` | offers by programme period | open, answer, assign | answers racing the closing | one outcome per offer |
| Session planning: `session-planning/`, `session-planning-delivery.ts` | plans, lessons (cohorts), seats, requests with offers and responses, suggestions | publish, suggest, propose, answer, counter, split, settle, record, join, leave, invalidate | windows reserved by offers, published lessons and weekly times at once; silence as assent, counted from a mail; sweeps with an old clock reading | nobody is booked twice; seats move by complete agreement; every request closes |
| Account e-mail, codes, sessions: `auth/` | codes, attempts, verified addresses, session versions | issue, verify, change, revoke | attempt limits, claim races | one owner per verified address |
| Account invitations: `auth/account-invitations.ts` | invitation, code, expiry | issue, rotate, redeem, revoke | redeem racing rotate | redeemed at most once |
| Identity: `person-combine.ts`, `person-partition.ts`, `combine-accounts.ts`, `delete-account.ts` | people, accounts, merged-into links | combine, split, retire | touches every table | no dangling ownership |
| Programme: `program/` | settings, staged features, periods, `ScheduledProgramRefresh`, authority revision of accounts | switch mail, stage, prepare, schedule, cancel, refresh now, execute, record a failure, revert | every server sweeps the due schedules while Head, settings and schedule change; replies are lost | a grant is spent once, only as reviewed and by a Head who never lost the role; its end is reported once |
| Recovery: `recovery/` | checkpoints, compensation receipts | capture, compensate; operator commands | independent later changes | compensation never overwrites later work |
| Room allocation, pairing: `room-allocation.ts`, `bulk-room-allocation.ts`, `pairing-groups.ts` | bookings, groups | allocate, release | pure allocation | no double booking |
| Signup protection: `captcha/`, `signup-admission.ts`, `signup-ingress.ts`, `rate-limit.ts` | counters, tokens | admit, verify | counters at their limit | limits hold |
| Messaging, records, content, UI | rows edited through forms | CRUD | little | permission checks |
| Transactions: `transactions.ts`, `db-scope.ts` | the scope of a request | run, defer until commit | retry | makes one transaction one action |

How they interact: producers (invalidity flags, reminders, messages, reviews)
insert outbox rows in their own transaction; the dispatcher of
`notification-delivery.ts`, started by an interval timer in every server
process and again after commits, is the only consumer; recovery, preferences,
settings, identity corrections and the resend button write the same rows
directly; two database triggers (`recovery_delivery_retry_guard`,
`cancel_corrected_notification_mail`) act inside those writes.

## Modules

| module | what it is |
|---|---|
| `DeliveryRow` | one `EmailDelivery` row and the updates made to it; extended by both mail modules |
| `EmailOutbox` | the dispatcher and the other writers, for security and optional account mail |
| `MailPromise` | abstract: one optional message is recorded before it is sent, sent at most once, never taken back |
| `EmailOutboxProofs` | the theorems about `EmailOutbox` |
| `DeliveryRowProofs` | lemmas about updates of a row, used by the proofs of both mail modules |
| `RequestNotices` | invalidity flags, the service mail about them, appeals; the same dispatcher with another admission |
| `RequestNoticesProofs` | the theorems about `RequestNotices` |
| `DecisionNotices` | the mail about an appeal's decision and its couriers, composed with `RequestNotices` |
| `DecisionNoticesProofs` | the theorems about `DecisionNotices`, and that it implements `RequestNotices` |
| `Approvals` | proposals, direct edits, decisions, rank changes |
| `ApprovalContract` | abstract: a proposal is decided once and applied only to the record it was reviewed for |
| `ApprovalsProofs` | the theorems about `Approvals` |
| `ScheduledRefresh` | preparing, scheduling and executing the change of the programme period |
| `RefreshGrant` | abstract: a Head grants one activation; it is spent in the step that activates, or void |
| `ScheduledRefreshProofs` | the theorems about `ScheduledRefresh` |
| `SessionPlanning` | publication of weekly pairings as dated lessons and the negotiation that moves them |
| `SessionPlanningProofs` | the theorems about `SessionPlanning` |
| `StudentRequests` | a student's request from its survey to its end: links, assignments, transfers, rosters |
| `StudentRequestsProofs` | all six properties of the component: types, rosters, seats, expiry, assignments of others, links |
| `MC*` and `*.cfg` | the instances TLC checks |

The two mail modules share the row but not the state: request-service rows and
account rows of one dispatcher meet only in its batch, and `outbox_settles`
covers what one row of a batch does to another. Approvals replay operations of
the whole program; the replay is one atomic change of the record it names.

### EmailOutbox and the code

`wk[w]` is the local state of one invocation of `deliverNotifications`: `pc`
says which await it is at, `batch` what the lease query returned, `at` the row
of the loop, `ok` and `tries` what it computed from the row it read. The await
points are the only places another actor can act, so the actions are cut there:

| action | code (`email/notification-delivery.ts` unless named) |
|---|---|
| `Sweep`, `ReadSettings`, `SkipBacklog` | 52-78 |
| `LeaseBatch`, `ReleaseRest` | 79-112 |
| `ReadRow`, `PassRow`, `DeferRow` | 113-137 |
| `SkipRow`, `BuildFails` | 219-315 |
| `BeginSecurity`, `Transmit` | 312-352 |
| `Admit` | `admitRecoveryGenericDelivery`, `recovery/delivery-effects.ts` 394-465 |
| `FinishOptional`, `FinishOptionalFails` | 466-515 of the same; catch block 363-369 |
| `FinishSecurity`, `FailSecurity` | 350-383 |
| `OptOut`, `OptIn` | `email/unsubscribe.ts`, `api/routers/account.ts` |
| `DisableMail`, `EnableMail` | `api/routers/program.ts` |
| `ResendStuck` | `email/resend-stuck.ts` |
| `CancelEffects` | `cancelRecoveryDeliveryEffects` |
| `CorrectOwnership`, `RetryGuard` | the two triggers, `prisma/migrations` |
| `RetireAccount` | `person-combine.ts` |

Abstractions. `leaseUntil` and `attemptId` are only compared for equality, so a
row stores the worker whose lease or attempt it is; `expired` says whether the
lease instant has passed. `due` stands for `availableAt <= NOW()`. The account
checks that depend on nothing else in the model are one input of `ReadRow`
(`other`), the suspension and ownership checks of the admission are `holder`.
The batch limit is above the number of rows. Ghost variables: `handed` counts
the SMTP calls of a row up to "many", `accepted` records what the provider took.

### RequestNotices and the code

A *source* is one public request. `Generic` sources are tutor applications and
signups of the old form (an appeal belongs to the receipt that carried the
link); `Surveys` are current signups (an appeal belongs to the flag, and the
flag has a capability, `StudentSignupNotice`, bound to an account session).
`address` is the submitted address of a request and `to` the one a receipt was
written to (`EmailDelivery.recipient`): a receipt is `Current` only while they
agree (`email/request-notice.ts` 155, 214, 230).

| action | code |
|---|---|
| `Flag`, `Clear` | `request-invalidity.ts` 68-247 with `queueRequestNotice`, `email/request-notice.ts` 80-131 |
| `RetryNotice`, `ResendStuck` | `email/request-notice.ts` 305-358, `email/resend-stuck.ts` |
| `RenewNotice` | `retrySignupNotices`, `student-signup-appeals.ts` 365-462 |
| `SubmitAppeal`, `DeclineAppeal` | `email/request-appeal.ts` 71-187 |
| `AppealSignup`, `AcceptAppeal`, `RejectAppeal` | `student-signup-appeals.ts` 539-728 |
| `EditAddress` | `admin.updateTutee`, `api/routers/admin.ts` 2825-2907; `auth/email-change.ts` 157-161 and `auth/account-emails.ts` 306 for a signup with a login |
| `CloseRequest`, `PeriodEnds`, `SessionChanges` | `student-request-state.ts`, `student-signup-state.ts`, account session version |
| `LeaseBatch`, `ReleaseRest`, `PassRow`, `DeferRow` | `email/notification-delivery.ts` 79-134 |
| `Admit` | `admitRequestDelivery`, `email/request-notice.ts` 363-441 |
| `Transmit` | `email/notification-delivery.ts` 199-216 |
| `Finish`, `FinishFails` | `finishRequestDelivery`, `email/request-notice.ts` 446-511; the catch around it |

Abstractions. The row the worker read and the admission that follows are
merged where nothing in between is used later: the admission reads everything
again. `LeaseBatch` may lease rows although the programme transport is down,
because the other transport of the same dispatcher keeps it running. A session
of the account that is newer than the capability's makes the link "stale". The
edit period and the verification deadline end once and do not begin again. Old
data is part of the initial states: a request flagged before receipts or
capabilities were kept.
Only a signup of the old form (`OldSignups`) has an address that somebody may
edit: it is the one of its profile, `tutee.email`. The address on an application
or a survey is written once, so they are not edited. An address is a
mailbox, a malformed one or none; `updateTutee` admits no malformed one, and old
data may hold it. Staff may delete a source only while it is not flagged; that
is left out.
The feature switch in front of old signups is left out: it only
forbids. Whether a participant has the link is `Received`: the provider took
the mail.

What the model showed beside the checked properties. Once the address of a
signup is edited, a waiting appeal cannot be declined (`declineRequestAppeal`
answers CONFLICT) until the flag is lifted or the address restored, and a notice
that still waits is settled SUPERSEDED. It stays so although the flag remains in
force under the same version, and even when the old address comes back: a retry
takes FAILED and PENDING rows only. So `PendingAppealIsInForce` promises that an
appeal contests the flag in force, and that it can be declined as long as the
address is the notice's; `FlagIsAnnounced` promises an outcome to a notice that
is not withdrawn yet when its address has settled.

### DecisionNotices and the code

A decision on a survey's appeal writes a notice of its own, here the *letter*
of the flag version that was decided. No dispatcher delivers it: two calls
right after the commit (the deferred one of `enqueueSignupNotice` and the one of
`resolveStudentSignupAppeal`) and the minute sweep of every process do, here
*couriers*. `DecisionNotices` extends `RequestNotices` by the letters: `Decide`
is the decision together with its letter, `RecipientChanges` the change of
session together with what it does to letters, `Elsewhere` every other step.

| action | code (`student-signup-appeals.ts`) |
|---|---|
| `Decide` | `resolveStudentSignupAppeal` 631-728 with `enqueueSignupNotice` 159-196 |
| `Call` | 188-195, 725-726 |
| `Sweep` | `deliverSignupNotices` 338-364, `student-deadline-worker.ts` |
| `Claim` | `deliverSignupNotice` 219-261, one transaction |
| `Post` | 268-277 |
| `Record`, `RecordFails` | 278-290; the catch takes a failed write for failed mail |
| `ClaimRunsOut`, `CourierOverruns` | the five minutes of 230-233 |
| `Stop` | the process ends, or another statement throws |

Five minutes are one bit of a letter (`fresh`), cleared at any time no courier
is in transport with it: the SMTP timeouts are shorter. The pooled transport has
no deadline for the whole of a delivery, so a claim may also run out under its
courier, as one of `MaxSlips` faults. The budget of attempts is part of the
selection and not of the claim, so a call or an old selection may exceed it; the
model allows that. A sweep's limit of five letters is left out.

### Approvals and the code

| action | code |
|---|---|
| `DirectChange` | `protectedProcedure`, `api/trpc.ts` 371-427: role check and audited mutation |
| `Capture`, `Compare`, `Insert`, `Abandon` | `queueProposal`, `approvals.ts` 1266-1530 |
| `Decide` | `approval.decide`, first statement: pre-read and snapshot, `api/routers/approval.ts` 145-217 |
| `Fence` | FOR SHARE locks on both actors, 217-251 |
| `Check` | lock `approval:<id>`, checks of reviewer, state, self-review, requester, evidence, 252-424 |
| `Commit`, `Rollback` | replay, decision, audit and notification, 425-571 |
| `Cancel` | `approval.cancel`, 603-636 |
| `ChangeRole`, `TransferLeadership` | `admin.setUserRole`, `setMemberships`, `transferHead` |
| `ChangeContext` | settings, features, period, e.g. `program.setTimeZone` |

Operations are distinguished by what their approval locks and under which
isolation it runs (`approval.ts` 165-207, 247-251, 550-556): `Ordinary` ones
lock nothing but the request; `Identity` ones also both actors' rows;
`Official` ones (refresh and recruitment) the same and are reviewed by the Head
only; `Attendance` ones run READ COMMITTED, under the locks of the writers of
the record. A rejection never depends on the operation: it is serializable.

*Snapshots.* A SERIALIZABLE transaction of PostgreSQL reads the state at its
first statement, which is before it waits for any lock. `view` is that reading.
It fails if it writes or locks a row that changed after it (`Conflicts`,
`FenceHolds`); it does not fail because of rows it only read, as long as their
writers are not serializable themselves, which the program's are not by
default. READ COMMITTED transactions see every statement's own present
(`Live`). `FenceHolds` and `Conflicts` compare values, so a change that was
taken back passes in the model although PostgreSQL would refuse it: the model
has more behaviours.

*Data.* One record `target` stands for the rows that the proposals write, as a
stamp of its last change; everything else the evidence captures and the replay
does not write (settings, features, period, related rosters) is `context`.
Evidence is one stamp of each. An operation that creates a record has none of
its own and is covered by `context` alone. `role` folds suspension and merging
into "NONE". A call on a request that is already decided can only fail, so
`Decide` starts on pending requests. `retryUsernameSnapshot` is a rollback
followed by another `Decide`. Missing confirmation tickets and refusals of the
replayed operation are rollbacks. The role check in the middleware and the
first statement of the transaction are one action: the transaction reads the
role again. The few direct edits that run serializably are covered by the
READ COMMITTED one, which excludes less.

### ScheduledRefresh and the code

| action | code (`program/` unless named) |
|---|---|
| `Prepare`, `StageFeature`, `SetTimeZone` | `next-recruitment.ts` 171-210; `api/routers/program.ts` 506-561, 682-740 |
| `TransferHead`, `SetSuspension` | `api/routers/admin.ts` 5862-5925; trigger `User_refresh_authority_revision` |
| `Schedule`, `Cancel` | `scheduled-refresh.ts` 114-253 |
| `RefreshNow`, `Revert` | `admin.refresh`; `recovery/adapters/program-refresh.ts` 722-752 |
| `Sweep` | `scheduled-refresh.ts` 421-427, one read per sweep |
| `Execute`, `ExecuteUnheard`, `ExecuteFails` | 345-419 and its caller: committed, committed without a reply, rolled back |
| `Record` | 441-477 |
| `Abandon` | `scheduled-refresh-worker.ts` 12-24: a restart, or an error of the sweep itself |

Abstractions. The period barrier (`lockNextRecruitment`) makes every
transaction one step; a sweep is many. The reviewed evidence is the revisions
and values that its comparison reads. A call with an outdated review or version
is refused and changes nothing, so `Schedule` and `Cancel` start from current
ones. Ghosts: `notices` counts terminal notices, `failures` failed executions,
and `lapsed` remembers that the Head or the review changed since the
authorization. What a refresh does to the rosters of the old term is left out.

### SessionPlanning and the code

| action | code (`session-planning/index.ts` unless named) |
|---|---|
| `Confirm` | 3809-3961, called when a weekly time is confirmed |
| `Publish` | 1537-1680, one window |
| `Edit`, `Invalidate` | writers of pairings as 514-579 sees them; 3735-3805 |
| `Join`, `Release` | `syncContinuationPlanMembership`, 3456-3732 |
| `Suggest`, `Propose` | 2323-2506 |
| `Accept`, `Counter`, `Refuse` | `respondSession`, 2556-2660 |
| `AskSeparate`, `FormalizeSplit` | 2671-2776 |
| `Mail`, `Delivered`, `Lose` | `session-planning-delivery.ts` 62-122; 1985-2010 |
| `StartSweep`, `Visit`, `AbandonSweep` | `runSessionPlanningSweep`, 2092-2142; a restart within it |
| `Record` | 3361-3453 |

A *cohort* is a dated lesson of a plan, `seat` says which cohort of a plan a
learner attends. `Finished`, `Settled`, `Offered` and `Close` are functions from
rows to rows, named after the functions they model, because the code calls them
from several transactions. `CanTake` is `validateTarget`.

Abstractions. A window is one unit of time: two windows coincide or are
disjoint; their partial overlap is a comparison of instants in the code. A page
that shows an old version is refused, so of its versions only the number of the
offer it answers is kept. The reading of a notice row and the provider's
acceptance are one step (`Mail`), its record another (`Delivered`). The weekly
checks of scheduling, outside this component, are the assumption that confirmed
pairings do not clash. Executions and idempotency receipts, blocked rooms, calendar suppression
and reconciliation, the queue of dirty pairings and the notices of suggestions
are left out.

### StudentRequests and the code

A request is named by the profile it materializes (`Tutee`), a profile by its
request. `bond` and `held` are the recorded assignments
(`StudentRequestExecutionAssignment`); a request with none has those of its own
profile (`Own`). A transfer consolidates one profile of a person into another
and gives every pairing it worked on a successor. `student` is the profile an
account works with today (`User.studentId`): a confirmation sets it, and a
transfer requires that it is one of the two profiles and moves it
(`person-participation.ts` 74, 353-355).

| action | code |
|---|---|
| `Submit`, `StartResend`, `Mail`, `Publish`, `GiveUp` | `student-survey.ts` 167-497 |
| `Confirm` | `student-survey.ts` 602-802 with `materializeStudent` |
| `ConfirmSecondaryEmail` | `auth/account-emails.ts` 223-269 |
| `Flag`, `Unflag`, `DeadlinePasses` | `request-invalidity.ts` 121-160; `verificationDueAt` |
| `Assign` | `assignStudentRequest`, `student-workflow.ts` 260-341 |
| `CreatePairing`, `UpdatePairing`, `AssignTutee`, `SetTuteeStatus` | `api/routers/admin.ts` 1083-1262, 2987-3045, 3199-3270 |
| `HeadUnassign` | `student-signup-management.ts` 240-404 |
| `TransferParticipation` | `person-participation.ts` 134-369 |
| `Recall`, `ApplyAbort`, `ApproveAbort`, `DenyAbort` | `student-workflow.ts` 407-467, 723-797 |
| `ApplyScheduleRejection`, `Approve...`, `Deny...` | `student-workflow.ts` 471-600, 751-797 |
| `RejectAppeal`, `Expire` | `student-signup-appeals.ts` 631-700; `student-request-state.ts` 180-241 |

A transaction works on a copy of the rows; `Released` and `Closed` are the
functions every ending shares. `Commit` compares the copy with the rows and
asks the database's triggers (`protect_closed_student_roster`,
`protect_transferred_pairing_source`), which judge each write; in the order the
code writes, the state they see is the one at the end as far as they read it.
A write they refuse is a transaction that did not happen.

Abstractions. An account is named by its primary mailbox. Resends are two
transactions with a mail between them, everything else is one. `tools`, `made`,
`minted` and `transfers` are counters for the bounds. Assigning a signup from
its page (`assignSignup`) makes the rows `AssignTutee` makes. A link's expiry
after a day only forbids and is left out, like the rate limits. A transfer joins two profiles;
one that involves a profile already consolidated into a third is left out.
`Barred` looks at the request's mailbox and at the account under its primary
one; the account's other verified addresses and former accounts, which the code
looks up too, only forbid more. Subject, tutor,
times and room of a pairing do not matter here.

What the model showed beside the checked properties. `OneSeat` claims nothing
once three transfers were made: one joins the profile of an account's request
into another of its profiles, a second takes that one to another account, and a
third brings the first account, which works with no profile now, a request
again; it then owns two open ones that different profiles work on. The proof
found this: the run stops at one transfer.

A release may put a profile from ACTIVE back to PENDING, which the trigger
refuses when the profile's own request is flagged: closing another request it
served, or approving a schedule conflict of it, then fails until the flag is
lifted. (`ExpiryNeverBlocked` holds because an overdue request was never
confirmed and so never took part in a transfer: it releases its own profile, to
INACTIVE.) `unassignStudentSignup` takes a member off a pairing without asking
whether it serves another request there. Making a profile INACTIVE fails while
it is on the roster of a superseded pairing.

## Runs

| run | instance | shows |
|---|---|---|
| `outbox_optional` | one optional row, two dispatchers, every writer, two faults | at most one transport; admitted only while welcome; an acceptance can be recorded; evidence of the attempt kept; refinement of `MailPromise` |
| `outbox_settles` | a security and an optional row in one dispatcher's batch, one fault | SENT means accepted; every row comes to rest; an abandoned batch does not strand the other row |
| `outbox_optout` | one dispatcher, preferences and resend | violation: see Findings |
| `notices_sources` | a signup up to three versions with appeals, renewals and sessions; an old-form signup up to two versions, its address edited, two dispatchers, one fault, one requeue | appeals contest the flag in force and stay decidable unless the address is edited; decisions hold; an attempt is closed by a dispatcher only |
| `notices_letters` | one flag of a signup, two dispatchers overtaking each other; or one of an old-form signup whose address is edited; or a decision, two couriers, two faults | receipt and capability agree; the notice of a flag in force is not lost; a decision mail once sent stays sent and every one comes to rest |
| `approvals_races` | two requests, two submissions, two decisions of an ordinary, an attendance and an official kind; edits or rank changes | applied once; no duplicate request; actors entitled when it takes effect; refinement of `ApprovalContract` |
| `approvals_settings` | one decision, one change of the settings | violation: see Findings |
| `refresh_oneshot` | two terms, two accounts, two servers, two changes, two faults | refinement of `RefreshGrant`; one notice per end; attempts charged to the authorization they belong to; a due schedule settles |
| `sessions_agreed` | a group lesson, another pairing whose tutor learns in the group, a joining learner, one room | no double booking; offers reserve their window; weekly times stay free; silence counts from this offer's notice; seats move by agreement; recorded lessons stand; requests close |
| `sessions_cutoff` | the same | violation: see Findings |
| `students_term` | two requests of two mailboxes, two resends, a transfer, one use of a roster tool | closing clears exactly its own roster rows; one seat per account; expiry is never refused; the newest delivered link stands |
| `students_roster` | the same without resends and transfers | violation: see Findings |

Bounds. Rows do not interact except through a batch, so one row with two
dispatchers covers the races on a row and two rows with one dispatcher cover
the batch. `MaxAttempts = 2` makes both the retry and the give-up case happen
(the code's five adds only more of the first). A fault is a crash, a worker
that outlives its lease, a lost reply or an exhausted time budget: two of them
give the sequences in which a stale worker meets the second owner of its row.
Two versions of a request are a flag and its clear, three a second flag, which
is what a decision on an old version needs. One mailbox is enough: an edit to
another one and the removal of the address make a receipt equally outdated, and
the address can come back. Every conflict of the approvals is
between two transactions about one record; two decisions, two requests and one
direct edit contain each pair of them. The official kind stands for both kinds
that fence under a snapshot: an identity operation locks the same rows and only
admits more ranks. Two terms are the smallest calendar with a change of period,
and three settings or authority changes would only repeat one of two. A group
of two learners is the smallest that can disagree, split and shrink; three
instants are one before, at and after a lesson. Two requests are what one
membership can serve at the same time, three pairings a lesson, another, and a
successor. The proofs remove these bounds for every safety property.

Scenarios. Five MC modules restrict the search with a CONSTRAINT, each a
disjunction of scenarios whose actors would otherwise multiply:

- `MCApprovals`: ranks change while fenced operations are decided
  (`RanksChange`), or records and settings are edited while ranks stand still
  (`RecordsChange`).
- `MCRequestNotices`: one request at a time, a survey with one dispatcher
  (`OneSurvey`) or an old-form signup with two (`OneGeneric`); requests share only the
  dispatchers.
- `MCDecisionNotices`: the receipt of a flag while no letter moves (`OneFlag`);
  the same for an old-form signup whose address is edited (`OneForm`);
  or the letter of a decision while the receipt rests (`OneDecision`); receipts
  and letters share only the request, which both leave alone.
- `MCSessionPlanning`: the group negotiates without mail down to a split and
  its children (`Talks`); it is silent while mail and sweeps are late or lost
  (`Silence`, the scenario in which liveness has something to show); or two
  requests, the other pairing, a joining learner and staff compete for windows
  (`Rivals`).
- `MCStudentRequests`: resends of one request compete (`Resends`); confirmations
  race an account that gains the other mailbox (`Mailing`); or requests are
  assigned and end with flags and deadlines (`Flags`), with the roster tools
  (`Tools`) or with a transfer (`Moves`).

A constraint cuts a behaviour where it leaves its scenarios, so a liveness
property is shown of the behaviours that stay inside one.

`CHECK_DEADLOCK FALSE` is set where the system may stop: approvals, the refresh,
sessions and students. Their edits, versions and requests are bounded, and once
everything is decided, or the last instant is reached, nothing has to happen.

Fairness. `startNotificationWorker`, `startScheduledRefreshWorker` and
`startSessionPlanningWorker` start again on an interval, so the next step of
each dispatcher, of each server's sweep and of a session sweep is weakly fair;
leases expire, back-offs end and cutoffs come because time passes.
Administrators, account owners, participants and faults are not fair.
`EveryRowSettles` and `FlagIsAnnounced`
assume that the transports are eventually configured for good, the first also
that the resend button is eventually left alone (`RequestNotices` bounds it by
`MaxRetries`). Without that the code may postpone or requeue for ever.
`startStudentDeadlineWorker` runs every minute in every process and time passes,
so couriers and the end of a claim are fair; `LetterSettles` needs no transport,
as each failed attempt uses up the budget. `DueSettles` needs no such
assumption: a sweep that keeps failing gives up after `MaxAttempts`; faults of the process itself are bounded. `EveryRequestCloses`
rests on the cutoff, not on anybody's answer or on mail.
Nothing in the approvals or in `StudentRequests` has to happen: a person decides.

## Proofs

The proofs hold for any sets of actors and rows, from the named
assumptions on the constants alone.

**`EmailOutboxProofs`**: `TypeCorrect`, `AtMostOnce`, `SentIsAccepted`,
`Recordable`, `EvidenceKept`, and `PromiseKept` (EmailOutbox implements
MailPromise). The safety properties are not inductive. `IInv` adds: an optional
row carries an attempt identity exactly from its one admission on; a capture of
an optional row carries none, so a fence of an admitted row can never match; a
dispatcher in transport is the one named by the row's attempt, on a row that is
SENDING or UNCERTAIN; a queued row has budget left; the attempt count a worker
read is below the budget unless the row was admitted meanwhile. Most actions
are *quiet*: they change rows without opening or closing an attempt (`Quiet`),
and lead their dispatcher to a state that claims nothing about transport
(`Harmless`). `QuietStep` shows once that such a step keeps the invariant, the
evidence (`Kept`) and the promise (`Promised`); each quiet action then only
needs its row update shown quiet. The four steps that open, make and close an
attempt are proved directly.

The second half of the module is `WelcomeOnly`, that optional mail is admitted
only while it is welcome (`AdmittedOnlyIfWelcome`). The admission checks again who may read
the row and whether recovery stopped it, but not the programme switch and the
topic preference, which the dispatcher read before. `AllWelcome` says what keeps
that sound: as long as a row found eligible is queued under this dispatcher's
lease, switch and preference are as they were read. Whoever closes one of them
settles the queued row in the same transaction, and no step but a new lease
queues a row under a dispatcher's name again (`Tame`); a dispatcher that takes a
lease has forgotten what it read.

**`RequestNoticesProofs`**: `TypeCorrect`, `AppealsInForce`, `DecisionsHold`,
`Agreement`, `ClosedByItsDispatcher` and `AdmittedCurrent`. `IInv` holds, in the
place of `PendingAppealIsInForce`, only that an appeal contests the flag in
force through a delivered link (`AppealsContest`): an edit of the address
disturbs `Current` and neither of these, and where the addresses agree the rest
of the property follows. To the other properties it adds: a flag in force has a version, no receipt is ahead of its request
(`Versioned`); appeals exist for generic flags only, reviews and capabilities
for surveys only (`KindsApart`); only a row that was queued is ever sent
(`Unborn`); and what a dispatcher captured is a receipt, and if it heard of an
acceptance, that acceptance happened (`InHand`). `Agreement` needs the last
one: a lease can pass to a second worker, so what links a row's SENT to the
provider is what its worker heard, not who holds the row. `RowMove` says once
what any step may do to a receipt, and is proved for each kind of step; types,
agreement and `ClosedByItsDispatcher` follow from it. The requests and their
appeals are treated apart (`RequestInv`), as are the dispatchers (`Goes`).

**`DecisionNoticesProofs`**: `RequestsUndisturbed` (every step of the composition
is a step of `RequestNotices` or a stutter, so all its theorems carry over:
`AgreementHolds` is one), `LettersTyped`, `AttemptsApart` and `SentForGood`.
`LetterInv` says that only a decided review has a letter, that a courier in
transport has a counted attempt, and that once a letter is SENT every attempt
still under way is an older one; the last needs `OwnAttempt`, that no two
couriers ever make the same attempt. A step either changes letters in a way no
courier notices (`Kept`) or is a courier's (`Delivers`).

**`ApprovalsProofs`**: `TypeCorrect`, `AppliedAtMostOnce`,
`NoDuplicateRequest`, `FencedApprovalsEntitled` and `ContractKept` (Approvals
implements ApprovalContract). `IInv` says what a transaction that passed its
checks may rely on until it commits: its own reading satisfied the checks
(`Checked`); it alone holds the lock of the request (`Alone`); without a
snapshot, request and record are still as it read them (`Locked`); fenced
actors keep the rank that was read (`ActorsHeld`). With a snapshot the same
follows only at the commit, from the absence of a conflict: `CommitsReviewed`
joins the two cases and is the step every theorem about approval rests on. For
submissions, the lock of a proposal has one holder (`Distinct`) and what it is
about to insert is not there yet (`Fresh`). The proofs go by kind of step
(`Steps`), so each part of the invariant looks only at the kinds that disturb it.

**`ScheduledRefreshProofs`**: `TypeCorrect`, `ReportedOnce`, `ChargedFairly` and
`GrantKept` (ScheduledRefresh implements RefreshGrant). Three things are read at
different times, and `IInv` orders them. What a Head reviewed is never ahead of
what is true: his authority, the preparation and the staged settings only gain
revisions, and an authorization that lapsed shows in one of them (`Behind`), so
the comparison a server makes when it executes finds every lapse. At most one
account is Head (`OneHead`). What a server selected was due at the version it
selected (`Selected`), and a failure it is about to record is counted already
unless the schedule moved on (`Owed`). Every change of a schedule makes a new
version (`RowMoves`): a server that comes late meets another version and does
nothing. The refinement goes by what a step does to period and authorizations
at once (`PeriodSteps`): they stand still, some authorizations fall, one is
given, one is used, or a Head acts in person.

**`SessionPlanningProofs`**: every property of `SessionPlanning` but the false
one and liveness: `RowsHaveTheirShape`, `NobodyIsBookedTwice`, `OffersReserveTheirWindow`,
`ConfirmedTimesStayFree`, `SilenceNeedsNotice`, `RecordedLessonsStand`,
`NobodyIsMovedUnasked`, and `ClosedRequestsStand`. A transaction may pass through
rows that are not consistent yet: a request is written before its offer, a
split writes and settles the children before it closes their parent. So the
invariant is stated of rows, `Good(s, X, weekly, now)`, where `X` are the
requests the transaction is still working on; `IInv` demands it of the stored
rows with no such request, and adds what a notice under way and a sweep may
claim. Beside the properties, `Good` says how rows hang together: a request is
about an existing plan and its lesson, a child belongs to a split parent
(`Rooted`); a lesson belongs to a published pairing or an agreed extra plan
(`Planned`); a seat points at a lesson of its own plan (`Seated`); a plan has
one lesson per window and room, so `Twins` names at most one (`OnePerPlace`);
the people of an open request still sit where it found them (`Fresh`), and no
learner has two open requests of a plan (`Disjoint`).

The three properties about a window are one argument. What is booked
(`Apart`), what is offered (`Reserved`) and what is confirmed (`WeeklyFree`)
must fit together at each window, and each action adds one claim after
`validateTarget` checked it against all three. An agreement (`Moved`) turns an
offer into a lesson: `Outcome` says what it does to the rows, and the claim that
was reserved is the one that becomes booked, so nothing new is claimed. Siblings
of a split may claim one window together; they merge into one lesson when they
agree. The split itself folds `Child` over the learners of the group, in an
order `CHOOSE` picks. `Folds` unfolds that fold to a function on the subsets of
the group, and `Split` shows, for a minimal subset that fails, that none does:
well-founded induction by way of `WFMin`, which states the fact with a set
where the induction rules of the library need an operator. `Splitting` is what
holds between two children. `Lawful` is what a step may do to the rows:
requests only evolve, recorded lessons stand, and seats move by agreement; it
is carried through the same lemmas and gives the action properties.

**`StudentRequestsProofs`**: `TypeCorrect`, `RosterCleared`, `SeatKept`,
`ExpiryPasses`, `OthersStay` and `NewerLink`. Two invariants are kept apart.
`IInv` is about links. `Knows` says what a resend may rely on between its two
transactions: the link it minted is newer than the one it read, and by the time
it publishes, the provider took it; the comparison at publication does the
rest. What makes the argument hold beside the whole workflow is `Copy`: a
working copy of the rows has every request's link as stored, whichever helpers
it went through, shown helper by helper and then once for every step that
commits one (`CommittedStep`).

`WInv` is about the rows. A working copy is `Sound(s, X, R)` when a request was
signed before it is confirmed (`Signed`), consolidations never lead back
(`Acyclic`), a request that nobody confirmed yet serves and is served by itself
alone (`Alone`), records name members that exist (`Named`), and every member of
a current pairing serves somebody (`Served`): an open request, or one of `R`,
the requests whose end is under way, unless the membership is one of `X`, the
ones a roster tool made or the transaction has not recorded yet. `WInv` demands
it of the stored rows with `R` empty and, while no roster tool was used, `X`
empty (`Extra`); the other half is who has the seat of an account (`SeatsOf`).
Each helper (`Materialized`, `Recorded`, `Released`, `Moved`, ...) takes sound
copies to sound copies, with fewer or more exceptions as it says, so an action
is a chain of lemmas (`AssignRows` is the longest) and one commit.

- `RosterCleared` is `Served` with no exception, read backwards: a member of a
  request that ended serves another, and as it is not that request's own
  profile, by a record.
- `OthersStay`: `Needed` keeps exactly the members another open request has an
  assignment of (`ShedOthers`), and a request whose assignments were derived
  and become records meanwhile has the same ones (`KeptSame`).
- `ExpiryPasses`: an expiry only takes members away (`Slimmer`), from current
  pairings, and the only profile it touches is the request's own, because of
  `Alone`; its status becomes INACTIVE or stays.
- `SeatKept` goes by the number of transfers: without any, every profile works
  for itself; with one, an account's confirmed open requests are all worked on
  by the profile its `student` leads to; with two, by one profile.
- A transfer is the hardest step. Its successors are numbered by
  `Cardinality` (`Numbered`), every record is copied under the new member's
  name (`Moves`), and whoever worked through either profile works through the
  target (`JoinedExec`). `Exec` is a recursive function; `LeadsExist` shows that
  it exists without induction (it is the graph of reachability), and `ExecEnds`
  that it ends, from `Acyclic`.

Only model-checked: all liveness (liveness under fairness is beyond the
prover).
`OptOutDropsOldCopies`, `ContextAsReviewed`, `CutoffWins` and
`ClosedMeansOffRoster` do not hold.

## Findings

`outbox_optout`: `api/routers/account.ts:221` says that opting out cancels
existing copies and that a later opt-in must not replay them. The update skips
only PENDING rows. A copy that had already FAILED before transport (its message
could not be built) survives the opt-out; after a later opt-in the resend
button requeues it and it is sent.

`approvals_settings`: `approvals.ts:449` says that comparing the captured
evidence at approval prevents applying a proposal after those records changed.
A serializable decision compares the evidence as of its first statement.
Settings and other captured rows that the replay does not write may change and
commit while it waits for its locks, and the proposal is applied. The code says
so of attendance (`attendance-approval.ts:16`), the operations it therefore
runs READ COMMITTED.

`sessions_cutoff`: `session-planning/index.ts:2049` says that the cutoff wins
over late mail and late execution of the worker. A sweep reads the clock once
and passes it to the later transaction of every request (2088). A request whose
cutoff passes in between is judged by the old reading: silence becomes assent,
and the lesson moves after its own start.

`students_roster`: `student-request-state.ts:146` says that a terminal
transition removes roster membership. The roster tools of staff insert a member
without recording it for the student's request. Once the request has a recorded
assignment, only recorded ones are released, and the student stays on that
pairing after withdrawing or expiring.

Two remarks on request notices are not runs. `resolveStudentSignupAppeal` lifts a flag under a
new version without `queueRequestNotice`; the receipt of the lifted flag keeps
its state (it is not sent, but one that FAILED stays on show as failed). And
when a worker in transport outlives its lease, a second one may close the row as
SUPERSEDED after a clear; the acceptance of the first then finds no open attempt
to record.

## Plan

Done: outbox, request notices, appeals and decision mail, approvals, the
scheduled refresh, session planning and student requests, with the proofs of
their safety properties. Next, in this order:

1. Continuation offers and their opening, composed with `StudentRequests` and
   the joining and leaving of `SessionPlanning`.
2. Account codes and invitations (redeemed once, attempt limits), the
   school-hours chain with its own admission, room allocation as a function
   against a reference definition.

## Not modelled

Rendering, translation, templates, forms over single records, queries, the
operator's offline commands and the table-by-table identity merge: they keep no
protocol state of their own, or are data migrations better tested than checked.
They are most of the repository's lines. Within the approvals: the text of
notifications and audit entries, confirmation
tickets, self-service departure proposals and the client-key receipt of identity
corrections.
Within session planning: calendar suppression and reconciliation,
the queue of pairings to maintain, transfers of plans between executions, blocked rooms, mail of
suggestions, receipts of repeated calls. Within student requests: edits of a
survey and their revisions, the expiry of a link, profiles without a survey,
continuation assignments, the end of a term, departure from the school,
acceptance of the policy, groups, and the choice of subject, tutor and room.
