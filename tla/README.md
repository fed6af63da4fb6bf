# ReloPlanner: a TLA+ verification project

ReloPlanner is a relocation planner: a NestJS API (`apps/api`) over PostgreSQL
(Prisma), a client and an internal React application, and two shared packages.
This directory holds TLA+ models of the parts whose behaviour depends on the order
in which things happen or on arithmetic that has to agree with itself, the TLC
configurations that check them, and TLAPS proofs about most of them:
eight modules with proofs, among them three refinements.

The API is one Node.js process. No two pieces of JavaScript run at once, but
every `await` lets every other request, webhook, runner and promise chain run, and
hardly any handler keeps its reads and its writes in one transaction. A step of a
model is therefore a stretch of code between two awaits, or one statement (or
transaction) of the database. A React page is another such process: answers,
events, timers and effects are its steps.

## Contents

1. [Inventory](#1-inventory)
2. [Plan](#2-plan)
3. [The modules and the code](#3-the-modules-and-the-code)
4. [The runs](#4-the-runs)
5. [Fairness](#5-fairness)
6. [The proofs](#6-the-proofs)
7. [What is not covered](#7-what-is-not-covered)

## 1. Inventory

Paths are below `apps/api/src` unless they start with another directory.

| Component | State | Operations | What is hard | What makes it correct |
|---|---|---|---|---|
| background jobs (`jobs/jobs.service`, `jobs-runner.service`, `jobs-event-bus.service`) | `ProcessingJob` rows; runners, the promise chain `eventQueue` and one `ReplaySubject(1)` per job, all in memory | create, four runners, apply an event, publish a snapshot, three reads that publish what they fetched, cascade on account deletion | all runners share one chain; reads publish stale rows; events are lost when a statement fails; a restart forgets runners and queue | progress never falls, a job ends once, a shown outcome is final, one failing job does not hold up others |
| job requests (`jobs.controller`) | none of its own | start an analysis, a market sync, a report, a resume parse; retry; read; stream | count-then-create of the hourly limit; initial snapshot read before the subscription | the limit is exceeded by no more than what races; a stream begins with a row and ends with the outcome |
| billing (`billing/*`) | `Subscription` and `Payment` rows, `User.role`, the map `processedStripeEvents` | checkout, status, webhooks, activation, renewal, role synchronisation | several statements without a transaction; webhooks repeated, reordered, concurrent; marks in memory and set before processing | one charge buys one subscription; payments record what Stripe did; the plan served is the plan paid for; the role follows the plan |
| entitlements (`billing/entitlement.service`) | none | limits for the plan in force | depends on billing | reads only |
| cases (`cases/*`) | `RelocationCase`, `CaseMessage`, `CaseReadState`, activity rows | create, submit, archive, cancel, assign, reassign, post, mark read | checks and writes in different transactions; stale rows written back; counters kept beside messages | the conversation explains the case; counters count real messages |
| notifications (`notifications/*`) | `Notification` rows | create after a commit, mark read | outside the transaction | everybody a message was counted for is told |
| realtime (`realtime/*`) and the case page | socket rooms; the page's list, badge and requests | join, emit; load, receive, mark, send | authentication races subscription, drops lose envelopes, a load replaces what envelopes brought | a message seen stays, a badge that shows is cleared |
| auth (`auth/*`) and the callback page | `User` rows; OAuth states, exchange codes and e-mail tickets in memory | register, OAuth, link, unlink, verify, block, delete; exchange a code | every handler reads, awaits and writes; single use and expiry of three kinds of token; a restart forgets them; effects that run twice | a token works once and in time; an address is verified only by who proved it; a code signs in its holder |
| market sync (`market/*`) | snapshots and postings per country, run history in memory | sync of all or one country, retries, statistics | overlapping syncs, late errors, midnight, restarts | a snapshot is repeated only by an overlap; retries and history are bounded |
| analysis workflow, scoring (`scoring/*`) | analysis rows | score, gaps, roadmap, vacancies | arithmetic, ties, empty inputs, reads of different moments | monotone scores, an order that respects dependencies, best matches first |
| readiness engines, cost of living (`legal-readiness/*`, `financial-readiness/*`, `cost-of-living/*`) | `CostOfLivingData` rows, caches | evaluate, synchronise prices | rules that overlap, fallbacks of prices, half-done synchronisation | risk is monotone; recommended savings suffice; prices survive a failing sync |
| reports, AI routing (`reports/*`, `ai/*`) and the dashboard | `AnalysisAiSummary` rows, routing policy | generate, store, export | providers fail in order, two generations at once, late answers | an exported summary is of the analysis it is exported with, and says who wrote it |
| resume, profiles and the questionnaire (`resume/*`, `profile/*`, `ProfileWizard.tsx`) | profile and competency rows; the form | parse, map to the catalog, review, save | one catalog name for several rows, late answers, a request lost on its way back | what is sent can be stored |
| client job stream (`apps/client/src/hooks/usePersistentJobStream.ts`) | the attached job, its snapshot, local storage | start, attach, restore, reconnect | error events after the final snapshot, restored jobs that have ended, a start while a completed job is handled | the outcome is handled, the panel ends |
| internal chats (`internal-chats/*`, `Chats.tsx`) | threads and messages; the page | create, post, poll | overlapping polls of different selections | the page catches up |
| checkout return (`Plan.tsx`, `Settings.tsx`, `Dashboard.tsx`) | the address, the poll | start, poll, clean up | navigation cancels the effect, the webhook is late | the user is told |
| preferences (`preferences/*`, `Layout.tsx`, `Settings.tsx`) | the `UserPreference` row; the theme in each browser's local storage; the form | load, patch, toggle, save, repair | late answers, several browsers, a check of a row read before the write, lost requests | a theme chosen on a screen stays there, unless a save was under way then; the row follows it; a city is stored with its country |
| database schema and seed (`prisma/seed.ts`) | every seeded table | a thousand upserts, run again on any database | no transaction; dies anywhere; the database is used meanwhile | a run that ends leaves everything as it promises |
| knowledge, taxonomy, queue dashboard, monitoring | rows or nothing | upsert, look up | little | little that depends on order |

How they interact: controllers call services; runners call the workflow, market,
report and resume services and speak to `JobsService` only through the event bus;
deleting a user cascades to its jobs (and everything else it owns); every request
that needs the plan calls `getCurrentSubscriptionForUser`, which writes; case
transactions call notifications and realtime after the commit; Stripe calls the
webhook controller; pages poll, stream or listen. The hazards at their lines are in
`PROJECT.json`.

## 2. Plan

| # | Modules | Abstract specification | Status |
|---|---|---|---|
| 1 | `Jobs` | `JobLifecycle` | modelled; types, all invariants and the refinement proved (`JobsProofs`) |
| 2 | `Billing` | `PaymentLifecycle` | modelled; all invariants, the refinement and an action property proved (`BillingProofs`) |
| 3 | `Cases` | | modelled; both invariants and the types proved (`CasesProofs`) |
| 4 | `Auth` | `OneTimeToken` | modelled; all invariants and the refinement proved (`AuthProofs`) |
| 5 | `MarketSync`, `SyncAdmission` | | modelled; invariants and types proved (`SyncProofs`) |
| 6 | `Panel`, `CheckoutReturn` | `JobLifecycle`, `PaymentLifecycle` as their environments | modelled; the invariant and types of `Panel` proved (`SyncProofs`), the rest is liveness |
| 7 | `CasePage`, `InternalChats` | | modelled; the invariant of `CasePage` proved (`CasesProofs`), the rest is liveness |
| 8 | `Scoring`, `JobMatches`, `LegalReadiness`, `FinancialReadiness` | reference definitions | modelled; the properties and types of both engines, of the analysis and of the matching proved (`ReadinessProofs`), and those of all together (`SeedProofs`) |
| 9 | `ResumeDraft`, `ProfileWizard`, `Reports`, `Dashboard` | | modelled; invariants and types proved (the questionnaire in `ReadinessProofs`, the reports in `FrontendProofs`) |
| 10 | `Preferences` | | modelled; its invariants and the types proved (`FrontendProofs`) |
| 11 | `Seed` | | modelled; its property and types proved (`SeedProofs`) |
| next | the administrator's page of syncs | | open |

Modules take their sets and bounds as CONSTANTS with a named assumption where a
proof needs one, have one action per statement, handler or effect, state invariants
as conjunctions of named parts, and declare no RECURSIVE operator.

## 3. The modules and the code

`PROJECT.json` maps every definition to the lines it stands for. Operators whose
comment begins "Seeded fault" are not part of any model: each is a plausible
mistake in the definition it precedes, put in its place to see that a property
notices.

### `JobLifecycle`: what a job promises

Status and percentage of each row, as a caller sees them: queued once, then
reports that never move back, one end (a completed job at 100), and nothing after
that but the disappearance of the row with its owner, which is for good. `Jobs` maps
its rows to it with `Stage`, which tells a job not yet created from one that is gone.

### `Jobs`: how the API keeps the promise

| Variable | Code |
|---|---|
| `row` | the `ProcessingJob` row: status, `progressPercent`, and whether `startedAt`, `completedAt`, `result` and `errorMessage` are set |
| `runner`, `emitted` | the `execute...Job` coroutine of `JobsRunnerService` and how many `JOB_PROGRESS` events it has emitted |
| `queue` | the events chained to `JobsService.eventQueue` and not applied |
| `worker` | the `applyDomainEvent` call under way: after its find (`found`), after its update (`applied`) |
| `stream` | what the job's `ReplaySubject(1)` replays |
| `reads` | a `getJobForUser`, `getJobById` or `findActiveJobForUser` between fetching and publishing |

`CreateJob` is the insert, `StartRunner` what follows it up to the runner's first
await, `ReportProgress`, `CompleteJob` and `FailJob` its resumptions. `Reports`
lists the percentages each of the four runners passes on; for a market sync it
computes the rounded and clamped percentage from the number of countries.
`FirstAwait`, `LastAwait` and `MayThrow` say where a runner is suspended and where
what it awaits can throw. `FindRow`, `UpdateRow`, `PublishUpdate` are
`applyDomainEvent` between its awaits, `SkipEvent` its early return and the
`catch` of the chain. `Faults` chooses between failing statements (`db`),
restarts (`crash`) and account deletion (`delete`).

Abstracted: payloads, results and error texts to whether they are set; step names;
a stream that does not exist yet and one that replays nothing are the same value.

### `SyncAdmission`: the hourly limit

`syncJobs` are the MARKET_SYNC rows with their time, `admitted` the requests between
`countRecentJobsForUser` and the insert. Retrying a job inserts one without counting.

### `Panel`: a page that follows a job

The hook over the event stream: `page` is its state, `restore` the request for an
active job when the page opens, `start` the `startJob` calls, `sources` the event
sources with what is on its way in each, `stored` the snapshot in local storage. Of
the job only `JobLifecycle` is assumed, which `Jobs` implements. `Lost` is a source
whose only snapshot was replaced after the end was published: `getJobForUser`
publishes what it fetched before, and the panel waits until it is reopened. A job that
a call finds completed is handled (`ApplyStatus`) before the call goes on
(`CompletionHandled`): `attachToJob` awaits `onCompleted`, and the button works
meanwhile. Other behaviours the model allows: a `startJob` while a restore is pending
leaks an event source (`overlap`), and the shared `finishedRef` then swallows the outcome
of the second job; a `startJob` while `onCompleted` of the first job is awaited resets
`finishedRef`, and a stream is opened for the job that has ended as well, whose handle
takes the place of the running one's.

### `PaymentLifecycle` and `Billing`: payments and plans of one account

`PaymentLifecycle` is what billing promises: a payment is opened once and settled
once, and PREMIUM takes effect only when one has succeeded. `Billing` is the code in
live mode:

| Variable | Code |
|---|---|
| `subs` | `Subscription` rows in order of `startedAt`; `ref` is `providerSubscriptionId` when it names the checkout's Stripe subscription, "none" when it was made up |
| `payment`, `invoices` | `Payment` rows of checkouts and of invoice events |
| `role` | `User.role` |
| `call` | each request or webhook in flight: the statements it has still to execute, and the plan, reference and row it carries from one to the next |
| `processed` | `processedStripeEvents` |
| `stripe`, `sent` | external: what Stripe knows of a checkout, and the events it has not had an answer to |
| `now` | the day |

A call carries the list of statements it is about to execute (`GetCurrent`,
`Activate`, `StartCheckout`, `Handling`), and each statement is an action of its
own, so that any other call may run between two. `Throw` ends a call at a failing
statement; only `startCheckout` has a handler. `Crash` drops the calls and the
marks, `Forget` is the expiry of a mark after an hour, `Answer` with `redeliver`
lets Stripe repeat an event it was answered.

Simplifications: only `BILLING_MODE=live` (the simulated provider is for
development; the page that polls it is in `CheckoutReturn`); the two plans exist
(they are seeded and upserted); amounts and currencies are left out; opening a
session and storing its id is one step, since nobody can know of the session before;
an invoice is recorded in one step, the unique index refusing a second row; a failing
statement has no effect; `payment_intent.payment_failed` is left out. `Subscribed` is
the set of event types the endpoint is subscribed to at Stripe: a smaller set means
fewer events, not different handling.

### `CheckoutReturn`: the page that comes back from Stripe

`tab` is the page with the parameters of its address, `effect` each run of the effect
that polls, `summary` the two requests of `loadSummary`. What the model shows beside
its property: following a link to the same page while the checkout is polled cancels
the poll and leaves `checkoutProcessing` set until the page is left; a poll that reads
SUCCEEDED before the plan is activated says "Checkout failed" of a paid checkout; a
late answer of the first `loadSummary` replaces the PREMIUM plan read after the
activation; in simulated mode two confirmations at once can overwrite SUCCEEDED with
FAILED, and a FAILED payment is resolved again on refresh.

### `Cases`: the cases of one client and their conversations

| Variable | Code |
|---|---|
| `case` | `RelocationCase`: status, specialist, and whether each of the three dates is set; one per profile (`profile_id` is unique) |
| `messages` | `CaseMessage` rows with kind, author and those they were counted for |
| `readState` | `CaseReadState`: last message read and `unreadCount` |
| `notices` | `Notification` rows for a message |
| `request` | what a request in flight has read of the row and where it stands |

The `Ask...` actions are the read and the checks at the head of a handler, the
others the transactions. A request keeps only the part of the row it will use
(`Assigning`, `WhoIn`), because the rest cannot matter and would multiply the
states. `ChangeStatus` writes status and all dates from the row it has read;
`Assign` writes the status it derived from the row read by the check. `Create` is
refused by the unique index when the profile has a case, closed ones included.
`COMPLETED` and `NEEDS_USER_INPUT` appear in the checks, as in the code, but no
operation sets them. `Notify` inserts the notifications one by one after the
commit. The activity log (written in the same transactions, never read back by
them) and the emission on sockets are left out.

### `CasePage`: the open page of a case

`log` and `unread` are the rows, `unsent` the messages committed and not yet emitted,
`link` the socket as page and gateway see it, `wire` the envelopes on their way,
`visit` the page, `load`, `marking` and `sending` its requests. Two histories stand
beside the page's state: what the user has seen, and whether a mark failed. The model
contains, and the properties leave room for, what the code does not promise: system
messages count in the row but not on the page; an envelope and an answer rendered
together can leave the row at 1; messages are missed when they are emitted before the
room is joined; a subscription that overtakes the authentication is refused and not
repeated; a failed mark is ignored; `listMessages` returns the oldest 500.

### `InternalChats`: direct chats and the page that polls them

Threads in order of their last update, numbers of messages, the page's selection and
its requests in flight, each applied whenever it is answered, for the render it was
sent from. The page can show messages of a thread no longer selected for a while; a
list answer sent before any selection overrides the user's selection with the first
thread; messages after the 500th are never shown; an administrator cannot begin a chat
from the page, because it sends no `specialistUserId`.

### `OneTimeToken` and `Auth`: signing in

`OneTimeToken`: each string is issued once, accepted at most once and never after its
deadline; it may be lost.

| Variable | Code |
|---|---|
| `users` | `User` rows; a deleted one is marked gone |
| `tokens`, `store`, `accepted` | the random strings, the three maps `oauthStates`, `oauthExchanges`, `oauthEmailTickets`, and (history) how often each was accepted |
| `mails` | verification mails with their row and deadline |
| `call` | each request at the database statement it awaits |
| `page` | the callback page that exchanges a code, whose effect React may run twice |
| `vouched`, `opened`, `linkedOnce` | history: who has proved what |
| `events`, `now` | which of the rarer events happen in a behaviour, and the clock |

What the model shows beside its properties: a stale link write can undo a
verification; an expired verification link clears the hash of a mail sent since; two
GitHub identities race for one address. Not modelled: a lost answer and a reload of
the callback page, passwords, blocking's effect on open sessions.

### `MarketSync`: snapshots of the market

`syncing` holds where each of the four calls stands (start, night, manual, single
country): `check` is the `findFirst` of an attempt, `fetch` the adapter, `store` the
insert, `remember` the run history. `known` (history) is how many snapshots there were
at the check. Notes on the code: the adapter for Adzuna turns its failures into empty
answers, so that the hints for a retry are never reached; `ArbeitnowAdapter` is not
registered; a baseline of requirements or a manual snapshot is dated "now" and
outranks the daily one, dated midnight; the health of syncs uses the order in which
runs finish. A statement that is being executed while the process dies has committed
or not before the next process checks.

### `Scoring`, `JobMatches`: the analysis and the vacancies

`Scoring` is gap analysis, fit, critical path and roadmap as operators over levels,
requirements, transfers and a tuning, with a task whose reads lie apart; scores are
integers in ten-thousandths. `ScoringAssumption` says that levels to choose from are
levels of their type with NONE among them, that an order of the database lists every
requirement once, that `Transfers` are orders of the same rows, each two competencies and
a percentage, and that no row starts where another ends. The last is so in the seed
(`seed.ts:927`); an administrator can add rows that chain, and then what a skill is worth
depends on the order in which they come, of which nothing is claimed. Levels
are raised (`AtLeast`) when neither their place nor their score falls: an expired
certificate has the place of one in progress and half its score. The loops of the
service (transfers, rounds of the roadmap, depth first search) are recursive functions;
`Lists` is `filter`, `sort` and `Map.set`. `JobMatches` scores the newest vacancies, each with reads
of its own, while imports write statement by statement and the profile is saved. Notes:
`limitValue` 0 counts as no limit; a posting found again under another role is
overwritten; of two imports that overlap, one meets the unique index and drops the
rest of its postings; a posting that asks only for languages scores 0.

### `LegalReadiness`, `FinancialReadiness`: the two engines

The rules that fire and what is made of them, without texts; the arithmetic of savings
in cents, the three reads that look for prices, and the synchronisation that replaces
the rows of a city, retries, and goes on. `AcceptedAnswers` is what the decorators of
`CreateProfileDto` let through; `FinancialAssumption` says that the answers tried are
among them, that prices are amounts, and of the source of prices only that a country it
has prices for has one that is not zero. The sync stores prices of a city under the
country's name, which the lookup by code does not find.

### `ResumeDraft`, `ProfileWizard`: the questionnaire

`Lists` is `filter`, as a function of the positions that are kept.

The readings of a resume by text and by model, their mapping to the catalog, the review,
and the form with the preferences and the profile it begins with. Notes: preferences
that arrive late can set the default city of another country and overwrite the
currency; answers of `loadCompetencies` may come in any order; a profile that fails to
load leaves an empty form whose save deletes the competencies; a link from `/wizard/:id`
to `/wizard` keeps the state; a POST whose answer is lost and which is retried makes a
second profile; PATCH keeps an amount that was cleared; years the model leaves out
become 0. The assumptions say which rows the questionnaire may find: years within
`0 .. MaxYears`, each competency once (the unique key), and a level that is one of its
type when it stands in the column of its type; what stands in another column, which the
API accepts, may be anything. Of a text only the names, and of an answer of a model only
the kinds of its fields are assumed, as the parser of the answer checks them.

### `Reports`, `Dashboard`: summaries and their exports

`Reports` is the generation of a summary (providers and models in order, the template
last), the rows, and what an export contains; `Dashboard` the page with its requests in
flight. A job stands at a model of a provider of the order that was set when it began;
which of the calls fail is chosen call by call. Notes: a summary of an analysis selected before can be shown by a late answer
(never exported under another name, which is the property); of two generations at once
the later upsert stays.

### `Preferences`: the row, the header and the form

| Variable | Code |
|---|---|
| `stored` | the `UserPreference` row: theme, default country and city; `NoRow` before `ensurePreferenceRecord` |
| `scheme` | the theme in a browser's local storage (Mantine's color scheme manager) |
| `header` | what the effect of `Layout.tsx` in a browser waits for, if anybody is signed in |
| `form` | the page `Settings.tsx`: whether it is open, what it waits for, its draft |
| `sending` | the requests under way: sent, checked (row read, not yet written), answered or refused |
| `chosen`, `saving` | history: the theme a browser's user has chosen and is to see, or `Unset` if nothing is claimed; the save that is the last choice, before it succeeds |
| `lastOpened` | history: the browser that was opened after everything else had settled |

`EnsureRecord` is the read (and insert) with which `getMyPreferences` and
`updateMyPreferences` begin, `UpdateRecord` the later update, so that two patches may
be checked against the same row. `OpenTab` is loading the application or signing in,
which differ: loading forgets what the page has asked for. Both applications have the
same header and form.

The answer of a save sets the theme of the browser (`Saved`, `Settings.tsx:356`),
whatever was chosen since it was asked for: a toggle, or a second save from the page
opened anew, is taken back if it was made while a save was under way (`Saves`). The
history is therefore written when the user chooses. A toggle with no save under way
counts from then on; a save counts from its answer on, if nothing was chosen between
`Save` and `Saved`; of a choice made while a save is under way nothing is claimed.

### `Seed`: the seed script against a database in use

A run is a list of statements (`Statements`, computed as the loops of `seed.ts` go),
taken one by one; `SeedDies` stops it anywhere, `BeginSeed` starts the list again.
Beside it accounts join, pay and ask for their plan, an administrator renames skills
and changes rows, days pass. Skills, aliases, transfers, competencies and the
subscriptions of the demo accounts are modelled by their references; the rows of
tables nothing refers to by whether they are as seeded. `undisturbed` (history) says
that nobody else has written since the run began.

`SeedAssumption` says of the lists what the script's own lists satisfy, and the proofs
need: no two skills have one name and no two aliases one text, aliases and transfers name
skills of the list, and a skill that builds on another comes after it unless that one
builds on nothing.

## 4. The runs

Each passing run explores its whole state space; each of its properties has a mutant
(a definition marked "Seeded fault" in the place of the correct one) that breaks it.
Parts that share no state are checked in one run: a variable `topic` chooses at the
beginning which of them takes steps, and the others stay in one initial state. What
differs between the situations a part is checked in (who clicks, how often something
is lost) is a set of scenarios in the MC module, one of which is chosen at the
beginning.

| Run | Instance | Question, and what it shows |
|---|---|---|
| `jobs_safety` | `MCJobs`: a market sync and a resume parse, one reader, all faults | Do rows follow `JobLifecycle` (`ImplementsLifecycle`), trail their runner (`RowTrailsRunner`), keep fields and status consistent (`OutcomeFields`), and is a published outcome final however late a read publishes (`ShownOutcomeIsFinal`)? Yes, under lost events, deletions and restarts in any number. |
| `billing_checkout` | `MCBilling`: one checkout, one client request and two webhooks at once; failing statements, crashes, forgotten marks, repeated events; account of a user or an admin | Can a repeated or overlapping event record an outcome Stripe did not reach (`PaymentsAgree`), buy twice, link a payment to a row it did not buy or give the role away (`PremiumIsBought`), settle a payment again or put PREMIUM in force before one has succeeded (`PaymentsAreSettledOnce`)? No. |
| `billing_live` | one checkout, one client request, one webhook, two days, no failure, fair | Is a charged checkout activated and linked (`ChargedIsActivated`), is a role that disagrees with the plan set right (`RoleIsRepaired`), and does a subscription lapse only for a cause (`PremiumLapsesForACause`)? Yes, in any order of Stripe's events. |
| `cases_live` | `MCPages`, topics case, page, chats, return; fair | Is everybody a message was counted for notified, the former specialist after a stale post included (`RecipientsAreNotified`)? Does the open page keep what was seen (`SeenMessagesStay`) and clear its badge (`BadgeClears`)? Do the chats catch up with a selection left alone (`ChatCatchesUp`)? Is the user who returns from Stripe told what came of it (`ReturnIsAnswered`)? Yes. |
| `auth` | `MCAuth`, topics auth, reports, preferences | Are sign-in strings used once and in time (`TokensAreOneTime`), addresses verified only by proof (`VerifiedByProof`), codes good only for their holder (`CodeIsForItsHolder`), does the callback page say what happened (`PageFollowsCode`)? Is an exported summary the one of its analysis, with its true author (`ExportedSummaryIsGenuine`)? Does a theme chosen on a screen stay there, whatever the header's requests and saves asked for before bring, and has the row the theme of the screen (`ThemesAgree`)? Yes, but for what is chosen while a save of the same browser is under way. |
| `readiness` | `MCReadiness`, topics wizard, scoring, matching, legal, financial, cases, seed | Can the questionnaire's competencies be stored (`CompetenciesAreStorable`), is the roadmap sound (`RoadmapIsSound`), do recommended savings suffice (`RecommendedSavingsSuffice`), are the matches shown the best (`TopMatchesAreBest`), is nothing made worse by improving (`ImprovingNeverHurts`), does a city keep its prices when a sync fails (`CityKeepsItsPrices`)? Does the conversation explain a case (`StatusIsExplained`), and does a counter never count a phantom message (`UnreadIsBounded`)? Does a seed that ends leave all as promised (`SeedIsWhole`)? Yes. |
| `syncs` | `MCSyncs`, topics market, admission, panel, jobs; fair | Is a daily snapshot repeated only by an overlap or by force (`SnapshotsRepeatOnlyInOverlap`), is the hourly limit exceeded by no more than what races (`OvershootIsBounded`), does every sync end (`SyncsEnd`), every job whose runner started (`StartedJobEnds`), every panel (`PanelEnds`)? Yes. |
| `billing_lost` | one webhook, one failing statement | A finding: `PendingUpdates` is violated. The event is marked before it is processed, so the retry is discarded. |
| `billing_shadow` | one checkout, one request, one webhook, no failure | A finding: `PremiumIsServed` is violated. A request between the two statements of an activation inserts a FREE subscription that is newer. |
| `cases_closed` | one case | A finding: `ClosedIsNotAssigned` is violated. An assignment checked before the case is closed is written after. |
| `wizard_city` | the questionnaire | A finding: `OtherCityUsesAverage` is violated. A saved profile keeps its city although "Other / Not listed (use country average)" was chosen in its place. |
| `dashboard_summary` | the dashboard with a stored summary | A finding: `StoredSummaryIsShown` is violated. The preferred language, arriving late, resets the summary that was loaded. |

Bounds, and why they are enough:

- *Two jobs, one reader.* The only thing jobs share is the queue; two are enough to
  interleave their events. Two reads publish independently of each other, and one can
  be late by any number of events. The proofs cover any number of both. `Countries`
  is 1: a market sync still reports before and after its only country. In `syncs` the
  second kind is a report, and deletion the only fault: a lost event or a restart may
  leave a job RUNNING for ever.
- *One checkout, one client, two hooks.* Every pair of webhooks, and of a webhook and
  a request, overlaps at every statement. A second checkout would only matter to an
  account that pays twice; the proofs cover any number. `LastDay` 1 with `Period` 1
  lets a subscription reach exactly `expiresAt`.
- *One case, two slots, two specialists.* Cases share no state, and each stale write
  needs one request to overtake another. Two messages are a submission and an
  assignment, or a close; `cases_closed` has three. The proofs cover any number.
- *The pages.* The case page has up to two messages in its log, one drop of the
  connection, one failed mark, two visits. `PageTake` is the code's 500. The chats
  have `ChatTake` 1 for 500, so that the limit is reached, and at most four requests
  of the page; a message of the peer, a click and a lost request are scenarios of
  their own. The return polls twice (`MaxPolls`, 8 in the code).
- *Signing in.* Two calls, two rows, three strings, one mail, two mounts of the
  callback page. The lifetimes (`StateLife` 1, `CodeLife` 0, `TicketLife` 1,
  `MailLife` 0, with `LastTick` 1) let some strings expire in a behaviour and others
  live; which of them live longer does not matter to the properties. Which of the rarer events happen is a
  scenario; registrations race with sign-ins beside a row that was registered before.
- *Reports and dashboard.* At most one historical analysis is clicked at a time, and
  nothing else happens while an export is saved; a provider has up to two models, and
  each of their calls may fail; up to two jobs, or two requests of the page. The routing
  and the plan change in scenarios of their own. The proofs
  cover any number of models, jobs, analyses and requests.
- *Preferences.* Two browsers, two requests under way, one toggle. Two sign-ins and two
  requests of the form with one edit, where one browser has a theme of its own; one
  sign-in and four requests of the form with one edit, so that two saves are under way
  at once; or one sign-in and two requests of the form, one of which may fail. The proofs cover any number of all.
- *Market.* Pairs of the four kinds of sync, one or two countries, one midnight, one
  restart, one late error. `MaxRunHistory` is 2 (30 in the code), so that the history
  is full. The limit (`SyncLimit`) is 2 (5 in the code) with two requests in flight.
- *The panel.* One job started from the page, with two openings and one drop; one job
  before the page opens and one started from it; or two started from the page, one after
  the other, where the first may be found completed before the second is started. In the
  last no job reports progress before its end.
- *Arithmetic.* Levels, requirements and prices from the catalog and the seed, chosen
  at and beside the thresholds of the rules; two catalog orders, two orders of the
  requirements and two of the transfers; `MaxRequested`,
  `Take`, the tunings and the rounding are the code's.
- *The seed.* Three skills in a chain of parents, one alias, one transfer, four rows of
  tables that nothing refers to; two runs with, between or during them, a payment and
  a day, a visit, two renames, or one changed row.

Symmetry is used only in runs without liveness: of the calls, hooks, slots,
specialists and requests under way, which the models never tell apart. Deadlock is
not checked: jobs end, checkouts settle, conversations and scenarios are bounded, and
nobody has to send another request.

## 5. Fairness

Fairness is weak everywhere, and asks only for what Node.js, React, Stripe or the
browser do by themselves:

- *Jobs.* A runner's awaits settle and the promise chain goes on, because Node.js
  resumes a coroutine whose promise settled, and what the runners await settles: the
  job boards are asked with `HTTP_TIMEOUT_MS`, the language models with
  `AI_PROVIDER_TIMEOUT_MS`, and a statement of the database returns or fails. No
  fairness on creating, deleting or restarting.
- *Billing.* A call that has begun executes its statements; Stripe delivers an event
  until it is answered (`Deliver`, for each event); and the account keeps asking for
  its plan (every page does), without which nothing repairs a stale role. Nothing
  forces Stripe or the user to pay.
- *Cases.* A request that has begun is carried on; nobody has to send one.
- *Market* (`MarketFairness`). Some call that can go on does. One condition for all
  calls is enough because each has finitely many steps and starting one is not part
  of it.
- *Panel* (`PanelFairness`). Jobs reach their ends, as `Jobs` shows; requests are
  answered, and what is on its way in an event source arrives or breaks it. Opening
  the page and starting a job are the user's.
- *Case page* (`PageFairness`). The requests of a load are answered, React renders
  what it was given, a mark is executed and answered. Nothing keeps a connection up.
- *Chats* (`ChatsFairness`). The interval ticks while the page is open; every request
  is served and its answer or failure received.
- *Return* (`ReturnProceeds`). The effect of the page, the requests it sends, and the
  payment proceed; nobody is forced to reload or to stay.

In the runs that put several parts together each condition is guarded by its topic,
so that it asks nothing of a part that has stopped. Under the specifications without
fairness, any request may stop for ever at any step, which is what a crash looks like
to the database.

## 6. The proofs

Every theorem is of the specification of its component, for any sets of jobs,
checkouts, cases, calls, browsers and so on, and any bounds; the assumptions are the
named ones of the modules, which TLC evaluates for the instances above. They say
that sets of different things are disjoint, that bounds are numbers and scenarios
are made of what the module enumerates; those that say more are named below or with
their module above. In each module the inductive invariant is a conjunction of named
parts (checked with TLC before it was proved), with one lemma per action and one
theorem that it holds: `IInv` and `Invariant`, or, where a module of proofs is about
several parts, the name of the part with `Inv` and `Invariant`.

| Module | Theorems | States |
|---|---|---|
| `JobsProofs` | `TypeCorrect`, `RowAlwaysTrails`, `FieldsAgree`, `ShownOutcomes`, `Refinement` | all properties of `jobs_safety`; `Jobs` implements `JobLifecycle` |
| `BillingProofs` | `TypeCorrect`, `Agreement`, `Bought`, `Refinement`, `LapsesForACause` | all properties of `billing_checkout`, and `PremiumLapsesForACause`; `Billing` implements `PaymentLifecycle` |
| `AuthProofs` | `TypeCorrect`, `Verified`, `CodeHolders`, `PageTruth`, `Refinement` | all properties of sign-in; its strings implement `OneTimeToken` |
| `CasesProofs` | `TypeCorrect`, `Explained`, `Bounded` | `StatusIsExplained`, `UnreadIsBounded` |
| | `SeenStay` | `SeenMessagesStay` |
| `SyncProofs` | `TypeCorrect`, `RepeatsOnlyInOverlap`, `Overshoot`, `PanelTypes`, `SideBySide` | `SnapshotsRepeatOnlyInOverlap`, `OvershootIsBounded`, and the types of `syncs` |
| `FrontendProofs` | `DashboardTypes`, `ExportsAreGenuine` | `ExportedSummaryIsGenuine` |
| | `PreferencesTypes`, `Agreement`, `Located` | `ThemesAgree`, and that a city is stored with its country |
| | `AccountTypes` | the types of `auth` |
| `ReadinessProofs` | `LegalTypes`, `SimplerIsNoRiskier` | the legal part of `ImprovingNeverHurts` |
| | `FinancialTypes`, `PricesStay`, `SavingsSuffice`, `SaferIsNoRiskier` | `CityKeepsItsPrices`, `RecommendedSavingsSuffice`, the financial part of `ImprovingNeverHurts` |
| | `WizardTypes`, `Storable` | `CompetenciesAreStorable` |
| | `MatchTypes`, `BestMatches` | `TopMatchesAreBest` |
| | `ScoringTypes`, `RoadmapInOrder`, `PathIsLongest` | the two parts of `RoadmapIsSound` |
| | `RaisedIsNoWorse` | the part of `ImprovingNeverHurts` about levels |
| `SeedProofs` | `SeedTypes`, `SeedRestores` | `SeedIsWhole` |
| | `ReadinessTypes`, `SoundRoadmaps`, `ImprovedIsNoWorse` | the types of `readiness`, `RoadmapIsSound`, `ImprovingNeverHurts` |

Along which argument:

**`JobsProofs`.** That a row trails its runner depends on what is in the queue, and
that progress never falls depends on the order of one job's events among those of all
the others. The invariant says that the events of a job in the queue are in order,
start beyond where the row stands and end where the runner stands; that a closing
event is the last of its job; and that a snapshot in flight (of the worker or of a
reader) is not ended unless the row is ended in the same way. Appending to the queue
keeps the order because reports are monotone (a lemma about `Reports`, where the
arithmetic of the rounded percentage is); taking the head keeps it because every other
event of that job is beyond it; losing an event only leaves the row further behind; a
restart empties the queue. Refinement then needs only that the head of the queue is
not behind its row, that the row has not ended, and that `JOB_COMPLETED` carries 100.

**`BillingProofs`.** A call is a program of statements, so `Control` says which
programs there are: the rest of one of the handlers. `EventsFit` says what Stripe has
done before it sends an event, `SuccessIsToldOnce` that of one checkout Stripe reports success
by one type of event, which is never served twice at once, `Openings` that nobody else
serves a checkout being opened, `Settlings` that a payment about to be settled has not
been, `EachIsBought`,
`Linkings`, `Links` and `Plans` which payment bought which PREMIUM row and what the
calls between `Settle` and `LinkPayment` still owe. `Bought` then counts the rows
PREMIUM by an injection into the payments that succeeded. The refinement maps a row
newly in force to the payment that succeeded before it.

**`AuthProofs`.** `Relies` says of each request what it read and still uses: that a
provider vouched, that a row was linked, that a mail was opened. All of these are
histories that only grow, which is why acting on them later is sound. `Strings` says
that a stored string has not been accepted, `Purposes` for whom it was drawn,
`Waiting` that a page waiting for an answer has a request that will give it. The
assumption that says more than types: accounts there at the beginning are not
verified and have no mail out.

**`CasesProofs`.** `Owes` says what is still true of the row a request has read: the
message it will notify of exists, and an assignment checked against a case that was
submitted finds the submission in the conversation, because a conversation only grows.
Of the counters, posting adds one to counter and messages alike, and marking read
moves the marker to a message that exists; the lemmas are about how the set of newer
messages grows.

**`CasesProofs`, the page.** A list replaces what the page shows, and is read before it is
shown; the property holds because, while the page loads, nothing more is seen
(`ListSuffices`). The hypothesis is stated in the theorem: the log of each scenario is
at most `PageTake`. `listMessages` returns the oldest 500 messages, and in a longer
conversation a reload does lose messages that were seen.

**`SyncProofs`, the market.** A call remembers between its check and its insert how many
snapshots there were; `Looked` says that it knows all those it stored itself and,
unless forced, none of the country and day it is about to store, so that one that is
there nevertheless was stored by another call since.

**`SyncProofs`, admission.** `RoomIsLeft` counts, for every hour that is not over, the
rows asked for and the requests that have counted and not inserted: together never more
than `SyncLimit` and the number of requests less one. A request that is let in found
fewer rows than the limit, and the others in flight are at most all requests but one;
an insert moves a request from one count to the other.

**`SyncProofs`, the panel.** An event source is of a call that is over, or of the job
restored when the page opened, and there is one of each at most (`SourcesFit`, `Apart`):
whatever waits for an answer, or delivers one, has a page that is open. `SideBySide`
puts the three together.

**`FrontendProofs`, reports and dashboard.** That a summary names its true author
depends on which calls failed before. The invariant places each job: at a model there is,
of a provider there is, of the order that was set when the job began, with exactly the
tries before that place failed (`Placed`). A refusal moves to the next model or the next
provider that has one, and adds one try; that the tries are all those before the new
place is shown over the positions of the order, of which there are at most three, and of
the chain, of which there may be any number. `MOCK` is last in every order and has a
model, so that there always is a next place.

**`FrontendProofs`, preferences.** `RequestsFit` says what a request under way was
checked for, `HeadersWait` that a header that waits, waits for a request of its own.
`SavesAgree` is what a theme that was chosen rests on: as long as it counts, no save of
its browser is under way but one that is itself the last choice (`saving`), whose answer
sets the theme it asked for and is chosen from then on; the header's answer sets a theme
only where there was none. For the row to follow the last browser, `LastIsRepaired` says what may be under way after it
was opened with everything else settled: its own answer, then its repair of the row,
patches of the theme on its screen, and reads. `Located` holds although a patch is
checked against a row that may change before it is written, because the form always
writes country and city together and the header neither; a client of the API that
patches one of the two is not in the model.

**`ReadinessProofs`, the legal engine.** A report is what the engine makes of the facts
it is of. A simpler move fires no rule that raises the level and was silent, and every
one that lowers it; so the sum does not rise, and the clamp and the floor for a family
are monotone.

**`ReadinessProofs`, the financial engine.** A report is what the engine makes of its
answers and of the prices of a month, which come to an amount: a sum over a finite set
is an amount because a least number of summed terms that is not would follow one that is
(`NatLessThanWellFounded` takes the place of induction, `TermsAre`). Rounding is
monotone and keeps whole multiples, so that savings of `n` needs last at least `n`
months, of which the recommendation has no fewer than the six below which the rules
warn; and safer answers move runway and rules in one direction. A synchronisation
replaces the rows of a city in one transaction by one of each category (`NewRows`),
whatever was there before and however often it is tried.

**`ReadinessProofs`, the questionnaire.** One list goes from the resume through the
draft, the review and the form into the request and the row. The invariant says of each
of these places that it names a competency once, by an identifier of the catalog and
with a level of its type (`IsReview`, `IsForm`, `Sendable`, `IsRow`). The lemmas are
about what the code does with lists: filtering keeps the order and repeats nothing;
flattening lists without common elements repeats nothing; looking up and toggling keep
both. They are proved for any length, by the least position at which they would fail.

**`ReadinessProofs`, the vacancies.** The candidates are fetched once and scored one by
one, each from a read of the profile and a read of the row that come at different times.
The request carries as history the levels that were saved and the needs each row had
since the candidates were fetched; the invariant says that current levels and needs are
among them, that every score given was computed from some of them, and that what was
fetched is all that fits when `Take` allows it (`ScoresFit`). The sort is then the rest:
the rank of a position, the number of those that come before it, is another for every
position, so that by counting each rank is taken (`RanksAre`), and what is sorted is the
list in the order of a bijection (`DescendingIs`). A vacancy that is not shown has a
rank beyond those shown, so its score is no higher; a score is a whole number because an
average of matches is (`FitIs`).

**`ReadinessProofs`, the analysis.** What is stored was computed from levels that could
be chosen, a tuning and an order of the rows (`ScoringInv`): of what is saved or tuned
meanwhile nothing else matters, so that the rest is about one analysis, or two. A
recursive function is the only one that satisfies its equations, as a least position
where two differed would show; what is defined by it is then carried from step to step
(`StepsStay`), and what is said of finite sets is shown by taking elements away
(`Shrinking`). A sum over a set does not depend on the order in which it is taken
(`SumWithout`), and does not rise with fewer or smaller terms (`SumOfFewer`).
Four arguments rest on that.

- *The roadmap.* In every round what is placed stands behind all it depends on, the
  queue holds exactly what else has everything placed, and the counters say how much of
  each competency's dependencies is missing (`PlaceNextKeeps`). If the queue is empty
  and something is not placed, it depends on something not placed; dependencies are
  three deep at most, so nothing is left, and the way for cycles is never taken
  (`RoadmapIs`). A gap takes some hours because its level lies before the one required
  whenever its score does (`LowIsBefore`).
- *The longest chain.* When a competency is reached is the one solution of an equation
  that three rounds from any hours come to; the depth first search solves it, and so do
  the ends of chains of at most three steps (`LongestChain`).
- *Raised levels.* After any number of the transfers a score is the one it began with or
  what one of them carries over, and no less than any of these (`AfterRows`), since no
  row starts where another ends. So all orders of the rows come to the same scores
  (`SameTransfers`), and an analysis does not depend on them (`AnyTransfers`). Scores,
  transfers and matches are monotone, so a gap that is left was
  one before with no shorter way (`RaisedItem`), and with fewer and shorter steps nothing
  is reached later (`ReachedNoLater`).
- *Fit.* The weights do not depend on the levels, and numerator and denominator are sums
  over competencies, whatever the order of the rows (`FitOfAnyOrder`), so that a higher
  match raises the rounded average or leaves it.

**`SeedProofs`, the parts side by side.** A behaviour of `MCReadiness` is one of each of
its parts, with steps in which the part stands still (`PartsOfReadiness`); what is proved
of the parts holds of all of them together.

**`SeedProofs`, the seed.** The script has no transaction, so that what holds at its end is the sum
of what its statements leave. A run is always at the rest of one of its phases (`IsRun`,
`SeedRunOK`), which makes it exact which statements are still `Pending`. `SeedProgress`
says of every statement that it is pending or that what it writes stands; one part for
each table (`AccountsDone` to `CompetenciesDone`). Each part needs one lemma for the
phases that write its table and one for those that do not; two statements of one phase
disturb each other only where they write the same row, which is why the names and the
aliases of the lists have to differ. Three parts say more than that. Payments: of six
statements, the second and the fourth open the subscription that is the only active one
of its account from then on, because later phases close none and give a plan only to an
account that has none. Users: the accounts are listed once and visited later, so that
each has a plan or a visit to come (`Covers`). Skills: a skill is written after the one
it builds on (`SkillLists`: parents without a parent come first, and the others in the
order of the list), so that the id of the parent is known. At the end nothing is pending,
which is `SeedIsWhole`. What was in the tables when the run began is of no account, so
that the crashes and the use of the database before it need no case of their own. That a
skill is found by a name at most once is part of the types (`SeedDataOK`), because the
column is unique.

Left to TLC, and why:

- Liveness and ENABLED are out of the prover's reach: `ChargedIsActivated`,
  `RoleIsRepaired`, `RecipientsAreNotified`, `BadgeClears`, `ChatCatchesUp`,
  `ReturnIsAnswered`, `SyncsEnd`, `StartedJobEnds`, `PanelEnds`.
Every invariant and every action property about safety that a run checks is a theorem.
The proofs say nothing about the runs that expect a violation, which stay with TLC; nor
about bounds that make a model finite where a definition states one as a guard: those
are part of the specification, and named with their module.

## 7. What is not covered

Not modelled: the queue dashboard (its counts are separate queries, so that a job may
be counted twice or not at all), the knowledge base, the routing policy's
administration, monitoring, the scripts; the internal application's copies of the
client's pages; seed data and shared types except for what the models use. Of the
taxonomy only renaming is modelled, against the seed. Deleting an account is modelled
for jobs only. The server's time zone is taken to be UTC.

Several tabs of one browser are not modelled. They share the token in local storage,
and a late 401 removes a newer token
(`packages/shared-frontend/src/api/client.ts:80`).

Behaviours met on the way that no property states:

- *Settings.* A failed load leaves an empty draft that can be saved over the row. A
  stale draft reverts a theme chosen in the header since. A toggle, or a second save,
  made while a save is under way is taken back on the screen by the answer of that save
  (`Settings.tsx:353`–`357`). A theme saved "globally" is
  taken back by another browser that has one of its own. Patches of single fields
  through the API can each pass the check and together store a city without a country,
  after which every patch of the theme is refused. Late patches of toggles may be
  applied out of order; the next opening repairs the row.
- *Seed.* A status request of the premium demo account between closing and opening its
  subscription makes a FREE row that is newer (as in `billing_shadow`). A crashed seed
  leaves part of the entitlements. A role PREMIUM that was paid for is reset until the
  next status. Renaming two skills so that their names are exchanged makes every later
  seed stop at the unique `legacySkillId`. `CostOfLivingData` has no unique key, so
  two seeds at once write its rows twice; and the price synchronisation writes the
  country's name where the seed writes its code, so that both rows stay. The rule map
  keeps the last rule of a family, and `RoleCompetencyRule` is read nowhere.
- *Reports.* A report mixes a frozen analysis with the current profile. The threshold
  of READY uses the score before rounding: 0.796 is shown as 80 % and is not ready.
- *Vacancies.* A manual import with two rows of one skill fails as a whole. The
  normalizer of skills is loaded only when the process starts.
