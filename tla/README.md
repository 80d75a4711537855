# A verification project for diaspovote

diaspovote is a NestJS backend (TypeORM on MySQL, Redis, BullMQ) that runs the
elections of a diaspora community: elections with a voting window and an
electoral roll, candidacies that a commission reviews, votes, and around them
accounts with sessions on several devices, outgoing mail, the oversight of those
who were elected, sponsors and reference data. This directory holds TLA+ models
of its services and of the guards in front of them, the TLC configurations that
check them, and proofs that TLAPS checks.

Contents: [the system](#the-system) · [modules](#modules-and-code) ·
[runs](#runs) · [proofs](#proofs) · [what the checks found](#what-the-checks-found) ·
[limits](#what-is-not-covered) · [plan](#plan)

## The system

Paths are relative to `src/src/`.

| Component | State | Operations | What makes it correct | Modelled |
| --- | --- | --- | --- | --- |
| elections (`election/services/election.service.ts`) | `elections`: status, window, resultsPublished, deletedAt | create, update, activate, close, publishResults, remove | draft → active → closed and nothing else; opened with a window, a roll and enough approved candidacies; one election per year and jurisdiction; published results are final | yes |
| electoral roll (`electoral-roll.service.ts`) | `electoral_rolls` | register, bulkRegister, remove, stats | a user is on a roll once; the roll of a closed election is frozen once the edits in flight are done; turnout ≤ 1 | yes |
| candidacies (`candidacy.service.ts`) | `candidacies`: approvedAt, rejectedAt, deletedAt | submit, update, withdraw, approve, reject | one per user and election; a review is final once those who had read before it are done; one outcome | yes |
| votes (`vote.service.ts`) | `votes`, receipts | cast, verifyReceipt, getResults | one vote per voter and election; for an approved candidacy of that election, by a registered voter, in the window; never changed | yes |
| authentication (`auth/services/auth.service.ts`, `core/guards`) | access and refresh tokens, Redis `jti:*` | register, login (password, PIN, Google), confirmEmail, refresh, logout, logoutAll, revokeSession | a token that logged out is refused; a refresh makes nothing that a logout removed; a blocked account gets no session | yes |
| sessions (`session.service.ts`) | `user_devices`, `user_sessions` | createSession, rotateSession, three deletions, nightly cleaning | one session per device; a session accepts a token of its own device; no session outlives its account | yes |
| users (`users/services/user.service.ts`) | `users`: status, roles | adminCreateUser, updateStatus, updateRoles, softDeleteMe, hardDelete, profiles | blocking or deleting an account ends its sessions; a right that was lost drains from tokens and requests | but for profiles and pictures |
| guards and routes (`core/guards`, `core/decorators`, the controllers) | none: they read the token and Redis | five guards, in the order of `app.module.ts`; 123 routes | administrators come from administrators; a block stands once those who got in before are gone | yes |
| mail (`mail/`) | BullMQ queue in Redis, `mail_failed_jobs` | four sendXxx, processor, two listeners, retry, abandon | no mail is lost in silence; one row per mail; every mail settles | yes |
| codes, PIN, locks (`otp.service.ts`, `password.service.ts`) | Redis `otp:*`, `att:*`, `lock:*`; password, PIN | send, verify, count, lock, reset | a code serves only requests in flight together; wrong guesses are bounded; counters and locks end | yes, but for the writes of password and PIN |
| candidacy payments, programs, posts, positions (`election/services/`) | `candidacy_payments`, `_programs`, `campaign_posts`, `positions` | submit, review; upsert; create, publish, remove; create, update, remove | one payment and one program each; the amount is frozen; nothing is attached to what was removed | yes |
| jurisdictions, universities, conditions (`election/services/`) | three tables | create, update, remove | a removal is refused while there are members; nothing is attached to what was removed | yes |
| achievements, contestations, questions, audit log (`oversight/`) | five tables | create, review, contest, resolve, ask, answer, hide | a decision is undone by nobody who read the row after, and has its audit entry; a contestation is about an approval | yes |
| sponsors (`sponsors/`) | `sponsors` | submit, review, update, remove, lists | one status each; what was rejected is not shown | yes |
| notifications, errors, files, Swagger, migrations, seeds | none at run time | | | no |

How they interact. Controllers call services; services share the tables through
TypeORM repositories and call one another directly (AuthService → SessionService,
OtpService → MailService; PasswordService → SessionService). There are no
transactions around several statements (TypeORM wraps each `save()` in one) and
no locks. Redis keys expire by themselves. BullMQ calls back the processor and
its listeners. A cron job cleans sessions.

What is hard. Every handler is an `async` method: Node runs one handler at a
time up to its next `await`, and any other request may run between two awaits.
So every check-then-act of this code is a race unless a unique index or a
cascade of MySQL decides it. `repository.save(entity)` writes back *every*
column that differs from the row it has just selected, so that an entity loaded
some awaits earlier undoes what others wrote meanwhile. A handler may stop
anywhere (an exception, a restart), and what it wrote before stays. Mails are
delivered at least once, and the listeners that record failures die with the
server while the queue does not.

The models keep exactly that grain: **an action is what a handler does between
two awaits, together with the one statement it waits for.**

## Modules and code

| Module | Models |
| --- | --- |
| `TypeOrm` | what `save()` does to an existing row: SELECT, diff (`Dirty`), UPDATE of the columns that differ (`Written`). External: the library is not in the repository |
| `ScrutinData` | the four tables of the election component, the clock, the requests in flight |
| `ElectionService`, `ElectoralRollService`, `CandidacyService`, `VoteService` | one service each, one action per await |
| `Scrutin` | their composition, its properties, and the invariants that explain them |
| `BallotBox` | the abstract specification of the votes, which `Scrutin` implements |
| `AccountData` | `users`, `user_devices`, `user_sessions`, the tokens and `jti:*`, the requests in flight |
| `SessionService`, `AuthService`, `UserService` | one service each |
| `Accounts` | their composition and properties |
| `Codes` | `otp:*`, `att:*`, `lock:*` of one operation of one user: `otp.service.ts` and the handlers it guards |
| `Mail` | queue, worker, listeners, the table of failures, its administrators |
| `OfficeData` | the tables of the office (fourteen of them), the audit log, the requests in flight, and the statements that end a handler: INSERT, `save()`, soft delete, record |
| `Campaign`, `Oversight`, `Sponsors`, `Catalogue` | the services of a candidacy's file, of `src/oversight`, of sponsors, of reference data |
| `Office` | their composition and properties |
| `Stamps` | the abstract specification of the dates (approved, rejected, published, hidden, resolved, deleted), which `Office` implements |
| `Routes` | the routes of all controllers with their decorators, and the guards that look at them |
| `Access` | roles and statuses, the tokens that repeat them, and every route that changes either |
| `MCScrutin`, `MCAccounts`, `MCCodes`, `MCMail`, `MCOffice`, `MCAccess` | instances for TLC |
| `Scrutin_proofs`, `Desk_proofs`, `Outcome_proofs`, `Accounts_proofs`, `Codes_proofs`, `Mail_proofs`, `Office_proofs`, `Access_proofs` | theorems |

Requests. In the election and the account modules `req[p]` is the request that
server slot `p` is in the middle of: `pc` names the await it is at, the other
fields are the handler's local variables. `Serves[p]` says which operations the
clients of slot `p` ask for; it is how a run says who is concurrent with whom.
With one slot, requests come one at a time. `Abort(p)` drops a request at any
await: an exception, a client that goes away, a crash. Handlers whose first
statement is a read start with that read; an error response changes nothing, and
is the action ending the request, or a guard that does not hold.

Elections. `LoadedAs` is `getById` and the status test; `SaveElection` and
`WriteElection` are the two statements of `save()`. `HoldElection` is the entity
`update` changes in memory, where a field the client leaves out is `undefined`
and so not compared. The unique indexes count soft-deleted rows
(`ScopeTaken`, `CandidacyTaken`), while the checks before them do not: a scope
whose draft was removed is refused for ever.

Votes. `Cast`, `IsRegistered`, `LoadCandidacy`, `FindVote`, `InsertVote` are the
five statements of `cast`; the voting window is tested in the first, the row is
stamped in the last.

Accounts. A member of `Tokens` is a pair of an access and a refresh token, which
are always signed together. `accounts[u]` is the status, `Null` before the
INSERT, `"gone"` after the DELETE. A request without a User-Agent has one
fingerprint (`NoAgent`); confirmEmail opens its session with no audit data, and
so on that one. The guards look at the token and at Redis, not at the table:
`Authorized` reads the status that was signed. `login-pin`, `send-reset-otp`,
`confirm-reset-otp` and `reset-password` are not marked public, so that the
global guards ask for the access token of an active account first:
`LoginWithPin` has that as its guard. Passwords, PINs and codes are taken to be
right.

Codes. No handler touches the keys of two operations or users, so one behaviour
follows one operation, `conf` being its settings. Each Redis command is an action;
the two of a `Promise.all` are sent in order and executed one by one, and either may fail
alone: `FirstFails` is the first, a handler that stops before the second is `Abort`. `guesses` and
`uses` are history variables: the wrong guesses tested since the counter was last
absent, and how often the code last sent was found right. A right PIN does not reset
the counter (`password.service.ts:214` announces it and stops there), a right
password and a right code do. Keys lose one unit of their time at each `Tick`.

Mail. BullMQ is external and modelled by what the code relies on: attempts are
counted, `attemptsMade < attempts` goes back to waiting, a job found stalled
after a crash waits again, and one that stalls a second time is failed
(`maxStalledCount` is 1) and `onJobFailed` returns early for it, since attempts
are left. Events that were not handled when the server stopped are not
delivered again.

Office. The four services know four statements only (`findOne` or `count`, INSERT,
`save()`, soft delete), so that `OfficeData` defines once how handlers end: an action
of a service reads, holds an entity in memory (`Hold`, or `LookUp` when it looks for a
parent first), and leaves it at `insert`, `save` or `softDelete`. All tables share one
record of columns; dates are kept as whether they are set, and a `ref` column stands
for the one parent that a property is about. `Saved` goes on to `record` for
the four handlers that call `AuditLogService.record`; `unlogged` is a history of those
that stopped before it. `Resubmitted` is why entities are functions on a set of
columns: `rejectedAt = undefined` takes that column out of what `save()` compares.
`Starts` says what is in the tables and who is served when a behaviour begins: each is
a part of the office with its clients.

Access. `Routes` lists what each controller's decorators ask for, method by method
(`On`), and translates the guards. In `Access` a request that passes them is
`admitted` with its token, and its handler's first statement is the next action.
A token repeats the account as it was (`Claims`); `Alive` is its expiry by `Ttl`, which
depends on the roles it says. `ToSign`, `Said` and `Used` are where a right can be
outside of the table: in a handler that will sign it, in a token, in a request that
came with one. Whether there is a session to refresh is left open (`Accounts` has it),
so that what holds here does not rest on sessions being deleted.

## Runs

| Run | Question | Instance | Distinct states |
| --- | --- | --- | --- |
| `twoDesks` | one desk for elections, another for candidacies and the roll, voters at both: is what `activate` counted and `cast` checked still so when they write? | 2 users, 1 election, 2 candidacies, clock 0..2, 2 slots | 75,453 |
| `desk` | one desk, with the commission, against concurrent candidates, voters and editors of the roll: what is left of "closed", "published", "reviewed"? | same | 204,225 |
| `open` | two clients for what leads to votes and away from them: do the tables implement `BallotBox`, what do the unique indexes keep true, and who still changes a reviewed candidacy? | 1 user, 2 elections in 2 scopes, 2 candidacies, clock 0..1, 2 slots | 771,251 |
| `accounts` | two requests of every kind on one account | 1 user, 2 devices, 2 pairs of tokens, clock 0..1, 2 slots | 1,567,219 |
| `codes` | how much can be tried, what serves twice, do counters and locks end? | 2 codes, 2 requests, 4 operations with 1 or 2 attempts and lives of 1 or 2, 1 handler that stops or command that fails | 211,049 |
| `mail` | failures, retries, crashes and abandoned rows | 1 mail, 3 jobs, 2 rows, 2 administrators, 2 attempts, 2 crashes | 259,599 |
| `office` | payments, programs, posts, achievements, contestations, questions, sponsors and the catalogue, each part with its clients | 9 starts, 4 rows, 2 fees, 3 slots (a reviewer, candidates and citizens; two administrators of the tree) | 413,996 |
| `access` | every route that changes a role, a status or a token: do lost rights drain, do administrators come from administrators, do bans hold? | 2 users, 2 tokens, 2 slots, clock 0..1, lives of 1 | 392,661 |
| `twoAdmins`, `turnout`, `duplicates`, `resubmit` | what the code, its comments or messages say, and a counterexample | below | |

Bounds, and why they are enough.

- *Two slots.* Every race of this code is between a request that has read and
  another that writes before it acts. A third slot multiplies the states and
  adds no kind of overlap; the theorems hold for any number.
- *Two users and candidacies* are what a quorum
  (`MIN_APPROVED_CANDIDACIES = 2`), a second vote of another voter and a
  candidacy one did not vote for need. `open` has one user twice, since its
  properties are about the collisions of one key.
- *Four rows* in `office` are a parent, a child, a row that is made while they are
  there, and one more to collide with it. Each start has the parts that read or
  write one another's rows; parts that share no row are not mixed.
- *Two accounts* in `access`: an administrator and somebody else, or two who promote
  and demote each other; with two tokens one is signed while another is in use.
  Administrators send the lists {}, {voter}, {admin} and the statuses active and deleted,
  which stand for all that is let in and all that is not.
- *Two receipts, two tokens, three jobs* bound how many votes, sign-ins or
  retries a behaviour has: the smallest number at which two of them collide
  (a mail and two concurrent retries of it).
- *The clock* has a value before, in and after the window; lives of tokens are 1,
  so that every order of signing, expiring and blacklisting occurs.
- *`SmallConf`* keeps what tells the operations apart: a bound of one attempt and one
  of more, a lock longer than and as long as a code's life, a null `otpTtl` with and
  without codes.
- *MaxCrashes = 2* lets one job stall twice. `Attempts = 2` has a last attempt
  and one before (the code's 3 adds one like the first).

`CHECK_DEADLOCK FALSE`: each bound stops the system when it is reached.
Symmetry sets (users, candidacies, receipts, tokens, slots that serve the same)
are used in runs without liveness properties only.

### Properties

- `OneVotePerVoter`, `OneRowPerKey`, `BallotInItsElection`: what holds under every
  interleaving, `save()` of stale entities included. `KeepsBallotBox`: every step
  of every handler is a step of `BallotBox` (a candidacy enters a slate for good;
  a ballot enters the box once and never leaves) or changes nothing of it.
- `LifecycleForward`, `ClosedElectionDrains`, `ClosedRollDrains`, `PublishedTallyDrains`:
  what holds when the operations that change elections come from one desk, while
  voters and those who edit rolls are any number and concurrent with it. They are the
  true forms of "no vote after closing", "the roll of a closed election is frozen" and
  "published results are final": what had been admitted before may still be written,
  nothing else gets in, and what was counted is final after it.
- `NeverApprovedAndRejected`: with one client for the reviews, whatever stale saves
  the candidate sends; with two, both dates may be set. `ReviewDrains`: what two
  reviewers and a candidate leave of "already treated". Only those who had loaded the
  candidacy while it was pending change it once it is reviewed, an edit that takes the
  review away included; they grow fewer, and after them the review is final. `open` has
  two reviewers approve at once beside edits and withdrawals; the theorem is for any
  number of reviewers of either kind.
- `OpenedWithQuorum`, `BallotsBacked`: with one client for what edits, withdraws and
  reviews candidacies and one desk for the elections, which need not be the same client,
  and any voters; with two for the candidacies, one is withdrawn between the count and
  the opening.
- `TokenOfItsDevice`, `SessionsHaveUsers`, `LoggedOutTokenRefused`,
  `RefreshRevivesNothing`: accounts, under every interleaving.
- `GuessesBounded`, `CounterExpires`, `CodeServesThoseInFlight`: what is left of "five
  attempts", "expires" and "one-time" when requests overlap and may stop midway.
  Each bound is reached. `LockEnds`: a lock ends however many requests insist.
- `NoMailLost`, `OneRowPerMail`, and the liveness property `EveryMailSettles`.
  `AbandonDrains`: an abandoned row is retried by nobody who asks afterwards; a retry
  asked for before may still fail, and makes it pending again; when those have ended it is
  left as it is.
- `DecisionsDrain` (`Office` implements `Stamps`): once a date is set, those who may undo
  it (they had read the row without it, and are going to save it) only grow fewer, and
  when there is none left it is set for good. It is what is left of "approved",
  "hidden", "removed" when entities are saved whole; the payment's rejection is left
  out, as candidates are meant to take it away.
- `AuditComplete`, `ContestedWasApproved`: the audit log against the tables, with stops
  between the two statements: each stop is named in `unlogged`, and no other way
  leaves a decision without its entry. `AmountIsFrozen`, `OneFilePerCandidacy`: what stale saves
  and racing submissions leave alone. `RemovedGetsNoMore`: without foreign keys
  a row may come to belong to one removed meanwhile, but never by a request that
  looks after the removal.
- `OneStatusEach`: with one reviewer (`OneReviewer`), who is the one to edit sponsors too:
  with two editors beside, an edit that had loaded the sponsor pending takes an approval
  away, the reviewer then rejects it, and one that had loaded it approved writes the
  approval back beside the rejection.
- `LostRightsDrain`: a role or status an account lost is read no more, then signed no
  more, then used no more. `AdminsComeFromAdmins`: through all routes, what their
  decorators ask for included. `BansHold`: `confirmEmail` writes `active` over a block and
  sign-ins do not look at the status; only who had got in before can use that.

Fairness. `Codes` assumes that time passes (`WF_vars(Tick)`) and nothing of the
requests. `Mail` has weak fairness of the worker on each job (BullMQ
polls the queue while the server is up, and a call of `sendMail` returns or
throws) and of the listeners (the event loop runs them). Nothing is assumed of
administrators, of the SMTP server (a mail may fail at every attempt) or of
crashes. The other specifications are safety only: no handler is obliged to
finish, because a server may stop.

## Proofs

TLAPS proves, for all values of the constants:

| Theorem | Says |
| --- | --- |
| `Scrutin_proofs!TypeCorrect`, `OneVotePerVoterHolds`, `BallotInItsElectionHolds`, `OneRowPerKeyHolds` | the invariants of `Scrutin`, any number of slots serving anything |
| `Scrutin_proofs!BallotBoxKept` | `Scrutin` implements `BallotBox` |
| `Desk_proofs!LifecycleHolds`, `ClosedElectionDrainsHolds`, `ClosedRollDrainsHolds` | the life cycle and what drains once it has come to closed, assuming `OneDesk`; any number of voters and of editors of the roll |
| `Outcome_proofs!PublishedTallyDrainsHolds` | published tallies, assuming `OneDesk`; any number of voters |
| `Outcome_proofs!ReviewDrainsHolds` | reviews, any number of reviewers and candidates |
| `Outcome_proofs!NeverApprovedAndRejectedHolds` | one outcome, assuming `OneClient(Reviews)` |
| `Outcome_proofs!OpenedWithQuorumHolds`, `BallotsBackedHolds` | openings and ballots, assuming `OneDesk` and `OneClient(CandidacyWriters)` |
| `Accounts_proofs!TypeCorrect`, `TokenOfItsDeviceHolds`, `SessionsHaveUsersHolds`, `LoggedOutTokenRefusedHolds`, `RefreshRevivesNothingHolds` | the properties of `Accounts` |
| `Codes_proofs!TypeCorrect`, `GuessesBoundedHolds`, `CounterExpiresHolds`, `CodeServesThoseInFlightHolds` | the safety properties of `Codes`, any settings and number of requests |
| `Mail_proofs!TypeCorrect`, `NoMailLostHolds`, `OneRowPerMailHolds`, `AbandonDrainsHolds` | the safety properties of `Mail` |
| `Office_proofs!TypeCorrect`, `OneFileEach`, `ContestsApprovals`, `DecisionsAudited`, `AmountsFrozen`, `NothingMoreForRemoved` | the properties of `Office`, from any start, whoever is served |
| `Office_proofs!DatesAreKept` | `Office` implements `Stamps` |
| `Office_proofs!OneStatusHolds` | one status each, assuming `OneReviewer` |
| `Access_proofs!TypeCorrect`, `LostRights`, `AdminsFromAdmins`, `BansAreHeld` | the properties of `Access`, over the routes as they are declared |

Arguments.

- *Scrutin.* `IInv` adds `RequestsKnown` to the properties: what each request in
  flight knows of the tables. The one fact that matters is that an entity in
  memory, however stale, has the unique key of its row, since no handler changes
  a key; a `save()` can then undo columns but cannot move a row, and votes keep
  their candidacies. Each handler preserves it by one of a few lemmas about a
  kind of step (a read, a `save()`, an INSERT, a DELETE).
- *Desk.* Under `OneDesk == two slots that serve an operation that writes elections
  are one slot`, `DeskKnown` says that the entity the desk holds is the row, up
  to the change it is about to write, which is a step forward. Closed then stays closed,
  and a request that edits a roll or casts a vote has to find the election open at its
  first await to be in flight at all, so that no step adds one.
- *Outcome.* Each property has the strengthening that stands before it in `Scrutin`, about
  what requests at an await know; `ReviewDrains` needs none but `IInv`, since a save
  is by a slot that is writing, and a slot begins to write only what it has just loaded
  pending. `ReviewKnown`: only the reviewer holds an
  entity that says a decision, and neither the entity nor its row says the other one, so that
  candidates' stale saves may take a decision away but never add one. `PendingKnown`: what
  is about to be written was pending, and still is. `OpeningKnown` and `DraftKnown`: the
  quorum that `activate` counted is still there at its UPDATE, since nobody leaves a slate
  by `PendingKnown`; the slates are finite (`CandidaciesAreFinite`), so a larger
  one is as quorate. `BackedKnown`: what `cast` has read of the election, the clock and the
  candidacy holds until it writes. `PublishedIsClosed`: with one desk, what is published
  was closed before, so that casts drain as in `ClosedElectionDrains`.
- *Accounts.* `IInv` adds what a request carries (the pair it has signed is for
  its own user and device), that devices belong to accounts (the cascade), and
  `KeyLasts`: a key `jti:<jti>` is there at least as long as the token. The last
  needs the assumption `JtiOutlivesAccess` (`AccessTtl <= JTI_BLACKLIST_TTL`),
  which `redis.config.ts:93` states and nothing in the code enforces, since the
  life of access tokens is a setting of another file.
- *Codes.* `IInv` counts the requests at an await (`Waiting`): a wrong guess is in the
  counter or carried by a request at `INCR`; one beyond `maxAttempts` has a request
  that is going to lock; a use of a code that is still there has one that is going
  to delete it. `StepOfOne` reduces each handler's step to three inequalities on what
  the request carries before and after; requests wait at one await each, so sums of
  `Waiting` are at most their number.
- *Mail.* `IInv` follows two identities: the one job a mail was asked with is the
  only one that may INSERT a row for it, and a retry names that row. `StateKnown`
  says what the state of a job tells of the mail. `AbandonDrains` needs no more: a row
  that is there is written by its retries and by `abandon` only, and a retry enters the
  queue from an administrator who had found the row pending.

- *Office.* `IInv` says what an entity in memory knows of its row: it agrees with it
  on the table, the parent and the amount, which no handler changes, and what it shows
  as decided is accounted for or is what its handler decides. The lemmas are about
  kinds of step (a handler that begins, one that goes on, one of the five
  statements); each of the forty-odd handlers then is one of them, and `Right` collects
  what the action properties ask of a step, so that each handler is visited once.
  The theorem with a hypothesis visits them once more: a step that reads leaves the
  handler with what it needs of it (`Keeps`), one that writes is looked at for
  who may do it. `ReviewKnown`: an entity that says one decision does not
  meet the other on its row, and only the reviewer holds one that says any.
- *Access.* `IInv` says that a request that was admitted has a token the guards let
  through. `Right` says where a right can come from in one step: what is to be signed was
  held, what a token says was held or to be signed, what a request uses a token said;
  `admin` is given by an administrator's request; a status that is let in by one that had
  been let in. The three properties are set algebra from there. `AdminRoutes` and
  `OwnRoutes` look the routes up in the declarations.

Assumptions on constants are the named `ASSUME`s: bounds are natural numbers,
`Null` is none of the values it stands beside, `Serves` maps slots to
operations, there are finitely many candidacies, starts are undecided tables. Who is
alone at what is not among them: it is the hypothesis of the theorems that need it, and
the `Serves` of the runs satisfy it (for the starts of `office`, TLC evaluates
`OneClientForEach`). All `IInv`s were model-checked as invariants before they were proved.

Model-checked only: `LockEnds` and `EveryMailSettles`, since liveness under fairness is
beyond the prover. Every other property of a passing run is proved.

## What the checks found

Each is a run that TLC finds violated, with the sentence of the repository it
contradicts in `PROJECT.json`.

- `twoAdmins`: `update` saves the entity it loaded as a draft after another
  request has activated the election: `active` goes back to `draft`.
- `turnout`: a voter who has voted is removed from the roll; turnout exceeds 1.
- `duplicates`: `createSession` upserts on a pair of columns without a unique
  index: one row per sign-in instead of one per device, and the refresh that
  then gives two rows one hash fails.
- `resubmit`: a payment that was rejected and is submitted again keeps its rejection
  (`rejectedAt = undefined` is not compared by `save()`), so that it can be neither
  approved nor rejected, ever.

Seen while modelling, without a run of their own: with two reviewers an approval and a
rejection of one candidacy both load it pending, each save writes its own date, and the
candidacy is approved and rejected (serve `reject` to both slots of `open` and check
`NeverApprovedAndRejected`); a registration that found the election open is written after
`close`, though `electoral-roll.service.ts:109` says that the roll of a closed election does
not change, and so is a vote (`ClosedRollDrains` and `ClosedElectionDrains` are what
holds); two refreshes with one token are both granted a new
pair, and the one that is overwritten is lost on the next refresh; confirmEmail
sets `active` whatever the status has become; a blocked account that signs in with its
password or Google gets a session and tokens, though `auth.service.ts:330` announces a
test of the status (the guards refuse those tokens, which say `blocked`); `updateRoles` leaves sessions and
tokens, so that a demotion takes effect when they end.

In the office: an election or a child is created after the removal of a jurisdiction has
counted none, and is an orphan, though `jurisdiction.service.ts:61-66` forbids to remove what
has any (`RemovedGetsNoMore` is what holds); a candidate's payment saved over a review that went between takes the
review away; a candidate's update of an achievement undoes an approval that went
between, an answer to a question brings it back though the log says hidden (in each
case only the request that had read before, which is `DecisionsDrain`); a contested
achievement can never be rejected, since reviews refuse what is treated, though
`contestation.entity.ts:5` says that the decision goes by the achievements;
`updateJurisdiction` looks neither for its parent nor for cycles; a candidate may pay for
one position and then move to a dearer one; approvals of candidacies are not audited,
though `audit-log.entity.ts` gives `candidacy.approve` as its example.

On the routes: `login-pin`, `send-reset-otp`, `confirm-reset-otp`, `reset-password`,
`send-reset-link` and `reset-from-link` are not public, and so for active accounts with a
token only. The public routes that look at the caller (the preview of results) see what
the middleware decoded: `RequireAuthGuard` has not asked Redis about it.

## What is not covered

- The values of passwords and PINs, the reset link and its temporary token. Profiles, titles,
  photos, texts: data no property reads. Notifications, errors, files, Swagger: no state.
- In `Office`, that whoever edits is the owner is taken for granted, as is a
  jurisdiction's type and the category of an achievement once it is filed. Universities
  and elections share one `ref` with their jurisdiction, so that what else they refer to is
  left out.
- In `Access`, whether a session still exists: a refresh may succeed whenever the account
  does. `WebSocketAuthGuard`, which no gateway uses.
- In `Scrutin`, the references of an election to jurisdictions and of a candidacy to
  positions, taken to exist; `Campaign` and `Catalogue` have them.
- MySQL's isolation: each statement is atomic, as each is its own transaction.
- Redis that loses keys; an SMTP server that delivers twice.

## Plan

Done: `Scrutin` and its services, `BallotBox`, its proofs, `Desk_proofs`, `Outcome_proofs`;
`Accounts`, `Mail`, `Codes` and their proofs; `Office` with `Campaign`, `Oversight`,
`Sponsors`, `Catalogue` and `Stamps`, and its proofs; `Routes` and `Access`, and their proofs.

Next:

1. `Access` over the sessions of `Accounts`: that deleting the sessions of a blocked account
   bounds for how long its lost rights last.
2. A refinement for `Codes`: a counter that counts and expires in one step, which
   requests that stop midway implement but for what `GuessesBounded` allows.
