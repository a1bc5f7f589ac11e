# Verification of bagadmenru-v5

TLA+ models of the Bagad Men Ru site, its server (`src/backend/bbe2`) and its web client
(`src/frontend/app`, over the API client of `src/frontend/lib`), checked with TLC and, for what
matters most, proved with TLAPS. The site is a members' area for a bagad: scores and
files, events and who comes to them, memberships, invitations, accounts.

Each module says at its head which part of the code it models; `PROJECT.json` maps every
definition to the lines it stands for, lists what each run checks, the hazards the properties
answer and the theorems.

    tlc -workers 2 -config rsvp.cfg MCRsvp        # a run: the module and the cfg are in PROJECT.json
    tlapm RsvpProofs.tla                          # the proofs of a module

## 1. The system

### How it runs

One process of one replica (FastAPI on uvicorn), one PostgreSQL database at READ COMMITTED through
a synchronous driver, one S3 bucket, an SMTP relay, and two stateless renderers. All the models
rest on four facts of that arrangement:

* An `async def` handler has a synchronous body: from its first query to its last it holds the
  event loop, and no other such handler runs in between. It is one step, unless it awaits or
  commits on the way, or something outside the loop can see it half done.
* `def` handlers, synchronous dependencies, generation jobs and the commit of `get_session`
  (`database.py`) run in threads, beside the loop and beside each other. Each of their SELECTs,
  COMMITs and calls outside is a step.
* `get_session` commits after the response was sent. What a handler flushed and did not commit
  itself is answered before it is durable, and its row locks are kept until then.
* Background tasks and the scheduler live in the process. A restart forgets them.

The code takes no row lock with SELECT FOR UPDATE and sets no lock timeout.

The client is a React application in any number of tabs. Three facts of it matter here:

* What a page shows is TanStack Query's cache of answers: read again when a component mounts, when
  the window is looked at again, or when a key above it is invalidated; an answer is a state of the
  server at some moment after it was asked.
* A continuation after an `await` runs whatever page is open by then, with the values its closure
  had; what a component rendered with may be older than what is cached.
* Tabs share the cookies and the service worker, and nothing else.

### The components

| component | state | operations | talks to |
|---|---|---|---|
| Score containers, PDF generation (`services/files.py`, `services/conversion.py`) | container and PDF rows, `processing_status`, S3 objects | upload, forced re-upload, delete; a generation job | S3, renderers, thread pool |
| File tree (`services/files.py`, `endpoints/files.py`) | folder and file rows by parent and name | create, upload, rename, move, delete, root | S3, containers |
| Recovery, action tokens (`endpoints/auth.py`, `utils/action_token.py`, `services/otp.py`) | `action_tokens` rows: owner, used, revoked, attempts, expiry | ask for a code, sign in with it, purge | email, accounts |
| Invitations (`utils/invitation.py`, `endpoints/invitations.py`) | invitation and code tokens, cooldown | invite, ask for a code, accept | email, accounts, memberships |
| Sessions, passkeys, API keys (`endpoints/auth.py`, `utils/auth.py`, `utils/api_key.py`) | signed cookies, passkeys, key rows | login, logout, set password, register, revoke | browser, accounts |
| Memberships (`services/membership.py`, `endpoints/helloasso.py`) | a row per source item: link, state, season | two webhooks, staff's link and delete, purge | HelloAsso, the Cercle, accounts |
| Events and answers (`services/events.py`, `endpoints/events.py`) | events, answers, the log of changes | create, delete, answer (application or emailed link) | notifications |
| Notifications (`services/notifications.py`, `services/push_service.py`, `services/email.py`) | push subscriptions, tokens sent | subscribe, send, prune | SMTP, push services, service worker |
| Mailing lists, scheduler (`services/mailing.py`, `scheduler.py`) | result of the last synchronisation | compute and apply a difference | OVH |
| Request sessions (`database.py`, FastAPI) | transactions, row locks, threads, the loop | one transaction per request | every handler |
| Profiles, groups, permissions, statistics, calendars | member rows, tables of permissions | CRUD, queries | the rest |
| Web client (`frontend/app`) | a query cache per tab, the cookies of the accounts and the selected one, the browser's push subscription, open dialogs and requests in flight | the pages: read, change, invalidate, navigate; sign in, switch, sign out | the API, the service worker, the other tabs |
| Renderers (`renderers/go`) | none | render a score | called by the jobs |

### What is hard in it, and what makes each part correct

* **Containers.** Jobs of superseded uploads go on running while a new source is uploaded or the
  container deleted. Correct: a completed container has the PDFs of its current source, whole; no
  row refers to an object that will expire; a container waiting for its PDFs is settled.
* **Request sessions.** A handler that waits for a row lock on the loop stops the loop, which may
  be needed to release that lock. Correct: what was answered gets committed.
* **Recovery.** Codes are guessed, used and superseded concurrently, with counts read before and
  written after. Correct: one grant at a time, one sign-in per grant, every mismatch counted, no
  dead grant revived.
* **Memberships.** Notifications come late, twice, out of order, before or after the account.
  Correct: whoever has the address gets the link, in the right season, and keeps it.
* **Answers.** The log deletes and amends its own entries. Correct: it still tells one story, and
  withdrawals are in it.
* **File tree.** Checked before, committed after the response. Correct: a tree with one root, whose
  rows have their objects.
* **Accounts of a browser.** One tab signs out or switches while others show, fetch and write.
  Correct: a tab nobody disturbed shows one account and signs out that one; the others catch up.
* **Push.** A device is a subscription in the browser, at the push service and a row at the server,
  and each can go without the others. Correct: who activates is reachable, and activating ends.
* **Pages.** A change invalidates keys by name, and queries are told apart by those names alone.
  Correct: a page does not show the data from before a change it confirmed, does not ask the same
  thing twice, and gets its buttons back.
* **Invitations, passwords, mailing lists.** Emails that fail after a state change, codes bound to
  addresses, hashes written late, lists that change while they are compared.

`PROJECT.json` lists these under `hazards`, each at its line; those without a property say why, and
the plan below takes them up. Smaller ones, seen and left out of that list: a connection pool of 15
that an `async` handler may find empty (`database.py:16`); a part whose disambiguated name is that
of another (`conversion.py:126`); `_mark_failed` swallowing a database error
(`conversion.py:156`); an item named twice in one notification (`membership.py:306`); a season
that begins at midnight of an offset the database does not keep (`membership.py:58`); an undated
adhesion filed again under the season of its last edit (`membership.py:352`); a deleted membership
created anew by its next notification (`helloasso.py:275`); a clock set back under the log of
answers (`events.py:20`); signatures made in a thread while `s3.py:82` freezes botocore's clock; as many requests with one
API key as threads (`api_key.py:91`); a message not sent because the process died after its event
was answered (`endpoints/events.py:186`); two accounts for one address in two cases
(`invitation.py:55`); a mailing list read, then changed call by call (`mailing.py:151`); two first
passkeys registered at once (`endpoints/auth.py:617`); a root renamed (`files.py:133`); files
dropped on a folder not loaded yet (`use-batch-upload.ts:51`); `['me', 'permissions']`, a key nothing
invalidates (`apiKeysSection.tsx:300`).

## 2. The modules

| module | models | checked by | proved in |
|---|---|---|---|
| `ScoreContainer` | containers, generation jobs, S3 | `conversion`, `conversion_stale_failure` | `ScoreContainerProofs` |
| `EventLoop` | loop, threads, transactions, row locks | `request_sessions`, `request_sessions_stuck` | `SessionsProofs` |
| `Recovery` | recovery grants and their codes | `recovery` | `RecoveryProofs` |
| `Membership` | membership rows and their links | `membership` | `MembershipProofs` |
| `AnswerHistory` | what the log of answers promises (abstract) | through `Rsvp` | through `Rsvp` |
| `Rsvp` | answers and their log | `rsvp` | `RsvpProofs` |
| `Accounts` | the accounts of a browser, over its tabs | `accounts` | `SessionsProofs` |
| `Push` | push subscriptions and preferences | `push`, `push_dead_rows` | `PushProofs` |
| `FileTree` | the tree of files and its pages | `files` | `FileTreeProofs` |
| `Payloads` | what answers show and requests write | through `Pages` | through `PagesProofs` |
| `Pages` | the pages of the client over their cache | `pages` | `PagesProofs` |

`MCx` extends `x` and only gives its constants their values. Definitions named `Bug...` are changed
forms of the one they precede, with a plausible bug: for each property one of them breaks it. They
take no part in any specification. `EventLoop` prefixes the names every specification has (`LoopInit`,
`LoopSpec`, ...), so that one module of proofs can extend it and `Accounts`.

### ScoreContainer

State: a container row (`life`, `fileKey`, `status`), the keys of its PDF rows (`children`), PDF
rows that lost their parent (`orphans`), every S3 object, the request on the loop (`req`), one
generation job per upload (`job`). `FileService.upload`, `_reupload_container` and `delete` are
cut into a step per commit and per S3 call, because jobs see them half done; `ConversionService`
is cut at every SELECT, COMMIT and upload. S3 refuses deletions half way and the process dies, up
to `MaxFaults` times. Keys carry the number of the upload, so that staleness is visible.

* `conversion` (pass): one container, three uploads whose parts overlap but differ, one fault.
  Three uploads are what it takes for a job to be overtaken twice; containers share nothing but
  the thread pool, whose order is free here. `LiveRowsServable`, `UnsettledHasWorker`,
  `NoStaleOutputs`, `CompletedIsWhole`, `OutputsAccountedFor`, and `PendingIsSettled` without a
  fault. Two of these name what the code lets through: `NoStaleOutputs` a job overtaken between its
  last look and its commit, `OutputsAccountedFor` the objects of a run whose commit was refused and
  those of a container deleted since (section 4).
* `conversion_stale_failure` (violation): `_mark_failed` looks only at the status, so the failure
  of a superseded run is recorded against its successor.

Fairness: weak, on each job and on the request being served. A thread of the pool runs, the
renderers' HTTP calls have a timeout, and the loop serves a request it began. None on members.

### EventLoop

State: the phase of each request, the request whose `async` body is on the loop, the holder of
each row lock. The routes are constants: where the body runs, the row it writes, when it commits.
The tables of the real routes are in the module, one definition per handler, and `MCEventLoop`
asserts which pairs of them clash.

* `request_sessions` (pass): six requests of routes that keep to the discipline, two threads.
  `LoopWaitsForThreadsOnly` and `AnsweredIsCommitted`.
* `request_sessions_stuck` (violation): two saves of one file. The first is answered and keeps its
  lock until `get_session` commits; the second waits for it on the loop, which alone could start
  that commit.

Fairness: weak, on each request. asyncio runs ready tasks, threads run, and Postgres grants a free
lock. A request that waits is not enabled, so nothing assumes a wait ends.

### Recovery

State: accounts, grants as records in the order they are minted, the `reset_password_request` on
the loop between its read and its commit, the calls of `login_with_code`, which overlap. A call
writes back the columns it changed, from the values it read. History: the calls that had ended
when each began.

* `recovery` (pass): two members, two grants of two attempts, three calls. Three calls on one grant
  exhaust it while overlapping; two grants are what superseding takes. A restart may come anywhere.
  `OnlyLatestValid`, `NoSecondSignIn`, `MismatchesCounted`, `DeadStaysDead`, `ValidUntilSpent`.

Overlapping calls may both be answered for one grant, and burn one attempt between them: the
properties say so in their conditions.

### Membership

State: accounts by address, rows by source item, what each source holds, the notifications in
transit. Every handler is one step except `create_profile`, which commits twice and may die in
between. A notification stays in transit until it gets a 200, which may be lost after the commit.

* `membership` (pass): two accounts, one address typed in two ways and another, an item of each
  source of which one is sold, two reports, two seasons. `_member_id_by_email` may pick any of
  several accounts of an address. Items meet only through the accounts, which link each by itself,
  so one at a time is enough; both sources are covered. A report may change the address, the state
  and the date; two are a sale and a correction, each of which may come late, again and in either
  order. `NoMissedLink`, `SeasonIsTheSources`, `LinksAreKept`, `LinkedByAddress`.

History: the dates a source ever gave, and the report of each item ingested last (`told`).
`SeasonIsTheSources` says that a row has a season its source gave, never that of its reception, and
that a corrected adhesion moves: the row has the season of the last correction once that was the
last to be ingested. When an older one comes after it the season goes back, as the state does.

### AnswerHistory and Rsvp

`AnswerHistory` says what staff may expect of the log: for each member and event, the answers that
stood, and the current one. A change of the current answer rewrites nothing; time adds to what
stood; only the deletion of the event forgets it.

`Rsvp` is the code: `apply_response` and `_log_response_change` with their three outcomes (append,
amend, delete the last entry), both endpoints, creation and deletion of events, and a clock.
`History` maps the log to the abstract state: the entries that can no longer be amended are the
answers that stood. History variables: the last answer that stood for the cooldown, and when the
current one was given.

* `rsvp` (pass): two members, one event, a cooldown of three ticks, four cooldowns. Ticks three apart
  are exactly on the boundary of the cooldown, one and two within it, and four cooldowns leave room
  for a change, one within its window, and two later ones. Pairs of member and event share only the
  deletion of the event. `LogIsAStory`, `WithdrawalsAreTold`, `LogIsTheHistory` (the refinement).

Time is bounded by `MaxTime`; the answers never stop, so deadlock is checked.

### Accounts

State: the jar that tabs share (a session cookie per account, the selector), and per tab its page,
whose answers it caches, the reading and the login or logout in flight. An answer is a function of
the cookies of its request, so it is fixed when asked and takes effect when it arrives, in any
order with those of other tabs. History: whether somebody else changed the jar under a tab since it
last cleared its cache; the properties are about tabs where nobody did.

* `accounts` (pass): two tabs, three accounts (the fewest for which signing out leads to the
  chooser), two moves among logins, switches, logouts and expiries, with all the fetches, page
  loads and redirections between. `UndisturbedTabIsOneAccount`, `OnlyTheShownSignsOut`,
  `TabsConverge`.

Fairness: weak on the arrival of an answer; strong on the fetch of a mounted query, which the page
asks each time it is back, whatever came between. None on people.

### Push

State: the server's key and rows, the push service (delivery is whether the browser still keeps the
endpoint, under the current key), each browser's subscription, permission and account, what its
service worker is renewing, and the settings page: the device it takes for its own, the list it
read, the activation and the removal in progress await by await, and the two preferences with what
each switch is sending.

* `push` (pass): one browser, two members, four moves of rotation, expiry, removal here and
  elsewhere, switching account, refusing and failing. Of the seven subscriptions allowed at most
  six are made, so that bound excuses nothing. Other browsers only matter by the rows they remove.
  `EnablingRestoresDelivery` for an activation nothing disturbed; `EnablingSettles`, where an
  activation that is pending, or that is refused again and again, does not count as settled: a
  subscription asked under a key other than that of the one there is, which the service worker may
  have made meanwhile, is refused, and the button offered again.
* `push_dead_rows` (violation): the pruning never happens, so a dead row keeps a willing member
  unreachable.

Fairness: weak on the server sending, on the page's awaits and the service worker's, and on a
member who clicks what is offered; removals and switches are not asked for by any fairness.

### FileTree

State: committed rows, updates answered and not yet committed (renames, moves, files filled again),
whether the event loop hangs, and per page its folder, the listing it read, its dialog and its
uploads. Each handler is one step on committed rows; a rename, a move or a file filled again adds to
the pending updates, and what needs a row, a parent or a
name one of those holds hangs the loop (that is `EventLoop`'s result, taken here as a step). So does
a walk up that meets a cycle: the breadcrumb's, and the one that tests a move. A walk is the set of
nodes met after as many steps as there are nodes.

* `files` (pass): two pages on a tree of eight nodes with a container and its output, two files to
  upload of which one is a score, one worker, two moves; that S3 refuses an object after the node it
  overwrites was deleted is one. `UncrossedMovesKeepTheTree` (what remains true: two children of a
  folder never have one name, and only moves checked while another waits for its commit can make a
  cycle); `OverwritesWhatIsNamed` (however a forced upload ends, it touches only the node it names
  and that node's children, as long as the page stayed on the folder); `BatchesSettle`, unless the
  event loop hangs.

Fairness: weak on commits, uploads, their workers and the answer to a conflict, without which the
progress dialog cannot be left.

### Payloads and Pages

A payload is the set of facts of the database it shows (`names`, `events`, `answers`, ...), a
request the set it may write: a definition for each model and each operation of the API client
that pages use. Facts are as fine as the pages tell them apart.

`Pages` has a definition for each query (its key and what it shows), each page (the queries its
components observe), each frame around pages, and each change (where it is asked, what it writes,
what it invalidates and in which order, what opens next, whether it is offered while it is
pending, what it needs and consumes). Over these tables it models the cache: readings asked,
joined by a later mount, replaced by an invalidation, retried, abandoned; changes from the click
over the server's write to the keys invalidated one after another and the page that follows,
opened wherever the member is by then.

Queries act on one another only by taking time, so a behaviour follows one of them and every page
and change that concerns it, and `pages` takes each in turn. What the server holds is the sequence
of the changes to what the query shows; an answer is how long a prefix it saw.

* `pages` (pass): the 35 queries, two requests in flight, one retry, two moves (opening a page,
  asking a change) and three for two of the queries, so that a page is left and opened again with
  a change between; focus, failures and the cache's forgetting are free. `OwnChangesAreShown`,
  `NothingIsAskedTwice`, `SavingSettles`.

`OwnChangesAreShown` speaks of moments when no continuation is left to run. Between two of them it
is false, which the proof found and two moves do not show: a synchronisation asked on one visit
and answered late puts its own, older answer in the cache (`mailingListSection.tsx:164`), over one that
the next visit was told of, and has it read again in the same continuation. Only with four moves
(asking, leaving, coming back, asking) can that happen, and the theorem covers any number.

One browser acts. `enabled` is taken to be true. A reading that a page joined as it opened may show
what was there before a change: `OwnChangesAreShown` leaves those out. The two dialogs that revoke
a key close on the click, and `NothingIsAskedTwice` leaves them out.

Fairness: weak on the answer to a request or its failure, on the end of a reading, and on the
continuations of a change. Requests and readings time out, continuations run.

## 3. What is proved

For all values of the constants, under the named assumptions of each module (bounds are naturals, the
cooldown and the attempts positive, sentinels are not members of the sets they complete; the files
there are at first are a tree whose nodes are in folders or are the outputs of a container, under names
that do not collide; nothing else).

| theorem | says | rests on |
|---|---|---|
| `ScoreContainerProofs!WorkersNeverForgotten` | a waiting container has a request or job that will settle it, or lost it to a fault | `WorkerInv`, over `CoreInv` |
| `ScoreContainerProofs!StaleOnlyIfOvertaken` | a PDF is of the current source unless its job was overtaken between its last look and its commit | `StaleInv`, over `CoreInv` |
| `ScoreContainerProofs!RowsServable` | without a fault, S3 can serve every key of a live row that is not being deleted | `DataInv`: `SourcesInv`, `DoomedInv`, `StoredInv` |
| `ScoreContainerProofs!CompletedShowsARun` | without a fault, a completed container shows all the PDFs of one run | `WholeInv`, over `DataInv` |
| `ScoreContainerProofs!OutputsAccounted` | without a fault, every untagged PDF is of a run to be committed, of a row, about to be tagged, or one of the two leaks | one step (`LeakStep`) under `DataInv` |
| `SessionsProofs!LoopNeverBlocksItself` | if the routes keep to the discipline, the loop only waits for a thread about to commit | `LockInv` |
| `RecoveryProofs!LatestOnly` | of a member's grants only the newest can be valid | `LatestInv` |
| `RecoveryProofs!DeadGrantsStayDead` | no late write revives a grant | `GrantsWane` |
| `RecoveryProofs!SecondUseRefused` | after a committed use, a new call is refused | `UseInv` |
| `RecoveryProofs!LostOnlyWhenSpent` | only its use, time, last attempt or a newer grant of its member ends a valid grant | `SpendInv`, over `LatestInv` |
| `RecoveryProofs!MismatchesCost` | where calls do not overlap, attempts left and mismatches add up | `CountInv`, over `UseInv` and `SpendInv` |
| `MembershipProofs!NobodyMissed` | no unlinked row has the address of an account | inductive as it stands, with the types |
| `MembershipProofs!LinksKept` | only the staff moves or removes a link | step by step |
| `MembershipProofs!NobodyElses` | a row comes to a member by the address or by the staff | step by step |
| `MembershipProofs!SeasonsAgree` | a dated membership has a season of a date its source gave; an adhesion the corrected one once that was ingested last | `DatesAgree` |
| `RsvpProofs!LogTellsAStory`, `WithdrawalsTold` | the log is one story; withdrawals are in it | `StoryInv` |
| `RsvpProofs!LogImplementsHistory` | `Rsvp` implements `AnswerHistory` | `StoryInv`, `ChangeKeepsTale`, `TickSettles` |
| `SessionsProofs!UndisturbedTabsAreIsolated` | an undisturbed tab caches one account's answers only | `Isolation`: also what is in flight |
| `SessionsProofs!SigningOutEndsTheShown` | signing out there ends that account's session alone | the same invariant |
| `FileTreeProofs!TreeKept` | two children of a folder never have one name; without crossing moves every walk up ends | `RowsInv`, `PendingInv`, `ForestInv`; the lemmas about walks |
| `FileTreeProofs!OverwritesNamedOnly` | overwriting from its folder, refused half way or not, changes what has that name there and its children only | `PageInv` (a page keeps its folder), `WalkFacts` |
| `PagesProofs!ConfirmedIsShown` | at rest, a page whose own last reading succeeded shows all it was told of | `ShownInv`, over `RequestInv`; `Tidy` of the tables |
| `PagesProofs!AskedAtMostOnce` | on a visit, what a list shows done or is about to is not asked again | `AskInv`, over `HereInv`; `Tidy` |
| `PushProofs!EnabledIsReachable` | an activation nothing else touched leaves the browser reachable | `CalmInv`, over `OwnInv` |

Type correctness of each of these modules is proved too.

Why the strengthenings. `UnsettledHasWorker` is lost at once without knowing that the upload in the
hands of a request is unknown to every row and job (`CoreInv`: fresh numbers stay fresh, one
request at a time). What S3 holds takes more: no two rows share a source, so that tagging the keys
of one container spares the others (`SourcesInv`); the objects a re-upload has listed are its former
source and PDFs whose rows it will delete (`DoomedInv`); and what a job or a request has sent and not
yet given a row is there (`StoredInv`), else the commit would make a row that cannot be served. `OnlyLatestValid` needs the request to know every valid grant of its member,
though it read them in an earlier step (`AskInv`): grants only wane meanwhile (`GrantsWane`). The
loop's waits are decided by who may hold a lock and in which phase (`LockInv`).
`SeasonIsTheSources` needs that a notification in transit repeats a date its source gave, and the
newest the present one (`DatesAgree`).
`LogIsAStory` alone does not survive an amendment: it takes the times (`Timed`): the last entry is
no younger than the answer, and an answer younger than the cooldown is that of the last entry or
the one that stood come back. From that, deleting the last entry leaves one that is at least a
cooldown older, hence fixed, so that what stood is untouched: the step of the refinement.

`MismatchesCounted` needs the one call that has yet to write to have read the count as it stands:
where no two calls overlap there is at most one such call (`CountInv`). `EnablingRestoresDelivery`
is about the last await of an activation; `CalmInv` says what each await before it has established,
and `OwnInv` that what a browser holds is its own, so that other browsers only write other rows.

`UncrossedMovesKeepTheTree` speaks of committed rows only, and a commit would break it at once
without knowing what the waiting updates hold: each one's place is free in the tree and asked by no
other, its node and its new parent stay (`PendingInv`; deletions and uploads that would take them
wait, which is what `Waits` says of the row locks), and where moves do not cross, the one that waits
leads to a folder whose walk up does not meet its node (`ForestInv`). "Every walk ends" is not a form
that survives a step either: `ForestInv` says instead that some parent leaves every non-empty set of
nodes, and `AcyclicIsForest` and `ForestIsAcyclic` show the two agree. The bridge is `WalkFacts`: the
walk up from a node, a recursive function over as many steps as there are nodes, is the least set that
contains it and the parents of its members. Its proof unfolds the recursion (`WalkExists`, `WalkIs`)
and counts: a set that grew at each step would have more nodes than there are. The induction is by the
least member of a set of naturals (`Induction`), since the theorems of the library take a predicate.

`Pages` is about real tables: 35 queries, 26 changes, their keys and payloads. What the proofs need
of them is one predicate, `Tidy`, shown of each change by name (`EachChangeIsTidy`): a change that
touches a query of its own page leaves that page or invalidates a key above the query; the one whose
answer is cached has it read again first of all; what acts on a row of a list shows that list, stays,
and is disabled while pending, the two revocations of keys apart. A page or a mutation added later is
one more case of that lemma, and it fails where an `onSuccess` forgets a key. Above it,
`OwnChangesAreShown` takes where every request stands (`RequestInv`: its keys, that it waits only
for a reading, which change is its own), and what is still to come for a change already told
(`ShownInv`): a reading in flight that sees it, or a key or a page left in a follow-up.
`NothingIsAskedTwice` takes, besides, that what waits for a reading has the button disabled
(`AskInv`). Types need that changes are counted moves (`CountInv`).

What stays with TLC: the liveness properties (`PendingIsSettled`, `AnsweredIsCommitted`,
`TabsConverge`, `EnablingSettles`, `BatchesSettle`, `SavingSettles`), since neither fairness nor
ENABLED is in the prover's reach; and the runs that show a violation. Every other property of a
passing run is a theorem.

## 4. What disagrees with the code's own words

Three runs end in a violation of something the repository says of itself; `findings` quotes the line
and the behaviour: the failure of a superseded generation run, a request answered and never
committed, dead push rows that are never pruned.

The models have other behaviours that the code's words do not announce. No run is kept for them:

* PDFs of a former source stay in a container: a re-upload commits between a job's last look at the
  row and the job's commit, which takes no lock (`conversion.py:110`).
  `.kiro/specs/mscz-pdf-export/requirements.md:115` says that "only the latest generation's PDFs
  SHALL be stored", the design's Property 5 the same. `NoStaleOutputs` says that this window is the
  only one.
* Objects outlive their container, against `requirements.md:123`: those of PDFs a job commits after
  the deletion has listed what to tag (`files.py:220`), and those of a run whose commit is refused,
  because the container is gone or another run's PDFs have the names (`conversion.py:143`).
  `OutputsAccountedFor` says that these are the only ones.
* When S3 refuses a deletion the rows stay, some of their objects tagged to expire (`files.py:219`),
  against `requirements.md:124`. `LiveRowsServable` is about runs without a fault.
* `ingest_notification` calls retries safe (`membership.py:256`), but a late one that was sent first
  makes a refunded membership count again (`membership.py:293`), and gives a corrected adhesion its
  former date (`membership.py:365`).
* `processing` never times out once its process died (`conversion.py:77`), where
  `.kiro/specs/mscz-pdf-export/requirements.md:103` promises it.
* Deleting a container leaves the rows of its PDFs without parent (`crud/base.py:65`).
* A selector that names an ended session, with two others live, makes the browser a guest
  (`utils/auth.py:222` says it must not).
* Two preference switches clicked one after the other: the second undoes the first
  (`notificationsSection.tsx:35`).
* Two crossing moves of folders make a cycle, and the breadcrumb then walks for ever
  (`files.py:127`).
* "Ecraser" clicked after the browser's back button overwrites in the folder the page is on by then
  (`use-batch-upload.ts:82`); a folder overwritten by a file leaves its children without parent, and
  nothing at all when S3 refuses the file (`files.py:89`).
* The form of a profile carries the preferences "through unchanged" from the profile it first saw
  (`adminForm.tsx:61`), and puts back what changed since.

The properties that hold name what they leave out, which is where these behaviours are: moves that
cross (`crossed`), an account whose creation died half way (`cutShort`), a page that left its folder
(`left`), an event loop that waits for ever (`hung`), calls of `login_with_code` that overlap, and
faults.

## 5. Not modelled

What statistics, suggestions, calendars, templates and filters compute, logging, start-up and
configuration, the tables of permissions, tests and infrastructure. Signatures of webhooks, hashing
and entropy of tokens, the bytes of emails and PDFs. The database's failures: a transaction commits
or the process dies. The clock: it is monotonic, where the code's naive `datetime.now()` relies on
UTC containers. In the client: layout and animation, the pages of invitations, unsubscription and
recovery, the check for a new version, suggestions of tags, the contents of forms, the conversion of
JSON. Other members' changes to what a page shows: nothing tells the page of them before it reads
again.

## 6. The plan

In this order, the most consequential first.

1. **Invitation**, with `Recovery`'s tokens: invite, code with its cooldown, proof of the address,
   acceptance, and the page that leads through it. Properties: a code proves only the address it
   was sent to; an invitation is accepted once; a failed email does not lock the invited out for
   ever. Theorem: an account is only created for a proven address.
2. **Passwords**: login with rehash, set password, age of a session, keys and passkey handles.
   Properties: a password set stays set; a revoked key is refused.
3. **Messages of an event**: recipients and tokens read once, sending after the answer, failures of
   one address, a restart. Property: without a failure every member is told once.
4. **MailingSync**: difference and its application while members change. Abstract specification: a
   list that equals the group some time after the last change. Liveness under the scheduler's
   fairness.
5. Proofs left in what is modelled: `Membership` against an abstract table of who is a member of
   which season.
6. Composition: `EventLoop`'s lock discipline instantiated by `FileTree`'s routes.
