# HotPl8 in TLA+

HotPl8 watches the usage limits of several Claude and Codex subscriptions, shows them, and - if asked
to - acts: it switches the Claude account in use, opens five-hour windows before they are needed, tests
sign-ins that stopped being tested, admits Codex sessions to an account and moves them. It has no server
and no database. A compiled program (`native/src`), PowerShell commands (`src/*.ps1`), a bridge inside T3
(`src/t3-codex.mjs`) and a release runner (`delivery/`) run as separate processes, started by timers,
hooks and people, and meet in small JSON files guarded by two lock files. What is hard about it is not
in any one function: it is what happens when these processes overlap, die, or act on what they read
seconds ago; and that the same facts are worked out in several places by code that must agree.

Paths below are relative to the repository's root. `PROJECT.json` lists every component with what is
modelled of it, every hazard at its line with the properties that cover it, and for every definition
that models code the lines it models.

## The system

### Shared state

| file | written by | read by |
|---|---|---|
| `policy.json`, `policy.previous.json` | commands (`src/management.ps1`, `src/parking.ps1`) | everything |
| `automation-pause.json` | `hotpl8 pause` and `resume` (`src/management.ps1:148`) | the pause (`native/src/pause.rs`) |
| `automation-leases.json` | agents, through `src/leases.ps1` | the pause |
| `hold.json` | placed by hand or by older tools | switching (`native/src/automation.rs:110`) |
| `parked.json` | parking, enrollment | enrollment, unpark |
| `attempt-budget.json`, `warm-outcomes.json`, `warm-state.json` | a wake, around each request it sends | the next wake |
| `critical-*.json`, `collector.json`, `status.json`, `codex-state.json` | a wake | the next wake, every display, admission |
| `current.json`, `transaction.json`, `previous.json`, `rejected.json` | the release runner | the runner, every command |
| `tick.lock` | held by a wake for all its length, by writers for one write | |
| `action-control.lock` | held for an instant: to read settings, to take the last look, to write | |

### Components

* **Agent pause ledger and pause in force** (`src/leases.ps1`, `native/src/pause.rs`). Agents acquire
  and release leases by UUID; an entry outlives its lease by 24 hours so that a repeated or late request
  finds out what became of the first. Written by one program and validated by another. Hard: late and
  reordered requests with a clock read before the lock, boundary instants, a full ledger. Correct: pauses
  last exactly as promised, a release sticks, the reader never refuses what the writer saved, what a caller
  is told is so.
* **Control boundary** (`native/src/control.rs`, `src/provider-actions.ps1`). An actor reads the settings
  under a name of their exact bytes, works for seconds, and takes one last look under the lock; the act
  itself runs after it. Correct: nothing is admitted but under the settings of that moment; a command that
  turned automation off and answered is obeyed by wakes at once; edits do not undo each other; locks come free.
* **Wake** (`native/src/wake.rs`, `native/src/claude_tick.rs`): collects every provider, decides, acts,
  writes the snapshot. One at a time.
* **Warming and probing** (`native/src/claude_tick.rs:459-610`, `native/src/warming.rs`,
  `native/src/automation.rs`): each costs a real request. Hard: a death around the request, files that
  cannot be read for a moment, a UTC date that changes. Correct: no duplicate, no more than the daily limit, a floor
  between attempts, dead sign-ins left alone.
* **Collection schedule** (`native/src/collection.rs`, `native/src/wake.rs`): due times and backoff in
  `collector.json`, which is written after the snapshot. Correct: waits are kept across deaths, a
  subscription seen at two providers counts once, what answers again is shown again.
* **Codex collection** (`native/src/codex_collect.rs`, `codex_read.rs`, `process.rs`): one time budget for
  all homes, oldest attempt first; each read is a conversation with a program that may do anything, for
  whoever is signed in when it is asked. Correct: every home is asked again and again, what is kept of a
  home is true of one subscription, answers are not taken for one another, nothing is left running.
* **Codex admission and launch** (`native/src/route.rs`, `native/src/launch.rs`): not excluded by wakes.
  Correct: the sign-in handed out is the one decided on, an answer comes in time, "unavailable" is true.
* **Policy writers, parking and enrollment** (`src/management.ps1`, `src/parking.ps1`): two files, saved
  one after the other. Correct: no account is ever in neither, and settings survive a stay in the car park.
* **T3 Codex bridge** (`src/t3-codex.mjs`): one native Codex process, many threads, a process-wide
  account that may only change between turns, waiters that continue a conversation that hit its limit.
  Hard: every await. Correct: no account change under running work; the owner's own message always cancels
  a continue; a held continue is not forgotten.
* **Selection and critical mode** (`native/src/decision.rs`, `critical.rs`, `claude.rs`): pure, with
  hysteresis and dwell across wakes, and a memory written after the switch.
* **Delivery** (`delivery/runner.py`, `native/src/door.rs`, `watch.rs`): transactions around one pointer.
  Correct: what is in force can read the state and is in place; nothing interrupted passes for healthy.
* **Pure rules**: capacity and refills (`capacity.rs`), kept readings (`observation.rs`, `contract.rs`),
  permissions (`decision.rs`), phases (`phase.rs`), policies (`policy.rs`, `registry.rs`), and below them a
  runtime that has to be PowerShell's to the last digit (`num.rs`, `time.rs`, `ps.rs`, `json.rs`).
* **Presentation** (`overview.rs`, `agent.rs`, `dashboard.rs`, `tray.rs`, the wake's report): each works
  out from the snapshot, by code of its own, what is said of an account. Correct: they say the same.
* **Front door** (`door.rs`, `main.rs`, `hotpl8.ps1`, `src/native.ps1`): the same words may reach the
  compiled program at once or through PowerShell. Correct: they ask for the same.
* **Automatic continue**, **onboarding jobs**, **installation**: not modelled, see the end.

## Modules

| module | models | run | theorems |
|---|---|---|---|
| `LeaseContract` | what an agent is promised about an ID, whatever keeps it | `leases` | |
| `Leases` | the ledger, its reader, the person's pause; implements `LeaseContract` | `leases` | `LeasesProofs` |
| `ControlGate` | settings, both locks, wakes, admissions, policy and pause writers | `control`, `control_locks` | `ControlGateProofs` |
| `ClaudeWarming` | the files that remember requests, and the wakes that send them | `warming` | `ClaudeWarmingProofs` |
| `Parking` | park, unpark, enroll over `policy.json` and `parked.json` | `accounts` | `ParkingProofs` |
| `CodexBridge` | the T3 bridge: queue, admissions, account, waiters, native Codex around it | `bridge` | `CodexBridgeProofs` |
| `Collection` | due times, backoff, the two files of a wake, duplicate subscriptions | `collection` | `CollectionProofs` |
| `Selection` | ranking, retention, critical mode and its file, the switch | `selection` | `SelectionProofs` |
| `CodexQueue` | which homes one collection reads, and for how long | `apart`, `queue_starved` | |
| `CodexHomes` | what is kept of a home while its sign-in, plan and windows change | `accounts` | `ParkingProofs` |
| `CodexAdmission` | one admission with its budget, re-decided as it reads | `codex_admission` | `CodexAdmissionProofs` |
| `CodexWire` | one read of one home: asker, reader thread, program, lock | `codex_admission` | `CodexAdmissionProofs` |
| `CodexProgram` | which program is found, and its output cut into lines | `rules` | |
| `Delivery` | the runner with its transaction, commands and dashboards | `apart` | `LeasesProofs` |
| `Insights` | samples and forecasts, the activity record, the collector's health | `accounts` | `ParkingProofs` |
| `Permission` | what any actor may do with which account | `rules` | `SelectionProofs` |
| `Readings`, `Pool`, `Phases` | pure rules | `rules` | |
| `Decimals`, `Instants`, `Values` | the runtime's numbers, times and values | `rules` | |
| `Settings`, `Json` | policies and provider definitions; JSON read and written | `rules` | |
| `Views`, `Report`, `Notices`, `Frame` | what the displays, the wake and the tray say; what fits a window | `rules` | |
| `Handover` | command lines, from the user to the program that answers | `rules` | |

`MCAccounts`, `MCApart` and `MCCodexAdmission` put parts that share no state side by side, each by itself:
`part` is chosen at the start and only that part moves. They do not compose anything; they save runs.
`MCRules` makes one input of one rule, or one document of `MCDocuments`, which it instantiates, a state, so that
an invariant is a statement about every input of a bounded set. The other `MC` modules hold symmetry and orders.

A proof module may be about several components of one side of the system that share no state: an agent's ledger and
the releases (`LeasesProofs`), the accounts that are parked, the homes that are read and what is told of both
(`ParkingProofs`), the choice
of an account and the permission to act on it (`SelectionProofs`), an admission and the read it makes
(`CodexAdmissionProofs`). It extends them all, which is why their variables and specifications have names of their own.

Operators commented "Slip:" are mistakes a person could make in the definition below them; `PROJECT.json`
lists for every property at least one under which TLC finds it violated.

### Leases

`Acquire` and `Release` are `Invoke-Hotpl8LeaseAcquire` and `Invoke-Hotpl8LeaseRelease` from the read of
the ledger to its replacement. One request is one step because it holds `tick.lock` for that whole time
and the file is replaced whole. What is *not* one step is the request's clock: `agent-api.ps1:73` reads
it before the lock is asked for, so a request carries any instant of the last `MaxDelay`. With requests
that may come at any time from any caller, this covers retries, late and abandoned requests, and requests
that overtake each other. `TurnedAway` is a lock that is busy or a ledger that cannot be trusted, `Share`
another program that holds a file open, and a save may always fail. `ValidEntry` and `Pause` are the
compiled reader's, translated from Rust, not from the writer. `Longest` is the longest lease
(`leases.ps1:66`, 1440 minutes); the reader refuses longer ones.

`LeaseContract` knows nothing of entries or owners: an ID is free, held until a fixed end, or over, and
becomes free only after its retention. `KeepsContract` is the refinement.

### ControlGate

`files` is what the generation names. An actor goes `snapshot`, `reread` (the files are named before and
after the policy is read), `look` or a native read, then for each thing it means to do `authorize` (the
generation compared), `decide` (pause and hold as they are now), `act`. The lock is held from `authorize` to
the end of `decide` and never during `act`. A writer goes `write` (takes `tick.lock` without waiting),
`publish` (waits for `action-control.lock`), `save`, `replace`. A pause is any instant, set by commands and
by leases alike. What accounts say is any choice: the model allows every action the settings do not forbid.
A process may die anywhere (`Die`), and waits for a lock end after a second (`GiveUp`). `PlaceHold` takes
no lock, as the real one does not.

Two different guarantees come out of this, and the difference is the point: the last look alone makes
`AdmittedUnderControl` true, but an act runs after the look, so `WakesObeyAtOnce` needs `tick.lock`, and
does not hold of admissions, which do not take it ("A change after authorization governs the next action",
`src/provider-actions.ps1:3`).

### ClaudeWarming

Each write of a wake is a step: the attempt is counted, the receipt saved as requested, the request sent,
the answer saved, the marks saved; `Die` may come between any two, and stands for a failing write of the
first four too, which ends the wake. `SaveMarks` may fail silently, as `Marks::save` does. `Fragile` names
the files another program may keep from being read for a moment: `read_or_null` then yields nothing. Who
has his turn (work hours, phases, exclusions, the control boundary) is any choice, so the properties
hold whatever the schedule. History variables remember what was really sent: `due`, `asked`, `warmedAt`,
`tests`. `lost` names accounts whose last request may not have been written down - the two properties that
rest on the marks alone say nothing of these, and `DuplicatesSuppressed` and the daily limit, which rest on
the receipts and the budget, make no such exception. `Slack` is the five minutes by which a window may end later than
its length after the request and still be taken for the one it opened (`warming.rs:57`).

### Parking

Every read and write of either file is a step of its own, so that another command, an edit or a death may come in
between. Saving the policy compares hashes; two saves cannot mix because both take `tick.lock`, so each is
one step. `Retry` is `Invoke-Hotpl8ParkRetry` starting over. Enrolling makes one edit and then
looks for a record of the slot, or of the same subscription from another slot (`Matching`). Identities
are sometimes unknown, and a slot may have changed hands since its record was made, which is what `ParkedAsChosen` is
about besides what a record keeps: an account that returns takes no record known to be another subscription's. Edits
of settings come at any time.

### CodexBridge

The bridge is one event loop, so what matters is where it awaits. `serial` is its promise queue, and `stage` says
at which await the first job is: `Dispatch` and `Resume` run up to the first, `HearConfig`, `Select`,
`BrokerAnswers`, `HearLogin` settle the next ones, and `Admit` or `Fail` run to the end. A promise that is
ready runs before any event (`Ready`). `routing` is the other queue, of validations: an admission abandons a
background one (`Observe`) but waits for its login, and a background one behind an admission is skipped.
`waiters` says of each thread what became of its continue: asked for, queued (`due`), held, asked for again.

Native Codex handles a request when it is sent and answers in order through `inbox`; as answers may stay
there for any time, this loses nothing. It answers a turn/start before it announces the turn, as
`tests/test-t3-codex.mjs:134` has it. `running` and `account` are the truth the bridge only hears of, and the
properties about the account are stated on these. Turns carry no id: native has one turn per thread at a time
and reports in order, so the comparison at `t3-codex.mjs:364` always succeeds; a follow-up's
model and directory are those of its thread. Left out: requests that time out, closing,
`thread/status/changed`, token refreshes, and the messages that change no state here (approvals,
steering, interrupts, rejected methods).

`AccountKept` names the one exception it makes (`Unannounced`): a turn that native has answered for - or
begun for a follow-up forwarded as the last turn ended - and not yet announced holds no reservation and is not
active, and an account change can fall into that gap.

### Collection, CodexQueue, CodexHomes

`Collection` has the wake's memory next to the two files it saves one after the other (`Publish`, `Record`),
so a death between them leaves a snapshot newer than the schedule. Waits are kept as what is left of them;
the backoff is `FirstDelay` doubled per failure up to `LongestDelay`. The code stops counting at ten
failures, and 300 seconds doubled that often exceed half an hour long before: that is `FailureAssumption`,
which says that the count stops no earlier than the delay does. Registered providers are the keys of a map,
hence distinct.

`CodexQueue` is the order of homes and one collection's time. `QueueTakesTurns` is what the order gives: nobody is
passed over twice for the same, every home is asked again and again, and one that answers quickly is read again and
again unless what the others leave it stays too short for ever (`CutShort`). What the comment at
`codex_collect.rs:281` claims, `EveryoneRead`, has no such exception, and is violated. What a home's answer is worth is left to
`CodexHomes`, which has one conversation of two questions with `SignIn` and `ChangePlan` between any two
of them. A reset is told a little differently by every sign-in, and two that are no more than `Near` apart are one
(`Agree`; 5 s in the code, `codex_collect.rs:81`). `Confirm` is how long a reset has to stay that near (30 s). One account
whose sign-in changes often enough between readings could move it there in small steps: `Steady` says
that as many sign-ins as there are do not come to `Confirm` together, which with the code's numbers is up to three changes
of the sign-in. Where it fails (`Length = 4`, `Confirm = 3`, `MaxTime = 3`, `MaxUpsets = 3`) TLC shows such a drift.
`forced_workspace` and the naming of identities are taken as the pair of answers they come from.

### CodexAdmission, CodexWire, CodexProgram

One request (`route`) chooses on what is shown, reads the home chosen, judges and chooses again; `Step` is
the next thing it does, everything else is what happens beside it, at most `MaxUpsets` times. `route.rs` keeps a home
that was read and refused as a row that no decision takes, which is a home set aside here; a home whose account nobody
knows has no row (`Considered`). Time is spent
by reads and by waiting for homes that are `held`. `UnavailableTrue` is of
requests that find neither hold nor control changed when they are answered, and leaves out a token's refresh,
which has one account to ask for (`ToldUnavailable`).

`CodexWire` runs four things at once: the one that asks, the thread that reads the program's lines, the
program, which may print anything, and the owner of the home's lock. Elapsed time does not count the stop
(up to 300 ms and a second more). A program that closes its output and stays is told as "process_exited".
A grandchild that keeps the output open is not modelled. The channel's eight places are one place, a long
line is one over `LineLimit`. `CodexProgram` cuts the output into lines; the limit counts characters.
`ReadTruly` is of answers and of the lock: what is told is what was answered to this read's own questions, and
the home stays locked for as long as the program can touch it.

### Selection

`reading` says of each account what is left, whether its week is low, and whether it is fresh. A wake
proposes (`Wake`), looks again and switches (`Switch`), and saves what critical mode remembers (`Save`);
`Observe` changes readings between wakes, `Interfere` is the owner switching or holding. Only the
preference order is modelled of the policy's orders, capacity conversions are not, and a tie is broken by
the place in the order (the code: by the slot's name). That a name comes once in `prefer` and that
`reserve` is part of it is checked at `policy.rs:173-188`.

### Delivery

Each file the runner replaces is a step, and it may die between any two (`Die`). Releases are numbered as
main brings them; an `Advancing` one writes state that older ones cannot read. `places` are the releases
that are in place, `receipts` those whose digest was written after the move: a death between the two
strands a release, which `Followed` names. Files are replaced as Windows does: a release that something
holds open is not pruned. Downloads, signatures, previews, the T3 release and what the adapters do inside
a step are not modelled.

### Insights

Three kinds of variation, one at a time (`varies`): the use of an account, the account in use, what becomes
of a collection. A unit is half an hour for the samples and minutes for the wakes. History is switched on;
there is one stream, whose rows are a set ordered by time (`Later`): no two are of one instant unless a cycle ended in
it, and then the newer cycle's is the later. An account is read steadily, for the history the model keeps beside
it, if it is read in every unit of its cycle; after two spacings of that it must have a rate of the last hours, as long
as none of its samples can have grown too old, which is a spacing less than those hours. A wake that dies after it
noted a change notes it again: at least once, not once; and the record keeps the newest events only, so a change is lost to
later ones and to nothing else.
A clock set back and the merging of several providers' events are not modelled.

### The pure rules

`Readings` takes a truth - how a window is used and when it was reset since - and asks what a kept reading
says of it later. `Pool` sums windows as shares and projects the next refill, compared with a pool that is
looked at in every later instant. `Permission` adds one restraint to any context and compares. `Phases` compares
turns minute by minute; a share of less than about five minutes at the end of the cycle is rounded to the
cycle's beginning, which is why `Apart` speaks of shares longer than a turn and a step.
`Decimals` are compared with fractions, `Instants` with day-by-day counting (recursive, so only TLC uses
these), `Values` with exact fractions and with all permutations of a list. Texts have a few characters, "~"
stands for all beyond ASCII; a "+" before a number is not modelled.

`Settings` accepts or refuses a policy, with at most two places changed from four that are right;
`Honoured` says that an accepted one is one every part of the program can use, `Migrated` that a migration
keeps what it meant. Letter case of field names and the normalisation of paths are not modelled. `Json`
is over tokens: depth 2 where the code has 20, doubles that few digits write exactly. `-0.0` is refused by
PowerShell 7 when read (`Tidy`), texts that begin `/Date(` in either (`Fileable`).

### What is said

`Views` works out of one snapshot what the overview, the agent's answer, the dashboard's row and the tray's
line say of two accounts, each as its own code does, at three moments after the reading. `Report` does the
same with what a wake reports beside what it did. `Notices` is the tray's announcements over up to four
looks, and the accounts offered for parking. `Frame` has the dashboard's rows as kinds and its words as
widths, with the real sizes (48 by 17, Tall 32, Widest 110) and a failed collection's row under the Codex heading; motion, colours and sprites are not modelled.
In `Views` one margin stands for several, critical mode is off and the first eligible account is preferred;
in `Report` the limits of `Models` are always ranked on, and permission and outcomes are given.
`Handover` follows a command line through `hotpl8.ps1`, `native.ps1`, `door.rs` and `main.rs`; how
PowerShell binds parameters is external and modelled for words spelled whole.

## Runs

`tlc -workers 2 -config <cfg> <module>` for each row; each ends within five minutes. Symmetry is used only
where no liveness is checked.

| run (`cfg`) | shows | bounds, and why they are enough |
|---|---|---|
| `leases` (`MCLeases`) | the ledger stays valid, pauses are exact, releases stick, answers are true, the contract is kept | three IDs and room for two, so that a newcomer meets a full ledger of leases or of tombstones; lengths 1 and 2, retention 2, requests up to 1 late, 4 instants: a lease is granted, ends, is released late, outlives its retention, is granted again |
| `control` (module `ControlGate`, `MCControlGate.cfg`) | nothing is admitted but under the settings of that moment, wakes obey at once, no edit is lost | 1 wake, 1 admission, 2 savers, 1 pauser, 2 instants: the shortest violations need one actor and one writer, the lost edit two savers |
| `control_locks` (module `ControlGate`, `MCControlGateLocks.cfg`) | locks come free | no pauser, clock stopped: locks do not depend on either |
| `warming` (module `ClaudeWarming`, `MCClaudeWarming.cfg`) | requests are neither duplicated, nor over the limit, nor hammered | 1 account that can hold either of 2 subscriptions, days of 4, windows of 3, limit 2, 5 instants: a day ends, a window ends, a sign-in changes. A wake treats accounts one after the other; any number of them is covered by the proofs |
| `bridge` (`MCCodexBridge`) | account changes and continues against owners, sub-agents, compactions, background validations and refused logins | 2 conversations, a sub-agent of one (held continues need a second conversation to go wrong), 2 accounts, 2 jobs queued when another arrives, 2 messages unread when native speaks up: replies, an announcement and a completion can all be on their way at once. `Refused` leaves continues out, see below |
| `collection` (`MCCollection`) | waits are kept, capacity counts once, providers recover | 2 providers and 2 subscriptions (a duplicate needs two), delays 1, 2, 3 and two failures counted, so that the doubling meets its limit |
| `selection` (`MCSelection`) | dwell, good choices, coming to rest | 2 work accounts and a reserve; what is left counts 0 to 3 with every threshold at a place of its own |
| `accounts` (`MCAccounts`) | three parts apart: parking; a home's record; wakes and forecasts | one command at a time over 2 slots and 2 subscriptions that change places; one home, two sign-ins, two plans, windows of 6, resets told by up to 1 apart and confirmed by 5 (`Steady` holds), windows and plans changing in turn and not together, since neither says anything of the other; seven instants and one mishap, cycles longer than that but for surprises, last hours of 7, so that samples are kept and dropped (eight and nine instants, and a cap of 3, were tried by hand) |
| `apart` (`MCApart`) | two parts apart: the queue; delivery | 3 homes of which one is sound, a budget of 10 that two slow homes can use up or leave one unit of, which is too short for a quick answer (`Lengths` 4 and 5), or nothing (7); 3 releases of which the second advances the state, nothing kept for long |
| `queue_starved` (module `CodexQueue`, `CodexQueue.cfg`) | **a violation**: a home that answers quickly is never read, see disagreement 6 | the shortest fleet that does it: two slow homes take nine of ten, the sound one is left one and needs two |
| `codex_admission` (`MCCodexAdmission`) | two parts apart: an admission; a read | 2 homes and 2 subscriptions, every kind of request, one change beside it at any moment, a pause too (only work nobody waits for ends by it), and a hold from the start only where no home is held; one read with room for one line and one odd line |
| `rules` (`MCRules`) | every pure rule over every input of a small set, and documents with every single oddity | limits scaled down until they are met: numbers of two digits, whole numbers of a few bits, windows of 2 to 6 units, 3 accounts; 4 policies with two changes, definitions with two, JSON with one token put in, left out or exchanged; two accounts each read in every way; command lines of a few words; terminals of several sizes |

`CHECK_DEADLOCK FALSE` stands where a bound or a calculation ends the behaviour: `leases` and `accounts`
(bounded counters), `codex_admission` (a read is over) and `rules`. Every other run checks for deadlock.

### Fairness

No process has to begin of itself, except where the program starts it on a timer; nothing has to go wrong,
and what a person or another program does is never required.

* `ControlGate`: weak, of what a process does *once it has begun*. Every program that is run has a time
  limit (`native/src/process.rs`), every wait for a lock ends within a second (`control.rs:22`,
  `provider-actions.ps1:13`), the rest is straight-line code.
* `Collection`: weak of the wake's own steps - the scheduler starts one every minute, every read has a time
  limit - and strong of time, which is not always enabled because it does not pass during a wake.
* `CodexQueue`: strong of starting, reading and saving: collections follow each other, and not each of
  them dies before it has saved.
* `Selection`: strong of waking and of time, weak of a wake's steps.
* `CodexAdmission`: weak of the program that answers. `CodexWire`: weak of the asker, the thread and time;
  none of the program that is asked.
* `Delivery`: strong of the runner (started again and again, may die; weak fairness would let it die each
  time just before it acts), weak of commands that run and of dashboards.

### Disagreements with what the repository says

The sixth is a run of its own, `queue_starved`. The other runs exclude each of the rest by one constant or one
conjunct; put back, TLC finds it.

1. **An unreadable `warm-outcomes.json` counts as empty** when the wake starts, while the check before the
   request looks at the file anew; if it can be read by then, a duplicate goes out. `docs/operations.md:105`
   says that pending receipts suppress duplicates. `MCClaudeWarming.cfg` with `Fragile = {"receipts"}`.
2. **An unreadable `attempt-budget.json` starts the day's counts over** if it happens between the check,
   which stops on it, and the count, which does not (`docs/operations.md:101`). `Fragile = {"budget"}`,
   `INVARIANT BudgetKept`.
3. **Two parks at once can forget an account.** `parking.ps1:119` says a crash leaves "never an account
   that was forgotten", and one command at a time keeps that promise. But the second of two commands can
   read the policy while the first is between its two saves, and drops the record the first has just made.
   `MCAccounts.cfg` with `Parkers = {c, d}`.
4. **A continue can be sent into running work**, which `tests/test-t3-codex.mjs:617` says never happens:
   `resume` looks at `active` before two awaits and not after them. `MCCodexBridge` with
   `Threads = {one}`, `Host <- Alone`, `Refused = {}`, `Woken = {}`, no symmetry, `PROPERTY ContinueIntoIdle`
   (the other constants as in `MCCodexBridge.cfg`).
5. **A refused continue can strand another.** When native refuses the `turn/start` of a continue and no
   other work is left, `resume` drops its reservation without `drained()` (`t3-codex.mjs:474`), and another
   conversation's held continue waits for a message that may never come. `Refused = {"login", "continue"}`.
6. **A slow fleet can starve its last account**, against the comment at `codex_collect.rs:281`. Homes
   tried in one collection share an attempt time and so keep their order among themselves: the one that
   comes last gets, each time, only what the slow ones before it leave of the budget, runs out of time,
   counts as tried, and is last again. Run `queue_starved`, a finding in `PROJECT.json`.
7. **Critical mode is also left when its accounts can no longer be read or are empty** (`critical.rs:68-71`);
   `docs/capacity.md:58` says that it exits only after a fresh reading above the exit threshold.
   `MCSelection.cfg` with `PROPERTY LeftByReading`.
8. **The dwell time does not survive a death between the switch and the save** (`claude_tick.rs:394`):
   `PROPERTY DwellKeptThroughDeaths`.
9. **A reserve account can be taken while a work account is above its margin**, if the floor of critical
   mode is above the ordinary margin: no check of a policy compares the two (`critical.rs:48` compares the
   floor with the entry threshold only), and `docs/architecture.md:28` keeps reserve accounts behind work
   accounts. `MCSelection.cfg` with `Margin = 1`, `Floor = 2`, `Enter = 2`, `Exit = 3`, `PROPERTY TakenWell`.

Smaller ones, seen while modelling: a single recent event can be shown nowhere at a height of 32 and more
when the compact list replaces an overflowing one (`dashboard.rs:1201` says it "must appear somewhere");
no chip is ever the quietest, so CRITICAL is dropped before "next" (`dashboard.rs:1118`); `native.ps1` drops
a single empty word after `--`; `modelReason` (`claude_tick.rs:862`) is never given; an account opened 11 to
14 minutes into its turn is within `warmPhaseWindowMin` and called off-phase (`claude_tick.rs:775`); "held
for phase" can be said of an account just asked, and "warming next tick" of one that is paused, excluded or
out of budget; "No eligible Codex account" stands until the next collection though a window has rolled over;
an announcement is repeated if the tray dies between the balloon and its record; a free-plan account may be
offered for parking as canceled while it is eligible; "Provider does not support warming." (`policy.rs:94`)
cannot be reached; a sub-agent's failure that the bridge first has to ask native about starts a waiter although the
owner may have written meanwhile. Where the displays differ by design - the tray's EXHAUSTED looks at what
remained and not at a rollover (`tray.rs:64`), the overview deduplicates by a stale first account, the agent
honours `maxUsageAgeS` and the others 900 seconds - `Views` says so beside the property.

## Proofs

`tlapm <module>` checks every obligation of each module below, from the named assumptions on the constants
alone; nothing is taken on trust. Each theorem holds for any number of accounts, processes, IDs or threads
and any length of the times, where a run has two or three. A hypothesis of a theorem that is not an assumption of
the module is named in its row: each but `Steady`, which is about how often somebody signs in, is one of the disagreements above, and TLC shows that
without it the property fails. 27 of the 37 theorems are about a property that a run
checks. `TimeIsKept` and `DashboardsNotGivenUp` are the safety halves of two that also speak of liveness. The
others, a `TypeCorrect` in each module, say that every reachable state has its type, and for
`ClaudeWarming`, `Parking`, `CodexBridge` and `CodexAdmission` also that every process is at a place it can be in.
The type invariants are in no cfg: the theorems say more.

| module | theorem | says | hypothesis |
|---|---|---|---|
| `LeasesProofs` | `LedgerAlwaysAccepted` | the reader never refuses what the writer saved | |
| | `ReleasesStick` | a release is remembered for the whole retention | |
| | `PausesAreExact` | automation is paused exactly while somebody is owed a pause | |
| | `AnswersAreTrue` | what a caller was told was true when it was said | |
| | `LedgerKeepsContract` | every step of the ledger is a step or a stutter of the contract | |
| | `InForceStaysUsable` | whatever dies in an update, what is in force reads the state, is in place, and passes for healthy only if it is | |
| | `DashboardsNotGivenUp` | no dashboard is closed on its way to a release in force | |
| `ControlGateProofs` | `AlwaysAdmittedUnderControl` | nothing is admitted but under the settings of that moment | |
| | `WakesAlwaysObey` | no wake acts after automation was turned off | |
| | `EditsNeverLost` | no save of the policy undoes another edit | |
| `ClaudeWarmingProofs` | `RequestsSpared` | never more requests a day than the limit, never within the floor | `"budget" \notin Fragile` (2) |
| | `WarmedOnce` | no second request to open the same window | `"receipts" \notin Fragile` (1) |
| | `SpentSignInsRest` | a sign-in that failed its tests is left alone | |
| `ParkingProofs` | `NobodyForgotten` | every account someone minds is enrolled or parked | one command at a time (3) |
| | `ParkedWithItsSettings` | an account leaves the policy only with its settings kept, and takes none known to be another's | one command at a time (3) |
| | `HomesToldTruly` | what is recorded of a home is true of the account signed in to it | `Steady`, see CodexHomes |
| | `InsightsAreTrue` | health, pace, recent rate and changes are told as they are, whichever write failed | |
| `CodexAdmissionProofs` | `HandsOutTrue` | a sign-in handed out is of the subscription recorded at that moment, and was read for a session | |
| | `UnavailableIsTrue` | "unavailable" is said only if no account that was read, and none that never was, could serve | |
| | `TimeIsKept` | an admission stays within its time, whatever reads and waits take | |
| | `ReadsTruly` | a read tells what its program answered to its own questions, under the home's lock | |
| `CodexBridgeProofs` | `ContinuedOnce` | at most one continue for a failure, none after the owner wrote | |
| | `AccountUndisturbed` | native's account does not change under a turn, but for the gap `Unannounced` names | |
| | `HeldNotForgotten` | a held continue always has work left whose end wakes it | `"continue" \notin Refused` (5) |
| `CollectionProofs` | `CapacityCountedOnce` | two providers are not both offered for one subscription | |
| | `WaitsAlwaysKept` | waits are neither cut short nor drawn out, and double up to the longest | |
| `SelectionProofs` | `DwellAlwaysKept` | critical mode stays with an account for the dwell time | (upsets and deaths excluded by the property, 8) |
| | `BestTaken` | what is switched to is eligible, and no reserve while a work account is above its margin | `Floor <= Margin` (9) |
| | `PermissionIsRestrained` | nothing against acting opens a way, a hold moves nobody, an ambiguous account is not acted on | (of any rows and settings: `TypeOfInputs`) |

### How they go

None of the properties is inductive: each speaks of what really happened, while the next step depends on
what some file or some process remembers of it. The inductive invariants say how the two are tied.

* `Leases`: `IInv` ties promises to entries - a live entry is the promise made, no other promise outlives its
  expiry, a release comes with a retention that covers it. `WritingKeepsSubject` does the work for the three
  things a step can write; every step is then shown to write one of them (`Kind`). For the answers,
  `BInv` bounds every lease by the longest from now, which is what makes "wait that long" sufficient,
  and `PauseCovers` puts each lease in force below the end of the pause. The refinement follows from `Kind`.
* `Delivery`: `DeliveryInv` says for each step of an update what it knows (`Known`): a transaction is open while
  anything changes and not before; what is to come is newer than what is in force, in place, and reads the state;
  what the transaction would go back to was healthy; no command runs once they have been waited for, so none
  is left running what is replaced, or writes state that what comes back could not read.
* `ControlGate`: `Holds` says which lock is held where; from it, `PolicyStands` - what an actor knows is still
  in force, for wakes all along, for admissions while they hold the gate - then `MayStill`, that a wake may
  still do what it was admitted to, and `DraftGrows`, that a draft has every edit of the policy it expects.
  Two processes at places that need one lock are one process: every case of one's step against the other's
  place ends there.
* `ClaudeWarming`: `BudgetInv` (the file counts every request sent and the one on its way, no later day is
  in it than today), `FloorInv` (marks on disk and in memory are no older than the last request, unless it
  is the one pending or was lost), `ReceiptInv` (a receipt lasts as long as what it was written for, and a
  wake's copy is the file's), `DeadInv` (the marks count every failed test of the sign-in held now). The
  one with a division, `Day`, rests on a lemma about days alone. Deaths are why a request counts before it is sent.
* `Parking`: `ParkInv` says for each place of a parking command what its memory still shares with the files:
  the accounts the same, the settings no later than now; `EnrollInv` that records are dropped only of those
  enrolled or restored, and that a record taken for a known account is not known to be another's. One step of another command at the wrong place breaks `ParkInv`, hence the hypothesis.
* `CodexHomes`: `HomesInv` follows a fact from the service through the conversation into the file. A window is
  never further away than its length, and one that has not begun exactly that far (`LimitsRead`), which is what lets
  the record tell the two apart later; sign-ins only get newer, so one that is the same before and
  after is who answered (`BeforeInv`, `AccountRead`); plans told are plans that subscription has had. Where the windows of
  two sign-ins are taken for one, `Drift` bounds by how often somebody signed in how far a begun window may be told from
  where it began (`DriftBounded`), and `Steady` keeps that below what confirms one.
* `Insights`: `HealthInv` says of which wake the file tells and of which the snapshot, and that the file is behind the
  snapshot only when a last write was lost. `RecordedAt` points at the event that a change shown stands for, and
  moves with the record. `SteadyInv` has a sample no older than a spacing for every time an account was read steadily, while that
  may still be asked for: rows of a cycle are a spacing apart (`Spaced`), so those later than one of the last hours are
  fewer than the cap (`FewLater`, an injection into the spacings), and no sample needed is dropped
  (`RowsKept`); three of them then give a rate (`SteadyHasRate`). The property was first stated for all
  accounts read for three spacings, and held in the small run only: with more time TLC found the oldest sample needed
  gone from the window. What is stated now is what the code keeps.
* `CodexAdmission`: while the settings stay, `TriedInv` counts every pass of the decision by the homes tried, so
  that a request that has used all its passes has been everywhere, and what was not tried is as it was shown;
  `ChosenInv` has what was validated be of the subscription the home was known for; `TimeInv` is the time.
* `CodexWire`: as many answers have been taken as questions asked (`TurnInv`), each for its own; a reader that has
  ended while it is listened to told of a line too long, or its program is gone; the lock outlives the program.
* `Permission`: `PermissionIsRestrained` is of one decision, not of behaviours. Which account is meant does not
  depend on anything that speaks against acting (`TargetStays`); a bound account is one row, and no other row is of
  its subscription (`BoundAlone`, by counting); a reason is none only if each of them is (`NoReason`).
* `CodexBridge`: messages not yet read are part of what will be known. `Live` reads the unread messages to
  their end, and `AnnounceInv` says that what comes out is what is running; `CountInv` that a thread's reservations
  are the unread answers to it; `StageInv` that a job waits only for what can come. `WaiterInv` has every
  waiter behind an unanswered failure, and exactly one unsent job behind a waiter that is due. `HeldInv` has, for each
  held continue, work going on or a message that will set it going; its second part, `Followed`, is what
  a refused continue breaks. The two queues need lemmas of their own about appending, removing the head
  and filtering (`TailFacts` and around it).
* `Collection`: `WaitInv` relates the schedule in the wake's memory to the file it began with, provider by
  provider, done or to come; the doubling needs the table `Doublings` and `FailureAssumption`.
  `CapacityInv` adds to the property that what is kept of a home is what it holds, once shown.
* `Selection`: every `CHOOSE` of the decision is first shown to find what it looks for: `LeastOf` and
  `GreatestOf`, from the well-foundedness of the naturals, instead of an induction over accounts. `DwellInv`: while nothing
  upsets it, the remembered selection is no older than the last move. `Aimed`: a wake that switches leaves the
  account it decided for. What a switch may take then follows from the ranking, `ProposedIs`, in each mode.

The assumptions on constants are what the code checks or fixes: thresholds in order
(`critical.rs`, `ThresholdsAssumption`), an account named once and the reserve a part of it
(`policy.rs:173-188`, `AccountsAssumption`), leases no longer than the longest (`leases.ps1:66`), processes
of different kinds distinct, a failure count that stops no sooner than the delay does (300 s doubled ten times
is past half an hour, `FailureAssumption`), an order that names a home once and times of which a token's refresh has the
shorter (`route.rs`, `HomesAssumption`, `TimesAssumption`), a plan that is neither empty nor "unknown"
(`HomesConstants`), at least one release (`ReleasesAssumption`), last hours that the stored weeks and the cap on rows can
hold (`forecast.rs:57,93,116`, `InsightsAssumption`). TLC evaluates all of them in the runs.

### What is only model-checked

* Liveness: `LocksComeFree`, `Recovers`, `Settles`, `QueueTakesTurns`, `DeliveredInTheEnd`, `ReadEnds` and
  `AnsweredInTime`. The prover has neither `ENABLED` nor fairness. Of `AnsweredInTime` the time is proved
  (`TimeIsKept`), of `DeliveredInTheEnd` that no dashboard is given up; the rest of them is liveness.
* Rules and documents (`RuntimeExact`, `CapacityTrue`, `TurnsApart`, `PolicyHonoured`, `TextsKept`, `ViewsAgree`):
  they compare a calculation with a reference that is recursive, folds over data or divides, and the
  prover can neither unfold `RECURSIVE` operators nor do induction over data.
* The safety half of `QueueTakesTurns`: what a home's place in the queue becomes is a filter of a sequence
  (`SelectSeq`), about which nothing can be proved without induction over it.

## What could follow

Every safety invariant of a behaviour that a run checks is proved; the rules and documents are checked over bounded
inputs. What would say more:

1. Refinements: an admission as one atomic choice of a home that could serve, a park as one atomic move of an account
   between the two files. `CodexAdmissionProofs` and `ParkingProofs` have the invariants they would rest on.
2. The queue of homes and the pure rules, with lemmas on filters and folds, once a prover for induction is at hand.
3. Two providers' events merged into one record, and a clock set back, in `Insights`.

## Not modelled, and why

* **Automatic continue** (`continue.ps1`): a script that waits, reads what others wrote and starts a
  program once; the bridge's side of a continue is in `CodexBridge`.
* **Onboarding jobs** (`src/onboarding.ps1` and its worker): a process with a progress file, one at a time.
* **Installation and packaging**: one-time scripts of system calls.
* In part: recovering `policy.previous.json`; the bridge's time limits, closing, token refreshes and
  `thread/status/changed`; upkeep after a wake; plans, offline replay and the wording of texts; how a double is
  rounded to a text; hashes (taken as names of what they hash); a clock set back; drawing, motion and colours;
  downloads, signatures, previews and the T3 release in delivery; how PowerShell binds parameters.
