# ClikCode in TLA+

ClikCode is a command-line harness in front of other vendors' coding agents.
Every conversation is run by a process of its own, the *session worker*; any
number of windows (terminals, the VS Code panel) attach to it over a socket,
and all processes share one state on disk. This directory holds TLA+ models of
the parts where concurrency decides whether a message is lost, sent twice or
never answered, the configurations TLC checks them with, and proofs about them
checked by TLAPS. Paths below are relative to `src/src/` unless they begin
with `docs/`.

## The system

| Component | State it keeps | Operations | What must hold |
| --- | --- | --- | --- |
| File lock, `session/store/locks.ts` | the lock file and its owner, its age, tickets of a line, `.breaking` | take, refresh, break a stale one, release | one live process inside; a fresh lock is never taken; the line is kept; waiters are served |
| State store, `session/state/` | the index: chats, settings, accounts; a baseline per working copy | read, change a copy, write (merge with disk) | no change of another process lost, deletes stay, what is remembered as stored is |
| Transcripts and chat logs, `session/store/` | one log per chat, shared histories | append, rewrite, delete, materialize | a listed chat can be read; a torn write loses only its tail |
| Turn journal and live input, `turn/turn-journal.ts`, `turn/live-input.ts` | the turn's copy of its chat, the queue in it, the messages steered in | submit, steer, send now, take back, save, complete | a message is in one place; none dropped, doubled or overtaken; every one is answered |
| Session worker, `worker/` | the running turn, Stop flags, submits in flight, notifications, idle timer | submit, drain the queue, Stop, attach, retire, shut down | one turn at a time; a Stop stops its own turn; nothing owed is lost when the process goes |
| Registry, `worker/registry.ts` | one record, socket and owner file per conversation | take, judge an owner dead, hand over, remove | one live worker per conversation |
| Reset wait, `worker/resume-wait.ts` | a turn parked until a quota resets | park, cancel, send | sent once, by this worker or its successor |
| Failover, `turn/failover.ts`, `turn/account-*.ts` | accounts tried, evidence against them | attempt, judge, switch | no account twice; the turn ends |
| Vendor transports, `harness/transport/` | vendor processes, JSON-RPC requests | prompt, steer, cancel, close | every request is answered or rejected once |
| Windows, `worker/broadcast-observer.ts`, `ide/`, `tui/`, `remote/` | what is on screen | draw, echo, reconnect | nothing shown twice or out of order |
| Agent loop, `agent/` | a model conversation, shells, sub-agents | step, call tools | notifications reach the model |

They interact in these ways. A window sends commands to the worker; the worker
starts one turn, whose journal saves through the state store, which takes the
file lock; the queue on disk is the meeting point of the worker, windows and
other processes; the vendor answers offers, ends or ignores an abort; background
shells end at any time; a newer build or a signal ends the process.

What makes it hard: every handler awaits files, so the state it read is old
when it goes on; a turn holds a copy of its chat for minutes while other
processes write; processes die between two file operations; timers race the
answers they wait for. The list is in `PROJECT.json` under "hazards", each at
its line, with the properties that would catch it.

## The modules

| Module | Models | Checked by | Proved in |
| --- | --- | --- | --- |
| `Mutex` | what a lock promises | as a property of `FileLock` and `Registry` | `FileLockProofs`, `RegistryProofs` |
| `FileLock` | `locks.ts` | `MCFileLock` | `FileLockProofs` |
| `LiveInput` | `live-input.ts`, `turn-journal.ts`, the queue part of `merge.ts`, the worker's steer, send-queued and unqueue | `MCLiveInput` | `LiveInputProofs`, `PlaceProofs` |
| `SessionWorker` | `worker-queue.ts`, `worker-turn.ts`, `worker-live-commands.ts`, `worker-commands.ts`, `worker-idle.ts`, `worker-shutdown.ts` | `MCSessionWorker` | `SessionWorkerProofs` |
| `Store` | what the state store promises | as a property of `StateStore` | `PromiseProofs` |
| `Transcripts` | `chat-log.ts`, `transcripts.ts`: append, rewrite, three-way merge | in `StateStore` | `TranscriptProofs` |
| `StateStore` | `session/state/`, `session/store/`: read, write, merge, checkpoints | `MCStateStore` | `StateStoreProofs`, `PromiseProofs` |
| `Registry` | `registry.ts`, `client.ts`, and the start, shutdown and fallback of `session-worker.ts`, `worker-shutdown.ts`, `scripted-send.ts` | `MCRegistry` | `RegistryProofs` |

### FileLock

`pc[p]` is where a process is in `holdFileLock` and `breakStaleLock`, one label
per file operation: `line`, `create`, `read`, `judge`, then a breaker's turn
`mark`, `stat`, `reread`, `still`, `rename`, `check`, `unmark`, then `leave`,
`hold`, `unlink`. A file is named by who created it and in which round, which
stands for both the nonce in it and its inode: a lock that is linked back keeps
both. Age is a mark (`lockAged`, `markerAged`, `ticketAged`) that time may put
on any file nobody refreshes; a holder refreshes its lock until it is
`overdue`. A process can see that another is dead only on its own host and pid
namespace (`Place`). `Crash` leaves every file as it is. A ticket's name is
the wall clock's millisecond, the pid as a string and a random part, and the
names order the line: `Earlier` is where a new name may come, which is anywhere
in the line, or after everybody if `SameClock`. `found` and `passed` remember
who was waiting before and behind that name when it was drawn.

Assumed: one contender per process, which the in-process queue in front of the
lock ensures; a live waiter and a live breaker are done with a step well within
`staleMs` (30 s against milliseconds).

### LiveInput

The saved queue is on disk (`diskQ`, `diskFlag`); the running turn has the copy
it read (`memQ`, `memFlag`) and the set it last agreed on with disk (`base`),
and every save is `Merged`: what the turn removed is removed, what it added is
added, the rest stays as the disk has it. The broker runs one job at a time
(`tail`, `at`, `item`); the journal's saves are a chain (`writes`), and a
take-back enters that chain without waiting for the broker's jobs. `answer` is
what the window that typed a message was told, `back` the messages that are the
user's again, `ran` those whose own turn claimed them. Node runs the
continuation of something already settled before the next event: `Urgent`
states that, and the other steps wait for it.

How a turn ends. `Finish` is the attempt's end, after what it hands back is
queued; `Complete` and `SaveEnd` are the record of an answered turn. An attempt
that is left, answered or not, flushes its journal on the way (`Unwinds`,
`SaveFlush`: every save asked for by then is over, and nothing is written if
nothing changed); a turn a Stop ends by force does not (`Break`, `HardStops`):
its attempt, its broker and its port go on until `finalizeTurn`. A stopped or
failed turn is then settled through other copies of the state: its steers are
counted (`Count`), flagged messages read off the queue and taken out
(`ReadHeld`, `ReturnHeld`), the turn kept or deleted (`Discard`), a failed
queued turn consumed (`Consume`). `EndTurn` waits for the submissions and for
nothing else. A delivery may be under way, and the journal may still have saves
to make, of a take-back or a delivery: with `Lingers` they go into `late` and
are made beside the next turn (`LateSave`), which drops from the queue what the
old copy took out, and may put back its pending turn.

### SessionWorker

An action is what a handler does between two awaits. `turn` is how far the
running turn is: `starting` (what it waits for first), `running`, `saving` (the
vendor's work is over), `settling` (it was stopped or failed), `closing`
(`finalizeTurn` after its first await). `sub[p]` is a submit's place in
`handleSubmit`; `drain` is the place in `drainQueue`; `recording` holds the
notifications that were taken off the list and are not in the queue yet;
`retire` and `idleWait` are decisions that wait to hear what the vendor runs.
What a turn does inside is `LiveInput`'s: here it claims its entry, works, is
saved, and its queued messages arrive by `SubmitQueues`.

The constant `May` names what else may happen: a throw the runner did not
foresee, a signal, a hard Stop slower than the turn it ends (`slowStop`), a turn
that starts under a Stop of background work (`bgStopInTurn`), a turn that fits
into one read of the state (`slowRead`).

### StateStore

Every process edits a `copy` of the state it read; `base` is what that copy was
last known to agree with on disk, and a write stores the difference. The disk is
`index` (title and queue of each listed chat) and one `log` per chat. A log is
`[gen, msgs, tail]`: `gen` is new whenever the file is written whole, which is
what the code's remembered byte offset depends on, and `tail` is a record a
crash left without its newline. A base keeps where its messages stand in the log
(`at`), so an append of what is new and the three-way merge are told apart as
`storeTranscript` tells them apart. `write[c]` is where copy `c` is in
`writeState`: its own transcripts on their chat's lock (`own`, `store`), then
under the state lock the transcripts of new chats (`files`), the index, the logs
of deleted chats (`purge`), the new base, and what had to be left for `later`.
An edit may come at any of these steps. A step that only looks at a copy, which
no other process can see, is taken with the shared step it precedes. The two
locks are `FileLock`'s, used as `Mutex` promises them.

`Store` is the same thing without copies, files or locks: items are made, are
stored once, leave the disk only when somebody took them out, and never come
back. `ImplementsStore` maps the disk to it: `here` is what a reader finds,
`gone` is what was once stored and is not there.

### Registry

The owner file, its `.breaking`, the socket, the record and the handoff request
are each named by the process that made them: nonces, tokens and inodes are made
once in a process's life. `pc[p]` is where a process is: taking the conversation
(`take` to `unmark`, the owner file's create, read, judge, ask and break),
starting (`probe`, `unlink`, `listen`), open, stopping, over; a client's labels
follow `attachExisting`, `attach` and `spawnSessionWorker`. `Place` is the
machine: whether there are two is chosen at the start, and a process that is
elsewhere is judged by the age of its file alone. A worker that hangs
(`hung`: a stuck loop, a suspended process, a sleeping laptop) does nothing and
refreshes nothing, and its socket is still connected to. With `Suspends`, so
does a script, and a worker that starts or stops, while it has the conversation.
`At` is being somewhere and not hung. Refreshing is not a step: a file ages
(`OwnerAges`) only when nobody refreshes it, and `Wake` refreshes it first.

## What the runs show

| Run | Instance | Shows |
| --- | --- | --- |
| `FileLockSafety` | 4 processes on two hosts, 2 rounds each, crashes | `MutualExclusion`, `OneBreaker`, `FreshLockKept`, `OwnLockRemoved`, the inductive `LockInv`, and that the lock implements `Mutex` |
| `FileLockLine` | 3 processes, a fair lock, any clocks, overstays, breakers that die | `LineOrder`, and `WaiterServed`: every live waiter comes to hold |
| `FileLockStaleMarker` | 4 processes of one host, breakers may die | finding: a fresh lock is taken |
| `LiveInputSafety` | 2 messages, 2 turns, an Enter or a window's opening when the broker has no job | `OnePlace`, `NothingDropped`, `BackIsBack`, `OldestFirst`, `RunOnce` |
| `LiveInputFaults` | 1 message, 2 turns, failed and late saves, forced Stops | `SubmitAnswered`, `TakeBackAnswered` |
| `LiveInputOwed` | 2 messages, 2 turns | finding: a marked message runs alone |
| `SessionWorkerTurns` | 2 prompts, a shell, 2 Stops, a throw, a signal | `CancelledWasStopped`, `StopFlagOwned`, `AgentsHeldFirst`, `PendingStopKept`, `StoppedQueueWaits`, `LeavesFree` |
| `SessionWorkerStops` | 1 prompt, a shell, 2 Stops | `StopAnswered` |
| `SessionWorkerStranded` | 2 prompts | finding: a queued message nobody sends |
| `SessionWorkerNotes` | 2 prompts, a shell | finding: a notification is lost when the worker is replaced |
| `StateStore` | 2 copies, 1 chat that is made, 3 edits, 1 removal, 1 crash or failed write, 3 opens | `ListedIsReadable`, `RememberedWasStored`, `NoneTwice`, `OrphanIsOwed`, `WriteStores`, and that the files implement `Store` |
| `Registry` | 2 workers, a window, a script, two machines or one, 1 crash, 1 hang of a worker | `OneRunner` (it implements `Mutex`), `OthersKept`, `FoundIsListening`, `CleanExit`, the inductive `RegistryInv` |

Why the bounds are enough. A lock's hazards need a holder, two breakers and one
who takes the lock between them: four processes, and a second round so that a
file of an earlier round can be confused with a later one. In `LiveInput` two
messages are what order and confusion need, and the second turn is the one a
message of the first could wrongly reach. Submits, and the delivery a port
begins with, queue behind the running job; another Enter or window's opening
(`MaxJobs`) behind one job as well was checked by hand (3.9 million states). In `SessionWorker` two prompts give a
turn and what waits behind it, two Stops a Stop and its repetition. In
`StateStore` a stale merge needs two copies, a message from each and one that
was there before; the third open is a copy that reads what both left. The run
was widened by hand, with the same result: one listed chat (1.3 million states),
two chats with one removal (0.5 million) and two (2.3 million), and one chat
with two removals (2.9 million). In `Registry` a successor, the worker it
follows and a script that runs in its own process are the three that can meet
at the owner file, and a window is who replaces a worker; three workers, a
window and a script on one machine were checked by hand (5.2 million states).
Deadlock
checking is off everywhere: the processes have asked as often as they may, or
the worker is gone, and then nothing is left to do.

Fairness. `FileLock`: each live process goes on, and time passes; a holder
finishes or becomes overdue, and an overdue one may stay for ever. A ticket that
is named before a waiter's only delays it: each process arrives finitely often
(`MaxRounds`), and with clocks that are behind for ever and ever new arrivals
nothing bounds the wait. `LiveInput`: the broker, the chain of saves and the
turn's own steps go on, and the vendor's way of taking messages goes away in the
end (the attempt ends or is closed); nothing is assumed of a vendor that was
offered a message; a command's
step (`Commands`) waits for what is urgent and is then taken, however often it
waits. `SessionWorker`: the worker's own continuations run and its
timers fire; the vendor need not end a turn or honour an abort. All of these are
promises and timers of one event loop. `StateStore` and `Registry` are checked
for safety only: their waiting is the file lock's and a poll with a deadline,
and nothing makes a process write or a worker leave.

Where the passing runs are restricted, and what happens without it:

- `ArrivalOrder` ("a fair lock is taken in arrival order",
  `session/store/locks.ts:284`) holds only if names follow arrival
  (`SameClock`). They are made of a clock's milliseconds, a pid and chance
  (`locks.ts:255`): in the same millisecond, or by a clock that is behind, a
  later arrival passes a waiter, and `ArrivalOrder` fails on the instance of
  `FileLockLine`, which asks for the line as its names order it.
- `LiveInputSafety` has no turn that starts under a take-back
  (`Overlaps = FALSE`), no save that outlives its turn (`Lingers = FALSE`), no
  Stop that ends a turn by force (`HardStops = FALSE`) and no failed save
  (`SavesFail = FALSE`). The code has all four, and each breaks something, as
  TLC shows when that constant of the run is changed:
  - `Overlaps`: a take-back without a live turn reads and writes the saved queue
    (`worker/worker-live-commands.ts:64-68`); a turn that begins between the two
    has a copy with the message in it and claims it. `BackIsBack` fails.
  - `Lingers`: a take-back is done in the turn's copy and its save waits in the
    journal's chain; `finalizeTurn` (`worker/worker-turn.ts:126`) waits for the
    submissions only, the next turn reads the queue and claims the message, and
    then the take-back answers `removed`. `BackIsBack` fails, though "a message
    is never both taken back and put into the turn"
    (`worker/worker-live-commands.ts:57-58`), and so does `NothingDropped`;
    `OnePlace` holds.
  - `HardStops`: the attempt and the broker go on while the turn is settled. A
    message recorded after the steers were counted (`worker/worker-turn.ts:61`)
    and before the turn is discarded (`:68`) is deleted with it, though "a steer
    the turn recorded is the user's words already part of it" (`:59-60`):
    `NothingDropped` fails. One that is being recorded while the flagged messages
    are read is handed back as well: `BackIsBack` fails. `OnePlace` holds, and
    fails with `Lingers` too: a delivery whose save outlives such a turn is
    recorded in it and claimed by the next.
  - `SavesFail`: `remove()` is not undone, so a take-back answered with an error
    is dropped by the next save (`NothingDropped`), and `steer()` is not undone,
    so a message the vendor took is queued too (`OnePlace`), and can be taken
    back from there (`BackIsBack`).
- `CancelledWasStopped` fails with `slowStop`: `hardStop` calls the `forceStop`
  there is by the time the vendor is closed, which may be the next turn's.
- `StopFlagOwned` and `AgentsHeldFirst` fail with `bgStopInTurn`: a Stop of
  background work leaves its flag to the turn that starts meanwhile, whose first
  Stop then is not held back for its sub-agents.
- `StoppedQueueWaits` fails with `slowRead`: a drain that began to read the
  queue before a turn goes on after that turn was stopped, and sends what waits
  behind it.
- `heldReason` lists a queued message the worker is about to send
  (`queuedUserTurn`). The flag is set and cleared within one synchronous step of
  `drainQueue`, so no check ever sees it and the model leaves it out.
- `ImplementsStore` and `NoneTwice` are checked with history undone only by a
  copy that has seen all of it (`StaleUndo = FALSE`; `SeesAll`: the copy's base
  is the log, nobody else has undone anything, and nobody is storing what was
  undone). Without that `ImplementsStore` fails in 15 steps: two copies
  add a message each, the log holds both, the second copy's base holds its own
  alone; it undoes its message, its base is not a prefix of the log any more,
  and `mergeTranscripts` takes its copy whole: the first one's message goes,
  though "messages the writer never saw are never silently dropped"
  (`session/store/transcripts.ts:143-145`). It takes a rewind in a window while
  another process writes to the same chat.
- `OrphanIsOwed` leaves a chat alone that a live copy knows of: a transcript
  that was left for later is written even when its chat was deleted meanwhile
  (`session/state/write.ts:174-191`), and stays until that copy's next write.
- `OneRunner` and `OthersKept` are checked with nobody but a serving worker
  hanging (`Suspends = FALSE`): the socket is asked only of an owner of kind
  `worker` (`worker/registry.ts:293-297`), so a suspended script's file is
  broken by age while it lives, a worker takes the conversation, and the script
  goes on beside it when it is resumed, though the code says of the two "exactly
  one at a time" (`worker/registry.ts:202-204`). So is that of a worker that
  does not listen yet or any more. With `Suspends = TRUE` the run violates
  `OneRunner`. Further, with workers that do not hang past the limit with
  another machine looking on (`LongHangs = FALSE`), and do not come round and
  leave between being found stalled and having their socket tried (`LateReach =
  FALSE`). With long hangs the other machine takes the conversation of a worker
  that wakes up again; age is all it can go by. With a late reach a process
  finds a live worker's file aged, the worker wakes, is told to leave and closes
  its socket, the process finds nobody there and breaks the file without judging
  it again in its turn (`worker/registry.ts:334`): it takes the conversation
  while the worker is stopping, and the worker, which has looked at the file
  already, removes what the new owner put there. The file lock's own
  `breakStaleLock` call judges a second time (`session/store/locks.ts`), which
  is what its proof rests on.

## Findings

Four runs end in a violation that contradicts a comment of the code; the
details, with the lines quoted, are in `PROJECT.json`.

1. `FreshLockKept`: `breakStaleLock` removes an aged `.breaking` by path
   (`session/store/locks.ts:134`); two processes that saw it aged clear it one
   after the other, the second clears a live breaker's, two breakers are in turn
   and a fresh lock is taken. It needs a breaker that died in its turn.
2. `MarkedNotRunAlone`: a message that reaches the queue after
   `takeUnsentHeldSteers` has read it (`worker/worker-turn.ts:37`) runs by itself
   after a failed turn.
3. `NotStranded`: `handleSubmit` adds a message to the queue
   (`worker/worker-queue.ts:140-149`) after the drain that would have sent it.
4. `NotesKept`: `deliverNotifications` (`worker/worker-queue.ts:28`) holds the
   worker by nothing while it records what it took.

## What is proved

`FileLockProofs` proves, for any set of processes, places and rounds, and for
fair and unfair locks: `LockTypes`, the types, without further assumptions; and
for holders that stay within `maxHoldMs` and processes that do not die in their
breaking turn (`~Overstays`, `~BreakersCrash`): `LockExcludes`
(`MutualExclusion`), `FreshLockStays`, `ReleaseOwn`, `BreakersTakeTurns`, and
`LockRefinesMutex`, that every behaviour of the files is one of `Mutex`.

The argument. Mutual exclusion is not inductive by itself: a process may create
the lock while another still holds one that was wrongly taken away. `LockInv`
says why none is. `HolderHasLock`: who holds has its own file at the path, the
file of a live process at the path is held, and an aged one has a dead owner.
`MarkerIsTurn`: being in the breaking turn and having created `.breaking` are
the same, so one breaker is there at a time. `JudgedIsStale`: what a breaker
judged has a dead owner or is no longer at the path, and from its second look
on, in its turn, it is at the path; since only the breaker in turn renames and
the owner is dead, nothing can replace it before the rename. A name, once its
owner is past creating it, is never created again (`Used`). The lemma
`LockInvStep` has one step per action. Both assumptions are necessary: without
the first two processes may be inside, which the code accepts of a stuck
holder; without the second the run `FileLockStaleMarker` violates the claim.

`LineIsKept` (`LineOrder`) needs neither assumption, nor anything of the clocks:
the order of the line is the tickets', whoever holds the lock. `LineInv` says
that only the dead let a ticket age, and that a waiter which another found ahead
of itself is still in the line with its ticket until that other may go on.
`LineIsArrivalOrder` (`ArrivalOrder`) adds `SameClock`: then nobody is passed.

`RegistryProofs` proves, for any workers, windows, scripts and machines:
`RegistryTypes`, the types, without further assumptions; and under `~LateReach`,
`~LongHangs` and `~Suspends`: `RegistryInvariant`, `OneRunnerAtATime`, that
every behaviour is one of `Mutex` with the conversation as the lock, and
`OthersAreKept`.

The argument. The owner file is the lock, but a process is found over by
reading it and looked at afterwards, so `RegistryInv` has to carry what was seen
from one step to the next. `HolderIsOwner`: who has the conversation is named by
the file at the path, from taking it to the last step of letting go, and an aged
file is a dead process's or a hung worker's. `JudgedIsOver`: an owner that was
read had the conversation, and one that is about to be broken is over for good,
so that its file can only be broken once; one that is about to be asked is over
or serves, which needs the three assumptions. `MarkerIsTurn`: who is in the
breaking turn made the marker. `ListenerAtPath`: an open server listens at the
conversation's path, so trying the socket reaches it. Most steps move one
process between labels and leave the files alone; the lemma `MovesKeepInv`
settles these at once.

`ExitIsClean` (`CleanExit`) holds without the assumptions, from
`FilesHaveMakers`: every file's maker still has it to remove, or was killed.
`FoundListens` (`FoundIsListening`) needs them: the worker that answers and the
one whose record was read both have the conversation, so they are one.

`TranscriptProofs` is about histories of any length over any messages.
`CommonPrefix` is a CHOOSE, so that there is a common prefix at all comes first
(`Least`: a set of numbers has a least one, from the library's well-foundedness
of `<`; the first place where two histories differ is such a number). From what
it returns follow `MergeKeepsBoth`, that `mergeTranscripts` keeps the messages
either side has beyond the history both started from, and `StoreKeepsBoth`, the
same for everything `storeTranscript` does: appending where the base is known to
stand, appending what a merge adds, or writing the file anew. Each speaks of a
side only if it went on from the base: a history that was cut is the case
`StaleUndo` is about. `StoreIs` says how a store leaves the log when no side has
a message twice: it appends what is new to the log and not of the base, or it
writes whole a log that has only what the log and the copy had, and then what
the copy has not undone, or nothing of the base has changed.

`StateStoreProofs` proves, for any copies, chats and bounds and without further
assumptions (`StaleUndo` included): `StoreTypes`, and `ListedChatsAreReadable`
(`ListedIsReadable`). Neither is inductive, and they need each other: a base
without messages stored as a history would not be a log. `StoreInv` has
`WriterHasLock`, one write at a time stores the index; `FilesFirst`, what it
will list has its transcript or is still among its `files`, and what it removes
is listed no more; `Unstored`, a chat no file was ever made for is known to no
base and no reader; `StoresHistories`, where a copy and its base differ both
have the chat's messages, so every store is one `StoreKeepsBoth` speaks of.
There is one lemma per action; edits, which may come anywhere, share one
(`EditKeeps`), and so do the steps that only move a write on (`GotoKeeps`).

The same module goes on from that invariant to `OrphansAreOwed`
(`OrphanIsOwed`), again without further assumptions. `OwedInv` adds what is
known of a chat, and by whom: `LetGoOf`, a closed copy and a write that is over
hold on to nothing; `MadeByOne`, a chat that has a file and is in no base is in
the write that is listing it, or was in one that failed, and a chat without a
file is in one copy only; `Removing`, what a write takes off the list it had in
its base and is to remove, and once it has removed it, a log that is there again
was stored by another copy that knows of it. The last is what the step that
remembers the new base needs: it forgets the chats that were deleted.

`StateStoreProofs` ends with `RememberedIsStored` (`RememberedWasStored`) and
`WritesStore` (`WriteStores`): what a copy thinks is stored was, and what a write
that returns was to store is. The run cannot tell why; the invariant does.
`RecordInv` follows each title, queued turn and message from the copy to the
disk. `DiskStored`, what a reader finds now was recorded. `Listing` and
`OneMaker`, a chat nobody has found yet is one copy's, and is listed by a write
that took it: so a step that stores the index changes nothing another copy
remembers. `Remembers` is about bases, the one there is and the one a write
will leave: a title or queued turn the write took is stored or is in the `next`
index (`RowNext`), and messages it took are stored, in a log that is about to be
listed, or left out because the chat's own lock has still to be taken.
`OwnStored` is what makes the last true, and would be lost if the snapshot and
the set `later` were computed at different times: a listed transcript that
differs from its base when the state lock is taken is one this write has
already stored once, so it is in `own` and is deferred. `Kept` and `AllStored`
carry the same for `WriteStores`: edits are numbered, and what a copy holds with
a number up to `upTo` is what was taken then, or is in `later`. Of a store the
proofs need `StoreHoldsNext` (`TranscriptProofs`): every message of the writer's
copy is in the log afterwards or was in its base, whichever way it was stored.

`PromiseProofs` begins with `NoMessageTwice` (`NoneTwice`), under `~StaleUndo`.
`OnceInv` says where a message can be. `Apart`: it is in the log, or in a torn
record after it, or still one copy's to say (`Unsaid`: held, or being stored,
beyond what that copy's base has), and of no two of these; `Numbered`, an edit
makes a message nobody has. So what a store appends is new to the log. What
makes this hard is what happens to the other sides meanwhile. `Snap`: what a
write took is what its copy goes on from, so remembering it as the base gives no
message back to be said again. `OneCut` and `CutStands`: at most one copy has
undone what was stored, and until that is stored the log goes on from where it
began; so the log is written whole without what was undone, and nobody appends
it again. This is where `~StaleUndo` is needed, and with it all of `SeesAll`:
two copies that undo at once, or one that undoes while another's cut is being
stored, each write the log as it was for the other. `Locked`: a log stays as it
is while a writer that holds its lock looks at it. There is one lemma per
action; most change nothing of a chat but one copy, or a place where nothing is
said (`ApartKeeps`, `OneStep`, `QuietKeeps`).

It ends with `FilesImplementStore`, also under `~StaleUndo`: `Spec =>
ImplementsStore`, that every step of the processes is a step of `Store`, whose
`here` is what a reader finds in the files. An edit is a `Make` or a
`Remove`, and changes no file. Every other step has to be a `Write` or to change
nothing a reader finds: what appears in the files was made and never stored
before, and what goes was taken out, replaced or of a deleted chat (`StepWrites`).
Two kinds of step change files a reader finds. One that writes a log
(`LogsWrite`, and `OwnWrites` for the log of a listed chat under its own lock)
adds only messages nobody stored, since they were in no log (`Apart`), and leaves
out only what the writer has undone; for that `CutHoldsNext` (`TranscriptProofs`)
says what is in the log after a copy that undid something has stored it. One
that stores the index (`StoreIndexWrites`, with `RowWrites` for a row of it)
replaces all rows at once. What is not the index (`OtherWrites`) writes such a
log or none: torn records, and logs of chats not listed, are no reader's.

`PromiseInv` is what those steps need besides `OnceInv`. It is about rows (titles
and queued turns) what `OnceInv` is about messages. `MadeWell`, `SaidWell`: what
was stored was made, and a message that is in no log yet was never in one, so
that what is undone does not come back. `RowApart`: what a copy has beyond what it
goes on from (`From`: its base, or what was stored of it in place of the base)
was never in an index, and no other copy has it. `RowWell`: a queued turn the
copy lacks of what it goes on from was dropped, a title it has not was replaced
by one of its own (`Follows`), a chat it lacks of its base was deleted, and what
is about to be stored is the merge of base, copy and index as they are now.
`Lost`: the messages of its base a copy has not were undone, so what a log
written whole leaves out was too. The invariant was checked with TLC on the
run's bounds before it was proved.

`SessionWorkerProofs` proves, for any number of prompts, background shells and
Stops: without further assumptions `WorkerTypes`, the types;
`WaitingStopIsKept`, that a Stop pressed while a submit is in flight stays until
a turn takes it, no submit is left, or a turn throws what nobody foresaw; and
`GoesWhenFree`, that a worker leaves of its own accord only when nothing holds
it. Under `Usual` (no hard Stop outlasts its turn, no turn begins under a Stop
of background work, no turn fits into one read of the state: the restrictions of
the run, listed above): `StoppedByItsStop` (`CancelledWasStopped`),
`FlagIsOwned`, `AgentsAreHeldFirst` and `StoppedQueueIsKept`.

The argument. None of the four is inductive: whether a turn that ends as
cancelled was stopped depends on flags set long before by another handler.
`StopInv` says whose each flag is: an escalation, a hard Stop and a forced end
belong to a turn whose abort was called; a Stop is kept for later only while
there is no turn to give it to; a Stop of background work is under way only
while no turn runs; a drain that is looking at the queue follows a turn nobody
stopped. `StopInvKept` has one step per action that sets or clears such a flag,
and the action properties follow from it one step at a time. `Usual` is needed:
with each of the three a run of TLC violates one of the properties.

`LiveInputProofs` proves, for any number of messages and turns and whatever
fails, is forced or overlaps: `LiveTypes` (`TypeOK`), `ClaimedOnce` (`RunOnce`)
and `OldestGoesFirst` (`OldestFirst`). Their invariant is `IInv`. `JobsShape`
and `WritesShape` tie the label of the running job and the head of the chain of
saves to what the turn and the answers say; `FreshIsNowhere`, a message not yet
submitted is in no copy; `NoTwice`, no copy has a message twice and no two jobs
submit the same one; `RanIsOver`, what a turn claimed is in no copy a later turn
will read: not on disk, or leaving it with the save that is asked for;
`InOrder`, what a job is about to offer has nothing marked ahead of it in the
turn's copy. The queues are sequences, and most of a step is what it does to one:
`Without` is a recursive function and not `SelectSeq`, so that what it keeps, and
in which order (`WithoutIs`, `WithoutKeeps`), and what a merge stores
(`StoreIs`), can be proved by induction on its index.

`LateShape` says what the journals of turns that ended still have: at most one
of them answers a given take-back, which nobody else answers, and none knows a
message that was not submitted; so a late save takes nothing a turn has claimed
back to the queue.

`PlaceProofs` goes on from there under `~SavesFail` and `~Lingers`.
`MessageInOnePlace` (`OnePlace`) needs no more: forced Stops and turns that
begin under a take-back are included. `Placed` says of a message that is in the
turn, or is being put there, that it is in no queue the turn will save, and of
one that a turn of its own claimed, that it is in no turn.

`NothingIsDropped` (`NothingDropped`) adds `~HardStops`. `SavePays` says what a
save stores: all that the turn's copy has and the disk has not. `Settled` says
why a turn may be deleted: once the attempt is over nothing is being recorded,
the turn on disk is the one in memory, and the count that decides is of these.
`Owed`: what the turn's copy still has to store, or has taken off, is on its way
through the chain; `ToldSafe`: a message a window was told of, or is about to be
told of, is covered by one of these.

`TakenBackIsNotRun` (`BackIsBack`) adds `~Overlaps`. `Waited`: a take-back that
is being saved is in the chain, which the turn's end waits for. `Given`: what was
given back, or is about to be, is in no turn, no queue on disk and no copy that
may still offer it; what a copy still has of it the next save takes out, since
the copy read it from the disk (`base`). Each assumption is needed: without any
one of them TLC violates the property, as listed above.

Only model-checked: every liveness property (`WaiterServed`,
`SubmitAnswered`, `TakeBackAnswered`, `StopAnswered`), since fairness and
ENABLED are out of the prover's reach; and the four findings, which are
counterexamples. What a recursive definition computes for every input is
proved only for `Without`, whose step the library's well-foundedness reaches.

## What is not modelled

Everything listed `not_modelled` in `PROJECT.json`, with its reason. In the
modelled parts:

- Turns and the worker: a save is one step, and so is the read and write of each
  settling step; a read does not fail; a turn that goes on under another
  provider and ends its first record on the way (`turn/vendor-turn.ts:106-116`);
  the journal's text and timed checkpoints, one of which the row of a failure
  may leave to be written in the next turn, notes ClikCode
  sends to the model, commands in the queue, approvals, the reset wait and
  wakeups, a held vendor and the idle close of a vendor, cache pings, `durable`
  notifications.
- The store: the journal of a turn in progress (`pendingTurn`), the old
  one-file-per-chat format, drafts and blank chats, settings other than a title,
  secrets, accounts and invocations, reads that leave transcripts out, two
  overlapping writes of one state object, a failure after a file has landed
  (syncing it, removing a deleted chat's log), loss of power, the sweep of
  temporary files, a lock file without an owner.
- The registry: breaking a stale file is as fine as `FileLock` has it only up to
  the rename, an old marker is cleared in one step; the limit of 50 tries, an
  owner file that cannot be parsed or is lost, a process id used again, `.open`
  files, a record written again by a worker that runs, a signal or a handoff
  before the record is written, deleting the conversation, the shutdown's
  ceiling (it ends as a crash does). That closing a server removes its path is
  Node's and taken as given. `scripted-send.ts:123-129` tells its own queued
  message by its text and takes it back when the worker dies; a worker killed
  after it began that message, and before the script heard of it, has it sent a
  second time: `WorkerGone` has the step, and no property of `Registry` counts
  sends.

## Plan

1. `ChatLog`: the journal of a turn in progress beside the torn tail, shared
   histories.
2. `ResetWait` and `Failover`. What to look for in the wait: `look` sets no
   timer while a drain is under way, and at a worker's start and a turn's end
   nobody looks again; a wait is taken off the chat by a worker that is shutting
   down and whose `startTurn` then refuses; a window that parks or cancels
   merges field by field with the worker that does the same.
3. `JsonRpcPeer`: pending requests, late answers, close.
4. Proofs of the invariants of these modules. Of the present ones every safety
   property a passing run checks is proved.
