------------------------------ MODULE FileLock ------------------------------
(***************************************************************************)
(* The cross-process file lock every write of shared state runs under      *)
(* (session/store/locks.ts, withFileLock).  A contender is the task at the *)
(* front of its process's in-process queue: withFileLock lets one through  *)
(* at a time.  The files are the lock itself, one ticket per waiter of a   *)
(* fair lock, the `.breaking` marker, and the copies set aside.            *)
(*                                                                         *)
(* A file is named by its creation, <<process, round>>: createLock writes  *)
(* a new nonce into a new inode, so that pair stands for both the content  *)
(* that is compared and the inode that is compared.                        *)
(*                                                                         *)
(* Time is kept as "older than staleMs" marks.  A file may be marked at    *)
(* any moment nobody refreshes it; a live holder within maxHoldMs, a live  *)
(* waiter and a live breaker are refreshed or done well within staleMs.    *)
(***************************************************************************)
EXTENDS Naturals, FiniteSets

CONSTANTS Procs,         \* the contending processes
          Place,         \* host and pid namespace of each process
          Fair,          \* whether the lock keeps a line of tickets
          MaxRounds,     \* bound: how often one process asks for the lock
          SameClock,     \* whether tickets are named in the order they are drawn
          Overstays,     \* whether a holder may stay past maxHoldMs
          BreakersCrash  \* whether a process may die in its breaking turn

ASSUME FileLockAssumption ==
         /\ MaxRounds \in Nat
         /\ Fair \in BOOLEAN
         /\ SameClock \in BOOLEAN
         /\ Overstays \in BOOLEAN
         /\ BreakersCrash \in BOOLEAN

VARIABLES
  pc,         \* where each process is in holdFileLock / breakStaleLock
  round,      \* how often each process has asked
  lock,       \* the file at lockPath, or NoFile
  lockAged,   \* whether that file is older than staleMs
  marker,     \* `.breaking`: {the process that created it}, or {}
  markerAged, \* whether `.breaking` is older than staleMs
  seen,       \* the owner each process read from the lock (observedRaw)
  judged,     \* the inode each breaker found at its turn
  aside,      \* the file each breaker renamed aside
  posted,     \* the processes whose ticket is in the line's directory
  ahead,      \* the tickets with an earlier name than each process's own
  ticketAged, \* the processes whose posted ticket is older than staleMs
  overdue,    \* the holders past maxHoldMs
  found,      \* history: the waiters in line when each process arrived whose
              \* tickets have earlier names than its own
  passed      \* history: those whose tickets have later ones

vars == <<pc, round, lock, lockAged, marker, markerAged, seen, judged,
          aside, posted, ahead, ticketAged, overdue, found, passed>>

lockVars == <<lock, lockAged>>
markVars == <<marker, markerAged>>
breakVars == <<seen, judged, aside>>
lineVars == <<posted, ahead, ticketAged, found, passed>>

NoFile == <<>>
Files == Procs \X Nat
Mine(p) == <<p, round[p]>>

\* Where a process stands with respect to the lock.
Judging == {"read", "judge", "mark", "clear"}
Turn    == {"stat", "reread", "still", "rename", "check", "unmark"}
Waiting == {"ticket", "line", "create"} \cup Judging \cup Turn
Holding == {"leave", "hold", "unlink"}

Alive(p) == pc[p] # "dead"
Holds(p) == pc[p] \in Holding

Init ==
  /\ pc = [p \in Procs |-> "idle"]
  /\ round = [p \in Procs |-> 0]
  /\ lock = NoFile /\ lockAged = FALSE
  /\ marker = {} /\ markerAged = FALSE
  /\ seen = [p \in Procs |-> NoFile]
  /\ judged = [p \in Procs |-> NoFile]
  /\ aside = [p \in Procs |-> NoFile]
  /\ posted = {} /\ ticketAged = {}
  /\ ahead = [p \in Procs |-> {}]
  /\ overdue = {}
  /\ found = [p \in Procs |-> {}]
  /\ passed = [p \in Procs |-> {}]

Goto(p, label) == pc' = [pc EXCEPT ![p] = label]

\* The top of holdFileLock's loop: the line first, if there is one.
Top == IF Fair THEN "line" ELSE "create"

\* What a breaking process knows is gone when it goes back to the top.
Forget(p) == /\ seen' = [seen EXCEPT ![p] = NoFile]
             /\ judged' = [judged EXCEPT ![p] = NoFile]
             /\ UNCHANGED aside

\* A place in line is gone for everyone behind it.
OutOfLine(S) == /\ posted' = posted \ S
                /\ ticketAged' = ticketAged \ S
                /\ ahead' = [q \in Procs |-> ahead[q] \ S]

\* Nobody has to wait for p any longer.
NoLongerFound(p) == /\ found' = [q \in Procs |-> found[q] \ {p}]
                    /\ passed' = [q \in Procs |-> passed[q] \ {p}]

-----------------------------------------------------------------------------
(* Staleness (lockLooksStale).  The age is the one of the file at the path *)
(* now; the owner is the one read before.                                  *)

CanSeeDead(p, q) == Place[p] = Place[q] /\ ~Alive(q)

LooksStale(p, raw) ==
  /\ lock # NoFile
  /\ lockAged \/ CanSeeDead(p, raw[1])

TicketStale(p, q) == q \in ticketAged \/ CanSeeDead(p, q)

\* Faulty variant: a held lock is never refreshed.
Refreshed_Never(f) == FALSE

\* The heartbeat keeps a held lock young for at most maxHoldMs.
Refreshed(f) ==
  /\ f = Mine(f[1])
  /\ pc[f[1]] \in Holding
  /\ f[1] \notin overdue

-----------------------------------------------------------------------------
(* Waiting: a place in line, then the lock file itself.                    *)

\* Everyone who drew a ticket and is not out of line; only those who also wrote
\* it are found in the directory.
InLine == {q \in Procs : pc[q] \in Waiting} \cup posted

\* takeTicket names a ticket by the host's clock in milliseconds, the pid and a
\* random part.  Names order the line, and a new one may come before any other:
\* drawn in one millisecond, by a clock that was set back, or on a host whose
\* clock is behind.
Earlier == IF SameClock THEN {InLine}
           ELSE {S \in SUBSET InLine : \A q \in S : ahead[q] \cap InLine \subseteq S}

Arrive(p) ==
  /\ pc[p] = "idle" /\ round[p] < MaxRounds
  /\ round' = [round EXCEPT ![p] = @ + 1]
  /\ IF Fair
     THEN /\ Goto(p, "ticket")
          /\ \E S \in Earlier :
               LET waiters == {q \in posted : pc[q] \in Waiting}
               IN /\ ahead' = [q \in Procs |-> IF q = p THEN S
                                   ELSE ahead[q] \cup {x \in {p} : q \in InLine \ S}]
                  /\ found' = [found EXCEPT ![p] = waiters \cap S]
                  /\ passed' = [passed EXCEPT ![p] = waiters \ S]
          /\ UNCHANGED <<posted, ticketAged>>
     ELSE Goto(p, "create") /\ UNCHANGED lineVars
  /\ UNCHANGED <<lockVars, markVars, breakVars, overdue>>

\* The ticket is named before it is written.
PostTicket(p) ==
  /\ pc[p] = "ticket"
  /\ posted' = posted \cup {p}
  /\ Goto(p, "line")
  /\ UNCHANGED <<round, lockVars, markVars, breakVars, ahead, ticketAged,
                 overdue, found, passed>>

\* Faulty variant: the line is not looked at.
CheckLine_Skipped(p) ==
  /\ pc[p] = "line"
  /\ Goto(p, "create")
  /\ UNCHANGED <<round, lockVars, markVars, breakVars, lineVars, overdue>>

\* firstInLine: oldest first, places of the dead are removed on the way; the
\* first one still kept ends the look.
CheckLine(p) ==
  LET names == ahead[p] \cap posted
      kept  == {q \in names : ~TicketStale(p, q)}
  IN /\ pc[p] = "line"
     /\ OutOfLine({q \in names \ kept : \A r \in kept : r \notin ahead[q]})
     /\ Goto(p, IF kept = {} THEN "create" ELSE "read")
     /\ UNCHANGED <<round, lockVars, markVars, breakVars, overdue, found, passed>>

\* Faulty variant: opened first, its owner written after.
Create_Ownerless(p) ==
  /\ pc[p] = "create"
  /\ lock = NoFile
  /\ lock' = <<p>> /\ lockAged' = FALSE
  /\ Goto(p, "leave")
  /\ UNCHANGED <<round, markVars, breakVars, lineVars, overdue>>

\* Faulty variant: written over whatever is at the path.
Create_Overwrites(p) ==
  /\ pc[p] = "create"
  /\ lock' = Mine(p) /\ lockAged' = FALSE
  /\ Goto(p, "leave")
  /\ NoLongerFound(p)
  /\ UNCHANGED <<round, markVars, breakVars, posted, ahead, ticketAged,
                 overdue>>

\* createLock: the link either makes the lock, owner included, or fails.
Create(p) ==
  /\ pc[p] = "create"
  /\ IF lock = NoFile
     THEN /\ lock' = Mine(p) /\ lockAged' = FALSE
          /\ Goto(p, "leave")
          /\ NoLongerFound(p)
     ELSE Goto(p, "read") /\ UNCHANGED <<lockVars, found, passed>>
  /\ UNCHANGED <<round, markVars, breakVars, posted, ahead, ticketAged,
                 overdue>>

Read(p) ==
  /\ pc[p] = "read"
  /\ IF lock = NoFile
     THEN Goto(p, Top) /\ UNCHANGED seen
     ELSE Goto(p, "judge") /\ seen' = [seen EXCEPT ![p] = lock]
  /\ UNCHANGED <<round, lockVars, markVars, judged, aside, lineVars, overdue>>

Judge(p) ==
  /\ pc[p] = "judge"
  /\ IF LooksStale(p, seen[p])
     THEN Goto(p, "mark") /\ UNCHANGED breakVars
     ELSE Goto(p, Top) /\ Forget(p)
  /\ UNCHANGED <<round, lockVars, markVars, lineVars, overdue>>

-----------------------------------------------------------------------------
(* breakStaleLock.                                                         *)

\* Faulty variant: the marker is not created exclusively.
Mark_NotExclusive(p) ==
  /\ pc[p] = "mark"
  /\ marker' = marker \cup {p} /\ markerAged' = FALSE
  /\ Goto(p, "stat")
  /\ UNCHANGED <<round, lockVars, breakVars, lineVars, overdue>>

\* Faulty variant: a marker left by a dead breaker is respected forever.
Mark_NeverClears(p) ==
  /\ pc[p] = "mark"
  /\ IF marker = {}
     THEN /\ marker' = {p} /\ markerAged' = FALSE
          /\ Goto(p, "stat") /\ UNCHANGED breakVars
     ELSE Goto(p, Top) /\ Forget(p) /\ UNCHANGED markVars
  /\ UNCHANGED <<round, lockVars, lineVars, overdue>>

\* One turn at a time; a marker nobody cleared for staleMs is to be removed.
Mark(p) ==
  /\ pc[p] = "mark"
  /\ IF marker = {}
     THEN /\ marker' = {p} /\ markerAged' = FALSE
          /\ Goto(p, "stat") /\ UNCHANGED breakVars
     ELSE /\ Goto(p, IF markerAged THEN "clear" ELSE Top)
          /\ Forget(p) /\ UNCHANGED markVars
  /\ UNCHANGED <<round, lockVars, lineVars, overdue>>

\* By path: whatever marker is there by now.
Clear(p) ==
  /\ pc[p] = "clear"
  /\ marker' = {} /\ markerAged' = FALSE
  /\ Goto(p, Top)
  /\ UNCHANGED <<round, lockVars, breakVars, lineVars, overdue>>

StatLock(p) ==
  /\ pc[p] = "stat"
  /\ IF lock = NoFile
     THEN Goto(p, "unmark") /\ UNCHANGED judged
     ELSE Goto(p, "reread") /\ judged' = [judged EXCEPT ![p] = lock]
  /\ UNCHANGED <<round, lockVars, markVars, seen, aside, lineVars, overdue>>

\* Faulty variant: the turn trusts what was judged before it.
Reread_Skipped(p) ==
  /\ pc[p] = "reread"
  /\ Goto(p, "still")
  /\ UNCHANGED <<round, lockVars, markVars, breakVars, lineVars, overdue>>

Reread(p) ==
  /\ pc[p] = "reread"
  /\ Goto(p, IF lock = seen[p] THEN "still" ELSE "unmark")
  /\ UNCHANGED <<round, lockVars, markVars, breakVars, lineVars, overdue>>

StillStale(p) ==
  /\ pc[p] = "still"
  /\ Goto(p, IF LooksStale(p, seen[p]) THEN "rename" ELSE "unmark")
  /\ UNCHANGED <<round, lockVars, markVars, breakVars, lineVars, overdue>>

\* By path: it takes aside whatever file is there by now.
Rename(p) ==
  /\ pc[p] = "rename"
  /\ aside' = [aside EXCEPT ![p] = lock]
  /\ lock' = NoFile /\ lockAged' = FALSE
  /\ Goto(p, IF lock = NoFile THEN "unmark" ELSE "check")
  /\ UNCHANGED <<round, markVars, seen, judged, lineVars, overdue>>

\* Another inode than the judged one is linked back, unless a lock was made
\* meanwhile; the copy aside is removed either way.  A link keeps the age:
\* it is marked again if nobody refreshes it.
CheckTaken(p) ==
  /\ pc[p] = "check"
  /\ lock' = IF aside[p] # judged[p] /\ lock = NoFile THEN aside[p] ELSE lock
  /\ aside' = [aside EXCEPT ![p] = NoFile]
  /\ Goto(p, "unmark")
  /\ UNCHANGED <<round, lockAged, markVars, seen, judged, lineVars, overdue>>

Unmark(p) ==
  /\ pc[p] = "unmark"
  /\ marker' = {} /\ markerAged' = FALSE
  /\ Goto(p, Top) /\ Forget(p)
  /\ UNCHANGED <<round, lockVars, lineVars, overdue>>

-----------------------------------------------------------------------------
(* Holding and releasing.                                                  *)

Leave(p) ==
  /\ pc[p] = "leave"
  /\ posted' = posted \ {p} /\ ticketAged' = ticketAged \ {p}
  /\ ahead' = [q \in Procs |-> IF q = p THEN {} ELSE ahead[q] \ {p}]
  /\ Goto(p, "hold")
  /\ UNCHANGED <<round, lockVars, markVars, breakVars, overdue, found, passed>>

\* run() is over: the lock is read, and removed only if it is still ours.
Release(p) ==
  /\ pc[p] = "hold"
  /\ Goto(p, IF lock = Mine(p) THEN "unlink" ELSE "idle")
  /\ overdue' = IF lock = Mine(p) THEN overdue ELSE overdue \ {p}
  /\ UNCHANGED <<round, lockVars, markVars, breakVars, lineVars>>

\* By path, after the read that found it was ours.
Unlink(p) ==
  /\ pc[p] = "unlink"
  /\ lock' = NoFile /\ lockAged' = FALSE
  /\ overdue' = overdue \ {p}
  /\ Goto(p, "idle")
  /\ UNCHANGED <<round, markVars, breakVars, lineVars>>

-----------------------------------------------------------------------------
(* Time and crashes.                                                       *)

Overstay(p) ==
  /\ Overstays /\ pc[p] = "hold" /\ p \notin overdue
  /\ overdue' = overdue \cup {p}
  /\ UNCHANGED <<pc, round, lockVars, markVars, breakVars, lineVars>>

LockAges ==
  /\ lock # NoFile /\ ~lockAged /\ ~Refreshed(lock)
  /\ lockAged' = TRUE
  /\ UNCHANGED <<pc, round, lock, markVars, breakVars, lineVars, overdue>>

MarkerAges ==
  /\ marker # {} /\ ~markerAged
  /\ \A p \in marker : pc[p] \notin Turn
  /\ markerAged' = TRUE
  /\ UNCHANGED <<pc, round, lockVars, marker, breakVars, lineVars, overdue>>

TicketAges(q) ==
  /\ q \in posted \ ticketAged /\ ~Alive(q)
  /\ ticketAged' = ticketAged \cup {q}
  /\ UNCHANGED <<pc, round, lockVars, markVars, breakVars, posted, ahead,
                 overdue, found, passed>>

\* A dead process leaves its files as they are.
Crash(p) ==
  /\ Alive(p) /\ (pc[p] \in Turn => BreakersCrash)
  /\ Goto(p, "dead")
  /\ seen' = [seen EXCEPT ![p] = NoFile]
  /\ judged' = [judged EXCEPT ![p] = NoFile]
  /\ aside' = [aside EXCEPT ![p] = NoFile]
  /\ overdue' = overdue \ {p}
  /\ NoLongerFound(p)
  /\ UNCHANGED <<round, lockVars, markVars, posted, ahead, ticketAged>>

-----------------------------------------------------------------------------

\* What a process does by itself once it asked, up to holding and after.
Step(p) ==
  \/ PostTicket(p) \/ CheckLine(p) \/ Create(p) \/ Read(p) \/ Judge(p)
  \/ Mark(p) \/ Clear(p) \/ StatLock(p) \/ Reread(p) \/ StillStale(p)
  \/ Rename(p) \/ CheckTaken(p) \/ Unmark(p) \/ Leave(p) \/ Unlink(p)

TimePasses == LockAges \/ MarkerAges \/ \E q \in Procs : TicketAges(q)

Next ==
  \/ \E p \in Procs : Step(p) \/ Arrive(p) \/ Release(p) \/ Overstay(p)
                        \/ Crash(p)
  \/ TimePasses

Spec == Init /\ [][Next]_vars

\* A holder finishes, or stays until it is no longer refreshed.
FinishOrOverstay(p) == Overstay(p) \/ (p \notin overdue /\ Release(p))

\* Every live process goes on, and time passes.  An overdue holder may never
\* finish: it is stuck.
Fairness ==
  /\ \A p \in Procs : WF_vars(Step(p)) /\ WF_vars(FinishOrOverstay(p))
  /\ WF_vars(TimePasses)

FairSpec == Spec /\ Fairness

-----------------------------------------------------------------------------
(* Properties.                                                             *)

TypeOK ==
  /\ pc \in [Procs -> {"idle", "dead"} \cup Waiting \cup Holding]
  /\ round \in [Procs -> Nat]
  /\ lock \in Files \cup {NoFile} /\ lockAged \in BOOLEAN
  /\ marker \in SUBSET Procs /\ markerAged \in BOOLEAN
  /\ seen \in [Procs -> Files \cup {NoFile}]
  /\ judged \in [Procs -> Files \cup {NoFile}]
  /\ aside \in [Procs -> Files \cup {NoFile}]
  /\ posted \in SUBSET Procs /\ ticketAged \in SUBSET Procs
  /\ overdue \in SUBSET Procs
  /\ ahead \in [Procs -> SUBSET Procs]
  /\ found \in [Procs -> SUBSET Procs]
  /\ passed \in [Procs -> SUBSET Procs]

\* "It never proceeds unlocked" (locks.ts:71): two live processes are never
\* both inside run(), so every read-merge-write is atomic.
MutualExclusion == \A p, q \in Procs : Holds(p) /\ Holds(q) => p = q

\* The lock implements the abstract one: nobody comes in before the last one
\* is out or dead.
Abstract == INSTANCE Mutex WITH holder <- {p \in Procs : Holds(p)}
ImplementsMutex == Abstract!Spec

\* "Breakers take turns" (locks.ts:118): one process at a time is between
\* creating `.breaking` and removing it.
OneBreaker ==
  \A p, q \in Procs : pc[p] \in Turn /\ pc[q] \in Turn => p = q

\* "Removes a stale lock without ever removing a fresh one" (locks.ts:114):
\* no rename takes the lock of a process that is alive, holds it and keeps
\* it fresh.
FreshLockKept ==
  [][\A p \in Procs : pc[p] = "rename" /\ pc'[p] = "check"
                        => ~Refreshed(lock)]_vars

\* "Only ever remove our own lock" (locks.ts:347): the release of one
\* process never removes the file of another.
OwnLockRemoved ==
  [][\A p \in Procs : pc[p] = "unlink" /\ pc'[p] = "idle"
                        => lock \in {Mine(p), NoFile}]_vars

\* The line is kept (firstInLine, locks.ts:260-275): a process that holds has
\* nobody alive left of those it found in line with an earlier name, whatever
\* clock named them.
LineOrder == \A p \in Procs : Holds(p) => found[p] = {}

\* "A fair lock is taken in arrival order" (locks.ts:284), "No live waiter
\* arrived before" (locks.ts:262): a process that holds has nobody alive left
\* of the line it found on arrival.
ArrivalOrder == \A p \in Procs : Holds(p) => found[p] \cup passed[p] = {}

\* A waiter is served: dead and stuck holders, dead waiters and dead breakers
\* never stall it forever (locks.ts:62-71).
WaiterServed ==
  \A p \in Procs : pc[p] \in Waiting ~> Holds(p) \/ ~Alive(p)

-----------------------------------------------------------------------------
(* The inductive invariant behind mutual exclusion, for a lock whose       *)
(* holders stay within maxHoldMs and whose breakers survive their turn.    *)

Owner(f) == f[1]

\* A file that was created and whose name no process can create again.
Used(f) ==
  \/ f[2] < round[Owner(f)]
  \/ f[2] = round[Owner(f)] /\ pc[Owner(f)] \notin Waiting

\* Who holds has its file at the path; a live owner of that file holds.
HolderHasLock ==
  /\ \A p \in Procs : Holds(p) => lock = Mine(p)
  /\ lock # NoFile => /\ Used(lock)
                      /\ Alive(Owner(lock)) => Holds(Owner(lock))
  /\ lock # NoFile /\ lockAged => ~Alive(Owner(lock))
  /\ overdue = {}

\* The marker is the turn.
MarkerIsTurn ==
  /\ \A p \in Procs : pc[p] \in Turn <=> p \in marker
  /\ \A p, q \in marker : p = q
  /\ ~markerAged
  /\ \A p \in Procs : pc[p] # "clear"

\* What a breaker judged stale has a dead owner, or is gone for good.
JudgedIsStale ==
  \A p \in Procs :
    /\ pc[p] \in {"judge", "mark"} \cup (Turn \ {"unmark", "check"})
         => seen[p] # NoFile
    /\ seen[p] # NoFile => Used(seen[p])
    /\ pc[p] \in {"mark"} \cup (Turn \ {"unmark", "check"})
         => ~Alive(Owner(seen[p])) \/ lock # seen[p]
    /\ pc[p] \in {"still", "rename"} => lock = seen[p]
    /\ aside[p] # NoFile => Used(aside[p]) /\ ~Alive(Owner(aside[p]))

LockInv == HolderHasLock /\ MarkerIsTurn /\ JudgedIsStale

=============================================================================
