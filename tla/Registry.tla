------------------------------ MODULE Registry ------------------------------
(***************************************************************************)
(* Who runs a conversation's turns (worker/registry.ts): its worker, for   *)
(* as long as it lives, or, with no worker reachable, one scripted send in *)
(* its own process.  The module follows one conversation through the       *)
(* worker's start (session-worker.ts) and shutdown (worker-shutdown.ts), a *)
(* client that finds, retires, replaces or spawns it (client.ts), and the  *)
(* scripted send that falls back to its own process (scripted-send.ts).    *)
(*                                                                         *)
(* The files are the owner file, the socket at the conversation's path,    *)
(* the worker's record and the handoff request.  Each is named by the      *)
(* process that made it: an owner's nonce, a record's token and a socket's *)
(* inode are all made once in a process's life.                            *)
(*                                                                         *)
(* Time is kept as marks: a file may be marked older than its limit        *)
(* whenever nobody refreshes it.  A process refreshes its owner file for   *)
(* as long as it is alive and its loop runs; one that hangs, or whose       *)
(* laptop sleeps, does not and takes no other step, though a listening      *)
(* socket of its still answers.  Standing still within the limit is only   *)
(* being slow, which any process here may be.                              *)
(***************************************************************************)
EXTENDS Naturals, FiniteSets

CONSTANTS Workers,    \* processes that can be started as the worker
          Windows,    \* processes that open the conversation
          Scripts,    \* processes that send one message from a script
          Away,       \* processes that may be on another machine (the
                      \* machines share a home)
          None,
          LongHangs,  \* whether a worker may hang past OWNER_STALE_MS with
                      \* another machine looking on
          Suspends,   \* whether a process that has the conversation and does
                      \* not serve (a scripted send, a worker that starts or
                      \* stops) may stand still past OWNER_STALE_MS
          LateReach,  \* whether a worker found stalled may come round and
                      \* leave before its socket is tried
          MaxCrashes, \* bound: processes that are killed
          MaxHangs    \* bound: how often a process hangs

Clients == Windows \cup Scripts
Runners == Workers \cup Scripts \* those that take the conversation
Procs == Workers \cup Clients

ASSUME RegistryAssumption ==
         /\ Workers \cap Clients = {} /\ Windows \cap Scripts = {}
         /\ None \notin Procs \cup {"here", "there"} /\ Away \subseteq Procs
         /\ LongHangs \in BOOLEAN /\ Suspends \in BOOLEAN
         /\ LateReach \in BOOLEAN
         /\ MaxCrashes \in Nat /\ MaxHangs \in Nat

VARIABLES
  apart,      \* whether there is another machine
  pc,         \* where each process is
  owner,      \* who made the file at the owner path
  ownerAged,  \* whether that file is older than OWNER_STALE_MS
  marker,     \* who made the owner file's `.breaking`
  raw,        \* the owner each process read and judges
  socket,     \* who bound the socket at the conversation's path
  record,     \* who wrote the worker record
  handoff,    \* the machine a fresh handoff request names
  turn,       \* whose message each worker is running
  hung,       \* the processes whose loop is stuck, or that are suspended
  seen,       \* the record each client goes by
  try,        \* how each client looks for the worker
  crashes, hangs

ownerVars == <<owner, ownerAged, marker, raw>>
diskVars == <<ownerVars, socket, record, handoff>>
clientVars == <<seen, try>>
faultVars == <<hung, crashes, hangs, apart>>
vars == <<pc, diskVars, turn, clientVars, faultVars>>

Taking == {"take", "read", "judge", "reach", "mark", "look", "rename",
           "unmark", "wait"}
Starting == {"probe", "unlink", "listen"}
Open == {"record", "serve", "close"}     \* the server listens
Stopping == {"close", "forget", "forget2", "unsock", "unsock2", "letgo",
             "letgo2"}
Holding == Starting \cup Open \cup Stopping \cup {"turn"}
Over == {"gone", "dead", "done", "failed"}
Talking == {"unborn", "idle", "top", "check", "retire", "released", "spawn",
            "poll", "connect", "join", "replace", "attached", "queued",
            "running"}
Labels == Talking \cup Taking \cup Holding \cup Over

Init ==
  /\ apart \in BOOLEAN
  /\ pc = [p \in Procs |-> IF p \in Workers THEN "unborn" ELSE "idle"]
  /\ owner = None /\ ownerAged = FALSE
  /\ marker = None
  /\ raw = [p \in Runners |-> None]
  /\ socket = None /\ record = None /\ handoff = None
  /\ turn = [w \in Workers |-> None]
  /\ hung = {}
  /\ seen = [c \in Clients |-> None]
  /\ try = [c \in Clients |-> IF c \in Scripts THEN "existing" ELSE "attach"]
  /\ crashes = 0 /\ hangs = 0

Place(p) == IF apart /\ p \in Away THEN "there" ELSE "here"
Alive(p) == pc[p] \notin Over \cup {"unborn"}
Goto(p, label) == pc' = [pc EXCEPT ![p] = label]
\* For a process that may be hung: those that have the conversation.
At(p, label) == pc[p] = label /\ p \notin hung

\* workerIsReachable, asked on one machine: a listening socket is connected
\* to whether or not its process's loop runs.
Reachable(place) ==
  socket # None /\ pc[socket] \in Open /\ Place(socket) = place

\* processAlive and workerIsReachable for what a record says.
RecordIsLive(c, w) ==
  w # None /\ Place(w) = Place(c) /\ Alive(w) /\ Reachable(Place(c))

-----------------------------------------------------------------------------
(* takeConversation.                                                       *)

\* The link makes the owner file, complete, or fails.
Take(p) ==
  /\ pc[p] = "take"
  /\ IF owner = None
     THEN /\ owner' = p /\ ownerAged' = FALSE
          /\ Goto(p, IF p \in Workers THEN "probe" ELSE "turn")
     ELSE Goto(p, "read") /\ UNCHANGED <<owner, ownerAged>>
  /\ raw' = [raw EXCEPT ![p] = None]
  /\ UNCHANGED <<marker, socket, record, handoff, turn, clientVars,
                 faultVars>>

ReadOwner(p) ==
  /\ pc[p] = "read"
  /\ raw' = [raw EXCEPT ![p] = owner]
  /\ Goto(p, IF owner = None THEN "take" ELSE "judge")
  /\ UNCHANGED <<owner, ownerAged, marker, socket, record, handoff, turn,
                 clientVars, faultVars>>

\* Who is found live is left alone: a worker leaves to one of its own
\* machine, and waits for a script or another machine's; a script goes back
\* to look for the worker.
Yielded(p) ==
  IF p \in Workers /\ raw[p] \in Workers /\ Place(raw[p]) = Place(p)
  THEN "gone" ELSE "wait"

\* ownerIsLive, up to the socket: the age of the file at the path now, the
\* process of the owner read before.  FALSE sends it to breakStaleLock.
Judge(p) ==
  LET here == Place(raw[p]) = Place(p)
      fresh == owner # None /\ ~ownerAged
      live == fresh /\ (here => Alive(raw[p]))
      stalled == owner # None /\ here /\ Alive(raw[p]) /\ raw[p] \in Workers
  IN /\ pc[p] = "judge"
     /\ \/ live /\ Goto(p, Yielded(p))
        \/ ~live /\ stalled /\ Goto(p, "reach")
        \/ ~live /\ ~stalled /\ Goto(p, "mark")
     /\ UNCHANGED <<diskVars, turn, clientVars, faultVars>>

\* Faulty variant: a worker that stopped refreshing is not asked.
Reach_Skipped(p) ==
  /\ pc[p] = "reach"
  /\ Goto(p, "mark")
  /\ UNCHANGED <<diskVars, turn, clientVars, faultVars>>

\* A worker that still answers on its socket keeps the conversation.
Reach(p) ==
  /\ pc[p] = "reach"
  /\ Goto(p, IF Reachable(Place(p)) THEN Yielded(p) ELSE "mark")
  /\ UNCHANGED <<diskVars, turn, clientVars, faultVars>>

\* Sooner or later it tries again; a worker only for 30 minutes.
Wait(p) ==
  /\ pc[p] = "wait"
  /\ IF p \in Workers
     THEN Goto(p, "take") \/ Goto(p, "gone")
     ELSE Goto(p, "top")
  /\ UNCHANGED <<diskVars, turn, clientVars, faultVars>>

\* breakStaleLock: one breaker at a time; the marker of a killed one is
\* removed once it is old, and the conversation tried for again.
Mark(p) ==
  /\ pc[p] = "mark"
  /\ IF marker = None
     THEN marker' = p /\ Goto(p, "look")
     ELSE /\ \/ pc[marker] = "dead" /\ marker' = None
             \/ UNCHANGED marker
          /\ Goto(p, "take")
  /\ UNCHANGED <<owner, ownerAged, raw, socket, record, handoff, turn,
                 clientVars, faultVars>>

\* Compared with what was read before the turn; not judged again.
LookAgain(p) ==
  /\ pc[p] = "look"
  /\ Goto(p, IF owner = raw[p] THEN "rename" ELSE "unmark")
  /\ UNCHANGED <<diskVars, turn, clientVars, faultVars>>

\* A file that is not the one looked at is put back.
SetAside(p) ==
  /\ pc[p] = "rename"
  /\ owner' = IF owner = raw[p] THEN None ELSE owner
  /\ Goto(p, "unmark")
  /\ UNCHANGED <<ownerAged, marker, raw, socket, record, handoff, turn,
                 clientVars, faultVars>>

Unmark(p) ==
  /\ pc[p] = "unmark"
  /\ marker' = None
  /\ Goto(p, "take")
  /\ UNCHANGED <<owner, ownerAged, raw, socket, record, handoff, turn,
                 clientVars, faultVars>>

-----------------------------------------------------------------------------
(* The hold's release: read, and removed only if it is still this one's.   *)

OverAs(p) == IF p \in Workers THEN "gone" ELSE "done"

Release(p) ==
  /\ At(p, "letgo")
  /\ Goto(p, IF owner = p THEN "letgo2" ELSE OverAs(p))
  /\ turn' = IF p \in Workers THEN [turn EXCEPT ![p] = None] ELSE turn
  /\ UNCHANGED <<diskVars, clientVars, faultVars>>

RemoveOwner(p) ==
  /\ At(p, "letgo2")
  /\ owner' = None
  /\ Goto(p, OverAs(p))
  /\ UNCHANGED <<ownerAged, marker, raw, socket, record, handoff, turn,
                 clientVars, faultVars>>

-----------------------------------------------------------------------------
(* A worker's life: runSessionWorker and its shutdown.                     *)

\* Started by something other than a client below: a worker that goes while
\* a turn is owed, a chat being warmed.
Start(w) ==
  /\ pc[w] = "unborn"
  /\ Goto(w, "take")
  /\ UNCHANGED <<diskVars, turn, clientVars, faultVars>>

\* A worker that still answers keeps the conversation, hold or not.
Probe(w) ==
  /\ At(w, "probe")
  /\ Goto(w, IF Reachable(Place(w)) THEN "letgo" ELSE "unlink")
  /\ UNCHANGED <<diskVars, turn, clientVars, faultVars>>

ClearPath(w) ==
  /\ At(w, "unlink")
  /\ socket' = None
  /\ Goto(w, "listen")
  /\ UNCHANGED <<ownerVars, record, handoff, turn, clientVars, faultVars>>

\* Binding fails on a path that is there; the hold is released.
Listen(w) ==
  /\ At(w, "listen")
  /\ IF socket = None
     THEN socket' = w /\ Goto(w, "record")
     ELSE UNCHANGED socket /\ Goto(w, "letgo")
  /\ UNCHANGED <<ownerVars, record, handoff, turn, clientVars, faultVars>>

WriteRecord(w) ==
  /\ At(w, "record")
  /\ record' = w
  /\ Goto(w, "serve")
  /\ UNCHANGED <<ownerVars, socket, handoff, turn, clientVars, faultVars>>

Serves(w) == At(w, "serve")
Attached(w) == {c \in Clients :
                  pc[c] \in {"attached", "queued", "running"} /\ seen[c] = w}

\* retireBlocker: it is in the middle of something.
Busy(w) == turn[w] # None \/ \E c \in Attached(w) : pc[c] = "queued"

\* Somebody found it stalled and is about to try its socket.
Stalled(w) ==
  \E p \in Runners : raw[p] = w /\ pc[p] \in {"reach", "mark", "look", "rename"}
CanLeave(w) == LateReach \/ ~Stalled(w)

Shutdown(w) ==
  /\ CanLeave(w)
  /\ Goto(w, "close")
  /\ UNCHANGED <<diskVars, turn, clientVars, faultVars>>

IdleExit(w) == Serves(w) /\ ~Busy(w) /\ Attached(w) = {} /\ Shutdown(w)

\* Another machine asked for the conversation; windows do not pin it.
HandOver(w) ==
  /\ Serves(w) /\ ~Busy(w)
  /\ handoff \notin {None, Place(w)}
  /\ Shutdown(w)

\* SIGTERM ends it in the middle of a turn, too.
Signal(w) == Serves(w) /\ Shutdown(w)

\* Faulty variant: the hold is released before the files are removed.
CloseServer_ReleasesFirst(w) ==
  /\ At(w, "close")
  /\ socket' = None
  /\ owner' = IF owner = w THEN None ELSE owner
  /\ Goto(w, "forget")
  /\ UNCHANGED <<ownerAged, marker, raw, record, handoff, turn, clientVars,
                 faultVars>>

\* The windows are told, their connections end, the server is closed and
\* with it the path removed.
CloseServer(w) ==
  /\ At(w, "close")
  /\ socket' = None
  /\ Goto(w, "forget")
  /\ UNCHANGED <<ownerVars, record, handoff, turn, clientVars, faultVars>>

\* Faulty variant: the record is left.
Forget_Left(w) ==
  /\ At(w, "forget")
  /\ Goto(w, "unsock")
  /\ UNCHANGED <<diskVars, turn, clientVars, faultVars>>

\* removeWorkerRecord: only while it is still this worker's.
Forget(w) ==
  /\ At(w, "forget")
  /\ Goto(w, IF record = w THEN "forget2" ELSE "unsock")
  /\ UNCHANGED <<diskVars, turn, clientVars, faultVars>>

RemoveRecord(w) ==
  /\ At(w, "forget2")
  /\ record' = None
  /\ Goto(w, "unsock")
  /\ UNCHANGED <<ownerVars, socket, handoff, turn, clientVars, faultVars>>

HeldStill(w) ==
  /\ At(w, "unsock")
  /\ Goto(w, IF owner = w THEN "unsock2" ELSE "letgo")
  /\ UNCHANGED <<diskVars, turn, clientVars, faultVars>>

RemoveSocket(w) ==
  /\ At(w, "unsock2")
  /\ socket' = None
  /\ Goto(w, "letgo")
  /\ UNCHANGED <<ownerVars, record, handoff, turn, clientVars, faultVars>>

-----------------------------------------------------------------------------
(* A client: attachExisting, attach, spawnSessionWorker (client.ts), and   *)
(* sendScriptedTurn, which tries the first, then the second, and once no   *)
(* worker came up runs the turn in its own process.                        *)

\* No worker to talk to, for this way of looking.
Without(c) ==
  IF c \in Windows
  THEN Goto(c, "failed") /\ UNCHANGED try
  ELSE /\ Goto(c, IF try[c] = "existing" THEN "top" ELSE "take")
       /\ try' = [try EXCEPT ![c] = IF @ = "existing" THEN "attach"
                                                      ELSE "last"]

\* None is running: attach starts one, attachExisting does not.
NoneRuns(c) == IF try[c] = "attach" THEN Goto(c, "spawn") /\ UNCHANGED try
                                    ELSE Without(c)

ClientStep(c) == UNCHANGED <<diskVars, turn, faultVars>>

Ask(c) ==
  /\ pc[c] = "idle"
  /\ Goto(c, "top")
  /\ UNCHANGED clientVars /\ ClientStep(c)

\* findRunningWorker: the record, and then whether it is live.
ReadRecord(c) ==
  /\ pc[c] = "top"
  /\ seen' = [seen EXCEPT ![c] = record]
  /\ IF record = None THEN NoneRuns(c)
                      ELSE Goto(c, "check") /\ UNCHANGED try
  /\ ClientStep(c)

\* A live worker of this build is connected to, one of another is asked to
\* step down (a rebuild may come at any time).
CheckRecord(c) ==
  /\ pc[c] = "check"
  /\ UNCHANGED seen
  /\ IF RecordIsLive(c, seen[c])
     THEN (Goto(c, "connect") \/ Goto(c, "retire")) /\ UNCHANGED try
     ELSE NoneRuns(c)
  /\ ClientStep(c)

\* askToRetire: the worker decides.  One that does not answer, or refuses
\* the token, is kept if it is still there.
Retire(c) ==
  LET w == seen[c]
      answers == RecordIsLive(c, w) /\ socket = w /\ w \notin hung
  IN /\ pc[c] = "retire"
     /\ UNCHANGED <<seen, diskVars, turn, faultVars>>
     /\ \/ /\ answers /\ ~Busy(w) /\ CanLeave(w) \* retired
           /\ pc' = [pc EXCEPT ![c] = "released", ![w] = "close"]
           /\ UNCHANGED try
        \/ /\ IF RecordIsLive(c, w) /\ (answers => Busy(w))
              THEN Goto(c, "connect") /\ UNCHANGED try
              ELSE ~answers /\ NoneRuns(c)

\* socketReleased: 3 s at most, then it is talked to as it is.
Released(c) ==
  /\ pc[c] = "released"
  /\ UNCHANGED seen
  /\ \/ ~Reachable(Place(c)) /\ NoneRuns(c)
     \/ Reachable(Place(c)) /\ Goto(c, "connect") /\ UNCHANGED try
  /\ ClientStep(c)

\* The worker's process is started; one that cannot start is only missed by
\* the poll.
Spawn(c) ==
  LET slots == {w \in Workers : pc[w] = "unborn" /\ Place(w) = Place(c)}
  IN /\ pc[c] = "spawn"
     /\ IF slots = {}
        THEN Goto(c, "poll")
        ELSE \E w \in slots : pc' = [pc EXCEPT ![c] = "poll", ![w] = "take"]
     /\ UNCHANGED clientVars /\ ClientStep(c)

\* Faulty variant: a record whose socket answers is taken for live.
PollRecord_AnyAnswer(c) ==
  /\ pc[c] = "poll"
  /\ record # None /\ Reachable(Place(c))
  /\ seen' = [seen EXCEPT ![c] = record]
  /\ Goto(c, "join")
  /\ UNCHANGED try /\ ClientStep(c)

PollRecord(c) ==
  /\ pc[c] = "poll"
  /\ RecordIsLive(c, record)
  /\ seen' = [seen EXCEPT ![c] = record]
  /\ Goto(c, "join")
  /\ UNCHANGED try /\ ClientStep(c)

\* conversationHolder, as one look.
HolderSeen(c) ==
  LET fresh == ~ownerAged
      here == Place(owner) = Place(c)
  IN IF owner = None THEN None
     ELSE IF /\ here => Alive(owner)
             /\ fresh \/ (here /\ owner \in Workers /\ Reachable(Place(c)))
     THEN owner ELSE None

\* Faulty variant: the request names who asks, not its machine.
AskHandoff_NamesAsker(c) ==
  /\ pc[c] = "poll" /\ HolderSeen(c) \in Workers
  /\ Place(HolderSeen(c)) # Place(c)
  /\ handoff' = c
  /\ UNCHANGED <<pc, ownerVars, socket, record, turn, clientVars, faultVars>>

\* requestConversationHandoff.
AskHandoff(c) ==
  LET holder == HolderSeen(c)
  IN /\ pc[c] = "poll"
     /\ holder \in Workers /\ Place(holder) # Place(c)
     /\ handoff # Place(c) /\ handoff' = Place(c)
     /\ UNCHANGED <<pc, ownerVars, socket, record, turn, clientVars,
                    faultVars>>

\* A scripted turn and another machine's holder are waited for.
PollTimesOut(c) ==
  LET holder == HolderSeen(c)
  IN /\ pc[c] = "poll"
     /\ holder # None => holder \in Workers /\ Place(holder) = Place(c)
     /\ Without(c)
     /\ UNCHANGED seen /\ ClientStep(c)

\* connectTo: whoever listens at the path answers if the token is its own.
\* attach asks a silent worker it found twice and then replaces it.
Connect(c) ==
  /\ pc[c] \in {"connect", "join"}
  /\ UNCHANGED seen
  /\ IF /\ pc[c] = "connect" /\ try[c] = "attach"
        /\ Reachable(Place(c)) /\ socket \in hung
     THEN Goto(c, "replace") /\ UNCHANGED try
     ELSE IF Reachable(Place(c)) /\ socket = seen[c] /\ socket \notin hung
     THEN Goto(c, "attached") /\ UNCHANGED try
     ELSE Without(c)
  /\ ClientStep(c)

\* Dead of a signal: nothing is cleaned up.
Dies(p) == /\ hung' = hung \ {p}
           /\ turn' = IF p \in Workers THEN [turn EXCEPT ![p] = None]
                                       ELSE turn

\* replaceUnresponsiveWorker: by the pid in the record, unless another
\* window replaced it.  A worker that hangs dies of SIGKILL; one that came
\* round shuts down on SIGTERM, in time or not.
Replace(c) ==
  LET w == seen[c]
  IN /\ pc[c] = "replace"
     /\ IF record \notin {None, w} \/ ~Alive(w)
        THEN Goto(c, "spawn") /\ UNCHANGED <<hung, turn>>
        ELSE \/ /\ pc' = [pc EXCEPT ![c] = "spawn", ![w] = "dead"]
                /\ Dies(w)
             \/ /\ Serves(w) /\ CanLeave(w)
                /\ pc' = [pc EXCEPT ![c] = "spawn", ![w] = "close"]
                /\ UNCHANGED <<hung, turn>>
     /\ UNCHANGED <<diskVars, clientVars, crashes, hangs, apart>>

\* A message runs now if nothing does, or waits in the queue.
Submit(c) ==
  LET w == seen[c]
  IN /\ pc[c] = "attached" /\ Serves(w)
     /\ IF turn[w] = None
        THEN Goto(c, "running") /\ turn' = [turn EXCEPT ![w] = c]
        ELSE Goto(c, "queued") /\ UNCHANGED turn
     /\ UNCHANGED <<diskVars, clientVars, faultVars>>

RunQueued(c) ==
  LET w == seen[c]
  IN /\ pc[c] = "queued" /\ Serves(w) /\ turn[w] = None
     /\ turn' = [turn EXCEPT ![w] = c]
     /\ Goto(c, "running")
     /\ UNCHANGED <<diskVars, clientVars, faultVars>>

\* The turn ends, whether or not its client is still there.
EndTurn(w) ==
  LET c == turn[w]
  IN /\ Serves(w) /\ c # None
     /\ turn' = [turn EXCEPT ![w] = None]
     /\ pc' = [pc EXCEPT ![c] = IF @ = "running" THEN "done" ELSE @]
     /\ UNCHANGED <<diskVars, clientVars, faultVars>>

\* The worker went.  A turn that ran is reported; a script's message that
\* did not start is taken back and sent again.
WorkerGone(c) ==
  /\ pc[c] \in {"attached", "queued", "running"}
  /\ pc[seen[c]] \notin {"serve", "close"}
  /\ IF c \in Scripts /\ pc[c] # "running"
     THEN /\ Goto(c, "top")
          /\ try' = [try EXCEPT ![c] = IF @ = "last" THEN @ ELSE "existing"]
     ELSE Goto(c, "failed") /\ UNCHANGED try
  /\ UNCHANGED seen /\ ClientStep(c)

\* The scripted send's own turn is over; what it left running is stopped.
EndOwnTurn(s) ==
  /\ At(s, "turn")
  /\ Goto(s, "letgo")
  /\ UNCHANGED <<diskVars, turn, clientVars, faultVars>>

-----------------------------------------------------------------------------
(* Time and faults.                                                        *)

OwnerAges ==
  /\ owner # None /\ ~ownerAged
  /\ \/ ~Alive(owner)
     \/ owner \in hung /\ (pc[owner] = "serve" /\ apart => LongHangs)
  /\ ownerAged' = TRUE
  /\ UNCHANGED <<pc, owner, marker, raw, socket, record, handoff, turn,
                 clientVars, faultVars>>

HandoffAges ==
  /\ handoff # None
  /\ handoff' = None
  /\ UNCHANGED <<pc, ownerVars, socket, record, turn, clientVars, faultVars>>

Crash(p) ==
  /\ Alive(p) /\ pc[p] # "idle" /\ crashes < MaxCrashes
  /\ crashes' = crashes + 1
  /\ Goto(p, "dead")
  /\ Dies(p)
  /\ UNCHANGED <<diskVars, clientVars, hangs, apart>>

Hang(p) ==
  /\ p \notin hung /\ hangs < MaxHangs
  /\ (p \in Workers /\ pc[p] = "serve") \/ (Suspends /\ pc[p] \in Holding)
  /\ hangs' = hangs + 1
  /\ hung' = hung \cup {p}
  /\ UNCHANGED <<pc, diskVars, turn, clientVars, crashes, apart>>

\* The watchdog's thread ends a loop that never yields.
Watchdog(w) ==
  /\ w \in hung
  /\ Goto(w, "dead")
  /\ Dies(w)
  /\ UNCHANGED <<diskVars, clientVars, crashes, hangs, apart>>

\* The overdue refresh is the first thing the loop does.
Wake(p) ==
  /\ p \in hung
  /\ hung' = hung \ {p}
  /\ ownerAged' = IF owner = p THEN FALSE ELSE ownerAged
  /\ UNCHANGED <<pc, owner, marker, raw, socket, record, handoff, turn,
                 clientVars, crashes, hangs, apart>>

-----------------------------------------------------------------------------

TakingStep(p) ==
  \/ Take(p) \/ ReadOwner(p) \/ Judge(p) \/ Reach(p) \/ Wait(p) \/ Mark(p)
  \/ LookAgain(p) \/ SetAside(p) \/ Unmark(p) \/ Release(p) \/ RemoveOwner(p)

WorkerStep(w) ==
  \/ Probe(w) \/ ClearPath(w) \/ Listen(w) \/ WriteRecord(w)
  \/ CloseServer(w) \/ Forget(w) \/ RemoveRecord(w) \/ HeldStill(w)
  \/ RemoveSocket(w) \/ EndTurn(w)

AskingStep(c) ==
  \/ ReadRecord(c) \/ CheckRecord(c) \/ Retire(c) \/ Released(c) \/ Spawn(c)
  \/ PollRecord(c) \/ PollTimesOut(c) \/ Connect(c) \/ Replace(c)
  \/ Submit(c) \/ RunQueued(c) \/ WorkerGone(c)

Next ==
  \/ \E p \in Runners : TakingStep(p) \/ Crash(p) \/ Hang(p) \/ Wake(p)
  \/ \E w \in Workers : \/ WorkerStep(w) \/ Start(w) \/ IdleExit(w)
                        \/ HandOver(w) \/ Signal(w) \/ Watchdog(w)
  \/ \E c \in Clients : AskingStep(c) \/ Ask(c) \/ AskHandoff(c)
  \/ \E s \in Scripts : EndOwnTurn(s)
  \/ OwnerAges \/ HandoffAges

Spec == Init /\ [][Next]_vars

-----------------------------------------------------------------------------
(* Properties.                                                             *)

TypeOK ==
  /\ pc \in [Procs -> Labels]
  /\ owner \in Runners \cup {None} /\ ownerAged \in BOOLEAN
  /\ marker \in Runners \cup {None}
  /\ raw \in [Runners -> Runners \cup {None}]
  /\ socket \in Workers \cup {None} /\ record \in Workers \cup {None}
  /\ handoff \in {"here", "there", None}
  /\ turn \in [Workers -> Clients \cup {None}]
  /\ hung \in SUBSET Runners
  /\ seen \in [Clients -> Workers \cup {None}]
  /\ try \in [Clients -> {"existing", "attach", "last"}]
  /\ apart \in BOOLEAN /\ crashes \in 0..MaxCrashes /\ hangs \in 0..MaxHangs

\* "Exactly one at a time" (registry.ts:210): a process takes the
\* conversation only once the last one that had it let go or died, whatever
\* hung, was killed or was judged gone in between.
Abstract == INSTANCE Mutex WITH Procs <- Runners,
                                holder <- {p \in Runners : pc[p] \in Holding}
OneRunner == Abstract!Spec

\* "Must never delete the record of the worker that replaced it"
\* (registry.ts:193), and so for the socket and the owner file: no step of
\* one process takes away what another put there and still holds.
OthersKept ==
  [][\A p, q \in Runners :
       p # q /\ pc'[q] # pc[q] /\ pc[p] \in Holding /\ pc'[p] = pc[p]
         => /\ owner = p => owner' = p
            /\ socket = p => socket' = p
            /\ record = p => record' = p]_vars

\* "It is that record's process answering" (client.ts:263): what a client
\* finds live by its record is what listens at the path, so it is not refused
\* for another worker's token.
FoundIsListening ==
  [][\A c \in Clients :
       pc[c] \in {"check", "poll"} /\ pc'[c] \in {"connect", "join"}
         => socket = seen'[c]]_vars

\* When every process that ran is over and none was killed, nothing of the
\* conversation's is left at its paths: no owner file, marker, socket or
\* record that the next one would have to judge.
CleanExit ==
  (\A p \in Runners : pc[p] \in {"unborn", "idle"} \cup (Over \ {"dead"}))
    => owner = None /\ marker = None /\ socket = None /\ record = None

-----------------------------------------------------------------------------
(* The inductive invariant behind OneRunner and OthersKept, where a process *)
(* that has the conversation stands still past the limit only while it     *)
(* serves, with no other machine looking on, and does not come round and   *)
(* leave while somebody is about to try its socket.                        *)

\* Who has the conversation is who the owner file names; a file nobody
\* refreshes is a dead process's or a hung worker's.
HolderIsOwner ==
  /\ \A p \in Runners : pc[p] \in Holding => owner = p
  /\ owner # None => pc[owner] \in Holding \cup {"dead"}
  /\ owner # None /\ ownerAged
       => pc[owner] = "dead" \/ (owner \in hung /\ ~apart)
  /\ \A w \in hung : w \in Workers /\ pc[w] = "serve"

\* Who listens does so at the conversation's path.
ListenerAtPath == \A w \in Workers : pc[w] \in Open => socket = w

MarkerIsTurn ==
  \A p \in Runners : pc[p] \in {"look", "rename", "unmark"} => marker = p

\* An owner that was read had the conversation, and has it or is over; one
\* that is asked at its socket is over or serves; one that is broken is over.
JudgedIsOver ==
  \A p \in Runners :
    /\ raw[p] # None => pc[raw[p]] \in Holding \cup Over
    /\ pc[p] = "judge" => raw[p] # None
    /\ pc[p] = "reach" => /\ raw[p] \in Workers /\ Place(raw[p]) = Place(p)
                          /\ pc[raw[p]] \in Over \cup {"serve"}
    /\ pc[p] \in {"mark", "look", "rename"}
         => raw[p] = None \/ pc[raw[p]] \in Over

RegistryInv ==
  HolderIsOwner /\ ListenerAtPath /\ MarkerIsTurn /\ JudgedIsOver

=============================================================================
